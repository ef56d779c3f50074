------------------------------- MODULE Tokens -------------------------------
(***************************************************************************)
(* The tokens of JWTAuth (monitoring/production_monitoring.hpp): a payload *)
(* in base64url without padding, signed with a key.  A payload is a        *)
(* sequence of bytes: the user between quotes, the text "exp": and the     *)
(* digits of the expiry, the text "iat": and its digits, the brace.  A     *)
(* text of several characters is one byte here; a signature is the key and *)
(* what it signs.                                                          *)
(***************************************************************************)
EXTENDS Integers, Sequences, SequencesExt

Sub == 201
Quote == 34
Exp_ == 202
Iat == 203
Brace == 125
DigitBytes == 48 .. 57
Digits(n) == IF n < 10 THEN <<48 + n>> ELSE <<48 + (n \div 10), 48 + (n % 10)>>

Payload(user, exp, iat) ==
    <<Sub>> \o user \o <<Quote, Exp_>> \o Digits(exp) \o <<Iat>> \o Digits(iat) \o <<Brace>>

(* Six bits a character, the last group cut to the characters it needs.    *)
Encoded(bytes) ==
    LET n == Len(bytes)
        Byte(i) == IF i <= n THEN bytes[i] ELSE 0
        Triple(g) == Byte(3*g + 1) * 2^16 + Byte(3*g + 2) * 2^8 + Byte(3*g + 3)
        chars == [c \in 1 .. 4 * ((n + 2) \div 3) |->
                    (Triple((c - 1) \div 4) \div 2^(6 * (3 - ((c - 1) % 4)))) % 2^6]
    IN  SubSeq(chars, 1, Len(chars) - (IF n % 3 = 0 THEN 0 ELSE 3 - (n % 3)))

(* Only whole groups of four are read: the bytes of a cut group are lost.  *)
Decoded(chars) ==
    LET Triple(g) == chars[4*g + 1] * 2^18 + chars[4*g + 2] * 2^12
                       + chars[4*g + 3] * 2^6 + chars[4*g + 4]
    IN  [b \in 1 .. 3 * (Len(chars) \div 4) |->
            (Triple((b - 1) \div 3) \div 2^(8 * (2 - ((b - 1) % 3)))) % 2^8]

CreateToken(user, key, now, life) ==
    LET payload == Encoded(Payload(user, now + life, now))
    IN  [payload |-> payload, signature |-> <<key, payload>>]

Behind(bytes, mark) ==
    SubSeq(bytes, 1 + CHOOSE k \in 1 .. Len(bytes) : bytes[k] = mark /\ mark \notin {bytes[j] : j \in 1 .. k - 1},
           Len(bytes))
(* The longest prefix of accepted bytes.                                   *)
Leading(bytes, accepted) ==
    SubSeq(bytes, 1, CHOOSE k \in 0 .. Len(bytes) :
        /\ \A j \in 1 .. k : bytes[j] \in accepted
        /\ k < Len(bytes) => bytes[k + 1] \notin accepted)
Number(ds) ==
    LET upTo[k \in 0 .. Len(ds)] == IF k = 0 THEN 0 ELSE 10 * upTo[k - 1] + ds[k] - 48
    IN  upTo[Len(ds)]

Validates(token, key, now) ==
    LET json == Decoded(token.payload)
    IN  /\ token.signature = <<key, token.payload>>
        /\ Contains(json, Exp_)
        /\ LET ds == Leading(Behind(json, Exp_), DigitBytes)
           IN  ds # <<>> /\ now < Number(ds)
GetUser(token) ==
    LET json == Decoded(token.payload)
        rest == Behind(json, Sub)
    IN  IF Contains(json, Sub) /\ Contains(rest, Quote)
        THEN Leading(rest, (0 .. 255) \ {Quote}) ELSE <<>>
=============================================================================
