----------------------------- MODULE RestServer -----------------------------
(***************************************************************************)
(* RestApiServer (api/rest_api.hpp): start, stop and the destructor on one *)
(* side, detached threads in server_loop on the other, around one socket   *)
(* member and one plain flag.  Descriptors are numbers the system hands    *)
(* out again; a thread that is blocked in accept keeps its listening       *)
(* socket alive after the number is closed.                                *)
(***************************************************************************)
EXTENDS Integers, FiniteSets

CONSTANTS Descriptors,   \* numbers the system can hand out
          RequestTexts,  \* sets of routes whose text a request contains; a client
                         \* of {"silence"} sends nothing and closes
          MaxStarts, MaxConnections

VARIABLES socketFd,     \* socket_fd_, not initialised before start
          running,      \* running_
          opened,       \* descriptor -> what it refers to
          threads,      \* start number -> state of its thread
          pending,      \* start number -> connections that wait on its socket
          answers,      \* connection -> responses written to it
          requests,     \* connection -> texts its request contains
          usage,        \* history: "stopped", "started", or "disorderly" after a
                        \* stop that no start went before, a second stop
          sinceStop     \* history: start number -> answers since the last stop

serverVars == <<socketFd, running, opened, threads, pending, answers, requests, usage, sinceStop>>

Free == <<"free", 0>>
Gone == [at |-> "ended", on |-> 0, client |-> 0]

ServerInit ==
    /\ socketFd \in Descriptors /\ running = FALSE
    /\ opened = [d \in Descriptors |-> Free]
    /\ threads = <<>> /\ pending = <<>> /\ answers = <<>> /\ requests = <<>>
    /\ usage = "stopped" /\ sinceStop = <<>>

(* handle_request looks for the texts anywhere in the request, in order.   *)
Response(texts) ==
    CASE "health" \in texts -> "health"
      [] "health" \notin texts /\ "completions" \in texts -> "completions"
      [] texts = {"chat"} -> "chat"
      [] OTHER -> "not found"

Put1(f, k, v) == [x \in DOMAIN f \cup {k} |-> IF x = k THEN v ELSE f[x]]
Starts == Cardinality(DOMAIN threads)

(* bind fails, and the new socket stays open, while another one listens:   *)
(* one that is open, or that a thread in accept keeps alive.               *)
PortTaken ==
    \/ \E b \in Descriptors : opened[b][1] = "listen"
    \/ \E t \in DOMAIN threads : threads[t].at = "accept"
Start ==
    /\ Starts < MaxStarts
    /\ usage' = IF usage = "disorderly" THEN usage ELSE "started"
    /\ \E d \in Descriptors :
        /\ opened[d] = Free
        /\ socketFd' = d
        /\ IF PortTaken
           THEN opened' = [opened EXCEPT ![d] = <<"leaked", 0>>]
                /\ UNCHANGED <<running, threads, pending, sinceStop>>
           ELSE LET k == Starts + 1
                IN  /\ opened' = [opened EXCEPT ![d] = <<"listen", k>>]
                    /\ running' = TRUE
                    /\ threads' = Put1(threads, k, [at |-> "test", on |-> 0, client |-> 0])
                    /\ pending' = Put1(pending, k, {})
                    /\ sinceStop' = [x \in DOMAIN threads' |-> 0]
    /\ UNCHANGED <<answers, requests>>

(* Called by the owner, and by the destructor.                             *)
Stop ==
    /\ running' = FALSE
    /\ opened' = [opened EXCEPT ![socketFd] = Free]
    /\ usage' = IF usage = "started" THEN "stopped" ELSE "disorderly"
    /\ sinceStop' = [x \in DOMAIN sinceStop |-> 0]
    /\ UNCHANGED <<socketFd, threads, pending, answers, requests>>

(* A client connects to a socket that somebody can still accept from.      *)
Connect(texts) ==
    LET c == Cardinality(DOMAIN answers) + 1
    IN  /\ c <= MaxConnections
        /\ \E k \in DOMAIN pending :
            /\ \/ \E d \in Descriptors : opened[d] = <<"listen", k>>
               \/ \E t \in DOMAIN threads : threads[t].at = "accept" /\ threads[t].on = k
            /\ pending' = [pending EXCEPT ![k] = @ \cup {c}]
        /\ answers' = Put1(answers, c, {})
        /\ requests' = Put1(requests, c, texts)
        /\ UNCHANGED <<socketFd, running, opened, threads, usage, sinceStop>>

Move(t, at, on, client) == threads' = [threads EXCEPT ![t] = [at |-> at, on |-> on, client |-> client]]

(* while (running_) accept(socket_fd_): an error goes round the loop.      *)
Test(t) ==
    /\ threads[t].at = "test"
    /\ IF ~running THEN threads' = [threads EXCEPT ![t] = Gone]
       ELSE /\ opened[socketFd][1] = "listen"
            /\ Move(t, "accept", opened[socketFd][2], 0)
    /\ UNCHANGED <<socketFd, running, opened, pending, answers, requests, usage, sinceStop>>
Accept(t) ==
    LET k == threads[t].on
    IN  /\ threads[t].at = "accept"
        /\ \E c \in pending[k], d \in Descriptors :
            /\ opened[d] = Free
            /\ opened' = [opened EXCEPT ![d] = <<"client", c>>]
            /\ pending' = [pending EXCEPT ![k] = @ \ {c}]
            /\ Move(t, "serve", d, c)
    /\ UNCHANGED <<socketFd, running, answers, requests, usage, sinceStop>>
BugServe(t) ==  \* the connection is not closed
    /\ threads[t].at = "serve"
    /\ answers' = [answers EXCEPT ![threads[t].client] = @ \cup {<<t, Response(requests[threads[t].client])>>}]
    /\ sinceStop' = [sinceStop EXCEPT ![t] = @ + 1]
    /\ Move(t, "test", 0, 0)
    /\ UNCHANGED <<socketFd, running, opened, pending, requests, usage>>
Serve(t) ==
    LET d == threads[t].on
        c == opened[d][2]
    IN  /\ threads[t].at = "serve"
        /\ answers' = IF opened[d][1] = "client" /\ "silence" \notin requests[c]
                      THEN [answers EXCEPT ![c] = @ \cup {<<t, Response(requests[c])>>}]
                      ELSE answers
        /\ opened' = [opened EXCEPT ![d] = Free]
        /\ sinceStop' = [sinceStop EXCEPT ![t] = @ + 1]
        /\ Move(t, "test", 0, 0)
        /\ UNCHANGED <<socketFd, running, pending, requests, usage>>

ServerNext ==
    \/ Start \/ Stop
    \/ \E texts \in RequestTexts : Connect(texts)
    \/ \E t \in DOMAIN threads : Test(t) \/ Accept(t) \/ Serve(t)

(* As long as every stop, the destructor's included, follows a start of    *)
(* its own (a start, a stop and the destructor are already disorderly:     *)
(* the second close may hit a number that is a client's by then), stop     *)
(* closes the socket start left, a connection gets at most one answer, the *)
(* one to its own request, and is open exactly while a thread serves it.   *)
(* However it is used, a thread answers at most the connection it waited   *)
(* for once the server is stopped.                                         *)
AnsweredOnce ==
    /\ usage = "started" => opened[socketFd][1] \in {"listen", "leaked"}
    /\ usage # "disorderly" =>
          /\ \A c \in DOMAIN answers :
                /\ Cardinality(answers[c]) <= 1
                /\ \A a \in answers[c] : a[2] = Response(requests[c])
          /\ \A t \in DOMAIN threads : threads[t].at = "serve" =>
                /\ opened[threads[t].on] = <<"client", threads[t].client>>
                /\ answers[threads[t].client] = {}
          /\ \A d \in Descriptors : opened[d][1] = "client" =>
                \E t \in DOMAIN threads : threads[t].at = "serve" /\ threads[t].on = d
    /\ ~running => \A t \in DOMAIN threads : sinceStop[t] <= 1
=============================================================================
