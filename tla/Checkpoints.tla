---------------------------- MODULE Checkpoints ----------------------------
(***************************************************************************)
(* Files that outlive the process: the shard a rank saves in a background  *)
(* thread (distributed/checkpointing.hpp) and the headers that             *)
(* ProductionTrainer saves and resumes from (nn/production_trainer.hpp).   *)
(* Files are written in place, from front to back; a crash leaves what was *)
(* written so far.  The caller makes no synchronous save_shard while a     *)
(* background save runs.                                                   *)
(***************************************************************************)
EXTENDS Integers, FiniteSets, Sequences

CONSTANTS ShardSizes, MaxSaves_,            \* floats in a shard; bound on saves
          Losses, Initial,                  \* losses below best_loss_ at the start
          SaveEvery, ModelSizes,            \* save_every_steps_, num_parameters
          MaxSteps, MaxLives                \* bounds on the trainer

ASSUME CheckpointsAssumption ==
    /\ ShardSizes \subseteq Nat \ {0} /\ SaveEvery \in Nat \ {0}
    /\ Losses \subseteq Int /\ Initial \in Int

VARIABLES file,     \* the shard on disk: Absent or [header, floats, of]
          writer,   \* Quiet or [by, size, of]: a save in progress
          saving,   \* save_in_progress_
          saveNo, whole,  \* history: saves begun; the last one, if it was not cut off
          step, best, model, ckpts,  \* of the trainer; ckpts: name -> fields written
          life                       \* history: process lives and resumptions

shardVars == <<file, writer, saving, saveNo, whole>>
trainerVars == <<step, best, model, ckpts, life>>

Absent == [header |-> -1, floats |-> 0, of |-> 0]
Quiet == [by |-> "nobody", size |-> 0, of |-> 0]

ShardInit ==
    /\ file = Absent /\ writer = Quiet /\ saving = FALSE
    /\ saveNo = 0 /\ whole = [of |-> 0, size |-> 0]

(* Opening truncates: the header reads as 0 from a file that has none yet. *)
BeginSave(by, size) ==
    /\ saveNo' = saveNo + 1
    /\ writer' = [by |-> by, size |-> size, of |-> saveNo + 1]
    /\ file' = [header |-> 0, floats |-> 0, of |-> saveNo + 1]
    /\ UNCHANGED whole
SaveShard(size) == writer = Quiet /\ BeginSave("caller", size) /\ UNCHANGED saving
SaveAsync(size) == ~saving /\ writer = Quiet /\ BeginSave("thread", size) /\ saving' = TRUE

WriteShard ==
    /\ writer # Quiet
    /\ \/ file.header = 0 /\ file' = [file EXCEPT !.header = writer.size]
       \/ file.header > 0 /\ file.floats < writer.size /\ file' = [file EXCEPT !.floats = @ + 1]
    /\ UNCHANGED <<writer, saving, saveNo, whole>>
EndSave ==
    /\ writer # Quiet /\ file.floats = writer.size
    /\ whole' = [of |-> writer.of, size |-> writer.size]
    /\ writer' = Quiet
    /\ saving' = FALSE
    /\ UNCHANGED <<file, saveNo>>
CrashSaving ==
    /\ writer # Quiet
    /\ writer' = Quiet /\ saving' = FALSE /\ whole' = [of |-> 0, size |-> 0]
    /\ UNCHANGED <<file, saveNo>>

(* load_shard into a buffer of so many floats; what it read is not counted. *)
LoadShard(room) ==
    IF file = Absent \/ file.header > room
    THEN [ok |-> FALSE, floats |-> 0, of |-> 0]
    ELSE [ok |-> TRUE, floats |-> file.floats, of |-> file.of]

ShardNext ==
    \/ saveNo < MaxSaves_ /\ \E size \in ShardSizes : SaveShard(size) \/ SaveAsync(size)
    \/ WriteShard \/ EndSave \/ CrashSaving

(* Unless the last save was cut off, by a crash or because it still runs,  *)
(* load_shard fills a buffer that is large enough with all of it and       *)
(* refuses a smaller one; cut off or not, it never overruns the buffer,    *)
(* and a later background save is possible.                                *)
ShardIsWhole ==
    /\ \A room \in ShardSizes : LoadShard(room).floats <= room
    /\ writer = Quiet =>
          /\ ~saving
          /\ whole.of > 0 => \A room \in ShardSizes :
                LoadShard(room) = IF room < whole.size THEN [ok |-> FALSE, floats |-> 0, of |-> 0]
                                  ELSE [ok |-> TRUE, floats |-> whole.size, of |-> saveNo]

-----------------------------------------------------------------------------
TrainerInit ==
    /\ step = 0 /\ best = Initial /\ ckpts = <<>> /\ life = 1
    /\ model \in ModelSizes

(* save_checkpoint: the name carries the step, the header is written field *)
(* by field.  Epochs never change and are left out.                        *)
Header(s, b) == [fields |-> <<s, b, model>>, life |-> life]
Files(s, loss) ==
    LET periodic == IF s % SaveEvery = 0 THEN <<[name |-> <<s, "">>, file |-> Header(s, best)]>> ELSE <<>>
        ofBest == IF loss < best THEN <<[name |-> <<s, ".best">>, file |-> Header(s, loss)]>> ELSE <<>>
    IN  periodic \o ofBest
Stored(new) ==
    [name \in DOMAIN ckpts \cup {f.name : f \in new} |->
        IF \E f \in new : f.name = name THEN (CHOOSE f \in new : f.name = name).file
        ELSE ckpts[name]]

TrainStep(loss) ==
    LET new == Files(step + 1, loss)
    IN  /\ ckpts' = Stored({new[k] : k \in 1 .. Len(new)})
        /\ step' = step + 1
        /\ best' = IF loss < best THEN loss ELSE best
        /\ UNCHANGED <<model, life>>
LastFile == [name |-> <<step, "">>, file |-> Header(step, best)]
EndTraining ==
    /\ ckpts' = Stored({LastFile})
    /\ UNCHANGED <<step, best, model, life>>
Restarted == step' = 0 /\ best' = Initial /\ model' \in ModelSizes /\ life' = life + 1

(* A crash during or after the saves of a step: k of them are whole, the   *)
(* next, if there is one, has the first fields of its header.              *)
CrashTraining(new) ==
    \E k \in 0 .. Len(new), cut \in 0 .. 2 :
        /\ ckpts' = Stored({new[j] : j \in 1 .. k} \cup
              {[new[j] EXCEPT !.file.fields = SubSeq(@, 1, cut)] : j \in {k + 1} \cap (1 .. Len(new))})
        /\ Restarted

(* The fields that are there are read into the trainer before the model is *)
(* compared; the answer is whether all are there and it is the same model. *)
Accepted(name) == Len(ckpts[name].fields) = 3 /\ ckpts[name].fields[3] = model
Resume(name) ==
    LET f == ckpts[name].fields
    IN  /\ step' = IF Len(f) >= 1 THEN f[1] ELSE step
        /\ best' = IF Len(f) >= 2 THEN f[2] ELSE best
        /\ life' = life + 1
        /\ UNCHANGED <<model, ckpts>>

TrainerNext ==
    \/ \E loss \in Losses :
          /\ step < MaxSteps
          /\ TrainStep(loss) \/ (life < MaxLives /\ CrashTraining(Files(step + 1, loss)))
    \/ EndTraining
    \/ life < MaxLives /\ CrashTraining(<<LastFile>>)
    \/ \E name \in DOMAIN ckpts : life < MaxLives /\ Resume(name)

(* A checkpoint that is accepted says what its name says, and the best     *)
(* models saved without an interruption get better: each is better than    *)
(* all checkpoints of the life that saved it at earlier steps.             *)
CheckpointsImprove ==
    LET usable == {n \in DOMAIN ckpts : Len(ckpts[n].fields) = 3}
    IN  /\ \A n \in usable : Accepted(n) => ckpts[n].fields[1] = n[1]
        /\ \A n, m \in usable :
              /\ ckpts[n].life = ckpts[m].life /\ m[2] = ".best" /\ n[1] < m[1]
              => ckpts[m].fields[2] < ckpts[n].fields[2]
        /\ \A n \in usable : ckpts[n].life = life /\ n[1] <= step =>
              best <= ckpts[n].fields[2]
=============================================================================
