----------------------------- MODULE MCServices -----------------------------
EXTENDS ServingQueues, MappedWeights, Checkpoints, RestServer, Limits

VARIABLE focus

clockFree == {"shard", "trainer", "weights", "server", "limits", "bucket"}
others(f) ==
    /\ f # "batches" => UNCHANGED batchVars
    /\ f # "priorities" => UNCHANGED prioVars
    /\ f # "prefixes" => UNCHANGED prefixVars
    /\ f \in clockFree => UNCHANGED clock
    /\ f # "weights" => UNCHANGED weightVars
    /\ f # "shard" => UNCHANGED shardVars
    /\ f # "trainer" => UNCHANGED trainerVars
    /\ f # "server" => UNCHANGED serverVars
    /\ f # "limits" => UNCHANGED limitVars
    /\ f # "bucket" => UNCHANGED bucketVars

Init == /\ QueuesInit /\ WeightsInit /\ ShardInit /\ TrainerInit /\ ServerInit
        /\ LimitsInit
        /\ focus \in {"batches", "priorities", "prefixes"} \cup clockFree
        /\ focus # "trainer" => model = CHOOSE m \in ModelSizes : TRUE
        /\ focus # "server" => socketFd = CHOOSE d \in Descriptors : TRUE
Next == /\ \/ focus = "batches" /\ BatchNext
           \/ focus = "priorities" /\ PriorityNext
           \/ focus = "prefixes" /\ PrefixNext
           \/ focus = "weights" /\ WeightsNext
           \/ focus = "shard" /\ ShardNext
           \/ focus = "trainer" /\ TrainerNext
           \/ focus = "server" /\ ServerNext
           \/ focus = "limits" /\ LimitsNext
           \/ focus = "bucket" /\ BucketNext
        /\ others(focus)
        /\ UNCHANGED focus
vars == <<clock, batchVars, prioVars, prefixVars, weightVars, shardVars,
          trainerVars, serverVars, limitVars, bucketVars, focus>>
Spec == Init /\ [][Next]_vars

-----------------------------------------------------------------------------
(* Whoever waits in front of the model is served in turn.                  *)
ServedInTurn ==
    /\ focus = "batches" => DispatchedInOrder
    /\ focus = "priorities" => ServedByPriority

(* What was saved or cached is what comes back.                            *)
RecoversSaved ==
    PrefixIsLatest /\ NewestIsServed /\ ShardIsWhole /\ CheckpointsImprove
=============================================================================
