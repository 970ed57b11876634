-------------------------- MODULE OfflineMLFQShare --------------------------
(***************************************************************************)
(* The feedback queues with the order of the slices made visible:          *)
(* since[j] holds the processes that were run since process j was.         *)
(***************************************************************************)
EXTENDS OfflineMLFQ

VARIABLE since

ShareInit == Init /\ since = [j \in Jobs |-> {}]

ShareNext == /\ Next
             /\ since' = IF pc = "dispatch"
                         THEN [j \in Jobs |-> IF j = cur THEN {} ELSE since[j] \cup {cur}]
                         ELSE since

(* The scheduler is one process that keeps running.                        *)
ShareSpec == ShareInit /\ [][ShareNext]_<<vars, since>> /\ WF_vars(Next)

(* Nobody starves: whatever the queues, the boosts and the ways children   *)
(* end, a process is not run twice while another one that has not finished *)
(* waits for its turn.                                                     *)
FairShare == pc = "dispatch" => \A j \in Jobs \ {cur} : ~finished[j] => cur \notin since[j]
=============================================================================
