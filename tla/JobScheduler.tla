---------------------------- MODULE JobScheduler ----------------------------
(***************************************************************************)
(* What every offline scheduler owes its caller whatever its policy: jobs  *)
(* run one at a time, each ends once and is recorded with its true         *)
(* outcome, and the results are written when all of them have ended.       *)
(***************************************************************************)
CONSTANT Jobs

VARIABLES stage, verdict, outcome, reported

vars == <<stage, verdict, outcome, reported>>

Init == /\ stage = [j \in Jobs |-> "new"]
        /\ verdict = [j \in Jobs |-> "none"]
        /\ outcome \in [Jobs -> {"ok", "error"}]
        /\ reported = FALSE

Start(j) == /\ stage[j] \in {"new", "paused"} /\ \A i \in Jobs : stage[i] # "running"
            /\ stage' = [stage EXCEPT ![j] = "running"]
            /\ UNCHANGED <<verdict, outcome, reported>>

Pause(j) == /\ stage[j] = "running"
            /\ stage' = [stage EXCEPT ![j] = "paused"]
            /\ UNCHANGED <<verdict, outcome, reported>>

(* A job that has been started ends with its own outcome, one that could   *)
(* not be started with an error.                                           *)
End(j) == /\ stage[j] # "ended"
          /\ stage' = [stage EXCEPT ![j] = "ended"]
          /\ verdict' = [verdict EXCEPT ![j] = IF stage[j] = "new" THEN "error" ELSE outcome[j]]
          /\ UNCHANGED <<outcome, reported>>

Report == /\ ~reported /\ \A j \in Jobs : stage[j] = "ended"
          /\ reported' = TRUE
          /\ UNCHANGED <<stage, verdict, outcome>>

Next == Report \/ \E j \in Jobs : Start(j) \/ Pause(j) \/ End(j)

(* Jobs may be paused again and again, but not for ever.                   *)
Spec == Init /\ [][Next]_vars /\ <>reported
=============================================================================
