------------------------------ MODULE Children ------------------------------
(***************************************************************************)
(* The child processes of a scheduler as fork, kill, waitpid and the clock *)
(* show them to it. A job is the command of one process of the input; its  *)
(* child needs some time on the processor and then exits with status 0     *)
(* ("ok"), exits with another status ("fail") or is killed by a signal     *)
(* ("crash"). Time is counted in units of 10 ms.                           *)
(***************************************************************************)
EXTENDS Integers

CONSTANTS N,                \* number of jobs
          Fates,            \* how a child may end
          MaxNeed,          \* bound on the time a child needs
          MaxForkFailures,  \* how often fork may fail in one execution
          Overrun           \* how much longer than asked for a sleep may take

ASSUME ChildrenAssumption == /\ N \in Nat \ {0} /\ MaxNeed \in Nat \ {0}
                             /\ Fates \subseteq {"ok", "fail", "crash"}
                             /\ MaxForkFailures \in Nat /\ Overrun \in Nat

VARIABLES child, left, fate, pid, failures, now

childVars == <<child, left, fate, pid, failures, now>>

Jobs == 1 .. N

ChildrenInit == /\ child = [j \in Jobs |-> "none"]
                /\ left \in [Jobs -> 1 .. MaxNeed] /\ fate \in [Jobs -> Fates]
                /\ pid = [j \in Jobs |-> 0] /\ failures = 0 /\ now = 0

ChildrenTypeOK ==
    /\ child \in [Jobs -> {"none", "running", "stopped", "zombie", "reaped"}]
    /\ left \in [Jobs -> 0 .. MaxNeed] /\ fate \in [Jobs -> Fates]
    /\ pid \in [Jobs -> {0} \cup Jobs] /\ failures \in 0 .. MaxForkFailures
    /\ now \in Nat

Fork(j) == /\ child' = [child EXCEPT ![j] = "running"]
           /\ pid' = [pid EXCEPT ![j] = j]
           /\ UNCHANGED <<left, fate, failures, now>>

ForkFails == /\ failures < MaxForkFailures /\ failures' = failures + 1
             /\ UNCHANGED <<child, left, fate, pid, now>>

(* The children a process id stands for; 0 is the caller's whole group.    *)
Targets(q) == {j \in Jobs : /\ q \in {0, j}
                            /\ child[j] \in {"running", "stopped", "zombie"}}

(* kill finds a process until it has been waited for.                      *)
Exists(q) == q = 0 \/ Targets(q) # {}

Signal(q, from, to) ==
    /\ child' = [j \in Jobs |-> IF j \in Targets(q) /\ child[j] = from
                                THEN to ELSE child[j]]
    /\ UNCHANGED <<left, fate, pid, failures, now>>

Continue(q) == Signal(q, "stopped", "running")

Stop(q) == Signal(q, "running", "stopped")

(* A child with less than a unit of work left may end before the signal    *)
(* that would stop it arrives; a zombie is not stopped.                    *)
EndsUnstopped(q) == \E j \in Targets(q) :
    /\ child[j] = "running" /\ left[j] = 1
    /\ child' = [child EXCEPT ![j] = "zombie"] /\ left' = [left EXCEPT ![j] = 0]
    /\ UNCHANGED <<fate, pid, failures, now>>

Zombies(q) == {j \in Targets(q) : child[j] = "zombie"}

Reap(j) == /\ child' = [child EXCEPT ![j] = "reaped"]
           /\ UNCHANGED <<left, fate, pid, failures, now>>

(* The scheduler sleeps for at least d while the children that are not     *)
(* stopped run; a child whose work is done waits to be waited for.         *)
Sleep(d) == \E e \in d .. d + Overrun :
    /\ now' = now + e
    /\ left' = [j \in Jobs |-> IF child[j] # "running" THEN left[j]
                               ELSE IF left[j] > e THEN left[j] - e ELSE 0]
    /\ child' = [j \in Jobs |-> IF child[j] = "running" /\ left[j] <= e
                                THEN "zombie" ELSE child[j]]
    /\ UNCHANGED <<fate, pid, failures>>

(* waitpid without WNOHANG: the scheduler sleeps until the child is done.  *)
SleepUntilDone(j) == /\ child[j] = "running"
                     /\ now' = now + left[j]
                     /\ left' = [left EXCEPT ![j] = 0]
                     /\ child' = [child EXCEPT ![j] = "zombie"]
                     /\ UNCHANGED <<fate, pid, failures>>
=============================================================================
