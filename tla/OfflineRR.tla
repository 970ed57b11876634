------------------------------ MODULE OfflineRR ------------------------------
(***************************************************************************)
(* Assignment-02-schedulers/offline_schedulers.h, RoundRobin: the children *)
(* are run in turn, each for the length of one sleep of the scheduler.     *)
(***************************************************************************)
EXTENDS Children, FiniteSets

CONSTANT quantum

ASSUME RRAssumption == quantum \in Nat \ {0}

VARIABLES i, completed, pc,
          started, error, finished, burst_time,   \* fields of the processes
          row                                     \* recorded for the CSV file

fields == <<started, error, finished, burst_time>>
vars == <<childVars, i, completed, pc, fields, row>>

proc == (i % N) + 1

Goto(from, to) == pc = from /\ pc' = to

Init == /\ ChildrenInit
        /\ i = 0 /\ completed = 0 /\ pc = "loop"
        /\ started = [j \in Jobs |-> FALSE] /\ error = [j \in Jobs |-> FALSE]
        /\ finished = [j \in Jobs |-> FALSE] /\ burst_time = [j \in Jobs |-> 0]
        /\ row = [j \in Jobs |-> <<>>]

Skip == /\ pc = "loop" /\ completed < N /\ finished[proc]
        /\ i' = (i + 1) % N
        /\ UNCHANGED <<childVars, completed, pc, fields, row>>

Pick_Anyone == /\ Goto("loop", "dispatch") /\ completed < N
               /\ UNCHANGED <<childVars, i, completed, fields, row>>

Pick == /\ Goto("loop", "dispatch") /\ completed < N /\ ~finished[proc]
        /\ UNCHANGED <<childVars, i, completed, fields, row>>

WriteCsv == /\ Goto("loop", "done") /\ completed = N
            /\ UNCHANGED <<childVars, i, completed, fields, row>>

(* execute_command_RR: start or continue the child, and if that fails exit *)
(* without writing any result.                                             *)
Launch == /\ ~started[proc] /\ started' = [started EXCEPT ![proc] = TRUE]
          /\ \/ Goto("dispatch", "sleep") /\ Fork(proc) /\ UNCHANGED error
             \/ /\ Goto("dispatch", "failed") /\ ForkFails
                /\ error' = [error EXCEPT ![proc] = TRUE]
          /\ UNCHANGED <<i, completed, finished, burst_time, row>>

Resume == /\ started[proc]
          /\ \/ /\ Goto("dispatch", "sleep") /\ Exists(pid[proc])
                /\ Continue(pid[proc]) /\ UNCHANGED error
             \/ /\ Goto("dispatch", "failed") /\ ~Exists(pid[proc])
                /\ error' = [error EXCEPT ![proc] = TRUE] /\ UNCHANGED childVars
          /\ UNCHANGED <<i, completed, started, finished, burst_time, row>>

SleepQuantum == /\ Goto("sleep", "stop") /\ Sleep(quantum)
                /\ burst_time' = [burst_time EXCEPT ![proc] = @ + (now' - now)]
                /\ UNCHANGED <<i, completed, started, error, finished, row>>

StopChild_Never == /\ Goto("stop", "wait")
                   /\ UNCHANGED <<childVars, i, completed, fields, row>>

(* A child that is not waited for yet can be stopped even if it has ended. *)
StopChild == /\ Goto("stop", "wait") /\ Stop(pid[proc])
             /\ UNCHANGED <<i, completed, fields, row>>

Wait_EverySlice ==
    /\ Goto("wait", "loop") /\ i' = (i + 1) % N /\ completed' = completed + 1
    /\ IF Zombies(pid[proc]) = {}
       THEN UNCHANGED <<childVars, error, finished, row>>
       ELSE /\ Reap(proc) /\ finished' = [finished EXCEPT ![proc] = TRUE]
            /\ row' = [row EXCEPT ![proc] = [turnaround |-> now, burst |-> burst_time[proc],
                                             error |-> FALSE]]
            /\ UNCHANGED error
    /\ UNCHANGED <<started, burst_time>>

(* waitpid: a process that has ended is completed, but finished only if it *)
(* ended well. Its child was forked and is not waited for twice, so        *)
(* waitpid does not fail.                                                  *)
Wait == /\ Goto("wait", "loop") /\ i' = (i + 1) % N
        /\ IF Zombies(pid[proc]) = {}
           THEN UNCHANGED <<childVars, completed, error, finished, row>>
           ELSE /\ Reap(proc) /\ completed' = completed + 1
                /\ error' = [error EXCEPT ![proc] = fate[proc] # "ok"]
                /\ finished' = [finished EXCEPT ![proc] = fate[proc] = "ok"]
                /\ row' = [row EXCEPT ![proc] = [turnaround |-> now, burst |-> burst_time[proc],
                                                 error |-> error'[proc]]]
        /\ UNCHANGED <<started, burst_time>>

Next == \/ Skip \/ Pick \/ WriteCsv \/ Launch \/ Resume
        \/ SleepQuantum \/ StopChild \/ Wait
        \/ pc \in {"done", "failed"} /\ UNCHANGED vars

(* The scheduler is one process that keeps running.                        *)
Spec == Init /\ [][Next]_vars /\ WF_vars(Next)

-----------------------------------------------------------------------------
TypeOK == /\ ChildrenTypeOK
          /\ i \in 0 .. N - 1 /\ completed \in 0 .. N
          /\ pc \in {"loop", "dispatch", "sleep", "stop", "wait", "done", "failed"}
          /\ {started, error, finished} \subseteq [Jobs -> BOOLEAN]
          /\ burst_time \in [Jobs -> Nat]
          /\ \A j \in Jobs : row[j] = <<>> \/ row[j] \in [turnaround : Nat, burst : Nat, error : BOOLEAN]

(* completion_time - burst_time, an unsigned subtraction, does not wrap.   *)
WaitingTime == \A j \in Jobs : row[j] # <<>> => row[j].burst <= row[j].turnaround

(* completed counts processes, not slices: the loop does not end before    *)
(* every process has a result.                                             *)
CompletedExact == completed = Cardinality({j \in Jobs : row[j] # <<>>})

(* All processes end and the results are written.                          *)
Reported == <>(pc = "done")

Scheduler == INSTANCE JobScheduler WITH
    stage <- [j \in Jobs |-> IF row[j] # <<>> THEN "ended"
                             ELSE IF child[j] = "running" THEN "running"
                             ELSE IF child[j] = "none" THEN "new" ELSE "paused"],
    verdict <- [j \in Jobs |-> IF row[j] = <<>> THEN "none"
                               ELSE IF row[j].error THEN "error" ELSE "ok"],
    outcome <- [j \in Jobs |-> IF fate[j] = "ok" THEN "ok" ELSE "error"],
    reported <- pc = "done"

(* Round robin takes only the steps of the abstract scheduler, whatever    *)
(* the children do: one child runs at a time, and each process ends once,  *)
(* with its true outcome. That the results are written is another matter.  *)
ImplementsScheduler == Scheduler!Init /\ [][Scheduler!Next]_(Scheduler!vars)

(* When no child and no fork fails the results are written.                *)
ReportedIfWell ==
    (\A j \in Jobs : fate[j] = "ok") /\ [](failures = 0) => <>(pc = "done")

(* Every process that was waited for has counted once and has consistent   *)
(* times.                                                                  *)
Inv == TypeOK /\ WaitingTime /\ CompletedExact
=============================================================================
