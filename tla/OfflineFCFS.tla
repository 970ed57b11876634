----------------------------- MODULE OfflineFCFS -----------------------------
(***************************************************************************)
(* Assignment-02-schedulers/offline_schedulers.h, FCFS: the children are   *)
(* run one after the other, each waited for before the next is started.    *)
(***************************************************************************)
EXTENDS Children

VARIABLES i, pc, current_time,
          start_time, error, finished,    \* fields of the processes
          row                             \* times of a process that was waited for

fields == <<start_time, error, finished>>
vars == <<childVars, i, pc, current_time, fields, row>>

Goto(from, to) == pc = from /\ pc' = to

(* FCFS only ever sets error and finished: that both are false in what it  *)
(* is given is asked of its caller.                                        *)
Init == /\ ChildrenInit
        /\ i = 1 /\ pc = "start" /\ current_time = 0
        /\ start_time = [j \in Jobs |-> 0] /\ error = [j \in Jobs |-> FALSE]
        /\ finished = [j \in Jobs |-> FALSE] /\ row = [j \in Jobs |-> <<>>]

(* execute_command_FCFS: only the child's process id tells whether fork    *)
(* succeeded.                                                              *)
Start == /\ Goto("start", "wait") /\ i <= N
         /\ start_time' = [start_time EXCEPT ![i] = current_time]
         /\ Fork(i) \/ ForkFails
         /\ UNCHANGED <<i, current_time, error, finished, row>>

(* The scheduler is blocked in waitpid.                                    *)
Block == /\ pc = "wait" /\ SleepUntilDone(i)
         /\ UNCHANGED <<i, pc, current_time, fields, row>>

Collect_IgnoreSignal ==
    /\ Goto("wait", "start") /\ i' = i + 1
    /\ child[i] = "zombie" /\ Reap(i)
    /\ row' = [row EXCEPT ![i] = [turnaround |-> now, waiting |-> start_time[i]]]
    /\ error' = [error EXCEPT ![i] = fate[i] = "fail"]
    /\ current_time' = now /\ finished' = [finished EXCEPT ![i] = TRUE]
    /\ UNCHANGED start_time

Collect_KeepTime ==
    /\ Goto("wait", "start") /\ i' = i + 1
    /\ child[i] = "zombie" /\ Reap(i)
    /\ row' = [row EXCEPT ![i] = [turnaround |-> now, waiting |-> start_time[i]]]
    /\ error' = [error EXCEPT ![i] = fate[i] # "ok"]
    /\ finished' = [finished EXCEPT ![i] = TRUE]
    /\ UNCHANGED <<start_time, current_time>>

(* waitpid returned the child: its times, its error, and the start of the  *)
(* next process.                                                           *)
Collect == /\ Goto("wait", "start") /\ i' = i + 1
           /\ child[i] = "zombie" /\ Reap(i)
           /\ row' = [row EXCEPT ![i] = [turnaround |-> now, waiting |-> start_time[i]]]
           /\ error' = [error EXCEPT ![i] = fate[i] # "ok"]
           /\ current_time' = now /\ finished' = [finished EXCEPT ![i] = TRUE]
           /\ UNCHANGED start_time

(* Without a child waitpid fails, whatever process_id holds: every earlier *)
(* child has been waited for. No time is set.                              *)
WaitFails == /\ Goto("wait", "start") /\ i' = i + 1
             /\ child[i] = "none" /\ error' = [error EXCEPT ![i] = TRUE]
             /\ UNCHANGED <<childVars, current_time, start_time, finished, row>>

WriteCsv == /\ Goto("start", "done") /\ i > N
            /\ UNCHANGED <<childVars, i, current_time, fields, row>>

Next == \/ Start \/ Block \/ Collect \/ WaitFails \/ WriteCsv
        \/ pc = "done" /\ UNCHANGED vars

(* The scheduler and the child it waits for keep running.                  *)
Spec == Init /\ [][Next]_vars /\ WF_vars(Next)

-----------------------------------------------------------------------------
TypeOK == /\ ChildrenTypeOK
          /\ i \in 1 .. N + 1 /\ pc \in {"start", "wait", "done"} /\ current_time \in 0 .. now
          /\ start_time \in [Jobs -> Nat] /\ {error, finished} \subseteq [Jobs -> BOOLEAN]
          /\ \A j \in Jobs : row[j] = <<>> \/ row[j] \in [turnaround : Nat, waiting : Nat]

(* The times recorded are those of one processor used first come, first    *)
(* served: between its waiting and its turnaround time a process is alone, *)
(* whichever processes before it failed or could not be started.           *)
OneAfterTheOther ==
    \A j, k \in Jobs : j < k /\ row[j] # <<>> /\ row[k] # <<>>
                       => /\ row[j].waiting < row[j].turnaround
                          /\ row[j].turnaround <= row[k].waiting

Scheduler == INSTANCE JobScheduler WITH
    stage <- [j \in Jobs |-> IF j < i THEN "ended"
                             ELSE IF child[j] = "running" THEN "running"
                             ELSE IF child[j] = "none" THEN "new" ELSE "paused"],
    verdict <- [j \in Jobs |-> IF j >= i THEN "none" ELSE IF error[j] THEN "error" ELSE "ok"],
    outcome <- [j \in Jobs |-> IF fate[j] = "ok" THEN "ok" ELSE "error"],
    reported <- pc = "done"

(* FCFS implements the abstract scheduler, whatever the children do and    *)
(* whichever forks fail: every process ends once, with its true outcome,   *)
(* and the results are written.                                            *)
ImplementsScheduler == Scheduler!Spec

(* The times that are recorded are those of one processor, and the state   *)
(* is well formed.                                                         *)
Inv == TypeOK /\ OneAfterTheOther
=============================================================================
