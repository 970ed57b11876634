------------------------------ MODULE OnlineSJF ------------------------------
(***************************************************************************)
(* Assignment-02-schedulers/online_schedulers.h, ShortestJobFirst: of the  *)
(* processes that have arrived the one whose command has the shortest      *)
(* average burst is run to its end.                                        *)
(***************************************************************************)
EXTENDS OnlineInput

VARIABLE priorityQueue

sjfVars == <<onlineVars, priorityQueue>>

SJFInit == OnlineInit /\ priorityQueue = <<>>

(* handle_non_blocking_input_SJF.                                          *)
SJFRead == \E j \in Jobs, c \in Commands :
    /\ ReadLine(j, c)
    /\ burstTime' = [burstTime EXCEPT ![j] = Estimate(c)]
    /\ priorityQueue' = Enqueue(priorityQueue, j)
    /\ UNCHANGED <<childVars, error>>

Shorter_OrLater(k, m) ==
    LET mine == burstTime[priorityQueue[k]]
        other == burstTime[priorityQueue[m]]
    IN  mine < other \/ (mine = other /\ k >= m)

(* The first of the processes with the shortest estimate is popped.        *)
Shorter(k, m) ==
    LET mine == burstTime[priorityQueue[k]]
        other == burstTime[priorityQueue[m]]
    IN  mine < other \/ (mine = other /\ k <= m)

(* pop_from_queue_SJF, when no more lines are waiting.                     *)
SJFPop == /\ Goto("input", "fork")
          /\ \E k \in DOMAIN priorityQueue :
                /\ \A m \in DOMAIN priorityQueue : Shorter(k, m)
                /\ cur' = priorityQueue[k] /\ priorityQueue' = RemoveAt(priorityQueue, k)
          /\ startTime' = [startTime EXCEPT ![cur'] = now]
          /\ UNCHANGED <<childVars, arrived, command, arrivalTime, burstTime, error, history, row>>

(* execute_process_SJF does not test whether fork failed.                  *)
SJFFork == /\ Goto("fork", "wait") /\ (Fork(cur) \/ ForkFails)
           /\ UNCHANGED <<arrived, fields, history, row, cur, priorityQueue>>

(* The scheduler is blocked in waitpid; nobody reads the terminal.         *)
SJFBlock == /\ pc = "wait" /\ SleepUntilDone(cur)
            /\ UNCHANGED <<arrived, fields, history, row, cur, pc, priorityQueue>>

Propagate_Never == burstTime' = [burstTime EXCEPT ![cur] = now - startTime[cur]]

(* The new average of the command goes to the processes that still wait.   *)
Propagate == burstTime' = [j \in Jobs |->
    IF j = cur THEN now - startTime[cur]
    ELSE IF j \in ToSet(priorityQueue) /\ command[j] = command[cur]
    THEN commandBurstTimes'[command[cur]] ELSE burstTime[j]]

(* The result of waitpid; without a child it fails and leaves status as it *)
(* was. Error or not, the burst enters the history.                        *)
SJFCollect ==
    /\ Goto("wait", "input")
    /\ \/ child[cur] = "zombie" /\ Reap(cur) /\ error' = [error EXCEPT ![cur] = fate[cur] # "ok"]
       \/ /\ child[cur] = "none" /\ error' \in {[error EXCEPT ![cur] = e] : e \in BOOLEAN}
          /\ UNCHANGED childVars
    /\ row' = [row EXCEPT ![cur] = [turnaround |-> now - arrivalTime[cur],
                                    burst |-> now - startTime[cur], error |-> error'[cur]]]
    /\ Learn(command[cur], now - startTime[cur]) /\ Propagate
    /\ UNCHANGED <<arrived, command, arrivalTime, startTime, cur, priorityQueue>>

SJFWork == SJFPop \/ SJFFork \/ SJFBlock \/ SJFCollect
-----------------------------------------------------------------------------
(* The process that is started has the shortest average burst of all that  *)
(* wait, by the history as it is now and not as it was when they arrived.  *)
ShortestFirst ==
    [][pc = "input" /\ pc' = "fork"
         => \A j \in ToSet(priorityQueue) :
               commandBurstTimes[command[cur']] <= commandBurstTimes[command[j]]]_sjfVars
=============================================================================
