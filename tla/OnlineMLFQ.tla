----------------------------- MODULE OnlineMLFQ ------------------------------
(***************************************************************************)
(* Assignment-02-schedulers/online_schedulers.h, MultiLevelFeedbackQueue:  *)
(* as the offline scheduler, but processes arrive all the time and the     *)
(* history of their command decides in which queue they start.             *)
(***************************************************************************)
EXTENDS OnlineInput

CONSTANTS quantum0, quantum1, quantum2, boostTime,
          MaxGarbled      \* how many processes get memory that is not zero

ASSUME OnlineMLFQAssumption ==
    {quantum0, quantum1, quantum2} \subseteq Nat \ {0} /\ boostTime \in Nat /\ MaxGarbled \in Nat

VARIABLES queue, priority, started, finished, level, quantum_end, lastBoostTime,
          garbled         \* processes whose fields were not zero

mlfqVars == <<queue, priority, started, finished, level, quantum_end, lastBoostTime, garbled>>

Levels == 0 .. 2

Quantum == [k \in Levels |-> IF k = 0 THEN quantum0 ELSE IF k = 1 THEN quantum1 ELSE quantum2]

MLFQInit == /\ queue = [k \in Levels |-> <<>>] /\ priority = [j \in Jobs |-> 0]
            /\ started = [j \in Jobs |-> FALSE] /\ finished = [j \in Jobs |-> FALSE]
            /\ level = 0 /\ quantum_end = 0 /\ lastBoostTime = 0 /\ garbled = {}

(* The first queue by the average of the command; new commands start in    *)
(* the middle.                                                             *)
FirstLevel(c) == IF c \notin DOMAIN commandBurstTimes THEN 1
                 ELSE IF commandBurstTimes[c] <= quantum0 THEN 0
                 ELSE IF commandBurstTimes[c] <= quantum1 THEN 1 ELSE 2

(* handle_non_blocking_input_MLFQ. started and pid are not set: a process  *)
(* has what its memory happened to contain, be it zeros, or a process id   *)
(* nobody has. (So has error, which only goes to the CSV file.)            *)
MLFQRead == \E j \in Jobs, c \in Commands :
    /\ ReadLine(j, c)
    /\ priority' = [priority EXCEPT ![j] = FirstLevel(c)]
    /\ queue' = [queue EXCEPT ![FirstLevel(c)] = Enqueue(@, j)]
    /\ burstTime' = [burstTime EXCEPT ![j] = 0] /\ finished' = [finished EXCEPT ![j] = FALSE]
    /\ \/ UNCHANGED <<pid, started, garbled>>
       \/ /\ Cardinality(garbled) < MaxGarbled /\ garbled' = garbled \cup {j}
          /\ \E p \in {0, N + 1}, s \in BOOLEAN :
                pid' = [pid EXCEPT ![j] = p] /\ started' = [started EXCEPT ![j] = s]
    /\ UNCHANGED <<child, left, fate, failures, now, error, level, quantum_end, lastBoostTime>>

MLFQPop == /\ Goto("input", "dispatch")
           /\ \E k \in Levels :
                 /\ queue[k] # <<>> /\ \A m \in 0 .. k - 1 : queue[m] = <<>>
                 /\ level' = k /\ cur' = Head(queue[k])
                 /\ queue' = [queue EXCEPT ![k] = Tail(@)]
                 /\ quantum_end' = now + Quantum[k]
           /\ startTime' = [startTime EXCEPT ![cur'] = now]
           /\ UNCHANGED <<childVars, arrived, command, arrivalTime, burstTime, error, history, row,
                          priority, started, finished, lastBoostTime, garbled>>

(* execute_process_MLFQ: fork or SIGCONT; if that fails the slice is over. *)
MLFQDispatch ==
    /\ \/ /\ ~started[cur] /\ started' = [started EXCEPT ![cur] = TRUE]
          /\ \/ Goto("dispatch", "poll") /\ Fork(cur) /\ UNCHANGED error
             \/ /\ Goto("dispatch", "account") /\ ForkFails
                /\ error' = [error EXCEPT ![cur] = TRUE]
       \/ /\ started[cur] /\ UNCHANGED started
          /\ \/ /\ Goto("dispatch", "poll") /\ Exists(pid[cur])
                /\ Continue(pid[cur]) /\ UNCHANGED error
             \/ /\ Goto("dispatch", "account") /\ ~Exists(pid[cur])
                /\ error' = [error EXCEPT ![cur] = TRUE] /\ UNCHANGED childVars
    /\ UNCHANGED <<arrived, command, arrivalTime, startTime, burstTime, history, row, cur,
                   queue, priority, finished, level, quantum_end, lastBoostTime, garbled>>

(* waitpid with WNOHANG that does not return 0: a child is reaped, or      *)
(* there is none. How it ended is not asked for.                           *)
Gone == /\ \/ \E j \in Zombies(pid[cur]) : Reap(j)
           \/ Targets(pid[cur]) = {} /\ UNCHANGED childVars
        /\ finished' = [finished EXCEPT ![cur] = TRUE]

StillThere == Zombies(pid[cur]) = {} /\ Targets(pid[cur]) # {}

MLFQPoll == /\ pc = "poll" /\ now < quantum_end
            /\ \/ StillThere /\ Sleep(1) /\ UNCHANGED <<pc, finished>>
               \/ pc' = "recheck" /\ Gone
            /\ UNCHANGED <<arrived, fields, history, row, cur, queue, priority, started, level, quantum_end,
                           lastBoostTime, garbled>>

(* A child that has not been waited for is stopped, unless it ends after   *)
(* the last waitpid and before the signal: then it goes back to a queue as *)
(* a zombie. Process id 0 stops the scheduler with its group.              *)
StopSlice == IF finished[cur] THEN Goto("stop", "account") /\ UNCHANGED childVars
             ELSE /\ Goto("stop", IF pid[cur] = 0 THEN "halted" ELSE "account")
                  /\ Stop(pid[cur]) \/ EndsUnstopped(pid[cur])

(* Another waitpid, whether or not the child has been reaped already.      *)
Recheck == pc' = "stop" /\ (Gone \/ (StillThere /\ UNCHANGED <<childVars, finished>>))

EndSlice == /\ \/ (pc = "recheck" \/ (pc = "poll" /\ now >= quantum_end)) /\ Recheck
               \/ StopSlice /\ UNCHANGED finished
            /\ UNCHANGED <<arrived, fields, history, row, cur, queue, priority, started, level, quantum_end,
                           lastBoostTime, garbled>>

(* What the slice adds to the burst: its true length if it was the last    *)
(* one, else a quantum. A process that never ends stays at the bound.      *)
Charge == IF finished[cur] THEN burstTime[cur] + (now - startTime[cur])
          ELSE Min({burstTime[cur] + Quantum[level], (N + 1) * MaxNeed + quantum2})

Demoted(k) == IF k = 0 THEN 1 ELSE 2

MLFQAccount ==
    /\ Goto("account", "boost") /\ burstTime' = [burstTime EXCEPT ![cur] = Charge]
    /\ IF finished[cur]
       THEN /\ Learn(command[cur], burstTime'[cur])
            /\ row' = [row EXCEPT ![cur] = [turnaround |-> now - arrivalTime[cur],
                                            burst |-> burstTime'[cur], error |-> error[cur]]]
            /\ UNCHANGED <<queue, priority>>
       ELSE /\ priority' = [priority EXCEPT ![cur] = Demoted(level)]
            /\ queue' = [queue EXCEPT ![priority'[cur]] = Enqueue(@, cur)]
            /\ UNCHANGED <<history, row>>
    /\ UNCHANGED <<childVars, arrived, command, arrivalTime, startTime, error, cur, started,
                   finished, level, quantum_end, lastBoostTime, garbled>>

BoostQueues_MissLast ==
    /\ queue' = [k \in Levels |-> IF k = 0 THEN queue[0] \o queue[1] ELSE <<>>]
    /\ priority' = [j \in Jobs |-> IF j \in ToSet(queue[1]) THEN 0 ELSE priority[j]]

(* boost_queues: everything that waits goes to the first queue.            *)
BoostQueues ==
    /\ queue' = [k \in Levels |-> IF k = 0 THEN queue[0] \o queue[1] \o queue[2] ELSE <<>>]
    /\ priority' = [j \in Jobs |-> IF j \in ToSet(queue[1] \o queue[2]) THEN 0 ELSE priority[j]]

(* Then the terminal is looked at again.                                   *)
MLFQBoost == /\ Goto("boost", "input")
             /\ IF now - lastBoostTime >= boostTime
                THEN BoostQueues /\ lastBoostTime' = now
                ELSE UNCHANGED <<queue, priority, lastBoostTime>>
             /\ UNCHANGED <<childVars, arrived, fields, history, row, cur, started, finished, level, quantum_end, garbled>>

MLFQWork == \/ MLFQPop \/ MLFQDispatch \/ MLFQPoll \/ EndSlice
            \/ MLFQAccount \/ MLFQBoost
-----------------------------------------------------------------------------
MLFQTypeOK == /\ queue \in [Levels -> Seq(Submitted)] /\ priority \in [Jobs -> Levels]
              /\ {started, finished} \subseteq [Jobs -> BOOLEAN]
              /\ level \in Levels /\ lastBoostTime \in 0 .. now
              /\ pid \in [Jobs -> 0 .. N + 1] /\ garbled \subseteq Submitted

(* No fork failed and no process was made of memory that was not zero.     *)
WellBehaved == failures = 0 /\ garbled = {}

(* The waiting time, turnaround minus burst in unsigned arithmetic, does   *)
(* not wrap although slices are charged by their nominal length.           *)
OnlineWaitingTime == WellBehaved =>
    \A j \in Submitted : row[j] # <<>> => row[j].burst <= row[j].turnaround
=============================================================================
