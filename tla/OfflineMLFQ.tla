----------------------------- MODULE OfflineMLFQ -----------------------------
(***************************************************************************)
(* Assignment-02-schedulers/offline_schedulers.h, MultiLevelFeedbackQueue: *)
(* the children are run in slices from three queues; a child that uses up  *)
(* its slice sinks to the next queue, and from time to time all are        *)
(* boosted back to the first.                                              *)
(***************************************************************************)
EXTENDS Children, Sequences, FiniteSets

CONSTANTS quantum0, quantum1, quantum2, boostTime, MAX_QUEUE_SIZE,
          Overhead,         \* time that may pass between two slices
          MaxTime           \* bound on the time at which it may still pass

ASSUME MLFQAssumption ==
    /\ {quantum0, quantum1, quantum2} \subseteq Nat \ {0} /\ boostTime \in Nat
    /\ MAX_QUEUE_SIZE \in Nat /\ Overhead \in Nat /\ MaxTime \in Nat

VARIABLES queue,                           \* queue0_MLFQ .. queue2_MLFQ
          priority, started, error, finished, burst_time,  \* fields of the processes
          row,                             \* what processes[] has for the CSV file
          cur, level,                      \* process popped, and from which queue
          start_time, quantum_end, lastBoostTime, pc

Levels == 0 .. 2

Quantum == [k \in Levels |-> IF k = 0 THEN quantum0 ELSE IF k = 1 THEN quantum1 ELSE quantum2]

fields == <<priority, started, error, finished, burst_time>>
clocks == <<start_time, quantum_end, lastBoostTime>>
vars == <<childVars, queue, fields, row, cur, level, clocks, pc>>

Goto(from, to) == pc = from /\ pc' = to

(* add_to_queue_MLFQ drops what does not fit.                              *)
Add(q, j, k) == IF Len(q[k]) < MAX_QUEUE_SIZE
                THEN [q EXCEPT ![k] = Append(@, j)] ELSE q

(* All processes are added to the first queue, in their order.             *)
Initial == LET n == IF N < MAX_QUEUE_SIZE THEN N ELSE MAX_QUEUE_SIZE
           IN  [k \in Levels |-> IF k = 0 THEN [j \in 1 .. n |-> j] ELSE <<>>]

Init == /\ ChildrenInit
        /\ queue = Initial /\ priority = [j \in Jobs |-> 0]
        /\ started = [j \in Jobs |-> FALSE] /\ error = [j \in Jobs |-> FALSE]
        /\ finished = [j \in Jobs |-> FALSE] /\ burst_time = [j \in Jobs |-> 0]
        /\ row = [j \in Jobs |-> <<>>]
        /\ cur = 1 /\ level = 0 /\ start_time = 0 /\ quantum_end = 0
        /\ lastBoostTime = 0 /\ pc = "loop"

(* Pop the head of the first queue that is not empty.                      *)
Pop == /\ Goto("loop", "dispatch")
       /\ \E k \in Levels :
             /\ queue[k] # <<>> /\ \A i \in 0 .. k - 1 : queue[i] = <<>>
             /\ level' = k /\ cur' = Head(queue[k])
             /\ queue' = [queue EXCEPT ![k] = Tail(@)]
             /\ start_time' = now /\ quantum_end' = now + Quantum[k]
       /\ UNCHANGED <<childVars, fields, row, lastBoostTime>>

(* write_csv, when all the queues are empty.                               *)
WriteCsv == /\ Goto("loop", "done") /\ \A k \in Levels : queue[k] = <<>>
            /\ UNCHANGED <<childVars, queue, fields, row, cur, level, clocks>>

(* execute_process_MLFQ: start the child, or continue it. A child that     *)
(* cannot be continued, and a fork that fails, end the slice at once.      *)
Launch == /\ ~started[cur] /\ started' = [started EXCEPT ![cur] = TRUE]
          /\ \/ Goto("dispatch", "poll") /\ Fork(cur) /\ UNCHANGED error
             \/ /\ Goto("dispatch", "account") /\ ForkFails
                /\ error' = [error EXCEPT ![cur] = TRUE]
          /\ UNCHANGED <<queue, priority, finished, burst_time, row, cur, level, clocks>>

Resume == /\ started[cur]
          /\ \/ /\ Goto("dispatch", "poll") /\ Exists(pid[cur])
                /\ Continue(pid[cur]) /\ UNCHANGED error
             \/ /\ Goto("dispatch", "account") /\ ~Exists(pid[cur])
                /\ error' = [error EXCEPT ![cur] = TRUE] /\ UNCHANGED childVars
          /\ UNCHANGED <<queue, priority, started, finished, burst_time, row, cur, level, clocks>>

Ended_OnlySuccess(status) ==
    /\ error' = IF status = "ok" THEN error ELSE [error EXCEPT ![cur] = TRUE]
    /\ finished' = IF status = "ok" THEN [finished EXCEPT ![cur] = TRUE] ELSE finished

(* What the status of waitpid does to the process.                         *)
Ended(status) ==
    /\ error' = IF status = "fail" THEN [error EXCEPT ![cur] = TRUE] ELSE error
    /\ finished' = IF status = "crash" THEN finished ELSE [finished EXCEPT ![cur] = TRUE]

(* The polling loop of a slice: while it lasts, look whether the child has *)
(* ended, and sleep. Waiting for nobody fails and leaves status as it was, *)
(* uninitialised.                                                          *)
Poll == /\ pc = "poll" /\ now < quantum_end
        /\ \/ /\ Zombies(pid[cur]) = {} /\ Targets(pid[cur]) # {}
              /\ Sleep(1)
              /\ UNCHANGED <<error, finished, pc>>
           \/ /\ Goto("poll", "stop")
              /\ \E j \in Zombies(pid[cur]) : Reap(j) /\ Ended(fate[j])
           \/ /\ Goto("poll", "stop")
              /\ Targets(pid[cur]) = {}
              /\ \E status \in {"ok", "fail", "crash"} : Ended(status)
              /\ UNCHANGED childVars
        /\ UNCHANGED <<queue, priority, started, burst_time, row, cur, level, clocks>>

SliceOver == /\ Goto("poll", "stop") /\ now >= quantum_end
             /\ UNCHANGED <<childVars, queue, fields, row, cur, level, clocks>>

StopChild_Never == /\ Goto("stop", "account")
                   /\ UNCHANGED <<childVars, queue, fields, row, cur, level, clocks>>

(* The child is stopped unless it has finished; process id 0 stops the     *)
(* scheduler with its group.                                               *)
StopChild == /\ pc = "stop"
             /\ IF finished[cur]
                THEN pc' = "account" /\ UNCHANGED childVars
                ELSE /\ pc' = IF pid[cur] = 0 THEN "halted" ELSE "account"
                     /\ Stop(pid[cur])
             /\ UNCHANGED <<queue, fields, row, cur, level, clocks>>

Account_ChargeStart ==
    /\ Goto("account", "boost")
    /\ burst_time' = [burst_time EXCEPT ![cur] =
                         @ + (IF finished[cur] THEN now ELSE Quantum[level])]
    /\ IF finished[cur]
       THEN /\ row' = [row EXCEPT ![cur] =
                          [turnaround |-> now, burst |-> burst_time'[cur], error |-> error[cur]]]
            /\ UNCHANGED <<queue, priority>>
       ELSE /\ priority' = [priority EXCEPT ![cur] = IF level = 0 THEN 1 ELSE 2]
            /\ queue' = Add(queue, cur, priority'[cur])
            /\ UNCHANGED row
    /\ UNCHANGED <<childVars, started, error, finished, cur, level, clocks>>

(* The results of a process that has finished go to its row of processes;  *)
(* any other is charged a full quantum and sinks. A process that is never  *)
(* seen to finish is charged for ever: its burst stays at the bound.       *)
Account ==
    /\ Goto("account", "boost")
    /\ burst_time' = [burst_time EXCEPT ![cur] =
                         IF finished[cur] THEN @ + (now - start_time)
                         ELSE IF @ > MaxTime THEN @ ELSE @ + Quantum[level]]
    /\ IF finished[cur]
       THEN /\ row' = [row EXCEPT ![cur] =
                          [turnaround |-> now, burst |-> burst_time'[cur], error |-> error[cur]]]
            /\ UNCHANGED <<queue, priority>>
       ELSE /\ priority' = [priority EXCEPT ![cur] = IF level = 0 THEN 1 ELSE 2]
            /\ queue' = Add(queue, cur, priority'[cur])
            /\ UNCHANGED row
    /\ UNCHANGED <<childVars, started, error, finished, cur, level, clocks>>

Boosted_KeepPriority == /\ queue' = [k \in Levels |-> IF k = 0 THEN queue[0] \o queue[1] \o queue[2]
                                                      ELSE <<>>]
                        /\ UNCHANGED priority

Boosted_LowestFirst ==
    /\ queue' = [k \in Levels |-> IF k = 0 THEN queue[2] \o queue[1] \o queue[0] ELSE <<>>]
    /\ priority' = [j \in Jobs |->
           IF \E k \in {1, 2} : \E i \in DOMAIN queue[k] : queue[k][i] = j
           THEN 0 ELSE priority[j]]

(* boost_queues: the lower queues are appended to the first, which has     *)
(* room for them: no more than MAX_QUEUE_SIZE processes were ever added.   *)
Boosted == /\ queue' = [k \in Levels |-> IF k = 0 THEN queue[0] \o queue[1] \o queue[2]
                                         ELSE <<>>]
           /\ priority' = [j \in Jobs |->
                  IF \E k \in {1, 2} : \E i \in DOMAIN queue[k] : queue[k][i] = j
                  THEN 0 ELSE priority[j]]

(* Boost when it is time; then the next round, a little later.             *)
Boost == /\ Goto("boost", "loop")
         /\ IF now - lastBoostTime >= boostTime
            THEN Boosted /\ lastBoostTime' = now
            ELSE UNCHANGED <<queue, priority, lastBoostTime>>
         /\ now' \in {now} \cup {t \in now + 1 .. now + Overhead : t <= MaxTime}
         /\ UNCHANGED <<child, left, fate, pid, failures, started, error, finished,
                        burst_time, row, cur, level, start_time, quantum_end>>

Next == \/ Pop \/ WriteCsv \/ Launch \/ Resume \/ Poll \/ SliceOver \/ StopChild
        \/ Account \/ Boost
        \/ pc \in {"done", "halted"} /\ UNCHANGED vars

(* The scheduler is one process that keeps running.                        *)
Spec == Init /\ [][Next]_vars /\ WF_vars(Next)
-----------------------------------------------------------------------------
InSlice == pc \in {"dispatch", "poll", "stop", "account", "halted"}

Places(j) == UNION {{k} \X {i \in DOMAIN queue[k] : queue[k][i] = j} : k \in Levels}

TypeOK == /\ ChildrenTypeOK
          /\ queue \in [Levels -> Seq(Jobs)] /\ \A k \in Levels : Len(queue[k]) <= N
          /\ priority \in [Jobs -> Levels] /\ burst_time \in [Jobs -> Nat]
          /\ {started, error, finished} \subseteq [Jobs -> BOOLEAN]
          /\ \A j \in Jobs : row[j] = <<>> \/ row[j] \in [turnaround : Nat, burst : Nat, error : BOOLEAN]
          /\ cur \in Jobs /\ level \in Levels
          /\ start_time \in 0 .. now /\ quantum_end \in Nat /\ lastBoostTime \in 0 .. now
          /\ pc \in {"loop", "dispatch", "poll", "stop", "account", "boost", "done", "halted"}

(* No process gets lost or is queued twice: until its results are recorded *)
(* it is in one place of one queue, that of its priority, or it has been   *)
(* popped for the slice at hand. (For at most MAX_QUEUE_SIZE processes.)   *)
OnePlace == \A j \in Jobs :
    /\ Cardinality(Places(j)) = IF row[j] # <<>> \/ (InSlice /\ cur = j) THEN 0 ELSE 1
    /\ \A place \in Places(j) : place[1] = priority[j]

(* turnaround_time - burst_time, an unsigned subtraction, does not wrap,   *)
(* although unfinished slices are charged by their nominal length. (After  *)
(* a failed fork a process collects the status of somebody else.)          *)
WaitingTime == \A j \in Jobs : failures = 0 /\ row[j] # <<>> => row[j].burst <= row[j].turnaround

(* When no child is killed and no fork fails the results are written,      *)
(* whatever the exit statuses.                                             *)
ReportedIfWell ==
    (\A j \in Jobs : fate[j] # "crash") /\ [](failures = 0) => <>(pc = "done")

Scheduler == INSTANCE JobScheduler WITH
    stage <- [j \in Jobs |-> IF row[j] # <<>> THEN "ended"
                             ELSE IF child[j] = "running" THEN "running"
                             ELSE IF child[j] = "none" THEN "new" ELSE "paused"],
    verdict <- [j \in Jobs |-> IF row[j] = <<>> THEN "none"
                               ELSE IF row[j].error THEN "error" ELSE "ok"],
    outcome <- [j \in Jobs |-> IF fate[j] = "ok" THEN "ok" ELSE "error"],
    reported <- pc = "done"

(* The queues take only the steps of the abstract scheduler: one child     *)
(* runs at a time, each process ends once, with its true outcome, and what *)
(* is reported is complete. All this as long as every fork succeeds.       *)
ImplementsScheduler ==
    Scheduler!Init /\ [][failures' = 0 => [Scheduler!Next]_(Scheduler!vars)]_vars

(* The state is well formed and the times of a process that finished are   *)
(* consistent, whatever was charged to it on its way through the queues.   *)
Inv == TypeOK /\ WaitingTime
=============================================================================
