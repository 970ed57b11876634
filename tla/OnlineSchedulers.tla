-------------------------- MODULE OnlineSchedulers ---------------------------
(***************************************************************************)
(* A program that calls one of the two online schedulers, as its main may  *)
(* choose, and the person at its terminal.                                 *)
(***************************************************************************)
EXTENDS OnlineSJF, OnlineMLFQ

VARIABLE scheduler

vars == <<onlineVars, priorityQueue, mlfqVars, scheduler>>

Init == /\ SJFInit /\ MLFQInit
        /\ scheduler \in {"ShortestJobFirst", "MultiLevelFeedbackQueue"}

Read == /\ UNCHANGED scheduler
        /\ \/ scheduler = "ShortestJobFirst" /\ SJFRead /\ UNCHANGED mlfqVars
           \/ scheduler = "MultiLevelFeedbackQueue" /\ MLFQRead /\ UNCHANGED priorityQueue

Work == /\ UNCHANGED scheduler
        /\ \/ scheduler = "ShortestJobFirst" /\ SJFWork /\ UNCHANGED mlfqVars
           \/ scheduler = "MultiLevelFeedbackQueue" /\ MLFQWork /\ UNCHANGED priorityQueue

Exit == ReadExit /\ UNCHANGED <<childVars, arrived, fields, history, row, cur, priorityQueue,
                                mlfqVars, scheduler>>

(* With nothing queued the program looks at the terminal again and again.  *)
Idle == pc \in {"input", "exited", "halted"} /\ UNCHANGED vars

Next == Read \/ Work \/ Exit \/ Idle

(* The scheduler is one process that keeps running while it has work;      *)
(* nobody has to type a line.                                              *)
Spec == Init /\ [][Next]_vars /\ WF_vars(Work)
-----------------------------------------------------------------------------
TypeOK == /\ OnlineTypeOK /\ MLFQTypeOK /\ priorityQueue \in Seq(Submitted)
          /\ pc \in {"input", "fork", "wait", "dispatch", "poll", "recheck", "stop",
                     "account", "boost", "exited", "halted"}

Queued(j) == \E q \in {priorityQueue, queue[0], queue[1], queue[2]} : j \in ToSet(q)

(* A process is recorded when its own child has been waited for, and until *)
(* then it is in exactly one place: in a queue or with the processor. No   *)
(* child, stopped or a zombie, is forgotten.                               *)
NothingForgotten == WellBehaved =>
    \A j \in Submitted :
        LET running == cur = j /\ pc \notin {"input", "boost", "exited"}
        IN  IF row[j] = <<>> THEN running # Queued(j)
            ELSE ~running /\ ~Queued(j) /\ child[j] = "reaped"

(* Shortest job first is fair to the runs of one command: they are run in  *)
(* the order in which they were typed, however often the estimate of the   *)
(* command changes in between.                                             *)
SameCommandInOrder == scheduler = "ShortestJobFirst" =>
    \A k \in Submitted : \A j \in 1 .. k - 1 :
        command[j] = command[k] /\ row[k] # <<>> => row[j] # <<>>

(* Everything that is typed is run to its end and recorded, unless exit is *)
(* typed, though more lines keep coming; in the feedback queues provided   *)
(* that no fork fails and that the memory of new processes is zero.        *)
EverybodyReported ==
    scheduler = "ShortestJobFirst" \/ []WellBehaved =>
        \A j \in Jobs : j \in Submitted ~> (row[j] # <<>> \/ pc = "exited")

(* What is recorded is sound: the history counts every process once and    *)
(* stays within what was measured, and waiting times do not wrap.          *)
Inv == TypeOK /\ OnlineWaitingTime /\ HistorySound
=============================================================================
