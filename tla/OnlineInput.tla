----------------------------- MODULE OnlineInput -----------------------------
(***************************************************************************)
(* Assignment-02-schedulers/online_schedulers.h: what both online          *)
(* schedulers do with the terminal and with the history of commands. Jobs  *)
(* arrive while the scheduler runs; it sees them when it looks.            *)
(***************************************************************************)
EXTENDS Children, SequencesExt

CONSTANTS Commands,         \* what a line may say, beside exit
          DefaultBurst,     \* the 1000 ms assumed of a new command
          MAX_QUEUE_SIZE

ASSUME OnlineAssumption == DefaultBurst \in Nat \ {0} /\ MAX_QUEUE_SIZE \in Nat

VARIABLES arrived,                         \* lines read so far: the jobs 1 .. arrived
          command, arrivalTime, startTime, burstTime, error,   \* fields of the processes
          commandBurstTimes, commandCount, \* history, by command
          row,                             \* written to the CSV file
          cur, pc

history == <<commandBurstTimes, commandCount>>
fields == <<command, arrivalTime, startTime, burstTime, error>>
onlineVars == <<childVars, arrived, fields, history, row, cur, pc>>

OnlineInit == /\ ChildrenInit /\ arrived = 0
              /\ command = [j \in {} |-> 0] /\ arrivalTime = [j \in Jobs |-> 0]
              /\ startTime = [j \in Jobs |-> 0] /\ burstTime = [j \in Jobs |-> 0]
              /\ error = [j \in Jobs |-> FALSE]
              /\ commandBurstTimes = [c \in {} |-> 0] /\ commandCount = [c \in {} |-> 0]
              /\ row = [j \in Jobs |-> <<>>] /\ cur = 1 /\ pc = "input"

Goto(from, to) == pc = from /\ pc' = to

Submitted == 1 .. arrived

Estimate(c) == IF c \in DOMAIN commandBurstTimes THEN commandBurstTimes[c] ELSE DefaultBurst

(* A line has been typed: a new process, and for a new command an entry in *)
(* the history. A command that is known keeps its entry.                   *)
ReadLine(j, c) ==
    /\ pc = "input" /\ j = arrived + 1 /\ j <= N /\ arrived' = j
    /\ command' = [i \in Submitted \cup {j} |-> IF i = j THEN c ELSE command[i]]
    /\ arrivalTime' = [arrivalTime EXCEPT ![j] = now]
    /\ commandBurstTimes' = [b \in DOMAIN commandBurstTimes \cup {c} |-> Estimate(b)]
    /\ commandCount' = [b \in DOMAIN commandBurstTimes \cup {c} |->
                           IF b \in DOMAIN commandCount THEN commandCount[b] ELSE 1]
    /\ UNCHANGED <<row, cur, pc, startTime>>

Enqueue_OneLess(q, j) == IF Len(q) + 1 < MAX_QUEUE_SIZE THEN Append(q, j) ELSE q

(* A full queue drops the process.                                         *)
Enqueue(q, j) == IF Len(q) < MAX_QUEUE_SIZE THEN Append(q, j) ELSE q

(* exit ends the program at once, whatever is queued or stopped.           *)
ReadExit == Goto("input", "exited")

Learn_CountLate(c, burst) ==
    /\ commandCount' = [commandCount EXCEPT ![c] = @ + 1]
    /\ commandBurstTimes' = [commandBurstTimes EXCEPT
           ![c] = (@ * commandCount[c] + burst) \div commandCount[c]]

(* update_burst_times: the running average, in integers; the default of a  *)
(* new command stays in it as one sample.                                  *)
Learn(c, burst) ==
    /\ commandCount' = [commandCount EXCEPT ![c] = @ + 1]
    /\ commandBurstTimes' = [commandBurstTimes EXCEPT
           ![c] = (@ * commandCount[c] + burst) \div commandCount'[c]]
-----------------------------------------------------------------------------
(* The state that both schedulers use has its type.                        *)
OnlineTypeOK ==
    /\ arrived \in 0 .. N /\ command \in [Submitted -> Commands]
    /\ cur \in Jobs /\ DOMAIN commandBurstTimes = DOMAIN commandCount
    /\ \A j \in Jobs : /\ arrivalTime[j] \in 0 .. now /\ startTime[j] \in 0 .. now
                       /\ burstTime[j] \in Nat /\ error[j] \in BOOLEAN

Samples(c) == {j \in Submitted : command[j] = c /\ row[j] # <<>>}

(* The history is sound: every process that was recorded counts once, and  *)
(* the average lies between the extremes of what was measured and the      *)
(* default, in spite of the integer division at each step.                 *)
HistorySound ==
    \A c \in DOMAIN commandBurstTimes :
        LET bursts == {row[j].burst : j \in Samples(c)} \cup {DefaultBurst}
        IN  /\ commandCount[c] = 1 + Cardinality(Samples(c))
            /\ commandBurstTimes[c] \in Min(bursts) .. Max(bursts)
=============================================================================
