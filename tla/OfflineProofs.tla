---------------------------- MODULE OfflineProofs ----------------------------
(***************************************************************************)
(* Proofs about the three offline schedulers. Each is proved sound by an   *)
(* inductive invariant, and to take only steps of the abstract scheduler.  *)
(***************************************************************************)
EXTENDS OfflineMLFQShare, FiniteSetTheorems, SequenceTheorems, TLAPS

CONSTANT quantum                           \* of round robin

VARIABLES i, completed, current_time       \* of round robin and FCFS

FCFS == INSTANCE OfflineFCFS

RR == INSTANCE OfflineRR

-----------------------------------------------------------------------------
(* A row that has been recorded is not the empty one.                      *)
LEMMA RecordedFCFS ==
    \A t, w : [turnaround |-> t, waiting |-> w] # <<>>
<1>. SUFFICES ASSUME NEW t, NEW w, [turnaround |-> t, waiting |-> w] = <<>> PROVE FALSE
  OBVIOUS
<1>1. DOMAIN [turnaround |-> t, waiting |-> w] = DOMAIN <<>>  OBVIOUS
<1>2. "turnaround" \in DOMAIN [turnaround |-> t, waiting |-> w]  OBVIOUS
<1>3. DOMAIN <<>> = {}  OBVIOUS
<1>. QED  BY <1>1, <1>2, <1>3

(* Nor is a row of round robin and MLFQ.                                   *)
LEMMA RecordedRR ==
    \A t, b, e : [turnaround |-> t, burst |-> b, error |-> e] # <<>>
<1>. SUFFICES ASSUME NEW t, NEW b, NEW e, [turnaround |-> t, burst |-> b, error |-> e] = <<>>
              PROVE FALSE
  OBVIOUS
<1>1. DOMAIN [turnaround |-> t, burst |-> b, error |-> e] = DOMAIN <<>>  OBVIOUS
<1>2. "turnaround" \in DOMAIN [turnaround |-> t, burst |-> b, error |-> e]  OBVIOUS
<1>3. DOMAIN <<>> = {}  OBVIOUS
<1>. QED  BY <1>1, <1>2, <1>3

(* A function that differs from another one in one place.                  *)
LEMMA Override ==
    ASSUME NEW S, NEW f, NEW g, NEW k \in S, NEW v,
           f = [m \in S |-> f[m]], g = [m \in S |-> g[m]],
           \A m \in S : g[m] = IF m = k THEN v ELSE f[m]
    PROVE  g = [f EXCEPT ![k] = v]
OBVIOUS

(* The outcome of each process for the abstract scheduler.                 *)
Outcome == [j \in Jobs |-> IF fate[j] = "ok" THEN "ok" ELSE "error"]

-----------------------------------------------------------------------------
(* FCFS: the processes before the i-th have been dealt with, those behind  *)
(* it have no child, and every recorded time lies before current_time.     *)
FCFSOrder ==
    /\ \A j \in Jobs : /\ j < i => child[j] \in {"none", "reaped"}
                       /\ j > i \/ (j = i /\ pc # "wait") => child[j] = "none"
    /\ pc = "wait" => i <= N /\ child[i] \in {"none", "running", "zombie"}
    /\ pc = "done" => i = N + 1

(* Recorded times lie before current_time; the child that is waited for    *)
(* started at it.                                                          *)
FCFSTimes ==
    /\ row \in [Jobs -> {<<>>} \cup [turnaround : Nat, waiting : Nat]]
    /\ \A j \in Jobs : child[j] \in {"none", "running"} => left[j] > 0
    /\ pc = "wait" => /\ start_time[i] = current_time
                      /\ child[i] = "zombie" => current_time < now
    /\ \A j \in Jobs : row[j] # <<>> => /\ j < i /\ row[j].waiting < row[j].turnaround
                                      /\ row[j].turnaround <= current_time

(* The inductive invariant of FCFS.                                        *)
FCFSInv == FCFS!TypeOK /\ FCFSOrder /\ FCFSTimes /\ FCFS!OneAfterTheOther

(* The invariant of FCFS holds, whichever forks fail, however children end *)
(* and however long sleeps take.                                           *)
THEOREM FCFSInvariant == FCFS!Spec => []FCFSInv
<1>. USE ChildrenAssumption DEF Jobs, FCFS!Jobs
<1>1. FCFS!Init => FCFSInv
  BY DEF FCFS!Init, FCFS!ChildrenInit, FCFSInv, FCFS!TypeOK, FCFS!ChildrenTypeOK,
         FCFSOrder, FCFSTimes, FCFS!OneAfterTheOther
<1>2. FCFSInv /\ [FCFS!Next]_(FCFS!vars) => FCFSInv'
  <2>. SUFFICES ASSUME FCFSInv, [FCFS!Next]_(FCFS!vars) PROVE FCFSInv'
    OBVIOUS
  <2>0. /\ child \in [Jobs -> {"none", "running", "stopped", "zombie", "reaped"}]
        /\ left \in [Jobs -> 0 .. MaxNeed] /\ fate \in [Jobs -> Fates]
        /\ pid \in [Jobs -> {0} \cup Jobs] /\ failures \in 0 .. MaxForkFailures /\ now \in Nat
        /\ i \in 1 .. N + 1 /\ pc \in {"start", "wait", "done"} /\ current_time \in 0 .. now
        /\ start_time \in [Jobs -> Nat] /\ error \in [Jobs -> BOOLEAN]
        /\ finished \in [Jobs -> BOOLEAN]
        /\ row \in [Jobs -> {<<>>} \cup [turnaround : Nat, waiting : Nat]]
    BY DEF FCFSInv, FCFS!TypeOK, FCFS!ChildrenTypeOK, FCFSTimes
  <2>1. CASE FCFS!Start
    <3>1. /\ pc = "start" /\ pc' = "wait" /\ i \in Jobs
          /\ start_time' = [start_time EXCEPT ![i] = current_time]
          /\ UNCHANGED <<i, current_time, error, finished, row, left, fate, now>>
      BY <2>0, <2>1 DEF FCFS!Start, FCFS!Goto, FCFS!Fork, FCFS!ForkFails
    <3>2. /\ child[i] = "none" /\ left[i] > 0
          /\ \A j \in Jobs : (j < i => child[j] \in {"none", "reaped"})
                             /\ (j > i => child[j] = "none")
      BY <3>1 DEF FCFSInv, FCFSOrder, FCFSTimes
    <3>3. PICK v \in {"none", "running"} :
             /\ child' = [child EXCEPT ![i] = v]
             /\ pid' \in [Jobs -> {0} \cup Jobs] /\ failures' \in 0 .. MaxForkFailures
      <4>1. CASE FCFS!Fork(i)  BY <2>0, <3>1, <4>1 DEF FCFS!Fork
      <4>2. CASE FCFS!ForkFails
        <5>1. child' = [child EXCEPT ![i] = "none"]  BY <2>0, <3>2, <4>2 DEF FCFS!ForkFails
        <5>2. UNCHANGED pid /\ failures' \in 0 .. MaxForkFailures
          BY <2>0, <4>2 DEF FCFS!ForkFails
        <5>. QED  BY <2>0, <5>1, <5>2
      <4>. QED  BY <2>1, <4>1, <4>2 DEF FCFS!Start
    <3>4. child' \in [Jobs -> {"none", "running", "stopped", "zombie", "reaped"}]
          /\ child'[i] = v /\ \A j \in Jobs : j # i => child'[j] = child[j]
      BY <2>0, <3>1, <3>3
    <3>5. start_time' \in [Jobs -> Nat] /\ start_time'[i] = current_time
      BY <2>0, <3>1
    <3>6. FCFS!TypeOK'
      <4>1. FCFS!ChildrenTypeOK'  BY <2>0, <3>1, <3>3, <3>4 DEF FCFS!ChildrenTypeOK
      <4>. QED  BY <3>1, <3>5, <4>1 DEF FCFSInv, FCFS!TypeOK
    <3>7. FCFSOrder'  BY <2>0, <3>1, <3>2, <3>4 DEF FCFSOrder
    <3>8. FCFSTimes'  BY <2>0, <3>1, <3>2, <3>4, <3>5 DEF FCFSInv, FCFSTimes
    <3>9. FCFS!OneAfterTheOther'  BY <3>1 DEF FCFSInv, FCFS!OneAfterTheOther
    <3>. QED  BY <3>6, <3>7, <3>8, <3>9 DEF FCFSInv
  <2>2. CASE FCFS!Block
    <3>1. /\ pc = "wait" /\ child[i] = "running" /\ now' = now + left[i]
          /\ left' = [left EXCEPT ![i] = 0] /\ child' = [child EXCEPT ![i] = "zombie"]
          /\ UNCHANGED <<fate, pid, failures, i, pc, current_time, start_time, error, finished, row>>
      BY <2>2 DEF FCFS!Block, FCFS!SleepUntilDone, FCFS!fields
    <3>2. i \in Jobs /\ left[i] \in Nat /\ left[i] > 0
      BY <2>0, <3>1 DEF FCFSInv, FCFSOrder, FCFSTimes
    <3>3. /\ child' \in [Jobs -> {"none", "running", "stopped", "zombie", "reaped"}]
          /\ child'[i] = "zombie" /\ \A j \in Jobs : j # i => child'[j] = child[j]
          /\ left' \in [Jobs -> 0 .. MaxNeed] /\ \A j \in Jobs : j # i => left'[j] = left[j]
      <4>1. child' = [child EXCEPT ![i] = "zombie"] /\ left' = [left EXCEPT ![i] = 0] /\ i \in Jobs
        BY Zenon, <3>1, <3>2
      <4>2. child \in [Jobs -> {"none", "running", "stopped", "zombie", "reaped"}]
        BY Zenon, <2>0
      <4>3. left \in [Jobs -> 0 .. MaxNeed] /\ 0 \in 0 .. MaxNeed
        <5>1. MaxNeed \in Nat  OBVIOUS
        <5>2. 0 \in 0 .. MaxNeed  BY <5>1
        <5>. QED  BY Zenon, <2>0, <5>2
      <4>4. /\ child' \in [Jobs -> {"none", "running", "stopped", "zombie", "reaped"}]
            /\ child'[i] = "zombie" /\ \A j \in Jobs : j # i => child'[j] = child[j]
        BY <4>1, <4>2
      <4>5. left' \in [Jobs -> 0 .. MaxNeed] /\ \A j \in Jobs : j # i => left'[j] = left[j]
        BY <4>1, <4>3
      <4>. QED  BY <4>4, <4>5
    <3>4. now' \in Nat /\ now' > now  BY <2>0, <3>1, <3>2
    <3>5. FCFS!TypeOK'
      <4>1. FCFS!ChildrenTypeOK'  BY <2>0, <3>1, <3>3, <3>4 DEF FCFS!ChildrenTypeOK
      <4>2. current_time' \in 0 .. now'  BY <2>0, <3>1, <3>4
      <4>. QED  BY <3>1, <4>1, <4>2 DEF FCFSInv, FCFS!TypeOK
    <3>6. FCFSOrder'  BY <2>0, <3>1, <3>2, <3>3 DEF FCFSInv, FCFSOrder
    <3>7. FCFSTimes'
      <4>1. \A j \in Jobs : child'[j] \in {"none", "running"} => left'[j] > 0
        BY <3>3 DEF FCFSInv, FCFSTimes
      <4>2. start_time'[i'] = current_time' /\ current_time' < now'
        BY <2>0, <3>1, <3>4 DEF FCFSInv, FCFSTimes
      <4>. QED  BY <2>0, <3>1, <4>1, <4>2 DEF FCFSInv, FCFSTimes
    <3>8. FCFS!OneAfterTheOther'  BY <3>1 DEF FCFSInv, FCFS!OneAfterTheOther
    <3>. QED  BY <3>5, <3>6, <3>7, <3>8 DEF FCFSInv
  <2>3. CASE FCFS!Collect
    <3>1. /\ pc = "wait" /\ pc' = "start" /\ i' = i + 1 /\ child[i] = "zombie"
          /\ child' = [child EXCEPT ![i] = "reaped"]
          /\ row' = [row EXCEPT ![i] = [turnaround |-> now, waiting |-> start_time[i]]]
          /\ error' = [error EXCEPT ![i] = fate[i] # "ok"]
          /\ current_time' = now /\ finished' = [finished EXCEPT ![i] = TRUE]
          /\ UNCHANGED <<start_time, left, fate, pid, failures, now>>
      BY <2>3 DEF FCFS!Collect, FCFS!Goto, FCFS!Reap
    <3>2. /\ i \in Jobs /\ start_time[i] = current_time /\ current_time < now
          /\ \A j \in Jobs : (j < i => child[j] \in {"none", "reaped"})
                             /\ (j > i => child[j] = "none")
          /\ \A j \in Jobs : row[j] # <<>> => /\ j < i /\ row[j].waiting < row[j].turnaround
                                              /\ row[j].turnaround <= current_time
      BY <2>0, <3>1 DEF FCFSInv, FCFSOrder, FCFSTimes
    <3>3. /\ child' \in [Jobs -> {"none", "running", "stopped", "zombie", "reaped"}]
          /\ child'[i] = "reaped" /\ \A j \in Jobs : j # i => child'[j] = child[j]
      BY <2>0, <3>1, <3>2
    <3>4. [turnaround |-> now, waiting |-> start_time[i]] \in [turnaround : Nat, waiting : Nat]
      BY <2>0, <3>2
    <3>5. /\ row' \in [Jobs -> {<<>>} \cup [turnaround : Nat, waiting : Nat]]
          /\ row'[i].turnaround = now /\ row'[i].waiting = current_time
          /\ \A j \in Jobs : j # i => row'[j] = row[j]
      BY <2>0, <3>1, <3>2, <3>4
    <3>6. error' \in [Jobs -> BOOLEAN] /\ finished' \in [Jobs -> BOOLEAN]
      BY Zenon, <2>0, <3>1
    <3>7. FCFS!TypeOK'
      <4>1. FCFS!ChildrenTypeOK'  BY <2>0, <3>1, <3>3 DEF FCFS!ChildrenTypeOK
      <4>2. i' \in 1 .. N + 1 /\ pc' = "start" /\ current_time' \in 0 .. now'
            /\ start_time' \in [Jobs -> Nat]
        BY <2>0, <3>1, <3>2
      <4>3. {error', finished'} \subseteq [Jobs -> BOOLEAN]  BY Zenon, <3>6
      <4>. QED  BY <3>5, <4>1, <4>2, <4>3 DEF FCFS!TypeOK
    <3>8. FCFSOrder'
      <4>1. i' \in Nat /\ \A j \in Jobs : /\ j < i' => (j < i /\ j # i) \/ j = i
                                          /\ j > i' \/ j = i' => j > i /\ j # i
        BY <2>0, <3>1, <3>2
      <4>2. \A j \in Jobs : /\ j < i' => child'[j] \in {"none", "reaped"}
                            /\ j > i' \/ j = i' => child'[j] = "none"
        BY <3>2, <3>3, <4>1
      <4>. QED  BY <3>1, <4>2 DEF FCFSOrder
    <3>9. \A j \in Jobs : row'[j] # <<>> => /\ j < i' /\ row'[j].waiting < row'[j].turnaround
                                            /\ row'[j].turnaround <= current_time'
      <4>. SUFFICES ASSUME NEW j \in Jobs, row'[j] # <<>>
                    PROVE  /\ j < i' /\ row'[j].waiting < row'[j].turnaround
                           /\ row'[j].turnaround <= current_time'
        OBVIOUS
      <4>1. CASE j = i
        <5>1. j < i'  BY <2>0, <3>1, <3>2, <4>1
        <5>2. row'[j].waiting = current_time /\ row'[j].turnaround = now  BY Zenon, <3>5, <4>1
        <5>3. now <= now  BY <2>0
        <5>. QED  BY Zenon, <3>1, <3>2, <5>1, <5>2, <5>3
      <4>2. CASE j # i
        <5>1. row'[j] = row[j]  BY <3>5, <4>2
        <5>2. j < i /\ row[j].waiting < row[j].turnaround /\ row[j].turnaround <= current_time
          BY <3>2, <5>1
        <5>3. row[j].turnaround \in Nat
          <6>1. row[j] \in [turnaround : Nat, waiting : Nat]  BY <2>0, <5>1
          <6>. QED  BY <6>1
        <5>4. j < i' /\ row[j].turnaround <= now
          <6>1. j < i /\ row[j].turnaround <= current_time /\ current_time < now /\ i' = i + 1
            BY Zenon, <3>1, <3>2, <5>2
          <6>2. j \in Int /\ i \in Int /\ current_time \in Int /\ now \in Int  BY <2>0
          <6>. QED  BY <5>3, <6>1, <6>2
        <5>. QED  BY Zenon, <3>1, <5>1, <5>2, <5>4
      <4>. QED  BY <4>1, <4>2
    <3>10. FCFSTimes'
      <4>1. \A j \in Jobs : child'[j] \in {"none", "running"} => left'[j] > 0
        BY <3>1, <3>3 DEF FCFSInv, FCFSTimes
      <4>. QED  BY <3>1, <3>5, <3>9, <4>1 DEF FCFSTimes
    <3>11. FCFS!OneAfterTheOther'
      <4>1. ASSUME NEW j \in Jobs, NEW k \in Jobs, j < k, row'[j] # <<>>, row'[k] # <<>>
            PROVE  row'[j].waiting < row'[j].turnaround /\ row'[j].turnaround <= row'[k].waiting
        <5>1. j # i
          <6>1. SUFFICES ASSUME j = i PROVE FALSE  OBVIOUS
          <6>2. k < i'  BY <3>9, <4>1
          <6>. QED  BY <2>0, <3>1, <3>2, <4>1, <6>1, <6>2
        <5>2. row'[j] = row[j] /\ row[j] # <<>>  BY Zenon, <3>5, <4>1, <5>1
        <5>3. CASE k = i
          <6>1. row'[k].waiting = current_time  BY Zenon, <3>5, <5>3
          <6>2. row[j].waiting < row[j].turnaround /\ row[j].turnaround <= current_time
            BY <3>2, <5>2
          <6>. QED  BY Zenon, <5>2, <6>1, <6>2
        <5>4. CASE k # i
          <6>1. row'[k] = row[k] /\ row[k] # <<>>  BY Zenon, <3>5, <4>1, <5>4
          <6>2. row[j].waiting < row[j].turnaround /\ row[j].turnaround <= row[k].waiting
            BY <4>1, <5>2, <6>1 DEF FCFSInv, FCFS!OneAfterTheOther
          <6>. QED  BY Zenon, <5>2, <6>1, <6>2
        <5>. QED  BY <5>3, <5>4
      <4>. QED  BY <4>1 DEF FCFS!OneAfterTheOther
    <3>. QED  BY <3>7, <3>8, <3>10, <3>11 DEF FCFSInv
  <2>4. CASE FCFS!WaitFails
    <3>1. /\ pc = "wait" /\ pc' = "start" /\ i' = i + 1 /\ child[i] = "none"
          /\ error' = [error EXCEPT ![i] = TRUE]
          /\ UNCHANGED <<child, left, fate, pid, failures, now, current_time, start_time,
                         finished, row>>
      BY <2>4 DEF FCFS!WaitFails, FCFS!Goto, FCFS!childVars
    <3>2. i \in Jobs  BY <2>0, <3>1 DEF FCFSInv, FCFSOrder
    <3>3. error' \in [Jobs -> BOOLEAN]  BY Zenon, <2>0, <3>1
    <3>4. FCFS!TypeOK'
      <4>1. FCFS!ChildrenTypeOK'  BY <2>0, <3>1 DEF FCFS!ChildrenTypeOK
      <4>2. i' \in 1 .. N + 1 /\ current_time' \in 0 .. now'  BY <2>0, <3>1, <3>2
      <4>3. {error', finished'} \subseteq [Jobs -> BOOLEAN]  BY Zenon, <2>0, <3>1, <3>3
      <4>. QED  BY <2>0, <3>1, <4>1, <4>2, <4>3 DEF FCFS!TypeOK
    <3>5. FCFSOrder'
      <4>1. i' \in Nat /\ \A j \in Jobs : /\ j < i' => j < i \/ j = i
                                          /\ j > i' \/ j = i' => j > i
        BY <2>0, <3>1, <3>2
      <4>2. \A j \in Jobs : /\ j < i' => child[j] \in {"none", "reaped"}
                            /\ j > i' \/ j = i' => child[j] = "none"
        BY <3>1, <4>1 DEF FCFSInv, FCFSOrder
      <4>. QED  BY <3>1, <4>2 DEF FCFSOrder
    <3>6. FCFSTimes'
      <4>1. \A j \in Jobs : j < i => j < i'  BY <2>0, <3>1
      <4>. QED  BY <3>1, <4>1 DEF FCFSInv, FCFSTimes
    <3>7. FCFS!OneAfterTheOther'  BY <3>1 DEF FCFSInv, FCFS!OneAfterTheOther
    <3>. QED  BY <3>4, <3>5, <3>6, <3>7 DEF FCFSInv
  <2>5. CASE FCFS!WriteCsv \/ UNCHANGED FCFS!vars
    <3>1. /\ UNCHANGED <<child, left, fate, pid, failures, now, i, current_time, start_time,
                         error, finished, row>>
          /\ pc' = pc \/ (pc = "start" /\ pc' = "done" /\ i > N)
      BY <2>5 DEF FCFS!WriteCsv, FCFS!Goto, FCFS!vars, FCFS!childVars, FCFS!fields
    <3>2. FCFS!TypeOK'  BY <3>1 DEF FCFSInv, FCFS!TypeOK, FCFS!ChildrenTypeOK
    <3>3. FCFSOrder'  BY <2>0, <3>1 DEF FCFSInv, FCFSOrder
    <3>4. FCFSTimes'  BY <3>1 DEF FCFSInv, FCFSTimes
    <3>5. FCFS!OneAfterTheOther'  BY <3>1 DEF FCFSInv, FCFS!OneAfterTheOther
    <3>. QED  BY <3>2, <3>3, <3>4, <3>5 DEF FCFSInv
  <2>. QED  BY <2>1, <2>2, <2>3, <2>4, <2>5 DEF FCFS!Next
<1>. QED  BY <1>1, <1>2, PTL DEF FCFS!Spec

(* The state of FCFS is well formed, and the recorded times are those of   *)
(* one processor used first come, first served.                            *)
THEOREM FCFSSound == FCFS!Spec => []FCFS!Inv
BY FCFSInvariant, PTL DEF FCFSInv, FCFS!Inv

(* The stage and the verdict of each process for the abstract scheduler.   *)
FCFSStage == [j \in FCFS!Jobs |-> IF j < i THEN "ended"
                                  ELSE IF child[j] = "running" THEN "running"
                                  ELSE IF child[j] = "none" THEN "new" ELSE "paused"]

(* What FCFS has recorded of each process: of all before the i-th, a       *)
(* failed fork included.                                                   *)
FCFSVerdict == [j \in FCFS!Jobs |-> IF j >= i THEN "none" ELSE IF error[j] THEN "error" ELSE "ok"]

(* The stage of one process changes.                                       *)
LEMMA FCFSStageMoves ==
    ASSUME NEW k \in FCFS!Jobs, NEW v,
           \A m \in FCFS!Jobs : FCFSStage'[m] = IF m = k THEN v ELSE FCFSStage[m]
    PROVE  FCFSStage' = [FCFSStage EXCEPT ![k] = v]
<1>1. FCFSStage = [m \in FCFS!Jobs |-> FCFSStage[m]]  BY DEF FCFSStage
<1>2. FCFSStage' = [m \in FCFS!Jobs |-> FCFSStage'[m]]  BY DEF FCFSStage
<1>. QED  BY <1>1, <1>2, Override

(* The verdict on one process is given.                                    *)
LEMMA FCFSVerdictMoves ==
    ASSUME NEW k \in FCFS!Jobs, NEW v,
           \A m \in FCFS!Jobs : FCFSVerdict'[m] = IF m = k THEN v ELSE FCFSVerdict[m]
    PROVE  FCFSVerdict' = [FCFSVerdict EXCEPT ![k] = v]
<1>1. FCFSVerdict = [m \in FCFS!Jobs |-> FCFSVerdict[m]]  BY DEF FCFSVerdict
<1>2. FCFSVerdict' = [m \in FCFS!Jobs |-> FCFSVerdict'[m]]  BY DEF FCFSVerdict
<1>. QED  BY <1>1, <1>2, Override

(* FCFS starts as the abstract scheduler does and takes only its steps:    *)
(* one child runs at a time, each process ends once, with its true         *)
(* outcome, and what is written is complete.                               *)
THEOREM FCFSTakesSchedulerSteps ==
    FCFS!Spec => FCFS!Scheduler!Init /\ [][FCFS!Scheduler!Next]_(FCFS!Scheduler!vars)
<1>. USE ChildrenAssumption DEF Jobs, FCFS!Jobs
<1>1. FCFS!Init => FCFS!Scheduler!Init
  BY DEF FCFS!Init, FCFS!ChildrenInit, FCFS!Scheduler!Init
<1>2. FCFSInv /\ FCFSInv' /\ [FCFS!Next]_(FCFS!vars) => [FCFS!Scheduler!Next]_(FCFS!Scheduler!vars)
  <2>. SUFFICES ASSUME FCFSInv, FCFSInv', [FCFS!Next]_(FCFS!vars)
                PROVE  FCFS!Scheduler!Next \/ UNCHANGED FCFS!Scheduler!vars
    OBVIOUS
  <2>0. /\ child \in [Jobs -> {"none", "running", "stopped", "zombie", "reaped"}]
        /\ error \in [Jobs -> BOOLEAN] /\ error' \in [Jobs -> BOOLEAN]
        /\ fate \in [Jobs -> Fates] /\ i \in Nat
    <3>1. FCFS!TypeOK /\ FCFS!TypeOK'  BY Zenon DEF FCFSInv
    <3>2. error' \in [Jobs -> BOOLEAN]  BY Zenon, <3>1 DEF FCFS!TypeOK
    <3>. QED  BY <3>1, <3>2 DEF FCFS!TypeOK, FCFS!ChildrenTypeOK
  <2>1. CASE FCFS!Start
    <3>1. CASE FCFS!Fork(i)
      <4>1. /\ i \in Jobs /\ \A j \in Jobs : child[j] # "running" \/ j < i
            /\ child[i] = "none" /\ child' = [child EXCEPT ![i] = "running"]
            /\ UNCHANGED <<fate, error, i>> /\ pc # "done" /\ pc' # "done"
        BY <2>1, <3>1 DEF FCFS!Start, FCFS!Goto, FCFS!Fork, FCFSInv, FCFS!TypeOK, FCFSOrder
      <4>2. PICK k \in FCFS!Jobs : k = i  BY <4>1
      <4>3. FCFSStage' = [FCFSStage EXCEPT ![k] = "running"]
        <5>1. \A m \in Jobs : FCFSStage'[m] = IF m = k THEN "running" ELSE FCFSStage[m]
          BY <2>0, <4>1, <4>2 DEF FCFSStage
        <5>. QED  BY <5>1, FCFSStageMoves
      <4>4. FCFS!Scheduler!Start(k)
        BY <2>0, <4>1, <4>2, <4>3 DEF FCFS!Scheduler!Start, FCFSStage
      <4>. QED  BY <4>4 DEF FCFS!Scheduler!Next
    <3>2. CASE FCFS!ForkFails
      BY <2>1, <3>2 DEF FCFS!Start, FCFS!Goto, FCFS!ForkFails, FCFS!Scheduler!vars
    <3>. QED  BY <2>1, <3>1, <3>2 DEF FCFS!Start
  <2>2. CASE FCFS!Block
    <3>1. /\ i \in Jobs /\ child[i] = "running" /\ child' = [child EXCEPT ![i] = "zombie"]
          /\ UNCHANGED <<fate, error, i, pc>>
      BY <2>2 DEF FCFS!Block, FCFS!SleepUntilDone, FCFS!fields, FCFSInv, FCFS!TypeOK, FCFSOrder
    <3>2. PICK k \in FCFS!Jobs : k = i  BY <3>1
    <3>3. FCFSStage' = [FCFSStage EXCEPT ![k] = "paused"]
      <4>1. \A m \in Jobs : FCFSStage'[m] = IF m = k THEN "paused" ELSE FCFSStage[m]
        BY <2>0, <3>1, <3>2 DEF FCFSStage
      <4>. QED  BY <4>1, FCFSStageMoves
    <3>4. FCFS!Scheduler!Pause(k)
      BY <2>0, <3>1, <3>2, <3>3 DEF FCFS!Scheduler!Pause, FCFSStage
    <3>. QED  BY <3>4 DEF FCFS!Scheduler!Next
  <2>3. CASE FCFS!Collect
    <3>1. /\ i \in Jobs /\ child[i] = "zombie" /\ child' = [child EXCEPT ![i] = "reaped"]
          /\ error' = [error EXCEPT ![i] = fate[i] # "ok"] /\ fate' = fate /\ i' = i + 1
          /\ pc # "done" /\ pc' # "done"
      BY <2>3 DEF FCFS!Collect, FCFS!Goto, FCFS!Reap, FCFSInv, FCFS!TypeOK, FCFSOrder
    <3>2. PICK k \in FCFS!Jobs : k = i  BY <3>1
    <3>3. FCFSStage' = [FCFSStage EXCEPT ![k] = "ended"]
      <4>1. \A m \in Jobs : FCFSStage'[m] = IF m = k THEN "ended" ELSE FCFSStage[m]
        BY <2>0, <3>1, <3>2 DEF FCFSStage
      <4>. QED  BY <4>1, FCFSStageMoves
    <3>4. FCFSVerdict' = [FCFSVerdict EXCEPT ![k] = Outcome[k]]
      <4>1. \A m \in Jobs : error'[m] <=> IF m = k THEN fate[k] # "ok" ELSE error[m]
        BY <2>0, <3>1, <3>2
      <4>2. \A m \in Jobs : FCFSVerdict'[m] = IF m = k THEN Outcome[k] ELSE FCFSVerdict[m]
        BY <2>0, <3>1, <3>2, <4>1 DEF FCFSVerdict, Outcome
      <4>. QED  BY <4>2, FCFSVerdictMoves
    <3>5. FCFS!Scheduler!End(k)
      BY <2>0, <3>1, <3>2, <3>3, <3>4 DEF FCFS!Scheduler!End, FCFSStage, FCFSVerdict, Outcome
    <3>. QED  BY <3>5 DEF FCFS!Scheduler!Next
  <2>4. CASE FCFS!WaitFails
    <3>1. /\ i \in Jobs /\ child[i] = "none" /\ child' = child
          /\ error' = [error EXCEPT ![i] = TRUE] /\ fate' = fate /\ i' = i + 1
          /\ pc # "done" /\ pc' # "done"
      BY <2>4 DEF FCFS!WaitFails, FCFS!Goto, FCFS!childVars, FCFSInv, FCFS!TypeOK, FCFSOrder
    <3>2. PICK k \in FCFS!Jobs : k = i  BY <3>1
    <3>3. FCFSStage' = [FCFSStage EXCEPT ![k] = "ended"]
      <4>1. \A m \in Jobs : FCFSStage'[m] = IF m = k THEN "ended" ELSE FCFSStage[m]
        BY <2>0, <3>1, <3>2 DEF FCFSStage
      <4>. QED  BY <4>1, FCFSStageMoves
    <3>4. FCFSVerdict' = [FCFSVerdict EXCEPT ![k] = "error"]
      <4>1. \A m \in Jobs : FCFSVerdict'[m] = IF m = k THEN "error" ELSE FCFSVerdict[m]
        BY <2>0, <3>1, <3>2 DEF FCFSVerdict
      <4>. QED  BY <4>1, FCFSVerdictMoves
    <3>5. FCFSStage[k] = "new"  BY <2>0, <3>1, <3>2 DEF FCFSStage
    <3>6. FCFS!Scheduler!End(k)
      BY <2>0, <3>1, <3>2, <3>3, <3>4, <3>5 DEF FCFS!Scheduler!End, FCFSStage, FCFSVerdict
    <3>. QED  BY <3>6 DEF FCFS!Scheduler!Next
  <2>5. CASE FCFS!WriteCsv
    <3>1. FCFS!Scheduler!Report
      BY <2>5 DEF FCFS!WriteCsv, FCFS!Goto, FCFS!childVars, FCFS!fields, FCFSInv, FCFSOrder,
                     FCFS!Scheduler!Report
    <3>. QED  BY <3>1 DEF FCFS!Scheduler!Next
  <2>6. CASE UNCHANGED FCFS!vars
    BY <2>6 DEF FCFS!vars, FCFS!childVars, FCFS!fields, FCFS!Scheduler!vars
  <2>. QED  BY <2>1, <2>2, <2>3, <2>4, <2>5, <2>6 DEF FCFS!Next
<1>. QED  BY <1>1, <1>2, FCFSInvariant, PTL DEF FCFS!Spec

-----------------------------------------------------------------------------
(* Round robin: the process whose turn it is. *)
LEMMA RRTurn ==
    ASSUME i \in 0 .. N - 1
    PROVE  RR!proc \in RR!Jobs /\ (i + 1) % N \in 0 .. N - 1
BY ChildrenAssumption DEF RR!proc, RR!Jobs

(* RR has its own copy of the cardinality of a set.                        *)
LEMMA RRCardinality == \A S : RR!Cardinality(S) = Cardinality(S)
BY Zenon DEF RR!Cardinality, Cardinality

(* No child runs unless it is its turn and it has been launched; a child   *)
(* that is there is known by its process id; a process is recorded when    *)
(* its child has been waited for; and no burst is longer than the time.    *)
RRChildren ==
    \A j \in Jobs :
        /\ \/ child[j] \in {"none", "stopped", "reaped"}
           \/ /\ j = RR!proc
              /\ \/ pc = "sleep" /\ child[j] = "running"
                 \/ pc = "stop" /\ child[j] \in {"running", "zombie"}
                 \/ pc = "wait" /\ child[j] = "zombie"
        /\ j = RR!proc /\ pc \in {"sleep", "stop", "wait"} => child[j] \notin {"none", "reaped"}
        /\ j = RR!proc /\ pc \in {"sleep", "stop"} => child[j] # "stopped"
        /\ child[j] # "none" => pid[j] = j
        /\ child[j] = "none" => pid[j] = 0 /\ (started[j] => pc = "failed")
        /\ ~started[j] => child[j] = "none"

(* A process is recorded when its child has been waited for, and no burst  *)
(* is longer than the time.                                                *)
RRRows ==
    /\ row \in [Jobs -> {<<>>} \cup [turnaround : Nat, burst : Nat, error : BOOLEAN]]
    /\ \A j \in Jobs : /\ row[j] # <<>> <=> child[j] = "reaped"
                       /\ burst_time[j] <= now
    /\ pc = "done" => completed = N

(* The inductive invariant of round robin.                                 *)
RRInv == RR!TypeOK /\ RRChildren /\ RRRows /\ RR!WaitingTime /\ RR!CompletedExact

(* What a signal to the child of process p does.                           *)
LEMMA RRSignal ==
    ASSUME NEW p \in RR!Jobs, NEW from \in {"running", "stopped"}, NEW to,
           child \in [RR!Jobs -> {"none", "running", "stopped", "zombie", "reaped"}],
           RR!Signal(p, from, to)
    PROVE  /\ child' = [child EXCEPT ![p] = IF child[p] = from THEN to ELSE child[p]]
           /\ UNCHANGED <<left, fate, pid, failures, now>>
<1>1. child' = [j \in RR!Jobs |-> IF j = p /\ child[j] = from THEN to ELSE child[j]]
  BY ChildrenAssumption DEF RR!Signal, RR!Targets, RR!Jobs
<1>2. child = [j \in RR!Jobs |-> child[j]] /\ child' = [j \in RR!Jobs |-> child'[j]]
  BY <1>1
<1>3. \A j \in RR!Jobs : child'[j] = IF j = p THEN IF child[p] = from THEN to ELSE child[p]
                                   ELSE child[j]
  BY <1>1
<1>. QED  BY <1>2, <1>3, Override DEF RR!Signal

(* completed counts the rows: a step that records process p adds one.      *)
LEMMA RRCount ==
    ASSUME RR!CompletedExact, NEW p \in RR!Jobs, row[p] = <<>>, row'[p] # <<>>,
           \A j \in RR!Jobs : j # p => row'[j] = row[j], completed' = completed + 1
    PROVE  RR!CompletedExact' /\ completed' \in 0 .. N
<1>. DEFINE rows == {j \in RR!Jobs : row[j] # <<>>}
<1>1. IsFiniteSet(RR!Jobs) /\ Cardinality(RR!Jobs) = N
  BY ChildrenAssumption, FS_Interval DEF RR!Jobs
<1>2. rows' = rows \cup {p} /\ p \notin rows  OBVIOUS
<1>3. IsFiniteSet(rows) /\ Cardinality(rows') = Cardinality(rows) + 1
  BY <1>1, <1>2, FS_Subset, FS_AddElement
<1>4. Cardinality(rows') <= N /\ Cardinality(rows') \in Nat
  BY <1>1, FS_Subset, FS_CardinalityType
<1>5. completed = Cardinality(rows)
  BY RRCardinality DEF RR!CompletedExact
<1>6. RR!CompletedExact'
  BY <1>3, <1>5, RRCardinality DEF RR!CompletedExact
<1>. QED  BY <1>3, <1>4, <1>5, <1>6, ChildrenAssumption

(* The invariant of round robin holds, for every quantum that is not 0.    *)
THEOREM RRInvariant == ASSUME quantum \in Nat \ {0} PROVE RR!Spec => []RRInv
<1>. USE ChildrenAssumption DEF Jobs, RR!Jobs
<1>1. RR!Init => RRInv
  <2>. SUFFICES ASSUME RR!Init PROVE RRInv  OBVIOUS
  <2>. USE DEF RR!Init, RR!ChildrenInit
  <2>1. RR!TypeOK  BY DEF RR!TypeOK, RR!ChildrenTypeOK
  <2>2. RRChildren  BY DEF RRChildren
  <2>3. RRRows  BY DEF RRRows
  <2>4. RR!WaitingTime  BY DEF RR!WaitingTime
  <2>5. RR!CompletedExact
    <3>1. {j \in RR!Jobs : row[j] # <<>>} = {}  OBVIOUS
    <3>. QED  BY <3>1, RRCardinality, FS_EmptySet DEF RR!CompletedExact
  <2>. QED  BY <2>1, <2>2, <2>3, <2>4, <2>5 DEF RRInv
<1>2. RRInv /\ [RR!Next]_(RR!vars) => RRInv'
  <2>. SUFFICES ASSUME RRInv, [RR!Next]_(RR!vars) PROVE RRInv'
    OBVIOUS
  <2>. PICK p \in RR!Jobs : p = RR!proc  BY RRTurn DEF RRInv, RR!TypeOK
  <2>0. (i + 1) % N \in 0 .. N - 1  BY RRTurn DEF RRInv, RR!TypeOK
  <2>1. CASE RR!Skip
    <3>1. /\ UNCHANGED <<childVars, completed, pc, started, error, finished, burst_time, row>>
          /\ pc = "loop" /\ i' \in 0 .. N - 1
      BY <2>0, <2>1 DEF RR!Skip, RR!childVars, childVars, RR!fields
    <3>2. RR!TypeOK'  BY <3>1 DEF RRInv, RR!TypeOK, RR!ChildrenTypeOK, childVars
    <3>3. RRChildren'  BY <3>1 DEF RRInv, RRChildren, childVars
    <3>4. (RRRows /\ RR!WaitingTime /\ RR!CompletedExact)'
      BY <3>1 DEF RRInv, RRRows, RR!WaitingTime, RR!CompletedExact, childVars
    <3>. QED  BY <3>2, <3>3, <3>4 DEF RRInv
  <2>2. CASE RR!Pick \/ RR!WriteCsv
    <3>1. /\ UNCHANGED <<childVars, i, completed, started, error, finished, burst_time, row>>
          /\ pc = "loop" /\ pc' \in {"dispatch", "done"} /\ (pc' = "done" => completed = N)
      BY <2>2 DEF RR!Pick, RR!WriteCsv, RR!Goto, RR!childVars, childVars, RR!fields
    <3>2. RR!TypeOK'  BY <3>1 DEF RRInv, RR!TypeOK, RR!ChildrenTypeOK, childVars
    <3>3. RRChildren'  BY <3>1 DEF RRInv, RRChildren, childVars
    <3>4. (RRRows /\ RR!WaitingTime /\ RR!CompletedExact)'
      BY <3>1 DEF RRInv, RRRows, RR!WaitingTime, RR!CompletedExact, childVars
    <3>. QED  BY <3>2, <3>3, <3>4 DEF RRInv
  <2>3. CASE RR!Launch
    <3>1. /\ started' = [started EXCEPT ![p] = TRUE] /\ ~started[p] /\ pc = "dispatch"
          /\ UNCHANGED <<left, fate, now, i, completed, finished, burst_time, row>>
      BY <2>3 DEF RR!Launch, RR!Goto, RR!Fork, RR!ForkFails
    <3>2. \/ /\ pc' = "sleep" /\ child' = [child EXCEPT ![p] = "running"]
             /\ pid' = [pid EXCEPT ![p] = p] /\ UNCHANGED <<failures, error>>
          \/ /\ pc' = "failed" /\ failures < MaxForkFailures /\ failures' = failures + 1
             /\ error' = [error EXCEPT ![p] = TRUE] /\ UNCHANGED <<child, pid>>
      BY <2>3 DEF RR!Launch, RR!Goto, RR!Fork, RR!ForkFails
    <3>3. RR!TypeOK'
      <4>1. started' \in [RR!Jobs -> BOOLEAN] /\ error' \in [RR!Jobs -> BOOLEAN]
        BY <3>1, <3>2 DEF RRInv, RR!TypeOK
      <4>2. failures' \in 0 .. MaxForkFailures
        BY <3>2 DEF RRInv, RR!TypeOK, RR!ChildrenTypeOK
      <4>3. child' \in [RR!Jobs -> {"none", "running", "stopped", "zombie", "reaped"}]
            /\ pid' \in [RR!Jobs -> {0} \cup RR!Jobs]
        <5>1. /\ child \in [RR!Jobs -> {"none", "running", "stopped", "zombie", "reaped"}]
              /\ pid \in [RR!Jobs -> {0} \cup RR!Jobs]
          BY DEF RRInv, RR!TypeOK, RR!ChildrenTypeOK
        <5>2. CASE pc' = "sleep"  BY <3>2, <5>1, <5>2
        <5>. QED  BY <3>2, <5>1, <5>2
      <4>4. RR!ChildrenTypeOK'
        BY <3>1, <4>2, <4>3 DEF RRInv, RR!TypeOK, RR!ChildrenTypeOK
      <4>. QED  BY <3>1, <3>2, <4>1, <4>4 DEF RRInv, RR!TypeOK
    <3>4. RR!proc' = p
      <4>1. i' = i  BY <3>1
      <4>. QED  BY Zenon, <4>1 DEF RR!proc
    <3>5. RRChildren'
      <4>1. \A j \in Jobs : j # p => /\ child'[j] = child[j] /\ pid'[j] = pid[j]
                                    /\ started'[j] = started[j]
        BY <3>1, <3>2 DEF RRInv, RR!TypeOK, RR!ChildrenTypeOK
      <4>2. /\ started'[p]
            /\ \/ pc' = "sleep" /\ child'[p] = "running" /\ pid'[p] = p
               \/ pc' = "failed" /\ child'[p] = child[p] /\ pid'[p] = pid[p]
        BY <3>1, <3>2 DEF RRInv, RR!TypeOK, RR!ChildrenTypeOK
      <4>3. child[p] = "none" /\ pid[p] = 0  BY <3>1 DEF RRInv, RRChildren
      <4>. QED  BY <3>1, <3>4, <4>1, <4>2, <4>3 DEF RRInv, RRChildren
    <3>6. child[p] = "none"  BY <3>1 DEF RRInv, RRChildren
    <3>7. RRRows'
      <4>1. \A j \in Jobs : child'[j] = "reaped" <=> child[j] = "reaped"
        <5>1. child \in [Jobs -> {"none", "running", "stopped", "zombie", "reaped"}]
          BY DEF RRInv, RR!TypeOK, RR!ChildrenTypeOK
        <5>2. child' = [child EXCEPT ![p] = "running"] \/ child' = child  BY Zenon, <3>2
        <5>. QED  BY <3>6, <5>1, <5>2
      <4>2. UNCHANGED <<row, burst_time, now, completed>> /\ pc' # "done"  BY <3>1, <3>2
      <4>. QED  BY <4>1, <4>2 DEF RRInv, RRRows
    <3>8. (RR!WaitingTime /\ RR!CompletedExact)'
      BY <3>1 DEF RRInv, RR!WaitingTime, RR!CompletedExact
    <3>. QED  BY <3>3, <3>5, <3>7, <3>8 DEF RRInv
  <2>4. CASE RR!Resume
    <3>0. RR!proc' = p
      <4>1. i' = i  BY <2>4 DEF RR!Resume
      <4>. QED  BY Zenon, <4>1 DEF RR!proc
    <3>1. CASE ~RR!Exists(pid[RR!proc])
      <4>1. /\ UNCHANGED <<childVars, i, completed, started, finished, burst_time, row>>
            /\ pc = "dispatch" /\ pc' = "failed" /\ error' = [error EXCEPT ![p] = TRUE]
        BY <2>4, <3>1 DEF RR!Resume, RR!Goto, RR!childVars, childVars
      <4>2. RR!TypeOK'  BY <4>1 DEF RRInv, RR!TypeOK, RR!ChildrenTypeOK, childVars
      <4>3. RRChildren'  BY <3>0, <4>1 DEF RRInv, RRChildren, childVars
      <4>4. (RRRows /\ RR!WaitingTime /\ RR!CompletedExact)'
        BY <4>1 DEF RRInv, RRRows, RR!WaitingTime, RR!CompletedExact, childVars
      <4>. QED  BY <4>2, <4>3, <4>4 DEF RRInv
    <3>2. CASE RR!Exists(pid[RR!proc])
      <4>1. /\ UNCHANGED <<i, completed, started, error, finished, burst_time, row>>
            /\ pc = "dispatch" /\ pc' = "sleep" /\ started[p] /\ RR!Continue(pid[p])
        BY <2>4, <3>2 DEF RR!Resume, RR!Goto
      <4>2. child[p] = "stopped" /\ pid[p] = p
        <5>1. child[p] \in {"stopped", "reaped"} /\ pid[p] = p
          BY <4>1 DEF RRInv, RRChildren
        <5>. QED  BY <3>2, <5>1 DEF RR!Exists, RR!Targets
      <4>3. child' = [child EXCEPT ![p] = "running"] /\ UNCHANGED <<left, fate, pid, failures, now>>
        BY <4>1, <4>2, RRSignal DEF RR!Continue, RRInv, RR!TypeOK, RR!ChildrenTypeOK
      <4>4. RR!TypeOK'  BY <4>1, <4>3 DEF RRInv, RR!TypeOK, RR!ChildrenTypeOK
      <4>5. RRChildren'
        BY <3>0, <4>1, <4>2, <4>3 DEF RRInv, RRChildren, RR!TypeOK, RR!ChildrenTypeOK
      <4>6. (RRRows /\ RR!WaitingTime /\ RR!CompletedExact)'
        BY <4>1, <4>2, <4>3
           DEF RRInv, RRRows, RR!WaitingTime, RR!CompletedExact, RR!TypeOK, RR!ChildrenTypeOK
      <4>. QED  BY <4>4, <4>5, <4>6 DEF RRInv
    <3>. QED  BY <3>1, <3>2
  <2>5. CASE RR!SleepQuantum
    <3>0. RR!proc' = p
      <4>1. i' = i  BY <2>5 DEF RR!SleepQuantum
      <4>. QED  BY Zenon, <4>1 DEF RR!proc
    <3>1. PICK e \in quantum .. quantum + Overrun :
             /\ now' = now + e
             /\ left' = [j \in RR!Jobs |-> IF child[j] # "running" THEN left[j]
                                           ELSE IF left[j] > e THEN left[j] - e ELSE 0]
             /\ child' = [j \in RR!Jobs |-> IF child[j] = "running" /\ left[j] <= e
                                            THEN "zombie" ELSE child[j]]
      BY <2>5 DEF RR!SleepQuantum, RR!Sleep
    <3>2. /\ burst_time' = [burst_time EXCEPT ![p] = @ + (now' - now)]
          /\ UNCHANGED <<fate, pid, failures, i, completed, started, error, finished, row>>
          /\ pc = "sleep" /\ pc' = "stop"
      BY <2>5 DEF RR!SleepQuantum, RR!Goto, RR!Sleep
    <3>3. e \in Nat /\ now \in Nat /\ now' - now = e
      BY <3>1 DEF RRInv, RR!TypeOK, RR!ChildrenTypeOK
    <3>4. RR!TypeOK'
      <4>1. /\ child \in [Jobs -> {"none", "running", "stopped", "zombie", "reaped"}]
            /\ left \in [Jobs -> 0 .. MaxNeed] /\ burst_time \in [Jobs -> Nat] /\ MaxNeed \in Nat
        BY DEF RRInv, RR!TypeOK, RR!ChildrenTypeOK
      <4>2. child' \in [Jobs -> {"none", "running", "stopped", "zombie", "reaped"}]
        BY <3>1, <4>1
      <4>3. left' \in [Jobs -> 0 .. MaxNeed]  BY <3>1, <3>3, <4>1
      <4>4. now' \in Nat  BY <3>1, <3>3
      <4>5. burst_time' \in [Jobs -> Nat]
        <5>1. burst_time' = [burst_time EXCEPT ![p] = burst_time[p] + e]  BY Zenon, <3>2, <3>3
        <5>2. burst_time \in [Jobs -> Nat] /\ e \in Nat  BY Zenon, <3>3, <4>1
        <5>. QED  BY <5>1, <5>2
      <4>6. RR!ChildrenTypeOK'
        BY <3>2, <4>2, <4>3, <4>4 DEF RRInv, RR!TypeOK, RR!ChildrenTypeOK
      <4>. QED  BY <3>2, <4>5, <4>6 DEF RRInv, RR!TypeOK
    <3>5. RRChildren'
      BY <3>0, <3>1, <3>2 DEF RRInv, RRChildren, RR!TypeOK, RR!ChildrenTypeOK
    <3>6. RRRows'
      <4>1. \A j \in Jobs : child'[j] = "reaped" <=> child[j] = "reaped"
        <5>1. child \in [Jobs -> {"none", "running", "stopped", "zombie", "reaped"}]
          BY DEF RRInv, RR!TypeOK, RR!ChildrenTypeOK
        <5>. QED  BY <3>1, <5>1
      <4>2. ASSUME NEW j \in Jobs PROVE burst_time'[j] <= now'
        <5>1. burst_time'[j] = IF j = p THEN burst_time[j] + e ELSE burst_time[j]
          <6>1. burst_time \in [Jobs -> Nat]  BY DEF RRInv, RR!TypeOK
          <6>2. burst_time' = [burst_time EXCEPT ![p] = burst_time[p] + e]  BY Zenon, <3>2, <3>3
          <6>. QED  BY <6>1, <6>2
        <5>2. burst_time[j] \in Nat /\ burst_time[j] <= now
          BY DEF RRInv, RRRows, RR!TypeOK
        <5>3. now' = now + e  BY <3>1
        <5>. QED  BY <3>3, <5>1, <5>2, <5>3
      <4>3. row' = row /\ pc' # "done"  BY <3>2
      <4>. QED  BY <4>1, <4>2, <4>3 DEF RRInv, RRRows
    <3>7. (RR!WaitingTime /\ RR!CompletedExact)'
      BY <3>2 DEF RRInv, RR!WaitingTime, RR!CompletedExact
    <3>. QED  BY <3>4, <3>5, <3>6, <3>7 DEF RRInv
  <2>6. CASE RR!StopChild
    <3>0. RR!proc' = p
      <4>1. i' = i  BY <2>6 DEF RR!StopChild
      <4>. QED  BY Zenon, <4>1 DEF RR!proc
    <3>1. /\ UNCHANGED <<i, completed, started, error, finished, burst_time, row>>
          /\ pc = "stop" /\ pc' = "wait" /\ RR!Stop(pid[p])
      BY <2>6 DEF RR!StopChild, RR!Goto, RR!fields
    <3>2. child[p] \in {"running", "zombie"} /\ pid[p] = p
      BY <3>1 DEF RRInv, RRChildren
    <3>3. child' = [child EXCEPT ![p] = IF child[p] = "running" THEN "stopped" ELSE child[p]]
          /\ UNCHANGED <<left, fate, pid, failures, now>>
      BY <3>1, <3>2, RRSignal DEF RR!Stop, RRInv, RR!TypeOK, RR!ChildrenTypeOK
    <3>4. RR!TypeOK'  BY <3>1, <3>2, <3>3 DEF RRInv, RR!TypeOK, RR!ChildrenTypeOK
    <3>5. RRChildren'
      BY <3>0, <3>1, <3>2, <3>3 DEF RRInv, RRChildren, RR!TypeOK, RR!ChildrenTypeOK
    <3>6. (RRRows /\ RR!WaitingTime /\ RR!CompletedExact)'
      <4>1. \A j \in Jobs : child'[j] = "reaped" <=> child[j] = "reaped"
        <5>1. child \in [Jobs -> {"none", "running", "stopped", "zombie", "reaped"}]
          BY DEF RRInv, RR!TypeOK, RR!ChildrenTypeOK
        <5>. QED  BY <3>2, <3>3, <5>1
      <4>2. UNCHANGED <<row, burst_time, now, completed>> /\ pc' # "done"  BY <3>1, <3>3
      <4>3. RRRows'  BY <4>1, <4>2 DEF RRInv, RRRows
      <4>. QED  BY <4>2, <4>3 DEF RRInv, RR!WaitingTime, RR!CompletedExact
    <3>. QED  BY <3>4, <3>5, <3>6 DEF RRInv
  <2>7. CASE RR!Wait
    <3>1. pc = "wait" /\ pc' = "loop" /\ i' \in 0 .. N - 1 /\ UNCHANGED <<started, burst_time>>
      BY <2>0, <2>7 DEF RR!Wait, RR!Goto
    <3>2. child[p] \in {"stopped", "zombie"} /\ pid[p] = p
      BY <3>1 DEF RRInv, RRChildren
    <3>3. RR!Zombies(pid[p]) = {} <=> child[p] = "stopped"
      BY <3>2 DEF RR!Zombies, RR!Targets
    <3>4. CASE child[p] = "stopped"
      <4>1. UNCHANGED <<childVars, completed, error, finished, row>>
        BY <2>7, <3>3, <3>4 DEF RR!Wait, RR!childVars, childVars
      <4>2. RR!TypeOK'  BY <3>1, <4>1 DEF RRInv, RR!TypeOK, RR!ChildrenTypeOK, childVars
      <4>3. RRChildren'  BY <3>1, <3>4, <4>1 DEF RRInv, RRChildren, childVars
      <4>4. (RRRows /\ RR!WaitingTime /\ RR!CompletedExact)'
        BY <3>1, <4>1 DEF RRInv, RRRows, RR!WaitingTime, RR!CompletedExact, childVars
      <4>. QED  BY <4>2, <4>3, <4>4 DEF RRInv
    <3>5. CASE child[p] = "zombie"
      <4>1. /\ child' = [child EXCEPT ![p] = "reaped"] /\ completed' = completed + 1
            /\ error' = [error EXCEPT ![p] = fate[p] # "ok"]
            /\ finished' = [finished EXCEPT ![p] = fate[p] = "ok"]
            /\ row' = [row EXCEPT ![p] = [turnaround |-> now, burst |-> burst_time[p], error |-> error'[p]]]
            /\ UNCHANGED <<left, fate, pid, failures, now>>
        BY <2>7, <3>3, <3>5 DEF RR!Wait, RR!Reap
      <4>2. /\ row[p] = <<>> /\ row'[p] # <<>> /\ burst_time[p] <= now
            /\ row'[p] = [turnaround |-> now, burst |-> burst_time[p], error |-> error'[p]]
            /\ \A j \in RR!Jobs : j # p => row'[j] = row[j]
        BY <3>5, <4>1, RecordedRR DEF RRInv, RRRows
      <4>3. RR!CompletedExact' /\ completed' \in 0 .. N
        BY <4>1, <4>2, RRCount DEF RRInv
      <4>4. error'[p] \in BOOLEAN /\ burst_time[p] \in Nat /\ now \in Nat
        BY <4>1 DEF RRInv, RR!TypeOK, RR!ChildrenTypeOK
      <4>5. RR!TypeOK'
        <5>1. RR!ChildrenTypeOK'  BY <4>1 DEF RRInv, RR!TypeOK, RR!ChildrenTypeOK
        <5>2. ASSUME NEW j \in RR!Jobs
              PROVE  row'[j] = <<>> \/ row'[j] \in [turnaround : Nat, burst : Nat, error : BOOLEAN]
          <6>1. CASE j = p  BY <4>2, <4>4, <6>1
          <6>2. CASE j # p  BY <4>2, <6>2 DEF RRInv, RR!TypeOK
          <6>. QED  BY <6>1, <6>2
        <5>3. error' \in [RR!Jobs -> BOOLEAN] /\ finished' \in [RR!Jobs -> BOOLEAN]
          BY Zenon, <4>1 DEF RRInv, RR!TypeOK
        <5>. QED  BY Zenon, <3>1, <4>3, <5>1, <5>2, <5>3 DEF RRInv, RR!TypeOK
      <4>6. RRChildren'
        BY <3>1, <3>5, <4>1 DEF RRInv, RRChildren, RR!TypeOK, RR!ChildrenTypeOK
      <4>7. RRRows'
        BY <3>1, <4>1, <4>2, <4>4 DEF RRInv, RRRows, RR!TypeOK, RR!ChildrenTypeOK
      <4>8. RR!WaitingTime'  BY <4>2 DEF RRInv, RR!WaitingTime
      <4>. QED  BY <4>3, <4>5, <4>6, <4>7, <4>8 DEF RRInv
    <3>. QED  BY <3>2, <3>4, <3>5
  <2>8. CASE UNCHANGED RR!vars
    <3>1. UNCHANGED <<child, left, fate, pid, failures, now, i, completed, pc, started, error,
                      finished, burst_time, row>>
      BY <2>8 DEF RR!vars, RR!childVars, RR!fields
    <3>2. RR!TypeOK'  BY <3>1 DEF RRInv, RR!TypeOK, RR!ChildrenTypeOK
    <3>3. RR!proc' = RR!proc  BY <3>1 DEF RR!proc
    <3>4. RRChildren'  BY <3>1, <3>3 DEF RRInv, RRChildren
    <3>5. RRRows' /\ RR!WaitingTime'  BY <3>1 DEF RRInv, RRRows, RR!WaitingTime
    <3>6. RR!CompletedExact'  BY <3>1 DEF RRInv, RR!CompletedExact
    <3>. QED  BY <3>2, <3>4, <3>5, <3>6 DEF RRInv
  <2>. QED  BY <2>1, <2>2, <2>3, <2>4, <2>5, <2>6, <2>7, <2>8 DEF RR!Next
<1>. QED  BY <1>1, <1>2, PTL DEF RR!Spec

(* The state of round robin is well formed, waiting times do not wrap and  *)
(* completed counts the processes that have a result.                      *)
THEOREM RRSound == ASSUME quantum \in Nat \ {0} PROVE RR!Spec => []RR!Inv
BY RRInvariant, PTL DEF RRInv, RR!Inv

-----------------------------------------------------------------------------
(* The two schedulers that run slices: stage and verdict of each process.  *)
Stage == [j \in Jobs |-> IF row[j] # <<>> THEN "ended"
                         ELSE IF child[j] = "running" THEN "running"
                         ELSE IF child[j] = "none" THEN "new" ELSE "paused"]

(* What has been recorded of each process.                                 *)
Verdict == [j \in Jobs |-> IF row[j] = <<>> THEN "none"
                           ELSE IF row[j].error THEN "error" ELSE "ok"]

(* The stage of one process changes.                                       *)
LEMMA StageMoves ==
    ASSUME NEW k \in Jobs, NEW v, \A m \in Jobs : Stage'[m] = IF m = k THEN v ELSE Stage[m]
    PROVE  Stage' = [Stage EXCEPT ![k] = v]
<1>1. Stage = [m \in Jobs |-> Stage[m]]  BY DEF Stage
<1>2. Stage' = [m \in Jobs |-> Stage'[m]]  BY DEF Stage
<1>. QED  BY <1>1, <1>2, Override

(* The verdict on one process is given.                                    *)
LEMMA VerdictMoves ==
    ASSUME NEW k \in Jobs, NEW v, \A m \in Jobs : Verdict'[m] = IF m = k THEN v ELSE Verdict[m]
    PROVE  Verdict' = [Verdict EXCEPT ![k] = v]
<1>1. Verdict = [m \in Jobs |-> Verdict[m]]  BY DEF Verdict
<1>2. Verdict' = [m \in Jobs |-> Verdict'[m]]  BY DEF Verdict
<1>. QED  BY <1>1, <1>2, Override

(* A child that gets the processor while nobody else has it.               *)
LEMMA SliceStarts ==
    ASSUME NEW k \in Jobs, DOMAIN child = Jobs, row[k] = <<>>, child[k] \in {"none", "stopped"},
           \A j \in Jobs : child[j] # "running", child' = [child EXCEPT ![k] = "running"],
           UNCHANGED <<row, fate>>, pc # "done", pc' # "done"
    PROVE  RR!Scheduler!Next /\ Scheduler!Next
<1>1. Stage' = [Stage EXCEPT ![k] = "running"]
  <2>1. \A m \in Jobs : Stage'[m] = IF m = k THEN "running" ELSE Stage[m]  BY DEF Stage
  <2>. QED  BY <2>1, StageMoves
<1>2. Stage[k] \in {"new", "paused"} /\ \A j \in Jobs : Stage[j] # "running"  BY DEF Stage
<1>3. RR!Scheduler!Start(k) /\ Scheduler!Start(k)
  BY <1>1, <1>2 DEF RR!Scheduler!Start, Scheduler!Start, Stage, Jobs, RR!Jobs
<1>. QED  BY <1>3 DEF RR!Scheduler!Next, Scheduler!Next, Jobs, RR!Jobs

(* A child that is stopped, or has ended and is not waited for yet.        *)
LEMMA SlicePauses ==
    ASSUME NEW k \in Jobs, DOMAIN child = Jobs, row[k] = <<>>, child[k] = "running",
           NEW v \in {"stopped", "zombie"}, child' = [child EXCEPT ![k] = v],
           UNCHANGED <<row, fate>>, pc # "done", pc' # "done"
    PROVE  RR!Scheduler!Next /\ Scheduler!Next
<1>1. Stage' = [Stage EXCEPT ![k] = "paused"]
  <2>1. \A m \in Jobs : Stage'[m] = IF m = k THEN "paused" ELSE Stage[m]  BY DEF Stage
  <2>. QED  BY <2>1, StageMoves
<1>2. Stage[k] = "running"  BY DEF Stage
<1>3. RR!Scheduler!Pause(k) /\ Scheduler!Pause(k)
  BY <1>1, <1>2 DEF RR!Scheduler!Pause, Scheduler!Pause, Stage, Jobs, RR!Jobs
<1>. QED  BY <1>3 DEF RR!Scheduler!Next, Scheduler!Next, Jobs, RR!Jobs

(* A process whose child has ended is recorded with its outcome.           *)
LEMMA SliceEnds ==
    ASSUME NEW k \in Jobs, row[k] = <<>>, row'[k] # <<>>, child[k] \notin {"none", "running"},
           row'[k].error <=> fate[k] # "ok",
           \A j \in Jobs : j # k => row'[j] = row[j] /\ child'[j] = child[j],
           UNCHANGED fate, pc # "done", pc' # "done"
    PROVE  RR!Scheduler!Next /\ Scheduler!Next
<1>1. Stage' = [Stage EXCEPT ![k] = "ended"]
  <2>1. \A m \in Jobs : Stage'[m] = IF m = k THEN "ended" ELSE Stage[m]  BY DEF Stage
  <2>. QED  BY <2>1, StageMoves
<1>2. Verdict' = [Verdict EXCEPT ![k] = Outcome[k]]
  <2>1. \A m \in Jobs : Verdict'[m] = IF m = k THEN Outcome[k] ELSE Verdict[m]
    BY DEF Verdict, Outcome
  <2>2. PICK v : v = Outcome[k]  OBVIOUS
  <2>3. \A m \in Jobs : Verdict'[m] = IF m = k THEN v ELSE Verdict[m]  BY Zenon, <2>1, <2>2
  <2>4. Verdict' = [Verdict EXCEPT ![k] = v]  BY <2>3, VerdictMoves
  <2>. QED  BY Zenon, <2>2, <2>4
<1>3. Stage[k] = "paused"  BY DEF Stage
<1>4. RR!Scheduler!End(k) /\ Scheduler!End(k)
  BY <1>1, <1>2, <1>3
     DEF RR!Scheduler!End, Scheduler!End, Stage, Verdict, Outcome, Jobs, RR!Jobs
<1>. QED  BY <1>4 DEF RR!Scheduler!Next, Scheduler!Next, Jobs, RR!Jobs

(* Round robin starts as the abstract scheduler does and takes only its    *)
(* steps, whatever the children do and whichever forks fail.               *)
THEOREM RRImplementsScheduler ==
    ASSUME quantum \in Nat \ {0} PROVE RR!Spec => RR!ImplementsScheduler
<1>. USE ChildrenAssumption DEF Jobs, RR!Jobs
<1>1. RR!Init => RR!Scheduler!Init
  BY DEF RR!Init, RR!ChildrenInit, RR!Scheduler!Init
<1>2. RRInv /\ [RR!Next]_(RR!vars) => [RR!Scheduler!Next]_(RR!Scheduler!vars)
  <2>. SUFFICES ASSUME RRInv, [RR!Next]_(RR!vars)
                PROVE  RR!Scheduler!Next \/ UNCHANGED RR!Scheduler!vars
    OBVIOUS
  <2>. PICK p \in RR!Jobs : p = RR!proc  BY RRTurn DEF RRInv, RR!TypeOK
  <2>0. /\ child \in [Jobs -> {"none", "running", "stopped", "zombie", "reaped"}]
        /\ row \in [Jobs -> {<<>>} \cup [turnaround : Nat, burst : Nat, error : BOOLEAN]]
        /\ now \in Nat /\ quantum \in Nat
    BY DEF RRInv, RR!TypeOK, RR!ChildrenTypeOK, RRRows
  <2>1. CASE RR!Skip \/ RR!Pick
    BY <2>1 DEF RR!Skip, RR!Pick, RR!Goto, RR!childVars, RR!fields, RR!Scheduler!vars
  <2>2. CASE RR!WriteCsv
    <3>1. {j \in RR!Jobs : row[j] # <<>>} = RR!Jobs
      <4>. DEFINE rows == {j \in RR!Jobs : row[j] # <<>>}
      <4>1. IsFiniteSet(RR!Jobs) /\ Cardinality(RR!Jobs) = N
        BY FS_Interval
      <4>2. Cardinality(rows) = N
        BY <2>2, RRCardinality DEF RR!WriteCsv, RRInv, RR!CompletedExact
      <4>. QED  BY <4>1, <4>2, FS_Subset
    <3>2. UNCHANGED <<child, fate, row>> /\ pc = "loop" /\ pc' = "done"
      BY <2>2 DEF RR!WriteCsv, RR!Goto, RR!childVars
    <3>3. RR!Scheduler!Report
      BY <3>1, <3>2 DEF RR!Scheduler!Report
    <3>. QED  BY <3>3 DEF RR!Scheduler!Next
  <2>3. CASE RR!Launch
    <3>1. CASE pc' = "sleep"
      <4>1. /\ child' = [child EXCEPT ![p] = "running"] /\ UNCHANGED <<row, fate>>
            /\ pc = "dispatch" /\ ~started[p]
        BY <2>3, <3>1 DEF RR!Launch, RR!Goto, RR!Fork
      <4>2. child[p] = "none" /\ row[p] = <<>> /\ \A j \in Jobs : child[j] # "running"
        BY <4>1 DEF RRInv, RRChildren, RRRows
      <4>. QED  BY <2>0, <3>1, <4>1, <4>2, SliceStarts
    <3>2. CASE pc' # "sleep"
      BY <2>3, <3>2 DEF RR!Launch, RR!Goto, RR!ForkFails, RR!Scheduler!vars
    <3>. QED  BY <3>1, <3>2
  <2>4. CASE RR!Resume
    <3>1. CASE ~RR!Exists(pid[RR!proc])
      BY <2>4, <3>1 DEF RR!Resume, RR!Goto, RR!childVars, RR!Scheduler!vars
    <3>2. CASE RR!Exists(pid[RR!proc])
      <4>1. /\ UNCHANGED row /\ pc = "dispatch" /\ pc' = "sleep" /\ started[p]
            /\ RR!Continue(pid[p])
        BY <2>4, <3>2 DEF RR!Resume, RR!Goto
      <4>2. child[p] = "stopped" /\ pid[p] = p
        <5>1. child[p] \in {"stopped", "reaped"} /\ pid[p] = p
          BY <4>1 DEF RRInv, RRChildren
        <5>. QED  BY <3>2, <5>1 DEF RR!Exists, RR!Targets
      <4>3. child' = [child EXCEPT ![p] = "running"] /\ UNCHANGED fate
        BY <2>0, <4>1, <4>2, RRSignal DEF RR!Continue
      <4>4. row[p] = <<>> /\ \A j \in Jobs : child[j] # "running"
        BY <4>1, <4>2 DEF RRInv, RRChildren, RRRows
      <4>. QED  BY <2>0, <4>1, <4>2, <4>3, <4>4, SliceStarts
    <3>. QED  BY <3>1, <3>2
  <2>5. CASE RR!SleepQuantum
    <3>1. UNCHANGED <<row, fate>> /\ pc = "sleep" /\ pc' = "stop"
      BY <2>5 DEF RR!SleepQuantum, RR!Goto, RR!Sleep
    <3>2. child[p] = "running" /\ row[p] = <<>> /\ \A j \in Jobs : j # p => child[j] # "running"
      BY <3>1 DEF RRInv, RRChildren, RRRows
    <3>3. PICK v \in {"running", "zombie"} : child' = [child EXCEPT ![p] = v]
      <4>1. PICK e \in quantum .. quantum + Overrun :
               child' = [j \in RR!Jobs |-> IF child[j] = "running" /\ left[j] <= e
                                           THEN "zombie" ELSE child[j]]
        BY <2>5 DEF RR!SleepQuantum, RR!Sleep
      <4>2. child = [j \in Jobs |-> child[j]] /\ child' = [j \in Jobs |-> child'[j]]
        BY <2>0, <4>1
      <4>3. \A j \in Jobs : child'[j] = IF j = p THEN child'[p] ELSE child[j]
        BY <3>2, <4>1
      <4>4. child' = [child EXCEPT ![p] = child'[p]]
        BY <4>2, <4>3, Override
      <4>5. child'[p] \in {"running", "zombie"}
        BY <3>2, <4>1
      <4>. QED  BY <4>4, <4>5
    <3>4. CASE v = "zombie"  BY <2>0, <3>1, <3>2, <3>3, <3>4, SlicePauses
    <3>5. CASE v = "running"
      <4>1. child' = child  BY <2>0, <3>2, <3>3, <3>5
      <4>. QED  BY <3>1, <4>1 DEF RR!Scheduler!vars
    <3>. QED  BY <3>4, <3>5
  <2>6. CASE RR!StopChild
    <3>1. UNCHANGED row /\ pc = "stop" /\ pc' = "wait" /\ RR!Stop(pid[p])
      BY <2>6 DEF RR!StopChild, RR!Goto
    <3>2. child[p] \in {"running", "zombie"} /\ pid[p] = p /\ row[p] = <<>>
      BY <3>1 DEF RRInv, RRChildren, RRRows
    <3>3. child' = [child EXCEPT ![p] = IF child[p] = "running" THEN "stopped" ELSE child[p]]
          /\ UNCHANGED fate
      BY <2>0, <3>1, <3>2, RRSignal DEF RR!Stop
    <3>4. CASE child[p] = "running"  BY <2>0, <3>1, <3>2, <3>3, <3>4, SlicePauses
    <3>5. CASE child[p] = "zombie"
      <4>1. child' = child  BY <2>0, <3>3, <3>5
      <4>. QED  BY <3>1, <3>3, <4>1 DEF RR!Scheduler!vars
    <3>. QED  BY <3>2, <3>4, <3>5
  <2>7. CASE RR!Wait
    <3>1. pc = "wait" /\ pc' = "loop"  BY <2>7 DEF RR!Wait, RR!Goto
    <3>2. child[p] \in {"stopped", "zombie"} /\ pid[p] = p /\ row[p] = <<>>
      BY <3>1 DEF RRInv, RRChildren, RRRows
    <3>3. RR!Zombies(pid[p]) = {} <=> child[p] = "stopped"
      BY <3>2 DEF RR!Zombies, RR!Targets
    <3>4. CASE child[p] = "stopped"
      BY <2>7, <3>1, <3>3, <3>4 DEF RR!Wait, RR!childVars, RR!Scheduler!vars
    <3>5. CASE child[p] = "zombie"
      <4>1. /\ child' = [child EXCEPT ![p] = "reaped"] /\ UNCHANGED fate
            /\ error' = [error EXCEPT ![p] = fate[p] # "ok"]
            /\ row' = [row EXCEPT ![p] = [turnaround |-> now, burst |-> burst_time[p], error |-> error'[p]]]
        BY <2>7, <3>3, <3>5 DEF RR!Wait, RR!Reap
      <4>2. error'[p] <=> fate[p] # "ok"
        BY <4>1 DEF RRInv, RR!TypeOK
      <4>3. /\ row'[p] # <<>> /\ (row'[p].error <=> fate[p] # "ok")
            /\ \A j \in Jobs : j # p => row'[j] = row[j] /\ child'[j] = child[j]
        BY <2>0, <4>1, <4>2, RecordedRR
      <4>. QED  BY <3>1, <3>2, <3>5, <4>1, <4>3, SliceEnds
    <3>. QED  BY <3>2, <3>4, <3>5
  <2>8. CASE UNCHANGED RR!vars
    BY <2>8 DEF RR!vars, RR!childVars, RR!Scheduler!vars
  <2>. QED  BY <2>1, <2>2, <2>3, <2>4, <2>5, <2>6, <2>7, <2>8 DEF RR!Next
<1>. QED  BY <1>1, <1>2, RRInvariant, PTL DEF RR!Spec, RR!ImplementsScheduler

-----------------------------------------------------------------------------
(* The feedback queues. How popping changes them.                          *)
LEMMA PopQueue ==
    ASSUME queue \in [Levels -> Seq(Jobs)], NEW k \in Levels, queue[k] # <<>>,
           queue' = [queue EXCEPT ![k] = Tail(@)]
    PROVE  /\ queue' \in [Levels -> Seq(Jobs)] /\ \A l \in Levels : l # k => queue'[l] = queue[l]
           /\ Len(queue[k]) \in Nat \ {0} /\ Len(queue'[k]) = Len(queue[k]) - 1
           /\ \A a \in 1 .. Len(queue'[k]) : queue'[k][a] = queue[k][a + 1]
           /\ Head(queue[k]) = queue[k][1] /\ queue[k][1] \in Jobs
<1>. DEFINE s == queue[k]
<1>1. s \in Seq(Jobs) /\ queue'[k] = Tail(s)  OBVIOUS
<1>2. /\ Tail(s) \in Seq(Jobs) /\ Len(Tail(s)) = Len(s) - 1
      /\ \A a \in 1 .. Len(Tail(s)) : Tail(s)[a] = s[a + 1]
      /\ Len(s) \in Nat \ {0}
  BY <1>1, HeadTailProperties, EmptySeq
<1>3. Head(s) = s[1] /\ s[1] \in Jobs
  BY <1>1, <1>2, ElementOfSeq
<1>. QED  BY <1>1, <1>2, <1>3

(* How adding changes them: a queue that is full stays as it is.           *)
LEMMA AddQueue ==
    ASSUME queue \in [Levels -> Seq(Jobs)], NEW c \in Jobs, NEW k \in Levels,
           queue' = Add(queue, c, k)
    PROVE  /\ queue' \in [Levels -> Seq(Jobs)] /\ \A l \in Levels : l # k => queue'[l] = queue[l]
           /\ Len(queue[k]) \in Nat
           /\ \/ queue' = queue /\ Len(queue[k]) >= MAX_QUEUE_SIZE
              \/ /\ Len(queue'[k]) = Len(queue[k]) + 1 /\ queue'[k][Len(queue[k]) + 1] = c
                 /\ \A a \in 1 .. Len(queue[k]) : queue'[k][a] = queue[k][a]
<1>. DEFINE s == queue[k]
<1>1. s \in Seq(Jobs) /\ Len(s) \in Nat  BY LenProperties
<1>2. CASE Len(s) < MAX_QUEUE_SIZE
  <2>1. queue' = [queue EXCEPT ![k] = Append(s, c)]  BY <1>2 DEF Add
  <2>2. /\ Append(s, c) \in Seq(Jobs) /\ Len(Append(s, c)) = Len(s) + 1
        /\ Append(s, c)[Len(s) + 1] = c
        /\ \A a \in 1 .. Len(s) : Append(s, c)[a] = s[a]
    BY <1>1, AppendProperties
  <2>. QED  BY <1>1, <2>1, <2>2
<1>3. CASE ~(Len(s) < MAX_QUEUE_SIZE)
  BY <1>1, <1>3, MLFQAssumption DEF Add
<1>. QED  BY <1>2, <1>3

(* Three queues appended to each other, and where their elements are.      *)
LEMMA ThreeQueues ==
    ASSUME NEW x \in Seq(Jobs), NEW y \in Seq(Jobs), NEW z \in Seq(Jobs)
    PROVE  /\ (x \o y) \o z \in Seq(Jobs)
           /\ Len((x \o y) \o z) = Len(x) + Len(y) + Len(z)
           /\ \A a \in 1 .. Len(x) : ((x \o y) \o z)[a] = x[a]
           /\ \A a \in 1 .. Len(y) : ((x \o y) \o z)[Len(x) + a] = y[a]
           /\ \A a \in 1 .. Len(z) : ((x \o y) \o z)[Len(x) + Len(y) + a] = z[a]
<1>1. PICK l \in Nat, m \in Nat, n \in Nat : l = Len(x) /\ m = Len(y) /\ n = Len(z)
  BY LenProperties
<1>2. PICK s : s = x \o y  OBVIOUS
<1>7. /\ s \in Seq(Jobs) /\ Len(s) = l + m
      /\ \A a \in 1 .. l + m : s[a] = IF a <= l THEN x[a] ELSE y[a - l]
  <2>1. /\ x \o y \in Seq(Jobs) /\ Len(x \o y) = Len(x) + Len(y)
        /\ \A a \in 1 .. Len(x) + Len(y) :
              (x \o y)[a] = IF a <= Len(x) THEN x[a] ELSE y[a - Len(x)]
    BY ConcatProperties
  <2>. QED  BY Zenon, <1>1, <1>2, <2>1
<1>3. PICK t : t = s \o z  OBVIOUS
<1>8. /\ t \in Seq(Jobs) /\ Len(t) = (l + m) + n
      /\ \A a \in 1 .. (l + m) + n : t[a] = IF a <= l + m THEN s[a] ELSE z[a - (l + m)]
  <2>1. /\ s \o z \in Seq(Jobs) /\ Len(s \o z) = Len(s) + Len(z)
        /\ \A a \in 1 .. Len(s) + Len(z) :
              (s \o z)[a] = IF a <= Len(s) THEN s[a] ELSE z[a - Len(s)]
    BY <1>7, ConcatProperties
  <2>. QED  BY Zenon, <1>1, <1>3, <1>7, <2>1
<1>4. ASSUME NEW a \in 1 .. l PROVE t[a] = x[a]
  <2>1. a \in 1 .. l + m /\ a \in 1 .. (l + m) + n /\ a <= l /\ a <= l + m  OBVIOUS
  <2>. QED  BY <1>7, <1>8, <2>1
<1>5. ASSUME NEW a \in 1 .. m PROVE t[l + a] = y[a]
  <2>1. /\ l + a \in 1 .. l + m /\ l + a \in 1 .. (l + m) + n
        /\ ~(l + a <= l) /\ l + a <= l + m /\ (l + a) - l = a
    OBVIOUS
  <2>2. t[l + a] = s[l + a]  BY <1>8, <2>1
  <2>3. s[l + a] = y[(l + a) - l]  BY <1>7, <2>1
  <2>. QED  BY <2>1, <2>2, <2>3
<1>6. ASSUME NEW a \in 1 .. n PROVE t[l + m + a] = z[a]
  <2>1. /\ l + m + a \in 1 .. (l + m) + n /\ ~(l + m + a <= l + m) /\ (l + m + a) - (l + m) = a
    OBVIOUS
  <2>2. t[l + m + a] = z[(l + m + a) - (l + m)]  BY <1>8, <2>1
  <2>. QED  BY <2>1, <2>2
<1>. QED  BY <1>1, <1>2, <1>3, <1>4, <1>5, <1>6, <1>8

(* How boosting changes them: where the processes of queue k begin in the  *)
(* first queue afterwards.                                                 *)
Offset(k) == IF k = 0 THEN 0 ELSE IF k = 1 THEN Len(queue[0]) ELSE Len(queue[0]) + Len(queue[1])

(* A boost puts the three queues into the first, one behind the other:     *)
(* what was at place a of queue k is at place Offset(k) + a.               *)
LEMMA BoostQueue ==
    ASSUME queue \in [Levels -> Seq(Jobs)], Boosted
    PROVE  /\ queue' \in [Levels -> Seq(Jobs)] /\ queue'[1] = <<>> /\ queue'[2] = <<>>
           /\ \A k \in Levels : Offset(k) \in Nat /\ Len(queue[k]) \in Nat
           /\ \A k \in Levels : \A a \in 1 .. Len(queue[k]) :
                  /\ Offset(k) + a \in 1 .. Len(queue'[0])
                  /\ queue'[0][Offset(k) + a] = queue[k][a]
           /\ \A b \in 1 .. Len(queue'[0]) : \E k \in Levels : \E a \in 1 .. Len(queue[k]) :
                  b = Offset(k) + a
<1>1. queue[0] \in Seq(Jobs) /\ queue[1] \in Seq(Jobs) /\ queue[2] \in Seq(Jobs)
  BY DEF Levels
<1>2. PICK l \in Nat, m \in Nat, n \in Nat :
         l = Len(queue[0]) /\ m = Len(queue[1]) /\ n = Len(queue[2])
  BY <1>1, LenProperties
<1>3. queue' = [k \in Levels |-> IF k = 0 THEN (queue[0] \o queue[1]) \o queue[2] ELSE <<>>]
  BY DEF Boosted
<1>4. PICK t \in Seq(Jobs) : t = (queue[0] \o queue[1]) \o queue[2]  BY <1>1, ThreeQueues
<1>5. /\ Len(t) = l + m + n /\ \A a \in 1 .. l : t[a] = queue[0][a]
      /\ \A a \in 1 .. m : t[l + a] = queue[1][a]
      /\ \A a \in 1 .. n : t[l + m + a] = queue[2][a]
  <2>1. PICK x \in Seq(Jobs), y \in Seq(Jobs), z \in Seq(Jobs) :
           x = queue[0] /\ y = queue[1] /\ z = queue[2]
    BY <1>1
  <2>2. PICK q : q = (x \o y) \o z  OBVIOUS
  <2>3. /\ Len(q) = Len(x) + Len(y) + Len(z)
        /\ \A a \in 1 .. Len(x) : q[a] = x[a]
        /\ \A a \in 1 .. Len(y) : q[Len(x) + a] = y[a]
        /\ \A a \in 1 .. Len(z) : q[Len(x) + Len(y) + a] = z[a]
    <3>1. /\ Len((x \o y) \o z) = Len(x) + Len(y) + Len(z)
          /\ \A a \in 1 .. Len(x) : ((x \o y) \o z)[a] = x[a]
          /\ \A a \in 1 .. Len(y) : ((x \o y) \o z)[Len(x) + a] = y[a]
          /\ \A a \in 1 .. Len(z) : ((x \o y) \o z)[Len(x) + Len(y) + a] = z[a]
      BY ThreeQueues
    <3>. QED  BY Zenon, <2>2, <3>1
  <2>4. q = t  BY <1>4, <2>1, <2>2
  <2>. QED  BY Zenon, <1>2, <2>1, <2>3, <2>4
<1>6. queue'[0] = t /\ queue'[1] = <<>> /\ queue'[2] = <<>> /\ queue' \in [Levels -> Seq(Jobs)]
  BY <1>3, <1>4, EmptySeq DEF Levels
<1>7. Offset(0) = 0 /\ Offset(1) = l /\ Offset(2) = l + m  BY <1>2 DEF Offset
<1>8. ASSUME NEW k \in Levels
      PROVE  /\ Offset(k) \in Nat /\ Len(queue[k]) \in Nat
             /\ \A a \in 1 .. Len(queue[k]) : /\ Offset(k) + a \in 1 .. Len(t)
                                             /\ t[Offset(k) + a] = queue[k][a]
  <2>1. k \in {0, 1, 2}  BY DEF Levels
  <2>2. CASE k = 0
    <3>1. Offset(k) = 0 /\ Len(queue[k]) = l /\ \A a \in 1 .. l : t[0 + a] = queue[k][a]
      <4>1. \A a \in 1 .. l : 0 + a = a  OBVIOUS
      <4>. QED  BY Zenon, <1>2, <1>5, <1>7, <2>2, <4>1
    <3>2. 0 \in Nat /\ \A a \in 1 .. l : 0 + a \in 1 .. Len(t)
      <4>1. Len(t) = l + m + n  BY Zenon, <1>5
      <4>. QED  BY <4>1
    <3>. QED  BY Zenon, <3>1, <3>2
  <2>3. CASE k = 1
    <3>1. Offset(k) = l /\ Len(queue[k]) = m /\ \A a \in 1 .. m : t[l + a] = queue[k][a]
      BY Zenon, <1>2, <1>5, <1>7, <2>3
    <3>2. \A a \in 1 .. m : l + a \in 1 .. Len(t)
      <4>1. Len(t) = l + m + n  BY Zenon, <1>5
      <4>. QED  BY <4>1
    <3>. QED  BY Zenon, <3>1, <3>2
  <2>4. CASE k = 2
    <3>1. Offset(k) = l + m /\ Len(queue[k]) = n /\ \A a \in 1 .. n : t[l + m + a] = queue[k][a]
      BY Zenon, <1>2, <1>5, <1>7, <2>4
    <3>2. l + m \in Nat /\ \A a \in 1 .. n : l + m + a \in 1 .. Len(t)
      <4>1. Len(t) = l + m + n  BY Zenon, <1>5
      <4>. QED  BY <4>1
    <3>. QED  BY Zenon, <3>1, <3>2
  <2>. QED  BY <2>1, <2>2, <2>3, <2>4
<1>9. ASSUME NEW b \in 1 .. Len(t)
      PROVE  \E k \in Levels : \E a \in 1 .. Len(queue[k]) : b = Offset(k) + a
  <2>1. b \in Int /\ (b \in 1 .. l \/ b - l \in 1 .. m \/ b - (l + m) \in 1 .. n)  BY <1>5
  <2>2. CASE b \in 1 .. l
    <3>1. b \in 1 .. Len(queue[0]) /\ b = Offset(0) + b  BY <1>2, <1>7, <2>2
    <3>. QED  BY <3>1 DEF Levels
  <2>3. CASE b - l \in 1 .. m
    <3>1. b = l + (b - l) /\ 1 \in Levels  BY <2>1 DEF Levels
    <3>. QED  BY Zenon, <1>2, <1>7, <2>3, <3>1
  <2>4. CASE b - (l + m) \in 1 .. n
    <3>1. b = (l + m) + (b - (l + m)) /\ 2 \in Levels  BY <2>1 DEF Levels
    <3>. QED  BY Zenon, <1>2, <1>7, <2>4, <3>1
  <2>. QED  BY <2>1, <2>2, <2>3, <2>4
<1>. QED  BY <1>6, <1>8, <1>9

(* A sequence of different processes is no longer than there are           *)
(* processes, and shorter if one is missing.                               *)
LEMMA ShortSequence ==
    ASSUME NEW s \in Seq(Jobs), \A a, b \in 1 .. Len(s) : s[a] = s[b] => a = b
    PROVE  Len(s) \in 0 .. N /\ \A c \in Jobs : (\A a \in 1 .. Len(s) : s[a] # c) => Len(s) < N
<1>. USE ChildrenAssumption
<1>0. Len(s) \in Nat /\ s \in [1 .. Len(s) -> Jobs] /\ \A a \in 1 .. Len(s) : s[a] \in Jobs
  BY LenProperties, ElementOfSeq
<1>1. IsFiniteSet(1 .. Len(s)) /\ Cardinality(1 .. Len(s)) = Len(s)
  <2>1. \A n \in Nat : IsFiniteSet(1 .. n) /\ Cardinality(1 .. n) = n  BY FS_Interval
  <2>. QED  BY <1>0, <2>1
<1>2. IsFiniteSet(Jobs) /\ Cardinality(Jobs) = N
  BY FS_Interval DEF Jobs
<1>3. Len(s) <= N
  <2>1. SUFFICES ASSUME ~(Len(s) <= N) PROVE FALSE  OBVIOUS
  <2>2. Cardinality(Jobs) < Cardinality(1 .. Len(s))  BY <1>0, <1>1, <1>2, <2>1
  <2>3. \E a, b \in 1 .. Len(s) : a # b /\ s[a] = s[b]
    BY <1>0, <1>1, <1>2, <2>2, FS_PigeonHole
  <2>. QED  BY <2>3
<1>4. ASSUME NEW c \in Jobs, \A a \in 1 .. Len(s) : s[a] # c PROVE Len(s) < N
  <2>1. SUFFICES ASSUME ~(Len(s) < N) PROVE FALSE  OBVIOUS
  <2>2. IsFiniteSet(Jobs \ {c}) /\ Cardinality(Jobs \ {c}) = N - 1
    BY <1>2, FS_RemoveElement
  <2>3. s \in [1 .. Len(s) -> Jobs \ {c}]  BY <1>0, <1>4
  <2>4. Cardinality(Jobs \ {c}) < Cardinality(1 .. Len(s))  BY <1>0, <1>1, <2>1, <2>2
  <2>5. \E a, b \in 1 .. Len(s) : a # b /\ s[a] = s[b]
    BY <1>1, <2>2, <2>3, <2>4, FS_PigeonHole
  <2>. QED  BY <2>5
<1>. QED  BY <1>0, <1>3, <1>4

-----------------------------------------------------------------------------
(* A process is in no two places of the queues, is where its priority says *)
(* and has no result yet; the one that was popped is in none.              *)
NoDuplicates ==
    \A k, l \in Levels : \A a \in 1 .. Len(queue[k]), b \in 1 .. Len(queue[l]) :
        queue[k][a] = queue[l][b] => k = l /\ a = b

(* Who waits in a queue has its priority, has not been recorded and does   *)
(* not run.                                                                *)
Placed == \A k \in Levels : \A a \in 1 .. Len(queue[k]) :
              /\ priority[queue[k][a]] = k /\ row[queue[k][a]] = <<>>
              /\ InSlice => queue[k][a] # cur

(* The queues of MLFQ are sequences of processes without repetitions.      *)
QueueInv == /\ queue \in [Levels -> Seq(Jobs)] /\ NoDuplicates /\ Placed
            /\ InSlice => row[cur] = <<>>

(* A process that has finished has been recorded, or is about to be.       *)
Rows ==
    /\ row \in [Jobs -> {<<>>} \cup [turnaround : Nat, burst : Nat, error : BOOLEAN]]
    /\ \A j \in Jobs : /\ row[j] # <<>> => finished[j]
                       /\ finished[j] => row[j] # <<>> \/ (j = cur /\ pc \in {"stop", "account"})

(* The queues are one line: while somebody waits in the first or runs from *)
(* it, nobody is in the third; what is popped goes behind everybody else.  *)
OneLine ==
    /\ queue[0] # <<>> => queue[2] = <<>>
    /\ InSlice => /\ level = 0 => queue[2] = <<>>
                  /\ level # 0 => queue[0] = <<>>

(* What holds of MLFQ even after a fork has failed: types, rows and        *)
(* queues.                                                                 *)
MLFQInv == TypeOK /\ Rows /\ QueueInv /\ OneLine

(* What the scheduler does to its children leaves their state well formed. *)
LEMMA ChildrenTyped ==
    ASSUME ChildrenTypeOK, NEW j \in Jobs, NEW q, NEW d \in Nat,
           \/ Fork(j) \/ ForkFails \/ Continue(q) \/ Stop(q) \/ Reap(j) \/ Sleep(d)
           \/ UNCHANGED childVars
    PROVE  ChildrenTypeOK' /\ now \in Nat /\ now' >= now
<1>. USE ChildrenAssumption DEF ChildrenTypeOK
<1>1. CASE Fork(j)  BY <1>1 DEF Fork
<1>2. CASE ForkFails  BY <1>2 DEF ForkFails
<1>3. CASE Continue(q)  BY <1>3 DEF Continue, Signal
<1>4. CASE Stop(q)  BY <1>4 DEF Stop, Signal
<1>5. CASE Reap(j)  BY <1>5 DEF Reap
<1>6. CASE Sleep(d)
  <2>1. PICK e \in d .. d + Overrun :
           /\ now' = now + e
           /\ left' = [m \in Jobs |-> IF child[m] # "running" THEN left[m]
                                      ELSE IF left[m] > e THEN left[m] - e ELSE 0]
           /\ child' = [m \in Jobs |-> IF child[m] = "running" /\ left[m] <= e
                                       THEN "zombie" ELSE child[m]]
           /\ UNCHANGED <<fate, pid, failures>>
    BY <1>6 DEF Sleep
  <2>2. e \in Nat  OBVIOUS
  <2>. QED  BY <2>1, <2>2
<1>7. CASE UNCHANGED childVars  BY <1>7 DEF childVars
<1>. QED  BY <1>1, <1>2, <1>3, <1>4, <1>5, <1>6, <1>7

(* A queue without repetitions is not longer than the number of processes. *)
LEMMA QueuesShort ==
    ASSUME QueueInv
    PROVE  /\ \A k \in Levels : Len(queue[k]) \in 0 .. N
           /\ \A k \in Levels, c \in Jobs :
                 (\A a \in 1 .. Len(queue[k]) : queue[k][a] # c) => Len(queue[k]) < N
BY ShortSequence DEF QueueInv, NoDuplicates

(* Steps that leave the queues, and who was popped from where, alone.      *)
LEMMA LineQuiet ==
    ASSUME QueueInv, OneLine, UNCHANGED <<queue, priority, row, cur, level>>, InSlice' => InSlice
    PROVE  QueueInv' /\ OneLine'
BY DEF QueueInv, NoDuplicates, Placed, OneLine

(* The process at the head of the first queue that is not empty is popped. *)
LEMMA LinePop ==
    ASSUME QueueInv, OneLine, Pop
    PROVE  QueueInv' /\ OneLine' /\ cur' \in Jobs /\ level' \in Levels
<1>1. PICK k \in Levels :
         /\ queue[k] # <<>> /\ \A m \in 0 .. k - 1 : queue[m] = <<>>
         /\ level' = k /\ cur' = Head(queue[k])
         /\ queue' = [queue EXCEPT ![k] = Tail(@)]
  BY DEF Pop
<1>2. UNCHANGED <<row, priority>> /\ ~InSlice /\ InSlice'
  BY DEF Pop, Goto, InSlice, fields
<1>3. /\ queue' \in [Levels -> Seq(Jobs)] /\ \A l \in Levels : l # k => queue'[l] = queue[l]
      /\ Len(queue[k]) \in Nat \ {0} /\ Len(queue'[k]) = Len(queue[k]) - 1
      /\ \A a \in 1 .. Len(queue'[k]) : queue'[k][a] = queue[k][a + 1]
      /\ cur' = queue[k][1] /\ cur' \in Jobs
  BY <1>1, PopQueue DEF QueueInv
<1>. DEFINE old(l, a) == IF l = k THEN a + 1 ELSE a
<1>4. ASSUME NEW l \in Levels, NEW a \in 1 .. Len(queue'[l])
      PROVE  old(l, a) \in 1 .. Len(queue[l]) /\ queue'[l][a] = queue[l][old(l, a)]
  BY <1>3
<1>. HIDE DEF old
<1>5. 1 \in 1 .. Len(queue[k]) /\ row[cur'] = <<>>  BY <1>3 DEF QueueInv, Placed
<1>6. \A l, m \in Levels : \A a \in 1 .. Len(queue'[l]), b \in 1 .. Len(queue'[m]) :
         queue'[l][a] = queue'[m][b] => l = m /\ a = b
  <2>. SUFFICES ASSUME NEW l \in Levels, NEW m \in Levels, NEW a \in 1 .. Len(queue'[l]),
                       NEW b \in 1 .. Len(queue'[m]), queue'[l][a] = queue'[m][b]
                PROVE  l = m /\ a = b
    OBVIOUS
  <2>1. PICK a1 \in 1 .. Len(queue[l]) : a1 = old(l, a) /\ queue'[l][a] = queue[l][a1]
    BY <1>4
  <2>2. PICK b1 \in 1 .. Len(queue[m]) : b1 = old(m, b) /\ queue'[m][b] = queue[m][b1]
    BY <1>4
  <2>3. queue[l][a1] = queue[m][b1]  BY Zenon, <2>1, <2>2
  <2>4. l = m /\ a1 = b1  BY <2>3 DEF QueueInv, NoDuplicates
  <2>. QED  BY <2>1, <2>2, <2>4 DEF old
<1>7. \A l \in Levels : \A a \in 1 .. Len(queue'[l]) :
         priority[queue'[l][a]] = l /\ row[queue'[l][a]] = <<>> /\ queue'[l][a] # cur'
  <2>. SUFFICES ASSUME NEW l \in Levels, NEW a \in 1 .. Len(queue'[l])
                PROVE  priority[queue'[l][a]] = l /\ row[queue'[l][a]] = <<>> /\ queue'[l][a] # cur'
    OBVIOUS
  <2>0. PICK a1 \in 1 .. Len(queue[l]) : a1 = old(l, a) /\ queue'[l][a] = queue[l][a1]
    BY <1>4
  <2>1. priority[queue'[l][a]] = l /\ row[queue'[l][a]] = <<>>
    <3>1. priority[queue[l][a1]] = l /\ row[queue[l][a1]] = <<>>  BY DEF QueueInv, Placed
    <3>. QED  BY Zenon, <2>0, <3>1
  <2>2. queue'[l][a] # cur'
    <3>1. l = k => a1 # 1  BY <2>0 DEF old
    <3>2. queue[l][a1] # queue[k][1]  BY <1>5, <3>1 DEF QueueInv, NoDuplicates
    <3>. QED  BY Zenon, <1>3, <2>0, <3>2
  <2>. QED  BY <2>1, <2>2
<1>8. QueueInv'
  <2>1. NoDuplicates'  BY <1>6 DEF NoDuplicates
  <2>2. Placed'  BY <1>2, <1>7 DEF Placed
  <2>. QED  BY <1>2, <1>3, <1>5, <2>1, <2>2 DEF QueueInv
<1>9. OneLine'
  BY <1>1, <1>3 DEF OneLine, Levels
<1>. QED  BY <1>1, <1>3, <1>8, <1>9

(* The process that was popped goes back, or is recorded and does not.     *)
LEMMA LineAccount ==
    ASSUME TypeOK, Rows, QueueInv, OneLine, Account
    PROVE  QueueInv' /\ OneLine' /\ priority' \in [Jobs -> Levels]
<1>1. InSlice /\ ~InSlice' /\ cur \in Jobs  BY DEF Account, Goto, InSlice, TypeOK
<1>2. CASE finished[cur]
  <2>1. UNCHANGED <<queue, priority, cur, level>> /\ \A j \in Jobs : j # cur => row'[j] = row[j]
    BY <1>2 DEF Account, Rows
  <2>2. \A k \in Levels : \A a \in 1 .. Len(queue[k]) : queue[k][a] # cur /\ queue[k][a] \in Jobs
    BY <1>1, ElementOfSeq DEF QueueInv, Placed
  <2>3. Placed'  BY <1>1, <2>1, <2>2 DEF QueueInv, Placed
  <2>4. queue' = queue /\ priority' = priority /\ ~InSlice'  BY Zenon, <1>1, <2>1
  <2>5. NoDuplicates'  BY <2>4 DEF QueueInv, NoDuplicates
  <2>6. QueueInv'  BY Zenon, <2>3, <2>4, <2>5 DEF QueueInv
  <2>7. OneLine'  BY Zenon, <2>4 DEF OneLine
  <2>8. priority' \in [Jobs -> Levels]  BY Zenon, <2>4 DEF TypeOK
  <2>. QED  BY <2>6, <2>7, <2>8
<1>3. CASE ~finished[cur]
  <2>. DEFINE l == IF level = 0 THEN 1 ELSE 2
  <2>1. /\ priority' = [priority EXCEPT ![cur] = l] /\ queue' = Add(queue, cur, l)
        /\ UNCHANGED <<row, cur, level>> /\ l \in Levels
    BY <1>3 DEF Account, Levels, TypeOK
  <2>2. /\ queue' \in [Levels -> Seq(Jobs)] /\ \A k \in Levels : k # l => queue'[k] = queue[k]
        /\ Len(queue[l]) \in Nat
        /\ \/ queue' = queue
           \/ /\ Len(queue'[l]) = Len(queue[l]) + 1 /\ queue'[l][Len(queue[l]) + 1] = cur
              /\ \A a \in 1 .. Len(queue[l]) : queue'[l][a] = queue[l][a]
    BY <1>1, <2>1, AddQueue DEF QueueInv
  <2>. HIDE DEF l
  <2>3. ASSUME NEW k \in Levels, NEW a \in 1 .. Len(queue'[k])
        PROVE  \/ a \in 1 .. Len(queue[k]) /\ queue'[k][a] = queue[k][a]
               \/ k = l /\ a = Len(queue[l]) + 1 /\ queue'[k][a] = cur
    BY <2>2
  <2>4. \A k \in Levels : \A a \in 1 .. Len(queue[k]) : queue[k][a] # cur /\ queue[k][a] \in Jobs
    BY <1>1, ElementOfSeq DEF QueueInv, Placed
  <2>5. \A k, m \in Levels : \A a \in 1 .. Len(queue'[k]), b \in 1 .. Len(queue'[m]) :
           queue'[k][a] = queue'[m][b] => k = m /\ a = b
    <3>. SUFFICES ASSUME NEW k \in Levels, NEW m \in Levels, NEW a \in 1 .. Len(queue'[k]),
                         NEW b \in 1 .. Len(queue'[m]), queue'[k][a] = queue'[m][b]
                  PROVE  k = m /\ a = b
      OBVIOUS
    <3>1. CASE queue'[k][a] = cur
      <4>1. k = l /\ a = Len(queue[l]) + 1  BY <2>3, <2>4, <3>1
      <4>2. queue'[m][b] = cur  BY Zenon, <3>1
      <4>3. m = l /\ b = Len(queue[l]) + 1  BY <2>3, <2>4, <4>2
      <4>. QED  BY <4>1, <4>3
    <3>2. CASE queue'[k][a] # cur
      <4>1. a \in 1 .. Len(queue[k]) /\ queue'[k][a] = queue[k][a]  BY <2>3, <3>2
      <4>2. queue'[m][b] # cur  BY Zenon, <3>2
      <4>3. b \in 1 .. Len(queue[m]) /\ queue'[m][b] = queue[m][b]  BY <2>3, <4>2
      <4>4. queue[k][a] = queue[m][b]  BY Zenon, <4>1, <4>3
      <4>. QED  BY <4>1, <4>3, <4>4 DEF QueueInv, NoDuplicates
    <3>. QED  BY <3>1, <3>2
  <2>6. \A k \in Levels : \A a \in 1 .. Len(queue'[k]) :
           priority'[queue'[k][a]] = k /\ row[queue'[k][a]] = <<>>
    <3>. SUFFICES ASSUME NEW k \in Levels, NEW a \in 1 .. Len(queue'[k])
                  PROVE  priority'[queue'[k][a]] = k /\ row[queue'[k][a]] = <<>>
      OBVIOUS
    <3>1. CASE a \in 1 .. Len(queue[k]) /\ queue'[k][a] = queue[k][a]
      <4>1. PICK c \in Jobs : c = queue[k][a] /\ c # cur  BY <2>4, <3>1
      <4>2. priority[c] = k /\ row[c] = <<>>  BY <3>1, <4>1 DEF QueueInv, Placed
      <4>3. priority'[c] = priority[c]
        <5>1. priority' = [priority EXCEPT ![cur] = l] /\ priority \in [Jobs -> Levels]
          BY Zenon, <2>1 DEF TypeOK
        <5>. QED  BY <4>1, <5>1
      <4>. QED  BY Zenon, <3>1, <4>1, <4>2, <4>3
    <3>2. CASE k = l /\ queue'[k][a] = cur
      BY <1>1, <2>1, <3>2 DEF QueueInv, TypeOK
    <3>. QED  BY <2>3, <3>1, <3>2
  <2>7. QueueInv'  BY <1>1, <2>1, <2>2, <2>5, <2>6 DEF QueueInv, NoDuplicates, Placed
  <2>8. OneLine'
    BY <1>1, <2>1, <2>2 DEF OneLine, Levels, l
  <2>. QED  BY <2>1, <2>7, <2>8 DEF TypeOK
<1>. QED  BY <1>2, <1>3

(* Boosting keeps the line.                                                *)
LEMMA LineBoosted ==
    ASSUME TypeOK, QueueInv, Boosted, UNCHANGED <<row, cur>>, ~InSlice'
    PROVE  QueueInv' /\ OneLine' /\ priority' \in [Jobs -> Levels]
<1>1. /\ queue' \in [Levels -> Seq(Jobs)] /\ queue'[1] = <<>> /\ queue'[2] = <<>>
      /\ \A k \in Levels : Offset(k) \in Nat /\ Len(queue[k]) \in Nat
      /\ \A k \in Levels : \A a \in 1 .. Len(queue[k]) :
             /\ Offset(k) + a \in 1 .. Len(queue'[0])
             /\ queue'[0][Offset(k) + a] = queue[k][a]
      /\ \A b \in 1 .. Len(queue'[0]) : \E k \in Levels : \E a \in 1 .. Len(queue[k]) :
             b = Offset(k) + a
  BY BoostQueue DEF QueueInv
<1>2. priority' = [j \in Jobs |-> IF \E k \in {1, 2} : \E a \in DOMAIN queue[k] : queue[k][a] = j
                                  THEN 0 ELSE priority[j]]
  BY DEF Boosted
<1>3. \A k \in Levels : \A a \in 1 .. Len(queue[k]) : queue[k][a] \in Jobs
  BY ElementOfSeq DEF QueueInv
<1>4. \A k \in Levels : DOMAIN queue[k] = 1 .. Len(queue[k])
  BY LenProperties DEF QueueInv
<1>5. \A k \in Levels : \A a \in 1 .. Len(queue[k]) : priority'[queue[k][a]] = 0
  BY <1>2, <1>3, <1>4 DEF QueueInv, Placed, Levels
<1>6. \A b, c \in 1 .. Len(queue'[0]) : queue'[0][b] = queue'[0][c] => b = c
  <2>. SUFFICES ASSUME NEW b \in 1 .. Len(queue'[0]), NEW c \in 1 .. Len(queue'[0]),
                       queue'[0][b] = queue'[0][c]
                PROVE  b = c
    OBVIOUS
  <2>1. PICK k \in Levels : \E a \in 1 .. Len(queue[k]) : b = Offset(k) + a  BY <1>1
  <2>2. PICK a \in 1 .. Len(queue[k]) : b = Offset(k) + a  BY <2>1
  <2>3. PICK l \in Levels : \E d \in 1 .. Len(queue[l]) : c = Offset(l) + d  BY <1>1
  <2>4. PICK d \in 1 .. Len(queue[l]) : c = Offset(l) + d  BY <2>3
  <2>5. queue[k][a] = queue[l][d]  BY <1>1, <2>2, <2>4
  <2>6. k = l /\ a = d  BY <2>5 DEF QueueInv, NoDuplicates
  <2>. QED  BY <2>2, <2>4, <2>6
<1>7. \A b \in 1 .. Len(queue'[0]) : priority'[queue'[0][b]] = 0 /\ row[queue'[0][b]] = <<>>
  <2>. SUFFICES ASSUME NEW b \in 1 .. Len(queue'[0])
                PROVE  priority'[queue'[0][b]] = 0 /\ row[queue'[0][b]] = <<>>
    OBVIOUS
  <2>1. PICK k \in Levels : \E a \in 1 .. Len(queue[k]) : b = Offset(k) + a  BY <1>1
  <2>2. PICK a \in 1 .. Len(queue[k]) : b = Offset(k) + a  BY <2>1
  <2>3. queue'[0][b] = queue[k][a]  BY <1>1, <2>2
  <2>4. priority'[queue[k][a]] = 0 /\ row[queue[k][a]] = <<>>  BY <1>5 DEF QueueInv, Placed
  <2>. QED  BY Zenon, <2>3, <2>4
<1>8. \A k \in Levels : k # 0 => Len(queue'[k]) = 0
  BY <1>1, EmptySeq DEF Levels
<1>9. QueueInv'
  <2>1. \A k \in Levels : \A a \in 1 .. Len(queue'[k]) : k = 0
    BY <1>8
  <2>2. NoDuplicates'  BY <1>6, <2>1 DEF NoDuplicates
  <2>3. Placed'  BY <1>7, <2>1 DEF Placed
  <2>. QED  BY <1>1, <2>2, <2>3 DEF QueueInv
<1>10. OneLine'  BY <1>1 DEF OneLine
<1>. QED  BY <1>2, <1>9, <1>10 DEF TypeOK, Levels

(* The parts of the type invariant.                                        *)
LEMMA MLFQTyped ==
    ASSUME ChildrenTypeOK', QueueInv', Rows',
           priority' \in [Jobs -> Levels], burst_time' \in [Jobs -> Nat],
           started' \in [Jobs -> BOOLEAN], error' \in [Jobs -> BOOLEAN],
           finished' \in [Jobs -> BOOLEAN], cur' \in Jobs, level' \in Levels,
           start_time' \in 0 .. now', quantum_end' \in Nat, lastBoostTime' \in 0 .. now',
           pc' \in {"loop", "dispatch", "poll", "stop", "account", "boost", "done", "halted"}
    PROVE  TypeOK'
<1>1. \A k \in Levels : queue'[k] \in Seq(Jobs) /\ Len(queue'[k]) <= N
  <2>. SUFFICES ASSUME NEW k \in Levels PROVE queue'[k] \in Seq(Jobs) /\ Len(queue'[k]) <= N
    OBVIOUS
  <2>1. \A a, b \in 1 .. Len(queue'[k]) : queue'[k][a] = queue'[k][b] => a = b
    BY DEF QueueInv, NoDuplicates
  <2>2. queue'[k] \in Seq(Jobs)  BY DEF QueueInv
  <2>3. Len(queue'[k]) \in 0 .. N  BY <2>1, <2>2, ShortSequence
  <2>. QED  BY <2>2, <2>3, ChildrenAssumption
<1>2. \A j \in Jobs : row'[j] = <<>> \/ row'[j] \in [turnaround : Nat, burst : Nat, error : BOOLEAN]
  BY DEF Rows
<1>3. {started', error', finished'} \subseteq [Jobs -> BOOLEAN]
  BY Zenon
<1>4. queue' \in [Levels -> Seq(Jobs)]  BY DEF QueueInv
<1>. QED  BY <1>1, <1>2, <1>3, <1>4 DEF TypeOK

(* The invariant of the feedback queues is inductive.                      *)
LEMMA MLFQStep ==
    ASSUME MLFQInv, [Next]_vars PROVE MLFQInv'
<1>. USE ChildrenAssumption, MLFQAssumption
<1>0. /\ TypeOK /\ ChildrenTypeOK /\ Rows /\ QueueInv /\ OneLine
      /\ priority \in [Jobs -> Levels] /\ burst_time \in [Jobs -> Nat]
      /\ started \in [Jobs -> BOOLEAN] /\ error \in [Jobs -> BOOLEAN]
      /\ finished \in [Jobs -> BOOLEAN] /\ cur \in Jobs /\ level \in Levels
      /\ start_time \in 0 .. now /\ quantum_end \in Nat /\ lastBoostTime \in 0 .. now
      /\ now \in Nat
      /\ pc \in {"loop", "dispatch", "poll", "stop", "account", "boost", "done", "halted"}
  BY DEF MLFQInv, TypeOK, ChildrenTypeOK
<1>1. CASE Pop
  <2>1. /\ UNCHANGED <<childVars, priority, started, error, finished, burst_time, row, lastBoostTime>>
        /\ pc = "loop" /\ pc' = "dispatch" /\ start_time' = now
    BY <1>1 DEF Pop, Goto, fields
  <2>2. PICK k \in Levels : quantum_end' = now + Quantum[k]  BY <1>1 DEF Pop
  <2>3. quantum_end' \in Nat  BY <1>0, <2>2 DEF Quantum, Levels
  <2>4. QueueInv' /\ OneLine' /\ cur' \in Jobs /\ level' \in Levels  BY <1>0, <1>1, LinePop
  <2>5. ChildrenTypeOK' /\ now' = now  BY <1>0, <2>1 DEF ChildrenTypeOK, childVars
  <2>6. Rows'  BY <1>0, <2>1 DEF Rows
  <2>7. start_time' \in 0 .. now' /\ lastBoostTime' \in 0 .. now'  BY <1>0, <2>1, <2>5
  <2>8. TypeOK'  BY <1>0, <2>1, <2>3, <2>4, <2>5, <2>6, <2>7, MLFQTyped
  <2>. QED  BY <2>4, <2>6, <2>8 DEF MLFQInv
<1>2. ASSUME ChildrenTypeOK', now' \in Nat, now' >= now,
             UNCHANGED <<queue, priority, row, cur, level, start_time, quantum_end, lastBoostTime, burst_time>>,
             started' \in [Jobs -> BOOLEAN], error' \in [Jobs -> BOOLEAN],
             \A j \in Jobs : j # cur => finished'[j] = finished[j],
             finished' \in [Jobs -> BOOLEAN],
             finished'[cur] => finished[cur] \/ pc' \in {"stop", "account"},
             pc \in {"stop", "account"} => pc' \in {"stop", "account"} \/ ~finished'[cur],
             finished[cur] => finished'[cur],
             InSlice' => InSlice,
             pc' \in {"loop", "dispatch", "poll", "stop", "account", "boost", "done", "halted"}
      PROVE  MLFQInv'
  <2>1. QueueInv' /\ OneLine'  BY <1>0, <1>2, LineQuiet
  <2>2. Rows'
    <3>1. \A j \in Jobs : row[j] # <<>> => finished'[j]
      <4>. SUFFICES ASSUME NEW j \in Jobs, row[j] # <<>> PROVE finished'[j]  OBVIOUS
      <4>1. finished[j]  BY <1>0 DEF Rows
      <4>. QED  BY <1>2, <4>1
    <3>2. \A j \in Jobs : finished'[j] => row[j] # <<>> \/ (j = cur /\ pc' \in {"stop", "account"})
      <4>. SUFFICES ASSUME NEW j \in Jobs, finished'[j]
                    PROVE row[j] # <<>> \/ (j = cur /\ pc' \in {"stop", "account"})
        OBVIOUS
      <4>1. CASE j # cur
        <5>1. finished[j]  BY <1>2, <4>1
        <5>. QED  BY <1>0, <4>1, <5>1 DEF Rows
      <4>2. CASE j = cur
        <5>1. CASE pc' \notin {"stop", "account"}
          <6>1. finished[cur] /\ pc \notin {"stop", "account"}  BY <1>2, <4>2, <5>1
          <6>. QED  BY <1>0, <4>2, <6>1 DEF Rows
        <5>. QED  BY <4>2, <5>1
      <4>. QED  BY <4>1, <4>2
    <3>3. row' = row /\ cur' = cur  BY <1>2
    <3>. QED  BY <1>0, <3>1, <3>2, <3>3 DEF Rows
  <2>3. start_time' \in 0 .. now' /\ lastBoostTime' \in 0 .. now'  BY <1>0, <1>2
  <2>4. TypeOK'  BY <1>0, <1>2, <2>1, <2>2, <2>3, MLFQTyped
  <2>. QED  BY <2>1, <2>2, <2>4 DEF MLFQInv
<1>3. CASE WriteCsv
  <2>1. /\ UNCHANGED <<childVars, queue, fields, row, cur, level, clocks>>
        /\ pc = "loop" /\ pc' = "done"
    BY <1>3 DEF WriteCsv, Goto
  <2>2. ChildrenTypeOK' /\ now' \in Nat /\ now' >= now
    BY <1>0, <2>1 DEF ChildrenTypeOK, childVars
  <2>. QED  BY <1>0, <1>2, <2>1, <2>2 DEF fields, clocks, InSlice
<1>4. CASE Launch
  <2>1. /\ UNCHANGED <<queue, priority, finished, burst_time, row, cur, level, clocks>>
        /\ pc = "dispatch" /\ started' = [started EXCEPT ![cur] = TRUE]
        /\ \/ pc' = "poll" /\ Fork(cur) /\ UNCHANGED error
           \/ pc' = "account" /\ ForkFails /\ error' = [error EXCEPT ![cur] = TRUE]
    BY <1>4 DEF Launch, Goto
  <2>2. ChildrenTypeOK' /\ now' \in Nat /\ now' >= now
    <3>1. Fork(cur) \/ ForkFails  BY <2>1
    <3>2. ChildrenTypeOK' /\ now \in Nat /\ now' >= now  BY <1>0, <3>1, 0 \in Nat, ChildrenTyped
    <3>. QED  BY <3>2 DEF ChildrenTypeOK
  <2>3. started' \in [Jobs -> BOOLEAN] /\ error' \in [Jobs -> BOOLEAN]
    BY Zenon, <1>0, <2>1
  <2>4. row[cur] = <<>>  BY <1>0, <2>1 DEF QueueInv, InSlice
  <2>5. InSlice' => InSlice  BY <2>1 DEF InSlice
  <2>. QED  BY <1>0, <1>2, <2>1, <2>2, <2>3, <2>5 DEF clocks
<1>5. CASE Resume
  <2>1. /\ UNCHANGED <<queue, priority, started, finished, burst_time, row, cur, level, clocks>>
        /\ pc = "dispatch"
        /\ \/ pc' = "poll" /\ Continue(pid[cur]) /\ UNCHANGED error
           \/ pc' = "account" /\ error' = [error EXCEPT ![cur] = TRUE] /\ UNCHANGED childVars
    BY <1>5 DEF Resume, Goto
  <2>2. ChildrenTypeOK' /\ now' \in Nat /\ now' >= now
    <3>1. Continue(pid[cur]) \/ UNCHANGED childVars  BY <2>1
    <3>2. ChildrenTypeOK' /\ now \in Nat /\ now' >= now  BY <1>0, <3>1, 0 \in Nat, ChildrenTyped
    <3>. QED  BY <3>2 DEF ChildrenTypeOK
  <2>3. error' \in [Jobs -> BOOLEAN]
    BY Zenon, <1>0, <2>1
  <2>5. InSlice' => InSlice  BY <2>1 DEF InSlice
  <2>. QED  BY <1>0, <1>2, <2>1, <2>2, <2>3, <2>5 DEF clocks
<1>6. CASE Poll
  <2>1. /\ UNCHANGED <<queue, priority, started, burst_time, row, cur, level, clocks>>
        /\ pc = "poll"
        /\ \/ Sleep(1) /\ UNCHANGED <<error, finished, pc>>
           \/ /\ pc' = "stop"
              /\ \E status \in {"ok", "fail", "crash"} : Ended(status)
              /\ (\E j \in Jobs : Reap(j)) \/ UNCHANGED childVars
    <3>1. ASSUME NEW j \in Zombies(pid[cur]), Reap(j), Ended(fate[j])
          PROVE  /\ \E status \in {"ok", "fail", "crash"} : Ended(status)
                 /\ \E m \in Jobs : Reap(m)
      <4>1. j \in Jobs /\ fate[j] \in {"ok", "fail", "crash"}
        BY <1>0 DEF Zombies, Targets, ChildrenTypeOK
      <4>. QED  BY <3>1, <4>1
    <3>. QED  BY <1>6, <3>1 DEF Poll, Goto
  <2>2. ChildrenTypeOK' /\ now' \in Nat /\ now' >= now
    <3>1. Sleep(1) \/ (\E j \in Jobs : Reap(j)) \/ UNCHANGED childVars  BY <2>1
    <3>2. PICK j \in Jobs : Sleep(1) \/ Reap(j) \/ UNCHANGED childVars  BY <1>0, <3>1
    <3>3. ChildrenTypeOK' /\ now \in Nat /\ now' >= now
      BY <1>0, <3>2, 1 \in Nat, ChildrenTyped
    <3>. QED  BY <3>3 DEF ChildrenTypeOK
  <2>3. CASE Sleep(1) /\ UNCHANGED <<error, finished, pc>>
    BY <1>0, <1>2, <2>1, <2>2, <2>3 DEF clocks, InSlice
  <2>4. CASE pc' = "stop" /\ \E status \in {"ok", "fail", "crash"} : Ended(status)
    <3>1. PICK status \in {"ok", "fail", "crash"} : Ended(status)  BY <2>4
    <3>2. error' \in [Jobs -> BOOLEAN] /\ finished' \in [Jobs -> BOOLEAN]
      BY Zenon, <1>0, <3>1 DEF Ended
    <3>3. \A j \in Jobs : j # cur => finished'[j] = finished[j]
      BY <1>0, <3>1 DEF Ended
    <3>4. finished[cur] => finished'[cur]
      BY <1>0, <3>1 DEF Ended
    <3>5. InSlice' => InSlice  BY <2>1, <2>4 DEF InSlice
    <3>. QED  BY <1>0, <1>2, <2>1, <2>2, <2>4, <3>2, <3>3, <3>4, <3>5 DEF clocks
  <2>. QED  BY <2>1, <2>3, <2>4
<1>7. CASE SliceOver
  <2>1. /\ UNCHANGED <<childVars, queue, fields, row, cur, level, clocks>>
        /\ pc = "poll" /\ pc' = "stop"
    BY <1>7 DEF SliceOver, Goto
  <2>2. ChildrenTypeOK' /\ now' \in Nat /\ now' >= now
    BY <1>0, <2>1 DEF ChildrenTypeOK, childVars
  <2>. QED  BY <1>0, <1>2, <2>1, <2>2 DEF fields, clocks, InSlice
<1>8. CASE StopChild
  <2>1. /\ UNCHANGED <<queue, fields, row, cur, level, clocks>> /\ pc = "stop"
        /\ \/ finished[cur] /\ pc' = "account" /\ UNCHANGED childVars
           \/ ~finished[cur] /\ pc' \in {"account", "halted"} /\ Stop(pid[cur])
    BY <1>8 DEF StopChild
  <2>2. ChildrenTypeOK' /\ now' \in Nat /\ now' >= now
    <3>1. Stop(pid[cur]) \/ UNCHANGED childVars  BY <2>1
    <3>2. ChildrenTypeOK' /\ now \in Nat /\ now' >= now  BY <1>0, <3>1, 0 \in Nat, ChildrenTyped
    <3>. QED  BY <3>2 DEF ChildrenTypeOK
  <2>3. InSlice' => InSlice  BY <2>1 DEF InSlice
  <2>4. pc' \in {"account", "halted"} /\ (finished[cur] => pc' = "account")  BY <2>1
  <2>. QED  BY <1>0, <1>2, <2>1, <2>2, <2>3, <2>4 DEF fields, clocks
<1>9. CASE Account
  <2>1. /\ UNCHANGED <<childVars, started, error, finished, cur, level, clocks>>
        /\ pc = "account" /\ pc' = "boost"
        /\ burst_time' = [burst_time EXCEPT ![cur] =
                             IF finished[cur] THEN @ + (now - start_time)
                             ELSE IF @ > MaxTime THEN @ ELSE @ + Quantum[level]]
    BY <1>9 DEF Account, Goto
  <2>2. QueueInv' /\ OneLine' /\ priority' \in [Jobs -> Levels]
    BY <1>0, <1>9, LineAccount
  <2>3. Quantum[level] \in Nat  BY <1>0 DEF Quantum, Levels
  <2>4. burst_time' \in [Jobs -> Nat]  BY <1>0, <2>1, <2>3
  <2>5. Rows'
    <3>1. CASE finished[cur]
      <4>1. row' = [row EXCEPT ![cur] =
                       [turnaround |-> now, burst |-> burst_time'[cur], error |-> error[cur]]]
        BY <1>9, <3>1 DEF Account
      <4>2. [turnaround |-> now, burst |-> burst_time'[cur], error |-> error[cur]]
               \in [turnaround : Nat, burst : Nat, error : BOOLEAN]
        BY <1>0, <2>4
      <4>3. /\ row' \in [Jobs -> {<<>>} \cup [turnaround : Nat, burst : Nat, error : BOOLEAN]]
            /\ row'[cur] # <<>> /\ \A j \in Jobs : j # cur => row'[j] = row[j]
        <5>1. row \in [Jobs -> {<<>>} \cup [turnaround : Nat, burst : Nat, error : BOOLEAN]]
          BY <1>0 DEF Rows
        <5>. QED  BY <1>0, <4>1, <4>2, <5>1, RecordedRR
      <4>4. finished' = finished /\ cur' = cur  BY <2>1
      <4>. QED  BY <1>0, <3>1, <4>3, <4>4 DEF Rows
    <3>2. CASE ~finished[cur]
      <4>1. UNCHANGED <<row, finished>>  BY <1>9, <3>2 DEF Account
      <4>. QED  BY <1>0, <3>2, <4>1 DEF Rows
    <3>. QED  BY <3>1, <3>2
  <2>6. ChildrenTypeOK' /\ now' = now  BY <1>0, <2>1 DEF ChildrenTypeOK, childVars
  <2>7. TypeOK'  BY <1>0, <2>1, <2>2, <2>4, <2>5, <2>6, MLFQTyped DEF clocks
  <2>. QED  BY <2>2, <2>5, <2>7 DEF MLFQInv
<1>10. CASE Boost
  <2>1. /\ UNCHANGED <<child, left, fate, pid, failures, started, error, finished,
                       burst_time, row, cur, level, start_time, quantum_end>>
        /\ pc = "boost" /\ pc' = "loop"
        /\ now' \in {now} \cup {t \in now + 1 .. now + Overhead : t <= MaxTime}
        /\ \/ Boosted /\ lastBoostTime' = now
           \/ UNCHANGED <<queue, priority, lastBoostTime>>
    BY <1>10 DEF Boost, Goto
  <2>2. now' \in Nat /\ now' >= now  BY <1>0, <2>1
  <2>3. QueueInv' /\ OneLine' /\ priority' \in [Jobs -> Levels]
    <3>1. ~InSlice'  BY <2>1 DEF InSlice
    <3>2. CASE Boosted  BY <1>0, <2>1, <3>1, <3>2, LineBoosted
    <3>3. CASE UNCHANGED <<queue, priority>>
      BY <1>0, <2>1, <3>1, <3>3, LineQuiet
    <3>. QED  BY <2>1, <3>2, <3>3
  <2>4. Rows'  BY <1>0, <2>1 DEF Rows
  <2>5. ChildrenTypeOK'  BY <1>0, <2>1, <2>2 DEF ChildrenTypeOK
  <2>6. start_time' \in 0 .. now' /\ lastBoostTime' \in 0 .. now'  BY <1>0, <2>1, <2>2
  <2>7. TypeOK'  BY <1>0, <2>1, <2>3, <2>4, <2>5, <2>6, MLFQTyped
  <2>. QED  BY <2>3, <2>4, <2>7 DEF MLFQInv
<1>11. CASE UNCHANGED vars
  <2>1. UNCHANGED <<childVars, queue, fields, row, cur, level, clocks, pc>>  BY <1>11 DEF vars
  <2>2. ChildrenTypeOK' /\ now' \in Nat /\ now' >= now
    BY <1>0, <2>1 DEF ChildrenTypeOK, childVars
  <2>. QED  BY <1>0, <1>2, <2>1, <2>2 DEF fields, clocks, InSlice
<1>. QED  BY <1>1, <1>3, <1>4, <1>5, <1>6, <1>7, <1>8, <1>9, <1>10, <1>11 DEF Next

(* Rows and queues of MLFQ are well formed, whichever forks fail.          *)
THEOREM MLFQInvariant == Spec => []MLFQInv
<1>1. Init => MLFQInv
  <2>. SUFFICES ASSUME Init PROVE MLFQInv  OBVIOUS
  <2>. USE ChildrenAssumption, MLFQAssumption
  <2>0. PICK n \in 0 .. N : n = IF N < MAX_QUEUE_SIZE THEN N ELSE MAX_QUEUE_SIZE
    OBVIOUS
  <2>1. queue = [k \in Levels |-> IF k = 0 THEN [j \in 1 .. n |-> j] ELSE <<>>]
    BY Zenon, <2>0 DEF Init, Initial
  <2>2. PICK s : s = [j \in 1 .. n |-> j]  OBVIOUS
  <2>3. s \in Seq(Jobs) /\ Len(s) = n /\ \A a \in 1 .. n : s[a] = a
    BY <2>2, IsASeq DEF Jobs
  <2>4. queue[0] = s /\ queue[1] = <<>> /\ queue[2] = <<>> /\ queue \in [Levels -> Seq(Jobs)]
    BY <2>1, <2>2, <2>3, EmptySeq DEF Levels
  <2>5. \A k \in Levels : k # 0 => Len(queue[k]) = 0
    BY <2>4, EmptySeq DEF Levels
  <2>6. \A k \in Levels : \A a \in 1 .. Len(queue[k]) : k = 0 /\ a \in 1 .. n /\ queue[k][a] = a
    BY <2>3, <2>4, <2>5
  <2>7. /\ priority = [j \in Jobs |-> 0] /\ row = [j \in Jobs |-> <<>>] /\ pc = "loop"
        /\ finished = [j \in Jobs |-> FALSE] /\ cur = 1 /\ level = 0
    BY DEF Init
  <2>8. NoDuplicates  BY <2>6 DEF NoDuplicates
  <2>9. Placed  BY <2>6, <2>7 DEF Placed, InSlice, Jobs
  <2>10. QueueInv  BY <2>4, <2>7, <2>8, <2>9 DEF QueueInv, InSlice
  <2>11. Rows  BY <2>7 DEF Rows
  <2>12. OneLine  BY <2>4, <2>7 DEF OneLine, InSlice
  <2>13. TypeOK
    <3>1. ChildrenTypeOK  BY DEF Init, ChildrenInit, ChildrenTypeOK
    <3>2. \A k \in Levels : queue[k] \in Seq(Jobs) /\ Len(queue[k]) <= N
      BY <2>3, <2>4, <2>5
    <3>3. /\ priority \in [Jobs -> Levels] /\ burst_time \in [Jobs -> Nat]
          /\ \A j \in Jobs : row[j] = <<>>
          /\ cur \in Jobs /\ level \in Levels /\ pc = "loop"
      BY DEF Init, Levels, Jobs
    <3>4. start_time \in 0 .. now /\ quantum_end \in Nat /\ lastBoostTime \in 0 .. now
      BY DEF Init, ChildrenInit
    <3>5. {started, error, finished} \subseteq [Jobs -> BOOLEAN]  BY DEF Init
    <3>. QED  BY <2>4, <3>1, <3>2, <3>3, <3>4, <3>5 DEF TypeOK
  <2>. QED  BY <2>10, <2>11, <2>12, <2>13 DEF MLFQInv
<1>2. MLFQInv /\ [Next]_vars => MLFQInv'  BY MLFQStep
<1>. QED  BY <1>1, <1>2, PTL DEF Spec

-----------------------------------------------------------------------------
(* While no fork fails: what the scheduler knows about each child.         *)
ChildKnown(j) ==
    /\ child[j] = "running" => pc \in {"poll", "stop"}
    /\ child[j] = "none" <=> ~started[j]
    /\ child[j] # "none" => pid[j] = j
    /\ finished[j] => /\ child[j] = "reaped" /\ fate[j] # "crash"
                      /\ error[j] <=> fate[j] # "ok"
    /\ error[j] => child[j] = "reaped"
    /\ child[j] = "reaped" /\ ~finished[j] => fate[j] = "crash"

(* The scheduler knows of each child what it must, and only the child of   *)
(* cur runs.                                                               *)
Known == /\ \A j \in Jobs : ChildKnown(j) /\ (child[j] = "running" => j = cur)
         /\ pc = "poll" => child[cur] \in {"running", "zombie"}
         /\ pc = "stop" => child[cur] \in {"running", "zombie", "reaped"}
         /\ pc = "account" => child[cur] \in {"stopped", "zombie", "reaped"}
         /\ pc # "halted"

(* A slice that is charged in full has lasted as long, or the child was    *)
(* killed, and then its burst is never recorded.                           *)
Covered ==
    /\ \A j \in Jobs : child[j] # "reaped" \/ finished[j]
                       => burst_time[j] <= IF InSlice /\ j = cur THEN start_time ELSE now
    /\ InSlice => quantum_end = start_time + Quantum[level]
    /\ pc \in {"stop", "account"} /\ child[cur] # "reaped" => quantum_end <= now

(* What a signal to the child of process p does.                           *)
LEMMA MLFQSignal ==
    ASSUME NEW p \in Jobs, NEW from \in {"running", "stopped"}, NEW to,
           child \in [Jobs -> {"none", "running", "stopped", "zombie", "reaped"}],
           Signal(p, from, to)
    PROVE  /\ child' = [child EXCEPT ![p] = IF child[p] = from THEN to ELSE child[p]]
           /\ UNCHANGED <<left, fate, pid, failures, now>>
<1>1. child' = [j \in Jobs |-> IF j = p /\ child[j] = from THEN to ELSE child[j]]
  BY ChildrenAssumption DEF Signal, Targets, Jobs
<1>2. child = [j \in Jobs |-> child[j]] /\ child' = [j \in Jobs |-> child'[j]]
  BY <1>1
<1>3. \A j \in Jobs : child'[j] = IF j = p THEN IF child[p] = from THEN to ELSE child[p]
                                   ELSE child[j]
  BY <1>1
<1>. QED  BY <1>2, <1>3, Override DEF Signal

(* A step of the slice of process c: only its own child and fields change. *)
LEMMA SliceStep ==
    ASSUME MLFQInv, Known, Covered, WaitingTime, NEW c \in Jobs, c = cur, cur' = cur,
           UNCHANGED <<row, burst_time, level, start_time, quantum_end, fate>>,
           InSlice, InSlice', now' \in Nat, now' >= now,
           \A j \in Jobs \ {c} : /\ child'[j] = child[j] /\ started'[j] = started[j]
                                 /\ pid'[j] = pid[j] /\ finished'[j] = finished[j]
                                 /\ error'[j] = error[j],
           ChildKnown(c)',
           child'[c] # "reaped" \/ finished'[c] => child[c] # "reaped" \/ finished[c],
           pc' = "poll" => child'[c] \in {"running", "zombie"},
           pc' = "stop" => child'[c] \in {"running", "zombie", "reaped"},
           pc' = "account" => child'[c] \in {"stopped", "zombie", "reaped"},
           pc' # "halted", failures = 0,
           pc' \in {"stop", "account"} /\ child'[c] # "reaped" => quantum_end <= now'
    PROVE  Known' /\ Covered' /\ WaitingTime'
<1>0. /\ now \in Nat /\ start_time \in 0 .. now /\ burst_time \in [Jobs -> Nat]
      /\ quantum_end \in Nat
  BY DEF MLFQInv, TypeOK, ChildrenTypeOK
<1>1. Known'
  <2>1. \A j \in Jobs \ {c} : ChildKnown(j)' /\ child'[j] # "running"
    <3>. SUFFICES ASSUME NEW j \in Jobs \ {c} PROVE ChildKnown(j)' /\ child'[j] # "running"
      OBVIOUS
    <3>1. ChildKnown(j) /\ child[j] # "running"  BY DEF Known
    <3>. QED  BY <3>1 DEF ChildKnown
  <2>. QED  BY <2>1 DEF Known
<1>2. Covered'
  <2>1. \A j \in Jobs : child'[j] # "reaped" \/ finished'[j]
             => burst_time[j] <= IF j = c THEN start_time ELSE now'
    <3>. SUFFICES ASSUME NEW j \in Jobs, child'[j] # "reaped" \/ finished'[j]
                  PROVE  burst_time[j] <= IF j = c THEN start_time ELSE now'
      OBVIOUS
    <3>1. child[j] # "reaped" \/ finished[j]  OBVIOUS
    <3>2. burst_time[j] <= IF j = c THEN start_time ELSE now  BY <3>1 DEF Covered
    <3>. QED  BY <1>0, <3>2
  <2>. QED  BY <2>1 DEF Covered
<1>3. WaitingTime'  BY DEF WaitingTime
<1>. QED  BY <1>1, <1>2, <1>3

(* The inductive invariant of MLFQ while no fork has failed.               *)
Sound == MLFQInv /\ Known /\ Covered /\ WaitingTime

(* A step of MLFQ is one of the abstract scheduler, or none.               *)
Refines == [Scheduler!Next]_(Scheduler!vars)

(* The slice begins: the child is started or continued, or it has been     *)
(* killed and cannot be continued.                                         *)
LEMMA DispatchStep ==
    ASSUME Sound, failures = 0, failures' = 0, Launch \/ Resume
    PROVE  (Known /\ Covered /\ WaitingTime)' /\ Refines
<1>. PICK c \in Jobs : c = cur  BY DEF Sound, MLFQInv, TypeOK
<1>0. /\ child \in [Jobs -> {"none", "running", "stopped", "zombie", "reaped"}]
      /\ pid \in [Jobs -> {0} \cup Jobs] /\ now \in Nat
      /\ started \in [Jobs -> BOOLEAN] /\ error \in [Jobs -> BOOLEAN]
      /\ finished \in [Jobs -> BOOLEAN] /\ DOMAIN child = Jobs
  BY DEF Sound, MLFQInv, TypeOK, ChildrenTypeOK
<1>1. /\ UNCHANGED <<queue, priority, finished, burst_time, row, cur, level, clocks>>
      /\ pc = "dispatch" /\ row[c] = <<>> /\ ~finished[c] /\ ChildKnown(c)
      /\ \A j \in Jobs : child[j] # "running"
  <2>1. pc = "dispatch" /\ UNCHANGED <<queue, priority, finished, burst_time, row, cur, level, clocks>>
    BY DEF Launch, Resume, Goto
  <2>2. row[c] = <<>>  BY <2>1 DEF Sound, MLFQInv, QueueInv, InSlice
  <2>3. ~finished[c]  BY <2>1, <2>2 DEF Sound, MLFQInv, Rows
  <2>. QED  BY <2>1, <2>2, <2>3 DEF Sound, Known, ChildKnown
<1>2. CASE Launch
  <2>1. /\ ~started[c] /\ started' = [started EXCEPT ![c] = TRUE] /\ pc' = "poll"
        /\ child' = [child EXCEPT ![c] = "running"] /\ pid' = [pid EXCEPT ![c] = c]
        /\ UNCHANGED <<fate, now, error>>
    BY <1>2, ChildrenAssumption DEF Launch, Fork, ForkFails, Goto
  <2>2. child[c] = "none"  BY <1>1, <2>1 DEF ChildKnown
  <2>3. ~error[c]  BY <1>1, <2>2 DEF ChildKnown
  <2>4. child'[c] = "running" /\ pid'[c] = c /\ started'[c] /\ ~error'[c] /\ ~finished'[c]
    BY <1>0, <1>1, <2>1, <2>3
  <2>5. ChildKnown(c)'  BY <2>1, <2>4 DEF ChildKnown
  <2>6. \A j \in Jobs \ {c} : /\ child'[j] = child[j] /\ started'[j] = started[j]
                              /\ pid'[j] = pid[j] /\ finished'[j] = finished[j]
                              /\ error'[j] = error[j]
    BY <1>0, <1>1, <2>1
  <2>7. (Known /\ Covered /\ WaitingTime)'
    <3>1. UNCHANGED <<row, burst_time, level, start_time, quantum_end, fate, now>>
      BY <1>1, <2>1 DEF clocks
    <3>2. now' \in Nat /\ now' >= now  BY <1>0, <3>1
    <3>3. InSlice /\ InSlice'  BY <1>1, <2>1 DEF InSlice
    <3>. QED
      BY <1>1, <2>1, <2>2, <2>4, <2>5, <2>6, <3>1, <3>2, <3>3, SliceStep DEF Sound
  <2>8. Scheduler!Next  BY <1>0, <1>1, <2>1, <2>2, SliceStarts
  <2>. QED  BY <2>7, <2>8 DEF Refines
<1>3. CASE Resume /\ Exists(pid[cur])
  <2>1. started[c] /\ pc' = "poll" /\ Continue(pid[c]) /\ UNCHANGED <<started, error>>
        /\ Exists(pid[c])
    BY <1>3 DEF Resume, Goto
  <2>2. child[c] # "none" /\ pid[c] = c  BY <1>1, <2>1 DEF ChildKnown
  <2>3. child[c] \in {"stopped", "zombie"}
    BY <1>0, <1>1, <2>1, <2>2, ChildrenAssumption DEF Exists, Targets, Jobs
  <2>4. /\ child' = [child EXCEPT ![c] = IF child[c] = "stopped" THEN "running" ELSE child[c]]
        /\ UNCHANGED <<left, fate, pid, failures, now>>
    <3>1. Signal(c, "stopped", "running")  BY Zenon, <2>1, <2>2 DEF Continue
    <3>. QED  BY <1>0, <3>1, MLFQSignal
  <2>5. child'[c] \in {"running", "zombie"}  BY <1>0, <2>3, <2>4
  <2>6. ChildKnown(c)'
    <3>1. ~error[c]  BY <1>1, <2>3 DEF ChildKnown
    <3>. QED  BY <1>1, <2>1, <2>2, <2>4, <2>5, <3>1 DEF ChildKnown
  <2>7. \A j \in Jobs \ {c} : /\ child'[j] = child[j] /\ started'[j] = started[j]
                              /\ pid'[j] = pid[j] /\ finished'[j] = finished[j]
                              /\ error'[j] = error[j]
    BY <1>0, <1>1, <2>1, <2>4
  <2>8. (Known /\ Covered /\ WaitingTime)'
    BY <1>0, <1>1, <2>1, <2>3, <2>4, <2>5, <2>6, <2>7, SliceStep DEF Sound, InSlice, clocks
  <2>9. CASE child[c] = "stopped"
    <3>1. child' = [child EXCEPT ![c] = "running"]  BY <2>4, <2>9
    <3>2. Scheduler!Next  BY <1>0, <1>1, <2>1, <2>3, <2>4, <3>1, SliceStarts
    <3>. QED  BY <2>8, <3>2 DEF Refines
  <2>10. CASE child[c] # "stopped"
    <3>1. child' = child  BY <1>0, <2>4, <2>10
    <3>2. UNCHANGED Scheduler!vars
      BY <1>1, <2>1, <2>4, <3>1 DEF Scheduler!vars
    <3>. QED  BY <2>8, <3>2 DEF Refines
  <2>. QED  BY <2>9, <2>10
<1>4. CASE Resume /\ ~Exists(pid[cur])
  <2>1. /\ started[c] /\ pc' = "account" /\ error' = [error EXCEPT ![c] = TRUE]
        /\ UNCHANGED <<started, childVars>> /\ ~Exists(pid[c])
    BY <1>4 DEF Resume, Goto
  <2>2. child[c] # "none" /\ pid[c] = c  BY <1>1, <2>1 DEF ChildKnown
  <2>3. child[c] = "reaped"
    BY <1>0, <1>1, <2>1, <2>2 DEF Exists, Targets
  <2>4. child'[c] = "reaped" /\ error'[c] /\ ~finished'[c] /\ started'[c] /\ pid'[c] = c
        /\ fate'[c] = "crash"
    BY <1>0, <1>1, <2>1, <2>2, <2>3 DEF childVars, ChildKnown
  <2>5. ChildKnown(c)'  BY <2>4 DEF ChildKnown
  <2>6. \A j \in Jobs \ {c} : /\ child'[j] = child[j] /\ started'[j] = started[j]
                              /\ pid'[j] = pid[j] /\ finished'[j] = finished[j]
                              /\ error'[j] = error[j]
    BY <1>0, <1>1, <2>1 DEF childVars
  <2>7. (Known /\ Covered /\ WaitingTime)'
    <3>1. UNCHANGED <<row, burst_time, level, start_time, quantum_end, fate, now>>
      BY <1>1, <2>1 DEF clocks, childVars
    <3>2. now' \in Nat /\ now' >= now  BY <1>0, <3>1
    <3>3. InSlice /\ InSlice'  BY <1>1, <2>1 DEF InSlice
    <3>. QED
      BY <1>1, <2>1, <2>3, <2>4, <2>5, <2>6, <3>1, <3>2, <3>3, SliceStep DEF Sound
  <2>8. UNCHANGED Scheduler!vars
    BY <1>1, <2>1 DEF childVars, Scheduler!vars
  <2>. QED  BY <2>7, <2>8 DEF Refines
<1>. QED  BY <1>2, <1>3, <1>4

(* The slice goes on, until the child has ended or the time is over.       *)
LEMMA PollStep ==
    ASSUME Sound, failures = 0, failures' = 0, Poll \/ SliceOver
    PROVE  (Known /\ Covered /\ WaitingTime)' /\ Refines
<1>. PICK c \in Jobs : c = cur  BY DEF Sound, MLFQInv, TypeOK
<1>0. /\ child \in [Jobs -> {"none", "running", "stopped", "zombie", "reaped"}]
      /\ pid \in [Jobs -> {0} \cup Jobs] /\ now \in Nat /\ quantum_end \in Nat
      /\ started \in [Jobs -> BOOLEAN] /\ error \in [Jobs -> BOOLEAN]
      /\ finished \in [Jobs -> BOOLEAN] /\ fate \in [Jobs -> Fates] /\ DOMAIN child = Jobs
  BY DEF Sound, MLFQInv, TypeOK, ChildrenTypeOK
<1>1. /\ UNCHANGED <<queue, priority, started, burst_time, row, cur, level, clocks>>
      /\ pc = "poll" /\ row[c] = <<>> /\ ChildKnown(c)
      /\ child[c] \in {"running", "zombie"} /\ pid[c] = c /\ ~finished[c] /\ ~error[c]
      /\ \A j \in Jobs \ {c} : child[j] # "running"
  <2>1. pc = "poll" /\ UNCHANGED <<queue, priority, started, burst_time, row, cur, level, clocks>>
    BY DEF Poll, SliceOver, Goto, fields
  <2>2. row[c] = <<>>  BY <2>1 DEF Sound, MLFQInv, QueueInv, InSlice
  <2>3. child[c] \in {"running", "zombie"} /\ ChildKnown(c)  BY <2>1 DEF Sound, Known
  <2>4. \A j \in Jobs \ {c} : child[j] # "running"  BY DEF Sound, Known
  <2>. QED  BY <2>1, <2>2, <2>3, <2>4 DEF ChildKnown
<1>2. CASE SliceOver
  <2>1. UNCHANGED <<childVars, error, finished>> /\ pc' = "stop" /\ now >= quantum_end
    BY <1>2 DEF SliceOver, Goto, fields
  <2>2. ChildKnown(c)'  BY <1>1, <2>1 DEF ChildKnown, childVars
  <2>3. (Known /\ Covered /\ WaitingTime)'
    <3>1. UNCHANGED <<row, burst_time, level, start_time, quantum_end, fate, now, child, pid>>
      BY <1>1, <2>1 DEF clocks, childVars
    <3>2. now' \in Nat /\ now' >= now /\ quantum_end <= now'  BY <1>0, <2>1, <3>1
    <3>3. InSlice /\ InSlice'  BY <1>1, <2>1 DEF InSlice
    <3>. QED  BY <1>1, <2>1, <2>2, <3>1, <3>2, <3>3, SliceStep DEF Sound
  <2>4. UNCHANGED Scheduler!vars
    BY <1>1, <2>1 DEF childVars, Scheduler!vars
  <2>. QED  BY <2>3, <2>4 DEF Refines
<1>3. CASE Sleep(1) /\ UNCHANGED <<error, finished, pc>>
  <2>1. PICK e \in 1 .. 1 + Overrun :
           /\ now' = now + e /\ UNCHANGED <<fate, pid, failures>>
           /\ child' = [j \in Jobs |-> IF child[j] = "running" /\ left[j] <= e
                                       THEN "zombie" ELSE child[j]]
    BY <1>3 DEF Sleep
  <2>2. PICK v \in {"running", "zombie"} : /\ child' = [child EXCEPT ![c] = v]
                                           /\ child[c] = "zombie" => v = "zombie"
    <3>1. child = [j \in Jobs |-> child[j]] /\ child' = [j \in Jobs |-> child'[j]]
      BY <1>0, <2>1
    <3>2. \A j \in Jobs : child'[j] = IF j = c THEN child'[c] ELSE child[j]
      BY <1>1, <2>1
    <3>3. child' = [child EXCEPT ![c] = child'[c]]  BY <3>1, <3>2, Override
    <3>4. child'[c] \in {"running", "zombie"} /\ (child[c] = "zombie" => child'[c] = "zombie")
      BY <1>1, <2>1
    <3>. QED  BY <3>3, <3>4
  <2>3. child'[c] = v /\ \A j \in Jobs \ {c} : child'[j] = child[j]  BY <1>0, <2>2
  <2>4. pc' = "poll" /\ UNCHANGED <<error, finished>>  BY <1>1, <1>3
  <2>5. ChildKnown(c)'  BY <1>1, <2>1, <2>3, <2>4 DEF ChildKnown
  <2>6. (Known /\ Covered /\ WaitingTime)'
    <3>1. UNCHANGED <<row, burst_time, level, start_time, quantum_end, fate, pid>>
      BY <1>1, <2>1 DEF clocks
    <3>2. e \in Nat  BY ChildrenAssumption
    <3>3. now' \in Nat /\ now' >= now  BY <1>0, <2>1, <3>2
    <3>4. InSlice /\ InSlice'  BY <1>1, <2>4 DEF InSlice
    <3>. QED  BY <1>1, <2>3, <2>4, <2>5, <3>1, <3>3, <3>4, SliceStep DEF Sound
  <2>7. CASE v # child[c]
    <3>1. child[c] = "running" /\ v = "zombie"  BY <1>1, <2>2, <2>7
    <3>2. Scheduler!Next  BY <1>0, <1>1, <2>1, <2>2, <2>4, <3>1, SlicePauses
    <3>. QED  BY <2>6, <3>2 DEF Refines
  <2>8. CASE v = child[c]
    <3>1. child' = child  BY <1>0, <2>2, <2>8
    <3>2. UNCHANGED Scheduler!vars  BY <1>1, <2>1, <2>4, <3>1 DEF Scheduler!vars
    <3>. QED  BY <2>6, <3>2 DEF Refines
  <2>. QED  BY <2>7, <2>8
<1>4. CASE /\ pc' = "stop"
           /\ \E j \in Zombies(pid[cur]) : Reap(j) /\ Ended(fate[j])
  <2>1. PICK j \in Zombies(pid[cur]) : Reap(j) /\ Ended(fate[j])  BY <1>4
  <2>2. j = c /\ child[c] = "zombie"
    BY <1>1, ChildrenAssumption DEF Zombies, Targets, Jobs
  <2>3. /\ child' = [child EXCEPT ![c] = "reaped"] /\ UNCHANGED <<left, fate, pid, failures, now>>
        /\ error' = IF fate[c] = "fail" THEN [error EXCEPT ![c] = TRUE] ELSE error
        /\ finished' = IF fate[c] = "crash" THEN finished ELSE [finished EXCEPT ![c] = TRUE]
    BY <2>1, <2>2 DEF Reap, Ended
  <2>4. fate[c] \in {"ok", "fail", "crash"}  BY <1>0, ChildrenAssumption
  <2>5. /\ child'[c] = "reaped" /\ (error'[c] <=> fate[c] = "fail")
        /\ (finished'[c] <=> fate[c] # "crash")
    BY <1>0, <1>1, <2>3, <2>4
  <2>6. ChildKnown(c)'
    <3>1. started[c]  BY <1>1 DEF ChildKnown
    <3>. QED  BY <1>1, <2>3, <2>4, <2>5, <3>1 DEF ChildKnown
  <2>7. \A m \in Jobs \ {c} : /\ child'[m] = child[m] /\ started'[m] = started[m]
                              /\ pid'[m] = pid[m] /\ finished'[m] = finished[m]
                              /\ error'[m] = error[m]
    BY <1>0, <1>1, <2>3
  <2>8. (Known /\ Covered /\ WaitingTime)'
    <3>1. UNCHANGED <<row, burst_time, level, start_time, quantum_end, fate, pid, now>>
      BY <1>1, <2>3 DEF clocks
    <3>2. now' \in Nat /\ now' >= now  BY <1>0, <3>1
    <3>3. InSlice /\ InSlice'  BY <1>1, <1>4 DEF InSlice
    <3>. QED  BY <1>1, <1>4, <2>2, <2>5, <2>6, <2>7, <3>1, <3>2, <3>3, SliceStep DEF Sound
  <2>9. UNCHANGED Scheduler!vars
    <3>1. \A m \in Jobs : /\ child'[m] = "running" <=> child[m] = "running"
                          /\ child'[m] = "none" <=> child[m] = "none"
      BY <2>2, <2>5, <2>7
    <3>. QED  BY <1>1, <1>4, <2>3, <3>1 DEF Scheduler!vars
  <2>. QED  BY <2>8, <2>9 DEF Refines
<1>5. Targets(pid[cur]) # {}
  BY <1>1 DEF Targets
<1>. QED  BY <1>2, <1>3, <1>4, <1>5 DEF Poll, Goto

(* The slice ends: the child is stopped unless it has finished.            *)
LEMMA StopStep ==
    ASSUME Sound, failures = 0, StopChild
    PROVE  (Known /\ Covered /\ WaitingTime)' /\ Refines
<1>. PICK c \in Jobs : c = cur  BY DEF Sound, MLFQInv, TypeOK
<1>0. /\ child \in [Jobs -> {"none", "running", "stopped", "zombie", "reaped"}]
      /\ now \in Nat /\ quantum_end \in Nat /\ DOMAIN child = Jobs
  BY DEF Sound, MLFQInv, TypeOK, ChildrenTypeOK
<1>1. /\ UNCHANGED <<queue, fields, row, cur, level, clocks>>
      /\ pc = "stop" /\ row[c] = <<>> /\ ChildKnown(c) /\ pid[c] = c
      /\ child[c] \in {"running", "zombie", "reaped"} /\ \A j \in Jobs \ {c} : child[j] # "running"
      /\ child[c] # "reaped" => quantum_end <= now
  <2>1. pc = "stop" /\ UNCHANGED <<queue, fields, row, cur, level, clocks>>  BY DEF StopChild
  <2>2. row[c] = <<>>  BY <2>1 DEF Sound, MLFQInv, QueueInv, InSlice
  <2>3. child[c] \in {"running", "zombie", "reaped"} /\ ChildKnown(c)  BY <2>1 DEF Sound, Known
  <2>4. \A j \in Jobs \ {c} : child[j] # "running"  BY DEF Sound, Known
  <2>5. child[c] # "reaped" => quantum_end <= now  BY <2>1 DEF Sound, Covered
  <2>. QED  BY <2>1, <2>2, <2>3, <2>4, <2>5 DEF ChildKnown
<1>2. /\ pc' = "account" /\ UNCHANGED <<fate, pid, now>>
      /\ child' = [child EXCEPT ![c] = IF child[c] = "running" THEN "stopped" ELSE child[c]]
  <2>1. CASE finished[c]
    <3>1. pc' = "account" /\ UNCHANGED childVars  BY <2>1 DEF StopChild
    <3>2. child[c] = "reaped"  BY <1>1, <2>1 DEF ChildKnown
    <3>. QED  BY <1>0, <3>1, <3>2 DEF childVars
  <2>2. CASE ~finished[c]
    <3>1. pc' = "account" /\ Stop(pid[c])
      BY <1>1, <2>2, ChildrenAssumption DEF StopChild, Jobs
    <3>2. Signal(c, "running", "stopped")  BY Zenon, <1>1, <3>1 DEF Stop
    <3>. QED  BY <1>0, <3>1, <3>2, MLFQSignal
  <2>. QED  BY <2>1, <2>2
<1>3. /\ child'[c] = IF child[c] = "running" THEN "stopped" ELSE child[c]
      /\ \A j \in Jobs \ {c} : child'[j] = child[j]
  BY <1>0, <1>2
<1>4. ChildKnown(c)'  BY <1>1, <1>2, <1>3 DEF ChildKnown, fields
<1>5. (Known /\ Covered /\ WaitingTime)'
  <2>1. UNCHANGED <<row, burst_time, level, start_time, quantum_end, fate, pid, now, started,
                    error, finished>>
    BY <1>1, <1>2 DEF clocks, fields
  <2>2. now' \in Nat /\ now' >= now /\ (child[c] # "reaped" => quantum_end <= now')
    BY <1>0, <1>1, <2>1
  <2>3. InSlice /\ InSlice'  BY <1>1, <1>2 DEF InSlice
  <2>. QED  BY <1>1, <1>2, <1>3, <1>4, <2>1, <2>2, <2>3, SliceStep DEF Sound
<1>6. CASE child[c] = "running"
  <2>1. child' = [child EXCEPT ![c] = "stopped"]  BY <1>2, <1>6
  <2>2. Scheduler!Next  BY <1>0, <1>1, <1>2, <1>6, <2>1, SlicePauses
  <2>. QED  BY <1>5, <2>2 DEF Refines
<1>7. CASE child[c] # "running"
  <2>1. child' = child  BY <1>0, <1>2, <1>7
  <2>2. UNCHANGED Scheduler!vars  BY <1>1, <1>2, <2>1 DEF Scheduler!vars
  <2>. QED  BY <1>5, <2>2 DEF Refines
<1>. QED  BY <1>6, <1>7

(* The slice is charged, and the process recorded if it has finished.      *)
LEMMA AccountStep ==
    ASSUME Sound, failures = 0, Account
    PROVE  (Known /\ Covered /\ WaitingTime)' /\ Refines
<1>. PICK c \in Jobs : c = cur  BY DEF Sound, MLFQInv, TypeOK
<1>0. /\ child \in [Jobs -> {"none", "running", "stopped", "zombie", "reaped"}]
      /\ now \in Nat /\ start_time \in 0 .. now /\ quantum_end \in Nat /\ DOMAIN child = Jobs
      /\ burst_time \in [Jobs -> Nat] /\ MaxTime \in Nat /\ level \in Levels
  BY MLFQAssumption DEF Sound, MLFQInv, TypeOK, ChildrenTypeOK
<1>1. /\ UNCHANGED <<childVars, started, error, finished, cur, level, clocks>>
      /\ pc = "account" /\ pc' = "boost"
      /\ burst_time' = [burst_time EXCEPT ![c] =
                           IF finished[c] THEN @ + (now - start_time)
                           ELSE IF @ > MaxTime THEN @ ELSE @ + Quantum[level]]
  BY DEF Account, Goto
<1>2. /\ row[c] = <<>> /\ ChildKnown(c) /\ child[c] \in {"stopped", "zombie", "reaped"}
      /\ \A j \in Jobs : child[j] # "running"
      /\ quantum_end = start_time + Quantum[level]
      /\ child[c] # "reaped" => quantum_end <= now
      /\ child[c] # "reaped" \/ finished[c] => burst_time[c] <= start_time
      /\ \A j \in Jobs \ {c} : child[j] # "reaped" \/ finished[j] => burst_time[j] <= now
  <2>1. row[c] = <<>>  BY <1>1 DEF Sound, MLFQInv, QueueInv, InSlice
  <2>2. child[c] \in {"stopped", "zombie", "reaped"} /\ ChildKnown(c)  BY <1>1 DEF Sound, Known
  <2>3. \A j \in Jobs : child[j] # "running"  BY <1>1 DEF Sound, Known, ChildKnown
  <2>4. Covered  BY DEF Sound
  <2>5. InSlice  BY <1>1 DEF InSlice
  <2>. QED  BY <1>1, <2>1, <2>2, <2>3, <2>4, <2>5 DEF Covered
<1>3. /\ Quantum[level] \in Nat /\ \A j \in Jobs \ {c} : burst_time'[j] = burst_time[j]
      /\ child[c] # "reaped" \/ finished[c] => burst_time'[c] <= now
  <2>1. Quantum[level] \in Nat  BY <1>0, MLFQAssumption DEF Quantum, Levels
  <2>2. burst_time'[c] = IF finished[c] THEN burst_time[c] + (now - start_time)
                         ELSE IF burst_time[c] > MaxTime THEN burst_time[c]
                         ELSE burst_time[c] + Quantum[level]
    BY <1>0, <1>1
  <2>3. burst_time[c] \in Nat  BY <1>0
  <2>4. CASE finished[c]  BY <1>0, <1>2, <2>2, <2>3, <2>4, <1>1, <2>1
  <2>5. CASE ~finished[c]
    <3>1. child[c] # "reaped" => burst_time'[c] <= now
      BY <1>0, <1>2, <2>1, <2>2, <2>3, <2>5
    <3>. QED  BY <1>0, <1>1, <2>1, <2>5, <3>1
  <2>. QED  BY <2>4, <2>5
<1>4. Known'  BY <1>1, <1>2 DEF Sound, Known, ChildKnown, childVars
<1>5. Covered'
  <2>1. \A j \in Jobs : child[j] # "reaped" \/ finished[j] => burst_time'[j] <= now
    <3>. SUFFICES ASSUME NEW j \in Jobs, child[j] # "reaped" \/ finished[j]
                  PROVE  burst_time'[j] <= now
      OBVIOUS
    <3>1. CASE j = c  BY <1>3, <3>1
    <3>2. CASE j # c  BY <1>2, <1>3, <3>2
    <3>. QED  BY <3>1, <3>2
  <2>2. pc' = "boost" /\ UNCHANGED <<child, finished, now>>  BY <1>1 DEF childVars
  <2>. QED  BY <2>1, <2>2 DEF Covered, InSlice
<1>6. CASE finished[c]
  <2>1. row' = [row EXCEPT ![c] = [turnaround |-> now, burst |-> burst_time'[c], error |-> error[c]]]
    BY <1>6 DEF Account
  <2>2. DOMAIN row = Jobs  BY DEF Sound, MLFQInv, Rows
  <2>3. /\ row'[c] = [turnaround |-> now, burst |-> burst_time'[c], error |-> error[c]]
        /\ \A j \in Jobs \ {c} : row'[j] = row[j]
    BY <2>1, <2>2
  <2>4. row'[c] # <<>> /\ (row'[c].error <=> error[c]) /\ row'[c].burst = burst_time'[c]
        /\ row'[c].turnaround = now
    BY <2>3, RecordedRR
  <2>5. WaitingTime'
    <3>1. \A j \in Jobs : row'[j] # <<>> => row'[j].burst <= row'[j].turnaround
      <4>. SUFFICES ASSUME NEW j \in Jobs, row'[j] # <<>>
                    PROVE  row'[j].burst <= row'[j].turnaround
        OBVIOUS
      <4>1. CASE j = c
        <5>1. row'[c].burst <= row'[c].turnaround  BY Zenon, <1>3, <1>6, <2>4
        <5>. QED  BY Zenon, <4>1, <5>1
      <4>2. CASE j # c
        <5>1. row'[j] = row[j]  BY <2>3, <4>2
        <5>2. row[j].burst <= row[j].turnaround  BY <5>1 DEF Sound, WaitingTime
        <5>. QED  BY Zenon, <5>1, <5>2
      <4>. QED  BY <4>1, <4>2
    <3>. QED  BY <3>1 DEF WaitingTime
  <2>6. row'[c].error <=> fate[c] # "ok"  BY <1>2, <1>6, <2>4 DEF ChildKnown
  <2>7. \A j \in Jobs : j # c => row'[j] = row[j] /\ child'[j] = child[j]
    BY <1>1, <2>3 DEF childVars
  <2>8. child[c] \notin {"none", "running"} /\ UNCHANGED fate /\ pc # "done" /\ pc' # "done"
    BY <1>1, <1>2 DEF childVars
  <2>9. Scheduler!Next  BY <1>2, <2>4, <2>6, <2>7, <2>8, SliceEnds
  <2>. QED  BY <1>4, <1>5, <2>5, <2>9 DEF Refines
<1>7. CASE ~finished[c]
  <2>1. UNCHANGED row  BY <1>7 DEF Account
  <2>2. WaitingTime'  BY <2>1 DEF Sound, WaitingTime
  <2>3. UNCHANGED Scheduler!vars  BY <1>1, <2>1 DEF childVars, Scheduler!vars
  <2>. QED  BY <1>4, <1>5, <2>2, <2>3 DEF Refines
<1>. QED  BY <1>6, <1>7

(* Between the slices.                                                     *)
LEMMA BetweenStep ==
    ASSUME Sound, failures = 0, Pop \/ WriteCsv \/ Boost
    PROVE  (Known /\ Covered /\ WaitingTime)' /\ (~WriteCsv => Refines)
<1>0. now \in Nat /\ burst_time \in [Jobs -> Nat]
  BY DEF Sound, MLFQInv, TypeOK, ChildrenTypeOK
<1>1. UNCHANGED <<child, left, fate, pid, failures, started, error, finished, burst_time, row>>
  BY DEF Pop, WriteCsv, Boost, fields, childVars
<1>2. pc \in {"loop", "boost"} /\ pc' \in {"dispatch", "done", "loop"} /\ (pc' = "done" => WriteCsv)
  BY DEF Pop, WriteCsv, Boost, Goto
<1>3. now' \in Nat /\ now' >= now
  <2>1. CASE Pop \/ WriteCsv  BY <1>0, <2>1 DEF Pop, WriteCsv, childVars
  <2>2. CASE Boost  BY <1>0, <2>2, MLFQAssumption DEF Boost
  <2>. QED  BY <2>1, <2>2
<1>4. \A j \in Jobs : ChildKnown(j) /\ child[j] # "running"
  BY <1>2 DEF Sound, Known, ChildKnown
<1>5. Known'  BY <1>1, <1>2, <1>4 DEF Known, ChildKnown
<1>6. Covered'
  <2>1. \A j \in Jobs : child[j] # "reaped" \/ finished[j] => burst_time[j] <= now
    BY <1>2 DEF Sound, Covered, InSlice
  <2>2. CASE pc' = "dispatch"
    <3>1. PICK k \in Levels : level' = k /\ start_time' = now /\ quantum_end' = now + Quantum[k]
      BY <1>2, <2>2 DEF Pop, WriteCsv, Boost, Goto
    <3>2. pc' = "dispatch" /\ now' = now  BY <2>2 DEF Pop, WriteCsv, Boost, Goto, childVars
    <3>3. \A j \in Jobs : child'[j] # "reaped" \/ finished'[j] => burst_time'[j] <= now
      BY <1>1, <2>1
    <3>4. quantum_end' = start_time' + Quantum[level']  BY <3>1
    <3>. QED  BY <3>1, <3>2, <3>3, <3>4 DEF Covered, InSlice
  <2>3. CASE pc' # "dispatch"
    <3>1. \A j \in Jobs : child'[j] # "reaped" \/ finished'[j] => burst_time'[j] <= now'
      BY <1>0, <1>1, <1>3, <2>1
    <3>. QED  BY <1>2, <2>3, <3>1 DEF Covered, InSlice
  <2>. QED  BY <2>2, <2>3
<1>7. WaitingTime'  BY <1>1 DEF Sound, WaitingTime
<1>8. ~WriteCsv => Refines
  BY <1>1, <1>2 DEF Refines, Scheduler!vars
<1>. QED  BY <1>5, <1>6, <1>7, <1>8

(* After a failed fork a process collects the status of somebody else, and *)
(* nothing but MLFQInv holds from there on.                                *)
SoundInv == MLFQInv /\ (failures = 0 => Sound)

(* Failed forks are counted and not forgotten.                             *)
LEMMA FailuresGrow ==
    ASSUME MLFQInv, [Next]_vars, failures' = 0 PROVE failures = 0
<1>0. failures \in Nat
  BY ChildrenAssumption DEF MLFQInv, TypeOK, ChildrenTypeOK
<1>1. CASE Launch
  BY <1>0, <1>1 DEF Launch, Fork, ForkFails
<1>2. CASE Poll
  BY <1>2 DEF Poll, Sleep, Reap, childVars
<1>3. CASE Resume \/ StopChild
  BY <1>3 DEF Resume, StopChild, Continue, Stop, Signal, childVars
<1>4. CASE Pop \/ WriteCsv \/ SliceOver \/ Account \/ Boost \/ UNCHANGED vars
  BY <1>4 DEF Pop, WriteCsv, SliceOver, Account, Boost, vars, childVars
<1>. QED  BY <1>1, <1>2, <1>3, <1>4 DEF Next

(* A step while no fork has failed.                                        *)
LEMMA SoundStep ==
    ASSUME SoundInv, [Next]_vars, failures' = 0
    PROVE  Sound /\ Sound' /\ (WriteCsv \/ Refines)
<1>1. failures = 0 /\ MLFQInv' /\ Sound
  BY FailuresGrow, MLFQStep DEF SoundInv
<1>2. (Known /\ Covered /\ WaitingTime)' /\ (WriteCsv \/ Refines)
  <2>1. CASE Launch \/ Resume  BY <1>1, <2>1, DispatchStep
  <2>2. CASE Poll \/ SliceOver  BY <1>1, <2>2, PollStep
  <2>3. CASE StopChild  BY <1>1, <2>3, StopStep
  <2>4. CASE Account  BY <1>1, <2>4, AccountStep
  <2>5. CASE Pop \/ WriteCsv \/ Boost  BY <1>1, <2>5, BetweenStep
  <2>6. CASE UNCHANGED vars
    <3>1. UNCHANGED <<child, left, fate, pid, failures, now, row, started, error, finished,
                      burst_time, cur, level, start_time, quantum_end, pc>>
      BY <2>6 DEF vars, childVars, fields, clocks
    <3>2. Known'  BY <1>1, <3>1 DEF Sound, Known, ChildKnown
    <3>3. Covered'  BY <1>1, <3>1 DEF Sound, Covered, InSlice
    <3>4. WaitingTime'  BY <1>1, <3>1 DEF Sound, WaitingTime
    <3>5. Refines  BY <3>1 DEF Refines, Scheduler!vars
    <3>. QED  BY <3>2, <3>3, <3>4, <3>5
  <2>. QED  BY <2>1, <2>2, <2>3, <2>4, <2>5, <2>6 DEF Next
<1>. QED  BY <1>1, <1>2 DEF Sound

(* The invariant of MLFQ holds.                                            *)
THEOREM MLFQSoundInvariant == Spec => []SoundInv
<1>1. Init /\ MLFQInv => SoundInv
  <2>. SUFFICES ASSUME Init, MLFQInv PROVE Sound  BY DEF SoundInv
  <2>. USE ChildrenAssumption
  <2>1. Known  BY DEF Init, ChildrenInit, Known, ChildKnown
  <2>2. Covered  BY DEF Init, ChildrenInit, Covered, InSlice
  <2>3. WaitingTime  BY DEF Init, WaitingTime
  <2>. QED  BY <2>1, <2>2, <2>3 DEF Sound
<1>2. SoundInv /\ [Next]_vars => SoundInv'
  <2>. SUFFICES ASSUME SoundInv, [Next]_vars PROVE SoundInv'  OBVIOUS
  <2>1. MLFQInv'  BY MLFQStep DEF SoundInv
  <2>2. failures' = 0 => Sound'  BY SoundStep
  <2>. QED  BY <2>1, <2>2 DEF SoundInv
<1>. QED  BY <1>1, <1>2, MLFQInvariant, PTL DEF Spec

(* The feedback queues: the state stays well formed, and while no fork     *)
(* fails no process is recorded with a burst longer than its turnaround.   *)
THEOREM MLFQSound == Spec => []Inv
<1>1. SoundInv => Inv
  <2>. SUFFICES ASSUME SoundInv PROVE Inv  OBVIOUS
  <2>1. TypeOK  BY DEF SoundInv, MLFQInv
  <2>2. CASE failures = 0  BY <2>1, <2>2 DEF SoundInv, Sound, Inv
  <2>3. CASE failures # 0  BY <2>1, <2>3 DEF Inv, WaitingTime
  <2>. QED  BY <2>2, <2>3
<1>. QED  BY <1>1, MLFQSoundInvariant, PTL

-----------------------------------------------------------------------------
(* A process without a result waits in a queue or has been popped.         *)
Queued(j) == \E k \in Levels : \E a \in 1 .. Len(queue[k]) : queue[k][a] = j

(* Who has not been recorded runs or waits in a queue.                     *)
NothingLost == \A j \in Jobs : row[j] # <<>> \/ (InSlice /\ j = cur) \/ Queued(j)

(* The inductive invariant of OnePlace.                                    *)
PlacesInv == MLFQInv /\ NothingLost

(* No step loses a process, if the queues have room for all of them.       *)
LEMMA NothingLostStep ==
    ASSUME N <= MAX_QUEUE_SIZE, MLFQInv, NothingLost, [Next]_vars PROVE NothingLost'
<1>0. TypeOK /\ Rows /\ QueueInv /\ OneLine /\ cur \in Jobs  BY DEF MLFQInv, TypeOK
<1>1. ASSUME UNCHANGED <<queue, row, cur>>, InSlice => InSlice' PROVE NothingLost'
  BY <1>1 DEF NothingLost, Queued
<1>2. CASE Pop
  <2>1. UNCHANGED row /\ ~InSlice /\ InSlice'  BY <1>2 DEF Pop, Goto, InSlice
  <2>2. PICK k \in Levels :
           /\ queue[k] # <<>> /\ cur' = Head(queue[k])
           /\ queue' = [queue EXCEPT ![k] = Tail(@)]
    BY <1>2 DEF Pop
  <2>3. /\ \A l \in Levels : l # k => queue'[l] = queue[l]
        /\ Len(queue[k]) \in Nat \ {0} /\ Len(queue'[k]) = Len(queue[k]) - 1
        /\ \A a \in 1 .. Len(queue'[k]) : queue'[k][a] = queue[k][a + 1]
        /\ cur' = queue[k][1]
    BY <1>0, <2>2, PopQueue DEF QueueInv
  <2>4. ASSUME NEW j \in Jobs, Queued(j) PROVE j = cur' \/ Queued(j)'
    <3>1. PICK l \in Levels : \E a \in 1 .. Len(queue[l]) : queue[l][a] = j  BY <2>4 DEF Queued
    <3>2. PICK a \in 1 .. Len(queue[l]) : queue[l][a] = j  BY <3>1
    <3>3. CASE l # k
      <4>1. queue'[l] = queue[l]  BY <2>3, <3>3
      <4>. QED  BY <3>2, <4>1 DEF Queued
    <3>4. CASE l = k /\ a = 1  BY <2>3, <3>2, <3>4
    <3>5. CASE l = k /\ a # 1
      <4>1. a - 1 \in 1 .. Len(queue'[k]) /\ (a - 1) + 1 = a  BY <2>3, <3>5
      <4>2. queue'[k][a - 1] = queue[k][a]  BY <2>3, <4>1
      <4>. QED  BY <3>2, <3>5, <4>1, <4>2 DEF Queued
    <3>. QED  BY <3>3, <3>4, <3>5
  <2>. QED  BY <2>1, <2>4 DEF NothingLost
<1>3. CASE Account
  <2>1. cur' = cur /\ InSlice  BY <1>3 DEF Account, Goto, InSlice
  <2>2. CASE finished[cur]
    <3>1. /\ queue' = queue
          /\ row' = [row EXCEPT ![cur] =
                        [turnaround |-> now, burst |-> burst_time'[cur], error |-> error[cur]]]
      BY <1>3, <2>2 DEF Account
    <3>2. row'[cur] # <<>> /\ \A j \in Jobs : j # cur => row'[j] = row[j]
      BY <1>0, <3>1, RecordedRR DEF Rows
    <3>. QED  BY <3>1, <3>2 DEF NothingLost, Queued
  <2>3. CASE ~finished[cur]
    <3>1. PICK l \in {1, 2} : queue' = Add(queue, cur, l) /\ row' = row
      <4>. DEFINE l == IF level = 0 THEN 1 ELSE 2
      <4>1. /\ priority' = [priority EXCEPT ![cur] = l] /\ queue' = Add(queue, cur, priority'[cur])
            /\ row' = row
        BY <1>3, <2>3 DEF Account
      <4>2. priority'[cur] = l  BY <1>0, <4>1 DEF TypeOK
      <4>. QED  BY <4>1, <4>2
    <3>2. l \in Levels  BY DEF Levels
    <3>3. /\ \A m \in Levels : m # l => queue'[m] = queue[m]
          /\ Len(queue[l]) \in Nat
          /\ \/ Len(queue[l]) >= MAX_QUEUE_SIZE
             \/ /\ Len(queue'[l]) = Len(queue[l]) + 1 /\ queue'[l][Len(queue[l]) + 1] = cur
                /\ \A a \in 1 .. Len(queue[l]) : queue'[l][a] = queue[l][a]
      BY <1>0, <3>1, <3>2, AddQueue DEF QueueInv
    <3>4. Len(queue[l]) < N
      <4>1. \A a \in 1 .. Len(queue[l]) : queue[l][a] # cur
        BY <1>0, <2>1, <3>2 DEF QueueInv, Placed
      <4>. QED  BY <1>0, <3>2, <4>1, QueuesShort
    <3>5. /\ Len(queue'[l]) = Len(queue[l]) + 1 /\ queue'[l][Len(queue[l]) + 1] = cur
          /\ \A a \in 1 .. Len(queue[l]) : queue'[l][a] = queue[l][a]
      BY <3>3, <3>4, MLFQAssumption, ChildrenAssumption
    <3>6. Queued(cur)'
      <4>1. Len(queue[l]) + 1 \in 1 .. Len(queue'[l])  BY <3>3, <3>5
      <4>. QED  BY <2>1, <3>2, <3>5, <4>1 DEF Queued
    <3>7. ASSUME NEW j \in Jobs, Queued(j) PROVE Queued(j)'
      <4>1. PICK m \in Levels : \E a \in 1 .. Len(queue[m]) : queue[m][a] = j  BY <3>7 DEF Queued
      <4>2. PICK a \in 1 .. Len(queue[m]) : queue[m][a] = j  BY <4>1
      <4>3. a \in 1 .. Len(queue'[m]) /\ queue'[m][a] = queue[m][a]  BY <3>3, <3>5
      <4>. QED  BY <4>2, <4>3 DEF Queued
    <3>8. ASSUME NEW j \in Jobs, j = cur PROVE Queued(j)'
      <4>1. PICK m \in Levels : \E a \in 1 .. Len(queue'[m]) : queue'[m][a] = cur
        BY <2>1, <3>6 DEF Queued
      <4>. QED  BY <3>8, <4>1 DEF Queued
    <3>. QED  BY <3>1, <3>7, <3>8 DEF NothingLost
  <2>. QED  BY <2>2, <2>3
<1>4. CASE Boost
  <2>1. UNCHANGED <<row, cur>> /\ ~InSlice  BY <1>4 DEF Boost, Goto, InSlice
  <2>2. CASE Boosted
    <3>1. \A k \in Levels : \A a \in 1 .. Len(queue[k]) :
             /\ Offset(k) + a \in 1 .. Len(queue'[0])
             /\ queue'[0][Offset(k) + a] = queue[k][a]
      BY <1>0, <2>2, BoostQueue DEF QueueInv
    <3>2. ASSUME NEW j \in Jobs, Queued(j) PROVE Queued(j)'
      <4>1. PICK k \in Levels : \E a \in 1 .. Len(queue[k]) : queue[k][a] = j  BY <3>2 DEF Queued
      <4>2. PICK a \in 1 .. Len(queue[k]) : queue[k][a] = j  BY <4>1
      <4>3. Offset(k) + a \in 1 .. Len(queue'[0]) /\ queue'[0][Offset(k) + a] = j
        BY <3>1, <4>2
      <4>. QED  BY <4>3 DEF Queued, Levels
    <3>. QED  BY <2>1, <3>2 DEF NothingLost
  <2>3. CASE UNCHANGED queue  BY <1>1, <2>1, <2>3
  <2>. QED  BY <1>4, <2>2, <2>3 DEF Boost
<1>5. CASE WriteCsv \/ Launch \/ Resume \/ Poll \/ SliceOver \/ StopChild \/ UNCHANGED vars
  <2>1. UNCHANGED <<queue, row, cur>>
    BY <1>5 DEF WriteCsv, Launch, Resume, Poll, SliceOver, StopChild, vars
  <2>2. InSlice => InSlice'
    BY <1>5 DEF WriteCsv, Launch, Resume, Poll, SliceOver, StopChild, vars, Goto, InSlice
  <2>. QED  BY <1>1, <2>1, <2>2
<1>. QED  BY <1>2, <1>3, <1>4, <1>5 DEF Next

(* No process is lost, when a queue can hold all of them.                  *)
THEOREM PlacesInvariant ==
    ASSUME N <= MAX_QUEUE_SIZE PROVE Spec => []PlacesInv
<1>1. Init => NothingLost
  <2>. SUFFICES ASSUME Init PROVE NothingLost  OBVIOUS
  <2>0. (IF N < MAX_QUEUE_SIZE THEN N ELSE MAX_QUEUE_SIZE) = N
    BY MLFQAssumption, ChildrenAssumption
  <2>1. queue = [k \in Levels |-> IF k = 0 THEN [j \in 1 .. N |-> j] ELSE <<>>]
    BY Zenon, <2>0 DEF Init, Initial
  <2>2. PICK s : s = [j \in 1 .. N |-> j]  OBVIOUS
  <2>3. Len(s) = N /\ \A j \in Jobs : s[j] = j
    BY <2>2, IsASeq, ChildrenAssumption DEF Jobs
  <2>4. queue[0] = s  BY <2>1, <2>2 DEF Levels
  <2>5. \A j \in Jobs : j \in 1 .. Len(queue[0]) /\ queue[0][j] = j
    BY <2>3, <2>4 DEF Jobs
  <2>. QED  BY <2>5 DEF NothingLost, Queued, Levels
<1>2. NothingLost /\ MLFQInv /\ [Next]_vars => NothingLost'
  BY NothingLostStep
<1>. QED  BY <1>1, <1>2, MLFQInvariant, PTL DEF Spec, PlacesInv

(* The feedback queues never lose a process or queue it twice, if they     *)
(* have room for all of them, whatever the children do.                    *)
THEOREM MLFQOnePlace ==
    ASSUME N <= MAX_QUEUE_SIZE PROVE Spec => []OnePlace
<1>1. PlacesInv => OnePlace
  <2>. SUFFICES ASSUME PlacesInv, NEW j \in Jobs
                PROVE  /\ Cardinality(Places(j)) = IF row[j] # <<>> \/ (InSlice /\ cur = j)
                                                   THEN 0 ELSE 1
                       /\ \A place \in Places(j) : place[1] = priority[j]
    BY DEF OnePlace
  <2>0. QueueInv /\ NothingLost  BY DEF PlacesInv, MLFQInv
  <2>1. \A k \in Levels : DOMAIN queue[k] = 1 .. Len(queue[k])
    BY <2>0, LenProperties DEF QueueInv
  <2>2. CASE row[j] # <<>> \/ (InSlice /\ cur = j)
    <3>1. \A k \in Levels : \A a \in 1 .. Len(queue[k]) : queue[k][a] # j
      BY <2>0, <2>2 DEF QueueInv, Placed
    <3>2. Places(j) = {}  BY <2>1, <3>1 DEF Places
    <3>. QED  BY <2>2, <3>2, FS_EmptySet
  <2>3. CASE ~(row[j] # <<>> \/ (InSlice /\ cur = j))
    <3>1. Queued(j)  BY <2>0, <2>3 DEF NothingLost
    <3>2. PICK k \in Levels : \E a \in 1 .. Len(queue[k]) : queue[k][a] = j  BY <3>1 DEF Queued
    <3>3. PICK a \in 1 .. Len(queue[k]) : queue[k][a] = j  BY <3>2
    <3>4. ASSUME NEW l \in Levels
          PROVE  {b \in DOMAIN queue[l] : queue[l][b] = j} = IF l = k THEN {a} ELSE {}
      <4>1. ASSUME NEW b \in 1 .. Len(queue[l]), queue[l][b] = j PROVE l = k /\ b = a
        <5>1. queue[l][b] = queue[k][a]  BY Zenon, <3>3, <4>1
        <5>. QED  BY <2>0, <5>1 DEF QueueInv, NoDuplicates
      <4>. QED  BY <2>1, <3>3, <4>1
    <3>5. Places(j) = {<<k, a>>}
      <4>1. \A x \in Places(j) : x = <<k, a>>
        BY <3>4 DEF Places
      <4>2. <<k, a>> \in Places(j)
        BY <3>4 DEF Places
      <4>. QED  BY <4>1, <4>2
    <3>6. Cardinality(Places(j)) = 1  BY <3>5, FS_Singleton
    <3>7. priority[j] = k  BY <2>0, <3>3 DEF QueueInv, Placed
    <3>. QED  BY <2>3, <3>5, <3>6, <3>7
  <2>. QED  BY <2>2, <2>3
<1>. QED  BY <1>1, PlacesInvariant, PTL

(* As long as every fork succeeds the feedback queues take only steps of   *)
(* the abstract scheduler, if they have room for all processes.            *)
THEOREM MLFQImplementsScheduler ==
    ASSUME N <= MAX_QUEUE_SIZE PROVE Spec => ImplementsScheduler
<1>1. Init => Scheduler!Init
  BY DEF Init, ChildrenInit, Scheduler!Init
<1>2. SoundInv /\ PlacesInv /\ [Next]_vars
      => [failures' = 0 => [Scheduler!Next]_(Scheduler!vars)]_vars
  <2>. SUFFICES ASSUME SoundInv, PlacesInv, [Next]_vars, failures' = 0 PROVE Refines
    BY DEF Refines
  <2>1. CASE WriteCsv
    <3>1. /\ UNCHANGED <<child, fate, row>> /\ pc = "loop" /\ pc' = "done"
          /\ \A k \in Levels : queue[k] = <<>>
      BY <2>1 DEF WriteCsv, Goto, childVars
    <3>2. \A k \in Levels : Len(queue[k]) = 0  BY <3>1, EmptySeq
    <3>3. \A j \in Jobs : row[j] # <<>>
      BY <3>1, <3>2 DEF PlacesInv, NothingLost, Queued, InSlice
    <3>4. Scheduler!Report  BY <3>1, <3>3 DEF Scheduler!Report
    <3>. QED  BY <3>4 DEF Scheduler!Next, Refines
  <2>2. CASE ~WriteCsv  BY <2>2, SoundStep
  <2>. QED  BY <2>1, <2>2
<1>. QED  BY <1>1, <1>2, MLFQSoundInvariant, PlacesInvariant, PTL DEF Spec, ImplementsScheduler

-----------------------------------------------------------------------------
(* A process is not behind another one that was run after it.              *)
LineInOrder ==
    /\ \A k, l \in Levels : \A a \in 1 .. Len(queue[k]), b \in 1 .. Len(queue[l]) :
          k < l \/ (k = l /\ a < b) => queue[k][a] \notin since[queue[l][b]]
    /\ InSlice /\ pc # "dispatch" => since[cur] = {}
    /\ pc = "dispatch" => \A k \in Levels : \A a \in 1 .. Len(queue[k]) : cur \notin since[queue[k][a]]

(* The inductive invariant of FairShare.                                   *)
ShareInv == MLFQInv /\ since \in [Jobs -> SUBSET Jobs] /\ LineInOrder

(* No step lets a process overtake who waits in front of it in the line.   *)
LEMMA ShareStep ==
    ASSUME ShareInv, [ShareNext]_<<vars, since>> PROVE ShareInv'
<1>0. TypeOK /\ Rows /\ QueueInv /\ OneLine /\ cur \in Jobs /\ since \in [Jobs -> SUBSET Jobs]
      /\ LineInOrder
  BY DEF ShareInv, MLFQInv, TypeOK
<1>1. MLFQInv'
  <2>1. [Next]_vars  BY DEF ShareNext
  <2>. QED  BY <2>1, MLFQStep DEF ShareInv
<1>2. since' \in [Jobs -> SUBSET Jobs]
  BY <1>0 DEF ShareNext
<1>3. \A k \in Levels : \A a \in 1 .. Len(queue[k]) : queue[k][a] \in Jobs
  BY <1>0, ElementOfSeq DEF QueueInv
<1>4. \A k \in Levels : Len(queue[k]) \in Nat
  BY <1>0, LenProperties DEF QueueInv
<1>5. CASE Pop /\ UNCHANGED since
  <2>1. pc' = "dispatch"  BY <1>5 DEF Pop, Goto
  <2>2. PICK k \in Levels :
           /\ queue[k] # <<>> /\ \A m \in 0 .. k - 1 : queue[m] = <<>>
           /\ cur' = Head(queue[k]) /\ queue' = [queue EXCEPT ![k] = Tail(@)]
    BY <1>5 DEF Pop
  <2>3. /\ \A l \in Levels : l # k => queue'[l] = queue[l]
        /\ Len(queue[k]) \in Nat \ {0} /\ Len(queue'[k]) = Len(queue[k]) - 1
        /\ \A a \in 1 .. Len(queue'[k]) : queue'[k][a] = queue[k][a + 1]
        /\ cur' = queue[k][1]
    BY <1>0, <2>2, PopQueue DEF QueueInv
  <2>. DEFINE old(l, a) == IF l = k THEN a + 1 ELSE a
  <2>4. ASSUME NEW l \in Levels, NEW a \in 1 .. Len(queue'[l])
        PROVE  old(l, a) \in 1 .. Len(queue[l]) /\ queue'[l][a] = queue[l][old(l, a)]
    BY <2>3
  <2>5. ASSUME NEW l \in Levels, NEW a \in 1 .. Len(queue'[l])
        PROVE  k < l \/ (k = l /\ 1 < old(l, a))
    <3>1. CASE l = k  BY <3>1
    <3>2. CASE l < k
      <4>1. queue[l] = <<>>  BY <2>2, <3>2 DEF Levels
      <4>2. Len(queue'[l]) = 0  BY <2>3, <3>2, <4>1, EmptySeq
      <4>. QED  BY <4>2
    <3>. QED  BY <3>1, <3>2 DEF Levels
  <2>. HIDE DEF old
  <2>6. ASSUME NEW l \in Levels, NEW m \in Levels, NEW a \in 1 .. Len(queue'[l]),
               NEW b \in 1 .. Len(queue'[m]), l < m \/ (l = m /\ a < b)
        PROVE  queue'[l][a] \notin since[queue'[m][b]]
    <3>1. PICK a1 \in 1 .. Len(queue[l]) : a1 = old(l, a) /\ queue'[l][a] = queue[l][a1]
      BY <2>4
    <3>2. PICK b1 \in 1 .. Len(queue[m]) : b1 = old(m, b) /\ queue'[m][b] = queue[m][b1]
      BY <2>4
    <3>3. l < m \/ (l = m /\ a1 < b1)  BY <2>6, <3>1, <3>2 DEF old
    <3>4. queue[l][a1] \notin since[queue[m][b1]]  BY <1>0, <3>3 DEF LineInOrder
    <3>. QED  BY Zenon, <3>1, <3>2, <3>4
  <2>7. ASSUME NEW l \in Levels, NEW a \in 1 .. Len(queue'[l])
        PROVE  cur' \notin since[queue'[l][a]]
    <3>1. PICK a1 \in 1 .. Len(queue[l]) : a1 = old(l, a) /\ queue'[l][a] = queue[l][a1]
      BY <2>4
    <3>2. k < l \/ (k = l /\ 1 < a1)  BY <2>5, <3>1
    <3>3. 1 \in 1 .. Len(queue[k])  BY <2>3
    <3>4. queue[k][1] \notin since[queue[l][a1]]  BY <1>0, <3>2, <3>3 DEF LineInOrder
    <3>. QED  BY Zenon, <2>3, <3>1, <3>4
  <2>8. LineInOrder'  BY <1>5, <2>1, <2>6, <2>7 DEF LineInOrder
  <2>. QED  BY <1>1, <1>2, <2>8 DEF ShareInv
<1>6. CASE /\ Launch \/ Resume
           /\ since' = [j \in Jobs |-> IF j = cur THEN {} ELSE since[j] \cup {cur}]
  <2>1. UNCHANGED <<queue, cur>> /\ InSlice /\ pc' # "dispatch"
    BY <1>6 DEF Launch, Resume, Goto, InSlice
  <2>2. \A k \in Levels : \A a \in 1 .. Len(queue[k]) : queue[k][a] # cur
    BY <1>0, <2>1 DEF QueueInv, Placed
  <2>3. ASSUME NEW k \in Levels, NEW l \in Levels, NEW a \in 1 .. Len(queue[k]),
               NEW b \in 1 .. Len(queue[l]), k < l \/ (k = l /\ a < b)
        PROVE  queue[k][a] \notin since'[queue[l][b]]
    <3>1. queue[k][a] \notin since[queue[l][b]]  BY <1>0, <2>3 DEF LineInOrder
    <3>2. since'[queue[l][b]] = since[queue[l][b]] \cup {cur}  BY <1>3, <1>6, <2>2
    <3>. QED  BY <2>2, <3>1, <3>2
  <2>4. since'[cur] = {}  BY <1>0, <1>6
  <2>5. LineInOrder'  BY <2>1, <2>3, <2>4 DEF LineInOrder
  <2>. QED  BY <1>1, <1>2, <2>5 DEF ShareInv
<1>7. CASE Account /\ UNCHANGED since
  <2>1. cur' = cur /\ InSlice /\ pc = "account" /\ pc' = "boost"
    BY <1>7 DEF Account, Goto, InSlice
  <2>2. since[cur] = {}  BY <1>0, <2>1 DEF LineInOrder
  <2>3. PICK l \in Levels : /\ l = IF level = 0 THEN 1 ELSE 2
                            /\ queue' = queue \/ queue' = Add(queue, cur, l)
    <3>. DEFINE l == IF level = 0 THEN 1 ELSE 2
    <3>1. CASE finished[cur]  BY <1>7, <3>1 DEF Account, Levels
    <3>2. CASE ~finished[cur]
      <4>1. /\ priority' = [priority EXCEPT ![cur] = l] /\ queue' = Add(queue, cur, priority'[cur])
        BY <1>7, <3>2 DEF Account
      <4>2. priority'[cur] = l  BY <1>0, <4>1 DEF TypeOK
      <4>. QED  BY <4>1, <4>2 DEF Levels
    <3>. QED  BY <3>1, <3>2
  <2>4. ASSUME NEW k \in Levels, NEW a \in 1 .. Len(queue'[k])
        PROVE  \/ a \in 1 .. Len(queue[k]) /\ queue'[k][a] = queue[k][a]
               \/ k = l /\ a = Len(queue[l]) + 1 /\ queue'[k][a] = cur
    <3>1. CASE queue' = queue  BY <3>1
    <3>2. CASE queue' = Add(queue, cur, l)
      <4>1. /\ \A m \in Levels : m # l => queue'[m] = queue[m]
            /\ Len(queue[l]) \in Nat
            /\ \/ queue' = queue
               \/ /\ Len(queue'[l]) = Len(queue[l]) + 1 /\ queue'[l][Len(queue[l]) + 1] = cur
                  /\ \A b \in 1 .. Len(queue[l]) : queue'[l][b] = queue[l][b]
        BY <1>0, <3>2, AddQueue DEF QueueInv
      <4>. QED  BY <4>1
    <3>. QED  BY <2>3, <3>1, <3>2
  <2>5. \A m \in Levels : l < m => Len(queue[m]) = 0
    BY <1>0, <2>1, <2>3, EmptySeq DEF OneLine, Levels
  <2>6. ASSUME NEW k \in Levels, NEW m \in Levels, NEW a \in 1 .. Len(queue'[k]),
               NEW b \in 1 .. Len(queue'[m]), k < m \/ (k = m /\ a < b)
        PROVE  queue'[k][a] \notin since[queue'[m][b]]
    <3>1. CASE queue'[m][b] = cur
      <4>1. since[queue'[m][b]] = {}  BY Zenon, <2>2, <3>1
      <4>. QED  BY <4>1
    <3>2. CASE queue'[m][b] # cur
      <4>1. b \in 1 .. Len(queue[m]) /\ queue'[m][b] = queue[m][b]  BY <2>4, <3>2
      <4>2. a \in 1 .. Len(queue[k]) /\ queue'[k][a] = queue[k][a]
        <5>1. SUFFICES ASSUME k = l, a = Len(queue[l]) + 1 PROVE FALSE  BY <2>4
        <5>2. CASE k < m
          <6>1. Len(queue[m]) = 0  BY <2>5, <5>1, <5>2
          <6>. QED  BY <4>1, <6>1
        <5>3. CASE k = m /\ a < b
          <6>. QED  BY <1>4, <4>1, <5>1, <5>3
        <5>. QED  BY <2>6, <5>2, <5>3
      <4>3. queue[k][a] \notin since[queue[m][b]]  BY <1>0, <2>6, <4>1, <4>2 DEF LineInOrder
      <4>. QED  BY Zenon, <4>1, <4>2, <4>3
    <3>. QED  BY <3>1, <3>2
  <2>7. LineInOrder'  BY <1>7, <2>1, <2>6 DEF LineInOrder, InSlice
  <2>. QED  BY <1>1, <1>2, <2>7 DEF ShareInv
<1>8. CASE Boost /\ Boosted /\ UNCHANGED since
  <2>1. pc' = "loop"  BY <1>8 DEF Boost, Goto
  <2>2. /\ queue'[1] = <<>> /\ queue'[2] = <<>>
        /\ \A k \in Levels : Offset(k) \in Nat
        /\ \A k \in Levels : \A a \in 1 .. Len(queue[k]) :
               queue'[0][Offset(k) + a] = queue[k][a]
        /\ \A b \in 1 .. Len(queue'[0]) : \E k \in Levels : \E a \in 1 .. Len(queue[k]) :
               b = Offset(k) + a
    BY <1>0, <1>8, BoostQueue DEF QueueInv
  <2>3. ASSUME NEW k \in Levels, NEW l \in Levels, l < k
        PROVE  Offset(k) \in Nat /\ Offset(l) \in Nat /\ Offset(l) + Len(queue[l]) <= Offset(k)
    <3>1. PICK x \in Nat, y \in Nat : x = Len(queue[0]) /\ y = Len(queue[1])
      BY <1>4 DEF Levels
    <3>2. Offset(0) = 0 /\ Offset(1) = x /\ Offset(2) = x + y  BY <3>1 DEF Offset
    <3>3. CASE l = 0 /\ k = 1  BY <3>1, <3>2, <3>3
    <3>4. CASE l = 0 /\ k = 2
      <4>1. 0 \in Nat /\ x + y \in Nat /\ 0 + x <= x + y  OBVIOUS
      <4>. QED  BY Zenon, <3>1, <3>2, <3>4, <4>1
    <3>5. CASE l = 1 /\ k = 2
      <4>1. x \in Nat /\ x + y \in Nat /\ x + y <= x + y  OBVIOUS
      <4>. QED  BY Zenon, <3>1, <3>2, <3>5, <4>1
    <3>. QED  BY <2>3, <3>3, <3>4, <3>5 DEF Levels
  <2>4. ASSUME NEW b \in 1 .. Len(queue'[0]), NEW c \in 1 .. Len(queue'[0]), b < c
        PROVE  queue'[0][b] \notin since[queue'[0][c]]
    <3>1. PICK k \in Levels : \E a \in 1 .. Len(queue[k]) : b = Offset(k) + a  BY <2>2
    <3>2. PICK a \in 1 .. Len(queue[k]) : b = Offset(k) + a  BY <3>1
    <3>3. PICK l \in Levels : \E d \in 1 .. Len(queue[l]) : c = Offset(l) + d  BY <2>2
    <3>4. PICK d \in 1 .. Len(queue[l]) : c = Offset(l) + d  BY <3>3
    <3>5. k < l \/ (k = l /\ a < d)
      <4>1. CASE l < k
        <5>1. PICK x \in Nat, y \in Nat, z \in Nat :
                 x = Offset(k) /\ y = Offset(l) /\ z = Len(queue[l])
          BY <1>4, <2>3, <4>1
        <5>2. y + z <= x  BY <2>3, <4>1, <5>1
        <5>3. b = x + a /\ c = y + d /\ b < c  BY Zenon, <2>4, <3>2, <3>4, <5>1
        <5>4. d \in 1 .. z  BY Zenon, <5>1
        <5>5. a \in Nat /\ a > 0  BY <1>4
        <5>. QED  BY <5>1, <5>2, <5>3, <5>4, <5>5
      <4>2. CASE l = k
        <5>1. PICK x \in Nat : x = Offset(k)  BY <2>2
        <5>. QED  BY <1>4, <2>4, <3>2, <3>4, <4>2, <5>1
      <4>. QED  BY <4>1, <4>2 DEF Levels
    <3>6. queue[k][a] \notin since[queue[l][d]]  BY <1>0, <3>5 DEF LineInOrder
    <3>7. queue'[0][b] = queue[k][a] /\ queue'[0][c] = queue[l][d]  BY <2>2, <3>2, <3>4
    <3>. QED  BY Zenon, <3>6, <3>7
  <2>5. \A k \in Levels : k # 0 => Len(queue'[k]) = 0
    BY <2>2, EmptySeq DEF Levels
  <2>6. \A k \in Levels : \A a \in 1 .. Len(queue'[k]) : k = 0  BY <2>5
  <2>7. LineInOrder'  BY <1>8, <2>1, <2>4, <2>6 DEF LineInOrder, InSlice
  <2>. QED  BY <1>1, <1>2, <2>7 DEF ShareInv
<1>9. ASSUME UNCHANGED <<queue, cur, since>>, pc' # "dispatch" \/ pc' = pc,
             InSlice' => InSlice /\ (pc = "dispatch" => pc' = "dispatch")
      PROVE  ShareInv'
  <2>1. LineInOrder'  BY <1>0, <1>9 DEF LineInOrder, InSlice
  <2>. QED  BY <1>1, <1>2, <2>1 DEF ShareInv
<1>10. CASE WriteCsv /\ UNCHANGED since
  BY <1>9, <1>10 DEF WriteCsv, Goto, InSlice
<1>11. CASE (Poll \/ SliceOver \/ StopChild) /\ UNCHANGED since
  <2>1. UNCHANGED <<queue, cur>>  BY <1>11 DEF Poll, SliceOver, StopChild
  <2>2. pc \in {"poll", "stop"} /\ pc' \in {"poll", "stop", "account", "halted"}
    BY <1>11 DEF Poll, SliceOver, StopChild, Goto
  <2>. QED  BY <1>9, <1>11, <2>1, <2>2 DEF InSlice
<1>12. CASE Boost /\ UNCHANGED <<queue, since>>
  BY <1>9, <1>12 DEF Boost, Goto, InSlice
<1>13. CASE UNCHANGED <<vars, since>>
  <2>1. UNCHANGED <<queue, cur, pc, since>>  BY <1>13 DEF vars
  <2>. QED  BY <1>9, <2>1 DEF InSlice
<1>14. CASE ShareNext
  <2>1. Launch \/ Resume => pc = "dispatch"  BY DEF Launch, Resume, Goto
  <2>2. Pop \/ WriteCsv \/ Poll \/ SliceOver \/ StopChild \/ Account \/ Boost => pc # "dispatch"
    BY DEF Pop, WriteCsv, Poll, SliceOver, StopChild, Account, Boost, Goto
  <2>3. Boost => Boosted \/ UNCHANGED queue  BY DEF Boost
  <2>4. /\ pc = "dispatch"
           => since' = [j \in Jobs |-> IF j = cur THEN {} ELSE since[j] \cup {cur}]
        /\ pc # "dispatch" => since' = since
    BY <1>14 DEF ShareNext
  <2>5. CASE Launch \/ Resume  BY <1>6, <2>1, <2>4, <2>5
  <2>6. CASE Boost  BY <1>8, <1>12, <2>2, <2>3, <2>4, <2>6
  <2>7. CASE Pop \/ WriteCsv \/ Poll \/ SliceOver \/ StopChild \/ Account
    BY <1>5, <1>7, <1>10, <1>11, <2>2, <2>4, <2>7
  <2>8. CASE pc \in {"done", "halted"} /\ UNCHANGED vars
    BY <1>13, <2>4, <2>8
  <2>. QED  BY <1>14, <2>5, <2>6, <2>7, <2>8 DEF ShareNext, Next
<1>. QED  BY <1>13, <1>14

(* Nobody starves: a process does not get a second slice while another     *)
(* one that has not finished waits, if the queues have room for all.       *)
THEOREM MLFQFairShare ==
    ASSUME N <= MAX_QUEUE_SIZE PROVE ShareSpec => []FairShare
<1>1. ShareInit /\ MLFQInv => ShareInv
  <2>. SUFFICES ASSUME ShareInit, MLFQInv PROVE ShareInv  OBVIOUS
  <2>1. since = [j \in Jobs |-> {}] /\ pc = "loop"  BY DEF ShareInit, Init
  <2>2. \A k \in Levels : \A a \in 1 .. Len(queue[k]) : queue[k][a] \in Jobs
    BY ElementOfSeq DEF MLFQInv, QueueInv
  <2>3. LineInOrder  BY <2>1, <2>2 DEF LineInOrder, InSlice
  <2>. QED  BY <2>1, <2>3 DEF ShareInv
<1>2. ShareInv /\ [ShareNext]_<<vars, since>> => ShareInv'
  BY ShareStep
<1>3. ShareInit => Init  BY DEF ShareInit
<1>4. [ShareNext]_<<vars, since>> => [Next]_vars  BY DEF ShareNext
<1>5. ShareSpec => Spec  BY <1>3, <1>4, PTL DEF ShareSpec, Spec
<1>6. ShareInv /\ PlacesInv => FairShare
  <2>. SUFFICES ASSUME ShareInv, PlacesInv, pc = "dispatch", NEW j \in Jobs \ {cur}, ~finished[j]
                PROVE  cur \notin since[j]
    BY DEF FairShare
  <2>1. row[j] = <<>>  BY DEF PlacesInv, MLFQInv, Rows
  <2>2. Queued(j)  BY <2>1 DEF PlacesInv, NothingLost
  <2>3. PICK k \in Levels : \E a \in 1 .. Len(queue[k]) : queue[k][a] = j  BY <2>2 DEF Queued
  <2>4. PICK a \in 1 .. Len(queue[k]) : queue[k][a] = j  BY <2>3
  <2>5. cur \notin since[queue[k][a]]  BY DEF ShareInv, LineInOrder
  <2>. QED  BY <2>4, <2>5
<1>. QED
  BY <1>1, <1>2, <1>5, <1>6, MLFQInvariant, PlacesInvariant, PTL DEF ShareSpec
=============================================================================
