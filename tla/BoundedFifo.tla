----------------------------- MODULE BoundedFifo -----------------------------
(***************************************************************************)
(* What the producer-consumer program promises, without threads, locks or  *)
(* a ring: the data of the input file passes, in order and without loss,   *)
(* through a queue of bounded capacity, and every item taken is logged     *)
(* together with what the queue held at the moment it was taken.           *)
(***************************************************************************)
EXTENDS Naturals, Sequences

CONSTANTS Capacity,  \* how many items the queue may hold
          Streams    \* the data sequences that may have to be passed on

VARIABLES todo,      \* data not yet put into the queue
          queue,
          log,       \* [item, rest]: what was taken, what it left behind
          closed,    \* no item will be put any more
          over       \* "no", "finished", or "aborted" by exit(1)

vars == <<todo, queue, log, closed, over>>

Init == /\ todo \in Streams
        /\ queue = <<>> /\ log = <<>> /\ closed = FALSE /\ over = "no"

Put == /\ over = "no" /\ todo # <<>> /\ Len(queue) < Capacity
       /\ queue' = Append(queue, Head(todo))
       /\ todo' = Tail(todo)
       /\ UNCHANGED <<log, closed, over>>

Get == /\ over = "no" /\ queue # <<>>
       /\ queue' = Tail(queue)
       /\ log' = Append(log, [item |-> Head(queue), rest |-> Tail(queue)])
       /\ UNCHANGED <<todo, closed, over>>

Close == /\ over = "no" /\ todo = <<>> /\ ~closed
         /\ closed' = TRUE
         /\ UNCHANGED <<todo, queue, log, over>>

Finish == /\ over = "no" /\ closed /\ queue = <<>>
          /\ over' = "finished"
          /\ UNCHANGED <<todo, queue, log, closed>>

Abort == /\ over = "no"
         /\ over' = "aborted"
         /\ UNCHANGED <<todo, queue, log, closed>>

Next == Put \/ Get \/ Close \/ Finish \/ Abort

Spec == Init /\ [][Next]_vars /\ WF_vars(Put \/ Get \/ Close \/ Finish)
=============================================================================
