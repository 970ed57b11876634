----------------------------- MODULE Semaphores -----------------------------
(* POSIX unnamed semaphores as the two lock programs use them: sem_wait     *)
(* blocks while the value is 0, sem_post never blocks. Which of several     *)
(* blocked threads a post lets through is not specified.                    *)
EXTENDS Naturals

SemWait(s) == s > 0 /\ s' = s - 1

SemPost(s) == s' = s + 1
=============================================================================
