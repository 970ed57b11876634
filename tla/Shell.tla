-------------------------------- MODULE Shell --------------------------------
(***************************************************************************)
(* Assignment-01-shell/2021MT10904_shell.c: the prompt loop, commands and  *)
(* pipelines with their processes and pipes, the history's capacity and    *)
(* cd. The shell and the children run concurrently; a line is abstracted   *)
(* to what it makes the shell do, a line that says cd to its argument.     *)
(***************************************************************************)
EXTENDS Integers, SequencesExt

CONSTANTS Dirs, HOME,         \* where cd may lead
          INITIAL_CAPACITY,   \* of the history, 10 in the program
          PipeSize,           \* what fits into a pipe before its writer blocks
          MaxWrites,          \* what the left side of a pipeline writes, at most
          MaxLines,           \* lines typed, at most
          MaxFailures         \* failures of fork and pipe, at most

ASSUME ShellAssumption ==
    /\ HOME \in Dirs /\ "" \notin Dirs
    /\ Dirs \cap {"-", "nothing", "command", "pipeline", "exit"} = {}
    /\ {INITIAL_CAPACITY, PipeSize} \subseteq Nat \ {0}
    /\ {MaxWrites, MaxLines, MaxFailures} \subseteq Nat

VARIABLES pc, line, p1, p2,                  \* of the shell
          history_count, history_capacity,
          cwd, prev_dir, trail,              \* trail: directories it has been in
          state, role, pipeOf, todo,         \* of the children
          fds,                               \* ends of pipes that are open, by process
          content,                           \* what is in each pipe
          failures                           \* system calls that failed, by kind

historyVars == <<history_count, history_capacity>>
dirVars == <<cwd, prev_dir, trail>>
childVars == <<state, role, pipeOf, todo>>
vars == <<pc, line, p1, p2, historyVars, dirVars, childVars, fds, content, failures>>

Children == 1 .. 2 * MaxLines
Pipes == 1 .. MaxLines
SHELL == 0

(* "nothing": a blank line, half a pipeline, history or pwd.               *)
Lines == {"nothing", "command", "pipeline", "exit", "-"} \cup Dirs

Init == /\ pc = "prompt" /\ line = "nothing" /\ p1 = SHELL /\ p2 = SHELL
        /\ history_count = 0 /\ history_capacity = INITIAL_CAPACITY
        /\ cwd = HOME /\ prev_dir = "" /\ trail = <<HOME>>
        /\ state = [p \in Children |-> "none"] /\ role = [p \in Children |-> "none"]
        /\ pipeOf = [p \in Children |-> 0] /\ todo = [p \in Children |-> 0]
        /\ fds = [p \in {SHELL} \cup Children |-> {}] /\ content = [n \in Pipes |-> 0]
        /\ failures = [k \in {"command", "pipe", "first", "second"} |-> 0]

Goto(from, to) == pc = from /\ pc' = to

Ends(n) == {<<n, "read">>, <<n, "write">>}

-----------------------------------------------------------------------------
(* The capacity is doubled before a line is stored that does not fit.      *)
add_to_history == /\ history_count' = history_count + 1
                  /\ history_capacity' = IF history_count = history_capacity
                                         THEN 2 * history_capacity ELSE history_capacity

read_command == /\ Goto("prompt", "perform") /\ history_count < MaxLines
                /\ line' \in Lines /\ add_to_history
                /\ UNCHANGED <<p1, p2, dirVars, childVars, fds, content, failures>>

(* At the end of the input the shell prompts again and again, unless no    *)
(* line has set status yet and it happens to be 0.                         *)
EndOfInput == /\ pc = "prompt"
              /\ pc' \in {"eof"} \cup (IF history_count = 0 THEN {"ended"} ELSE {})
              /\ UNCHANGED <<line, p1, p2, historyVars, dirVars, childVars, fds, content, failures>>

Builtin == /\ \/ line = "nothing" /\ Goto("perform", "prompt")
              \/ line = "exit" /\ Goto("perform", "ended")
           /\ UNCHANGED <<line, p1, p2, historyVars, dirVars, childVars, fds, content, failures>>

Moves_RememberFirst(path) ==
    /\ prev_dir' = cwd
    /\ \/ cwd' = path /\ trail' = Append(trail, path)
       \/ UNCHANGED <<cwd, trail>>

(* getcwd and chdir may fail; prev_dir is set after both have not.         *)
Moves(path) == \/ cwd' = path /\ prev_dir' = cwd /\ trail' = Append(trail, path)
               \/ UNCHANGED dirVars

Target == IF line # "-" THEN line ELSE IF prev_dir = "" THEN HOME ELSE prev_dir

shell_cd == /\ Goto("perform", "prompt") /\ line \in Dirs \cup {"-"} /\ Moves(Target)
            /\ UNCHANGED <<line, p1, p2, historyVars, childVars, fds, content, failures>>

-----------------------------------------------------------------------------
Fails(call) == /\ \A k \in DOMAIN failures : failures[k] < MaxFailures
               /\ failures' = [failures EXCEPT ![call] = @ + 1]

(* fork: the child has every end of a pipe the shell has.                  *)
Fork(p, r, n) == /\ state[p] = "none" /\ \A q \in Children : q < p => state[q] # "none"
                 /\ state' = [state EXCEPT ![p] = "new"] /\ role' = [role EXCEPT ![p] = r]
                 /\ pipeOf' = [pipeOf EXCEPT ![p] = n]
                 /\ todo' \in {[todo EXCEPT ![p] = w] : w \in IF r = "left" THEN 0 .. MaxWrites ELSE {0}}
                 /\ fds' = [fds EXCEPT ![p] = fds[SHELL]]

Reap(p) == state[p] = "zombie" /\ state' = [state EXCEPT ![p] = "reaped"]

ForkCommand ==
    /\ line = "command"
    /\ \/ /\ Goto("perform", "wait any") /\ p1' \in Children /\ Fork(p1', "alone", 0)
          /\ UNCHANGED failures
       \/ Goto("perform", "prompt") /\ Fails("command") /\ UNCHANGED <<p1, childVars, fds>>
    /\ UNCHANGED <<line, p2, historyVars, dirVars, content>>

(* wait(NULL) returns with any child that has ended.                       *)
WaitAny == /\ Goto("wait any", "prompt") /\ \E p \in Children : Reap(p)
           /\ UNCHANGED <<line, p1, p2, historyVars, dirVars, role, pipeOf, todo, fds, content, failures>>

(* The pipe a line makes has the number of the line.                       *)
Pipe == history_count

MakePipe == /\ line = "pipeline"
            /\ \/ /\ Goto("perform", "fork first") /\ UNCHANGED failures
                  /\ fds' = [fds EXCEPT ![SHELL] = @ \cup Ends(Pipe)]
               \/ Goto("perform", "prompt") /\ Fails("pipe") /\ UNCHANGED fds
            /\ UNCHANGED <<line, p1, p2, historyVars, dirVars, childVars, content>>

(* When fork fails the shell returns with both ends of the pipe open.      *)
ForkFirst ==
    /\ \/ /\ Goto("fork first", "fork second") /\ p1' \in Children /\ Fork(p1', "left", Pipe)
          /\ UNCHANGED failures
       \/ Goto("fork first", "prompt") /\ Fails("first") /\ UNCHANGED <<p1, childVars, fds>>
    /\ UNCHANGED <<line, p2, historyVars, dirVars, content>>

(* Here it returns with a child as well that nobody waits for.             *)
ForkSecond ==
    /\ \/ /\ Goto("fork second", "close") /\ p2' \in Children /\ Fork(p2', "right", Pipe)
          /\ UNCHANGED failures
       \/ Goto("fork second", "prompt") /\ Fails("second") /\ UNCHANGED <<p2, childVars, fds>>
    /\ UNCHANGED <<line, p1, historyVars, dirVars, content>>

CloseEnds_ReadOnly ==
    /\ Goto("close", "wait first") /\ fds' = [fds EXCEPT ![SHELL] = @ \ {<<Pipe, "read">>}]
    /\ UNCHANGED <<line, p1, p2, historyVars, dirVars, childVars, content, failures>>

CloseEnds == /\ Goto("close", "wait first") /\ fds' = [fds EXCEPT ![SHELL] = @ \ Ends(Pipe)]
             /\ UNCHANGED <<line, p1, p2, historyVars, dirVars, childVars, content, failures>>

WaitBoth_FirstOnly ==
    /\ Goto("wait first", "prompt") /\ Reap(p1)
    /\ UNCHANGED <<line, p1, p2, historyVars, dirVars, role, pipeOf, todo, fds, content, failures>>

WaitBoth_AnyChild ==
    /\ Goto("wait first", "wait second") \/ Goto("wait second", "prompt")
    /\ \E p \in Children : Reap(p)
    /\ UNCHANGED <<line, p1, p2, historyVars, dirVars, role, pipeOf, todo, fds, content, failures>>

WaitBoth == /\ \/ Goto("wait first", "wait second") /\ Reap(p1)
               \/ Goto("wait second", "prompt") /\ Reap(p2)
            /\ UNCHANGED <<line, p1, p2, historyVars, dirVars, role, pipeOf, todo, fds, content, failures>>

ShellStep == \/ Builtin \/ shell_cd \/ ForkCommand \/ WaitAny \/ MakePipe
             \/ ForkFirst \/ ForkSecond \/ CloseEnds \/ WaitBoth

-----------------------------------------------------------------------------
(* The end of its pipe a child closes before it runs its command.          *)
Unneeded(p) == CASE role[p] = "alone" -> {}
                 [] role[p] = "left"  -> {<<pipeOf[p], "read">>}
                 [] role[p] = "right" -> {<<pipeOf[p], "write">>}

SetUp(p) == /\ state[p] = "new" /\ state' = [state EXCEPT ![p] = "running"]
            /\ fds' = [fds EXCEPT ![p] = @ \ Unneeded(p)]
            /\ UNCHANGED <<role, pipeOf, todo, content>>

Open(end) == \E q \in DOMAIN fds : end \in fds[q]

(* A write into a pipe blocks while it is full, and kills the writer when  *)
(* nobody can read it any more.                                            *)
Write(p) == /\ state[p] = "running" /\ todo[p] > 0 /\ Open(<<pipeOf[p], "read">>)
            /\ content[pipeOf[p]] < PipeSize
            /\ content' = [content EXCEPT ![pipeOf[p]] = @ + 1]
            /\ todo' = [todo EXCEPT ![p] = @ - 1] /\ UNCHANGED <<state, role, pipeOf, fds>>

Read(p) == /\ state[p] = "running" /\ role[p] = "right" /\ content[pipeOf[p]] > 0
           /\ content' = [content EXCEPT ![pipeOf[p]] = @ - 1]
           /\ UNCHANGED <<childVars, fds>>

(* A process ends, and its ends of pipes are closed.                       *)
Exit(p) == /\ state[p] = "running" /\ state' = [state EXCEPT ![p] = "zombie"]
           /\ fds' = [fds EXCEPT ![p] = {}]
           /\ UNCHANGED <<role, pipeOf, todo, content>>

(* What makes a command end, each in its place: its work is done, SIGPIPE, *)
(* the end of the input.                                                   *)
Done(p) == CASE role[p] = "alone" -> TRUE
             [] role[p] = "left"  -> todo[p] = 0 \/ ~Open(<<pipeOf[p], "read">>)
             [] role[p] = "right" -> content[pipeOf[p]] = 0 /\ ~Open(<<pipeOf[p], "write">>)
             [] OTHER -> FALSE

ChildStep(p) == /\ SetUp(p) \/ Write(p) \/ Read(p) \/ (Done(p) /\ Exit(p))
                /\ UNCHANGED <<pc, line, p1, p2, historyVars, dirVars, failures>>

(* A reader may leave before the end of its input, as head does.           *)
LeaveEarly(p) == /\ role[p] = "right" /\ Exit(p)
                 /\ UNCHANGED <<pc, line, p1, p2, historyVars, dirVars, failures>>

Next == \/ read_command \/ EndOfInput \/ ShellStep
        \/ \E p \in Children : ChildStep(p) \/ LeaveEarly(p)
        \/ pc \in {"prompt", "eof", "ended"} /\ UNCHANGED vars

(* The kernel lets every process run that can; commands end when there is  *)
(* nothing left for them to do; nobody has to type anything.               *)
Spec == Init /\ [][Next]_vars /\ WF_vars(ShellStep)
        /\ \A p \in Children : WF_vars(ChildStep(p))
-----------------------------------------------------------------------------
TypeOK ==
    /\ pc \in {"prompt", "perform", "wait any", "fork first", "fork second", "close",
               "wait first", "wait second", "eof", "ended"}
    /\ line \in Lines /\ p1 \in {SHELL} \cup Children /\ p2 \in {SHELL} \cup Children
    /\ history_count \in 0 .. MaxLines /\ history_capacity \in Nat
    /\ cwd \in Dirs /\ prev_dir \in Dirs \cup {""}
    /\ state \in [Children -> {"none", "new", "running", "zombie", "reaped"}]
    /\ fds \in [{SHELL} \cup Children -> SUBSET UNION {Ends(n) : n \in Pipes}]
    /\ content \in [Pipes -> 0 .. PipeSize] /\ todo \in [Children -> 0 .. MaxWrites]

(* A line is never stored behind the end of the history, however many are  *)
(* typed, and the array is never more than twice as large as needed.       *)
HistoryFits == /\ history_count <= history_capacity
               /\ history_capacity <= INITIAL_CAPACITY \/ history_capacity < 2 * history_count

(* cd - leads to where the last successful cd came from, whichever fail.   *)
PrevIsPrevious == /\ cwd = Last(trail)
                  /\ prev_dir = IF Len(trail) = 1 THEN "" ELSE trail[Len(trail) - 1]

(* What the shell remembers of earlier lines is right: its history is in   *)
(* its array, and cd - goes where it should.                               *)
Inv == TypeOK /\ HistoryFits /\ PrevIsPrevious

Unreaped == {p \in Children : state[p] \in {"new", "running", "zombie"}}

(* When the shell prompts it has paid for everything it started: children  *)
(* that have not been waited for, and open ends of pipes, come from failed *)
(* forks of pipelines and from nothing else, one child for each failed     *)
(* second fork. wait(NULL) may pay with another child than its own, but it *)
(* pays once.                                                              *)
Balanced == pc = "prompt" =>
    /\ Cardinality(Unreaped) = failures["second"]
    /\ Cardinality(fds[SHELL]) = 2 * (failures["first"] + failures["second"])

Commands == {p \in Children : role[p] = "alone"}

(* Left sides of pipelines that have no right side.                        *)
Orphans == {p \in Children : role[p] = "left" /\ \A q \in Children :
                               role[q] = "right" => pipeOf[q] # pipeOf[p]}

(* The shell prompts too early only because of an orphan. A pipeline that  *)
(* got both its processes has been waited for, whichever orphan ended in   *)
(* the meantime; and there are as many commands that have not been waited  *)
(* for as wait(NULL) has returned with orphans instead, so that none is    *)
(* left when no second fork has failed.                                    *)
EarlyOnlyForOrphans == pc = "prompt" =>
    /\ Unreaped \subseteq Commands \cup Orphans
    /\ Cardinality(Unreaped \cap Commands) = Cardinality(Orphans \ Unreaped)

(* After every line the shell prompts again or ends: no process of a       *)
(* pipeline waits for ever for another one, or for the shell.              *)
PromptReturns == pc = "perform" ~> pc \in {"prompt", "eof", "ended"}
=============================================================================
