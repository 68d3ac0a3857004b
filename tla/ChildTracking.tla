--------------------------- MODULE ChildTracking ---------------------------
(***************************************************************************)
(* How the parent of the concurrent server keeps track of its children     *)
(* (bank_concurrent/bank_server_concurrent.c): child_count and the array   *)
(* child_pids[], which the accept loop and two signal handlers share.      *)
(*                                                                         *)
(* There is one thread.  A handler runs on top of what it interrupts, and  *)
(* nothing below it moves until it returns: stack holds the handlers under *)
(* way.  child_handler (SIGCHLD, from sigaction) may interrupt the loop or *)
(* a shutdown; shutdown_server (SIGINT, SIGTERM) the loop or child_handler,*)
(* and it never returns.  child_count is a plain int: the loop increments  *)
(* it by a read and a store.                                               *)
(*                                                                         *)
(* A second SIGINT or SIGTERM and a fork that fails are left out.          *)
(***************************************************************************)
EXTENDS Integers, Sequences, FiniteSets

CONSTANTS
    Pids,        \* process ids, used again once a child is reaped
    NoPid,       \* what memory holds that nothing was written to
    FIRST_SIZE,  \* child_array_size after the first malloc (10 in the code)
    MaxForks     \* bound: clients that connect

ASSUME TrackingAssumption ==
    IsFiniteSet(Pids) /\ NoPid \notin Pids /\ FIRST_SIZE \in Nat \ {0} /\ MaxForks \in Nat

VARIABLES
    child,       \* each pid: "none", "running" or "zombie"
    pending,     \* SIGCHLD is pending; it is not queued
    child_count, child_array_size,
    child_pids,  \* the array: what realloc returned last
    block,       \* child_pids points to it ("whole"), to the block realloc
                 \* has just freed ("moved"), or is NULL ("null")
    smashed,     \* something was written outside the array or in freed memory
    pc, job, reg,  \* the accept loop: next step, pid, value it has read
    stack,       \* the handlers under way, the running one first
    step, dead,  \* child_handler: next step, the pid it has reaped
    exit,        \* shutdown_server: next step
    status,      \* "up", or how the process ended
    forks,
    calm         \* history: child_handler only ever ran between two clients
                 \* and every realloc worked

array == <<child_count, child_array_size, child_pids, block, smashed>>
loop  == <<pc, job, reg>>
vars  == <<child, pending, array, loop, stack, step, dead, exit, status, forks, calm>>

Unreaped == {p \in Pids : child[p] # "none"}

Top == IF stack = << >> THEN "loop" ELSE Head(stack)

Runs(what) == status = "up" /\ Top = what

NoChild == [p \in Pids |-> "none"]

FirstArray == [i \in 0 .. FIRST_SIZE - 1 |-> NoPid]

Init ==
    /\ child = NoChild /\ pending = FALSE /\ forks = 0
    /\ child_count = 0 /\ child_array_size = FIRST_SIZE
    /\ child_pids = FirstArray /\ block = "whole" /\ smashed = FALSE
    /\ pc = "accept" /\ job = NoPid /\ reg = 0
    /\ stack = << >> /\ step = "wait" /\ dead = NoPid /\ exit = "free"
    /\ status = "up"
    /\ calm = TRUE

\* The process ends, and with it all that the other variables describe.
Ends(how) ==
    /\ status' = how
    /\ child' = NoChild /\ pending' = FALSE /\ forks' = 0
    /\ child_count' = 0 /\ child_array_size' = FIRST_SIZE
    /\ child_pids' = FirstArray /\ block' = "whole" /\ smashed' = FALSE
    /\ pc' = "accept" /\ job' = NoPid /\ reg' = 0
    /\ stack' = << >> /\ step' = "wait" /\ dead' = NoPid /\ exit' = "free"
    /\ calm' = TRUE

-----------------------------------------------------------------------------
(* The parent's part of run_server, with track_child_process.              *)

InLoop(from, to) ==
    /\ Runs("loop")
    /\ pc = from /\ pc' = to
    /\ UNCHANGED <<pending, stack, step, dead, exit, status>>

Fork(p) ==
    /\ InLoop("accept", "read")
    /\ child[p] = "none" /\ forks < MaxForks
    /\ forks' = forks + 1
    /\ child' = [child EXCEPT ![p] = "running"]
    /\ job' = p
    /\ UNCHANGED <<array, reg, calm>>

\* A step on the way back to accept(), where the locals no longer matter.
Turn(from, to) ==
    /\ InLoop(from, to)
    /\ job' = IF to = "accept" THEN NoPid ELSE job
    /\ UNCHANGED <<child, forks>>

\* child_count++
Read ==
    /\ Turn("read", "store")
    /\ reg' = child_count
    /\ UNCHANGED <<array, calm>>

Store ==
    /\ Turn("store", "check")
    /\ child_count' = reg + 1
    /\ reg' = 0
    /\ UNCHANGED <<child_array_size, child_pids, block, smashed, calm>>

Check ==
    /\ Turn("check", IF child_count >= child_array_size THEN "grow" ELSE "index")
    /\ UNCHANGED <<array, reg, calm>>

\* realloc, which may extend the block where it is or move it.
Grow ==
    /\ Turn("grow", "adopt")
    /\ child_pids' = [i \in 0 .. 2 * child_array_size - 1 |->
                         IF i \in DOMAIN child_pids THEN child_pids[i] ELSE NoPid]
    /\ block' \in {"whole", "moved"}
    /\ UNCHANGED <<child_count, child_array_size, smashed, reg, calm>>

GrowFailsUncounted ==    \* mutant: a child that is not tracked is not counted
    /\ Turn("grow", "accept")
    /\ child_count' = child_count - 1
    /\ calm' = FALSE
    /\ UNCHANGED <<child_array_size, child_pids, block, smashed, reg>>

\* The child stays counted and is not tracked.
GrowFails ==
    /\ Turn("grow", "accept")
    /\ calm' = FALSE
    /\ UNCHANGED <<array, reg>>

AdoptForgets ==          \* mutant: child_array_size is not updated
    /\ Turn("adopt", "index")
    /\ block' = "whole"
    /\ UNCHANGED <<child_count, child_array_size, child_pids, smashed, reg, calm>>

\* child_pids = new_array; child_array_size = new_size
Adopt ==
    /\ Turn("adopt", "index")
    /\ block' = "whole"
    /\ child_array_size' = 2 * child_array_size
    /\ UNCHANGED <<child_count, child_pids, smashed, reg, calm>>

\* child_pids[child_count - 1] = pid
Index ==
    /\ Turn("index", "track")
    /\ reg' = child_count - 1
    /\ UNCHANGED <<array, calm>>

Track ==
    /\ Turn("track", "accept")
    /\ IF reg \in DOMAIN child_pids
       THEN child_pids' = [child_pids EXCEPT ![reg] = job] /\ UNCHANGED smashed
       ELSE smashed' = TRUE /\ UNCHANGED child_pids
    /\ reg' = 0
    /\ UNCHANGED <<child_count, child_array_size, block, calm>>

\* realloc notices what was written before the array, or in freed memory.
GrowAborts ==
    /\ Runs("loop") /\ pc = "grow" /\ smashed
    /\ Ends("crashed")

-----------------------------------------------------------------------------
(* The children and their SIGCHLD.                                         *)

ChildEnds(p) ==
    /\ status = "up"
    /\ child[p] = "running"
    /\ child' = [child EXCEPT ![p] = "zombie"]
    /\ pending' = TRUE
    /\ UNCHANGED <<array, loop, stack, step, dead, exit, status, forks, calm>>

Underway(handler) == \E i \in 1 .. Len(stack) : stack[i] = handler

MayDeliver == status = "up" /\ pending /\ ~Underway("chld")

Deliver ==
    /\ MayDeliver
    /\ pending' = FALSE
    /\ stack' = <<"chld">> \o stack
    /\ step' = "wait"
    /\ calm' = (calm /\ pc = "accept")
    /\ UNCHANGED <<child, array, loop, dead, exit, status, forks>>

InHandler(from, to) ==
    /\ Runs("chld")
    /\ step = from /\ step' = to
    /\ UNCHANGED <<pending, child_array_size, block, loop, exit, status, forks, calm>>

\* waitpid(-1, ..., WNOHANG)
Wait(p) ==
    /\ InHandler("wait", "untrack")
    /\ child[p] = "zombie"
    /\ child' = [child EXCEPT ![p] = "none"]
    /\ dead' = p
    /\ UNCHANGED <<child_count, child_pids, smashed, stack>>

Return ==
    /\ InHandler("wait", "wait")
    /\ \A p \in Pids : child[p] # "zombie"
    /\ stack' = Tail(stack)
    /\ dead' = NoPid
    /\ UNCHANGED <<child, child_count, child_pids, smashed>>

Tracked(i) == i \in DOMAIN child_pids /\ child_pids[i] = dead

First(i) == Tracked(i) /\ \A k \in 0 .. i - 1 : ~Tracked(k)

At(i) == IF i \in DOMAIN child_pids THEN child_pids[i] ELSE NoPid

ShiftedShort(i) ==       \* mutant: the last entry is not moved
    [k \in DOMAIN child_pids |->
        IF i <= k /\ k < child_count - 2 THEN At(k + 1) ELSE child_pids[k]]

\* The entries after the i-th, one place down.
Shifted(i) ==
    [k \in DOMAIN child_pids |->
        IF i <= k /\ k < child_count - 1 THEN At(k + 1) ELSE child_pids[k]]

Present == block = "whole" /\ \E i \in 0 .. child_count - 1 : First(i)

\* untrack_child_process.  In a block that was freed a moment ago it may or may
\* not find the pid, and if it does, shifts there: the new block stays as it
\* is, the allocator's memory may not.  Through NULL it crashes.
Untrack ==
    /\ InHandler("untrack", "decrement")
    /\ block = "null" => child_count <= 0
    /\ \/ \E i \in 0 .. child_count - 1 :
              /\ block = "whole" /\ First(i)
              /\ child_pids' = Shifted(i)
              /\ smashed' = (smashed \/ child_count - 1 > Cardinality(DOMAIN child_pids))
       \/ ~Present /\ UNCHANGED <<child_pids, smashed>>
       \/ block = "moved" /\ child_count > 1 /\ smashed' = TRUE /\ UNCHANGED child_pids
    /\ UNCHANGED <<child, child_count, stack, dead>>

UntrackCrashes ==
    /\ Runs("chld") /\ step = "untrack"
    /\ block = "null" /\ child_count > 0
    /\ Ends("crashed")

DecrementOnce ==         \* mutant: if, not while
    /\ InHandler("decrement", "wait")
    /\ child_count' = child_count - 1
    /\ stack' = Tail(stack)
    /\ UNCHANGED <<child, child_pids, smashed, dead>>

\* child_count--, and the next turn of the while loop.
Decrement ==
    /\ InHandler("decrement", "wait")
    /\ child_count' = child_count - 1
    /\ UNCHANGED <<child, child_pids, smashed, stack, dead>>

-----------------------------------------------------------------------------
(* SIGINT or SIGTERM: shutdown_server.                                     *)

MayTerminate == status = "up" /\ ~Underway("term")

Terminate ==
    /\ MayTerminate
    /\ stack' = <<"term">> \o stack
    /\ UNCHANGED <<child, pending, array, loop, step, dead, exit, status, forks, calm>>

\* free(child_pids)
FreeArray ==
    /\ Runs("term") /\ exit = "free"
    /\ exit' = "save"
    /\ block' = "null"
    /\ UNCHANGED <<child, pending, child_count, child_array_size, child_pids, smashed,
                   loop, stack, step, dead, status, forks, calm>>

\* free notices such a write, or that realloc has already freed the block.
FreeAborts ==
    /\ Runs("term") /\ exit = "free"
    /\ smashed \/ block = "moved"
    /\ Ends("crashed")

\* save_data, which sleeps a second before it opens the file, and exit.
SaveAndExit ==
    /\ Runs("term") /\ exit = "save"
    /\ Ends("saved")

-----------------------------------------------------------------------------
(* A handler that is not async-signal-safe.                                *)

\* log_message holds a lock in localtime: a handler that interrupts it there
\* waits, in a log_message of its own, for what it has interrupted.
Hang ==
    /\ MayDeliver \/ MayTerminate
    /\ Ends("hung")

-----------------------------------------------------------------------------

Loop ==
    \/ \E p \in Pids : Fork(p)
    \/ Read \/ Store \/ Check \/ Grow \/ GrowFails \/ GrowAborts
    \/ Adopt \/ Index \/ Track

Handler == (\E p \in Pids : Wait(p)) \/ Return \/ Untrack \/ UntrackCrashes \/ Decrement

Shutdown == FreeArray \/ FreeAborts \/ SaveAndExit

Next ==
    \/ Loop \/ Handler \/ Shutdown
    \/ \E p \in Pids : ChildEnds(p)
    \/ Deliver \/ Terminate \/ Hang

\* The kernel delivers a pending signal, and a handler that runs goes on.
\* Nothing is assumed of clients, children or the operator.
Fairness == WF_vars(Deliver) /\ WF_vars(Handler) /\ WF_vars(Shutdown)

Spec == Init /\ [][Next]_vars /\ Fairness

-----------------------------------------------------------------------------
(* Properties.                                                             *)

\* Also: child_array_size is the size of the block whenever it is read.
TypeOK ==
    /\ child \in [Pids -> {"none", "running", "zombie"}]
    /\ child_count \in Int /\ child_array_size \in Nat \ {0}
    /\ LET size == IF pc = "adopt" THEN 2 * child_array_size ELSE child_array_size
       IN  child_pids \in [0 .. size - 1 -> Pids \cup {NoPid}]
    /\ stack \in {<< >>, <<"chld">>, <<"term">>, <<"chld", "term">>, <<"term", "chld">>}
    /\ status \in {"up", "saved", "crashed", "hung"}

AtRest == status = "up" /\ stack = << >> /\ pc = "accept"

\* Wherever the handler cuts in on child_count++, a count may stay too high
\* for good but never counts fewer children than there are to reap.
NeverUndercounted == AtRest => child_count >= Cardinality(Unreaped)

\* While SIGCHLD has only ever come between two clients, the first
\* child_count entries are the children not yet reaped, each once, through
\* every shift of the array and every growth, and nothing is written outside.
CalmTracks ==
    AtRest /\ calm =>
        /\ ~smashed
        /\ child_count = Cardinality(Unreaped)
        /\ {child_pids[i] : i \in 0 .. child_count - 1} = Unreaped

\* A child that has ended is reaped ("Reap all zombie child processes"), also
\* one whose SIGCHLD came together with another's, unless the server ends.
ZombiesReaped ==
    \A p \in Pids : child[p] = "zombie" ~> child[p] = "none" \/ status # "up"

\* "Save data before exiting" (bank_server_concurrent.c:111): a shutdown that
\* has begun does not crash instead.
ShutdownSaves == [][status' = "crashed" => ~Underway("term")]_vars

=============================================================================
