--------------------------- MODULE ConcurrentBank ---------------------------
(***************************************************************************)
(* The concurrent server: a parent that accepts and forks a child for each *)
(* client (bank_concurrent/bank_server_concurrent.c).  Every process has   *)
(* its own copy of the account table, taken at the fork, and of rand()'s   *)
(* state; all of them save the whole of their copy to the one file, without *)
(* a lock.  The parent loads the file when it starts and never again.      *)
(*                                                                         *)
(* An operation on the table is one step, a save two: fopen empties the    *)
(* file, fclose writes what the stream has buffered.  A handler that cuts  *)
(* in between saves through a stream of its own; exit then writes what the *)
(* first one had buffered, over whatever the file holds by that time.      *)
(* A child may outlive its parent, and see another parent start.  The      *)
(* races of the SIGCHLD handler with the accept loop are left out: reaping *)
(* a child is one step.                                                    *)
(***************************************************************************)
EXTENDS BankPersistence, FiniteSets

CONSTANTS
    Children,    \* processes that can be forked (an id is used again)
    Amounts,     \* amounts asked for
    MaxRequests, \* bound: operations of one child
    MaxForks,    \* bound: clients that connect
    MaxBoots     \* bound: times the server is started again

ASSUME ConcurrentAssumption ==
    /\ Amounts \subseteq CInt
    /\ MaxRequests \in Nat /\ MaxForks \in Nat /\ MaxBoots \in Nat
    /\ {"parent", "nobody"} \cap Children = {}

Parent == "parent"
Procs  == Children \cup {Parent}
Nobody == "nobody"

VARIABLES
    pc,          \* what each process does next
    heap,        \* each process's bank[], accounts_in_use, next_number
    child_count, \* each process's child_count
    file,        \* bank.json, as far as load_data reads it
    garbled,     \* bank.json is none of these: it mixes the tables of two
                 \* processes, or ends in its header
    begun,       \* processes with an open stream, of the save that was
                 \* interrupted by their handler
    rand,        \* for each server start, the PINs its srand() makes rand()
                 \* yield, as far as some process has drawn them
    drawn,       \* how many of them each child has drawn
    served,      \* how many operations each child has done
    forks, boots,
    born,        \* history: the server start each child belongs to
    base,        \* history: accounts the running server had loaded
    quiet,       \* history: the last server was shut down after all children
    last         \* history: the child whose save came last, if no process has
                 \* opened or written to the file since

disk == <<file, garbled, last>>
vars == <<pc, heap, child_count, disk, begun, rand, forks, boots,
          drawn, served, born, base, quiet>>

Serving == {"recv", "truncate", "write", "send"}
Exiting == {"exit_truncate", "exit_write", "exit"}

\* zombie: ended, not yet reaped
Gone == {"down", "zombie"}

Init ==
    /\ pc = [p \in Procs |-> IF p = Parent THEN "accept" ELSE "down"]
    /\ heap = [p \in Procs |-> FreshHeap]
    /\ child_count = [p \in Procs |-> 0]
    /\ file = NoFile /\ garbled = FALSE /\ begun = {}
    /\ rand = [b \in 0 .. MaxBoots |-> << >>]
    /\ forks = 0 /\ boots = 0
    /\ drawn = [c \in Children |-> 0]
    /\ served = [c \in Children |-> 0]
    /\ born = [c \in Children |-> 0]
    /\ base = {}
    /\ quiet = FALSE
    /\ last = Nobody

Goto(p, l) == pc' = [pc EXCEPT ![p] = l]

-----------------------------------------------------------------------------
(* The accept loop.                                                        *)

\* fork() after accept(): the child starts from the parent's memory.
Fork(c) ==
    /\ pc[Parent] = "accept" /\ pc[c] = "down"
    /\ forks < MaxForks
    /\ forks' = forks + 1
    /\ Goto(c, "recv")
    /\ heap' = [heap EXCEPT ![c] = heap[Parent]]
    /\ child_count' = [child_count EXCEPT ![c] = child_count[Parent],
                                          ![Parent] = @ + 1]
    /\ drawn' = [drawn EXCEPT ![c] = 0]
    /\ served' = [served EXCEPT ![c] = 0]
    /\ born' = [born EXCEPT ![c] = boots]
    /\ last' = IF last = c THEN Nobody ELSE last
    /\ UNCHANGED <<file, garbled, begun, rand, boots, base, quiet>>

ReapCounted(c) ==        \* mutant: children of an earlier server are counted too
    /\ pc[c] = "zombie"
    /\ Goto(c, "down")
    /\ child_count' = [child_count EXCEPT ![Parent] = @ - 1, ![c] = 0]
    /\ drawn' = [drawn EXCEPT ![c] = 0]
    /\ served' = [served EXCEPT ![c] = 0]
    /\ born' = [born EXCEPT ![c] = 0]
    /\ UNCHANGED <<heap, disk, begun, rand, forks, boots, base, quiet>>

\* child_handler; init reaps the children of a parent that is gone.
Reap(c) ==
    /\ pc[c] = "zombie"
    /\ Goto(c, "down")
    /\ child_count' = IF pc[Parent] # "down" /\ born[c] = boots
                      THEN [child_count EXCEPT ![Parent] = @ - 1, ![c] = 0]
                      ELSE [child_count EXCEPT ![c] = 0]
    /\ drawn' = [drawn EXCEPT ![c] = 0]
    /\ served' = [served EXCEPT ![c] = 0]
    /\ born' = [born EXCEPT ![c] = 0]
    /\ UNCHANGED <<heap, disk, begun, rand, forks, boots, base, quiet>>

-----------------------------------------------------------------------------
(* A child's handle_client.  Requests that are refused or only read change *)
(* nothing and are not shown.                                              *)

\* The operation is done on the child's own table and about to be saved.
Operate(c, h) ==
    /\ pc[c] = "recv"
    /\ served[c] < MaxRequests
    /\ served' = [served EXCEPT ![c] = @ + 1]
    /\ Goto(c, "truncate")
    /\ heap' = [heap EXCEPT ![c] = h]
    /\ UNCHANGED <<child_count, disk, begun, forks, boots, born, base, quiet>>

Draw(c, pin) ==
    LET k == drawn[c] + 1
        s == rand[born[c]]
    IN  /\ k <= Len(s) => pin = s[k]
        /\ rand' = IF k <= Len(s) THEN rand ELSE [rand EXCEPT ![born[c]] = Append(s, pin)]
        /\ drawn' = [drawn EXCEPT ![c] = k]

OpenReseeded(c) ==       \* mutant: the child calls srand() for itself
    /\ OpenStatus(heap[c]) = "OK"
    /\ \E name \in Names, pin \in Pins : Operate(c, Opened(heap[c], name, pin))
    /\ drawn' = [drawn EXCEPT ![c] = @ + 1]
    /\ UNCHANGED rand

\* The parent never calls rand(): every child draws the same PINs.
Open(c) ==
    /\ OpenStatus(heap[c]) = "OK"
    /\ \E name \in Names, pin \in Pins :
           /\ Draw(c, pin)
           /\ Operate(c, Opened(heap[c], name, pin))

Close(c, no, pin) ==
    /\ AuthStatus(heap[c], no, pin) = "OK"
    /\ Operate(c, Closed(heap[c], Found(heap[c], no, pin)))
    /\ UNCHANGED <<rand, drawn>>

Deposit(c, no, pin, amt) ==
    LET i == Found(heap[c], no, pin)
    IN  /\ DepositStatus(heap[c], no, pin, amt) = "OK"
        /\ Operate(c, Deposited(heap[c], i, amt))
        /\ UNCHANGED <<rand, drawn>>

Withdraw(c, no, pin, amt) ==
    LET i == Found(heap[c], no, pin)
    IN  /\ WithdrawStatus(heap[c], no, pin, amt) = "OK"
        /\ Operate(c, Withdrawn(heap[c], i, amt))
        /\ UNCHANGED <<rand, drawn>>

Request(c) ==
    \/ Open(c)
    \/ \E i \in LiveSlots(heap[c]) :
           LET no == heap[c].bank[i].number  pin == heap[c].bank[i].pin
           IN  \/ Close(c, no, pin)
               \/ \E amt \in Amounts : Deposit(c, no, pin, amt) \/ Withdraw(c, no, pin, amt)

Send(c) ==
    /\ pc[c] = "send"
    /\ Goto(c, "recv")
    /\ UNCHANGED <<heap, child_count, disk, begun, rand, forks, boots,
                   drawn, served, born, base, quiet>>

Ends(p) ==
    /\ Goto(p, IF p = Parent THEN "down" ELSE "zombie")
    /\ heap' = [heap EXCEPT ![p] = FreshHeap]
    /\ begun' = begun \ {p}
    /\ UNCHANGED <<child_count, rand, forks, boots, drawn, served, born, base>>

\* QUIT, a client that went away, or a send that fails: the child exits.
Leave(c) ==
    /\ pc[c] \in {"recv", "send"}
    /\ Ends(c)
    /\ UNCHANGED <<disk, quiet>>

-----------------------------------------------------------------------------
(* save_data, in an operation or in the signal handler.                    *)

Truncate(p) ==
    /\ \/ pc[p] = "truncate" /\ Goto(p, "write")
       \/ pc[p] = "exit_truncate" /\ Goto(p, "exit_write")
    /\ file' = EmptyFile /\ garbled' = FALSE
    /\ last' = Nobody
    /\ UNCHANGED <<heap, child_count, begun, rand, forks, boots,
                   drawn, served, born, base, quiet>>

CloseFile(p, f) ==
    /\ \/ pc[p] = "write" /\ Goto(p, "send")
       \/ pc[p] = "exit_write" /\ Goto(p, "exit")
    /\ file' = f /\ garbled' = FALSE
    /\ last' = IF pc[p] = "write" THEN p ELSE Nobody
    /\ quiet' = (p = Parent /\ \A c \in Children : pc[c] \in Gone)
    /\ UNCHANGED <<heap, child_count, begun, rand, forks, boots, drawn, served, born, base>>

WriteOnce(p) ==          \* mutant: what another process has written is left
    CloseFile(p, IF file.kind = "empty" THEN Image(heap[p]) ELSE file)

\* The whole text goes to the start of the file.  What it does not cover of a
\* longer one stays behind it, where load_data does not get to.
Write(p) == CloseFile(p, Image(heap[p]))

-----------------------------------------------------------------------------
(* Signals.  Ctrl-C reaches every process of the group, kill one of them.  *)

\* shutdown_server, before its save: report_active_children first.  It may cut
\* in on a save that has opened its stream.
Signal(p) ==
    /\ pc[p] \in Serving \cup {"accept"}
    /\ p = Parent \/ child_count[p] = 0
    /\ Goto(p, "exit_truncate")
    /\ begun' = IF pc[p] = "write" THEN begun \cup {p} ELSE begun
    /\ UNCHANGED <<heap, child_count, disk, rand, forks, boots,
                   drawn, served, born, base, quiet>>

\* What exit writes of the interrupted save, which is any first part of the
\* process's text: all of it, or some of it to a file that is empty or over
\* the text of another process.
Leftover(p) ==
    /\ p \in begun
    /\ last' = Nobody
    /\ \/ file' = Image(heap[p]) /\ garbled' = FALSE
       \/ /\ file = EmptyFile /\ ~garbled
          /\ \E k \in 0 .. heap[p].accounts_in_use : file' = Cut(heap[p], k)
          /\ UNCHANGED garbled
       \/ file # Image(heap[p]) /\ garbled' = TRUE /\ UNCHANGED file

\* exit(0), which flushes the streams that are open.
Exit(p) ==
    /\ pc[p] = "exit"
    /\ UNCHANGED disk \/ Leftover(p)
    /\ UNCHANGED quiet
    /\ Ends(p)

\* A child freed child_pids and kept the count: it reads child_pids[0].
SignalCrashes(c) ==
    /\ pc[c] \in Serving
    /\ child_count[c] > 0
    /\ Ends(c)
    /\ UNCHANGED <<disk, quiet>>

Kill(p) ==
    /\ pc[p] \notin Gone
    /\ Ends(p)
    /\ quiet' = FALSE
    /\ UNCHANGED disk

\* main: srand, load_data, and the accept loop again.  What load_data makes of
\* a garbled file is not modelled: such starts are cut off.
Boot ==
    /\ pc[Parent] = "down"
    /\ boots < MaxBoots /\ ~garbled
    /\ boots' = boots + 1
    /\ Goto(Parent, "accept")
    /\ heap' = [heap EXCEPT ![Parent] = Loaded(file)]
    /\ child_count' = [child_count EXCEPT ![Parent] = 0]
    /\ base' = Fields(Loaded(file))
    /\ quiet' = FALSE
    /\ UNCHANGED <<disk, begun, rand, forks, drawn, served, born>>

Next ==
    \/ \E c \in Children :
           \/ Fork(c) \/ Reap(c) \/ Request(c) \/ Send(c) \/ Leave(c) \/ SignalCrashes(c)
    \/ \E p \in Procs : Truncate(p) \/ Write(p) \/ Signal(p) \/ Exit(p) \/ Kill(p)
    \/ Boot

Spec == Init /\ [][Next]_vars

-----------------------------------------------------------------------------
(* Properties.                                                             *)

TypeOK ==
    /\ pc \in [Procs -> Serving \cup Exiting \cup Gone \cup {"accept"}]
    /\ heap \in [Procs -> Heap]
    /\ child_count \in [Procs -> Nat]
    /\ file \in File /\ garbled \in BOOLEAN /\ begun \subseteq Procs
    /\ last \in Procs \cup {Nobody}

\* Clients of one server start get the same account numbers with the same
\* PINs: children that opened as many accounts are about to give the same
\* number, and a number they both have given has one PIN.
\* (bank_concurrent/bank.log shows 100002 given twice, with 3474 both times.)
Twins ==
    \A c, d \in Children :
        pc[c] \in Serving /\ pc[d] \in Serving /\ born[c] = born[d] =>
            /\ drawn[c] = drawn[d] => heap[c].next_number = heap[d].next_number
            /\ \A i \in LiveSlots(heap[c]), j \in LiveSlots(heap[d]) :
                   heap[c].bank[i].number = heap[d].bank[j].number =>
                       heap[c].bank[i].pin = heap[d].bank[j].pin

\* After its answer, a child's whole table is what load_data would read, until
\* another process opens the file, closes one that it had open, or exits with
\* the stream of an interrupted save, whatever saves they have going at once.
FileFollowsSaver ==
    \A c \in Children :
        pc[c] \in {"send", "recv"} /\ last = c => file = Image(heap[c]) /\ ~garbled

\* The shutdown of an otherwise idle server takes the bank back to what it
\* loaded: nothing that a client did since is left.
ShutdownTakesBack == [][Boot /\ quiet => Fields(heap'[Parent]) = base]_vars

\* "Please save your account number and PIN for future transactions": a
\* client that connects finds the accounts of which others had answers.
KnownLater ==
    [][\A c, d \in Children : Fork(c) /\ pc[d] = "recv" =>
           \A i \in LiveSlots(heap[d]) :
               AuthStatus(heap'[c], heap[d].bank[i].number, heap[d].bank[i].pin) = "OK"]_vars

=============================================================================
