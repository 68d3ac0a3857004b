----------------------------- MODULE AtomicBank -----------------------------
(***************************************************************************)
(* What the server promises of an operation, a save and a stop, without    *)
(* statements, slots or signals: the accounts change from one answer to    *)
(* the next by one whole operation, and a start finds them as some answer  *)
(* left them.  Accounts are rows <<number, pin, name, balance, ntran>>.    *)
(*                                                                         *)
(* Two things are not promised.  A save that fails or is cut short, and a  *)
(* stop in the middle of an operation, leave the disk in another state     *)
(* than "whole", and what a start makes of that is anything.  It may be a  *)
(* table whose numbers are not in order, on which the next operations are  *)
(* anything.                                                               *)
(***************************************************************************)
EXTENDS BankAccount, FiniteSets

CONSTANT Amounts   \* amounts asked for

VARIABLES
    accounts,   \* the rows as the last answer left them
    next,       \* the number the next account is to get
    asked,      \* the rows as the request being served is to leave them
    phase,      \* "starting", "idle", "busy" (serving a request), "closing" and
                \* "cutting" (shutting down, between operations or within), "down"
    disk,       \* the rows and the number a start would find
    save,       \* "whole", "failed" (the last save was not begun) or "torn"
    orderly     \* the table last loaded had its numbers in order

vars == <<accounts, next, asked, phase, disk, save, orderly>>

\* next once the request being served is answered.
NextAfter == IF \E r \in asked : r[1] >= next THEN next + 1 ELSE next

\* The table t is that of the last answer, or of the next one.
Undone(t) == t.rows = accounts /\ t.next = next
Done(t)   == t.rows = asked /\ (orderly => t.next = NextAfter)

Init ==
    /\ phase = "starting" /\ save = "whole"
    /\ disk = [rows |-> accounts, next |-> next] /\ asked = accounts

-----------------------------------------------------------------------------
(* Requests that change something.                                         *)

Open ==
    /\ Cardinality(accounts) < MAX_ACCTS
    /\ \E name \in Names, pin \in Pins :
           asked' = accounts \cup {<<next, pin, name, MIN_BALANCE, 1>>}

Close == \E r \in accounts : asked' = accounts \ {r}

Post(r, bal) == asked' = (accounts \ {r}) \cup {<<r[1], r[2], r[3], bal, r[5] + 1>>}

Deposit ==
    \E r \in accounts, amt \in Amounts :
        amt >= MIN_DEPOSIT /\ Post(r, Wrap(r[4] + amt))

Withdraw ==
    \E r \in accounts, amt \in Amounts :
        /\ amt >= MIN_WITHDRAW /\ amt % MIN_WITHDRAW = 0
        /\ Wrap(r[4] - amt) >= MIN_BALANCE
        /\ Post(r, Wrap(r[4] - amt))

Ask ==
    /\ phase = "idle" /\ phase' = "busy"
    /\ orderly => Open \/ Close \/ Deposit \/ Withdraw
    /\ UNCHANGED <<accounts, next, disk, save, orderly>>

\* What is answered is on the disk, unless its save could not begin.
Answer ==
    /\ phase = "busy" /\ phase' = "idle"
    /\ save # "torn" /\ (save = "whole" => Done(disk))
    /\ accounts' = asked
    /\ orderly => next' = NextAfter
    /\ UNCHANGED <<asked, disk, save, orderly>>

-----------------------------------------------------------------------------
(* The disk.                                                               *)

\* Within a save it may hold anything.
Write ==
    /\ phase \in {"busy", "closing", "cutting"} /\ UNCHANGED phase
    /\ save' = "torn"
    /\ UNCHANGED <<accounts, next, asked, orderly>>

Saved ==
    /\ phase = "busy" /\ UNCHANGED phase
    /\ save' = "whole" /\ Done(disk')
    /\ UNCHANGED <<accounts, next, asked, orderly>>

Failed ==
    /\ phase = "busy" /\ UNCHANGED phase
    /\ save' = "failed"
    /\ UNCHANGED <<accounts, next, asked, disk, orderly>>

-----------------------------------------------------------------------------
(* Stops and starts.                                                       *)

\* A stop while nobody is served cuts no operation in two.
Interrupt ==
    /\ phase \in {"starting", "idle", "busy"}
    /\ phase' = "closing" \/ (phase # "idle" /\ phase' = "cutting")
    /\ UNCHANGED <<accounts, next, asked, disk, save, orderly>>

ShutDown ==
    /\ phase \in {"closing", "cutting"} /\ phase' = "down"
    /\ IF phase = "closing" THEN save' = "whole" /\ (Undone(disk') \/ Done(disk'))
                            ELSE save' = "torn"
    /\ UNCHANGED <<accounts, next, asked, orderly>>

Kill ==
    /\ phase # "down" /\ phase' = "down"
    /\ UNCHANGED <<accounts, next, asked, disk, save, orderly>>

Boot ==
    /\ phase = "down" /\ phase' = "starting"
    /\ UNCHANGED <<accounts, next, asked, disk, save, orderly>>

Start ==
    /\ phase = "starting" /\ phase' = "idle"
    /\ accounts' = disk.rows /\ next' = disk.next /\ asked' = accounts'
    /\ save' = "whole"
    /\ save = "whole" /\ orderly => orderly'
    /\ UNCHANGED disk

Next ==
    \/ Ask \/ Answer \/ Write \/ Saved \/ Failed
    \/ Interrupt \/ ShutDown \/ Kill \/ Boot \/ Start

Spec == Init /\ [][Next]_vars

=============================================================================
