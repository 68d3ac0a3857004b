-------------------------- MODULE BankServerAtomic --------------------------
(***************************************************************************)
(* The statements of BankServer, its saves and its stops, seen as          *)
(* AtomicBank.  Two history variables say what the numbers of the accounts *)
(* come to; no action of BankServer looks at them.                         *)
(***************************************************************************)
EXTENDS BankServer

VARIABLES
    orderly,  \* the table last loaded had its numbers in order
    told      \* the highest number that an answer has told; all numbers below
              \* next_number count, when the first start loads it or one that
              \* does not find the file Intact

orderlyVars == <<vars, orderly, told>>

\* No two accounts share a number, and the next number is above all of them.
InOrder(h) ==
    /\ \A i, j \in LiveSlots(h) : h.bank[i].number = h.bank[j].number => i = j
    /\ \A i \in LiveSlots(h) : h.bank[i].number < h.next_number

\* An opening is the only request that draws a PIN; its answer tells the number.
Opening == job.pin # 0

\* The last stop was one whose file has the number of the last answer, or a
\* higher one: not one after a failed save, in a save that got no further
\* than fopen, or of a half-done load.
Intact == stop \in {"clean", "half"} \/ (stop = "torn" /\ file.kind = "cut")

OrderlyInit ==
    /\ Init
    /\ orderly = InOrder(Loaded(file))
    /\ told = Loaded(file).next_number - 1

OrderlyNext ==
    /\ Next
    /\ orderly' = IF Served THEN InOrder(heap') ELSE orderly
    /\ told' = CASE Served /\ ~(orderly /\ Intact) -> heap'.next_number - 1
                 [] pc = "send" /\ pc' = "recv" /\ Opening -> heap.bank[job.slot].number
                 [] OTHER -> told

OrderlySpec == OrderlyInit /\ [][OrderlyNext]_orderlyVars

-----------------------------------------------------------------------------
(* Properties.                                                             *)

\* Through operations taken apart into statements, closings, signals and kills
\* at any place and restarts, the number an answer tells is higher than all that
\* answers have told before, so no two clients are told the same; nor do two
\* accounts of the table share one.  Not vouched for are the answers before a
\* stop that is not Intact, and a table that was out of order when loaded.
NumbersUnique ==
    orderly => /\ pc \in {"recv", "send"} => InOrder(heap)
               /\ pc = "send" /\ Opening => heap.bank[job.slot].number > told

Phase ==
    CASE pc \in Loading -> "starting"
      [] pc = "recv" -> "idle"
      [] pc \in Handling -> IF job.cut = "clean" THEN "closing" ELSE "cutting"
      [] pc = "down" -> "down"
      [] OTHER -> "busy"

\* Memory itself, wherever it is to hold what the history variables say.
Accounts   == IF pc = "recv" THEN Fields(heap) ELSE before
NextNumber == IF pc = "recv" THEN heap.next_number ELSE high
Asked      == IF pc \in Saving \cup Waiting THEN Fields(heap) ELSE after

\* The rows and the number of Loaded(f), without the slots it puts them in.
Held(f) ==
    IF f.kind \in {"absent", "empty"} THEN [rows |-> {}, next |-> FIRST_NUMBER]
    ELSE [rows |-> {<<a.number, a.pin, a.name, a.balance, a.ntran>> :
                        a \in {f.accounts[k] : k \in DOMAIN f.accounts}},
          next |-> f.next_number]

Disk == Held(file)

Save == CASE stop = "clean" -> "whole" [] stop = "unsaved" -> "failed" [] OTHER -> "torn"

Atomic == INSTANCE AtomicBank WITH
    accounts <- Accounts, next <- NextNumber, asked <- Asked,
    phase <- Phase, disk <- Disk, save <- Save

\* The server is an atomic bank: each request is one step of the accounts, its
\* answer waits for the save, and a start finds the accounts of an answer.
ImplementsAtomic == Atomic!Spec

=============================================================================
