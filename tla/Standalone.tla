----------------------------- MODULE Standalone -----------------------------
(***************************************************************************)
(* The stand-alone program, bank_standalone.c: the console menu over the   *)
(* account operations of BankAccount, each of which saves, and the last    *)
(* save on the way out.  It has no signal handler: Ctrl-C ends it between  *)
(* any two steps, as a kill does.                                          *)
(*                                                                         *)
(* The menu's operations do not look at what scanf returns.  When a number *)
(* is not read, the operation runs on variables nothing was stored to:     *)
(* they hold anything, often what was typed for the operation before it.   *)
(* The scan that fails consumes a sign that no digit follows, and the      *)
(* input goes on behind it; anything else it leaves where it is, for all   *)
(* later scans to fail on.  Only the scanf of the menu itself is checked,  *)
(* and ends the program.                                                   *)
(***************************************************************************)
EXTENDS BankPersistence, FiniteSets

CONSTANTS
    Asked, AskedPins, Amounts,   \* numbers that are typed, or left in memory
    MaxOpens,     \* bound: numbers given out
    MaxPostings,  \* bound: ntran of an account
    MaxStarts     \* bound: times the program is started again

ASSUME StandaloneAssumption ==
    /\ Asked \subseteq Nat /\ AskedPins \subseteq Nat /\ Amounts \subseteq CInt
    /\ MaxOpens \in Nat /\ MaxPostings \in Nat /\ MaxStarts \in Nat

VARIABLES
    pc,        \* the step main is at
    jammed,    \* the input has ended, or stands at what no %d consumes
    ending,    \* the loop of the menu has ended
    heap,      \* bank[], accounts_in_use, next_number
    file,      \* bank.json
    starts,    \* times the program was started again
    answered,  \* history: the accounts after the last operation
    doing,     \* history: as the operation that saves, or the last, left them
    unsaved    \* history: the last save failed

vars == <<pc, jammed, ending, heap, file, starts, answered, doing, unsaved>>

Goto(p) == pc' = p

Init ==
    /\ pc = "load"
    /\ jammed = FALSE /\ ending = FALSE
    /\ heap = FreshHeap
    /\ file = NoFile
    /\ starts = 0
    /\ answered = {} /\ doing = {}
    /\ unsaved = FALSE

\* Whatever load_data returns, main goes on.
Load ==
    /\ pc = "load"
    /\ Goto("menu")
    /\ heap' = Loaded(file)
    /\ answered' = Fields(heap') /\ doing' = answered'
    /\ unsaved' = FALSE
    /\ UNCHANGED <<jammed, ending, file, starts>>

-----------------------------------------------------------------------------
(* The menu and its operations, up to their save.                          *)

\* The choice is read, and the numbers of the operation: all of them, or not.
\* What was not read is as arbitrary as what was, so only what the scans leave
\* of the input is told apart: it is jammed, or it goes on, also after a scan
\* that failed on a lone sign.
Scan ==
    /\ pc = "menu" /\ ~ jammed
    /\ jammed' \in BOOLEAN
    /\ UNCHANGED <<ending, file, starts, answered, unsaved>>

KeepUnsaved(h) ==       \* mutant: back to the menu without a save
    /\ Goto("menu")
    /\ heap' = h
    /\ doing' = Fields(h)

\* The globals become h, and are saved.
Save(h) ==
    /\ Goto("truncate")
    /\ heap' = h
    /\ doing' = Fields(h)

Refuse(status) ==
    /\ status # "OK"
    /\ Goto("menu")
    /\ UNCHANGED <<heap, doing>>

Open(name) ==
    /\ Scan
    /\ \/ Refuse(OpenStatus(heap))
       \/ /\ OpenStatus(heap) = "OK"
          /\ heap.next_number < FIRST_NUMBER + MaxOpens
          /\ \E pin \in Pins : Save(Opened(heap, name, pin))

Close(no, pin) ==
    /\ Scan
    /\ \/ Refuse(AuthStatus(heap, no, pin))
       \/ /\ AuthStatus(heap, no, pin) = "OK"
          /\ Save(Closed(heap, Found(heap, no, pin)))

CanPost(no, pin) == heap.bank[Found(heap, no, pin)].ntran < MaxPostings

Deposit(no, pin, amt) ==
    LET status == DepositStatus(heap, no, pin, amt)
    IN  /\ Scan
        /\ \/ Refuse(status)
           \/ /\ status = "OK" /\ CanPost(no, pin)
              /\ Save(Deposited(heap, Found(heap, no, pin), amt))

Withdraw(no, pin, amt) ==
    LET status == WithdrawStatus(heap, no, pin, amt)
    IN  /\ Scan
        /\ \/ Refuse(status)
           \/ /\ status = "OK" /\ CanPost(no, pin)
              /\ Save(Withdrawn(heap, Found(heap, no, pin), amt))

\* balance and statement print; so does a choice that is none.
Look ==
    /\ Scan
    /\ UNCHANGED <<pc, heap, doing>>

Operate ==
    \/ Look
    \/ \E name \in Names : Open(name)
    \/ \E no \in Asked, pin \in AskedPins :
           \/ Close(no, pin)
           \/ \E amt \in Amounts : Deposit(no, pin, amt) \/ Withdraw(no, pin, amt)

LeaveOnZero ==          \* mutant: only the choice 0 ends the loop
    /\ pc = "menu" /\ ~ jammed
    /\ Goto("truncate")
    /\ ending' = TRUE
    /\ UNCHANGED <<jammed, heap, file, starts, answered, doing, unsaved>>

\* The choice 0, the end of the input, or no number: the loop is left.
LeaveMenu ==
    /\ pc = "menu"
    /\ Goto("truncate")
    /\ ending' = TRUE
    /\ UNCHANGED <<jammed, heap, file, starts, answered, doing, unsaved>>

-----------------------------------------------------------------------------
(* save_data, of an operation or of the way out.                           *)

Truncate ==
    /\ pc = "truncate"
    /\ Goto("write")
    /\ file' = EmptyFile
    /\ UNCHANGED <<jammed, ending, heap, starts, answered, doing, unsaved>>

Flush ==
    /\ pc = "write"
    /\ \E k \in Len(file.accounts) + 1 .. heap.accounts_in_use :
           file' = Cut(heap, k)
    /\ UNCHANGED <<pc, jammed, ending, heap, starts, answered, doing, unsaved>>

\* Back to the menu, which tells the number and the PIN of a new account only
\* now, or out of main.
Done ==
    /\ Goto(IF ending THEN "ended" ELSE "menu")
    /\ answered' = doing
    /\ heap' = IF ending THEN FreshHeap ELSE heap
    /\ UNCHANGED <<jammed, ending, starts, doing>>

CloseFile ==
    /\ pc = "write"
    /\ file' = Image(heap)
    /\ unsaved' = FALSE
    /\ Done

\* fopen fails: the operations do not look at it, main prints a warning.
SaveFails ==
    /\ pc = "truncate"
    /\ unsaved' = TRUE
    /\ Done
    /\ UNCHANGED file

-----------------------------------------------------------------------------
Killed ==
    /\ pc \notin {"ended", "killed"}
    /\ Goto("killed")
    /\ heap' = FreshHeap
    /\ UNCHANGED <<jammed, ending, file, starts, answered, doing, unsaved>>

Start ==
    /\ pc \in {"ended", "killed"}
    /\ starts < MaxStarts
    /\ Goto("load")
    /\ starts' = starts + 1
    /\ jammed' = FALSE /\ ending' = FALSE
    /\ UNCHANGED <<heap, file, answered, doing, unsaved>>

Program == Load \/ Truncate \/ Flush \/ CloseFile \/ SaveFails

Next == Program \/ Operate \/ LeaveMenu \/ Killed \/ Start

\* The program goes on by itself, and from the menu too when it cannot read.
Spec ==
    /\ Init /\ [][Next]_vars
    /\ WF_vars(Program)
    /\ WF_vars(jammed /\ LeaveMenu)

-----------------------------------------------------------------------------
(* Properties.                                                             *)

TypeOK ==
    /\ pc \in {"load", "menu", "truncate", "write", "ended", "killed"}
    /\ jammed \in BOOLEAN /\ ending \in BOOLEAN /\ unsaved \in BOOLEAN
    /\ heap \in Heap
    /\ file \in File
    /\ starts \in 0 .. MaxStarts

\* At the menu, and when the program has come to its end by itself, the file
\* holds the accounts as the operations have left them, unless the last save
\* failed: the one on the way out makes up for those that failed before it.
FileCurrent ==
    pc \in {"menu", "ended"} /\ ~ unsaved => Fields(Loaded(file)) = doing

\* A program that is started again has every account as the last operation
\* left it, or as the one in progress was to; after an end within a save it
\* may lack accounts, but has none that was not there; after a save that
\* failed nothing is said.
RestartKeeps ==
    [][pc = "load" /\ pc' = "menu" /\ ~ unsaved =>
           IF file.kind \in {"absent", "whole"} THEN Fields(heap') \in {answered, doing}
           ELSE Fields(heap') \subseteq answered \cup doing]_vars

\* When the input has ended, or stands at what no scan consumes, the program
\* ends: it does not run its operations on unread numbers for ever.
JamEnds == jammed ~> pc \in {"ended", "killed"}

=============================================================================
