-------------------------- MODULE StandaloneProofs --------------------------
(***************************************************************************)
(* Type correctness, the safety invariants and RestartKeeps of Standalone, *)
(* for every value of the constants.                                       *)
(***************************************************************************)
EXTENDS Standalone, BankPersistenceProofs

-----------------------------------------------------------------------------
(* The inductive invariant.                                                *)

\* What load_data would make of the file now.
Saved == Fields(Loaded(file))

\* The history variables follow the table through an operation and its save.
Follows ==
    /\ pc \in {"menu", "truncate", "write"} => doing = Fields(heap)
    /\ pc \in {"menu", "ended"} => answered = doing

\* What is in a file that fopen has emptied and fclose not yet completed.
Partial ==
    \/ file = EmptyFile
    \/ \E k \in 1 .. heap.accounts_in_use : file = Cut(heap, k)

\* What RestartKeeps says a load is to find.
Survives ==
    IF file.kind \in {"absent", "whole"} THEN Saved \in {answered, doing}
    ELSE Saved \subseteq answered \cup doing

\* The file, at every place main can be stopped at.
FileSound ==
    /\ Len(file.accounts) <= MAX_ACCTS
    /\ pc \in {"menu", "truncate", "ended"} /\ ~ unsaved => Saved = answered
    /\ pc = "write" => Partial
    /\ pc \in {"load", "killed"} /\ ~ unsaved => Survives

IInv == TypeOK /\ Follows /\ FileSound

-----------------------------------------------------------------------------
(* Steps.                                                                  *)

\* The program starts in the invariant.
LEMMA InitIInv == Init => IInv
<1> SUFFICES ASSUME Init PROVE IInv
  OBVIOUS
<1>1. heap \in Heap /\ file \in File /\ Len(file.accounts) <= MAX_ACCTS
  BY FreshHeapType, EmptyLoads, BankAssumption DEF Init
<1>2. TypeOK
  <2>1. starts \in 0 .. MaxStarts
    BY StandaloneAssumption DEF Init
  <2>. QED  BY <1>1, <2>1 DEF Init, TypeOK
<1>3. Saved = {} /\ answered = {} /\ pc = "load" /\ file.kind = "absent"
  BY EmptyLoads DEF Init, Saved
<1>4. FileSound
  BY <1>1, <1>3 DEF FileSound, Survives
<1>. QED  BY <1>2, <1>4 DEF Init, IInv, Follows

\* load_data: memory is what the file makes of it.
LEMMA LoadStep ==
    ASSUME IInv, Load
    PROVE  IInv'
<1>1. heap' \in Heap /\ answered' = Saved /\ doing' = Saved /\ Saved' = Saved
  BY LoadedType DEF IInv, TypeOK, FileSound, Load, Saved
<1>2. TypeOK'
  BY <1>1 DEF IInv, TypeOK, Load, Goto
<1>3. Follows'
  BY <1>1 DEF Follows, Load, Goto
<1>4. FileSound'
  BY <1>1 DEF IInv, FileSound, Load, Goto
<1>. QED  BY <1>2, <1>3, <1>4 DEF IInv

\* A choice that leaves the table as it is leads back to the menu.
LEMMA StayStep ==
    ASSUME IInv, Scan, pc' = "menu", UNCHANGED <<heap, doing>>
    PROVE  IInv'
<1>1. TypeOK'
  BY DEF IInv, TypeOK, Scan
<1>2. Follows'
  BY DEF IInv, Follows, Scan
<1>3. FileSound'
  BY DEF IInv, FileSound, Scan, Saved
<1>. QED  BY <1>1, <1>2, <1>3 DEF IInv

\* An operation has changed the table to h and goes on to save it.
LEMMA SaveStep ==
    ASSUME IInv, Scan, NEW h \in Heap, Save(h)
    PROVE  IInv'
<1>1. TypeOK'
  BY DEF IInv, TypeOK, Scan, Save, Goto
<1>2. Follows'
  BY DEF Follows, Save, Goto
<1>3. FileSound'
  BY DEF IInv, FileSound, Scan, Save, Goto, Saved
<1>. QED  BY <1>1, <1>2, <1>3 DEF IInv

\* Whatever the operation and the numbers it runs on, the table stays a table.
LEMMA OperateStep ==
    ASSUME IInv, Operate
    PROVE  IInv'
<1>1. heap \in Heap
  BY DEF IInv, TypeOK
<1>2. ASSUME NEW st, Refuse(st)
      PROVE  pc' = "menu" /\ UNCHANGED <<heap, doing>>
  BY <1>2 DEF Refuse, Goto
<1>3. CASE Look
  BY <1>3, StayStep DEF Look, Scan
<1>4. ASSUME NEW name \in Names, Open(name)
      PROVE  IInv'
  <2>1. CASE Refuse(OpenStatus(heap))
    BY <1>2, <1>4, <2>1, StayStep DEF Open
  <2>2. ASSUME NEW pin \in Pins, OpenStatus(heap) = "OK", Save(Opened(heap, name, pin))
        PROVE  IInv'
    BY <1>1, <1>4, <2>2, OpenedType, SaveStep DEF Open
  <2>. QED  BY <1>4, <2>1, <2>2 DEF Open
<1>5. ASSUME NEW no \in Asked, NEW pin \in AskedPins, Close(no, pin)
      PROVE  IInv'
  <2>1. CASE Refuse(AuthStatus(heap, no, pin))
    BY <1>2, <1>5, <2>1, StayStep DEF Close
  <2>2. CASE AuthStatus(heap, no, pin) = "OK" /\ Save(Closed(heap, Found(heap, no, pin)))
    BY <1>1, <1>5, <2>2, FoundMatches, ClosedType, SaveStep DEF Close
  <2>. QED  BY <1>5, <2>1, <2>2 DEF Close
<1>6. ASSUME NEW no \in Asked, NEW pin \in AskedPins, NEW amt \in Amounts, Deposit(no, pin, amt)
      PROVE  IInv'
  <2> DEFINE i == Found(heap, no, pin)
  <2>1. CASE Refuse(DepositStatus(heap, no, pin, amt))
    BY <1>2, <1>6, <2>1, StayStep DEF Deposit
  <2>2. CASE DepositStatus(heap, no, pin, amt) = "OK" /\ Save(Deposited(heap, i, amt))
    <3>1. AuthStatus(heap, no, pin) = "OK"
      BY <2>2 DEF DepositStatus
    <3>2. i \in LiveSlots(heap) /\ amt \in CInt
      BY <1>1, <3>1, FoundMatches, StandaloneAssumption
    <3>. QED  BY <1>1, <1>6, <2>2, <3>2, DepositedType, SaveStep DEF Deposit
  <2>. QED  BY <1>6, <2>1, <2>2 DEF Deposit
<1>7. ASSUME NEW no \in Asked, NEW pin \in AskedPins, NEW amt \in Amounts, Withdraw(no, pin, amt)
      PROVE  IInv'
  <2> DEFINE i == Found(heap, no, pin)
  <2>1. CASE Refuse(WithdrawStatus(heap, no, pin, amt))
    BY <1>2, <1>7, <2>1, StayStep DEF Withdraw
  <2>2. CASE WithdrawStatus(heap, no, pin, amt) = "OK" /\ Save(Withdrawn(heap, i, amt))
    <3>1. AuthStatus(heap, no, pin) = "OK"
      BY <2>2 DEF WithdrawStatus, AuthStatus
    <3>2. i \in LiveSlots(heap) /\ amt \in CInt
      BY <1>1, <3>1, FoundMatches, StandaloneAssumption
    <3>. QED  BY <1>1, <1>7, <2>2, <3>2, WithdrawnType, SaveStep DEF Withdraw
  <2>. QED  BY <1>7, <2>1, <2>2 DEF Withdraw
<1>. QED  BY <1>3, <1>4, <1>5, <1>6, <1>7 DEF Operate

\* The menu's loop is left: the last save is still to come.
LEMMA LeaveStep ==
    ASSUME IInv, LeaveMenu
    PROVE  IInv'
<1>1. TypeOK'
  BY DEF IInv, TypeOK, LeaveMenu, Goto
<1>2. Follows' /\ FileSound'
  BY DEF IInv, Follows, FileSound, LeaveMenu, Goto, Saved
<1>. QED  BY <1>1, <1>2 DEF IInv

\* save_data up to its last flush: what is in the file is a part of the table.
LEMMA WriteStep ==
    ASSUME IInv, Truncate \/ Flush
    PROVE  IInv'
<1>1. PICK f : /\ file' = f /\ pc' = "write"
               /\ f = EmptyFile \/ \E k \in 1 .. heap.accounts_in_use : f = Cut(heap, k)
               /\ UNCHANGED <<jammed, ending, heap, starts, answered, doing, unsaved>>
               /\ pc \in {"truncate", "write"}
  <2>1. CASE Truncate
    BY <2>1 DEF Truncate, Goto
  <2>2. CASE Flush
    <3>1. Len(file.accounts) \in Nat /\ heap.accounts_in_use \in Nat
      BY BankAssumption DEF IInv, TypeOK, File, Heap
    <3>. QED  BY <2>2, <3>1 DEF Flush
  <2>. QED  BY <2>1, <2>2
<1>2. f \in File /\ Len(f.accounts) <= MAX_ACCTS
  BY <1>1, EmptyLoads, CutLoads, BankAssumption DEF IInv, TypeOK
<1>3. TypeOK' /\ Follows'
  BY <1>1, <1>2 DEF IInv, TypeOK, Follows
<1>4. FileSound'
  BY <1>1, <1>2 DEF FileSound, Partial
<1>. QED  BY <1>3, <1>4 DEF IInv

\* The file is closed: it holds the whole table.
LEMMA CloseFileStep ==
    ASSUME IInv, CloseFile
    PROVE  IInv'
<1>1. /\ Image(heap) \in File /\ Len(Image(heap).accounts) <= MAX_ACCTS
      /\ Fields(Loaded(Image(heap))) = Fields(heap)
  BY ImageLoads DEF IInv, TypeOK
<1>2. doing = Fields(heap) /\ pc' \in {"ended", "menu"} /\ heap' \in Heap
  BY FreshHeapType DEF IInv, TypeOK, Follows, CloseFile, Done, Goto
<1>3. pc' = "menu" => heap' = heap
  BY DEF CloseFile, Done, Goto
<1>4. TypeOK'
  BY <1>1, <1>2 DEF IInv, TypeOK, CloseFile, Done
<1>5. Follows'
  BY <1>2, <1>3 DEF Follows, CloseFile, Done
<1>6. FileSound'
  BY <1>1, <1>2 DEF FileSound, Saved, CloseFile, Done
<1>. QED  BY <1>4, <1>5, <1>6 DEF IInv

\* fopen fails: the file is as it was, and unsaved says so.
LEMMA SaveFailsStep ==
    ASSUME IInv, SaveFails
    PROVE  IInv'
<1>1. doing = Fields(heap) /\ pc' \in {"ended", "menu"} /\ heap' \in Heap
  BY FreshHeapType DEF IInv, TypeOK, Follows, SaveFails, Done, Goto
<1>2. pc' = "menu" => heap' = heap
  BY DEF SaveFails, Done, Goto
<1>3. TypeOK'
  BY <1>1 DEF IInv, TypeOK, SaveFails, Done
<1>4. Follows'
  BY <1>1, <1>2 DEF Follows, SaveFails, Done
<1>5. FileSound'
  BY <1>1 DEF IInv, FileSound, SaveFails, Done
<1>. QED  BY <1>3, <1>4, <1>5 DEF IInv

\* Wherever a kill comes, what is in the file is what Survives says.
LEMMA KilledStep ==
    ASSUME IInv, Killed
    PROVE  IInv'
<1>1. TypeOK' /\ Follows'
  BY FreshHeapType DEF IInv, TypeOK, Follows, Killed, Goto
<1>2. Saved' = Saved /\ Survives' = Survives
  BY DEF Killed, Saved, Survives
<1>3. ASSUME ~ unsaved
      PROVE  Survives
  <2>1. CASE pc \in {"menu", "truncate"}
    BY <1>3, <2>1 DEF IInv, FileSound, Survives
  <2>2. CASE pc = "write"
    <3>1. doing = Fields(heap) /\ Partial /\ heap \in Heap
      BY <2>2 DEF IInv, TypeOK, Follows, FileSound
    <3>2. Saved \subseteq Fields(heap) /\ file.kind \in {"empty", "cut"}
      BY <3>1, EmptyLoads, CutLoads DEF Partial, Saved
    <3>. QED  BY <3>1, <3>2 DEF Survives
  <2>3. CASE pc = "load"
    BY <1>3, <2>3 DEF IInv, FileSound
  <2>. QED  BY <2>1, <2>2, <2>3 DEF IInv, TypeOK, Killed
<1>4. FileSound'
  BY <1>2, <1>3 DEF IInv, FileSound, Killed, Goto
<1>. QED  BY <1>1, <1>4 DEF IInv

\* The program is started again, and has nothing but the file.
LEMMA StartStep ==
    ASSUME IInv, Start
    PROVE  IInv'
<1>1. starts + 1 \in 0 .. MaxStarts
  BY StandaloneAssumption DEF IInv, TypeOK, Start
<1>2. TypeOK' /\ Follows'
  BY <1>1 DEF IInv, TypeOK, Follows, Start, Goto
<1>3. Survives' = Survives
  BY DEF Start, Saved, Survives
<1>4. ~ unsaved => Survives
  <2>1. CASE pc = "ended"
    BY <2>1 DEF IInv, FileSound, Survives
  <2>2. CASE pc = "killed"
    BY <2>2 DEF IInv, FileSound
  <2>. QED  BY <2>1, <2>2 DEF Start
<1>5. FileSound'
  BY <1>3, <1>4 DEF IInv, FileSound, Start, Goto
<1>. QED  BY <1>2, <1>5 DEF IInv

\* Every step keeps the invariant.
LEMMA NextStep ==
    ASSUME IInv, [Next]_vars
    PROVE  IInv'
<1>1. CASE UNCHANGED vars
  <2>1. UNCHANGED <<pc, jammed, ending, heap, file, starts, answered, doing, unsaved>>
    BY <1>1 DEF vars
  <2>. QED  BY <2>1 DEF IInv, TypeOK, Follows, FileSound, Saved, Partial, Survives
<1>2. CASE Program
  BY <1>2, LoadStep, WriteStep, CloseFileStep, SaveFailsStep DEF Program
<1>3. CASE Operate \/ LeaveMenu
  BY <1>3, OperateStep, LeaveStep
<1>4. CASE Killed \/ Start
  BY <1>4, KilledStep, StartStep
<1>. QED  BY <1>1, <1>2, <1>3, <1>4 DEF Next

-----------------------------------------------------------------------------
(* Theorems.                                                               *)

\* The inductive invariant: the history variables follow the table, and the
\* file follows them at every place the program can end at.
THEOREM Invariance == Spec => []IInv
<1>1. IInv /\ [Next]_vars => IInv'
  BY NextStep
<1>. QED  BY <1>1, InitIInv, PTL DEF Spec

\* Operations on whatever was left in unread variables keep the types, and
\* so does a load of whatever a kill left of the file.
THEOREM TypeCorrect == Spec => []TypeOK
<1>1. IInv => TypeOK
  BY DEF IInv
<1>. QED  BY <1>1, Invariance, PTL

\* At the menu and at the program's own end the file holds the accounts.
THEOREM FileIsCurrent == Spec => []FileCurrent
<1>1. IInv => FileCurrent
  BY DEF IInv, FileCurrent, FileSound, Follows, Saved
<1>. QED  BY <1>1, Invariance, PTL

\* A restart has every account as the last operation, or the one under way,
\* left it; after an end within a save, some of them and no other.
THEOREM RestartsKeep == Spec => RestartKeeps
<1> DEFINE Restart == pc = "load" /\ pc' = "menu" /\ ~ unsaved
           Kept1 == IF file.kind \in {"absent", "whole"} THEN Fields(heap') \in {answered, doing}
                    ELSE Fields(heap') \subseteq answered \cup doing
<1>1. ASSUME IInv, Next, Restart
      PROVE  Kept1
  <2>1. Load
    BY <1>1 DEF Next, Program, Load, Truncate, Flush, CloseFile, SaveFails, Operate, Look,
                Open, Close, Deposit, Withdraw, Scan, LeaveMenu, Killed, Start, Goto
  <2>2. Fields(heap') = Saved /\ Survives
    BY <1>1, <2>1 DEF Load, Saved, IInv, FileSound
  <2>. QED  BY <2>2 DEF Survives
<1>2. IInv /\ [Next]_vars => [Restart => Kept1]_vars
  BY <1>1
<1>. QED  BY <1>2, Invariance, PTL DEF Spec, RestartKeeps

=============================================================================
