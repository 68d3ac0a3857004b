-------------------------- MODULE BankServerProofs --------------------------
(***************************************************************************)
(* Type correctness, OperationDone, FileCurrent, RestartKeepsAnswers and   *)
(* TornKeepsPrefix of BankServer, and NumbersUnique and ImplementsAtomic   *)
(* of BankServerAtomic, for every value of the constants.                  *)
(***************************************************************************)
EXTENDS BankServerAtomic, BankPersistenceProofs, FiniteSetTheorems

-----------------------------------------------------------------------------
(* The inductive invariant.                                                *)

Stops == {"clean", "half", "loading", "torn", "unsaved", "mangled"}

Jobs == [slot : 0 .. MAX_ACCTS, pin : Nat, name : Names \cup {Blank},
         type : {"D", "W", "0"}, amount : CInt, cut : Stops]

\* The statements of an operation that posts, and of close_account.
Posting == {"claim", "clear", "number", "identity", "balance", "credit", "debit",
            "count", "post"}
Closing == {"shrink", "move"}
Operating == Posting \cup Closing

Fits(f) == Len(f.accounts) <= f.accounts_in_use /\ f.accounts_in_use <= MAX_ACCTS

Typed ==
    /\ TypeOK
    /\ job \in Jobs /\ Fits(file)
    /\ pc \notin Handling => job.cut = "clean"

\* What load_data has stored of the file so far.
LoadSound ==
    /\ pc \in {"load", "down"} => heap = FreshHeap /\ job = NoJob
    /\ pc \in {"load_number", "load_account"} => file.kind \in {"cut", "whole"}
    /\ pc = "load_number" =>
           heap.bank = FreshHeap.bank /\ job = NoJob
    /\ pc = "load_account" =>
           /\ job.slot <= Len(file.accounts)
           /\ heap.next_number = file.next_number
           /\ heap.bank = [i \in Slots |-> IF i < job.slot THEN LoadedAccount(file.accounts[i + 1])
                                           ELSE ZeroAccount]

\* The rows of all accounts but the one in slot i.
Others(h, i) == {Row(h.bank[j]) : j \in LiveSlots(h) \ {i}}

\* The row that the statements still to come are to leave in the slot.
FinalRow ==
    LET a == heap.bank[job.slot]
        Counted(number, pin, name, balance) == <<number, pin, name, balance, a.ntran + 1>>
    IN  CASE pc \in {"claim", "clear"} ->
                 <<heap.next_number, job.pin, job.name, MIN_BALANCE, 1>>
          [] pc = "number"   -> Counted(heap.next_number, job.pin, job.name, MIN_BALANCE)
          [] pc = "identity" -> Counted(a.number, job.pin, job.name, MIN_BALANCE)
          [] pc = "balance"  -> Counted(a.number, a.pin, a.name, MIN_BALANCE)
          [] pc = "credit"   -> Counted(a.number, a.pin, a.name, Wrap(a.balance + job.amount))
          [] pc = "debit"    -> Counted(a.number, a.pin, a.name, Wrap(a.balance - job.amount))
          [] pc = "count"    -> Counted(a.number, a.pin, a.name, a.balance)
          [] OTHER           -> Row(a)

\* Each statement of an operation leads on to what the operation is to leave.
OperationSound ==
    /\ pc = "claim" => job.slot = heap.accounts_in_use
    /\ pc \in Posting \ {"claim"} => job.slot \in LiveSlots(heap)
    /\ pc \in Posting =>
           /\ job.slot \in Slots /\ job.type \in {"D", "W"}
           /\ after = Others(heap, job.slot) \cup {FinalRow}
    /\ pc = "post" => heap.bank[job.slot].ntran > 0
    /\ pc = "shrink" => job.slot \in LiveSlots(heap) /\ after = Fields(Closed(heap, job.slot))
    /\ pc = "move" =>
           /\ heap.accounts_in_use \in Slots /\ job.slot <= heap.accounts_in_use
           /\ after = Fields([heap EXCEPT !.bank[job.slot] = heap.bank[heap.accounts_in_use]])
    /\ pc \in Closing => job.type = "0"
    /\ pc = "truncate" /\ job.type # "0" =>
           LET a == heap.bank[job.slot]
           IN  /\ job.slot \in LiveSlots(heap) /\ a.ntran > 0
               /\ a.last[(a.ntran - 1) % TRANS_KEEP] =
                      [type |-> job.type, amount |-> job.amount, balance_after |-> a.balance]

\* Memory, between load_data and the end of the process.
MemorySound ==
    /\ pc \in {"recv"} \cup First => Fields(heap) = before
    /\ pc \in Saving \cup {"send"} => Fields(heap) = after
    /\ pc = "recv" => high = heap.next_number
    /\ pc \in Operating \cup Saving \cup {"send"} => heap.next_number >= high
    /\ pc \in Handling /\ job.cut = "clean" =>
           Fields(heap) \in {before, after} /\ heap.next_number >= high

\* What a load would make of the file now.
SavedRows   == Fields(Loaded(file))
SavedNumber == Loaded(file).next_number

\* The file, by what the history variable stop says of it.
FileSound ==
    /\ pc \in {"recv", "send", "truncate"} \cup Operating => stop \in {"clean", "unsaved"}
    /\ pc \in {"write", "handler_write"} => stop \in {"torn", "mangled"}
    /\ pc = "handler_write" /\ stop = "torn" => job.cut = "clean"
    /\ stop = "clean" =>
           /\ SavedRows \in {before, after} /\ SavedNumber >= high
           /\ pc = "recv" => SavedRows = before
           /\ pc = "send" => SavedRows = after
           /\ pc \in {"recv", "send"} => SavedNumber = heap.next_number
    /\ stop = "torn" /\ file.kind = "cut" =>
           SavedRows \subseteq before \cup after /\ SavedNumber >= high

IInv == Typed /\ LoadSound /\ OperationSound /\ MemorySound /\ FileSound

-----------------------------------------------------------------------------
(* Rows of a table of which one slot is being written.                     *)

\* A table's rows are that of one live slot and those of the others.
LEMMA RowsAround ==
    ASSUME NEW h, NEW i \in LiveSlots(h)
    PROVE  Fields(h) = Others(h, i) \cup {Row(h.bank[i])}
<1>1. \A x : x \in Fields(h) <=> x \in Others(h, i) \cup {Row(h.bank[i])}
  BY FieldsIn DEF Others
<1>. QED  BY <1>1

\* All rows are others to a slot that does not count yet.
LEMMA RowsBelow ==
    ASSUME NEW h, NEW i, i \notin LiveSlots(h)
    PROVE  Others(h, i) = Fields(h)
<1>1. \A x : x \in Fields(h) <=> x \in Others(h, i)
  BY FieldsIn DEF Others
<1>. QED  BY <1>1

\* The others stay when no slot but one is written.
LEMMA OthersStay ==
    ASSUME NEW g, NEW h, NEW i, LiveSlots(g) \ {i} = LiveSlots(h) \ {i},
           \A j \in LiveSlots(h) \ {i} : g.bank[j] = h.bank[j]
    PROVE  Others(g, i) = Others(h, i)
  BY DEF Others

\* The table with one slot written.
LEMMA WriteSlot ==
    ASSUME NEW h \in Heap, NEW i \in LiveSlots(h), NEW a \in Account
    PROVE  LET g == [h EXCEPT !.bank[i] = a]
           IN  /\ g \in Heap /\ g.bank[i] = a
               /\ g.accounts_in_use = h.accounts_in_use
               /\ g.next_number = h.next_number
               /\ i \in Slots /\ i \in LiveSlots(g)
               /\ Others(g, i) = Others(h, i)
<1> DEFINE g == [h EXCEPT !.bank[i] = a]
<1>1. i \in Slots
  BY SlotBelow
<1>2. g \in Heap
  BY <1>1 DEF Heap
<1>3. /\ g.bank = [h.bank EXCEPT ![i] = a]
      /\ g.accounts_in_use = h.accounts_in_use /\ g.next_number = h.next_number
  BY DEF Heap
<1> HIDE DEF g
<1>4. g.bank[i] = a /\ \A j \in LiveSlots(h) \ {i} : g.bank[j] = h.bank[j]
  BY <1>1, <1>3, SlotBelow DEF Heap
<1>5. LiveSlots(g) = LiveSlots(h)
  BY <1>3 DEF LiveSlots
<1>6. Others(g, i) = Others(h, i)
  BY <1>4, <1>5, OthersStay
<1>. QED  BY <1>1, <1>2, <1>3, <1>4, <1>5, <1>6 DEF g

\* The last transaction a statement shows is the one posted last.
LEMMA KeptLast ==
    ASSUME NEW a \in Account, a.ntran > 0
    PROVE  Kept(a)[Len(Kept(a))] = a.last[(a.ntran - 1) % TRANS_KEEP]
<1> DEFINE start == IF a.ntran > TRANS_KEEP THEN a.ntran - TRANS_KEEP ELSE 0
           n == a.ntran - start
<1>1. start \in Nat /\ n \in Nat /\ n > 0 /\ a.ntran \in Nat /\ start + n = a.ntran
  BY BankAssumption DEF Account
<1> HIDE DEF start
<1>2. Kept(a) = [k \in 1 .. n |-> a.last[(start + k - 1) % TRANS_KEEP]]
  BY DEF Kept, start
<1>3. Kept(a) \in Seq(Tran) /\ DOMAIN Kept(a) = 1 .. n
  BY <1>2, KeptType
<1> HIDE DEF n
<1>4. Len(Kept(a)) = n
  BY <1>1, <1>3
<1>5. start + n - 1 = a.ntran - 1 /\ n \in 1 .. n
  BY <1>1
<1>. QED  BY <1>2, <1>4, <1>5

-----------------------------------------------------------------------------
(* Loading.                                                                *)

\* No request and no load in progress.
LEMMA NoJobType ==
    /\ NoJob \in Jobs
    /\ NoJob.slot = 0 /\ NoJob.type = "0" /\ NoJob.cut = "clean"
<1>1. 0 \in 0 .. MAX_ACCTS /\ 0 \in CInt
  BY ConstantsFit, BankAssumption
<1>. QED  BY <1>1 DEF NoJob, Jobs, Stops

\* The program starts in the invariant, whatever file it finds.
LEMMA InitIInv == Init => IInv
<1> SUFFICES ASSUME Init PROVE IInv
  OBVIOUS
<1>1. file \in File /\ Fits(file) /\ Len(file.accounts) <= MAX_ACCTS
  <2>1. file \in File /\ Fits(file)
    BY ServerAssumption DEF Init, Fits
  <2>. QED  BY <2>1, BankAssumption DEF Fits, File
<1>2. Loaded(file) \in Heap /\ FreshHeap \in Heap
  BY <1>1, LoadedType, FreshHeapType
<1>3. high \in Nat /\ high = SavedNumber /\ SavedRows = before
  BY <1>2 DEF Init, Heap, SavedNumber, SavedRows
<1>4. job = NoJob /\ pc = "load" /\ heap = FreshHeap /\ stop = "clean"
  BY DEF Init
<1>5. Typed
  BY <1>1, <1>2, <1>3, <1>4, NoJobType
     DEF Typed, TypeOK, Jobs, Running, Loading, Handling
<1>6. LoadSound /\ OperationSound
  BY <1>4 DEF LoadSound, OperationSound, Posting, Closing
<1>7. MemorySound
  BY <1>4 DEF MemorySound, First, Saving, Operating, Posting, Closing, Handling
<1>8. FileSound
  BY <1>3, <1>4 DEF FileSound, Operating, Posting, Closing
<1>. QED  BY <1>5, <1>6, <1>7, <1>8 DEF IInv

\* What the invariant says of the file at any time.
LEMMA FileFacts ==
    ASSUME IInv
    PROVE  /\ file \in File /\ Fits(file) /\ Len(file.accounts) <= MAX_ACCTS
           /\ file.accounts \in Seq(JsonAccount) /\ Len(file.accounts) \in Nat
           /\ file.accounts_in_use \in 0 .. MAX_ACCTS /\ file.next_number \in Nat
           /\ Loaded(file) \in Heap
<1>1. file \in File /\ Fits(file)
  BY DEF IInv, Typed, TypeOK
<1>2. /\ file.accounts \in Seq(JsonAccount) /\ Len(file.accounts) \in Nat
      /\ file.accounts_in_use \in Nat /\ file.next_number \in Nat
  BY <1>1 DEF File
<1>3. Len(file.accounts) <= MAX_ACCTS /\ file.accounts_in_use <= MAX_ACCTS
  BY <1>1, <1>2, BankAssumption DEF Fits
<1>. QED  BY <1>1, <1>2, <1>3, LoadedType, BankAssumption

\* A load that is through has made of memory what the file says.
LEMMA ReadyStep ==
    ASSUME IInv, NEW h, h = Loaded(file), Ready(h), UNCHANGED <<file, starts>>
    PROVE  IInv'
<1>1. h \in Heap /\ h.next_number \in Nat
  BY FileFacts DEF Heap
<1>2. /\ pc' = "recv" /\ heap' = h /\ job' = NoJob /\ file' = file /\ stop' = "clean"
      /\ before' = Fields(h) /\ high' = h.next_number
  BY DEF Ready, Goto
<1>3. SavedRows' = before' /\ SavedNumber' = high'
  BY <1>2 DEF SavedRows, SavedNumber
<1>4. Typed'
  BY <1>1, <1>2, NoJobType, FileFacts
     DEF Typed, TypeOK, Jobs, Running, Waiting, Handling, Fits
<1>5. LoadSound' /\ OperationSound'
  BY <1>2 DEF LoadSound, OperationSound, Posting, Closing
<1>6. MemorySound'
  BY <1>1, <1>2 DEF MemorySound, First, Saving, Operating, Posting, Closing, Handling
<1>7. FileSound'
  BY <1>1, <1>2, <1>3 DEF FileSound, Operating, Posting, Closing
<1>. QED  BY <1>4, <1>5, <1>6, <1>7 DEF IInv

\* The load goes on: nothing is answered, and the file is only read.
LEMMA LoadingStep ==
    ASSUME IInv, pc \in Loading, pc' \in Loading, heap' \in Heap, job' \in Jobs,
           job'.cut = "clean", LoadSound', UNCHANGED <<file, before, after, high, stop>>
    PROVE  IInv'
<1>1. pc' \in {"load", "load_number", "load_account"}
  BY DEF Loading
<1>2. Typed'
  BY FileFacts DEF IInv, Typed, TypeOK, Jobs, Running, Fits
<1>3. OperationSound'
  BY <1>1 DEF OperationSound, Posting, Closing
<1>4. MemorySound'
  BY <1>1 DEF MemorySound, First, Saving, Operating, Posting, Closing, Handling
<1>5. SavedRows' = SavedRows /\ SavedNumber' = SavedNumber
  BY DEF SavedRows, SavedNumber
<1>6. FileSound'
  BY <1>1, <1>5 DEF IInv, FileSound, Operating, Posting, Closing
<1>. QED  BY <1>2, <1>3, <1>4, <1>6 DEF IInv

\* A load ends with memory being what the file says.
LEMMA LoadedWhole ==
    ASSUME IInv, pc = "load_account", job.slot = Len(file.accounts)
    PROVE  [heap EXCEPT !.accounts_in_use = job.slot] = Loaded(file)
<1>1. /\ heap.next_number = file.next_number
      /\ heap.bank = [i \in Slots |-> IF i < job.slot THEN LoadedAccount(file.accounts[i + 1])
                                       ELSE ZeroAccount]
      /\ file.kind \in {"cut", "whole"} /\ heap \in Heap
  BY DEF IInv, LoadSound, Typed, TypeOK
<1>2. [heap EXCEPT !.accounts_in_use = job.slot] =
        [bank |-> heap.bank, accounts_in_use |-> job.slot, next_number |-> heap.next_number]
  BY <1>1 DEF Heap
<1>3. Loaded(file) =
        [bank |-> [i \in Slots |-> IF i < Len(file.accounts)
                                   THEN LoadedAccount(file.accounts[i + 1]) ELSE ZeroAccount],
         accounts_in_use |-> Len(file.accounts), next_number |-> file.next_number]
  BY <1>1 DEF Loaded
<1>. QED  BY <1>1, <1>2, <1>3

\* One more account of the file is in its slot.
LEMMA LoadAccountStep ==
    ASSUME IInv, LoadAccount
    PROVE  IInv'
<1> DEFINE n == job.slot
           b == LoadedAccount(file.accounts[n + 1])
<1>1. /\ pc = "load_account" /\ pc' = pc /\ n < Len(file.accounts)
      /\ heap' = [heap EXCEPT !.bank[n] = b]
      /\ job' = [job EXCEPT !.slot = @ + 1]
      /\ UNCHANGED <<file, starts, before, after, high, stop>>
  BY DEF LoadAccount
<1>2. /\ heap \in Heap /\ job \in Jobs /\ n \in Nat /\ job.cut = "clean"
  BY <1>1, BankAssumption DEF IInv, Typed, TypeOK, Handling, Jobs
<1>3. n \in Slots /\ n + 1 \in 1 .. Len(file.accounts) /\ n + 1 \in 0 .. MAX_ACCTS
  <2>1. /\ Len(file.accounts) \in Nat /\ Len(file.accounts) <= MAX_ACCTS
        /\ n \in Nat /\ n < Len(file.accounts) /\ MAX_ACCTS \in Nat
    BY <1>1, <1>2, FileFacts, BankAssumption
  <2> HIDE DEF n
  <2>. QED  BY ONLY <2>1 DEF Slots
<1>4. b \in Account
  BY <1>3, FileFacts, LoadedAccountType
<1> HIDE DEF b
<1>5. heap' \in Heap /\ heap'.bank = [heap.bank EXCEPT ![n] = b]
      /\ heap'.next_number = heap.next_number
  BY <1>1, <1>2, <1>3, <1>4 DEF Heap
<1>6. job' \in Jobs /\ job'.slot = n + 1 /\ job'.cut = "clean"
  BY <1>1, <1>2, <1>3 DEF Jobs
<1>7. /\ heap.next_number = file.next_number /\ file.kind \in {"cut", "whole"}
      /\ heap.bank = [i \in Slots |-> IF i < n THEN LoadedAccount(file.accounts[i + 1])
                                       ELSE ZeroAccount]
  BY <1>1 DEF IInv, LoadSound
<1> DEFINE next == [i \in Slots |-> IF i < n + 1 THEN LoadedAccount(file.accounts[i + 1])
                                    ELSE ZeroAccount]
<1>8. ASSUME NEW i \in Slots
      PROVE  [heap.bank EXCEPT ![n] = b][i] = next[i]
  <2>1. i \in Int /\ n \in Int
    BY <1>2, BankAssumption DEF Slots
  <2>2. CASE i = n
    BY <2>2, <1>3, <1>7, <2>1 DEF b
  <2>3. CASE i # n
    BY <2>3, <1>3, <1>7, <2>1
  <2>. QED  BY <2>2, <2>3
<1>9. heap'.bank = next
  <2>1. DOMAIN [heap.bank EXCEPT ![n] = b] = Slots
    BY <1>2 DEF Heap
  <2>2. [heap.bank EXCEPT ![n] = b] = [i \in Slots |-> [heap.bank EXCEPT ![n] = b][i]]
    BY <2>1, <1>7
  <2>. QED  BY <1>5, <1>8, <2>2
<1>10. LoadSound'
  <2>1. n + 1 <= Len(file.accounts)
    BY <1>1, <1>2, FileFacts
  <2>. QED  BY <1>1, <1>5, <1>6, <1>7, <1>9, <2>1 DEF LoadSound
<1>. QED  BY <1>1, <1>5, <1>6, <1>10, LoadingStep DEF Loading

\* load_data stores the header and the accounts, and returns.
LEMMA LoadSteps ==
    ASSUME IInv, LoadHeader \/ LoadNumber \/ LoadAccount \/ LoadEnds
    PROVE  IInv'
<1>1. CASE LoadHeader
  <2>1. pc = "load" /\ heap = FreshHeap /\ job = NoJob /\ UNCHANGED <<file, starts>>
    BY <1>1 DEF LoadHeader, IInv, LoadSound
  <2>2. CASE file.kind \in {"absent", "empty"}
    <3>1. Ready(heap) /\ heap = Loaded(file)
      BY <1>1, <2>1, <2>2 DEF LoadHeader, Loaded
    <3>. QED  BY <2>1, <3>1, ReadyStep
  <2>3. CASE file.kind \notin {"absent", "empty"}
    <3>1. /\ pc' = "load_number" /\ heap' = [heap EXCEPT !.accounts_in_use = file.accounts_in_use]
          /\ UNCHANGED <<job, before, after, high, stop>>
      BY <1>1, <2>3 DEF LoadHeader, Goto
    <3>2. heap \in Heap /\ file.kind \in {"cut", "whole"}
      BY <2>3, FileFacts DEF IInv, Typed, TypeOK, File
    <3>3. heap' \in Heap /\ heap'.bank = heap.bank
      BY <3>1, <3>2, FileFacts DEF Heap
    <3>4. LoadSound'
      BY <2>1, <3>1, <3>2, <3>3 DEF LoadSound
    <3>. QED  BY <2>1, <3>1, <3>3, <3>4, NoJobType, LoadingStep DEF Loading
  <2>. QED  BY <2>2, <2>3
<1>2. CASE LoadNumber
  <2>1. /\ pc = "load_number" /\ pc' = "load_account"
        /\ heap' = [heap EXCEPT !.next_number = file.next_number]
        /\ UNCHANGED <<job, file, starts, before, after, high, stop>>
    BY <1>2 DEF LoadNumber, Goto
  <2>2. /\ heap \in Heap /\ job = NoJob /\ heap.bank = FreshHeap.bank
        /\ file.kind \in {"cut", "whole"}
    BY <2>1 DEF IInv, Typed, TypeOK, LoadSound
  <2>3. heap' \in Heap /\ heap'.bank = heap.bank /\ heap'.next_number = file.next_number
    BY <2>1, <2>2, FileFacts DEF Heap
  <2>4. ASSUME NEW i \in Slots PROVE ~ (i < 0)
    BY BankAssumption DEF Slots
  <2>5. [i \in Slots |-> IF i < 0 THEN LoadedAccount(file.accounts[i + 1]) ELSE ZeroAccount]
          = [i \in Slots |-> ZeroAccount]
    BY <2>4
  <2>6. FreshHeap.bank = [i \in Slots |-> ZeroAccount]
    BY DEF FreshHeap
  <2>7. 0 <= Len(file.accounts) /\ job'.slot = 0 /\ file' = file
    BY <2>1, <2>2, FileFacts, NoJobType
  <2>8. heap'.bank = [i \in Slots |-> IF i < 0 THEN LoadedAccount(file.accounts[i + 1])
                                       ELSE ZeroAccount]
    BY <2>2, <2>3, <2>5, <2>6
  <2>9. LoadSound'
    BY <2>1, <2>2, <2>3, <2>7, <2>8 DEF LoadSound
  <2>. QED  BY <2>1, <2>2, <2>3, <2>9, NoJobType, LoadingStep DEF Loading
<1>3. CASE LoadAccount
  BY <1>3, LoadAccountStep
<1>4. CASE LoadEnds
  BY <1>4, LoadedWhole, ReadyStep DEF LoadEnds
<1>. QED  BY <1>1, <1>2, <1>3, <1>4

-----------------------------------------------------------------------------
(* A request comes in.                                                     *)

\* Nothing is changed yet but what the request is to leave.
LEMMA BeginStep ==
    ASSUME IInv, NEW p \in First, NEW j \in Jobs, j.cut = "clean", NEW h,
           Begin(p, j, h), OperationSound'
    PROVE  IInv'
<1>1. /\ pc = "recv" /\ pc' = p /\ job' = j /\ after' = Fields(h)
      /\ UNCHANGED <<heap, file, starts, before, high, stop>>
  BY DEF Begin, Goto
<1>2. Fields(heap) = before /\ high = heap.next_number /\ heap.next_number \in Nat
  BY <1>1 DEF IInv, MemorySound, First, Typed, TypeOK, Heap
<1>3. SavedRows' = SavedRows /\ SavedNumber' = SavedNumber
  BY <1>1 DEF SavedRows, SavedNumber
<1>4. Typed'
  BY <1>1 DEF IInv, Typed, TypeOK, Jobs, Running, First, Handling, Fits
<1>5. LoadSound'
  BY <1>1 DEF LoadSound, First
<1>6. MemorySound'
  BY <1>1, <1>2 DEF MemorySound, First, Saving, Handling
<1>7. FileSound'
  <2>1. pc' \in First /\ stop' = stop /\ stop \in {"clean", "unsaved"}
    BY <1>1 DEF IInv, FileSound
  <2>2. stop = "clean" => SavedRows = before /\ SavedNumber >= high
    BY <1>1 DEF IInv, FileSound
  <2>. QED  BY <1>1, <1>3, <2>1, <2>2 DEF FileSound, First
<1>. QED  BY <1>4, <1>5, <1>6, <1>7 DEF IInv

\* open_account is to add an account with the next number to the others.
LEMMA OpenedRows ==
    ASSUME NEW h \in Heap, OpenStatus(h) = "OK", NEW name \in Names, NEW pin \in Pins
    PROVE  LET i == h.accounts_in_use
           IN  Fields(Opened(h, name, pin)) =
                   Others(h, i) \cup {<<h.next_number, pin, name, MIN_BALANCE, 1>>}
<1> DEFINE i == h.accounts_in_use
           a == [ZeroAccount EXCEPT !.number = h.next_number, !.pin = pin,
                                    !.name = name, !.balance = MIN_BALANCE]
           b == remember(a, "D", MIN_BALANCE)
           g == Opened(h, name, pin)
<1>1. /\ a \in Account /\ a.number = h.next_number /\ a.pin = pin /\ a.name = name
      /\ a.balance = MIN_BALANCE /\ a.ntran = 0
  BY ZeroAccountType, ConstantsFit, BankAssumption DEF Account, Heap, ZeroAccount
<1> HIDE DEF a
<1>2. Row(b) = <<h.next_number, pin, name, MIN_BALANCE, 1>>
  BY <1>1, RememberKeeps DEF Row
<1>3. i \in Slots /\ i \in Nat
  BY BankAssumption DEF OpenStatus, Heap, Slots
<1>4. g.bank = [h.bank EXCEPT ![i] = b] /\ g.accounts_in_use = i + 1
  BY DEF Opened, a
<1> HIDE DEF b, g
<1>5. i \in LiveSlots(g) /\ LiveSlots(g) \ {i} = LiveSlots(h) \ {i}
  BY <1>3, <1>4 DEF LiveSlots
<1>6. g.bank[i] = b /\ \A j \in LiveSlots(h) \ {i} : g.bank[j] = h.bank[j]
  BY <1>3, <1>4, SlotBelow DEF Heap
<1>7. Others(g, i) = Others(h, i)
  BY <1>5, <1>6, OthersStay
<1>. QED  BY <1>2, <1>5, <1>6, <1>7, RowsAround DEF g

\* deposit and withdraw are to leave one row with the new balance and count.
LEMMA PostedRows ==
    ASSUME NEW h \in Heap, NEW i \in LiveSlots(h), NEW amt \in CInt
    PROVE  LET a == h.bank[i]
           IN  /\ Fields(Deposited(h, i, amt)) = Others(h, i) \cup
                      {<<a.number, a.pin, a.name, Wrap(a.balance + amt), a.ntran + 1>>}
               /\ Fields(Withdrawn(h, i, amt)) = Others(h, i) \cup
                      {<<a.number, a.pin, a.name, Wrap(a.balance - amt), a.ntran + 1>>}
<1> DEFINE a == h.bank[i]
           c == Credited(a, amt)
           d == Debited(a, amt)
<1>1. a \in Account /\ i \in Slots
  BY SlotBelow DEF Heap
<1>2. Wrap(a.balance + amt) \in CInt /\ Wrap(a.balance - amt) \in CInt
  BY <1>1, WrapType, BankAssumption DEF Account, CInt
<1>3. /\ c \in Account /\ c.number = a.number /\ c.pin = a.pin /\ c.name = a.name
      /\ c.balance = Wrap(a.balance + amt) /\ c.ntran = a.ntran
  BY <1>1, <1>2 DEF Credited, Account
<1>4. /\ d \in Account /\ d.number = a.number /\ d.pin = a.pin /\ d.name = a.name
      /\ d.balance = Wrap(a.balance - amt) /\ d.ntran = a.ntran
  BY <1>1, <1>2 DEF Debited, Account
<1>5. /\ Deposited(h, i, amt) = [h EXCEPT !.bank[i] = remember(c, "D", amt)]
      /\ Withdrawn(h, i, amt) = [h EXCEPT !.bank[i] = remember(d, "W", amt)]
  BY DEF Deposited, Withdrawn, Heap
<1> HIDE DEF a, c, d
<1>6. ASSUME NEW b \in Account
      PROVE  Fields([h EXCEPT !.bank[i] = b]) = Others(h, i) \cup {Row(b)}
  <2> DEFINE g == [h EXCEPT !.bank[i] = b]
  <2>1. i \in LiveSlots(g) /\ g.bank[i] = b /\ Others(g, i) = Others(h, i)
    BY WriteSlot
  <2> HIDE DEF g
  <2>2. Fields(g) = Others(h, i) \cup {Row(b)}
    BY <2>1, RowsAround
  <2>. QED  BY <2>2 DEF g
<1>7. remember(c, "D", amt) \in Account /\ remember(d, "W", amt) \in Account
  BY <1>3, <1>4, RememberType
<1>8. /\ Row(remember(c, "D", amt)) =
             <<a.number, a.pin, a.name, Wrap(a.balance + amt), a.ntran + 1>>
      /\ Row(remember(d, "W", amt)) =
             <<a.number, a.pin, a.name, Wrap(a.balance - amt), a.ntran + 1>>
  BY <1>3, <1>4, RememberKeeps DEF Row
<1>. QED  BY <1>5, <1>6, <1>7, <1>8 DEF a

\* What a request is to leave is its last statements' row and the other rows.
LEMMA ReceiveStep ==
    ASSUME IInv, Receive
    PROVE  IInv'
<1>1. heap \in Heap
  BY DEF IInv, Typed, TypeOK
<1>2. ASSUME NEW name \in Names, NEW pin \in Pins, AskOpen(name, pin)
      PROVE  IInv'
  <2> DEFINE n == heap.accounts_in_use
             j == [NoJob EXCEPT !.slot = n, !.pin = pin, !.name = name, !.type = "D",
                                !.amount = MIN_BALANCE]
             h == Opened(heap, name, pin)
  <2>1. OpenStatus(heap) = "OK" /\ Begin("claim", j, h)
    BY <1>2 DEF AskOpen
  <2>2. n \in Slots /\ n \in 0 .. MAX_ACCTS /\ n \notin LiveSlots(heap)
    BY <1>1, <2>1, BankAssumption DEF OpenStatus, Heap, Slots, LiveSlots
  <2>3. /\ j \in Jobs /\ j.cut = "clean" /\ j.slot = n /\ j.pin = pin /\ j.name = name
        /\ j.type = "D"
    BY <2>2, NoJobType, ConstantsFit, BankAssumption DEF Jobs
  <2> HIDE DEF j
  <2>4. Fields(h) = Others(heap, n) \cup {<<heap.next_number, pin, name, MIN_BALANCE, 1>>}
    BY <1>1, <2>1, OpenedRows
  <2> HIDE DEF h
  <2>5. pc' = "claim" /\ job' = j /\ after' = Fields(h) /\ heap' = heap
    BY <2>1 DEF Begin, Goto
  <2>6. FinalRow' = <<heap.next_number, pin, name, MIN_BALANCE, 1>>
    BY <2>3, <2>5 DEF FinalRow
  <2>7. Others(heap, job.slot)' = Others(heap, n)
    BY <2>3, <2>5
  <2> HIDE DEF n
  <2>8. n = heap.accounts_in_use
    BY DEF n
  <2>9. OperationSound'
    BY <2>2, <2>3, <2>4, <2>5, <2>6, <2>7, <2>8 DEF OperationSound, Posting, Closing
  <2>. QED  BY <2>1, <2>3, <2>9, BeginStep DEF First
<1>3. ASSUME NEW no, NEW pin, AskClose(no, pin)
      PROVE  IInv'
  <2> DEFINE i == Found(heap, no, pin)
             j == [NoJob EXCEPT !.slot = i]
             h == Closed(heap, i)
  <2>1. AuthStatus(heap, no, pin) = "OK" /\ Begin("shrink", j, h)
    BY <1>3 DEF AskClose
  <2>2. i \in LiveSlots(heap)
    BY <1>1, <2>1, FoundMatches
  <2> HIDE DEF i
  <2>3. i \in 0 .. MAX_ACCTS
    BY <1>1, <2>2, SlotBelow, BankAssumption DEF Slots
  <2>4. j \in Jobs /\ j.cut = "clean" /\ j.slot = i /\ j.type = "0"
    BY <2>3, NoJobType DEF Jobs
  <2> HIDE DEF j
  <2>5. pc' = "shrink" /\ job' = j /\ after' = Fields(h) /\ heap' = heap
    BY <2>1 DEF Begin, Goto
  <2>6. OperationSound'
    BY <2>2, <2>4, <2>5 DEF OperationSound, Posting, Closing
  <2>. QED  BY <2>1, <2>4, <2>6, BeginStep DEF First
<1>4. ASSUME NEW p \in {"credit", "debit"}, NEW i \in LiveSlots(heap), NEW typ \in {"D", "W"},
             NEW amt \in CInt, NEW h,
             Begin(p, [NoJob EXCEPT !.slot = i, !.type = typ, !.amount = amt], h),
             Fields(h) = Others(heap, i) \cup
                 {<<heap.bank[i].number, heap.bank[i].pin, heap.bank[i].name,
                    IF p = "credit" THEN Wrap(heap.bank[i].balance + amt)
                                    ELSE Wrap(heap.bank[i].balance - amt),
                    heap.bank[i].ntran + 1>>}
      PROVE  IInv'
  <2> DEFINE j == [NoJob EXCEPT !.slot = i, !.type = typ, !.amount = amt]
  <2>1. i \in Slots /\ i \in 0 .. MAX_ACCTS
    BY <1>1, SlotBelow, BankAssumption DEF Slots
  <2>2. /\ j \in Jobs /\ j.cut = "clean" /\ j.slot = i /\ j.type = typ
        /\ j.amount = amt
    BY <2>1, NoJobType DEF Jobs
  <2>3. Begin(p, j, h)
    BY <1>4
  <2> HIDE DEF j
  <2>4. pc' = p /\ job' = j /\ after' = Fields(h) /\ heap' = heap
    BY <2>3 DEF Begin, Goto
  <2>5. FinalRow' = <<heap.bank[i].number, heap.bank[i].pin, heap.bank[i].name,
                      IF p = "credit" THEN Wrap(heap.bank[i].balance + amt)
                                      ELSE Wrap(heap.bank[i].balance - amt),
                      heap.bank[i].ntran + 1>>
    <3>1. CASE p = "credit"
      BY <2>2, <2>4, <3>1 DEF FinalRow
    <3>2. CASE p = "debit"
      BY <2>2, <2>4, <3>2 DEF FinalRow
    <3>. QED  BY <3>1, <3>2
  <2>6. after' = Others(heap, job.slot)' \cup {FinalRow'}
    BY <1>4, <2>2, <2>4, <2>5
  <2>7. OperationSound'
    BY <2>1, <2>2, <2>4, <2>6 DEF OperationSound, Posting, Closing
  <2>. QED  BY <2>2, <2>3, <2>7, BeginStep DEF First
<1>5. ASSUME NEW no, NEW pin, NEW amt \in Amounts, AskDeposit(no, pin, amt)
      PROVE  IInv'
  <2> DEFINE i == Found(heap, no, pin)
  <2>1. AuthStatus(heap, no, pin) = "OK" /\ amt \in CInt
    BY <1>5, ServerAssumption DEF AskDeposit, DepositStatus
  <2>2. i \in LiveSlots(heap)
    BY <1>1, <2>1, FoundMatches
  <2>3. Begin("credit", [NoJob EXCEPT !.slot = i, !.type = "D", !.amount = amt],
              Deposited(heap, i, amt))
    BY <1>5 DEF AskDeposit
  <2> HIDE DEF i
  <2>. QED  BY <1>1, <1>4, <2>1, <2>2, <2>3, PostedRows
<1>6. ASSUME NEW no, NEW pin, NEW amt \in Amounts, AskWithdraw(no, pin, amt)
      PROVE  IInv'
  <2> DEFINE i == Found(heap, no, pin)
  <2>1. AuthStatus(heap, no, pin) = "OK" /\ amt \in CInt
    BY <1>6, ServerAssumption DEF AskWithdraw, WithdrawStatus, AuthStatus
  <2>2. i \in LiveSlots(heap)
    BY <1>1, <2>1, FoundMatches
  <2>3. Begin("debit", [NoJob EXCEPT !.slot = i, !.type = "W", !.amount = amt],
              Withdrawn(heap, i, amt))
    BY <1>6 DEF AskWithdraw
  <2> HIDE DEF i
  <2>. QED  BY <1>1, <1>4, <2>1, <2>2, <2>3, PostedRows
<1>. QED  BY <1>2, <1>3, <1>5, <1>6 DEF Receive

-----------------------------------------------------------------------------
(* The statements of the operations.                                       *)

\* A statement changes memory only; what is left to show is OperationSound,
\* and the whole effect where the operation goes on to save.
LEMMA StatementStep ==
    ASSUME IInv, pc \in Operating, NEW q \in (Operating \ First) \cup {"truncate"},
           NEW h \in Heap, Step(pc, q, h), h.next_number >= heap.next_number,
           q = "truncate" => Fields(h) = after, OperationSound'
    PROVE  IInv'
<1>1. /\ pc' = q /\ heap' = h
      /\ UNCHANGED <<job, file, starts, before, after, high, stop>>
  BY DEF Step, Goto
<1>2. q \in Mutating \cup {"truncate"}
  BY DEF Operating, Posting, Closing, First, Mutating
<1>3. Typed'
  BY <1>1, <1>2
     DEF IInv, Typed, TypeOK, Jobs, Running, Mutating, Saving, Handling, Operating, Posting,
         Closing, Fits
<1>4. LoadSound'
  BY <1>1, <1>2 DEF LoadSound, Mutating
<1>5. heap'.next_number >= high
  <2>1. heap.next_number >= high /\ heap.next_number \in Nat /\ h.next_number \in Nat
        /\ high \in Nat
    BY DEF IInv, MemorySound, Typed, TypeOK, Heap
  <2>. QED  BY <1>1, <2>1
<1>6. MemorySound'
  BY <1>1, <1>2, <1>5 DEF MemorySound, First, Saving, Mutating, Handling
<1>7. SavedRows' = SavedRows /\ SavedNumber' = SavedNumber
  BY <1>1 DEF SavedRows, SavedNumber
<1>8. FileSound'
  BY <1>1, <1>2, <1>7 DEF IInv, FileSound, Mutating
<1>. QED  BY <1>3, <1>4, <1>6, <1>8 DEF IInv

\* What the invariant says of an operation that posts.
LEMMA PostingFacts ==
    ASSUME IInv, pc \in Posting
    PROVE  /\ heap \in Heap /\ heap.next_number \in Nat
           /\ job \in Jobs /\ job.type \in {"D", "W"}
           /\ job.slot \in Slots /\ heap.bank[job.slot] \in Account
           /\ after = Others(heap, job.slot) \cup {FinalRow}
           /\ pc # "claim" => job.slot \in LiveSlots(heap)
  BY DEF IInv, Typed, TypeOK, OperationSound, Heap

\* A statement that brings the row of its slot nearer to the final one.
LEMMA PostingStep ==
    ASSUME IInv, pc \in Posting, NEW q \in Posting \ First,
           NEW h \in Heap, Step(pc, q, h), h.next_number >= heap.next_number,
           job.slot \in LiveSlots(h), Others(h, job.slot) = Others(heap, job.slot),
           q = "post" => h.bank[job.slot].ntran > 0,
           FinalRow' = FinalRow
    PROVE  IInv'
<1>1. pc' = q /\ heap' = h /\ job' = job /\ after' = after
  BY DEF Step, Goto
<1>2. after' = Others(heap, job.slot)' \cup {FinalRow'}
  BY <1>1, PostingFacts
<1>3. OperationSound'
  BY <1>1, <1>2, PostingFacts DEF OperationSound, Posting, Closing, First
<1>. QED  BY <1>3, StatementStep DEF Operating, Posting, First

\* A statement that writes the account in its slot.
LEMMA WrittenStep ==
    ASSUME IInv, pc \in Posting \ {"claim"}, NEW q \in Posting \ First, NEW b \in Account,
           Step(pc, q, [heap EXCEPT !.bank[job.slot] = b]),
           q = "post" => b.ntran > 0,
           (/\ pc' = q /\ job' = job /\ heap'.bank[job.slot] = b
            /\ heap'.next_number = heap.next_number) => FinalRow' = FinalRow
    PROVE  IInv'
<1> DEFINE h == [heap EXCEPT !.bank[job.slot] = b]
<1>1. heap \in Heap /\ job.slot \in LiveSlots(heap) /\ heap.next_number \in Nat
  BY PostingFacts
<1>2. /\ h \in Heap /\ h.bank[job.slot] = b /\ h.next_number = heap.next_number
      /\ job.slot \in LiveSlots(h) /\ Others(h, job.slot) = Others(heap, job.slot)
  BY <1>1, WriteSlot
<1>3. Step(pc, q, h)
  OBVIOUS
<1> HIDE DEF h
<1>4. pc' = q /\ heap' = h /\ job' = job
  BY <1>3 DEF Step, Goto
<1>5. FinalRow' = FinalRow
  BY <1>2, <1>4
<1>. QED  BY <1>1, <1>2, <1>3, <1>5, PostingStep

\* open_account, up to its posting.
LEMMA OpeningStep ==
    ASSUME IInv, Claim \/ Clear \/ Number \/ Identity \/ Fund
    PROVE  IInv'
<1> DEFINE i == job.slot
           r == heap.bank[i]
<1>1. CASE Claim
  <2> DEFINE h == [heap EXCEPT !.accounts_in_use = @ + 1]
             n == heap.accounts_in_use
  <2>1. pc = "claim" /\ Step(pc, "clear", h)
    BY <1>1 DEF Claim, Step
  <2>2. heap \in Heap /\ i = n /\ i \in Slots
    BY <2>1, PostingFacts DEF IInv, OperationSound, Posting
  <2>3. /\ h \in Heap /\ h.bank = heap.bank /\ h.accounts_in_use = n + 1
        /\ h.next_number = heap.next_number
    <3>1. n + 1 \in 0 .. MAX_ACCTS
      BY <2>2, BankAssumption DEF Heap, Slots
    <3>. QED  BY <2>2, <3>1 DEF Heap
  <2> HIDE DEF h
  <2>4. i \in LiveSlots(h) /\ LiveSlots(h) \ {i} = LiveSlots(heap) \ {i}
    BY <2>2, <2>3, BankAssumption DEF LiveSlots, Slots
  <2>5. Others(h, i) = Others(heap, i)
    BY <2>3, <2>4, OthersStay
  <2>6. pc' = "clear" /\ heap' = h /\ job' = job
    BY <2>1 DEF Step, Goto
  <2>7. FinalRow' = FinalRow
    BY <2>1, <2>3, <2>6 DEF FinalRow
  <2>8. h.next_number >= heap.next_number
    BY <2>2, <2>3 DEF Heap
  <2>. QED  BY <2>1, <2>3, <2>4, <2>5, <2>7, <2>8, PostingStep DEF Posting, First
<1>2. CASE Clear
  <2>1. pc = "clear" /\ Step(pc, "number", [heap EXCEPT !.bank[i] = ZeroAccount])
    BY <1>2 DEF Clear, Step
  <2>2. ZeroAccount.ntran + 1 = 1
    BY DEF ZeroAccount
  <2>3. ASSUME pc' = "number", job' = job, heap'.bank[i] = ZeroAccount,
               heap'.next_number = heap.next_number
        PROVE  FinalRow' = FinalRow
    BY <2>1, <2>2, <2>3 DEF FinalRow
  <2>. QED  BY <2>1, <2>3, WrittenStep, ZeroAccountType DEF Posting, First
<1>3. CASE Number
  <2> DEFINE b == [r EXCEPT !.number = heap.next_number]
             g == [heap EXCEPT !.bank[i] = b]
             h == [heap EXCEPT !.bank[i].number = heap.next_number, !.next_number = @ + 1]
  <2>1. pc = "number" /\ Step(pc, "identity", h)
    BY <1>3 DEF Number, Step
  <2>2. /\ heap \in Heap /\ i \in LiveSlots(heap) /\ i \in Slots /\ r \in Account
        /\ heap.next_number \in Nat
    BY <2>1, PostingFacts DEF Posting
  <2>3. b \in Account /\ b.number = heap.next_number /\ b.ntran = r.ntran
    BY <2>2 DEF Account
  <2>4. h = [g EXCEPT !.next_number = heap.next_number + 1]
    BY <2>2 DEF Heap
  <2> HIDE DEF b
  <2>5. /\ g \in Heap /\ g.bank[i] = b
        /\ i \in LiveSlots(g) /\ Others(g, i) = Others(heap, i)
    BY <2>2, <2>3, WriteSlot
  <2> HIDE DEF g, h
  <2>6. /\ h \in Heap /\ h.bank = g.bank /\ h.accounts_in_use = g.accounts_in_use
        /\ h.next_number = heap.next_number + 1
    BY <2>2, <2>4, <2>5 DEF Heap
  <2>7. LiveSlots(h) = LiveSlots(g) /\ Others(h, i) = Others(g, i)
    BY <2>6 DEF LiveSlots, Others
  <2>8. pc' = "identity" /\ heap' = h /\ job' = job
    BY <2>1 DEF Step, Goto
  <2>9. FinalRow' = FinalRow
    BY <2>1, <2>3, <2>5, <2>6, <2>8 DEF FinalRow
  <2>. QED  BY <2>1, <2>2, <2>5, <2>6, <2>7, <2>9, PostingStep DEF Posting, First
<1>4. CASE Identity
  <2> DEFINE b == [r EXCEPT !.pin = job.pin, !.name = job.name]
  <2>1. pc = "identity" /\ Step(pc, "balance", [heap EXCEPT !.bank[i].pin = job.pin, !.bank[i].name = job.name])
    BY <1>4 DEF Identity, Step
  <2>2. /\ heap \in Heap /\ i \in Slots /\ r \in Account /\ job \in Jobs
    BY <2>1, PostingFacts DEF Posting
  <2>3. /\ b \in Account /\ b.number = r.number /\ b.pin = job.pin /\ b.name = job.name
        /\ b.ntran = r.ntran
    BY <2>2 DEF Account, Jobs
  <2>4. [heap EXCEPT !.bank[i].pin = job.pin, !.bank[i].name = job.name] = [heap EXCEPT !.bank[i] = b]
    BY <2>2 DEF Heap
  <2> HIDE DEF b
  <2>5. ASSUME pc' = "balance", job' = job, heap'.bank[i] = b
        PROVE  FinalRow' = FinalRow
    BY <2>1, <2>3, <2>5 DEF FinalRow
  <2>. QED  BY <2>1, <2>3, <2>4, <2>5, WrittenStep DEF Posting, First
<1>5. CASE Fund
  <2> DEFINE b == [r EXCEPT !.balance = MIN_BALANCE]
  <2>1. pc = "balance" /\ Step(pc, "count", [heap EXCEPT !.bank[i].balance = MIN_BALANCE])
    BY <1>5 DEF Fund, Step
  <2>2. /\ heap \in Heap /\ i \in Slots /\ r \in Account /\ job \in Jobs
    BY <2>1, PostingFacts DEF Posting
  <2>3. /\ b \in Account /\ b.number = r.number /\ b.pin = r.pin /\ b.name = r.name
        /\ b.ntran = r.ntran /\ b.balance = MIN_BALANCE
    BY <2>2, ConstantsFit DEF Account
  <2>4. [heap EXCEPT !.bank[i].balance = MIN_BALANCE] = [heap EXCEPT !.bank[i] = b]
    BY <2>2 DEF Heap
  <2> HIDE DEF b
  <2>5. ASSUME pc' = "count", job' = job, heap'.bank[i] = b
        PROVE  FinalRow' = FinalRow
    BY <2>1, <2>3, <2>5 DEF FinalRow
  <2>. QED  BY <2>1, <2>3, <2>4, <2>5, WrittenStep DEF Posting, First
<1>. QED  BY <1>1, <1>2, <1>3, <1>4, <1>5

\* deposit and withdraw, up to their posting, and remember counting it.
LEMMA PostStep ==
    ASSUME IInv, Credit \/ Debit \/ Count
    PROVE  IInv'
<1> DEFINE i == job.slot
           r == heap.bank[i]
<1>1. CASE Credit
  <2> DEFINE b == Credited(r, job.amount)
  <2>1. /\ pc = "credit"
        /\ Step(pc, "count", [heap EXCEPT !.bank[i] = Credited(@, job.amount)])
    BY <1>1 DEF Credit, Step
  <2>2. heap \in Heap /\ i \in Slots /\ r \in Account /\ job \in Jobs
    BY <2>1, PostingFacts DEF Posting
  <2>3. Wrap(r.balance + job.amount) \in CInt
    BY <2>2, WrapType, BankAssumption DEF Account, Jobs, CInt
  <2>4. /\ b \in Account /\ b.number = r.number /\ b.pin = r.pin /\ b.name = r.name
        /\ b.ntran = r.ntran /\ b.balance = Wrap(r.balance + job.amount)
    BY <2>2, <2>3 DEF Credited, Account
  <2>5. [heap EXCEPT !.bank[i] = Credited(@, job.amount)] = [heap EXCEPT !.bank[i] = b]
    BY <2>2 DEF Heap
  <2> HIDE DEF b
  <2>6. ASSUME pc' = "count", job' = job, heap'.bank[i] = b
        PROVE  FinalRow' = FinalRow
    BY <2>1, <2>4, <2>6 DEF FinalRow
  <2>. QED  BY <2>1, <2>4, <2>5, <2>6, WrittenStep DEF Posting, First
<1>2. CASE Debit
  <2> DEFINE b == Debited(r, job.amount)
  <2>1. /\ pc = "debit"
        /\ Step(pc, "count", [heap EXCEPT !.bank[i] = Debited(@, job.amount)])
    BY <1>2 DEF Debit, Step
  <2>2. heap \in Heap /\ i \in Slots /\ r \in Account /\ job \in Jobs
    BY <2>1, PostingFacts DEF Posting
  <2>3. Wrap(r.balance - job.amount) \in CInt
    BY <2>2, WrapType, BankAssumption DEF Account, Jobs, CInt
  <2>4. /\ b \in Account /\ b.number = r.number /\ b.pin = r.pin /\ b.name = r.name
        /\ b.ntran = r.ntran /\ b.balance = Wrap(r.balance - job.amount)
    BY <2>2, <2>3 DEF Debited, Account
  <2>5. [heap EXCEPT !.bank[i] = Debited(@, job.amount)] = [heap EXCEPT !.bank[i] = b]
    BY <2>2 DEF Heap
  <2> HIDE DEF b
  <2>6. ASSUME pc' = "count", job' = job, heap'.bank[i] = b
        PROVE  FinalRow' = FinalRow
    BY <2>1, <2>4, <2>6 DEF FinalRow
  <2>. QED  BY <2>1, <2>4, <2>5, <2>6, WrittenStep DEF Posting, First
<1>3. CASE Count
  <2> DEFINE b == [r EXCEPT !.ntran = @ + 1]
  <2>1. pc = "count" /\ Step(pc, "post", [heap EXCEPT !.bank[i].ntran = @ + 1])
    BY <1>3 DEF Count, Step
  <2>2. heap \in Heap /\ i \in Slots /\ r \in Account
    BY <2>1, PostingFacts DEF Posting
  <2>3. /\ b \in Account /\ b.number = r.number /\ b.pin = r.pin /\ b.name = r.name
        /\ b.ntran = r.ntran + 1 /\ b.ntran > 0 /\ b.balance = r.balance
    BY <2>2 DEF Account
  <2>4. [heap EXCEPT !.bank[i].ntran = @ + 1] = [heap EXCEPT !.bank[i] = b]
    BY <2>2 DEF Heap
  <2> HIDE DEF b
  <2>5. ASSUME pc' = "post", job' = job, heap'.bank[i] = b
        PROVE  FinalRow' = FinalRow
    BY <2>1, <2>3, <2>5 DEF FinalRow, Row
  <2>. QED  BY <2>1, <2>3, <2>4, <2>5, WrittenStep DEF Posting, First
<1>. QED  BY <1>1, <1>2, <1>3

\* remember's last statement: the transaction is in the ring.
LEMMA RingStep ==
    ASSUME IInv, Post
    PROVE  IInv'
<1> DEFINE i == job.slot
           r == heap.bank[i]
           k == (r.ntran - 1) % TRANS_KEEP
           t == [type |-> job.type, amount |-> job.amount, balance_after |-> r.balance]
           b == [r EXCEPT !.last[k] = t]
           h == [heap EXCEPT !.bank[i] = b]
<1>1. /\ pc = "post" /\ heap \in Heap /\ i \in Slots /\ i \in LiveSlots(heap)
      /\ r \in Account /\ job \in Jobs /\ job.type \in {"D", "W"} /\ r.ntran > 0
      /\ after = Others(heap, i) \cup {FinalRow}
  <2>1. pc = "post"
    BY DEF Post, Step
  <2>2. r.ntran > 0
    BY <2>1 DEF IInv, OperationSound
  <2>. QED  BY <2>1, <2>2, PostingFacts DEF Posting
<1>2. slot_for([r EXCEPT !.ntran = @ - 1]) = k
  BY <1>1 DEF slot_for, Account
<1>3. Step(pc, "truncate", [heap EXCEPT !.bank[i].last[k] = t])
  BY <1>1, <1>2 DEF Post, Step
<1>4. k \in Ring
  <2>1. r.ntran - 1 \in Int /\ TRANS_KEEP \in Nat \ {0}
    BY <1>1, BankAssumption DEF Account
  <2>. QED  BY <2>1, ModRange DEF Ring
<1>5. t \in Tran
  BY <1>1 DEF Account, Jobs, Tran
<1> HIDE DEF k, t
<1>6. /\ b \in Account /\ b.last[k] = t /\ b.number = r.number /\ b.pin = r.pin
      /\ b.name = r.name /\ b.balance = r.balance /\ b.ntran = r.ntran
  BY <1>1, <1>4, <1>5 DEF Account
<1>7. h = [heap EXCEPT !.bank[i].last[k] = t]
  BY <1>1 DEF Heap
<1> HIDE DEF b
<1>8. /\ h \in Heap /\ h.bank[i] = b /\ h.next_number = heap.next_number
      /\ i \in LiveSlots(h) /\ Others(h, i) = Others(heap, i)
  BY <1>1, <1>6, WriteSlot
<1> HIDE DEF h
<1>9. Row(b) = FinalRow
  BY <1>1, <1>6 DEF FinalRow, Row
<1>10. Fields(h) = after
  BY <1>1, <1>8, <1>9, RowsAround
<1>11. pc' = "truncate" /\ heap' = h /\ job' = job
  BY <1>3, <1>7 DEF Step, Goto
<1>12. OperationSound'
  <2>1. /\ job.slot \in LiveSlots(h) /\ h.bank[job.slot].ntran > 0
        /\ h.bank[job.slot].last[(h.bank[job.slot].ntran - 1) % TRANS_KEEP] =
               [type |-> job.type, amount |-> job.amount,
                balance_after |-> h.bank[job.slot].balance]
    BY <1>1, <1>6, <1>8 DEF k, t
  <2>. QED  BY <1>11, <2>1 DEF OperationSound, Posting, Closing
<1>13. h.next_number >= heap.next_number
  BY <1>1, <1>8 DEF Heap
<1>. QED
  BY <1>1, <1>3, <1>7, <1>8, <1>10, <1>12, <1>13, StatementStep DEF Operating, Posting

\* close_account: the last account moves into the gap.
LEMMA ClosingStep ==
    ASSUME IInv, Shrink \/ Move
    PROVE  IInv'
<1> DEFINE i == job.slot
           n == heap.accounts_in_use
<1>1. CASE Shrink
  <2> DEFINE h == [heap EXCEPT !.accounts_in_use = @ - 1]
  <2>1. pc = "shrink" /\ Step(pc, "move", h)
    BY <1>1 DEF Shrink, Step
  <2>2. /\ heap \in Heap /\ i \in LiveSlots(heap) /\ job.type = "0"
        /\ after = Fields(Closed(heap, i))
    BY <2>1 DEF IInv, Typed, TypeOK, OperationSound, Closing
  <2>3. n \in Nat /\ i \in 0 .. n - 1 /\ n <= MAX_ACCTS /\ i <= n - 1 /\ n - 1 \in Slots
    BY <2>2, BankAssumption DEF Heap, LiveSlots, Slots
  <2>4. /\ h \in Heap /\ h.bank = heap.bank /\ h.accounts_in_use = n - 1
        /\ h.next_number = heap.next_number
    <3>1. n - 1 \in 0 .. MAX_ACCTS
      BY <2>3, BankAssumption
    <3>. QED  BY <2>2, <3>1 DEF Heap
  <2>5. [h EXCEPT !.bank[i] = h.bank[h.accounts_in_use]] = Closed(heap, i)
    BY <2>2, <2>4 DEF Closed, Heap
  <2> HIDE DEF h
  <2>6. pc' = "move" /\ heap' = h /\ job' = job /\ after' = after
    BY <2>1 DEF Step, Goto
  <2>7. OperationSound'
    BY <2>2, <2>3, <2>4, <2>5, <2>6 DEF OperationSound, Posting, Closing
  <2>8. h.next_number >= heap.next_number
    BY <2>2, <2>4 DEF Heap
  <2>. QED  BY <2>1, <2>4, <2>7, <2>8, StatementStep DEF Operating, Closing, First
<1>2. CASE Move
  <2> DEFINE h == [heap EXCEPT !.bank[i] = heap.bank[n]]
  <2>1. pc = "move" /\ Step(pc, "truncate", h)
    BY <1>2 DEF Move, Step
  <2>2. heap \in Heap /\ n \in Slots /\ job.type = "0" /\ after = Fields(h) /\ i <= n
    BY <2>1 DEF IInv, Typed, TypeOK, OperationSound, Closing
  <2>3. i \in Slots
    BY <2>2, BankAssumption DEF IInv, Typed, Jobs, Slots
  <2>4. h \in Heap /\ h.next_number = heap.next_number
    BY <2>2, <2>3 DEF Heap
  <2> HIDE DEF h
  <2>5. pc' = "truncate" /\ job' = job
    BY <2>1 DEF Step, Goto
  <2>6. OperationSound'
    BY <2>2, <2>5 DEF OperationSound, Posting, Closing
  <2>7. h.next_number >= heap.next_number
    BY <2>2, <2>4 DEF Heap
  <2>. QED  BY <2>1, <2>2, <2>4, <2>6, <2>7, StatementStep DEF Operating, Closing
<1>. QED  BY <1>1, <1>2

\* Every statement of an operation.
LEMMA OperateStep ==
    ASSUME IInv, Operate
    PROVE  IInv'
  BY OpeningStep, PostStep, RingStep, ClosingStep DEF Operate

-----------------------------------------------------------------------------
(* Saving, answering, and being stopped.                                   *)

\* Truncating, writing and closing leave a well-formed file.
LEMMA FilesFit ==
    ASSUME IInv
    PROVE  /\ EmptyFile \in File /\ Fits(EmptyFile)
           /\ Image(heap) \in File /\ Fits(Image(heap))
           /\ \A k \in 1 .. heap.accounts_in_use :
                  Cut(heap, k) \in File /\ Fits(Cut(heap, k))
<1>1. heap \in Heap /\ heap.accounts_in_use \in 0 .. MAX_ACCTS
  BY DEF IInv, Typed, TypeOK, Heap
<1>2. EmptyFile.accounts_in_use = 0
  BY DEF EmptyFile, NoFile
<1>3. Fits(EmptyFile)
  BY <1>2, EmptyLoads, BankAssumption DEF Fits
<1>4. Image(heap).accounts_in_use = heap.accounts_in_use
  BY DEF Image
<1>5. Fits(Image(heap))
  BY <1>1, <1>4, ImageLoads, BankAssumption DEF Fits
<1>6. ASSUME NEW k \in 1 .. heap.accounts_in_use
      PROVE  Cut(heap, k) \in File /\ Fits(Cut(heap, k))
  <2>1. Cut(heap, k) \in File /\ Len(Cut(heap, k).accounts) = k
    BY <1>1, CutLoads
  <2>2. Image(heap) \in File
    BY <1>1, ImageLoads
  <2>3. Cut(heap, k).accounts_in_use = heap.accounts_in_use
    BY <1>4, <2>2 DEF Cut, File
  <2>. QED  BY <1>1, <2>1, <2>3, BankAssumption DEF Fits
<1>. QED  BY <1>1, <1>3, <1>5, <1>6, EmptyLoads, ImageLoads

\* fopen empties the file.
LEMMA TruncateStep ==
    ASSUME IInv, Truncate
    PROVE  IInv'
<1>1. /\ pc \in {"truncate", "handler"} /\ file' = EmptyFile
      /\ pc = "truncate" => pc' = "write"
      /\ pc = "handler" => pc' = "handler_write"
      /\ UNCHANGED <<job, heap, starts, before, after, high>>
      /\ stop' = IF job.cut = "clean" /\ stop = "clean" THEN "torn" ELSE "mangled"
  BY DEF Truncate, SaveStep, Goto
<1>2. Typed'
  BY <1>1, FilesFit DEF IInv, Typed, TypeOK, Running, Saving, Handling, Fits, Jobs
<1>3. LoadSound' /\ OperationSound'
  BY <1>1 DEF LoadSound, OperationSound, Posting, Closing
<1>4. MemorySound'
  BY <1>1 DEF IInv, MemorySound, First, Saving, Operating, Posting, Closing, Handling
<1>5. FileSound'
  <2>1. file'.kind # "cut" /\ stop' \in {"torn", "mangled"} /\ (stop' = "torn" => job'.cut = "clean")
    BY <1>1, EmptyLoads
  <2>. QED  BY <1>1, <2>1 DEF FileSound, Operating, Posting, Closing
<1>. QED  BY <1>2, <1>3, <1>4, <1>5 DEF IInv

\* The first part of the table goes out.
LEMMA FlushStep ==
    ASSUME IInv, Flush
    PROVE  IInv'
<1>1. PICK k \in Len(file.accounts) + 1 .. heap.accounts_in_use :
          SaveStep(pc, Cut(heap, k)) /\ UNCHANGED stop
  BY DEF Flush
<1>2. heap \in Heap /\ k \in 1 .. heap.accounts_in_use
  BY FileFacts, BankAssumption DEF IInv, Typed, TypeOK, Heap
<1>3. /\ pc \in {"write", "handler_write"} /\ pc' = pc /\ file' = Cut(heap, k)
      /\ UNCHANGED <<job, heap, starts, before, after, high, stop>>
  BY <1>1 DEF Flush, SaveStep, Goto
<1>4. Typed'
  BY <1>2, <1>3, FilesFit DEF IInv, Typed, TypeOK, Running, Saving, Handling, Fits, Jobs
<1>5. LoadSound' /\ OperationSound'
  BY <1>3 DEF LoadSound, OperationSound, Posting, Closing
<1>6. MemorySound'
  BY <1>3 DEF IInv, MemorySound, First, Saving, Operating, Posting, Closing, Handling
<1>7. ASSUME stop = "torn"
      PROVE  Fields(heap) \in {before, after} /\ heap.next_number >= high
  BY <1>3, <1>7 DEF IInv, FileSound, MemorySound, Saving, Operating, Handling
<1>8. SavedRows' \subseteq Fields(heap) /\ SavedNumber' = heap.next_number
  BY <1>2, <1>3, CutLoads DEF SavedRows, SavedNumber
<1>9. FileSound'
  <2>1. stop \in {"torn", "mangled"} /\ (pc = "handler_write" /\ stop = "torn" => job.cut = "clean")
    BY <1>3 DEF IInv, FileSound
  <2>. QED  BY <1>3, <1>7, <1>8, <2>1 DEF FileSound, Operating, Posting, Closing
<1>. QED  BY <1>4, <1>5, <1>6, <1>9 DEF IInv

\* What a process that has ended leaves of the invariant.
LEMMA DeadStep ==
    ASSUME IInv, Die, file' \in File, Fits(file'), stop' \in Stops,
           stop' = "clean" => SavedRows' \in {before, after} /\ SavedNumber' >= high,
           stop' = "torn" /\ file'.kind = "cut" =>
               SavedRows' \subseteq before \cup after /\ SavedNumber' >= high
    PROVE  IInv'
<1>1. /\ pc' = "down" /\ heap' = FreshHeap /\ job' = NoJob
      /\ UNCHANGED <<starts, before, after, high>>
  BY DEF Die, Goto
<1>2. Typed'
  BY <1>1, FreshHeapType, NoJobType DEF IInv, Typed, TypeOK, Jobs, Stops, Handling, Fits
<1>3. LoadSound' /\ OperationSound'
  BY <1>1 DEF LoadSound, OperationSound, Posting, Closing
<1>4. MemorySound'
  BY <1>1 DEF MemorySound, First, Saving, Operating, Posting, Closing, Handling
<1>5. FileSound'
  BY <1>1 DEF FileSound, Operating, Posting, Closing
<1>. QED  BY <1>2, <1>3, <1>4, <1>5 DEF IInv

\* The file is closed: it holds what memory holds.
LEMMA CloseFileStep ==
    ASSUME IInv, CloseFile
    PROVE  IInv'
<1>1. /\ file' = Image(heap) /\ stop' = job.cut /\ pc \in {"write", "handler_write"}
  BY DEF CloseFile, SaveStep
<1>2. heap \in Heap /\ job.cut \in Stops /\ heap.next_number \in Nat /\ high \in Nat
  BY DEF IInv, Typed, TypeOK, Jobs, Heap
<1>3. /\ SavedRows' = Fields(heap) /\ SavedNumber' = heap.next_number
      /\ file'.kind = "whole"
  BY <1>1, <1>2, ImageLoads DEF SavedRows, SavedNumber
<1>4. CASE pc = "handler_write"
  <2>1. Die
    BY <1>4 DEF CloseFile
  <2>2. job.cut = "clean" => Fields(heap) \in {before, after} /\ heap.next_number >= high
    BY <1>4 DEF IInv, MemorySound, Handling
  <2>. QED
    BY <1>1, <1>2, <1>3, <2>1, <2>2, FilesFit, DeadStep DEF Die
<1>5. CASE pc = "write"
  <2>1. pc' = "send" /\ UNCHANGED <<job, heap, starts, before, after, high>>
    BY <1>5 DEF CloseFile, SaveStep, Goto
  <2>2. Fields(heap) = after /\ heap.next_number >= high /\ job.cut = "clean"
    BY <1>5 DEF IInv, MemorySound, Saving, Typed, Handling
  <2>3. Typed'
    BY <1>1, <2>1, <2>2, FilesFit
       DEF IInv, Typed, TypeOK, Running, Waiting, Handling, Fits, Jobs, Stops
  <2>4. LoadSound' /\ OperationSound'
    BY <2>1 DEF LoadSound, OperationSound, Posting, Closing
  <2>5. MemorySound'
    BY <2>1, <2>2 DEF MemorySound, First, Handling
  <2>6. FileSound'
    BY <1>1, <1>3, <2>1, <2>2 DEF FileSound
  <2>. QED  BY <2>3, <2>4, <2>5, <2>6 DEF IInv
<1>. QED  BY <1>1, <1>4, <1>5

\* fopen fails: the operation answers all the same.
LEMMA SaveFailsStep ==
    ASSUME IInv, SaveFails
    PROVE  IInv'
<1>1. /\ pc = "truncate" /\ pc' = "send" /\ file' = file /\ stop' = "unsaved"
      /\ UNCHANGED <<job, heap, starts, before, after, high>>
  BY DEF SaveFails, SaveStep, Goto
<1>2. Fields(heap) = after /\ heap.next_number >= high
  BY <1>1 DEF IInv, MemorySound, Saving
<1>3. Typed'
  BY <1>1 DEF IInv, Typed, TypeOK, Running, Waiting, Handling, Fits, Jobs
<1>4. LoadSound' /\ OperationSound'
  BY <1>1 DEF LoadSound, OperationSound, Posting, Closing
<1>5. MemorySound'
  BY <1>1, <1>2 DEF MemorySound, First, Handling
<1>6. FileSound'
  BY <1>1 DEF FileSound
<1>. QED  BY <1>3, <1>4, <1>5, <1>6 DEF IInv

\* The answer is sent.
LEMMA SendStep ==
    ASSUME IInv, Send
    PROVE  IInv'
<1>1. /\ pc = "send" /\ pc' = "recv" /\ job' = NoJob /\ before' = after
      /\ high' = heap.next_number /\ UNCHANGED <<heap, file, starts, after, stop>>
  BY DEF Send, Goto
<1>2. Fields(heap) = after /\ heap.next_number \in Nat
  BY <1>1 DEF IInv, MemorySound, Typed, TypeOK, Heap
<1>3. /\ stop \in {"clean", "unsaved"}
      /\ stop = "clean" => SavedRows = after /\ SavedNumber = heap.next_number
  BY <1>1 DEF IInv, FileSound
<1>4. Typed'
  BY <1>1, <1>2, NoJobType DEF IInv, Typed, TypeOK, Running, Waiting, Handling, Fits, Jobs
<1>5. LoadSound' /\ OperationSound'
  BY <1>1 DEF LoadSound, OperationSound, Posting, Closing
<1>6. MemorySound'
  BY <1>1, <1>2 DEF MemorySound, First, Saving, Operating, Posting, Closing, Handling
<1>7. SavedRows' = SavedRows /\ SavedNumber' = SavedNumber
  BY <1>1 DEF SavedRows, SavedNumber
<1>8. FileSound'
  BY <1>1, <1>2, <1>3, <1>7 DEF FileSound
<1>. QED  BY <1>4, <1>5, <1>6, <1>8 DEF IInv

\* The handler cuts in; between operations it finds their whole effect.
LEMMA SignalStep ==
    ASSUME IInv, Signal
    PROVE  IInv'
<1> DEFINE c == CASE pc \in Mutating -> "half"
                  [] pc \in Loading -> IF stop = "clean" THEN "loading" ELSE "mangled"
                  [] OTHER -> "clean"
<1>1. /\ pc \in Running /\ pc' = "handler" /\ job' = [NoJob EXCEPT !.cut = c]
      /\ UNCHANGED <<heap, file, starts, before, after, high, stop>>
  BY DEF Signal, Goto
<1>2. /\ c \in {"half", "loading", "mangled", "clean"}
      /\ c = "clean" => pc \notin Mutating /\ pc \notin Loading
  BY DEF Mutating, Loading
<1> HIDE DEF c
<1>3. job' \in Jobs /\ job'.cut = c
  BY <1>1, <1>2, NoJobType DEF Jobs, Stops
<1>4. ASSUME c = "clean"
      PROVE  Fields(heap) \in {before, after} /\ heap.next_number >= high
  <2>1. pc \in First \cup Saving \cup Waiting
    BY <1>1, <1>2, <1>4 DEF Running
  <2>2. heap.next_number \in Nat
    BY DEF IInv, Typed, TypeOK, Heap
  <2>3. CASE pc = "recv"
    BY <2>2, <2>3 DEF IInv, MemorySound
  <2>4. CASE pc \in First
    BY <2>4 DEF IInv, MemorySound, First, Operating, Posting, Closing
  <2>5. CASE pc \in Saving \cup {"send"}
    BY <2>5 DEF IInv, MemorySound
  <2>. QED  BY <2>1, <2>3, <2>4, <2>5 DEF Waiting
<1>5. Typed'
  BY <1>1, <1>3 DEF IInv, Typed, TypeOK, Handling, Fits, Jobs
<1>6. LoadSound' /\ OperationSound'
  BY <1>1 DEF LoadSound, OperationSound, Posting, Closing
<1>7. MemorySound'
  BY <1>1, <1>3, <1>4 DEF MemorySound, First, Saving, Operating, Posting, Closing
<1>8. SavedRows' = SavedRows /\ SavedNumber' = SavedNumber
  BY <1>1 DEF SavedRows, SavedNumber
<1>9. FileSound'
  BY <1>1, <1>8 DEF IInv, FileSound, Operating, Posting, Closing
<1>. QED  BY <1>5, <1>6, <1>7, <1>9 DEF IInv

\* A kill leaves the file; a start finds it.
LEMMA KillAndBootStep ==
    ASSUME IInv, Kill \/ Boot
    PROVE  IInv'
<1>1. file' = file /\ stop' = stop /\ SavedRows' = SavedRows /\ SavedNumber' = SavedNumber
  BY DEF Kill, Boot, SavedRows, SavedNumber
<1>2. CASE Kill
  <2>1. stop \in Stops
    BY DEF IInv, Typed, TypeOK, Stops
  <2>2. /\ stop = "clean" => SavedRows \in {before, after} /\ SavedNumber >= high
        /\ stop = "torn" /\ file.kind = "cut" =>
               SavedRows \subseteq before \cup after /\ SavedNumber >= high
    BY DEF IInv, FileSound
  <2>. QED  BY <1>1, <1>2, <2>1, <2>2, FileFacts, DeadStep DEF Kill
<1>3. CASE Boot
  <2>1. /\ pc = "down" /\ pc' = "load"
        /\ UNCHANGED <<job, heap, file, before, after, high, stop>>
    BY <1>3 DEF Boot, Goto
  <2>2. Typed'
    BY <2>1 DEF IInv, Typed, TypeOK, Running, Loading, Handling, Fits, Jobs
  <2>3. LoadSound' /\ OperationSound'
    BY <2>1 DEF IInv, LoadSound, OperationSound, Posting, Closing
  <2>4. MemorySound'
    BY <2>1 DEF MemorySound, First, Saving, Operating, Posting, Closing, Handling
  <2>5. FileSound'
    BY <1>1, <2>1 DEF IInv, FileSound, Operating, Posting, Closing
  <2>. QED  BY <2>2, <2>3, <2>4, <2>5 DEF IInv
<1>. QED  BY <1>2, <1>3

\* Every step keeps the invariant.
LEMMA NextStep ==
    ASSUME IInv, [Next]_vars
    PROVE  IInv'
<1>1. CASE UNCHANGED vars
  <2>1. UNCHANGED <<pc, job, heap, file, starts, before, after, high, stop>>
    BY <1>1 DEF vars
  <2>2. LoadSound' = LoadSound /\ OperationSound' = OperationSound
    BY <2>1 DEF LoadSound, OperationSound, FinalRow
  <2>3. MemorySound' = MemorySound /\ FileSound' = FileSound
    BY <2>1 DEF MemorySound, FileSound, SavedRows, SavedNumber
  <2>4. Typed' = Typed
    BY <2>1 DEF Typed, TypeOK, Fits
  <2>. QED  BY <2>2, <2>3, <2>4 DEF IInv
<1>2. CASE LoadHeader \/ LoadNumber \/ LoadAccount \/ LoadEnds
  BY <1>2, LoadSteps
<1>3. CASE Receive \/ Operate \/ Send
  BY <1>3, ReceiveStep, OperateStep, SendStep
<1>4. CASE Truncate \/ Flush \/ CloseFile \/ SaveFails
  BY <1>4, TruncateStep, FlushStep, CloseFileStep, SaveFailsStep
<1>5. CASE Signal \/ Kill \/ Boot
  BY <1>5, SignalStep, KillAndBootStep
<1>. QED  BY <1>1, <1>2, <1>3, <1>4, <1>5 DEF Next

-----------------------------------------------------------------------------
(* Theorems.                                                               *)

\* The inductive invariant: what is left of the request in progress makes of
\* memory what the operation is to leave, and the file is what stop says.
THEOREM Invariance == Spec => []IInv
<1>1. IInv /\ [Next]_vars => IInv'
  BY NextStep
<1>. QED  BY <1>1, InitIInv, PTL DEF Spec

\* The globals stay in range, the half-done load and operation included.
THEOREM TypeCorrect == Spec => []TypeOK
<1>1. IInv => TypeOK
  BY DEF IInv, Typed
<1>. QED  BY <1>1, Invariance, PTL

\* The statements of open_account, close_account, deposit and withdraw add up
\* to the operation, and its posting is the last one a statement shows.
THEOREM StatementsAddUp == Spec => []OperationDone
<1>1. ASSUME IInv PROVE OperationDone
  <2>1. ASSUME pc = "truncate" PROVE Fields(heap) = after
    BY <1>1, <2>1 DEF IInv, MemorySound, Saving
  <2>2. ASSUME pc = "truncate", job.type # "0"
        PROVE  LET a == heap.bank[job.slot]  s == Kept(a)
               IN  s[Len(s)] = [type |-> job.type, amount |-> job.amount,
                                balance_after |-> a.balance]
    <3> DEFINE a == heap.bank[job.slot]
    <3>1. /\ job.slot \in LiveSlots(heap) /\ a.ntran > 0
          /\ a.last[(a.ntran - 1) % TRANS_KEEP] =
                 [type |-> job.type, amount |-> job.amount, balance_after |-> a.balance]
      BY <1>1, <2>2 DEF IInv, OperationSound
    <3>2. a \in Account
      BY <1>1, <3>1, SlotBelow DEF IInv, Typed, TypeOK, Heap
    <3> HIDE DEF a
    <3>3. Kept(a)[Len(Kept(a))] =
              [type |-> job.type, amount |-> job.amount, balance_after |-> a.balance]
      BY <3>1, <3>2, KeptLast
    <3>. QED  BY <3>3 DEF a
  <2>. QED  BY <2>1, <2>2 DEF OperationDone
<1>. QED  BY <1>1, Invariance, PTL

\* A server that waits for a request has saved what it has in memory.
THEOREM FileIsCurrent == Spec => []FileCurrent
<1>1. ASSUME IInv PROVE FileCurrent
  BY <1>1 DEF IInv, FileCurrent, FileSound, MemorySound, First, SavedRows, SavedNumber
<1>. QED  BY <1>1, Invariance, PTL

\* The step that ends a load makes of memory what the file says.
LEMMA ServedLoads ==
    ASSUME IInv, Next, Served
    PROVE  heap' = Loaded(file)
<1>1. LoadHeader \/ LoadEnds
  <2>1. pc \in {"load", "load_number", "load_account"} /\ pc' = "recv"
    BY DEF Served, Loading
  <2>2. ~ LoadNumber /\ ~ LoadAccount /\ ~ Signal /\ ~ Kill /\ ~ Boot
    BY <2>1 DEF LoadNumber, LoadAccount, Signal, Kill, Boot, Die, Goto
  <2>3. ~ Truncate /\ ~ Flush /\ ~ CloseFile /\ ~ SaveFails /\ ~ Send
    BY <2>1 DEF Truncate, Flush, CloseFile, SaveFails, Send
  <2>4. ~ Receive
    BY <2>1 DEF Receive, AskOpen, AskClose, AskDeposit, AskWithdraw, Begin
  <2>5. ~ Operate
    BY <2>1 DEF Operate, Claim, Clear, Number, Identity, Fund, Credit, Debit, Count, Post,
                Shrink, Move, Step
  <2>. QED  BY <2>2, <2>3, <2>4, <2>5 DEF Next
<1>2. CASE LoadHeader
  <2>1. pc = "load" /\ heap = FreshHeap /\ pc' = "recv"
    BY <1>2 DEF LoadHeader, IInv, LoadSound, Served
  <2>2. file.kind \in {"absent", "empty"}
    BY <1>2, <2>1 DEF LoadHeader, Goto
  <2>. QED  BY <1>2, <2>1, <2>2 DEF LoadHeader, Ready, Loaded
<1>3. CASE LoadEnds
  BY <1>3, LoadedWhole DEF LoadEnds, Ready
<1>. QED  BY <1>1, <1>2, <1>3

\* A server that was not stopped within a load, within an operation's
\* statements or within a save comes back with every account as the last
\* answer, or the request then being served, left it.
THEOREM RestartsKeep == Spec => RestartKeepsAnswers
<1>1. ASSUME IInv, Next, Served, stop = "clean"
      PROVE  Fields(heap') \in {before, after} /\ heap'.next_number >= high
  BY <1>1, ServedLoads DEF IInv, FileSound, SavedRows, SavedNumber
<1>2. IInv /\ [Next]_vars =>
          [Served /\ stop = "clean" => /\ Fields(heap') \in {before, after}
                                      /\ heap'.next_number >= high]_vars
  BY <1>1
<1>. QED  BY <1>2, Invariance, PTL DEF Spec, RestartKeepsAnswers

\* After a kill in a save that had got as far as the accounts no account
\* comes back that was not there, and no number is given a second time.
THEOREM TornKeeps == Spec => TornKeepsPrefix
<1>1. ASSUME IInv, Next, Served, stop = "torn", file.kind = "cut"
      PROVE  Fields(heap') \subseteq before \cup after /\ heap'.next_number >= high
  BY <1>1, ServedLoads DEF IInv, FileSound, SavedRows, SavedNumber
<1>2. IInv /\ [Next]_vars =>
          [Served /\ stop = "torn" /\ file.kind = "cut" =>
               /\ Fields(heap') \subseteq before \cup after
               /\ heap'.next_number >= high]_vars
  BY <1>1
<1>. QED  BY <1>2, Invariance, PTL DEF Spec, TornKeepsPrefix

-----------------------------------------------------------------------------
(* The numbers of the accounts, and the server as AtomicBank: what a table *)
(* that was in order when it was loaded adds to the invariant.             *)

\* next_number after an operation that leaves these accounts: one more if it
\* gave the number out.
NumberAfter(rows, n) == IF \E r \in rows : r[1] >= n THEN n + 1 ELSE n

\* What holds whatever table was loaded.
HistorySound ==
    /\ pc = "recv" => after = before
    /\ job.cut \in {"clean", "half", "loading", "mangled"}
    /\ pc \in {"recv", "clear", "number"} \cup First => heap.next_number = high
    /\ pc \in Handling /\ job.cut = "clean" =>
           \/ Fields(heap) = before /\ heap.next_number = high
           \/ Fields(heap) = after

\* The number its operation is to leave in the slot, and then to give out.
FinalNumber ==
    IF pc \in {"claim", "clear", "number"} THEN heap.next_number
                                           ELSE heap.bank[job.slot].number

NumberLeft ==
    IF pc \in {"claim", "clear", "number"} THEN heap.next_number + 1 ELSE heap.next_number

\* The other accounts have numbers below n, none twice and not the number no.
OthersInOrder(h, i, n, no) ==
    /\ \A j, k \in LiveSlots(h) \ {i} : h.bank[j].number = h.bank[k].number => j = k
    /\ \A j \in LiveSlots(h) \ {i} : h.bank[j].number < n /\ h.bank[j].number # no

\* The numbers while an operation posts, and while close_account closes a gap.
PostingInOrder ==
    pc \in Posting =>
        /\ OthersInOrder(heap, job.slot, high, FinalNumber)
        /\ FinalNumber <= high
        /\ NumberLeft = IF FinalNumber = high THEN high + 1 ELSE high

MoveInOrder ==
    pc = "move" =>
        /\ InOrder([heap EXCEPT !.bank[job.slot] = heap.bank[heap.accounts_in_use]])
        /\ heap.next_number = high

\* Memory before and after an operation, and when the handler finds it so.
MemoryInOrder ==
    /\ pc \in {"recv", "send"} \cup First \cup Saving => InOrder(heap)
    /\ pc \in Saving \cup {"send"} => heap.next_number = NumberAfter(after, high)
    /\ pc \in Handling /\ job.cut = "clean" =>
           /\ InOrder(heap)
           /\ \/ Fields(heap) = before /\ heap.next_number = high
              \/ Fields(heap) = after /\ heap.next_number = NumberAfter(after, high)

FileInOrder == stop = "clean" => InOrder(Loaded(file))

Ordered == PostingInOrder /\ MoveInOrder /\ MemoryInOrder /\ FileInOrder

OrderInv == IInv /\ HistorySound /\ (orderly => Ordered)

\* What the invariant says of memory.
LEMMA HeapFacts ==
    ASSUME IInv
    PROVE  /\ heap \in Heap /\ heap.next_number \in Nat /\ high \in Nat
           /\ \A i \in LiveSlots(heap) : i \in Slots /\ heap.bank[i] \in Account
                                           /\ heap.bank[i].number \in Nat
<1>1. heap \in Heap /\ high \in Nat
  BY DEF IInv, Typed, TypeOK
<1>. QED  BY <1>1, SlotBelow DEF Heap, Account

\* The number after an operation depends on the numbers of the slots.
LEMMA NumberAfterTable ==
    ASSUME NEW h, NEW n
    PROVE  NumberAfter(Fields(h), n) =
               IF \E i \in LiveSlots(h) : h.bank[i].number >= n THEN n + 1 ELSE n
<1>1. \A i \in LiveSlots(h) : Row(h.bank[i])[1] = h.bank[i].number
  BY DEF Row
<1>2. (\E r \in Fields(h) : r[1] >= n) <=> (\E i \in LiveSlots(h) : h.bank[i].number >= n)
  BY <1>1, FieldsIn
<1>. QED  BY <1>2 DEF NumberAfter

\* In a table that is in order, the rows of the other slots are the other rows.
LEMMA OthersAreOther ==
    ASSUME NEW h, NEW i \in LiveSlots(h), InOrder(h)
    PROVE  Others(h, i) = Fields(h) \ {Row(h.bank[i])}
<1>1. \A j \in LiveSlots(h) : Row(h.bank[j]) = Row(h.bank[i]) => j = i
  BY DEF InOrder, Row
<1>2. \A x : x \in Others(h, i) <=> x \in Fields(h) \ {Row(h.bank[i])}
  BY <1>1, FieldsIn DEF Others
<1>. QED  BY <1>2

\* close_account keeps the order and takes one row away.
LEMMA ClosedInOrder ==
    ASSUME NEW h \in Heap, NEW i \in LiveSlots(h), InOrder(h)
    PROVE  /\ InOrder(Closed(h, i))
           /\ Fields(Closed(h, i)) = Fields(h) \ {Row(h.bank[i])}
           /\ Closed(h, i).next_number = h.next_number
<1> DEFINE n == h.accounts_in_use - 1
           g == Closed(h, i)
           src(j) == IF j = i THEN n ELSE j
<1>1. /\ h.accounts_in_use \in Nat /\ n \in Nat /\ i \in 0 .. n /\ i \in Slots
      /\ LiveSlots(h) = 0 .. n
  BY SlotBelow, BankAssumption DEF Heap, LiveSlots
<1>2. /\ g.bank = [h.bank EXCEPT ![i] = h.bank[n]] /\ g.accounts_in_use = n
      /\ g.next_number = h.next_number
  BY DEF Closed, Heap
<1> HIDE DEF g, n
<1>3. LiveSlots(g) = 0 .. n - 1
  BY <1>2 DEF LiveSlots
<1>4. ASSUME NEW j \in LiveSlots(g)
      PROVE  src(j) \in LiveSlots(h) \ {i} /\ g.bank[j] = h.bank[src(j)]
  <2>1. j \in 0 .. n - 1 /\ j \in LiveSlots(h) /\ n \in LiveSlots(h)
    BY <1>1, <1>3
  <2>2. j \in Slots
    BY <2>1, SlotBelow
  <2>3. CASE j = i
    BY <1>1, <1>2, <2>1, <2>2, <2>3 DEF Heap
  <2>4. CASE j # i
    BY <1>1, <1>2, <2>1, <2>2, <2>4 DEF Heap
  <2>. QED  BY <2>3, <2>4
<1>5. ASSUME NEW j \in LiveSlots(g), NEW k \in LiveSlots(g), src(j) = src(k)
      PROVE  j = k
  BY <1>1, <1>3, <1>5
<1>6. ASSUME NEW k \in LiveSlots(h) \ {i}
      PROVE  \E j \in LiveSlots(g) : src(j) = k
  <2>1. CASE k = n
    <3>1. i \in LiveSlots(g)
      BY <1>1, <1>3, <2>1
    <3>. QED  BY <2>1, <3>1
  <2>2. CASE k # n
    <3>1. k \in LiveSlots(g)
      BY <1>1, <1>3, <2>2
    <3>. QED  BY <3>1
  <2>. QED  BY <2>1, <2>2
<1> HIDE DEF src
<1>7. InOrder(g)
  BY <1>2, <1>4, <1>5 DEF InOrder
<1>8. \A x : x \in Fields(g) <=> x \in Others(h, i)
  BY <1>4, <1>6, FieldsIn DEF Others
<1>9. Fields(g) = Others(h, i)
  BY <1>8
<1>. QED  BY <1>2, <1>7, <1>9, OthersAreOther DEF g

\* A table in order comes back in order from its file.
LEMMA ImageInOrder ==
    ASSUME NEW h \in Heap, InOrder(h)
    PROVE  InOrder(Loaded(Image(h)))
<1> DEFINE g == Loaded(Image(h))
<1>1. /\ g.accounts_in_use = h.accounts_in_use /\ g.next_number = h.next_number
      /\ \A i \in LiveSlots(h) : SameFields(g.bank[i], h.bank[i])
  BY ImageAgrees, LoadedAgrees
<1> HIDE DEF g
<1>2. LiveSlots(g) = LiveSlots(h) /\ \A i \in LiveSlots(h) : g.bank[i].number = h.bank[i].number
  BY <1>1 DEF LiveSlots, SameFields
<1>3. InOrder(g)
  BY <1>1, <1>2 DEF InOrder
<1>. QED  BY <1>3 DEF g

-----------------------------------------------------------------------------
(* The steps and the order of the numbers.                                 *)

\* The program starts in the invariant, in order if the file is.
LEMMA OrderInit == OrderlyInit => OrderInv
<1> SUFFICES ASSUME OrderlyInit PROVE OrderInv
  OBVIOUS
<1>1. IInv
  BY InitIInv DEF OrderlyInit
<1>2. pc = "load" /\ job = NoJob /\ orderly = InOrder(Loaded(file))
  BY DEF OrderlyInit, Init
<1>3. HistorySound
  BY <1>2, NoJobType DEF HistorySound, First, Handling
<1>4. orderly => Ordered
  BY <1>2
     DEF Ordered, PostingInOrder, MoveInOrder, MemoryInOrder, FileInOrder, Posting, First,
         Saving, Handling
<1>. QED  BY <1>1, <1>3, <1>4 DEF OrderInv

\* Out of load_data comes the file's table, and whether it is in order.
LEMMA LoadOrder ==
    ASSUME OrderInv, IInv', LoadHeader \/ LoadNumber \/ LoadAccount \/ LoadEnds,
           orderly' = IF Served THEN InOrder(heap') ELSE orderly
    PROVE  OrderInv'
<1>1. pc \in Loading /\ file' = file
  BY DEF LoadHeader, LoadNumber, LoadAccount, LoadEnds, Loading
<1>2. CASE pc' = "recv"
  <2>1. Served /\ orderly' = InOrder(heap')
    BY <1>1, <1>2 DEF Served
  <2>2. heap' = Loaded(file)
    BY <2>1, ServedLoads DEF OrderInv, Next
  <2>3. /\ job' = NoJob /\ after' = before' /\ high' = heap'.next_number
    BY <1>1, <1>2 DEF LoadHeader, LoadNumber, LoadAccount, LoadEnds, Ready, Goto
  <2>4. HistorySound'
    BY <1>2, <2>3, NoJobType DEF HistorySound, Handling
  <2>5. orderly' => Ordered'
    BY <1>1, <1>2, <2>1, <2>2
       DEF Ordered, PostingInOrder, MoveInOrder, MemoryInOrder, FileInOrder, Posting, Saving,
           Handling
  <2>. QED  BY <2>4, <2>5 DEF OrderInv
<1>3. CASE pc' # "recv"
  <2>1. orderly' = orderly /\ pc' \in {"load", "load_number", "load_account"}
    BY <1>1, <1>3
       DEF Served, LoadHeader, LoadNumber, LoadAccount, LoadEnds, Ready, Goto, Loading
  <2>2. stop' = stop /\ job'.cut = job.cut
    <3>1. job \in Jobs
      BY DEF OrderInv, IInv, Typed
    <3>. QED  BY <1>3, <3>1 DEF LoadHeader, LoadNumber, LoadAccount, LoadEnds, Ready, Goto, Jobs
  <2>3. HistorySound'
    BY <2>1, <2>2 DEF OrderInv, HistorySound, First, Handling
  <2>4. FileInOrder' = FileInOrder
    BY <1>1, <2>2 DEF FileInOrder
  <2>5. orderly' => Ordered'
    BY <2>1, <2>4
       DEF OrderInv, Ordered, PostingInOrder, MoveInOrder, MemoryInOrder, Posting, First,
           Saving, Handling
  <2>. QED  BY <2>3, <2>5 DEF OrderInv
<1>. QED  BY <1>2, <1>3

\* A request finds the numbers in order, and all below the next one.
LEMMA ReceiveOrder ==
    ASSUME OrderInv, IInv', Receive, orderly' = orderly
    PROVE  OrderInv'
<1>1. /\ pc = "recv" /\ pc' \in First /\ job'.cut = "clean"
      /\ UNCHANGED <<heap, file, starts, before, high, stop>>
  BY NoJobType DEF Receive, AskOpen, AskClose, AskDeposit, AskWithdraw, Begin, Goto, First, NoJob
<1>2. heap.next_number = high
  BY <1>1 DEF OrderInv, HistorySound
<1>3. HistorySound'
  BY <1>1, <1>2 DEF HistorySound, First, Handling
<1>4. ASSUME orderly PROVE Ordered'
  <2>1. InOrder(heap) /\ FileInOrder
    BY <1>1, <1>4 DEF OrderInv, Ordered, MemoryInOrder
  <2>2. InOrder(heap)' /\ FileInOrder'
    BY <1>1, <2>1 DEF FileInOrder
  <2>3. MemoryInOrder'
    BY <1>1, <2>2 DEF MemoryInOrder, First, Saving, Handling
  <2>4. pc' = "claim" => job'.slot \notin LiveSlots(heap) /\ FinalNumber' = high /\ NumberLeft' = high + 1
    <3>1. pc' = "claim" => job'.slot = heap.accounts_in_use
      BY <1>1 DEF IInv, OperationSound
    <3>2. heap.accounts_in_use \notin LiveSlots(heap)
      BY HeapFacts, BankAssumption DEF OrderInv, LiveSlots, Heap
    <3>. QED  BY <1>1, <1>2, <3>1, <3>2 DEF FinalNumber, NumberLeft
  <2>5. pc' \in {"credit", "debit"} =>
            /\ job'.slot \in LiveSlots(heap) /\ FinalNumber' = heap.bank[job'.slot].number
            /\ NumberLeft' = high
    BY <1>1, <1>2 DEF IInv, OperationSound, FinalNumber, NumberLeft, Posting
  <2>6. /\ heap.next_number \in Nat /\ \A i \in LiveSlots(heap) : heap.bank[i].number \in Nat
    BY HeapFacts DEF OrderInv
  <2>7. PostingInOrder'
    <3>1. CASE pc' = "claim"
      <4>1. /\ FinalNumber' = high /\ NumberLeft' = high + 1
            /\ LiveSlots(heap) \ {job'.slot} = LiveSlots(heap)
        BY <2>4, <3>1
      <4>2. OthersInOrder(heap, job'.slot, high, high)
        BY <1>2, <2>1, <2>6, <4>1 DEF InOrder, OthersInOrder
      <4>3. OthersInOrder(heap, job.slot, high, FinalNumber)'
        BY <1>1, <4>1, <4>2
      <4>. QED  BY <1>1, <1>2, <2>6, <4>1, <4>3 DEF PostingInOrder
    <3>2. CASE pc' \in {"credit", "debit"}
      <4> DEFINE f == heap.bank[job'.slot].number
      <4>1. /\ job'.slot \in LiveSlots(heap) /\ FinalNumber' = f /\ NumberLeft' = high
        BY <2>5, <3>2
      <4>2. f \in Nat /\ f < high
        BY <1>2, <2>1, <2>6, <4>1 DEF InOrder
      <4>3. OthersInOrder(heap, job'.slot, high, f)
        BY <1>2, <2>1, <4>1 DEF InOrder, OthersInOrder
      <4> HIDE DEF f
      <4>4. OthersInOrder(heap, job.slot, high, FinalNumber)'
        BY <1>1, <4>1, <4>3
      <4>5. f <= high /\ f # high
        BY <1>2, <2>6, <4>2
      <4>. QED  BY <1>1, <4>1, <4>4, <4>5 DEF PostingInOrder
    <3>. QED  BY <1>1, <3>1, <3>2 DEF PostingInOrder, Posting, First
  <2>8. MoveInOrder'
    BY <1>1 DEF MoveInOrder, First
  <2>. QED  BY <2>2, <2>3, <2>7, <2>8 DEF Ordered
<1>. QED  BY <1>3, <1>4 DEF OrderInv

\* A statement that leaves the other accounts and the number it is to leave.
LEMMA PostingOrder ==
    ASSUME OrderInv, IInv', orderly' = orderly, pc \in Posting, NEW q \in Posting \ First,
           NEW h, Step(pc, q, h),
           LiveSlots(h) \ {job.slot} = LiveSlots(heap) \ {job.slot},
           \A j \in LiveSlots(heap) \ {job.slot} : h.bank[j] = heap.bank[j],
           FinalNumber' = FinalNumber, NumberLeft' = NumberLeft,
           q \in {"clear", "number"} => h.next_number = high
    PROVE  OrderInv'
<1>1. /\ pc' = q /\ heap' = h
      /\ UNCHANGED <<job, file, starts, before, after, high, stop>>
  BY DEF Step, Goto
<1>2. q \in {"clear", "number", "identity", "balance", "count", "post"}
  BY DEF Posting, First
<1>3. HistorySound'
  BY <1>1, <1>2 DEF OrderInv, HistorySound, First, Handling
<1>4. ASSUME orderly PROVE Ordered'
  <2>1. PostingInOrder /\ FileInOrder
    BY <1>4 DEF OrderInv, Ordered
  <2>2. /\ OthersInOrder(heap, job.slot, high, FinalNumber)
        /\ FinalNumber <= high
        /\ NumberLeft = IF FinalNumber = high THEN high + 1 ELSE high
    BY <2>1 DEF PostingInOrder
  <2>3. OthersInOrder(h, job.slot, high, FinalNumber)
    BY <2>2 DEF OthersInOrder
  <2>4. OthersInOrder(heap, job.slot, high, FinalNumber)'
    BY <1>1, <2>3
  <2>5. PostingInOrder'
    BY <1>1, <2>2, <2>4 DEF PostingInOrder
  <2>6. MoveInOrder' /\ MemoryInOrder'
    BY <1>1, <1>2 DEF MoveInOrder, MemoryInOrder, First, Saving, Handling
  <2>7. FileInOrder'
    BY <1>1, <2>1 DEF FileInOrder
  <2>. QED  BY <2>5, <2>6, <2>7 DEF Ordered
<1>. QED  BY <1>3, <1>4 DEF OrderInv

\* A statement that writes its slot and leaves the number in it.
LEMMA WrittenOrder ==
    ASSUME OrderInv, IInv', orderly' = orderly,
           pc \in {"identity", "balance", "credit", "debit", "count"},
           NEW q \in {"balance", "count", "post"}, NEW b,
           Step(pc, q, [heap EXCEPT !.bank[job.slot] = b]),
           b.number = heap.bank[job.slot].number
    PROVE  OrderInv'
<1> DEFINE h == [heap EXCEPT !.bank[job.slot] = b]
<1>1. heap \in Heap /\ job.slot \in Slots
  BY PostingFacts DEF OrderInv, Posting
<1>2. /\ h.bank = [heap.bank EXCEPT ![job.slot] = b]
      /\ h.accounts_in_use = heap.accounts_in_use /\ h.next_number = heap.next_number
  BY <1>1 DEF Heap
<1>3. Step(pc, q, h)
  OBVIOUS
<1> HIDE DEF h
<1>4. LiveSlots(h) = LiveSlots(heap) /\ h.bank[job.slot] = b
  BY <1>1, <1>2 DEF LiveSlots, Heap
<1>5. \A j \in LiveSlots(heap) \ {job.slot} : h.bank[j] = heap.bank[j]
  BY <1>1, <1>2, SlotBelow DEF Heap
<1>6. pc' = q /\ heap' = h /\ job' = job
  BY <1>3 DEF Step, Goto
<1>7. FinalNumber' = FinalNumber /\ NumberLeft' = NumberLeft
  BY <1>2, <1>4, <1>6 DEF FinalNumber, NumberLeft
<1>8. pc \in Posting /\ q \in Posting \ First /\ q \notin {"clear", "number"}
  BY DEF Posting, First
<1>. QED  BY <1>3, <1>4, <1>5, <1>7, <1>8, PostingOrder

\* open_account takes its number once.
LEMMA OpeningOrder ==
    ASSUME OrderInv, IInv', orderly' = orderly, Claim \/ Clear \/ Number \/ Identity \/ Fund
    PROVE  OrderInv'
<1> DEFINE i == job.slot
           r == heap.bank[i]
<1>1. CASE Claim
  <2> DEFINE h == [heap EXCEPT !.accounts_in_use = @ + 1]
             n == heap.accounts_in_use
  <2>1. pc = "claim" /\ Step(pc, "clear", h)
    BY <1>1 DEF Claim, Step
  <2>2. heap \in Heap /\ i = n /\ n \in Nat /\ heap.next_number = high
    BY <2>1, BankAssumption
       DEF OrderInv, HistorySound, First, IInv, Typed, TypeOK, OperationSound, Posting, Heap
  <2>3. /\ h.bank = heap.bank /\ h.accounts_in_use = n + 1
        /\ h.next_number = heap.next_number
    BY <2>2 DEF Heap
  <2> HIDE DEF h
  <2>4. LiveSlots(h) \ {i} = LiveSlots(heap) \ {i}
    BY <2>2, <2>3 DEF LiveSlots
  <2>5. pc' = "clear" /\ heap' = h /\ job' = job
    BY <2>1 DEF Step, Goto
  <2>6. FinalNumber' = FinalNumber /\ NumberLeft' = NumberLeft
    BY <2>1, <2>3, <2>5 DEF FinalNumber, NumberLeft
  <2>. QED  BY <2>1, <2>2, <2>3, <2>4, <2>6, PostingOrder DEF Posting, First
<1>2. CASE Clear
  <2> DEFINE h == [heap EXCEPT !.bank[i] = ZeroAccount]
  <2>1. pc = "clear" /\ Step(pc, "number", h)
    BY <1>2 DEF Clear, Step
  <2>2. heap \in Heap /\ i \in Slots /\ heap.next_number = high
    BY <2>1, PostingFacts DEF OrderInv, HistorySound, Posting
  <2>3. /\ h.bank = [heap.bank EXCEPT ![i] = ZeroAccount]
        /\ h.accounts_in_use = heap.accounts_in_use /\ h.next_number = heap.next_number
    BY <2>2 DEF Heap
  <2> HIDE DEF h
  <2>4. LiveSlots(h) = LiveSlots(heap)
    BY <2>3 DEF LiveSlots
  <2>5. \A j \in LiveSlots(heap) \ {i} : h.bank[j] = heap.bank[j]
    BY <2>2, <2>3, SlotBelow DEF Heap
  <2>6. pc' = "number" /\ heap' = h /\ job' = job
    BY <2>1 DEF Step, Goto
  <2>7. FinalNumber' = FinalNumber /\ NumberLeft' = NumberLeft
    BY <2>1, <2>3, <2>6 DEF FinalNumber, NumberLeft
  <2>. QED  BY <2>1, <2>2, <2>3, <2>4, <2>5, <2>7, PostingOrder DEF Posting, First
<1>3. CASE Number
  <2> DEFINE h == [heap EXCEPT !.bank[i].number = heap.next_number, !.next_number = @ + 1]
  <2>1. pc = "number" /\ Step(pc, "identity", h)
    BY <1>3 DEF Number, Step
  <2>2. heap \in Heap /\ i \in Slots /\ r \in Account
    BY <2>1, PostingFacts DEF OrderInv, Posting
  <2>3. /\ h.bank = [heap.bank EXCEPT ![i] = [r EXCEPT !.number = heap.next_number]]
        /\ h.accounts_in_use = heap.accounts_in_use
        /\ h.next_number = heap.next_number + 1
    BY <2>2 DEF Heap
  <2> HIDE DEF h
  <2>4. LiveSlots(h) = LiveSlots(heap)
    BY <2>3 DEF LiveSlots
  <2>5. \A j \in LiveSlots(heap) \ {i} : h.bank[j] = heap.bank[j]
    BY <2>2, <2>3, SlotBelow DEF Heap
  <2>6. h.bank[i].number = heap.next_number
    BY <2>2, <2>3 DEF Heap, Account
  <2>7. pc' = "identity" /\ heap' = h /\ job' = job
    BY <2>1 DEF Step, Goto
  <2>8. FinalNumber' = FinalNumber /\ NumberLeft' = NumberLeft
    BY <2>1, <2>3, <2>6, <2>7 DEF FinalNumber, NumberLeft
  <2>. QED  BY <2>1, <2>4, <2>5, <2>8, PostingOrder DEF Posting, First
<1>4. CASE Identity
  <2> DEFINE b == [r EXCEPT !.pin = job.pin, !.name = job.name]
  <2>1. pc = "identity" /\ Step(pc, "balance", [heap EXCEPT !.bank[i].pin = job.pin, !.bank[i].name = job.name])
    BY <1>4 DEF Identity, Step
  <2>2. heap \in Heap /\ i \in Slots /\ r \in Account
    BY <2>1, PostingFacts DEF OrderInv, Posting
  <2>3. b.number = r.number
    BY <2>2 DEF Account
  <2>4. [heap EXCEPT !.bank[i].pin = job.pin, !.bank[i].name = job.name] = [heap EXCEPT !.bank[i] = b]
    BY <2>2 DEF Heap
  <2> HIDE DEF b
  <2>. QED  BY <2>1, <2>3, <2>4, WrittenOrder
<1>5. CASE Fund
  <2> DEFINE b == [r EXCEPT !.balance = MIN_BALANCE]
  <2>1. pc = "balance" /\ Step(pc, "count", [heap EXCEPT !.bank[i].balance = MIN_BALANCE])
    BY <1>5 DEF Fund, Step
  <2>2. heap \in Heap /\ i \in Slots /\ r \in Account
    BY <2>1, PostingFacts DEF OrderInv, Posting
  <2>3. b.number = r.number
    BY <2>2 DEF Account
  <2>4. [heap EXCEPT !.bank[i].balance = MIN_BALANCE] = [heap EXCEPT !.bank[i] = b]
    BY <2>2 DEF Heap
  <2> HIDE DEF b
  <2>. QED  BY <2>1, <2>3, <2>4, WrittenOrder
<1>. QED  BY <1>1, <1>2, <1>3, <1>4, <1>5

\* deposit, withdraw and remember leave the numbers alone.
LEMMA PostOrder ==
    ASSUME OrderInv, IInv', orderly' = orderly, Credit \/ Debit \/ Count
    PROVE  OrderInv'
<1> DEFINE i == job.slot
           r == heap.bank[i]
<1>1. heap \in Heap /\ i \in Slots /\ r \in Account
  BY PostingFacts DEF OrderInv, Posting, Credit, Debit, Count, Step
<1>2. CASE Credit
  <2> DEFINE b == Credited(r, job.amount)
  <2>1. /\ pc = "credit"
        /\ Step(pc, "count", [heap EXCEPT !.bank[i] = Credited(@, job.amount)])
    BY <1>2 DEF Credit, Step
  <2>2. b.number = r.number
    BY <1>1 DEF Credited, Account
  <2>3. [heap EXCEPT !.bank[i] = Credited(@, job.amount)] = [heap EXCEPT !.bank[i] = b]
    BY <1>1 DEF Heap
  <2> HIDE DEF b
  <2>. QED  BY <2>1, <2>2, <2>3, WrittenOrder
<1>3. CASE Debit
  <2> DEFINE b == Debited(r, job.amount)
  <2>1. /\ pc = "debit"
        /\ Step(pc, "count", [heap EXCEPT !.bank[i] = Debited(@, job.amount)])
    BY <1>3 DEF Debit, Step
  <2>2. b.number = r.number
    BY <1>1 DEF Debited, Account
  <2>3. [heap EXCEPT !.bank[i] = Debited(@, job.amount)] = [heap EXCEPT !.bank[i] = b]
    BY <1>1 DEF Heap
  <2> HIDE DEF b
  <2>. QED  BY <2>1, <2>2, <2>3, WrittenOrder
<1>4. CASE Count
  <2> DEFINE b == [r EXCEPT !.ntran = @ + 1]
  <2>1. pc = "count" /\ Step(pc, "post", [heap EXCEPT !.bank[i].ntran = @ + 1])
    BY <1>4 DEF Count, Step
  <2>2. b.number = r.number
    BY <1>1 DEF Account
  <2>3. [heap EXCEPT !.bank[i].ntran = @ + 1] = [heap EXCEPT !.bank[i] = b]
    BY <1>1 DEF Heap
  <2> HIDE DEF b
  <2>. QED  BY <2>1, <2>2, <2>3, WrittenOrder
<1>. QED  BY <1>2, <1>3, <1>4

\* An operation that goes on to save leaves the numbers in order, and has
\* given out the next one if an account now has it.
LEMMA DoneOrder ==
    ASSUME OrderInv, IInv', orderly' = orderly, pc \in {"post", "move"},
           NEW h, Step(pc, "truncate", h),
           orderly => InOrder(h) /\ h.next_number = NumberAfter(Fields(h), high)
    PROVE  OrderInv'
<1>1. /\ pc' = "truncate" /\ heap' = h
      /\ UNCHANGED <<job, file, starts, before, after, high, stop>>
  BY DEF Step, Goto
<1>2. HistorySound'
  BY <1>1 DEF OrderInv, HistorySound, First, Handling
<1>3. Fields(h) = after
  BY <1>1 DEF IInv, MemorySound, Saving
<1>4. ASSUME orderly PROVE Ordered'
  <2>1. FileInOrder'
    BY <1>1, <1>4 DEF OrderInv, Ordered, FileInOrder
  <2>2. InOrder(heap)' /\ heap'.next_number = NumberAfter(after', high')
    BY <1>1, <1>3, <1>4
  <2>3. MemoryInOrder'
    BY <1>1, <2>2 DEF MemoryInOrder, First, Handling
  <2>4. PostingInOrder' /\ MoveInOrder'
    BY <1>1 DEF PostingInOrder, MoveInOrder, Posting
  <2>. QED  BY <2>1, <2>3, <2>4 DEF Ordered
<1>. QED  BY <1>2, <1>4 DEF OrderInv

\* The last statement of a posting.
LEMMA RingOrder ==
    ASSUME OrderInv, IInv', orderly' = orderly, Post
    PROVE  OrderInv'
<1> DEFINE i == job.slot
           r == heap.bank[i]
           k == slot_for([r EXCEPT !.ntran = @ - 1])
           t == [type |-> job.type, amount |-> job.amount, balance_after |-> r.balance]
           h == [heap EXCEPT !.bank[i].last[k] = t]
           b == [r EXCEPT !.last[k] = t]
<1>1. pc = "post" /\ Step(pc, "truncate", h)
  BY DEF Post, Step
<1>2. heap \in Heap /\ i \in Slots /\ r \in Account /\ i \in LiveSlots(heap)
  BY <1>1, PostingFacts DEF OrderInv, Posting
<1> HIDE DEF k, t
<1>3. /\ h.bank = [heap.bank EXCEPT ![i] = b]
      /\ h.accounts_in_use = heap.accounts_in_use /\ h.next_number = heap.next_number
  BY <1>2 DEF Heap
<1>4. b.number = r.number
  BY <1>2 DEF Account
<1> HIDE DEF h, b
<1>5. LiveSlots(h) = LiveSlots(heap)
  BY <1>3 DEF LiveSlots
<1>6. \A j \in LiveSlots(heap) : h.bank[j].number = heap.bank[j].number
  BY <1>2, <1>3, <1>4, SlotBelow DEF Heap
<1>7. ASSUME orderly
      PROVE  InOrder(h) /\ h.next_number = NumberAfter(Fields(h), high)
  <2> DEFINE f == r.number
             n == heap.next_number
  <2>1. /\ OthersInOrder(heap, i, high, f) /\ f <= high
        /\ n = IF f = high THEN high + 1 ELSE high
    BY <1>1, <1>7 DEF OrderInv, Ordered, PostingInOrder, FinalNumber, NumberLeft, Posting
  <2>2. /\ f \in Nat /\ high \in Nat /\ n \in Nat
        /\ \A j \in LiveSlots(heap) : heap.bank[j].number \in Nat
    BY <1>2, HeapFacts DEF OrderInv
  <2>3. \A j \in LiveSlots(heap) \ {i} : heap.bank[j].number < high /\ heap.bank[j].number # f
    BY <2>1 DEF OthersInOrder
  <2>4. InOrder(heap)
    <3>1. ASSUME NEW j \in LiveSlots(heap) PROVE heap.bank[j].number < n
      <4>1. CASE j = i
        <5>1. f < n
          BY <2>1, <2>2
        <5>. QED  BY <4>1, <5>1
      <4>2. CASE j # i
        <5>1. heap.bank[j].number < high /\ heap.bank[j].number \in Nat /\ high <= n
          BY <2>1, <2>2, <2>3, <4>2
        <5>. QED  BY <2>2, <5>1
      <4>. QED  BY <4>1, <4>2
    <3>2. ASSUME NEW j \in LiveSlots(heap), NEW m \in LiveSlots(heap),
                 heap.bank[j].number = heap.bank[m].number
          PROVE  j = m
      <4>1. CASE j = i \/ m = i
        BY <2>3, <3>2, <4>1
      <4>2. CASE j # i /\ m # i
        BY <2>1, <3>2, <4>2 DEF OthersInOrder
      <4>. QED  BY <4>1, <4>2
    <3>. QED  BY <3>1, <3>2 DEF InOrder
  <2>5. InOrder(h)
    BY <1>3, <1>5, <1>6, <2>4 DEF InOrder
  <2>6. (\E j \in LiveSlots(h) : h.bank[j].number >= high) <=> f = high
    <3>1. ASSUME NEW j \in LiveSlots(h), h.bank[j].number >= high PROVE f = high
      <4>1. j \in LiveSlots(heap) /\ heap.bank[j].number >= high
        BY <1>5, <1>6, <3>1
      <4>2. j = i
        BY <2>2, <2>3, <4>1
      <4>. QED  BY <2>1, <2>2, <4>1, <4>2
    <3>2. ASSUME f = high PROVE h.bank[i].number >= high
      BY <1>2, <1>6, <2>2, <3>2
    <3>. QED  BY <1>2, <1>5, <3>1, <3>2
  <2>7. NumberAfter(Fields(h), high) = IF f = high THEN high + 1 ELSE high
    BY <2>6, NumberAfterTable
  <2>. QED  BY <1>3, <2>1, <2>5, <2>7
<1>. QED  BY <1>1, <1>7, DoneOrder

\* close_account moves a number and gives none out.
LEMMA ClosingOrder ==
    ASSUME OrderInv, IInv', orderly' = orderly, Shrink \/ Move
    PROVE  OrderInv'
<1> DEFINE i == job.slot
           n == heap.accounts_in_use
<1>1. CASE Shrink
  <2> DEFINE h == [heap EXCEPT !.accounts_in_use = @ - 1]
  <2>1. pc = "shrink" /\ Step(pc, "move", h)
    BY <1>1 DEF Shrink, Step
  <2>2. heap \in Heap /\ i \in LiveSlots(heap) /\ heap.next_number = high
    BY <2>1 DEF OrderInv, HistorySound, First, IInv, Typed, TypeOK, OperationSound
  <2>3. /\ pc' = "move" /\ heap' = h
        /\ UNCHANGED <<job, file, starts, before, after, high, stop>>
    BY <2>1 DEF Step, Goto
  <2>4. HistorySound'
    BY <2>3 DEF OrderInv, HistorySound, First, Handling
  <2>5. /\ [h EXCEPT !.bank[i] = h.bank[h.accounts_in_use]] = Closed(heap, i)
        /\ h.next_number = high
    BY <2>2 DEF Closed, Heap
  <2> HIDE DEF h
  <2>6. ASSUME orderly PROVE Ordered'
    <3>1. InOrder(Closed(heap, i))
      BY <2>1, <2>2, <2>6, ClosedInOrder
         DEF OrderInv, Ordered, MemoryInOrder, First
    <3>2. MoveInOrder'
      BY <2>3, <2>5, <3>1 DEF MoveInOrder
    <3>3. FileInOrder'
      BY <2>3, <2>6 DEF OrderInv, Ordered, FileInOrder
    <3>4. PostingInOrder' /\ MemoryInOrder'
      BY <2>3 DEF PostingInOrder, MemoryInOrder, Posting, First, Saving, Handling
    <3>. QED  BY <3>2, <3>3, <3>4 DEF Ordered
  <2>. QED  BY <2>4, <2>6 DEF OrderInv
<1>2. CASE Move
  <2> DEFINE h == [heap EXCEPT !.bank[i] = heap.bank[n]]
  <2>1. pc = "move" /\ Step(pc, "truncate", h)
    BY <1>2 DEF Move, Step
  <2>2. heap \in Heap /\ high \in Nat /\ h.next_number = heap.next_number
    BY HeapFacts DEF OrderInv, Heap
  <2>3. orderly => InOrder(h) /\ heap.next_number = high
    BY <2>1 DEF OrderInv, Ordered, MoveInOrder
  <2>4. heap' = h
    BY <2>1 DEF Step
  <2> HIDE DEF h
  <2>5. ASSUME orderly
        PROVE  h.next_number = NumberAfter(Fields(h), high)
    <3>1. \A j \in LiveSlots(h) : h.bank[j].number < high /\ h.bank[j].number \in Nat
      <4>1. h \in Heap
        BY <2>4 DEF IInv, Typed, TypeOK
      <4>2. \A j \in LiveSlots(h) : h.bank[j].number \in Nat
        BY <4>1, SlotBelow DEF Heap, Account
      <4>. QED  BY <2>2, <2>3, <2>5, <4>2 DEF InOrder
    <3>2. ~ \E j \in LiveSlots(h) : h.bank[j].number >= high
      BY <2>2, <3>1
    <3>. QED  BY <2>2, <2>3, <2>5, <3>2, NumberAfterTable
  <2>. QED  BY <2>1, <2>3, <2>5, DoneOrder
<1>. QED  BY <1>1, <1>2

\* Truncating and writing the file leave memory; what is saved whole is in order.
LEMMA SaveOrder ==
    ASSUME OrderInv, IInv', orderly' = orderly, Truncate \/ Flush \/ CloseFile \/ SaveFails
    PROVE  OrderInv'
<1>1. CASE Truncate
  <2>1. /\ \/ pc = "truncate" /\ pc' = "write"
           \/ pc = "handler" /\ pc' = "handler_write"
        /\ UNCHANGED <<job, heap, starts, before, after, high>>
        /\ stop' = IF job.cut = "clean" /\ stop = "clean" THEN "torn" ELSE "mangled"
    BY <1>1 DEF Truncate, SaveStep, Goto
  <2>2. HistorySound'
    BY <2>1 DEF OrderInv, HistorySound, First, Handling
  <2>3. ASSUME orderly PROVE Ordered'
    <3>1. MemoryInOrder /\ InOrder(heap)' = InOrder(heap)
      BY <2>1, <2>3 DEF OrderInv, Ordered
    <3>2. MemoryInOrder'
      BY <2>1, <3>1 DEF MemoryInOrder, First, Saving, Handling
    <3>. QED
      BY <2>1, <3>2 DEF Ordered, PostingInOrder, MoveInOrder, FileInOrder, Posting
  <2>. QED  BY <2>2, <2>3 DEF OrderInv
<1>2. CASE Flush
  <2>1. /\ pc \in {"write", "handler_write"} /\ pc' = pc
        /\ UNCHANGED <<job, heap, starts, before, after, high, stop>>
    BY <1>2 DEF Flush, SaveStep, Goto
  <2>2. HistorySound'
    BY <2>1 DEF OrderInv, HistorySound, First, Handling
  <2>3. stop # "clean"
    BY <2>1 DEF OrderInv, IInv, FileSound
  <2>4. ASSUME orderly PROVE Ordered'
    <3>1. MemoryInOrder /\ InOrder(heap)' = InOrder(heap)
      BY <2>1, <2>4 DEF OrderInv, Ordered
    <3>2. MemoryInOrder'
      BY <2>1, <3>1 DEF MemoryInOrder, First, Saving, Handling
    <3>. QED
      BY <2>1, <2>3, <3>2 DEF Ordered, PostingInOrder, MoveInOrder, FileInOrder, Posting
  <2>. QED  BY <2>2, <2>4 DEF OrderInv
<1>3. CASE CloseFile
  <2>1. file' = Image(heap) /\ stop' = job.cut /\ heap \in Heap /\ after' = after
    BY <1>3, HeapFacts DEF CloseFile, SaveStep, Die, OrderInv
  <2>2. \/ /\ pc = "write" /\ pc' = "send" /\ job.cut = "clean"
           /\ UNCHANGED <<job, heap, starts, before, after, high>>
        \/ /\ pc = "handler_write" /\ pc' = "down" /\ job' = NoJob
    BY <1>3 DEF CloseFile, SaveStep, Die, Goto, OrderInv, IInv, Typed, Handling
  <2>3. HistorySound'
    BY <2>2, NoJobType DEF OrderInv, HistorySound, First, Handling
  <2>4. ASSUME orderly PROVE Ordered'
    <3>1. MemoryInOrder
      BY <2>4 DEF OrderInv, Ordered
    <3>2. job.cut = "clean" => InOrder(heap)
      BY <2>2, <3>1 DEF MemoryInOrder, Saving, Handling
    <3>3. stop' = "clean" => InOrder(Loaded(Image(heap)))
      BY <2>1, <3>2, ImageInOrder
    <3>4. FileInOrder'
      BY <2>1, <3>3 DEF FileInOrder
    <3>5. MemoryInOrder'
      <4>1. CASE pc' = "send"
        <5>1. /\ InOrder(heap)' = InOrder(heap)
              /\ NumberAfter(after, high)' = NumberAfter(after, high)
          BY <2>2, <4>1
        <5>. QED  BY <2>2, <3>1, <4>1, <5>1 DEF MemoryInOrder, First, Saving, Handling
      <4>2. CASE pc' = "down"
        BY <4>2 DEF MemoryInOrder, First, Saving, Handling
      <4>. QED  BY <2>2, <4>1, <4>2
    <3>6. PostingInOrder' /\ MoveInOrder'
      BY <2>2 DEF PostingInOrder, MoveInOrder, Posting
    <3>. QED  BY <3>4, <3>5, <3>6 DEF Ordered
  <2>. QED  BY <2>3, <2>4 DEF OrderInv
<1>4. CASE SaveFails
  <2>1. /\ pc = "truncate" /\ pc' = "send" /\ stop' = "unsaved"
        /\ UNCHANGED <<job, heap, starts, before, after, high>>
    BY <1>4 DEF SaveFails, SaveStep, Goto
  <2>2. HistorySound'
    BY <2>1 DEF OrderInv, HistorySound, First, Handling
  <2>3. ASSUME orderly PROVE Ordered'
    <3>1. MemoryInOrder /\ InOrder(heap)' = InOrder(heap)
      BY <2>1, <2>3 DEF OrderInv, Ordered
    <3>2. MemoryInOrder'
      BY <2>1, <3>1 DEF MemoryInOrder, First, Saving, Handling
    <3>. QED
      BY <2>1, <3>2 DEF Ordered, PostingInOrder, MoveInOrder, FileInOrder, Posting
  <2>. QED  BY <2>2, <2>3 DEF OrderInv
<1>. QED  BY <1>1, <1>2, <1>3, <1>4

\* An answer makes the operation's accounts and number those of the last one.
LEMMA SendOrder ==
    ASSUME OrderInv, IInv', orderly' = orderly, Send
    PROVE  OrderInv'
<1>1. /\ pc = "send" /\ pc' = "recv" /\ job' = NoJob /\ before' = after
      /\ high' = heap.next_number /\ UNCHANGED <<heap, file, starts, after, stop>>
  BY DEF Send, Goto
<1>2. HistorySound'
  BY <1>1, NoJobType DEF HistorySound, Handling
<1>3. ASSUME orderly PROVE Ordered'
  <2>1. InOrder(heap) /\ FileInOrder
    BY <1>1, <1>3 DEF OrderInv, Ordered, MemoryInOrder
  <2>2. InOrder(heap)' /\ FileInOrder'
    BY <1>1, <2>1 DEF FileInOrder
  <2>3. MemoryInOrder'
    BY <1>1, <2>2 DEF MemoryInOrder, Saving, Handling
  <2>. QED
    BY <1>1, <2>2, <2>3 DEF Ordered, PostingInOrder, MoveInOrder, Posting
<1>. QED  BY <1>2, <1>3 DEF OrderInv

\* The handler finds the numbers in order unless an operation or a load is
\* half done; a kill and a start find the file as it was.
LEMMA StopOrder ==
    ASSUME OrderInv, IInv', orderly' = orderly, Signal \/ Kill \/ Boot
    PROVE  OrderInv'
<1>1. CASE Signal
  <2> DEFINE c == CASE pc \in Mutating -> "half"
                    [] pc \in Loading -> IF stop = "clean" THEN "loading" ELSE "mangled"
                    [] OTHER -> "clean"
  <2>1. /\ pc \in Running /\ pc' = "handler" /\ job' = [NoJob EXCEPT !.cut = c]
        /\ UNCHANGED <<heap, file, starts, before, after, high, stop>>
    BY <1>1 DEF Signal, Goto
  <2>2. /\ c \in {"half", "loading", "mangled", "clean"}
        /\ c = "clean" => pc \notin Mutating /\ pc \notin Loading
    BY DEF Mutating, Loading
  <2> HIDE DEF c
  <2>3. job'.cut = c
    BY <2>1, <2>2, NoJobType DEF Jobs
  <2>4. c = "clean" => pc \in {"recv"} \cup First \/ pc \in Saving \cup {"send"}
    BY <2>1, <2>2 DEF Running, Waiting
  <2>5. /\ pc \in {"recv"} \cup First => Fields(heap) = before /\ heap.next_number = high
        /\ pc \in Saving \cup {"send"} => Fields(heap) = after
    BY DEF OrderInv, IInv, MemorySound, HistorySound
  <2>6. HistorySound'
    <3>1. c = "clean" => \/ Fields(heap) = before /\ heap.next_number = high
                         \/ Fields(heap) = after
      BY <2>4, <2>5
    <3>. QED  BY <2>1, <2>2, <2>3, <3>1 DEF HistorySound, First
  <2>7. ASSUME orderly PROVE Ordered'
    <3>1. MemoryInOrder /\ FileInOrder
      BY <2>7 DEF OrderInv, Ordered
    <3>2. c = "clean" =>
              /\ InOrder(heap)
              /\ \/ Fields(heap) = before /\ heap.next_number = high
                 \/ Fields(heap) = after /\ heap.next_number = NumberAfter(after, high)
      BY <2>4, <2>5, <3>1 DEF MemoryInOrder
    <3>3. MemoryInOrder'
      BY <2>1, <2>3, <3>2 DEF MemoryInOrder, First, Saving
    <3>4. FileInOrder'
      BY <2>1, <3>1 DEF FileInOrder
    <3>5. PostingInOrder' /\ MoveInOrder'
      BY <2>1 DEF PostingInOrder, MoveInOrder, Posting
    <3>. QED  BY <3>3, <3>4, <3>5 DEF Ordered
  <2>. QED  BY <2>6, <2>7 DEF OrderInv
<1>2. CASE Kill \/ Boot
  <2>1. /\ pc' \in {"down", "load"} /\ file' = file /\ stop' = stop
        /\ job' = NoJob \/ job' = job
    BY <1>2 DEF Kill, Boot, Die, Goto
  <2>2. HistorySound'
    BY <2>1, NoJobType DEF OrderInv, HistorySound, First, Handling
  <2>3. ASSUME orderly PROVE Ordered'
    <3>1. FileInOrder'
      BY <2>1, <2>3 DEF OrderInv, Ordered, FileInOrder
    <3>. QED
      BY <2>1, <3>1
         DEF Ordered, PostingInOrder, MoveInOrder, MemoryInOrder, Posting, First, Saving,
             Handling
  <2>. QED  BY <2>2, <2>3 DEF OrderInv
<1>. QED  BY <1>1, <1>2

\* Only the end of a load is one.
LEMMA OthersServeNone ==
    ASSUME Receive \/ Operate \/ Truncate \/ Flush \/ CloseFile \/ SaveFails \/ Send
               \/ Signal \/ Kill \/ Boot
    PROVE  ~ Served
<1>1. ASSUME Receive PROVE ~ Served
  BY <1>1 DEF Receive, AskOpen, AskClose, AskDeposit, AskWithdraw, Begin, Served, Loading
<1>2. ASSUME Operate PROVE ~ Served
  BY <1>2 DEF Operate, Claim, Clear, Number, Identity, Fund, Credit, Debit, Count, Post,
              Shrink, Move, Step, Served, Loading
<1>3. ASSUME Truncate \/ Flush \/ CloseFile \/ SaveFails \/ Send PROVE ~ Served
  BY <1>3 DEF Truncate, Flush, CloseFile, SaveFails, Send, Served, Loading
<1>4. ASSUME Signal \/ Kill \/ Boot PROVE ~ Served
  BY <1>4 DEF Signal, Kill, Boot, Die, Goto, Served
<1>. QED  BY <1>1, <1>2, <1>3, <1>4

\* Every step keeps the order.
LEMMA OrderStep ==
    ASSUME OrderInv, [OrderlyNext]_orderlyVars
    PROVE  OrderInv'
<1>1. IInv'
  <2>1. [Next]_vars
    BY DEF OrderlyNext, orderlyVars
  <2>. QED  BY <2>1, NextStep DEF OrderInv
<1>2. CASE UNCHANGED orderlyVars
  <2>1. UNCHANGED <<pc, job, heap, file, starts, before, after, high, stop, orderly>>
    BY <1>2 DEF orderlyVars, vars
  <2>2. HistorySound' = HistorySound
    BY <2>1 DEF HistorySound
  <2>3. /\ PostingInOrder' = PostingInOrder /\ MoveInOrder' = MoveInOrder
        /\ MemoryInOrder' = MemoryInOrder /\ FileInOrder' = FileInOrder
    BY <2>1
       DEF PostingInOrder, MoveInOrder, MemoryInOrder, FileInOrder, FinalNumber, NumberLeft
  <2>. QED  BY <1>1, <2>1, <2>2, <2>3 DEF OrderInv, Ordered
<1>3. CASE OrderlyNext
  <2>1. Next /\ orderly' = IF Served THEN InOrder(heap') ELSE orderly
    BY <1>3 DEF OrderlyNext
  <2>2. CASE LoadHeader \/ LoadNumber \/ LoadAccount \/ LoadEnds
    BY <1>1, <2>1, <2>2, LoadOrder
  <2>3. CASE Receive \/ Operate
    <3>1. orderly' = orderly
      BY <2>1, <2>3, OthersServeNone
    <3>. QED
      BY <1>1, <2>3, <3>1, ReceiveOrder, OpeningOrder, PostOrder, RingOrder, ClosingOrder
         DEF Operate
  <2>4. CASE Truncate \/ Flush \/ CloseFile \/ SaveFails \/ Send \/ Signal \/ Kill \/ Boot
    <3>1. orderly' = orderly
      BY <2>1, <2>4, OthersServeNone
    <3>. QED  BY <1>1, <2>4, <3>1, SaveOrder, SendOrder, StopOrder
  <2>. QED  BY <2>1, <2>2, <2>3, <2>4 DEF Next
<1>. QED  BY <1>2, <1>3

\* The inductive invariant with the order of the numbers: while an operation
\* posts, the other accounts' numbers are below the next one and none is the
\* number it is to leave in its slot.
THEOREM OrderInvariance == OrderlySpec => []OrderInv
<1>1. OrderInv /\ [OrderlyNext]_orderlyVars => OrderInv'
  BY OrderStep
<1>. QED  BY <1>1, OrderInit, PTL DEF OrderlySpec

-----------------------------------------------------------------------------
(* The numbers that answers tell.                                          *)

\* An opening's account is to have a number that no answer has told.
OpeningSound ==
    Opening =>
        /\ pc \in (Posting \ {"credit", "debit"}) \cup Saving \cup {"send"}
        /\ FinalNumber >= high
        /\ pc \in Saving \cup {"send"} => job.slot \in LiveSlots(heap)

\* Nor does an operation that the handler finds half done put the next number
\* back, or the file it leaves.
HalfSound ==
    /\ pc \in Handling /\ job.cut = "half" => heap.next_number >= high
    /\ stop = "half" => SavedNumber >= high

ToldSound == told \in Int /\ (orderly => told < high)

ToldInv == OrderInv /\ OpeningSound /\ HalfSound /\ ToldSound

\* The server starts with no request and no number told but the file's.
LEMMA ToldInit == OrderlyInit => ToldInv
<1> SUFFICES ASSUME OrderlyInit PROVE ToldInv
  OBVIOUS
<1>1. /\ pc = "load" /\ job = NoJob /\ stop = "clean"
      /\ told = Loaded(file).next_number - 1 /\ high = Loaded(file).next_number
  BY DEF OrderlyInit, Init
<1>2. high \in Nat
  BY OrderInit DEF OrderInv, IInv, Typed, TypeOK
<1>3. OpeningSound
  BY <1>1 DEF OpeningSound, Opening, NoJob
<1>4. HalfSound
  BY <1>1 DEF HalfSound, Handling
<1>5. ToldSound
  BY <1>1, <1>2 DEF ToldSound
<1>. QED  BY <1>3, <1>4, <1>5, OrderInit DEF ToldInv

\* The server takes up an opening with the next number, and other requests
\* without one.
LEMMA OpeningAsked ==
    ASSUME OrderInv, Receive
    PROVE  OpeningSound'
<1>1. pc = "recv" /\ UNCHANGED <<heap, high>> /\ heap.next_number = high
  BY DEF Receive, AskOpen, AskClose, AskDeposit, AskWithdraw, Begin, OrderInv, IInv, MemorySound
<1>2. \/ pc' = "claim"
      \/ job'.pin = 0
  BY DEF Receive, AskOpen, AskClose, AskDeposit, AskWithdraw, Begin, Goto, NoJob
<1>3. high \in Nat
  BY DEF OrderInv, IInv, Typed, TypeOK
<1>. QED
  BY <1>1, <1>2, <1>3 DEF OpeningSound, Opening, FinalNumber, Posting, Saving

\* Its statements write that number and leave it in the slot.
LEMMA OpeningWritten ==
    ASSUME OrderInv, OrderInv', OpeningSound, Operate
    PROVE  OpeningSound'
<1> SUFFICES ASSUME Opening PROVE OpeningSound'
  <2>1. job' = job
    BY DEF Operate, Claim, Clear, Number, Identity, Fund, Credit, Debit, Count, Post, Shrink,
           Move, Step
  <2>. QED  BY <2>1 DEF OpeningSound, Opening
<1>1. /\ UNCHANGED <<job, high>> /\ pc \in Posting \ {"credit", "debit"}
      /\ FinalNumber >= high
  BY DEF Operate, Claim, Clear, Number, Identity, Fund, Credit, Debit, Count, Post, Shrink,
         Move, Step, OpeningSound, Posting, Closing, Saving
<1>2. /\ heap \in Heap /\ job.slot \in Slots /\ high \in Nat
      /\ pc \in Posting \ {"claim"} => job.slot \in LiveSlots(heap)
      /\ DOMAIN heap.bank = Slots
      /\ heap.bank[job.slot] \in Account
  BY <1>1 DEF OrderInv, IInv, Typed, TypeOK, OperationSound, Heap
<1>3. CASE Claim \/ Clear
  <2>1. pc' \in {"clear", "number"} /\ heap'.next_number = heap.next_number
    BY <1>2, <1>3 DEF Claim, Clear, Step, Goto, Heap
  <2>2. pc \in {"claim", "clear"}
    BY <1>3 DEF Claim, Clear, Step
  <2>. QED
    BY <1>1, <2>1, <2>2 DEF OpeningSound, FinalNumber, Posting, Saving
<1>4. CASE Number
  <2>1. /\ pc = "number" /\ pc' = "identity"
        /\ heap'.bank[job.slot].number = heap.next_number
    BY <1>2, <1>4 DEF Number, Step, Goto, Heap, Account
  <2>. QED  BY <1>1, <2>1 DEF OpeningSound, FinalNumber, Posting, Saving
<1>5. CASE Identity \/ Fund \/ Count \/ Post
  <2>1. /\ pc \in {"identity", "balance", "count", "post"}
        /\ pc' \in {"balance", "count", "post", "truncate"}
        /\ heap'.bank[job.slot].number = heap.bank[job.slot].number
        /\ heap'.accounts_in_use = heap.accounts_in_use
    <3>1. CASE Identity
      BY <1>2, <3>1 DEF Identity, Step, Goto, Heap, Account
    <3>2. CASE Fund
      BY <1>2, <3>2 DEF Fund, Step, Goto, Heap, Account
    <3>3. CASE Count
      BY <1>2, <3>3 DEF Count, Step, Goto, Heap, Account
    <3>4. CASE Post
      BY <1>2, <3>4 DEF Post, Step, Goto, Heap, Account
    <3>. QED  BY <1>5, <3>1, <3>2, <3>3, <3>4
  <2>2. job.slot \in LiveSlots(heap)'
    BY <1>1, <1>2, <2>1 DEF LiveSlots
  <2>. QED
    BY <1>1, <2>1, <2>2 DEF OpeningSound, FinalNumber, Posting, Saving
<1>6. ~ (Credit \/ Debit \/ Shrink \/ Move)
  BY <1>1 DEF Credit, Debit, Shrink, Move, Step, Posting
<1>. QED  BY <1>3, <1>4, <1>5, <1>6 DEF Operate

\* Its number does not change until the answer.
LEMMA OpeningKept ==
    ASSUME OrderInv, OrderInv', OpeningSound, Next
    PROVE  OpeningSound'
<1>1. CASE Receive
  BY <1>1, OpeningAsked
<1>2. CASE Operate
  BY <1>2, OpeningWritten
<1>3. CASE LoadHeader \/ LoadNumber \/ LoadAccount \/ LoadEnds
  <2>1. pc \in Loading /\ (job' = NoJob \/ job'.pin = job.pin)
    <3>1. job \in Jobs
      BY DEF OrderInv, IInv, Typed
    <3>. QED
      BY <1>3, <3>1 DEF LoadHeader, LoadNumber, LoadAccount, LoadEnds, Ready, Loading, Jobs
  <2>2. ~ Opening
    BY <2>1 DEF OpeningSound, Loading, Posting, Saving
  <2>. QED  BY <2>1, <2>2 DEF OpeningSound, Opening, NoJob
<1>4. CASE Truncate \/ Flush \/ CloseFile \/ SaveFails
  <2>1. /\ pc \in Saving \cup Handling
        /\ \/ pc' = "down" /\ job' = NoJob
           \/ pc' \in Saving \cup {"send"} \cup Handling /\ UNCHANGED <<job, heap, high>>
        /\ pc \in Saving => pc' \in Saving \cup {"send"}
    BY <1>4
       DEF Truncate, Flush, CloseFile, SaveFails, SaveStep, Die, Goto, Saving, Handling
  <2>2. CASE pc' = "down" /\ job' = NoJob
    BY <2>2 DEF OpeningSound, Opening, NoJob
  <2>3. CASE UNCHANGED <<job, heap, high>>
    BY <2>1, <2>3 DEF OpeningSound, Opening, FinalNumber, Saving, Posting, Handling
  <2>. QED  BY <2>1, <2>2, <2>3
<1>5. CASE Send \/ Signal \/ Kill \/ Boot
  <2>1. job'.pin = 0 \/ (pc = "down" /\ job' = job)
    BY <1>5 DEF Send, Signal, Kill, Boot, Die, NoJob
  <2>. QED  BY <2>1 DEF OpeningSound, Opening, Posting, Saving
<1>. QED  BY <1>1, <1>2, <1>3, <1>4, <1>5 DEF Next

\* Only an answer or the end of a load changes what the history variables say
\* of the accounts, and only a load's end can find a half-done operation's file.
LEMMA HighKept ==
    ASSUME OrderInv, Next, ~ Served, ~ Send
    PROVE  high' = high
  BY DEF Next, Served, LoadHeader, LoadNumber, LoadAccount, LoadEnds, Ready, Goto, Loading,
         Receive, AskOpen, AskClose, AskDeposit, AskWithdraw, Begin, Operate, Claim, Clear,
         Number, Identity, Fund, Credit, Debit, Count, Post, Shrink, Move, Step, Truncate,
         Flush, CloseFile, SaveFails, SaveStep, Die, Signal, Kill, Boot

\* A half-done operation and the file it leaves keep the next number.
LEMMA HalfKept ==
    ASSUME OrderInv, OrderInv', HalfSound, Next
    PROVE  HalfSound'
<1>1. CASE LoadHeader \/ LoadNumber \/ LoadAccount \/ LoadEnds
  <2>1. /\ pc' \in Loading \cup {"recv"} /\ file' = file
        /\ stop' = "clean" \/ (stop' = stop /\ high' = high)
    BY <1>1
       DEF LoadHeader, LoadNumber, LoadAccount, LoadEnds, Ready, Goto, Loading
  <2>. QED  BY <2>1 DEF HalfSound, Loading, Handling, SavedNumber
<1>2. CASE Receive \/ Operate
  <2>1. /\ pc \in {"recv"} \cup Operating
        /\ pc' \in Operating \cup Saving /\ stop' = stop
    BY <1>2
       DEF Receive, AskOpen, AskClose, AskDeposit, AskWithdraw, Begin, Operate, Claim, Clear,
           Number, Identity, Fund, Credit, Debit, Count, Post, Shrink, Move, Step, Goto,
           Operating, Posting, Closing, Saving
  <2>2. stop # "half" /\ pc' \notin Handling
    BY <2>1 DEF OrderInv, IInv, FileSound, Operating, Posting, Closing, Saving, Handling
  <2>. QED  BY <2>1, <2>2 DEF HalfSound
<1>3. CASE Truncate \/ Flush \/ SaveFails
  <2>1. /\ UNCHANGED <<job, heap, high>> /\ stop' # "half"
        /\ pc' \in Handling => pc \in Handling
    BY <1>3
       DEF Truncate, Flush, SaveFails, SaveStep, Goto, Handling, OrderInv, IInv, FileSound
  <2>. QED  BY <2>1 DEF HalfSound
<1>4. CASE CloseFile
  <2>1. /\ pc' \notin Handling /\ high' = high /\ file' = Image(heap) /\ stop' = job.cut
        /\ heap \in Heap
    BY <1>4, HeapFacts DEF CloseFile, SaveStep, Die, Goto, Handling, OrderInv
  <2>2. ASSUME stop' = "half" PROVE SavedNumber' >= high'
    <3>1. pc \in Handling
      BY <1>4, <2>1, <2>2 DEF CloseFile, Handling, OrderInv, IInv, Typed
    <3>2. heap.next_number >= high
      BY <2>1, <2>2, <3>1 DEF HalfSound
    <3>3. Loaded(Image(heap)).next_number = heap.next_number
      BY <2>1, ImageLoads
    <3>. QED  BY <2>1, <3>2, <3>3 DEF SavedNumber
  <2>. QED  BY <2>1, <2>2 DEF HalfSound
<1>5. CASE Send
  <2>1. stop' # "half" /\ pc' \notin Handling
    BY <1>5 DEF Send, Goto, Handling, OrderInv, IInv, FileSound
  <2>. QED  BY <2>1 DEF HalfSound
<1>6. CASE Signal
  <2>1. UNCHANGED <<heap, file, high, stop>>
    BY <1>6 DEF Signal
  <2>2. ASSUME job'.cut = "half" PROVE heap.next_number >= high
    <3>1. pc \in Mutating
      BY <1>6, <2>2, NoJobType DEF Signal, Jobs
    <3>. QED
      BY <3>1 DEF Mutating, Operating, Posting, Closing, OrderInv, IInv, MemorySound
  <2>. QED  BY <2>1, <2>2 DEF HalfSound, SavedNumber
<1>7. CASE Kill \/ Boot
  <2>1. pc' \notin Handling /\ UNCHANGED <<file, high, stop>>
    BY <1>7 DEF Kill, Boot, Die, Goto, Handling
  <2>. QED  BY <2>1 DEF HalfSound, SavedNumber
<1>. QED  BY <1>1, <1>2, <1>3, <1>4, <1>5, <1>6, <1>7 DEF Next

\* An answer tells the number of the account it opened, one below the next; a
\* start from an Intact file goes on above all told.
LEMMA ToldKept ==
    ASSUME ToldInv, OrderInv', OrderlyNext
    PROVE  ToldSound'
<1>1. /\ Next /\ orderly' = IF Served THEN InOrder(heap') ELSE orderly
      /\ told' = CASE Served /\ ~(orderly /\ Intact) -> heap'.next_number - 1
                   [] pc = "send" /\ pc' = "recv" /\ Opening -> heap.bank[job.slot].number
                   [] OTHER -> told
  BY DEF OrderlyNext
<1>2. /\ told \in Int /\ high \in Nat /\ high' \in Nat /\ heap'.next_number \in Nat
      /\ orderly => told < high
  <2>1. heap' \in Heap /\ high' \in Nat
    BY DEF OrderInv, IInv, Typed, TypeOK
  <2>2. heap'.next_number \in Nat
    BY <2>1 DEF Heap
  <2>. QED  BY <2>1, <2>2 DEF ToldInv, ToldSound, OrderInv, IInv, Typed, TypeOK
<1>3. CASE Served
  <2>1. heap' = Loaded(file) /\ high' = heap'.next_number /\ pc \in Loading
    <3>1. heap' = Loaded(file) /\ pc \in Loading /\ pc' = "recv"
      BY <1>1, <1>3, ServedLoads DEF ToldInv, OrderInv, Served
    <3>2. high' = heap'.next_number
      BY <3>1 DEF OrderInv, IInv, MemorySound
    <3>. QED  BY <3>1, <3>2
  <2>2. CASE ~ (orderly /\ Intact)
    <3>1. told' = heap'.next_number - 1
      BY <1>1, <1>3, <2>1, <2>2 DEF Loading
    <3>. QED  BY <1>2, <2>1, <3>1 DEF ToldSound
  <2>3. CASE orderly /\ Intact
    <3>1. told' = told
      BY <1>1, <1>3, <2>1, <2>3 DEF Loading
    <3>2. SavedNumber >= high
      BY <2>3 DEF Intact, ToldInv, HalfSound, OrderInv, IInv, FileSound
    <3>. QED  BY <1>2, <2>1, <2>3, <3>1, <3>2 DEF ToldSound, SavedNumber
  <2>. QED  BY <2>2, <2>3
<1>4. CASE Send
  <2>1. /\ pc = "send" /\ pc' = "recv" /\ high' = heap.next_number /\ orderly' = orderly
        /\ heap' = heap /\ ~ Served
    BY <1>1, <1>4, OthersServeNone DEF Send, Goto
  <2>2. CASE Opening
    <3>1. job.slot \in LiveSlots(heap)
      BY <2>1, <2>2 DEF ToldInv, OpeningSound
    <3>2. heap.bank[job.slot].number \in Int
      BY <3>1, HeapFacts DEF ToldInv, OrderInv, Account
    <3>3. orderly => heap.bank[job.slot].number < heap.next_number
      BY <2>1, <3>1 DEF ToldInv, OrderInv, Ordered, MemoryInOrder, InOrder
    <3>4. told' = heap.bank[job.slot].number
      BY <1>1, <2>1, <2>2
    <3>. QED  BY <2>1, <3>2, <3>3, <3>4 DEF ToldSound
  <2>3. CASE ~ Opening
    <3>1. told' = told
      BY <1>1, <2>1, <2>3
    <3>2. heap.next_number >= high
      BY <2>1 DEF ToldInv, OrderInv, IInv, MemorySound
    <3>. QED  BY <1>2, <2>1, <3>1, <3>2 DEF ToldSound
  <2>. QED  BY <2>2, <2>3
<1>5. CASE ~ Served /\ ~ Send
  <2>1. high' = high
    BY <1>1, <1>5, HighKept DEF ToldInv
  <2>2. ~ (pc = "send" /\ pc' = "recv")
    BY <1>1, <1>5
       DEF Next, LoadHeader, LoadNumber, LoadAccount, LoadEnds, Receive, AskOpen, AskClose,
           AskDeposit, AskWithdraw, Begin, Operate, Claim, Clear, Number, Identity, Fund,
           Credit, Debit, Count, Post, Shrink, Move, Step, Truncate, Flush, CloseFile,
           SaveFails, SaveStep, Die, Goto, Signal, Kill, Boot
  <2>3. told' = told /\ orderly' = orderly
    BY <1>1, <1>5, <2>2
  <2>. QED  BY <1>2, <2>1, <2>3 DEF ToldSound
<1>. QED  BY <1>3, <1>4, <1>5

\* Every step keeps all that is told below the next number.
LEMMA ToldStep ==
    ASSUME ToldInv, [OrderlyNext]_orderlyVars
    PROVE  ToldInv'
<1>1. OrderInv'
  BY OrderStep DEF ToldInv
<1>2. CASE UNCHANGED orderlyVars
  <2>1. UNCHANGED <<pc, job, heap, file, high, stop, orderly, told>>
    BY <1>2 DEF orderlyVars, vars
  <2>2. OpeningSound' = OpeningSound
    BY <2>1 DEF OpeningSound, Opening, FinalNumber
  <2>3. HalfSound' = HalfSound /\ ToldSound' = ToldSound
    BY <2>1 DEF HalfSound, SavedNumber, ToldSound
  <2>. QED  BY <1>1, <2>2, <2>3 DEF ToldInv
<1>3. CASE OrderlyNext
  <2>1. Next
    BY <1>3 DEF OrderlyNext
  <2>2. OpeningSound' /\ HalfSound'
    BY <1>1, <2>1, OpeningKept, HalfKept DEF ToldInv
  <2>3. ToldSound'
    BY <1>1, <1>3, ToldKept
  <2>. QED  BY <1>1, <2>2, <2>3 DEF ToldInv
<1>. QED  BY <1>2, <1>3

\* open_account, taken apart into its statements, between signals, kills and
\* starts, answers with a number above all that were answered before it, as long
\* as each start finds a file that has the number of the last answer; and no two
\* accounts of the table it keeps share a number.
THEOREM NumbersStayUnique == OrderlySpec => []NumbersUnique
<1>1. ToldInv => NumbersUnique
  <2> SUFFICES ASSUME ToldInv, orderly PROVE NumbersUnique
    BY DEF NumbersUnique
  <2>1. pc \in {"recv", "send"} => InOrder(heap)
    BY DEF ToldInv, OrderInv, Ordered, MemoryInOrder
  <2>2. ASSUME pc = "send", Opening PROVE heap.bank[job.slot].number > told
    <3>1. heap.bank[job.slot].number >= high /\ job.slot \in LiveSlots(heap)
      BY <2>2 DEF ToldInv, OpeningSound, FinalNumber
    <3>2. heap.bank[job.slot].number \in Int /\ high \in Int
      BY <3>1, HeapFacts DEF ToldInv, OrderInv, IInv, Typed, TypeOK, Account
    <3>. QED  BY <3>1, <3>2 DEF ToldInv, ToldSound
  <2>. QED  BY <2>1, <2>2 DEF NumbersUnique
<1>2. ToldInv /\ [OrderlyNext]_orderlyVars => ToldInv'
  BY ToldStep
<1>. QED  BY <1>1, <1>2, ToldInit, PTL DEF OrderlySpec

-----------------------------------------------------------------------------
(* The server implements AtomicBank.                                       *)

\* Where the mapping reads memory, it holds what the history variables say.
LEMMA Mapped ==
    ASSUME OrderInv
    PROVE  Accounts = before /\ NextNumber = high /\ Asked = after
<1>1. /\ pc = "recv" => Fields(heap) = before /\ heap.next_number = high /\ after = before
      /\ pc \in Saving \cup {"send"} => Fields(heap) = after
  BY DEF OrderInv, IInv, MemorySound, HistorySound
<1>. QED  BY <1>1 DEF Accounts, NextNumber, Asked, Waiting, Saving

\* And so after the step.
LEMMA MappedNext ==
    ASSUME OrderInv'
    PROVE  Accounts' = before' /\ NextNumber' = high' /\ Asked' = after'
<1>1. /\ pc' = "recv" => Fields(heap)' = before' /\ heap'.next_number = high' /\ after' = before'
      /\ pc' \in Saving \cup {"send"} => Fields(heap)' = after'
  BY DEF OrderInv, IInv, MemorySound, HistorySound
<1>. QED  BY <1>1 DEF Accounts, NextNumber, Asked, Waiting, Saving

\* What a kill leaves, in AtomicBank's words.
LEMMA Saves ==
    /\ Save \in {"whole", "failed", "torn"}
    /\ Save = "whole" <=> stop = "clean"
    /\ Save = "failed" <=> stop = "unsaved"
  BY DEF Save

\* The phases of the server's statements.
LEMMA Phases ==
    /\ pc \in Loading => Phase = "starting"
    /\ pc = "recv" => Phase = "idle"
    /\ pc \in Operating \cup Saving \cup {"send"} => Phase = "busy"
    /\ pc \in Handling => Phase = IF job.cut = "clean" THEN "closing" ELSE "cutting"
    /\ pc = "down" => Phase = "down"
  BY DEF Phase, Loading, Handling, Operating, Posting, Closing, Saving

\* The same after a step.
LEMMA PhasesNext ==
    /\ pc' \in Loading => Phase' = "starting"
    /\ pc' = "recv" => Phase' = "idle"
    /\ pc' \in Operating \cup Saving \cup {"send"} => Phase' = "busy"
    /\ pc' \in Handling => Phase' = IF job'.cut = "clean" THEN "closing" ELSE "cutting"
    /\ pc' = "down" => Phase' = "down"
  BY DEF Phase, Loading, Handling, Operating, Posting, Closing, Saving

\* There are no more accounts than slots in use.
LEMMA RowsCount ==
    ASSUME NEW h \in Heap
    PROVE  Cardinality(Fields(h)) \in Nat /\ Cardinality(Fields(h)) <= h.accounts_in_use
<1> DEFINE m == h.accounts_in_use
           f == [i \in LiveSlots(h) |-> Row(h.bank[i])]
<1>1. f \in Surjection(LiveSlots(h), Fields(h))
  <2>1. f \in [LiveSlots(h) -> Fields(h)]
    BY FieldsIn
  <2>2. \A x \in Fields(h) : \E i \in LiveSlots(h) : f[i] = x
    BY FieldsIn
  <2> HIDE DEF f
  <2>. QED  BY <2>1, <2>2 DEF Surjection
<1>2. m \in Nat /\ LiveSlots(h) = 0 .. m - 1 /\ 0 \in Int /\ m - 1 \in Int
  BY BankAssumption DEF Heap, LiveSlots
<1> HIDE DEF m
<1>3. /\ IsFiniteSet(0 .. m - 1)
      /\ Cardinality(0 .. m - 1) = IF 0 > m - 1 THEN 0 ELSE (m - 1) - 0 + 1
  BY <1>2, FS_Interval
<1>4. Cardinality(0 .. m - 1) = m
  BY <1>2, <1>3
<1> HIDE DEF f
<1>5. IsFiniteSet(Fields(h)) /\ Cardinality(Fields(h)) <= Cardinality(LiveSlots(h))
  BY <1>1, <1>2, <1>3, FS_Surjection
<1>6. Cardinality(Fields(h)) \in Nat
  BY <1>5, FS_CardinalityType
<1>. QED  BY <1>2, <1>4, <1>5, <1>6 DEF m

\* What AtomicBank takes from the modules it extends is what the server does.
LEMMA SameOperators ==
    /\ \A S : Atomic!Cardinality(S) = Cardinality(S)
    /\ \A x : Atomic!Wrap(x) = Wrap(x)
  BY DEF Atomic!Cardinality, Cardinality, Atomic!Wrap, Wrap

\* The numbers being in order, a request is to change the rows as one whole
\* operation does.
LEMMA AskStep ==
    ASSUME OrderInv, OrderInv', Receive, orderly' = orderly
    PROVE  Atomic!Ask
<1>1. /\ Accounts = before /\ NextNumber = high /\ Asked = after
      /\ Accounts' = before' /\ NextNumber' = high' /\ Asked' = after'
  BY Mapped, MappedNext
<1>2. /\ pc = "recv" /\ pc' \in First /\ UNCHANGED <<heap, file, starts, before, high, stop>>
  BY DEF Receive, AskOpen, AskClose, AskDeposit, AskWithdraw, Begin, Goto, First
<1>3. /\ heap \in Heap /\ Fields(heap) = before /\ heap.next_number = high
      /\ \A i \in LiveSlots(heap) : heap.bank[i] \in Account
  BY <1>2, HeapFacts DEF OrderInv, IInv, MemorySound
<1>4. Phase = "idle" /\ Phase' = "busy"
  BY <1>2, Phases, PhasesNext DEF First, Operating, Posting, Closing
<1>5. UNCHANGED <<Accounts, NextNumber, Disk, Save, orderly>>
  BY <1>1, <1>2 DEF Disk, Save
<1>6. ASSUME orderly
      PROVE  Atomic!Open \/ Atomic!Close \/ Atomic!Deposit \/ Atomic!Withdraw
  <2>1. InOrder(heap)
    BY <1>2, <1>6 DEF OrderInv, Ordered, MemoryInOrder
  <2>2. ASSUME NEW name \in Names, NEW pin \in Pins, AskOpen(name, pin)
        PROVE  Atomic!Open
    <3> DEFINE n == heap.accounts_in_use
    <3>1. OpenStatus(heap) = "OK" /\ after' = Fields(Opened(heap, name, pin))
      BY <2>2 DEF AskOpen, Begin
    <3>2. n < MAX_ACCTS /\ n \in Nat /\ n \notin LiveSlots(heap)
      BY <1>3, <3>1, BankAssumption DEF OpenStatus, Heap, LiveSlots
    <3>3. Cardinality(Fields(heap)) < MAX_ACCTS
      <4>1. Cardinality(Fields(heap)) <= n /\ Cardinality(Fields(heap)) \in Nat
        BY <1>3, RowsCount
      <4>. QED  BY <3>2, <4>1, BankAssumption
    <3>4. after' = Others(heap, n) \cup {<<high, pin, name, MIN_BALANCE, 1>>}
      BY <1>3, <3>1, OpenedRows
    <3>5. after' = before \cup {<<high, pin, name, MIN_BALANCE, 1>>}
      BY <1>3, <3>2, <3>4, RowsBelow
    <3>6. /\ Atomic!Cardinality(Accounts) < MAX_ACCTS
          /\ Asked' = Accounts \cup {<<NextNumber, pin, name, MIN_BALANCE, 1>>}
      BY <1>1, <1>3, <3>3, <3>5, SameOperators
    <3>. QED  BY <3>6 DEF Atomic!Open
  <2>3. ASSUME NEW no, NEW pin, AskClose(no, pin)
        PROVE  Atomic!Close
    <3> DEFINE i == Found(heap, no, pin)
    <3>1. AuthStatus(heap, no, pin) = "OK" /\ after' = Fields(Closed(heap, i))
      BY <2>3 DEF AskClose, Begin
    <3>2. i \in LiveSlots(heap)
      BY <1>3, <3>1, FoundMatches
    <3> HIDE DEF i
    <3>3. after' = before \ {Row(heap.bank[i])} /\ Row(heap.bank[i]) \in before
      BY <1>3, <2>1, <3>1, <3>2, ClosedInOrder, FieldsIn
    <3>. QED  BY <1>1, <3>3 DEF Atomic!Close
  <2>4. ASSUME NEW i \in LiveSlots(heap), NEW bal,
               after' = Others(heap, i) \cup
                   {<<heap.bank[i].number, heap.bank[i].pin, heap.bank[i].name, bal,
                      heap.bank[i].ntran + 1>>}
        PROVE  /\ Row(heap.bank[i]) \in Accounts
               /\ Row(heap.bank[i])[4] = heap.bank[i].balance
               /\ Atomic!Post(Row(heap.bank[i]), bal)
    <3> DEFINE a == heap.bank[i]
               r == Row(a)
    <3>1. Others(heap, i) = before \ {r} /\ r \in before
      BY <1>3, <2>1, OthersAreOther, FieldsIn
    <3>2. r[1] = a.number /\ r[2] = a.pin /\ r[3] = a.name /\ r[4] = a.balance /\ r[5] = a.ntran
      BY DEF Row
    <3>3. after' = (before \ {r}) \cup {<<r[1], r[2], r[3], bal, r[5] + 1>>}
      BY <2>4, <3>1, <3>2
    <3>. QED  BY <1>1, <3>1, <3>2, <3>3 DEF Atomic!Post
  <2>5. ASSUME NEW no, NEW pin, NEW amt \in Amounts, AskDeposit(no, pin, amt)
        PROVE  Atomic!Deposit
    <3> DEFINE i == Found(heap, no, pin)
    <3>1. /\ AuthStatus(heap, no, pin) = "OK" /\ amt \in CInt
          /\ after' = Fields(Deposited(heap, i, amt))
      BY <2>5, ServerAssumption DEF AskDeposit, DepositStatus, Begin
    <3>2. amt >= MIN_DEPOSIT
      <4>1. amt \in Int /\ ~ (amt < MIN_DEPOSIT)
        BY <2>5, <3>1, BankAssumption DEF AskDeposit, DepositStatus, CInt
      <4>. QED  BY <4>1, BankAssumption
    <3>3. i \in LiveSlots(heap)
      BY <1>3, <3>1, FoundMatches
    <3> HIDE DEF i
    <3>4. after' = Others(heap, i) \cup
              {<<heap.bank[i].number, heap.bank[i].pin, heap.bank[i].name,
                 Wrap(heap.bank[i].balance + amt), heap.bank[i].ntran + 1>>}
      BY <1>3, <3>1, <3>3, PostedRows
    <3> DEFINE r == Row(heap.bank[i])
    <3>5. r \in Accounts /\ Atomic!Post(r, Wrap(r[4] + amt))
      BY <2>4, <3>3, <3>4
    <3> HIDE DEF r
    <3>. QED  BY <3>2, <3>5, SameOperators DEF Atomic!Deposit
  <2>6. ASSUME NEW no, NEW pin, NEW amt \in Amounts, AskWithdraw(no, pin, amt)
        PROVE  Atomic!Withdraw
    <3> DEFINE i == Found(heap, no, pin)
    <3>1. /\ AuthStatus(heap, no, pin) = "OK" /\ amt \in CInt
          /\ after' = Fields(Withdrawn(heap, i, amt))
      BY <2>6, ServerAssumption DEF AskWithdraw, WithdrawStatus, AuthStatus, Begin
    <3>2. i \in LiveSlots(heap)
      BY <1>3, <3>1, FoundMatches
    <3>3. /\ ~ (amt < MIN_WITHDRAW) /\ ~ (amt % MIN_WITHDRAW # 0)
          /\ ~ (Wrap(heap.bank[i].balance - amt) < MIN_BALANCE)
      BY <2>6 DEF AskWithdraw, WithdrawStatus
    <3>4. amt \in Int /\ Wrap(heap.bank[i].balance - amt) \in Int
      <4>1. amt \in Int /\ heap.bank[i].balance \in Int
        BY <1>3, <3>1, <3>2, BankAssumption DEF Account, CInt
      <4>2. heap.bank[i].balance - amt \in Int
        BY <4>1
      <4>3. Wrap(heap.bank[i].balance - amt) \in CInt
        BY <4>2, WrapType
      <4>. QED  BY <4>1, <4>3, BankAssumption DEF CInt
    <3> HIDE DEF i
    <3>5. after' = Others(heap, i) \cup
              {<<heap.bank[i].number, heap.bank[i].pin, heap.bank[i].name,
                 Wrap(heap.bank[i].balance - amt), heap.bank[i].ntran + 1>>}
      BY <1>3, <3>1, <3>2, PostedRows
    <3> DEFINE r == Row(heap.bank[i])
               w == Wrap(heap.bank[i].balance - amt)
    <3>6. r \in Accounts /\ r[4] = heap.bank[i].balance /\ Atomic!Post(r, w)
      BY <2>4, <3>2, <3>5
    <3>7. amt >= MIN_WITHDRAW /\ amt % MIN_WITHDRAW = 0 /\ w >= MIN_BALANCE
      <4>1. amt >= MIN_WITHDRAW
        BY <3>3, <3>4, BankAssumption
      <4>2. w \in Int /\ ~ (w < MIN_BALANCE)
        BY <3>3, <3>4 DEF i
      <4> HIDE DEF w
      <4>3. w >= MIN_BALANCE
        BY <4>2, BankAssumption
      <4>. QED  BY <3>3, <4>1, <4>3
    <3> HIDE DEF r
    <3>. QED  BY <3>6, <3>7, SameOperators DEF Atomic!Withdraw
  <2>. QED  BY <2>2, <2>3, <2>5, <2>6 DEF Receive
<1>. QED  BY <1>4, <1>5, <1>6 DEF Atomic!Ask

\* What a step of the server that is none of the bank's leaves alone.
LEMMA Stutter ==
    ASSUME OrderInv, OrderInv', UNCHANGED <<file, before, after, high, stop, orderly>>,
           Phase' = Phase
    PROVE  UNCHANGED Atomic!vars
<1>1. /\ Accounts = before /\ NextNumber = high /\ Asked = after
      /\ Accounts' = before' /\ NextNumber' = high' /\ Asked' = after'
  BY Mapped, MappedNext
<1>2. UNCHANGED <<Accounts, NextNumber, Asked, Disk, Save, orderly>>
  BY <1>1 DEF Disk, Save
<1>. QED  BY <1>2 DEF Atomic!vars

\* The bank's disk is what a start makes of the file.
LEMMA HeldLoads ==
    ASSUME NEW f \in File, Len(f.accounts) <= MAX_ACCTS
    PROVE  Held(f) = [rows |-> Fields(Loaded(f)), next |-> Loaded(f).next_number]
<1>1. CASE f.kind \in {"absent", "empty"}
  <2>1. Loaded(f) = FreshHeap
    BY <1>1 DEF Loaded
  <2>2. Fields(FreshHeap) = {} /\ FreshHeap.next_number = FIRST_NUMBER
    BY EmptyLoads DEF FreshHeap
  <2>. QED  BY <1>1, <2>1, <2>2 DEF Held
<1>2. CASE f.kind \in {"cut", "whole"}
  <2> DEFINE g == Loaded(f)  n == Len(f.accounts)
             rows == {Row(a) : a \in {f.accounts[k] : k \in DOMAIN f.accounts}}
  <2>1. f.accounts \in Seq(JsonAccount) /\ n \in Nat /\ DOMAIN f.accounts = 1 .. n
    BY DEF File
  <2>2. /\ LiveSlots(g) = 0 .. n - 1 /\ g.next_number = f.next_number
        /\ \A i \in LiveSlots(g) : SameFields(g.bank[i], f.accounts[i + 1])
    BY <1>2, LoadedType
  <2> HIDE DEF g, n
  <2>3. \A i \in LiveSlots(g) : Row(g.bank[i]) = Row(f.accounts[i + 1])
    BY <2>2 DEF SameFields, Row
  <2>4. ASSUME NEW x \in Fields(g)
        PROVE  x \in rows
    <3>1. PICK i \in LiveSlots(g) : x = Row(g.bank[i])
      BY <2>4, FieldsIn
    <3>2. i + 1 \in DOMAIN f.accounts
      BY <2>1, <2>2
    <3>. QED  BY <2>3, <3>1, <3>2
  <2>5. ASSUME NEW x \in rows
        PROVE  x \in Fields(g)
    <3>1. PICK k \in DOMAIN f.accounts : x = Row(f.accounts[k])
      BY <2>5
    <3>2. k - 1 \in LiveSlots(g) /\ (k - 1) + 1 = k
      BY <2>1, <2>2
    <3>3. Row(g.bank[k - 1]) = Row(f.accounts[k])
      BY <2>3, <3>2
    <3>. QED  BY <3>1, <3>2, <3>3, FieldsIn
  <2>6. Fields(g) = rows
    BY <2>4, <2>5
  <2>7. Held(f) = [rows |-> rows, next |-> f.next_number]
    BY <1>2 DEF Held, Row
  <2>. QED  BY <2>2, <2>6, <2>7 DEF g
<1>. QED  BY <1>1, <1>2 DEF File

\* The same of the file the server has.
LEMMA DiskLoads ==
    ASSUME IInv
    PROVE  Disk = [rows |-> Fields(Loaded(file)), next |-> Loaded(file).next_number]
  BY FileFacts, HeldLoads DEF Disk

\* load_data stutters until it returns with the accounts of the file.
LEMMA StartStep ==
    ASSUME OrderInv, OrderInv', LoadHeader \/ LoadNumber \/ LoadAccount \/ LoadEnds,
           orderly' = IF Served THEN InOrder(heap') ELSE orderly
    PROVE  Atomic!Start \/ UNCHANGED Atomic!vars
<1>1. pc \in Loading /\ file' = file /\ Phase = "starting"
  BY Phases DEF LoadHeader, LoadNumber, LoadAccount, LoadEnds, Loading
<1>2. CASE pc' = "recv"
  <2>1. Served /\ orderly' = InOrder(heap')
    BY <1>1, <1>2 DEF Served
  <2>2. heap' = Loaded(file)
    BY <2>1, ServedLoads DEF OrderInv, Next
  <2>3. /\ before' = Fields(heap') /\ after' = Fields(heap') /\ high' = heap'.next_number
        /\ stop' = "clean"
    BY <1>1, <1>2 DEF LoadHeader, LoadNumber, LoadAccount, LoadEnds, Ready, Goto
  <2>4. Accounts' = before' /\ NextNumber' = high' /\ Asked' = after'
    BY MappedNext
  <2>5. Accounts' = Disk.rows /\ NextNumber' = Disk.next /\ Asked' = Accounts'
    BY <2>2, <2>3, <2>4, DiskLoads DEF OrderInv
  <2>6. stop = "clean" /\ orderly => orderly'
    BY <2>1, <2>2 DEF OrderInv, Ordered, FileInOrder
  <2>7. Save' = "whole" /\ (Save = "whole" => stop = "clean")
    BY <2>3, Saves DEF Save
  <2>8. Phase' = "idle" /\ UNCHANGED Disk
    BY <1>1, <1>2, PhasesNext DEF Disk
  <2>. QED  BY <1>1, <2>5, <2>6, <2>7, <2>8 DEF Atomic!Start
<1>3. CASE pc' # "recv"
  <2>1. /\ pc' \in Loading /\ orderly' = orderly
        /\ UNCHANGED <<file, before, after, high, stop>>
    BY <1>1, <1>3
       DEF Served, LoadHeader, LoadNumber, LoadAccount, LoadEnds, Ready, Goto, Loading
  <2>2. Phase' = Phase
    BY <1>1, <2>1, PhasesNext
  <2>. QED  BY <2>1, <2>2, Stutter
<1>. QED  BY <1>2, <1>3

\* A statement of an operation is no step of the bank.
LEMMA StatementStutters ==
    ASSUME OrderInv, OrderInv', Operate, orderly' = orderly
    PROVE  UNCHANGED Atomic!vars
<1>1. /\ pc \in Operating /\ pc' \in Operating \cup Saving
      /\ UNCHANGED <<file, before, after, high, stop>>
  BY DEF Operate, Claim, Clear, Number, Identity, Fund, Credit, Debit, Count, Post, Shrink,
         Move, Step, Goto, Operating, Posting, Closing, Saving
<1>2. Phase = "busy" /\ Phase' = "busy"
  BY <1>1, Phases, PhasesNext
<1>. QED  BY <1>1, <1>2, Stutter

\* Truncating and flushing the file are the bank's writing to the disk.
LEMMA WriteStep ==
    ASSUME OrderInv, OrderInv', Truncate \/ Flush, orderly' = orderly
    PROVE  Atomic!Write
<1>1. /\ pc \in Saving \cup Handling
      /\ pc \in Saving <=> pc' \in Saving
      /\ pc \in Handling <=> pc' \in Handling
      /\ UNCHANGED <<job, heap, before, after, high>> /\ stop' \in {"torn", "mangled"}
  <2>1. CASE Truncate
    BY <2>1 DEF Truncate, SaveStep, Goto, Saving, Handling
  <2>2. CASE Flush
    BY <2>2 DEF Flush, SaveStep, Goto, Saving, Handling, OrderInv, IInv, FileSound
  <2>. QED  BY <2>1, <2>2
<1>2. UNCHANGED <<Accounts, NextNumber, Asked>>
  BY <1>1, Mapped, MappedNext
<1>3. Phase \in {"busy", "closing", "cutting"} /\ UNCHANGED Phase
  <2>1. CASE pc \in Saving
    BY <1>1, <2>1, Phases, PhasesNext
  <2>2. CASE pc \in Handling
    <3>1. pc' \in Handling /\ job' = job
      BY <1>1, <2>2
    <3>. QED  BY <2>2, <3>1, Phases, PhasesNext
  <2>. QED  BY <1>1, <2>1, <2>2
<1>4. Save' = "torn"
  BY <1>1 DEF Save
<1>. QED  BY <1>2, <1>3, <1>4 DEF Atomic!Write

\* The bank's next number after the request being served.
LEMMA NumberAfterIs ==
    ASSUME OrderInv
    PROVE  Atomic!NextAfter = NumberAfter(after, high)
  BY Mapped DEF Atomic!NextAfter, NumberAfter

\* fclose: the disk has what the operation, or the last one, left.
LEMMA CloseFileIsSaved ==
    ASSUME OrderInv, OrderInv', CloseFile, orderly' = orderly
    PROVE  Atomic!Saved \/ Atomic!ShutDown
<1>1. /\ file' = Image(heap) /\ stop' = job.cut /\ heap \in Heap
      /\ UNCHANGED <<before, after, high>>
  BY HeapFacts DEF CloseFile, SaveStep, Die, OrderInv
<1>2. UNCHANGED <<Accounts, NextNumber, Asked>>
  BY <1>1, Mapped, MappedNext
<1>3. Disk' = [rows |-> Fields(heap), next |-> heap.next_number]
  BY <1>1, ImageLoads, HeldLoads DEF Disk
<1>4. Disk'.rows = Fields(heap) /\ Disk'.next = heap.next_number
  BY <1>3
<1>5. Accounts = before /\ NextNumber = high /\ Asked = after
  BY Mapped
<1>6. CASE pc = "write"
  <2>1. pc' = "send" /\ stop' = "clean" /\ Fields(heap) = after
    BY <1>1, <1>6
       DEF CloseFile, SaveStep, Goto, OrderInv, IInv, Typed, Handling, MemorySound, Saving
  <2>2. orderly => heap.next_number = NumberAfter(after, high)
    BY <1>6 DEF OrderInv, Ordered, MemoryInOrder, Saving
  <2>3. Atomic!Done(Disk')
    BY <1>4, <1>5, <2>1, <2>2, NumberAfterIs DEF Atomic!Done
  <2>4. Phase = "busy" /\ Phase' = "busy" /\ Save' = "whole"
    BY <1>6, <2>1, Phases, PhasesNext DEF Saving, Save
  <2>. QED  BY <1>2, <2>3, <2>4 DEF Atomic!Saved, Atomic!Done
<1>7. CASE pc = "handler_write"
  <2>1. pc' = "down" /\ pc \in Handling
    BY <1>7 DEF CloseFile, Die, Goto, Handling
  <2>2. Phase' = "down" /\ Phase = IF job.cut = "clean" THEN "closing" ELSE "cutting"
    BY <2>1, Phases, PhasesNext
  <2>3. ASSUME job.cut = "clean"
        PROVE  Save' = "whole" /\ (Atomic!Undone(Disk') \/ Atomic!Done(Disk'))
    <3>1. \/ Fields(heap) = before /\ heap.next_number = high
          \/ Fields(heap) = after /\ (orderly => heap.next_number = NumberAfter(after, high))
      BY <2>1, <2>3 DEF OrderInv, HistorySound, Ordered, MemoryInOrder
    <3>2. Atomic!Undone(Disk') \/ Atomic!Done(Disk')
      BY <1>4, <1>5, <3>1, NumberAfterIs DEF Atomic!Undone, Atomic!Done
    <3>. QED  BY <1>1, <2>3, <3>2 DEF Save
  <2>4. ASSUME job.cut # "clean" PROVE Save' = "torn"
    <3>1. stop' \in {"half", "loading", "mangled"}
      BY <1>1, <2>4 DEF OrderInv, HistorySound
    <3>. QED  BY <3>1 DEF Save
  <2>. QED
    BY <1>2, <2>2, <2>3, <2>4 DEF Atomic!ShutDown, Atomic!Undone, Atomic!Done
<1>. QED  BY <1>6, <1>7 DEF CloseFile

\* A save that cannot open the file leaves the disk.
LEMMA FailedStep ==
    ASSUME OrderInv, OrderInv', SaveFails, orderly' = orderly
    PROVE  Atomic!Failed
<1>1. /\ pc = "truncate" /\ pc' = "send" /\ stop' = "unsaved"
      /\ UNCHANGED <<file, before, after, high>>
  BY DEF SaveFails, SaveStep, Goto
<1>2. UNCHANGED <<Accounts, NextNumber, Asked, Disk>>
  BY <1>1, Mapped, MappedNext DEF Disk
<1>3. Phase = "busy" /\ Phase' = "busy" /\ Save' = "failed"
  BY <1>1, Phases, PhasesNext DEF Saving, Save
<1>. QED  BY <1>2, <1>3 DEF Atomic!Failed

\* An answer follows a save of what it answers, or one that failed.
LEMMA AnswerStep ==
    ASSUME OrderInv, OrderInv', Send, orderly' = orderly
    PROVE  Atomic!Answer
<1>1. /\ pc = "send" /\ pc' = "recv" /\ before' = after
      /\ high' = heap.next_number /\ UNCHANGED <<heap, file, after, stop>>
  BY DEF Send, Goto
<1>2. /\ Accounts = before /\ NextNumber = high /\ Asked = after
      /\ Accounts' = before' /\ NextNumber' = high' /\ Asked' = after'
  BY Mapped, MappedNext
<1>3. Phase = "busy" /\ Phase' = "idle"
  BY <1>1, Phases, PhasesNext
<1>4. Save # "torn" /\ UNCHANGED <<Disk, Save>>
  <2>1. stop \in {"clean", "unsaved"}
    BY <1>1 DEF OrderInv, IInv, FileSound
  <2>. QED  BY <1>1, <2>1 DEF Save, Disk
<1>5. orderly => heap.next_number = NumberAfter(after, high)
  BY <1>1 DEF OrderInv, Ordered, MemoryInOrder
<1>6. Save = "whole" => Atomic!Done(Disk)
  <2>1. Save = "whole" => Disk.rows = after /\ Disk.next = heap.next_number
    BY <1>1, Saves, DiskLoads DEF OrderInv, IInv, FileSound, SavedRows, SavedNumber
  <2>. QED  BY <1>2, <1>5, <2>1, NumberAfterIs DEF Atomic!Done
<1>7. orderly => NextNumber' = Atomic!NextAfter
  BY <1>1, <1>2, <1>5, NumberAfterIs
<1>. QED  BY <1>1, <1>2, <1>3, <1>4, <1>6, <1>7 DEF Atomic!Answer

\* A signal, a kill and a start.
LEMMA StopStep ==
    ASSUME OrderInv, OrderInv', Signal \/ Kill \/ Boot, orderly' = orderly
    PROVE  Atomic!Interrupt \/ Atomic!Kill \/ Atomic!Boot
<1>1. UNCHANGED <<file, before, after, high, stop>>
  BY DEF Signal, Kill, Boot, Die
<1>2. UNCHANGED <<Accounts, NextNumber, Asked, Disk, Save>>
  BY <1>1, Mapped, MappedNext DEF Disk, Save
<1>3. CASE Signal
  <2>1. pc \in Running /\ pc' \in Handling /\ (pc = "recv" => job'.cut = "clean")
    BY <1>3, NoJobType DEF Signal, Goto, Handling, Mutating, Loading, Jobs
  <2>2. Phase' = IF job'.cut = "clean" THEN "closing" ELSE "cutting"
    BY <2>1, PhasesNext
  <2>3. Phase \in {"starting", "idle", "busy"} /\ (Phase = "idle" => pc = "recv")
    BY <2>1, Phases
       DEF Running, Loading, First, Mutating, Saving, Waiting, Operating, Posting, Closing
  <2>. QED  BY <1>2, <2>1, <2>2, <2>3 DEF Atomic!Interrupt
<1>4. CASE Kill
  <2>1. pc' = "down" /\ Phase' = "down"
    BY <1>4, PhasesNext DEF Kill, Die, Goto
  <2>2. Phase # "down"
    BY <1>4 DEF Kill, Phase
  <2>. QED  BY <1>2, <2>1, <2>2 DEF Atomic!Kill
<1>5. CASE Boot
  <2>1. Phase = "down" /\ Phase' = "starting"
    BY <1>5, Phases, PhasesNext DEF Boot, Goto, Loading
  <2>. QED  BY <1>2, <2>1 DEF Atomic!Boot
<1>. QED  BY <1>3, <1>4, <1>5

\* The server starts as the bank does.
LEMMA AtomicInit == OrderlyInit => Atomic!Init
<1> SUFFICES ASSUME OrderlyInit PROVE Atomic!Init
  OBVIOUS
<1>1. /\ pc = "load" /\ stop = "clean" /\ before = Fields(Loaded(file)) /\ after = before
      /\ high = Loaded(file).next_number
  BY DEF OrderlyInit, Init
<1>2. Accounts = before /\ NextNumber = high /\ Asked = after
  BY OrderInit, Mapped
<1>3. Phase = "starting" /\ Save = "whole"
  BY <1>1, Phases DEF Loading, Save
<1>4. Disk = [rows |-> Accounts, next |-> NextNumber]
  BY <1>1, <1>2, OrderInit, DiskLoads DEF OrderInv
<1>. QED  BY <1>1, <1>2, <1>3, <1>4 DEF Atomic!Init

\* Every step of the server is one of the bank, or none.
LEMMA AtomicStep ==
    ASSUME OrderInv, OrderInv', [OrderlyNext]_orderlyVars
    PROVE  [Atomic!Next]_(Atomic!vars)
<1>1. CASE UNCHANGED orderlyVars
  <2>1. UNCHANGED <<pc, job, heap, file, starts, before, after, high, stop, orderly>>
    BY <1>1 DEF orderlyVars, vars
  <2>2. Phase' = Phase
    BY <2>1 DEF Phase
  <2>. QED  BY <2>1, <2>2, Stutter
<1>2. CASE OrderlyNext
  <2>1. Next /\ orderly' = IF Served THEN InOrder(heap') ELSE orderly
    BY <1>2 DEF OrderlyNext
  <2>2. CASE LoadHeader \/ LoadNumber \/ LoadAccount \/ LoadEnds
    <3>1. Atomic!Start \/ UNCHANGED Atomic!vars
      BY <2>1, <2>2, StartStep
    <3>. QED  BY <3>1 DEF Atomic!Next
  <2>3. CASE Receive \/ Operate
    <3>1. orderly' = orderly
      BY <2>1, <2>3, OthersServeNone
    <3>2. Atomic!Ask \/ UNCHANGED Atomic!vars
      BY <2>3, <3>1, AskStep, StatementStutters
    <3>. QED  BY <3>2 DEF Atomic!Next
  <2>4. CASE Truncate \/ Flush \/ CloseFile \/ SaveFails \/ Send \/ Signal \/ Kill \/ Boot
    <3>1. orderly' = orderly
      BY <2>1, <2>4, OthersServeNone
    <3>2. \/ Atomic!Write \/ Atomic!Saved \/ Atomic!ShutDown \/ Atomic!Failed
          \/ Atomic!Answer \/ Atomic!Interrupt \/ Atomic!Kill \/ Atomic!Boot
      BY <2>4, <3>1, WriteStep, CloseFileIsSaved, FailedStep, AnswerStep, StopStep
    <3>. QED  BY <3>2 DEF Atomic!Next
  <2>. QED  BY <2>1, <2>2, <2>3, <2>4 DEF Next
<1>. QED  BY <1>1, <1>2

\* The server is an atomic bank, whatever its table's size and whatever stops
\* it: each request changes the accounts in one step, no answer comes before
\* its save has ended or failed, and a start has the accounts of an answer.
THEOREM IsAtomic == OrderlySpec => ImplementsAtomic
<1>1. OrderInv /\ OrderInv' /\ [OrderlyNext]_orderlyVars => [Atomic!Next]_(Atomic!vars)
  BY AtomicStep
<1>. QED
  BY <1>1, AtomicInit, OrderInvariance, PTL DEF OrderlySpec, ImplementsAtomic, Atomic!Spec

=============================================================================
