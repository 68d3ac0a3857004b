------------------------ MODULE ConcurrentBankProofs ------------------------
(***************************************************************************)
(* Type correctness, Twins, FileFollowsSaver and ShutdownTakesBack of      *)
(* ConcurrentBank, for any set of children and any table.                  *)
(***************************************************************************)
EXTENDS ConcurrentBank, BankPersistenceProofs, FiniteSetTheorems

-----------------------------------------------------------------------------
(* The inductive invariant.                                                *)

Up(p) == pc[p] \notin Gone

\* The server start a process belongs to, and how many PINs it has drawn: the
\* parent draws none.
Born(p)  == IF p = Parent THEN boots ELSE born[p]
Drawn(p) == IF p = Parent THEN 0 ELSE drawn[p]

Typed ==
    /\ TypeOK
    /\ pc[Parent] \in Exiting \cup {"accept", "down"}
    /\ Len(file.accounts) <= MAX_ACCTS
    /\ rand \in [0 .. MaxBoots -> Seq(Pins)]
    /\ boots \in 0 .. MaxBoots /\ born \in [Children -> 0 .. boots]
    /\ drawn \in [Children -> Nat] /\ served \in [Children -> Nat]
    /\ begun \subseteq {c \in Children : pc[c] \in Exiting}

\* The children a running parent has forked and not reaped.
Ours == {c \in Children : pc[c] # "down" /\ born[c] = boots}

Counts == Up(Parent) => IsFiniteSet(Ours) /\ child_count[Parent] = Cardinality(Ours)

\* The parent's table is what it has loaded; after its save on the way out,
\* with no child left to save or exit, the file too.
BaseKept ==
    /\ Up(Parent) => Fields(heap[Parent]) = base
    /\ quiet => /\ pc[Parent] \in {"exit", "down"} /\ \A c \in Children : ~ Up(c)
                /\ Fields(Loaded(file)) = base

\* No account number of g has another PIN in h.
Agree(g, h) ==
    \A i \in LiveSlots(g), j \in LiveSlots(h) :
        g.bank[i].number = h.bank[j].number => g.bank[i].pin = h.bank[j].pin

Below(h) == \A i \in LiveSlots(h) : h.bank[i].number < h.next_number

\* next_number of the parent that p was forked from.
Start(p) == heap[p].next_number - Drawn(p)

\* The accounts opened since the fork have the PINs of the common sequence.
Yields(p) ==
    /\ Drawn(p) <= Len(rand[Born(p)])
    /\ Below(heap[p])
    /\ \A i \in LiveSlots(heap[p]) :
           LET a == heap[p].bank[i]
           IN  a.number >= Start(p) => a.pin = rand[Born(p)][a.number - Start(p) + 1]

\* Processes of one server start differ only in how far they have got.
Peers(p, q) == Start(p) = Start(q) /\ Agree(heap[p], heap[q])

Kin ==
    /\ \A p \in Procs : Up(p) => Yields(p)
    /\ \A p, q \in Procs : Up(p) /\ Up(q) /\ Born(p) = Born(q) => Peers(p, q)

\* What the next parent would load has one PIN to a number, too.
FileClear == Agree(Loaded(file), Loaded(file)) /\ Below(Loaded(file))

IInv == Typed /\ Counts /\ FileFollowsSaver /\ BaseKept /\ Kin /\ FileClear

-----------------------------------------------------------------------------
(* Numbers and PINs through the operations and through the file.           *)

\* Every account of g is one of h, as far as number and PIN go.
Heirs(g, h) ==
    /\ g.next_number = h.next_number
    /\ \A i \in LiveSlots(g) : \E j \in LiveSlots(h) :
           g.bank[i].number = h.bank[j].number /\ g.bank[i].pin = h.bank[j].pin

LEMMA HeirsSelf == ASSUME NEW h PROVE Heirs(h, h)
BY DEF Heirs

\* What is said of the accounts of h is true of their heirs.
LEMMA HeirsClear ==
    ASSUME NEW g, NEW h, Heirs(g, h)
    PROVE  /\ Below(h) => Below(g)
           /\ \A e, f : Heirs(e, f) /\ Agree(h, f) => Agree(g, e)
<1>1. Below(h) => Below(g)
  BY DEF Heirs, Below
<1>2. ASSUME NEW e, NEW f, Heirs(e, f), Agree(h, f)
      PROVE  Agree(g, e)
  BY <1>2 DEF Heirs, Agree
<1>. QED  BY <1>1, <1>2

\* close_account drops an account, a posting keeps number and PIN.
LEMMA OperationHeirs ==
    ASSUME NEW h \in Heap, NEW i \in LiveSlots(h), NEW amt \in CInt
    PROVE  /\ Heirs(Closed(h, i), h)
           /\ Heirs(Deposited(h, i, amt), h)
           /\ Heirs(Withdrawn(h, i, amt), h)
<1>1. h.accounts_in_use \in Nat /\ i \in Slots /\ h.bank \in [Slots -> Account]
  BY SlotBelow, BankAssumption DEF Heap
<1>2. Heirs(Closed(h, i), h)
  <2> DEFINE g == Closed(h, i)
             n == h.accounts_in_use - 1
  <2>1. /\ g.next_number = h.next_number /\ g.accounts_in_use = n
        /\ \A k \in LiveSlots(h) : g.bank[k] = IF k = i THEN h.bank[n] ELSE h.bank[k]
    BY <1>1, SlotBelow DEF Closed, Heap
  <2>2. n \in LiveSlots(h) /\ \A k \in LiveSlots(g) : k \in LiveSlots(h)
    BY <1>1, <2>1 DEF LiveSlots
  <2> HIDE DEF g, n
  <2>3. Heirs(g, h)
    BY <2>1, <2>2 DEF Heirs
  <2>. QED  BY <2>3 DEF g
<1>3. ASSUME NEW a \in Account, NEW typ
      PROVE  /\ remember(Credited(a, amt), typ, amt).number = a.number
             /\ remember(Credited(a, amt), typ, amt).pin = a.pin
             /\ remember(Debited(a, amt), typ, amt).number = a.number
             /\ remember(Debited(a, amt), typ, amt).pin = a.pin
  BY DEF remember, Credited, Debited, Account
<1>4. Heirs(Deposited(h, i, amt), h)
  <2> DEFINE g == Deposited(h, i, amt)
  <2>1. /\ g.next_number = h.next_number /\ g.accounts_in_use = h.accounts_in_use
        /\ \A k \in Slots : g.bank[k] = IF k = i THEN remember(Credited(h.bank[i], amt), "D", amt)
                                        ELSE h.bank[k]
    BY <1>1 DEF Deposited, Heap
  <2>2. LiveSlots(g) = LiveSlots(h) /\ LiveSlots(g) \subseteq Slots
    BY <2>1, SlotBelow DEF LiveSlots
  <2> HIDE DEF g
  <2>3. ASSUME NEW k \in LiveSlots(g)
        PROVE  g.bank[k].number = h.bank[k].number /\ g.bank[k].pin = h.bank[k].pin
    BY <1>1, <1>3, <2>1, <2>2
  <2>4. Heirs(g, h)
    BY <2>1, <2>2, <2>3 DEF Heirs
  <2>. QED  BY <2>4 DEF g
<1>5. Heirs(Withdrawn(h, i, amt), h)
  <2> DEFINE g == Withdrawn(h, i, amt)
  <2>1. /\ g.next_number = h.next_number /\ g.accounts_in_use = h.accounts_in_use
        /\ \A k \in Slots : g.bank[k] = IF k = i THEN remember(Debited(h.bank[i], amt), "W", amt)
                                        ELSE h.bank[k]
    BY <1>1 DEF Withdrawn, Heap
  <2>2. LiveSlots(g) = LiveSlots(h) /\ LiveSlots(g) \subseteq Slots
    BY <2>1, SlotBelow DEF LiveSlots
  <2> HIDE DEF g
  <2>3. ASSUME NEW k \in LiveSlots(g)
        PROVE  g.bank[k].number = h.bank[k].number /\ g.bank[k].pin = h.bank[k].pin
    BY <1>1, <1>3, <2>1, <2>2
  <2>4. Heirs(g, h)
    BY <2>1, <2>2, <2>3 DEF Heirs
  <2>. QED  BY <2>4 DEF g
<1>. QED  BY <1>2, <1>4, <1>5

\* open_account gives the next number.
LEMMA OpenedRows ==
    ASSUME NEW h \in Heap, OpenStatus(h) = "OK", NEW name \in Names, NEW pin \in Pins
    PROVE  LET g == Opened(h, name, pin)
           IN  /\ g.next_number = h.next_number + 1
               /\ \A k \in LiveSlots(g) :
                      \/ g.bank[k].number = h.next_number /\ g.bank[k].pin = pin
                      \/ k \in LiveSlots(h) /\ g.bank[k] = h.bank[k]
<1> DEFINE g == Opened(h, name, pin)
           n == h.accounts_in_use
           a == [ZeroAccount EXCEPT !.number = h.next_number, !.pin = pin,
                                    !.name = name, !.balance = MIN_BALANCE]
           b == remember(a, "D", MIN_BALANCE)
<1>1. n \in Nat /\ n \in Slots /\ h.bank \in [Slots -> Account]
  BY BankAssumption DEF OpenStatus, Heap, Slots
<1>2. a \in Account /\ a.number = h.next_number /\ a.pin = pin
  BY ZeroAccountType, ConstantsFit, BankAssumption DEF Account, Heap, ZeroAccount
<1> HIDE DEF a
<1>3. b.number = a.number /\ b.pin = a.pin
  BY <1>2, RememberKeeps
<1>4. /\ g.next_number = h.next_number + 1 /\ g.accounts_in_use = n + 1
      /\ g.bank = [h.bank EXCEPT ![n] = b]
  BY DEF Opened, a
<1> HIDE DEF b, g
<1>5. ASSUME NEW k \in LiveSlots(g)
      PROVE  k = n \/ k \in LiveSlots(h)
  BY <1>1, <1>4 DEF LiveSlots
<1>6. ASSUME NEW k \in LiveSlots(h)
      PROVE  k \in Slots
  BY SlotBelow
<1>7. g.bank[n] = b /\ \A k \in LiveSlots(h) : k # n => g.bank[k] = h.bank[k]
  BY <1>1, <1>4, <1>6
<1>8. \A k \in LiveSlots(g) : \/ g.bank[k].number = h.next_number /\ g.bank[k].pin = pin
                              \/ k \in LiveSlots(h) /\ g.bank[k] = h.bank[k]
  BY <1>2, <1>3, <1>5, <1>7
<1>. QED  BY <1>4, <1>8 DEF g

\* What a save writes, a load reads back.
LEMMA ImageHeirs ==
    ASSUME NEW h \in Heap
    PROVE  Heirs(Loaded(Image(h)), h)
<1> DEFINE g == Loaded(Image(h))
<1>1. /\ g.accounts_in_use = h.accounts_in_use /\ g.next_number = h.next_number
      /\ \A i \in LiveSlots(h) : SameFields(g.bank[i], h.bank[i])
  BY ImageAgrees, LoadedAgrees
<1>2. LiveSlots(g) = LiveSlots(h)
  BY <1>1 DEF LiveSlots
<1> HIDE DEF g
<1>3. Heirs(g, h)
  BY <1>1, <1>2 DEF Heirs, SameFields
<1>. QED  BY <1>3 DEF g

-----------------------------------------------------------------------------
(* The invariant's parts through a step.                                   *)

LEMMA ProcFacts == /\ Parent \in Procs /\ Parent \notin Children /\ Children \subseteq Procs
                   /\ Nobody \notin Procs /\ \A p \in Procs : p \in Children \/ p = Parent
BY ConcurrentAssumption DEF Procs, Parent, Nobody

\* No account is opened: every process that runs has heirs of the accounts it,
\* or the process it was forked from, had before.
LEMMA KinKept ==
    ASSUME Typed, Kin, rand' = rand, NEW src \in [Procs -> Procs],
           \A p \in Procs : Up(p)' =>
               /\ Up(src[p]) /\ Heirs(heap'[p], heap[src[p]])
               /\ Drawn(p)' = Drawn(src[p]) /\ Born(p)' = Born(src[p])
    PROVE  Kin'
<1>1. ASSUME NEW p \in Procs, Up(p)'
      PROVE  Yields(p)' /\ Start(p)' = Start(src[p])
  <2> DEFINE q == src[p]
             g == heap'[p]
             h == heap[q]
  <2>1. q \in Procs /\ Up(q) /\ Heirs(g, h) /\ Drawn(p)' = Drawn(q) /\ Born(p)' = Born(q)
    BY <1>1
  <2>2. Yields(q)
    BY <2>1 DEF Kin
  <2>3. Start(p)' = Start(q)
    BY <2>1 DEF Start, Heirs
  <2>4. Below(g)
    BY <2>1, <2>2, HeirsClear DEF Yields
  <2> HIDE DEF g, h, q
  <2>5. ASSUME NEW i \in LiveSlots(g), g.bank[i].number >= Start(q)
        PROVE  g.bank[i].pin = rand[Born(q)][g.bank[i].number - Start(q) + 1]
    <3>1. PICK j \in LiveSlots(h) : h.bank[j].number = g.bank[i].number
                                    /\ h.bank[j].pin = g.bank[i].pin
      BY <2>1 DEF Heirs
    <3>. QED  BY <2>2, <2>5, <3>1 DEF Yields, h
  <2>6. Yields(p)'
    BY <2>1, <2>2, <2>3, <2>4, <2>5 DEF Yields, g
  <2>. QED  BY <2>3, <2>6 DEF q
<1>2. ASSUME NEW p \in Procs, NEW q \in Procs, Up(p)', Up(q)', Born(p)' = Born(q)'
      PROVE  Peers(p, q)'
  <2>1. /\ src[p] \in Procs /\ Up(src[p]) /\ Heirs(heap'[p], heap[src[p]])
        /\ src[q] \in Procs /\ Up(src[q]) /\ Heirs(heap'[q], heap[src[q]])
        /\ Born(src[p]) = Born(src[q])
    BY <1>2
  <2>2. Peers(src[p], src[q])
    BY <2>1 DEF Kin
  <2>3. Agree(heap'[p], heap'[q])
    BY <2>1, <2>2, HeirsClear DEF Peers
  <2>4. Start(p)' = Start(q)'
    BY <1>1, <1>2, <2>2 DEF Peers
  <2>. QED  BY <2>3, <2>4 DEF Peers
<1>. QED  BY <1>1, <1>2 DEF Kin

\* A cut text has the first of the table's accounts.
LEMMA CutHeirs ==
    ASSUME NEW h \in Heap, NEW k \in 0 .. h.accounts_in_use
    PROVE  Heirs(Loaded(Cut(h, k)), h)
<1> DEFINE g == Loaded(Cut(h, k))
<1>1. Fields(g) \subseteq Fields(h) /\ g.next_number = h.next_number
  BY CutLoads
<1> HIDE DEF g
<1>2. ASSUME NEW i \in LiveSlots(g)
      PROVE  \E j \in LiveSlots(h) : Row(g.bank[i]) = Row(h.bank[j])
  BY <1>1, FieldsIn
<1>3. \A a, b : Row(a) = Row(b) => a.number = b.number /\ a.pin = b.pin
  BY DEF Row
<1>4. Heirs(g, h)
  BY <1>1, <1>2, <1>3 DEF Heirs
<1>. QED  BY <1>4 DEF g

\* What a process leaves in the file.
Texts(p) == {EmptyFile, Image(heap[p])} \cup {Cut(heap[p], k) : k \in 0 .. heap[p].accounts_in_use}

\* The files there are to load.
LEMMA FileKept ==
    ASSUME IInv, NEW p \in Procs, Up(p), file' = file \/ file' \in Texts(p)
    PROVE  file' \in File /\ Len(file'.accounts) <= MAX_ACCTS /\ FileClear'
<1>1. heap[p] \in Heap /\ Below(heap[p]) /\ Agree(heap[p], heap[p])
  BY DEF IInv, Typed, TypeOK, Kin, Yields, Peers
<1>2. CASE file' = file
  BY <1>2 DEF IInv, Typed, TypeOK, FileClear
<1>3. CASE file' = EmptyFile
  <2>1. LiveSlots(Loaded(EmptyFile)) = {}
    BY EmptyLoads DEF LiveSlots, FreshHeap
  <2>2. FileClear'
    BY <1>3, <2>1 DEF FileClear, Agree, Below
  <2>. QED  BY <1>3, <2>2, EmptyLoads, BankAssumption
<1>4. CASE file' = Image(heap[p])
  <2>1. Heirs(Loaded(file'), heap[p])
    BY <1>1, <1>4, ImageHeirs
  <2>2. FileClear'
    BY <1>1, <2>1, HeirsClear DEF FileClear
  <2>. QED  BY <1>1, <1>4, <2>2, ImageLoads
<1>5. ASSUME NEW k \in 0 .. heap[p].accounts_in_use, file' = Cut(heap[p], k)
      PROVE  file' \in File /\ Len(file'.accounts) <= MAX_ACCTS /\ FileClear'
  <2>1. Heirs(Loaded(file'), heap[p])
    BY <1>1, <1>5, CutHeirs
  <2>2. FileClear'
    BY <1>1, <2>1, HeirsClear DEF FileClear
  <2>. QED  BY <1>1, <1>5, <2>2, CutLoads
<1>. QED  BY <1>2, <1>3, <1>4, <1>5 DEF Texts

\* The count of children changes by fork, by a child that is reaped and with
\* the parent.
LEMMA CountsKept ==
    ASSUME Counts, Up(Parent)' => Up(Parent), UNCHANGED <<born, boots, child_count>>,
           \A c \in Children : pc'[c] = "down" <=> pc[c] = "down"
    PROVE  Counts'
<1>1. Ours' = Ours
  BY DEF Ours
<1>. QED  BY <1>1 DEF Counts

\* A process goes from one place to another, and may write to the file.
LEMMA MoveStep ==
    ASSUME IInv, NEW p \in Procs, Up(p), NEW l \in Serving \cup Exiting,
           Goto(p, l), p = Parent => l \in Exiting,
           UNCHANGED <<heap, child_count, rand, boots, drawn, served, born, base>>,
           file' = file \/ file' \in Texts(p), garbled' \in BOOLEAN,
           last' \in Procs \cup {Nobody}, FileFollowsSaver',
           begun' = begun \/ (begun' = begun \cup {p} /\ p # Parent), p \in begun' => l \in Exiting,
           quiet' => /\ p = Parent /\ l = "exit" /\ file' = Image(heap[p])
                     /\ \A c \in Children : pc[c] \in Gone
    PROVE  IInv'
<1>1. /\ pc \in [Procs -> Serving \cup Exiting \cup Gone \cup {"accept"}]
      /\ pc' = [pc EXCEPT ![p] = l]
  BY DEF IInv, Typed, TypeOK, Goto
<1>2. l \notin Gone /\ l # "down" /\ pc[p] # "down" /\ pc[p] \notin Gone
  BY DEF Up, Serving, Exiting, Gone
<1>3. /\ pc' \in [Procs -> Serving \cup Exiting \cup Gone \cup {"accept"}]
      /\ pc'[Parent] \in Exiting \cup {"accept", "down"}
      /\ \A q \in Procs : pc'[q] \in Gone <=> pc[q] \in Gone
      /\ \A q \in Procs : pc'[q] = "down" <=> pc[q] = "down"
  BY <1>1, <1>2, ProcFacts DEF IInv, Typed
<1>4. file' \in File /\ Len(file'.accounts) <= MAX_ACCTS /\ FileClear'
  BY FileKept
<1>5. Typed'
  <2>1. begun' \subseteq {c \in Children : pc'[c] \in Exiting}
    BY <1>1, ProcFacts DEF IInv, Typed
  <2>. QED  BY <1>3, <1>4, <2>1, ProcFacts DEF IInv, Typed, TypeOK
<1>6. \A q \in Procs : Up(q)' = Up(q)
  BY <1>3 DEF Up
<1>7. Counts'
  BY <1>3, <1>6, ProcFacts, CountsKept DEF IInv
<1>8. BaseKept'
  <2>1. ASSUME quiet'
        PROVE  /\ pc'[Parent] = "exit" /\ \A c \in Children : ~ Up(c)'
               /\ Fields(Loaded(file')) = Fields(heap[Parent])
    <3>1. heap[Parent] \in Heap /\ file' = Image(heap[Parent])
      BY <2>1, ProcFacts DEF IInv, Typed, TypeOK
    <3>2. Fields(Loaded(file')) = Fields(heap[Parent])
      BY <3>1, ImageLoads
    <3>. QED  BY <1>1, <1>6, <2>1, <3>2, ProcFacts DEF Up
  <2>. QED  BY <1>6, <2>1, ProcFacts DEF IInv, BaseKept
<1>9. Kin'
  <2> DEFINE src == [q \in Procs |-> q]
  <2>1. ASSUME NEW q \in Procs
        PROVE  Drawn(q)' = Drawn(q) /\ Born(q)' = Born(q) /\ src[q] = q
    BY DEF Drawn, Born
  <2>2. src \in [Procs -> Procs]
    OBVIOUS
  <2> HIDE DEF src
  <2>. QED  BY <1>6, <2>1, <2>2, HeirsSelf, KinKept DEF IInv
<1>. QED  BY <1>4, <1>5, <1>7, <1>8, <1>9 DEF IInv

\* A process ends, and may leave a text of its table.
LEMMA EndsStep ==
    ASSUME IInv, NEW p \in Procs, Up(p), Ends(p),
           file' = file \/ file' \in Texts(p), garbled' \in BOOLEAN,
           last' \in Procs \cup {Nobody}, FileFollowsSaver',
           quiet' => quiet /\ file' = file
    PROVE  IInv'
<1> DEFINE l == IF p = Parent THEN "down" ELSE "zombie"
<1>1. /\ pc \in [Procs -> Serving \cup Exiting \cup Gone \cup {"accept"}]
      /\ heap \in [Procs -> Heap]
      /\ pc' = [pc EXCEPT ![p] = l] /\ heap' = [heap EXCEPT ![p] = FreshHeap]
      /\ begun' = begun \ {p}
      /\ UNCHANGED <<child_count, rand, boots, drawn, served, born, base>>
  BY DEF IInv, Typed, TypeOK, Goto, Ends
<1>2. l \in Gone /\ pc[p] # "down" /\ pc[p] \notin Gone
  BY DEF Up, Gone
<1>3. /\ pc' \in [Procs -> Serving \cup Exiting \cup Gone \cup {"accept"}]
      /\ pc'[Parent] \in Exiting \cup {"accept", "down"}
      /\ pc'[p] \in Gone /\ \A q \in Procs : q # p => pc'[q] = pc[q] /\ heap'[q] = heap[q]
      /\ \A c \in Children : pc'[c] = "down" <=> pc[c] = "down"
  BY <1>1, <1>2, ProcFacts DEF IInv, Typed
<1>4. file' \in File /\ Len(file'.accounts) <= MAX_ACCTS /\ FileClear'
  BY FileKept
<1>5. heap' \in [Procs -> Heap]
  BY <1>1, FreshHeapType
<1>6. Typed'
  <2>1. begun' \subseteq {c \in Children : pc'[c] \in Exiting}
    BY <1>1, <1>3, ProcFacts DEF IInv, Typed
  <2>. QED  BY <1>1, <1>3, <1>4, <1>5, <2>1, ProcFacts DEF IInv, Typed, TypeOK
<1>7. ~ Up(p)' /\ \A q \in Procs : Up(q)' => q # p /\ Up(q)
  BY <1>3 DEF Up
<1>8. Counts'
  BY <1>1, <1>3, <1>7, ProcFacts, CountsKept DEF IInv
<1>9. BaseKept'
  <2>1. ASSUME quiet'
        PROVE  /\ pc'[Parent] = "down" /\ \A c \in Children : ~ Up(c)'
               /\ Fields(Loaded(file')) = base
    <3>1. /\ p = Parent /\ \A c \in Children : ~ Up(c)
          /\ Fields(Loaded(file)) = base
      BY <2>1, ProcFacts DEF IInv, BaseKept
    <3>2. \A c \in Children : ~ Up(c)'
      BY <1>7, <3>1, ProcFacts
    <3>. QED  BY <1>1, <2>1, <3>1, <3>2, ProcFacts
  <2>2. Up(Parent)' => heap'[Parent] = heap[Parent] /\ Up(Parent)
    BY <1>3, <1>7, ProcFacts
  <2>. QED  BY <1>1, <2>1, <2>2 DEF IInv, BaseKept
<1>10. Kin'
  <2> DEFINE src == [q \in Procs |-> q]
  <2>1. ASSUME NEW q \in Procs
        PROVE  Drawn(q)' = Drawn(q) /\ Born(q)' = Born(q) /\ src[q] = q
    BY <1>1 DEF Drawn, Born
  <2>2. src \in [Procs -> Procs] /\ rand' = rand
    BY <1>1
  <2>3. \A q \in Procs : Up(q)' => Up(q) /\ heap'[q] = heap[q]
    BY <1>3, <1>7
  <2> HIDE DEF src
  <2>. QED  BY <2>1, <2>2, <2>3, HeirsSelf, KinKept DEF IInv
<1>. QED  BY <1>4, <1>6, <1>8, <1>9, <1>10 DEF IInv

-----------------------------------------------------------------------------
(* Steps.                                                                  *)

\* The first server starts in the invariant.
LEMMA InitIInv == Init => IInv
<1> SUFFICES ASSUME Init PROVE IInv
  OBVIOUS
<1>1. /\ \A c \in Children : pc[c] = "down" /\ c # Parent
      /\ pc[Parent] = "accept" /\ heap[Parent] = FreshHeap /\ \A p \in Procs : Up(p) => p = Parent
  BY ProcFacts DEF Init, Up, Gone
<1>2. Typed
  <2>1. heap \in [Procs -> Heap] /\ file \in File /\ Len(file.accounts) <= MAX_ACCTS
    BY FreshHeapType, EmptyLoads, BankAssumption DEF Init
  <2>2. pc \in [Procs -> Serving \cup Exiting \cup Gone \cup {"accept"}]
    BY DEF Init, Gone
  <2>3. boots \in 0 .. MaxBoots /\ born \in [Children -> 0 .. boots]
        /\ rand \in [0 .. MaxBoots -> Seq(Pins)]
    BY ConcurrentAssumption DEF Init
  <2>. QED  BY <1>1, <2>1, <2>2, <2>3 DEF Init, Typed, TypeOK
<1>3. Ours = {} /\ child_count[Parent] = 0
  BY <1>1, ProcFacts DEF Init, Ours
<1>4. Counts
  BY <1>3, FS_EmptySet DEF Counts
<1>5. FileFollowsSaver
  BY <1>1 DEF FileFollowsSaver
<1>6. LiveSlots(FreshHeap) = {} /\ Fields(FreshHeap) = {}
  BY EmptyLoads DEF FreshHeap, LiveSlots
<1>7. BaseKept
  BY <1>1, <1>6 DEF Init, BaseKept
<1>8. Kin
  <2>1. Below(FreshHeap) /\ Agree(FreshHeap, FreshHeap)
    BY <1>6 DEF Below, Agree
  <2>2. Drawn(Parent) = 0 /\ 0 <= Len(rand[Born(Parent)])
    <3>1. Born(Parent) \in 0 .. MaxBoots
      BY ConcurrentAssumption DEF Init, Born
    <3>. QED  BY <3>1 DEF Init, Drawn
  <2>. QED  BY <1>1, <1>6, <2>1, <2>2 DEF Kin, Yields, Peers
<1>9. FileClear
  BY <1>6, EmptyLoads DEF Init, FileClear, Agree, Below
<1>. QED  BY <1>2, <1>4, <1>5, <1>7, <1>8, <1>9 DEF IInv

\* An operation of a child on its own table.
LEMMA OperateStep ==
    ASSUME IInv, NEW c \in Children, NEW h \in Heap, Operate(c, h),
           rand' \in [0 .. MaxBoots -> Seq(Pins)], drawn' \in [Children -> Nat], Kin'
    PROVE  IInv'
<1>1. /\ pc[c] = "recv" /\ pc' = [pc EXCEPT ![c] = "truncate"]
      /\ heap' = [heap EXCEPT ![c] = h] /\ served' = [served EXCEPT ![c] = @ + 1]
      /\ UNCHANGED <<child_count, file, garbled, last, begun, boots, born, base, quiet>>
      /\ pc \in [Procs -> Serving \cup Exiting \cup Gone \cup {"accept"}]
      /\ heap \in [Procs -> Heap] /\ served \in [Children -> Nat]
  BY DEF Operate, Goto, disk, IInv, Typed, TypeOK
<1>2. c \in Procs /\ c # Parent
  BY ProcFacts
<1>3. /\ pc' \in [Procs -> Serving \cup Exiting \cup Gone \cup {"accept"}]
      /\ heap' \in [Procs -> Heap] /\ pc'[Parent] = pc[Parent] /\ heap'[Parent] = heap[Parent]
  BY <1>1, <1>2, ProcFacts DEF Serving
<1>4. /\ pc[c] \notin Gone /\ pc'[c] = "truncate" /\ pc'[c] \notin Gone
      /\ \A p \in Procs : p # c => pc'[p] = pc[p] /\ heap'[p] = heap[p]
  BY <1>1, <1>2 DEF Gone
<1>5. served' \in [Children -> Nat]
  BY <1>1
<1>6. Typed'
  <2>1. begun' \subseteq {d \in Children : pc'[d] \in Exiting}
    BY <1>1, <1>4, ProcFacts DEF IInv, Typed, Exiting
  <2>. QED  BY <1>1, <1>3, <1>5, <2>1 DEF IInv, Typed, TypeOK
<1>7. Up(c) /\ Up(Parent)' = Up(Parent) /\ \A p \in Procs : Up(p)' = Up(p)
  BY <1>3, <1>4 DEF Up
<1>8. \A d \in Children : pc'[d] = "down" <=> pc[d] = "down"
  BY <1>4, ProcFacts DEF Gone
<1>9. Counts'
  BY <1>1, <1>7, <1>8, CountsKept DEF IInv
<1>10. FileFollowsSaver'
  BY <1>1, <1>4, ProcFacts DEF IInv, FileFollowsSaver
<1>11. BaseKept'
  BY <1>1, <1>2, <1>3, <1>7, ProcFacts DEF IInv, BaseKept
<1>12. FileClear'
  BY <1>1 DEF IInv, FileClear
<1>. QED  BY <1>6, <1>9, <1>10, <1>11, <1>12 DEF IInv

\* close_account, deposit and withdraw.
LEMMA PlainStep ==
    ASSUME IInv, NEW c \in Children, NEW h \in Heap, Operate(c, h), Heirs(h, heap[c]),
           UNCHANGED <<rand, drawn>>
    PROVE  IInv'
<1>1. /\ pc[c] = "recv" /\ pc' = [pc EXCEPT ![c] = "truncate"]
      /\ heap' = [heap EXCEPT ![c] = h] /\ boots' = boots /\ born' = born
      /\ pc \in [Procs -> Serving \cup Exiting \cup Gone \cup {"accept"}]
      /\ heap \in [Procs -> Heap]
  BY DEF Operate, Goto, IInv, Typed, TypeOK
<1>2. c \in Procs /\ pc[c] \notin Gone
  BY <1>1, ProcFacts DEF Gone
<1>3. \A p \in Procs : Up(p)' => Up(p) /\ heap'[p] = IF p = c THEN h ELSE heap[p]
  BY <1>1, <1>2 DEF Up
<1> DEFINE src == [p \in Procs |-> p]
<1>4. src \in [Procs -> Procs]
  OBVIOUS
<1>5. \A p \in Procs : Drawn(p)' = Drawn(p) /\ Born(p)' = Born(p) /\ src[p] = p
  BY <1>1 DEF Drawn, Born
<1> HIDE DEF src
<1>6. Kin'
  BY <1>3, <1>4, <1>5, HeirsSelf, KinKept DEF IInv
<1>. QED  BY <1>6, OperateStep DEF IInv, Typed

\* open_account: the new account has the next number, and the PIN that every
\* child of this server start draws for it.
LEMMA OpenStep ==
    ASSUME IInv, NEW c \in Children, Open(c)
    PROVE  IInv'
<1>1. PICK name \in Names, pin \in Pins :
          OpenStatus(heap[c]) = "OK" /\ Draw(c, pin) /\ Operate(c, Opened(heap[c], name, pin))
  BY DEF Open
<1> DEFINE h == heap[c]
           g == Opened(h, name, pin)
           b == born[c]
           k == drawn[c] + 1
<1>2. /\ pc[c] = "recv" /\ pc' = [pc EXCEPT ![c] = "truncate"]
      /\ heap' = [heap EXCEPT ![c] = g] /\ boots' = boots /\ born' = born
      /\ pc \in [Procs -> Serving \cup Exiting \cup Gone \cup {"accept"}]
      /\ heap \in [Procs -> Heap]
  BY <1>1 DEF Operate, Goto, IInv, Typed, TypeOK
<1>3. c \in Procs /\ c # Parent /\ pc[c] \notin Gone /\ h \in Heap
  BY <1>2, ProcFacts DEF Gone
<1>4. /\ rand \in [0 .. MaxBoots -> Seq(Pins)] /\ boots \in 0 .. MaxBoots
      /\ drawn \in [Children -> Nat] /\ born \in [Children -> 0 .. boots]
  BY DEF IInv, Typed
<1>5. b \in 0 .. MaxBoots /\ rand[b] \in Seq(Pins) /\ k \in Nat /\ drawn[c] \in Nat
  <2>1. 0 .. boots \subseteq 0 .. MaxBoots
    BY <1>4, ConcurrentAssumption
  <2>. QED  BY <1>4, <2>1
<1>6. g \in Heap
  BY <1>1, <1>3, OpenedType
<1>7. Up(c) /\ Born(c) = b /\ Drawn(c) = drawn[c]
  BY <1>3 DEF Up, Born, Drawn
<1>8. Yields(c) /\ k - 1 <= Len(rand[b]) /\ Below(h) /\ h.next_number = Start(c) + drawn[c]
  <2>1. Yields(c)
    BY <1>3, <1>7 DEF IInv, Kin
  <2>2. h.next_number \in Nat
    BY <1>3 DEF Heap
  <2>. QED  BY <1>5, <1>7, <2>1, <2>2 DEF Yields, Start
<1>9. /\ drawn' = [drawn EXCEPT ![c] = k] /\ rand' \in [0 .. MaxBoots -> Seq(Pins)]
      /\ rand'[b][k] = pin /\ k <= Len(rand'[b])
      /\ \A e \in 0 .. MaxBoots : /\ Len(rand[e]) <= Len(rand'[e])
                                  /\ \A i \in 1 .. Len(rand[e]) : rand'[e][i] = rand[e][i]
  <2> DEFINE s == rand[b]
  <2>1. CASE k <= Len(s)
    BY <1>1, <1>4, <1>5, <2>1 DEF Draw
  <2>2. CASE ~ (k <= Len(s))
    <3>1. k = Len(s) + 1 /\ Append(s, pin) \in Seq(Pins) /\ Len(Append(s, pin)) = k
      BY <1>5, <1>8, <2>2
    <3>2. Append(s, pin)[k] = pin /\ \A i \in 1 .. Len(s) : Append(s, pin)[i] = s[i]
      BY <1>5, <3>1
    <3>3. rand' = [rand EXCEPT ![b] = Append(s, pin)] /\ drawn' = [drawn EXCEPT ![c] = k]
      BY <1>1, <2>2 DEF Draw
    <3>4. rand'[b] = Append(s, pin) /\ \A e \in 0 .. MaxBoots : e # b => rand'[e] = rand[e]
      BY <1>4, <1>5, <3>3
    <3>5. rand' \in [0 .. MaxBoots -> Seq(Pins)]
      BY <1>4, <1>5, <3>1, <3>3
    <3>6. \A e \in 0 .. MaxBoots : Len(rand[e]) \in Nat
      BY <1>4
    <3>. QED  BY <1>5, <3>1, <3>2, <3>3, <3>4, <3>5, <3>6
  <2>. QED  BY <2>1, <2>2
<1>10. drawn' \in [Children -> Nat] /\ drawn'[c] = k /\ \A d \in Children : d # c => drawn'[d] = drawn[d]
  BY <1>4, <1>5, <1>9
<1>11. /\ g.next_number = h.next_number + 1
       /\ \A i \in LiveSlots(g) :
              \/ g.bank[i].number = h.next_number /\ g.bank[i].pin = pin
              \/ i \in LiveSlots(h) /\ g.bank[i] = h.bank[i]
  BY <1>1, <1>3, OpenedRows
<1>12. \A p \in Procs : /\ Up(p)' => Up(p)
                        /\ heap'[p] = IF p = c THEN g ELSE heap[p]
                        /\ Born(p)' = Born(p)
                        /\ Drawn(p)' = IF p = c THEN k ELSE Drawn(p)
  BY <1>2, <1>3, <1>10, ProcFacts DEF Up, Born, Drawn
<1> HIDE DEF g, h, k, b
<1>13. ASSUME NEW p \in Procs, Up(p)
       PROVE  /\ Born(p) \in 0 .. MaxBoots /\ Drawn(p) \in Nat /\ heap[p] \in Heap
              /\ Start(p) \in Int /\ Start(p)' = Start(p)
  <2>1. Born(p) \in 0 .. MaxBoots /\ Drawn(p) \in Nat
    BY <1>4, ConcurrentAssumption, ProcFacts DEF Born, Drawn
  <2>2. heap[p].next_number \in Nat /\ heap[p] \in Heap
    BY <1>2 DEF Heap
  <2>3. Start(p)' = Start(p)
    <3>1. CASE p = c
      <4>1. heap'[p].next_number = heap[p].next_number + 1
        BY <1>11, <1>12, <3>1 DEF h
      <4>2. Drawn(p)' = Drawn(p) + 1
        BY <1>7, <1>12, <3>1 DEF k
      <4>. QED  BY <2>1, <2>2, <4>1, <4>2 DEF Start
    <3>2. CASE p # c
      BY <1>12, <3>2 DEF Start
    <3>. QED  BY <3>1, <3>2
  <2>. QED  BY <2>1, <2>2, <2>3 DEF Start
<1>14. ASSUME NEW p \in Procs, Up(p), NEW i \in LiveSlots(heap[p])
       PROVE  heap[p].bank[i].number \in Nat /\ heap[p].next_number \in Nat
  BY <1>13, <1>14, SlotBelow DEF Heap, Account
\* What a process has drawn of a PIN sequence that has grown since.
<1>15. ASSUME NEW p \in Procs, Up(p), NEW i \in LiveSlots(heap[p]),
              heap[p].bank[i].number >= Start(p)
       PROVE  heap[p].bank[i].pin = rand'[Born(p)][heap[p].bank[i].number - Start(p) + 1]
  <2> DEFINE n == heap[p].bank[i].number
  <2>1. Yields(p)
    BY <1>15 DEF IInv, Kin
  <2>2. heap[p].bank[i].pin = rand[Born(p)][n - Start(p) + 1] /\ n < heap[p].next_number
        /\ Drawn(p) <= Len(rand[Born(p)])
    BY <1>15, <2>1 DEF Yields, Below
  <2>3. n \in Nat /\ heap[p].next_number \in Nat /\ Len(rand[Born(p)]) \in Nat
    BY <1>4, <1>13, <1>14, <1>15
  <2>4. n >= Start(p) /\ Start(p) \in Int /\ Drawn(p) \in Nat
    BY <1>13, <1>15
  <2>5. heap[p].next_number = Start(p) + Drawn(p)
    BY <2>3, <2>4 DEF Start
  <2> HIDE DEF n
  <2>6. n - Start(p) + 1 \in 1 .. Len(rand[Born(p)])
    BY <2>2, <2>3, <2>4, <2>5
  <2>. QED  BY <1>9, <1>13, <1>15, <2>2, <2>6 DEF n
<1>16. ASSUME NEW p \in Procs, Up(p)'
       PROVE  Yields(p)'
  <2>1. Up(p) /\ Yields(p)
    BY <1>12, <1>16 DEF IInv, Kin
  <2>2. CASE p # c
    <3>1. Drawn(p) <= Len(rand'[Born(p)])
      <4>1. Len(rand[Born(p)]) \in Nat /\ Len(rand'[Born(p)]) \in Nat
        BY <1>4, <1>9, <1>13, <2>1
      <4>. QED  BY <1>9, <1>13, <2>1, <4>1 DEF Yields
    <3>2. /\ heap'[p] = heap[p] /\ Drawn(p)' = Drawn(p) /\ Born(p)' = Born(p)
          /\ Start(p)' = Start(p) /\ Below(heap[p])
      BY <1>12, <1>13, <2>1, <2>2 DEF Yields
    <3>3. \A i \in LiveSlots(heap[p]) :
              heap[p].bank[i].number >= Start(p)
                  => heap[p].bank[i].pin = rand'[Born(p)][heap[p].bank[i].number - Start(p) + 1]
      BY <1>15, <2>1
    <3>. QED  BY <3>1, <3>2, <3>3 DEF Yields
  <2>3. CASE p = c
    <3>1. Below(g)
      <4>1. /\ h.next_number \in Nat
            /\ \A i \in LiveSlots(h) : h.bank[i].number \in Nat /\ h.bank[i].number < h.next_number
        BY <1>3, <1>7, <1>8, <1>13, <1>14 DEF Below, h, Heap
      <4>2. ASSUME NEW i \in LiveSlots(g)
            PROVE  g.bank[i].number < h.next_number + 1
        BY <1>11, <4>1
      <4>. QED  BY <1>11, <4>2 DEF Below
    <3>2. ASSUME NEW i \in LiveSlots(g), g.bank[i].number >= Start(c)
          PROVE  g.bank[i].pin = rand'[b][g.bank[i].number - Start(c) + 1]
      <4>1. CASE g.bank[i].number = h.next_number /\ g.bank[i].pin = pin
        <5>1. g.bank[i].number - Start(c) + 1 = k
          BY <1>3, <1>5, <1>7, <1>8, <1>13, <4>1 DEF k
        <5>. QED  BY <1>9, <4>1, <5>1
      <4>2. CASE i \in LiveSlots(h) /\ g.bank[i] = h.bank[i]
        BY <1>3, <1>7, <1>15, <3>2, <4>2 DEF h
      <4>. QED  BY <1>11, <4>1, <4>2
    <3>. QED  BY <1>3, <1>7, <1>9, <1>12, <1>13, <2>3, <3>1, <3>2 DEF Yields
  <2>. QED  BY <2>2, <2>3
\* Two processes have a number in common: the one just given, or older.
<1>17. ASSUME NEW p \in Procs, Up(p), Born(p) = b
       PROVE  Agree(g, heap[p]) /\ Agree(heap[p], g)
  <2>1. Peers(c, p) /\ Peers(p, c)
    BY <1>3, <1>7, <1>17 DEF IInv, Kin
  <2>2. ASSUME NEW j \in LiveSlots(heap[p]), heap[p].bank[j].number = h.next_number
        PROVE  heap[p].bank[j].pin = pin
    <3>1. heap[p].bank[j].number - Start(p) + 1 = k /\ heap[p].bank[j].number >= Start(p)
      BY <1>5, <1>7, <1>8, <1>13, <2>1, <2>2, <1>3 DEF Peers, k
    <3>. QED  BY <1>9, <1>15, <1>17, <2>2, <3>1
  <2>. QED  BY <1>11, <2>1, <2>2 DEF Peers, Agree, h
<1>18. Agree(g, g)
  <2>1. Agree(h, h)
    BY <1>3, <1>7 DEF IInv, Kin, Peers, h
  <2>2. \A i \in LiveSlots(h) : h.bank[i].number # h.next_number
    BY <1>3, <1>7, <1>8, <1>14 DEF Below, h
  <2>. QED  BY <1>11, <2>1, <2>2 DEF Agree
<1>19. ASSUME NEW p \in Procs, NEW q \in Procs, Up(p)', Up(q)', Born(p)' = Born(q)'
       PROVE  Peers(p, q)'
  <2>1. Up(p) /\ Up(q) /\ Born(p) = Born(q) /\ Peers(p, q)
    BY <1>12, <1>19 DEF IInv, Kin
  <2>2. Agree(heap'[p], heap'[q])
    BY <1>7, <1>12, <1>17, <1>18, <2>1 DEF Peers
  <2>. QED  BY <1>13, <2>1, <2>2 DEF Peers
<1>20. Kin'
  BY <1>16, <1>19 DEF Kin
<1>. QED  BY <1>1, <1>6, <1>9, <1>10, <1>20, OperateStep DEF g, h

\* A request: one of the four operations.
LEMMA RequestStep ==
    ASSUME IInv, NEW c \in Children, Request(c)
    PROVE  IInv'
<1>1. heap[c] \in Heap
  BY ProcFacts DEF IInv, Typed, TypeOK
<1>2. ASSUME NEW no, NEW pin, Close(c, no, pin)
      PROVE  IInv'
  <2> DEFINE j == Found(heap[c], no, pin)
  <2>1. j \in LiveSlots(heap[c])
    BY <1>1, <1>2, FoundMatches DEF Close
  <2>2. Closed(heap[c], j) \in Heap /\ Heirs(Closed(heap[c], j), heap[c])
    BY <1>1, <2>1, ClosedType, OperationHeirs, ConstantsFit
  <2>. QED  BY <1>2, <2>2, PlainStep DEF Close
<1>3. ASSUME NEW no, NEW pin, NEW amt \in Amounts, Deposit(c, no, pin, amt)
      PROVE  IInv'
  <2> DEFINE j == Found(heap[c], no, pin)
  <2>1. amt \in CInt /\ AuthStatus(heap[c], no, pin) = "OK"
    BY <1>3, ConcurrentAssumption DEF Deposit, DepositStatus
  <2>2. j \in LiveSlots(heap[c])
    BY <1>1, <2>1, FoundMatches
  <2>3. Deposited(heap[c], j, amt) \in Heap /\ Heirs(Deposited(heap[c], j, amt), heap[c])
    BY <1>1, <2>1, <2>2, DepositedType, OperationHeirs
  <2>. QED  BY <1>3, <2>3, PlainStep DEF Deposit
<1>4. ASSUME NEW no, NEW pin, NEW amt \in Amounts, Withdraw(c, no, pin, amt)
      PROVE  IInv'
  <2> DEFINE j == Found(heap[c], no, pin)
  <2>1. amt \in CInt /\ AuthStatus(heap[c], no, pin) = "OK"
    BY <1>4, ConcurrentAssumption DEF Withdraw, WithdrawStatus, AuthStatus
  <2>2. j \in LiveSlots(heap[c])
    BY <1>1, <2>1, FoundMatches
  <2>3. Withdrawn(heap[c], j, amt) \in Heap /\ Heirs(Withdrawn(heap[c], j, amt), heap[c])
    BY <1>1, <2>1, <2>2, WithdrawnType, OperationHeirs
  <2>. QED  BY <1>4, <2>3, PlainStep DEF Withdraw
<1>. QED  BY <1>2, <1>3, <1>4, OpenStep DEF Request

\* fork: the child has the parent's table, and the parent one child more.
LEMMA ForkStep ==
    ASSUME IInv, NEW c \in Children, Fork(c)
    PROVE  IInv'
<1>1. /\ pc[Parent] = "accept" /\ pc[c] = "down" /\ pc' = [pc EXCEPT ![c] = "recv"]
      /\ heap' = [heap EXCEPT ![c] = heap[Parent]]
      /\ child_count' = [child_count EXCEPT ![c] = child_count[Parent], ![Parent] = @ + 1]
      /\ drawn' = [drawn EXCEPT ![c] = 0] /\ served' = [served EXCEPT ![c] = 0]
      /\ born' = [born EXCEPT ![c] = boots]
      /\ last' = IF last = c THEN Nobody ELSE last
      /\ UNCHANGED <<file, garbled, begun, rand, boots, base, quiet>>
  BY DEF Fork, Goto
<1>2. /\ pc \in [Procs -> Serving \cup Exiting \cup Gone \cup {"accept"}]
      /\ heap \in [Procs -> Heap] /\ child_count \in [Procs -> Nat]
      /\ drawn \in [Children -> Nat] /\ served \in [Children -> Nat]
      /\ boots \in 0 .. MaxBoots /\ born \in [Children -> 0 .. boots]
  BY DEF IInv, Typed, TypeOK
<1>3. c \in Procs /\ c # Parent /\ Parent \in Procs /\ Up(Parent)
  BY <1>1, ProcFacts DEF Up, Gone
<1>4. pc' \in [Procs -> Serving \cup Exiting \cup Gone \cup {"accept"}] /\ pc'[Parent] = "accept"
  BY <1>1, <1>2, <1>3 DEF Serving
<1>5. heap' \in [Procs -> Heap]
  BY <1>1, <1>2, <1>3
<1>6. child_count' \in [Procs -> Nat] /\ child_count'[Parent] = child_count[Parent] + 1
  BY <1>1, <1>2, <1>3
<1>7. boots \in 0 .. boots /\ drawn' \in [Children -> Nat] /\ served' \in [Children -> Nat]
  BY <1>1, <1>2, ConcurrentAssumption
<1>8. born' \in [Children -> 0 .. boots]
  BY <1>1, <1>2, <1>7
<1>9. Typed'
  <2>1. begun' \subseteq {d \in Children : pc'[d] \in Exiting}
    BY <1>1, <1>2, <1>3, ProcFacts DEF IInv, Typed, Exiting
  <2>. QED  BY <1>1, <1>4, <1>5, <1>6, <1>7, <1>8, <2>1 DEF IInv, Typed, TypeOK
<1>10. Counts'
  <2>1. c \notin Ours /\ Ours' = Ours \cup {c}
    BY <1>1, <1>2, <1>3 DEF Ours, Procs
  <2>2. IsFiniteSet(Ours) /\ child_count[Parent] = Cardinality(Ours)
    BY <1>3 DEF IInv, Counts
  <2>3. IsFiniteSet(Ours \cup {c}) /\ Cardinality(Ours \cup {c}) = Cardinality(Ours) + 1
    BY <2>1, <2>2, FS_AddElement
  <2>. QED  BY <1>6, <2>1, <2>2, <2>3 DEF Counts
<1>11. FileFollowsSaver'
  <2>1. last' # c /\ \A d \in Children : last' = d => last = d
    BY <1>1, <1>3, ProcFacts
  <2>2. \A d \in Children : d # c => pc'[d] = pc[d] /\ heap'[d] = heap[d]
    BY <1>1, <1>2, ProcFacts
  <2>. QED  BY <1>1, <2>1, <2>2 DEF IInv, FileFollowsSaver
<1>12. heap'[Parent] = heap[Parent] /\ ~ quiet
  BY <1>1, <1>2, <1>3 DEF IInv, BaseKept
<1>13. BaseKept'
  BY <1>1, <1>3, <1>12 DEF IInv, BaseKept
<1>14. Kin'
  <2> DEFINE src == [p \in Procs |-> IF p = c THEN Parent ELSE p]
  <2>1. src \in [Procs -> Procs] /\ \A p \in Procs : src[p] = IF p = c THEN Parent ELSE p
    BY <1>3
  <2>2. ASSUME NEW p \in Procs, Up(p)'
        PROVE  Up(src[p]) /\ heap'[p] = heap[src[p]]
    BY <1>1, <1>2, <1>3, <2>1, <2>2 DEF Up
  <2>3. ASSUME NEW p \in Procs
        PROVE  Drawn(p)' = Drawn(src[p]) /\ Born(p)' = Born(src[p])
    BY <1>1, <1>2, <1>3, <2>1, ProcFacts DEF Drawn, Born
  <2> HIDE DEF src
  <2>. QED  BY <1>1, <2>1, <2>2, <2>3, HeirsSelf, KinKept DEF IInv
<1>15. FileClear'
  BY <1>1 DEF IInv, FileClear
<1>. QED  BY <1>9, <1>10, <1>11, <1>13, <1>14, <1>15 DEF IInv

\* A zombie is reaped: the parent has one child less, if it was the parent's.
LEMMA ReapStep ==
    ASSUME IInv, NEW c \in Children, Reap(c)
    PROVE  IInv'
<1>1. /\ pc[c] = "zombie" /\ pc' = [pc EXCEPT ![c] = "down"]
      /\ child_count' = IF pc[Parent] # "down" /\ born[c] = boots
                        THEN [child_count EXCEPT ![Parent] = @ - 1, ![c] = 0]
                        ELSE [child_count EXCEPT ![c] = 0]
      /\ drawn' = [drawn EXCEPT ![c] = 0] /\ served' = [served EXCEPT ![c] = 0]
      /\ born' = [born EXCEPT ![c] = 0]
      /\ UNCHANGED <<heap, file, garbled, last, begun, rand, boots, base, quiet>>
  BY DEF Reap, Goto, disk
<1>2. /\ pc \in [Procs -> Serving \cup Exiting \cup Gone \cup {"accept"}]
      /\ child_count \in [Procs -> Nat]
      /\ drawn \in [Children -> Nat] /\ served \in [Children -> Nat]
      /\ boots \in 0 .. MaxBoots /\ born \in [Children -> 0 .. boots]
      /\ pc[Parent] \in Exiting \cup {"accept", "down"}
  BY DEF IInv, Typed, TypeOK
<1>3. c \in Procs /\ c # Parent /\ Parent \in Procs
  BY ProcFacts
<1>4. /\ pc' \in [Procs -> Serving \cup Exiting \cup Gone \cup {"accept"}] /\ pc'[Parent] = pc[Parent]
      /\ \A p \in Procs : p # c => pc'[p] = pc[p]
  BY <1>1, <1>2, <1>3 DEF Gone
<1>5. Up(Parent)' = Up(Parent) /\ (Up(Parent) <=> pc[Parent] # "down")
  BY <1>2, <1>4 DEF Up, Gone, Exiting
<1>6. ASSUME Up(Parent)
      PROVE  /\ IsFiniteSet(Ours') /\ child_count'[Parent] = Cardinality(Ours')
             /\ child_count'[Parent] \in Nat
  <2>1. IsFiniteSet(Ours) /\ child_count[Parent] = Cardinality(Ours) /\ Cardinality(Ours) \in Nat
    BY <1>6, FS_CardinalityType DEF IInv, Counts
  <2>2. Ours' = Ours \ {c}
    BY <1>1, <1>2, <1>3 DEF Ours, Procs
  <2>3. /\ IsFiniteSet(Ours \ {c}) /\ Cardinality(Ours \ {c}) \in Nat
        /\ Cardinality(Ours \ {c}) = IF c \in Ours THEN Cardinality(Ours) - 1 ELSE Cardinality(Ours)
    BY <2>1, FS_RemoveElement, FS_CardinalityType
  <2>4. CASE born[c] = boots
    <3>1. c \in Ours
      BY <1>1, <2>4 DEF Ours
    <3>2. child_count'[Parent] = child_count[Parent] - 1
      BY <1>1, <1>2, <1>3, <1>5, <1>6, <2>4
    <3>. QED  BY <2>1, <2>2, <2>3, <3>1, <3>2
  <2>5. CASE born[c] # boots
    <3>1. c \notin Ours
      BY <2>5 DEF Ours
    <3>2. child_count'[Parent] = child_count[Parent]
      BY <1>1, <1>2, <1>3, <2>5
    <3>. QED  BY <2>1, <2>2, <2>3, <3>1, <3>2
  <2>. QED  BY <2>4, <2>5
<1>7. child_count' \in [Procs -> Nat]
  <2>1. DOMAIN child_count' = Procs /\ \A p \in Procs : p # Parent => child_count'[p] \in Nat
    BY <1>1, <1>2, <1>3
  <2>2. child_count'[Parent] \in Nat
    BY <1>1, <1>2, <1>3, <1>5, <1>6
  <2>3. child_count' = [p \in Procs |-> child_count'[p]]
    BY <1>1, <1>2
  <2>. QED  BY <2>1, <2>2, <2>3
<1>8. /\ drawn' \in [Children -> Nat] /\ served' \in [Children -> Nat]
      /\ 0 \in 0 .. boots
  BY <1>1, <1>2, ConcurrentAssumption
<1>9. born' \in [Children -> 0 .. boots]
  BY <1>1, <1>2, <1>8
<1>10. Typed'
  <2>1. begun' \subseteq {d \in Children : pc'[d] \in Exiting}
    BY <1>1, <1>4, ProcFacts DEF IInv, Typed, Exiting
  <2>. QED  BY <1>1, <1>4, <1>7, <1>8, <1>9, <2>1 DEF IInv, Typed, TypeOK
<1>11. Counts'
  BY <1>5, <1>6 DEF Counts
<1>12. FileFollowsSaver'
  <2>1. \A d \in Children : pc'[d] \in {"send", "recv"} => pc[d] = pc'[d]
    BY <1>1, <1>2, <1>3, ProcFacts
  <2>. QED  BY <1>1, <2>1 DEF IInv, FileFollowsSaver
<1>13. \A p \in Procs : Up(p)' => Up(p) /\ p # c
  BY <1>1, <1>2, <1>4 DEF Up, Gone
<1>14. BaseKept'
  BY <1>1, <1>3, <1>4, <1>13, ProcFacts DEF IInv, BaseKept
<1>15. Kin'
  <2> DEFINE src == [p \in Procs |-> p]
  <2>1. src \in [Procs -> Procs] /\ \A p \in Procs : src[p] = p
    OBVIOUS
  <2>2. ASSUME NEW p \in Procs, p # c
        PROVE  Drawn(p)' = Drawn(p) /\ Born(p)' = Born(p)
    BY <1>1, <1>2, <2>2, ProcFacts DEF Drawn, Born
  <2> HIDE DEF src
  <2>. QED  BY <1>1, <1>13, <2>1, <2>2, HeirsSelf, KinKept DEF IInv
<1>16. FileClear'
  BY <1>1 DEF IInv, FileClear
<1>. QED  BY <1>10, <1>11, <1>12, <1>14, <1>15, <1>16 DEF IInv

\* The server is started again, and has nothing but the file.
LEMMA BootStep ==
    ASSUME IInv, Boot
    PROVE  IInv'
<1>1. /\ pc[Parent] = "down" /\ boots < MaxBoots /\ boots' = boots + 1
      /\ pc' = [pc EXCEPT ![Parent] = "accept"]
      /\ heap' = [heap EXCEPT ![Parent] = Loaded(file)]
      /\ child_count' = [child_count EXCEPT ![Parent] = 0]
      /\ base' = Fields(Loaded(file)) /\ quiet' = FALSE
      /\ UNCHANGED <<file, garbled, last, begun, rand, drawn, served, born>>
  BY DEF Boot, Goto, disk
<1>2. /\ pc \in [Procs -> Serving \cup Exiting \cup Gone \cup {"accept"}]
      /\ heap \in [Procs -> Heap] /\ child_count \in [Procs -> Nat]
      /\ boots \in 0 .. MaxBoots /\ born \in [Children -> 0 .. boots]
      /\ rand \in [0 .. MaxBoots -> Seq(Pins)] /\ drawn \in [Children -> Nat]
      /\ Parent \in Procs /\ Loaded(file) \in Heap
  BY ProcFacts, LoadedType DEF IInv, Typed, TypeOK
<1>3. /\ boots' \in 0 .. MaxBoots /\ 0 .. boots \subseteq 0 .. boots'
      /\ \A c \in Children : born[c] \in Int /\ born[c] < boots'
  BY <1>1, <1>2, ConcurrentAssumption
<1>4. Typed'
  <2>1. pc' \in [Procs -> Serving \cup Exiting \cup Gone \cup {"accept"}] /\ pc'[Parent] = "accept"
    BY <1>1, <1>2
  <2>2. heap' \in [Procs -> Heap] /\ child_count' \in [Procs -> Nat]
    BY <1>1, <1>2
  <2>3. born' \in [Children -> 0 .. boots']
    BY <1>1, <1>2, <1>3
  <2>4. begun' \subseteq {c \in Children : pc'[c] \in Exiting}
    BY <1>1, <1>2, ProcFacts DEF IInv, Typed
  <2>. QED  BY <1>1, <1>3, <2>1, <2>2, <2>3, <2>4 DEF IInv, Typed, TypeOK
<1>5. Ours' = {} /\ child_count'[Parent] = 0
  BY <1>1, <1>2, <1>3 DEF Ours
<1>6. Counts'
  BY <1>5, FS_EmptySet DEF Counts
<1>7. \A c \in Children : /\ c \in Procs /\ c # Parent /\ pc'[c] = pc[c] /\ heap'[c] = heap[c]
  BY <1>1, <1>2, ProcFacts
<1>8. FileFollowsSaver'
  BY <1>1, <1>7 DEF IInv, FileFollowsSaver
<1>9. heap'[Parent] = Loaded(file)
  BY <1>1, <1>2
<1>10. BaseKept'
  BY <1>1, <1>9 DEF BaseKept
<1>11. FileClear'
  BY <1>1 DEF IInv, FileClear
<1>12. \A c \in Children : /\ Up(c)' = Up(c) /\ Born(c)' = Born(c) /\ Born(c)' # Born(Parent)'
                           /\ Drawn(c)' = Drawn(c)
  BY <1>1, <1>3, <1>7 DEF Up, Born, Drawn
<1>13. Yields(Parent)' /\ Peers(Parent, Parent)'
  <2> DEFINE g == Loaded(file)
  <2>1. g \in Heap /\ Below(g) /\ Agree(g, g)
    BY <1>2 DEF IInv, FileClear
  <2>2. \A i \in LiveSlots(g) : g.bank[i].number \in Nat /\ g.next_number \in Nat
    BY <2>1, SlotBelow DEF Heap, Account
  <2>3. g.next_number \in Nat /\ Drawn(Parent)' = 0 /\ Born(Parent)' = boots'
    BY <2>1 DEF Heap, Drawn, Born
  <2>4. 0 <= Len(rand'[boots'])
    BY <1>1, <1>2, <1>3
  <2> HIDE DEF g
  <2>5. heap'[Parent] = g
    BY <1>9 DEF g
  <2>6. Start(Parent)' = g.next_number
    BY <2>3, <2>5 DEF Start
  <2>7. \A i \in LiveSlots(g) : ~ (g.bank[i].number >= g.next_number)
    BY <2>1, <2>2 DEF Below
  <2>. QED  BY <2>1, <2>3, <2>4, <2>5, <2>6, <2>7 DEF Yields, Peers
<1>14. Kin'
  <2>1. ASSUME NEW c \in Children, Up(c)'
        PROVE  Yields(c)'
    <3>1. Yields(c)
      BY <1>7, <1>12, <2>1 DEF IInv, Kin
    <3>. QED  BY <1>1, <1>7, <1>12, <3>1 DEF Yields, Start
  <2>2. ASSUME NEW c \in Children, NEW d \in Children, Up(c)', Up(d)', Born(c)' = Born(d)'
        PROVE  Peers(c, d)'
    <3>1. Peers(c, d)
      BY <1>7, <1>12, <2>2 DEF IInv, Kin
    <3>. QED  BY <1>7, <1>12, <3>1 DEF Peers, Start
  <2>. QED  BY <1>12, <1>13, <2>1, <2>2, ProcFacts DEF Kin
<1>. QED  BY <1>4, <1>6, <1>8, <1>10, <1>11, <1>14 DEF IInv

\* Send, Truncate, Write and Signal.
LEMMA MovesStep ==
    ASSUME IInv, NEW p \in Procs, Send(p) \/ Truncate(p) \/ Write(p) \/ Signal(p)
    PROVE  IInv'
<1>1. /\ pc \in [Procs -> Serving \cup Exiting \cup Gone \cup {"accept"}]
      /\ pc[Parent] \in Exiting \cup {"accept", "down"} /\ last \in Procs \cup {Nobody}
      /\ garbled \in BOOLEAN /\ begun \subseteq {c \in Children : pc[c] \in Exiting}
      /\ FileFollowsSaver
  BY DEF IInv, Typed, TypeOK
<1>2. \A l : Goto(p, l) => pc'[p] = l /\ \A c \in Children : c # p => pc'[c] = pc[c]
  BY <1>1, ProcFacts DEF Goto
<1>3. pc[p] \notin Gone \cup {"exit"} => Up(p) /\ ~ quiet
  BY ProcFacts DEF IInv, BaseKept, Up, Gone
<1>4. EmptyFile \in Texts(p) /\ Image(heap[p]) \in Texts(p)
  BY DEF Texts
<1>5. CASE Send(p)
  <2>1. /\ pc[p] = "send" /\ Goto(p, "recv") /\ UNCHANGED <<file, garbled, last, begun, quiet>>
        /\ UNCHANGED <<heap, child_count, rand, boots, drawn, served, born, base>>
    BY <1>5 DEF Send, disk
  <2>2. FileFollowsSaver'
    BY <1>1, <1>2, <2>1 DEF FileFollowsSaver
  <2>3. Up(p) /\ ~ quiet /\ p # Parent /\ p \notin begun
    BY <1>1, <1>3, <2>1 DEF Gone, Exiting
  <2>. QED  BY <1>1, <2>1, <2>2, <2>3, MoveStep DEF Serving
<1>6. CASE Truncate(p)
  <2>1. PICK l \in {"write", "exit_write"} :
            /\ Goto(p, l) /\ pc[p] = IF l = "write" THEN "truncate" ELSE "exit_truncate"
    BY <1>6 DEF Truncate
  <2>2. /\ file' = EmptyFile /\ garbled' = FALSE /\ last' = Nobody /\ UNCHANGED <<begun, quiet>>
        /\ UNCHANGED <<heap, child_count, rand, boots, drawn, served, born, base>>
    BY <1>6 DEF Truncate
  <2>3. FileFollowsSaver'
    BY <2>2, ProcFacts DEF FileFollowsSaver
  <2>4. Up(p) /\ ~ quiet /\ (p = Parent => l = "exit_write") /\ (p \in begun => l = "exit_write")
    BY <1>1, <1>3, <2>1 DEF Gone, Exiting
  <2>. QED  BY <1>4, <2>1, <2>2, <2>3, <2>4, MoveStep DEF Serving, Exiting
<1>7. CASE Write(p)
  <2>1. PICK l \in {"send", "exit"} :
            /\ Goto(p, l) /\ pc[p] = IF l = "send" THEN "write" ELSE "exit_write"
    BY <1>7 DEF Write, CloseFile
  <2>2. /\ file' = Image(heap[p]) /\ garbled' = FALSE
        /\ last' = IF pc[p] = "write" THEN p ELSE Nobody
        /\ quiet' = (p = Parent /\ \A c \in Children : pc[c] \in Gone)
        /\ UNCHANGED <<heap, child_count, begun, rand, boots, drawn, served, born, base>>
    BY <1>7 DEF Write, CloseFile
  <2>3. FileFollowsSaver'
    BY <1>2, <2>1, <2>2, ProcFacts DEF FileFollowsSaver
  <2>4. Up(p) /\ (p = Parent => l = "exit") /\ (p \in begun => l = "exit")
    BY <1>1, <1>3, <2>1 DEF Gone, Exiting
  <2>. QED  BY <1>4, <2>1, <2>2, <2>3, <2>4, MoveStep DEF Serving, Exiting
<1>8. CASE Signal(p)
  <2>1. /\ pc[p] \in Serving \cup {"accept"} /\ Goto(p, "exit_truncate")
        /\ UNCHANGED <<file, garbled, last, quiet>>
        /\ begun' = IF pc[p] = "write" THEN begun \cup {p} ELSE begun
        /\ UNCHANGED <<heap, child_count, rand, boots, drawn, served, born, base>>
    BY <1>8 DEF Signal, disk
  <2>2. FileFollowsSaver'
    BY <1>1, <1>2, <2>1 DEF FileFollowsSaver
  <2>3. Up(p) /\ ~ quiet /\ (pc[p] = "write" => p # Parent)
    BY <1>1, <1>3, <2>1 DEF Gone, Serving, Exiting
  <2>. QED  BY <1>1, <2>1, <2>2, <2>3, MoveStep DEF Exiting
<1>. QED  BY <1>5, <1>6, <1>7, <1>8

\* Leave, SignalCrashes, Kill and Exit.
LEMMA StopsStep ==
    ASSUME IInv, NEW p \in Procs,
           Leave(p) \/ SignalCrashes(p) \/ Kill(p) \/ Exit(p)
    PROVE  IInv'
<1>1. /\ pc \in [Procs -> Serving \cup Exiting \cup Gone \cup {"accept"}]
      /\ heap \in [Procs -> Heap] /\ last \in Procs \cup {Nobody} /\ garbled \in BOOLEAN
      /\ begun \subseteq Children /\ FileFollowsSaver
  BY DEF IInv, Typed, TypeOK
<1>2. Ends(p) /\ Up(p)
  BY DEF Leave, SignalCrashes, Kill, Exit, Up, Gone, Serving
<1>3. \/ UNCHANGED <<file, garbled, last>>
      \/ /\ p \in begun /\ last' = Nobody /\ garbled' \in BOOLEAN
         /\ file' = file \/ file' \in Texts(p)
  BY <1>1 DEF Leave, SignalCrashes, Kill, Exit, Leftover, disk, Texts
<1>4. quiet' => quiet /\ file' = file
  <2>1. quiet' = quiet \/ ~ quiet'
    BY DEF Leave, SignalCrashes, Kill, Exit
  <2>2. quiet => p \notin begun
    BY <1>1, <1>2 DEF IInv, BaseKept
  <2>. QED  BY <1>3, <2>1, <2>2
<1>5. /\ pc'[p] \in Gone
      /\ \A c \in Children : c # p => pc'[c] = pc[c] /\ heap'[c] = heap[c]
  BY <1>1, <1>2, ProcFacts DEF Ends, Goto, Gone
<1>6. FileFollowsSaver'
  BY <1>1, <1>3, <1>5, ProcFacts DEF FileFollowsSaver, Gone
<1>. QED  BY <1>1, <1>2, <1>3, <1>4, <1>6, EndsStep

\* Every step keeps the invariant.
LEMMA NextStep ==
    ASSUME IInv, [Next]_vars
    PROVE  IInv'
<1>1. CASE UNCHANGED vars
  <2>1. UNCHANGED <<pc, heap, child_count, file, garbled, last, begun, rand, boots,
                    drawn, served, born, base, quiet>>
    BY <1>1 DEF vars, disk
  <2>2. Typed' = Typed /\ Counts' = Counts /\ FileFollowsSaver' = FileFollowsSaver
    BY <2>1 DEF Typed, TypeOK, Counts, Ours, Up, FileFollowsSaver
  <2>3. BaseKept' = BaseKept /\ FileClear' = FileClear
    BY <2>1 DEF BaseKept, Up, FileClear
  <2>4. Kin' = Kin
    BY <2>1 DEF Kin, Up, Born, Drawn, Yields, Peers, Start
  <2>. QED  BY <2>2, <2>3, <2>4 DEF IInv
<1>2. CASE \E c \in Children : Fork(c) \/ Reap(c) \/ Request(c)
  BY <1>2, ForkStep, ReapStep, RequestStep
<1>3. CASE \E c \in Children : Send(c) \/ Leave(c) \/ SignalCrashes(c)
  BY <1>3, MovesStep, StopsStep, ProcFacts
<1>4. CASE \E p \in Procs : Truncate(p) \/ Write(p) \/ Signal(p) \/ Exit(p) \/ Kill(p)
  BY <1>4, MovesStep, StopsStep
<1>. QED  BY <1>1, <1>2, <1>3, <1>4, BootStep DEF Next

-----------------------------------------------------------------------------
(* Theorems.                                                               *)

\* The inductive invariant: how the copies of the table that were taken at
\* forks relate to each other, to the PINs rand() yields and to the file.
THEOREM Invariance == Spec => []IInv
<1>1. IInv /\ [Next]_vars => IInv'
  BY NextStep
<1>. QED  BY <1>1, InitIInv, PTL DEF Spec

\* Types; child_count never falls below zero, in whatever order children end
\* and parents are killed and started.
THEOREM TypeCorrect == Spec => []TypeOK
<1>1. IInv => TypeOK
  BY DEF IInv, Typed
<1>. QED  BY <1>1, Invariance, PTL

\* Children of one server start give the same numbers with the same PINs,
\* whatever they do in between and whatever the parents do meanwhile.
THEOREM AreTwins == Spec => []Twins
<1>1. IInv => Twins
  <2> SUFFICES ASSUME IInv, NEW c \in Children, NEW d \in Children,
                      pc[c] \in Serving, pc[d] \in Serving, born[c] = born[d]
               PROVE  /\ drawn[c] = drawn[d] => heap[c].next_number = heap[d].next_number
                      /\ Agree(heap[c], heap[d])
    BY DEF Twins, Agree
  <2>1. Up(c) /\ Up(d) /\ c \in Procs /\ d \in Procs /\ Born(c) = Born(d)
        /\ Drawn(c) = drawn[c] /\ Drawn(d) = drawn[d]
    BY ProcFacts DEF Up, Serving, Gone, Born, Drawn
  <2>2. Start(c) = Start(d) /\ Agree(heap[c], heap[d])
    BY <2>1 DEF IInv, Kin, Peers
  <2>3. /\ heap[c].next_number \in Nat /\ heap[d].next_number \in Nat
        /\ drawn[c] \in Nat /\ drawn[d] \in Nat
    BY <2>1 DEF IInv, Typed, TypeOK, Heap
  <2>4. drawn[c] = drawn[d] => heap[c].next_number = heap[d].next_number
    BY <2>1, <2>2, <2>3 DEF Start
  <2>. QED  BY <2>2, <2>4
<1>. QED  BY <1>1, Invariance, PTL

\* A child that saved last has its table in the file, also where others were
\* saving or exiting with an interrupted save meanwhile.
THEOREM FileIsLastSaver == Spec => []FileFollowsSaver
<1>1. IInv => FileFollowsSaver
  BY DEF IInv
<1>. QED  BY <1>1, Invariance, PTL

\* After a shutdown with no child left, the next server has what the last one
\* had when it started.
THEOREM TakesBack == Spec => ShutdownTakesBack
<1> DEFINE Back == Boot /\ quiet => Fields(heap'[Parent]) = base
<1>1. ASSUME IInv, Boot, quiet
      PROVE  Fields(heap'[Parent]) = base
  <2>1. heap'[Parent] = Loaded(file)
    BY <1>1, ProcFacts DEF Boot, IInv, Typed, TypeOK
  <2>. QED  BY <1>1, <2>1 DEF IInv, BaseKept
<1>2. IInv /\ [Next]_vars => [Back]_vars
  BY <1>1
<1>. QED  BY <1>2, Invariance, PTL DEF Spec, ShutdownTakesBack

=============================================================================
