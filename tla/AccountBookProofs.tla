------------------------- MODULE AccountBookProofs -------------------------
(***************************************************************************)
(* Type correctness, the safety invariants and Isolation of AccountBook,   *)
(* for every value of the constants, and after them that AccountBook       *)
(* implements Ledger: slots, rings, the file and the int arithmetic are    *)
(* invisible in the answers.                                               *)
(***************************************************************************)
EXTENDS AccountBook, BankPersistenceProofs, FiniteSetTheorems

-----------------------------------------------------------------------------
(* The inductive invariant: Sound ties a heap to the histories, Agrees the  *)
(* file to the heap.                                                       *)

History == {s \in Seq([type : {"D", "W"}, amount : CInt, balance_after : Int]) :
                s # << >>}

Last(s) == s[Len(s)].balance_after

\* The history s explains the account a.  The last conjunct speaks of the
\* exact balance: the wrapped one alone is not inductive.
Accounted(a, s) ==
    /\ a.ntran = Len(s)
    /\ a.balance = Wrap(Last(s))
    /\ (\A k \in 1 .. Len(s) : s[k].balance_after <= INT_MAX) => Last(s) >= MIN_BALANCE

NumbersOf(h) == {h.bank[i].number : i \in LiveSlots(h)}

Sound(h, hs) ==
    /\ h \in Heap
    /\ DOMAIN hs = NumbersOf(h)
    /\ \A n \in DOMAIN hs : hs[n] \in History
    /\ Distinct(h)
    /\ \A i \in LiveSlots(h) : /\ h.bank[i].number < h.next_number
                               /\ Accounted(h.bank[i], hs[h.bank[i].number])

IInv ==
    /\ Sound(heap, hist)
    /\ file \in File /\ Agrees(file, heap)
    /\ DOMAIN restored = DOMAIN hist
    /\ request \in request_t
    /\ response \in response_t

-----------------------------------------------------------------------------
(* What each operation makes of the slots.                                 *)

\* An opened account takes the first free slot and leaves the others alone.
LEMMA OpenedFields ==
    ASSUME NEW h \in Heap, OpenStatus(h) = "OK", NEW name \in Names, NEW pin \in Pins
    PROVE  LET g == Opened(h, name, pin)
               n == h.accounts_in_use
           IN  /\ LiveSlots(g) = LiveSlots(h) \cup {n}
               /\ n \notin LiveSlots(h)
               /\ g.next_number = h.next_number + 1
               /\ \A i \in LiveSlots(h) : g.bank[i] = h.bank[i]
               /\ g.bank[n].number = h.next_number /\ g.bank[n].pin = pin
               /\ g.bank[n].name = name /\ g.bank[n].balance = MIN_BALANCE
               /\ g.bank[n].ntran = 1
<1> DEFINE n == h.accounts_in_use
           a == [ZeroAccount EXCEPT !.number = h.next_number, !.pin = pin,
                                    !.name = name, !.balance = MIN_BALANCE]
           b == remember(a, "D", MIN_BALANCE)
<1>1. n \in Nat /\ n \in Slots /\ h.bank \in [Slots -> Account]
  BY BankAssumption DEF OpenStatus, Heap, Slots
<1>2. a \in Account
  BY ZeroAccountType, ConstantsFit, BankAssumption DEF Account, Heap, ZeroAccount
<1>3. /\ a.number = h.next_number /\ a.pin = pin /\ a.name = name
      /\ a.balance = MIN_BALANCE /\ a.ntran = 0
  BY DEF ZeroAccount
<1> HIDE DEF a
<1>4. /\ b.number = h.next_number /\ b.pin = pin /\ b.name = name
      /\ b.balance = MIN_BALANCE /\ b.ntran = 1
  BY <1>2, <1>3, RememberKeeps
<1> HIDE DEF b
<1>5. Opened(h, name, pin) = [bank |-> [h.bank EXCEPT ![n] = b],
                              accounts_in_use |-> n + 1,
                              next_number |-> h.next_number + 1]
  BY DEF Opened, a, b
<1>6. LiveSlots(Opened(h, name, pin)) = LiveSlots(h) \cup {n} /\ n \notin LiveSlots(h)
  BY <1>1, <1>5 DEF LiveSlots
<1>. QED  BY <1>1, <1>4, <1>5, <1>6

\* A close takes the last slot away and puts its account into the gap.
LEMMA ClosedFields ==
    ASSUME NEW h \in Heap, NEW i \in LiveSlots(h)
    PROVE  LET g == Closed(h, i)
               n == h.accounts_in_use - 1
           IN  /\ n \in LiveSlots(h)
               /\ LiveSlots(g) = LiveSlots(h) \ {n}
               /\ g.next_number = h.next_number
               /\ \A j \in LiveSlots(g) : g.bank[j] = IF j = i THEN h.bank[n] ELSE h.bank[j]
<1> DEFINE n == h.accounts_in_use - 1
           bank == [h.bank EXCEPT ![i] = h.bank[n]]
<1>1. n \in LiveSlots(h) /\ h.accounts_in_use \in Nat /\ h.bank \in [Slots -> Account]
  BY BankAssumption DEF LiveSlots, Heap
<1>2. \A j \in LiveSlots(h) : bank[j] = IF j = i THEN h.bank[n] ELSE h.bank[j]
  BY <1>1, SlotBelow
<1>3. Closed(h, i) = [h EXCEPT !.bank = bank, !.accounts_in_use = n]
  BY DEF Closed
<1> HIDE DEF bank
<1>4. Closed(h, i) = [bank |-> bank, accounts_in_use |-> n, next_number |-> h.next_number]
  BY <1>3 DEF Heap
<1>5. LiveSlots(Closed(h, i)) = LiveSlots(h) \ {n}
  BY <1>1, <1>4 DEF LiveSlots
<1>. QED  BY <1>1, <1>2, <1>4, <1>5

\* h with the account b in the slot i.
Put(h, i, b) == [h EXCEPT !.bank[i] = b]

\* A posting stores one account in its slot and touches no other.
LEMMA PutFields ==
    ASSUME NEW h \in Heap, NEW i \in LiveSlots(h), NEW b
    PROVE  LET g == Put(h, i, b)
           IN  /\ LiveSlots(g) = LiveSlots(h)
               /\ g.next_number = h.next_number
               /\ \A j \in LiveSlots(h) : g.bank[j] = IF j = i THEN b ELSE h.bank[j]
<1>1. i \in Slots /\ h.bank \in [Slots -> Account] /\ LiveSlots(h) \subseteq Slots
  BY SlotBelow DEF Heap
<1>. QED  BY <1>1 DEF Put, Heap, LiveSlots

-----------------------------------------------------------------------------
(* Each operation keeps Sound.                                             *)

Opening == <<Posting("D", MIN_BALANCE, MIN_BALANCE)>>

WithNumber(hs, no) == [n \in DOMAIN hs \cup {no} |-> IF n = no THEN Opening ELSE hs[n]]

\* The first posting explains a new account.
LEMMA OpeningAccounted ==
    ASSUME NEW a, a.ntran = 1, a.balance = MIN_BALANCE
    PROVE  Opening \in History /\ Accounted(a, Opening)
<1>1. Len(Opening) = 1 /\ Last(Opening) = MIN_BALANCE
  BY DEF Opening, Posting, Last
<1>2. Wrap(MIN_BALANCE) = MIN_BALANCE /\ MIN_BALANCE \in Int
  BY ConstantsFit, WrapId, BankAssumption
<1>3. Opening \in History
  BY ConstantsFit, <1>2 DEF Opening, Posting, History
<1>. QED  BY <1>1, <1>2, <1>3 DEF Accounted

\* A new account, with a number no account ever had, keeps the bank sound.
LEMMA OpenSound ==
    ASSUME NEW h, NEW hs, Sound(h, hs), OpenStatus(h) = "OK",
           NEW name \in Names, NEW pin \in Pins
    PROVE  Sound(Opened(h, name, pin), WithNumber(hs, h.next_number))
<1> DEFINE g == Opened(h, name, pin)
           n == h.accounts_in_use
           no == h.next_number
           gs == WithNumber(hs, no)
<1>1. h \in Heap /\ g \in Heap
  BY OpenedType DEF Sound
<1>2. /\ LiveSlots(g) = LiveSlots(h) \cup {n}
      /\ g.next_number = no + 1
      /\ \A i \in LiveSlots(h) : g.bank[i] = h.bank[i]
      /\ g.bank[n].number = no
      /\ g.bank[n].balance = MIN_BALANCE /\ g.bank[n].ntran = 1
  BY <1>1, OpenedFields
<1>3. no \in Nat /\ \A i \in LiveSlots(h) : h.bank[i].number \in Nat
  BY <1>1, SlotBelow DEF Heap, Account
<1>4. \A i \in LiveSlots(h) : h.bank[i].number < no /\ h.bank[i].number # no
  BY <1>3 DEF Sound
<1> HIDE DEF g
<1>5. DOMAIN gs = NumbersOf(g)
  BY <1>2 DEF Sound, NumbersOf, WithNumber
<1>6. Opening \in History /\ Accounted(g.bank[n], Opening)
  BY <1>2, OpeningAccounted
<1>7. \A m \in DOMAIN gs : gs[m] \in History
  BY <1>6 DEF WithNumber, Sound
<1>8. Distinct(g)
  BY <1>2, <1>4 DEF Sound, Distinct
<1>9. ASSUME NEW i \in LiveSlots(g)
      PROVE  /\ g.bank[i].number < g.next_number
             /\ Accounted(g.bank[i], gs[g.bank[i].number])
  <2>1. CASE i = n
    BY <2>1, <1>2, <1>3, <1>6 DEF WithNumber
  <2>2. CASE i \in LiveSlots(h)
    <3>1. gs[h.bank[i].number] = hs[h.bank[i].number]
      BY <2>2, <1>4 DEF WithNumber, Sound, NumbersOf
    <3>2. g.bank[i].number < g.next_number
      BY <2>2, <1>2, <1>3, <1>4
    <3>. QED  BY <2>2, <3>1, <3>2, <1>2 DEF Sound
  <2>. QED  BY <2>1, <2>2, <1>2
<1>. QED  BY <1>1, <1>5, <1>7, <1>8, <1>9 DEF Sound, g

Without(hs, no) == [n \in DOMAIN hs \ {no} |-> hs[n]]

\* Moving the last account into the gap removes just the one that was closed.
LEMMA CloseSound ==
    ASSUME NEW h, NEW hs, Sound(h, hs), NEW i \in LiveSlots(h)
    PROVE  Sound(Closed(h, i), Without(hs, h.bank[i].number))
<1> DEFINE g == Closed(h, i)
           n == h.accounts_in_use - 1
           no == h.bank[i].number
           gs == Without(hs, no)
           from(j) == IF j = i THEN n ELSE j
<1>1. h \in Heap /\ g \in Heap
  BY ClosedType DEF Sound
<1>2. /\ n \in LiveSlots(h)
      /\ LiveSlots(g) = LiveSlots(h) \ {n}
      /\ g.next_number = h.next_number
      /\ \A j \in LiveSlots(g) : g.bank[j] = h.bank[from(j)]
  BY <1>1, ClosedFields
<1>3. ASSUME NEW j \in LiveSlots(g)
      PROVE  from(j) \in LiveSlots(h) /\ from(j) # i
  BY <1>2
<1>4. \A j, k \in LiveSlots(g) : from(j) = from(k) => j = k
  BY <1>2
<1>5. ASSUME NEW m \in LiveSlots(h), m # i
      PROVE  \E j \in LiveSlots(g) : from(j) = m
  <2>1. CASE m = n
    BY <2>1, <1>2, <1>5
  <2>2. CASE m # n
    BY <2>2, <1>2, <1>5
  <2>. QED  BY <2>1, <2>2
<1>6. \A m \in LiveSlots(h) : h.bank[m].number = no => m = i
  BY DEF Sound, Distinct
<1> HIDE DEF g, from
<1>7. DOMAIN gs = NumbersOf(g)
  <2>1. \A j \in LiveSlots(g) : g.bank[j].number \in DOMAIN gs
    BY <1>2, <1>3, <1>6 DEF Sound, NumbersOf, Without
  <2>2. ASSUME NEW x \in DOMAIN gs
        PROVE  x \in NumbersOf(g)
    <3>1. PICK m \in LiveSlots(h) : h.bank[m].number = x
      BY DEF Without, Sound, NumbersOf
    <3>2. m # i
      BY <3>1 DEF Without
    <3>3. PICK j \in LiveSlots(g) : from(j) = m
      BY <3>2, <1>5
    <3>. QED  BY <3>1, <3>3, <1>2 DEF NumbersOf
  <2>. QED  BY <2>1, <2>2 DEF NumbersOf
<1>8. \A m \in DOMAIN gs : gs[m] \in History
  BY DEF Without, Sound
<1>9. Distinct(g)
  BY <1>2, <1>3, <1>4 DEF Distinct, Sound
<1>10. ASSUME NEW j \in LiveSlots(g)
       PROVE  /\ g.bank[j].number < g.next_number
              /\ Accounted(g.bank[j], gs[g.bank[j].number])
  <2>1. g.bank[j].number \in DOMAIN gs
    BY <1>7 DEF NumbersOf
  <2>2. gs[g.bank[j].number] = hs[g.bank[j].number]
    BY <2>1 DEF Without
  <2>. QED  BY <2>2, <1>2, <1>3 DEF Sound
<1>. QED  BY <1>1, <1>7, <1>8, <1>9, <1>10 DEF Sound, g

\* A posting recorded both in an account and in its history.
LEMMA PostSound ==
    ASSUME NEW h, NEW hs, Sound(h, hs), NEW i \in LiveSlots(h), NEW b \in Account,
           b.number = h.bank[i].number, NEW s \in History, Accounted(b, s),
           Put(h, i, b) \in Heap
    PROVE  Sound(Put(h, i, b), [hs EXCEPT ![h.bank[i].number] = s])
<1> DEFINE g == Put(h, i, b)
           no == h.bank[i].number
           gs == [hs EXCEPT ![no] = s]
<1>1. h \in Heap /\ g \in Heap
  BY DEF Sound
<1>2. /\ LiveSlots(g) = LiveSlots(h)
      /\ g.next_number = h.next_number
      /\ \A j \in LiveSlots(h) : g.bank[j] = IF j = i THEN b ELSE h.bank[j]
  BY <1>1, PutFields
<1> HIDE DEF g
<1>3. \A j \in LiveSlots(h) : g.bank[j].number = h.bank[j].number
  BY <1>2
<1>4. no \in DOMAIN hs /\ DOMAIN gs = DOMAIN hs /\ gs[no] = s
  BY DEF Sound, NumbersOf
<1>5. DOMAIN gs = NumbersOf(g)
  BY <1>2, <1>3, <1>4 DEF Sound, NumbersOf
<1>6. \A m \in DOMAIN gs : gs[m] \in History
  BY <1>4 DEF Sound
<1>7. Distinct(g)
  BY <1>2, <1>3 DEF Sound, Distinct
<1>8. ASSUME NEW j \in LiveSlots(g)
      PROVE  /\ g.bank[j].number < g.next_number
             /\ Accounted(g.bank[j], gs[g.bank[j].number])
  <2>1. CASE j = i
    BY <2>1, <1>2, <1>3, <1>4 DEF Sound
  <2>2. CASE j # i
    <3>1. h.bank[j].number # no
      BY <2>2, <1>2 DEF Sound, Distinct
    <3>2. gs[h.bank[j].number] = hs[h.bank[j].number]
      BY <3>1, <1>2 DEF Sound, NumbersOf
    <3>. QED  BY <2>2, <3>2, <1>2 DEF Sound
  <2>. QED  BY <2>1, <2>2
<1>. QED  BY <1>1, <1>5, <1>6, <1>7, <1>8 DEF Sound, g

\* A restart from a file that agrees with memory.
LEMMA LoadSound ==
    ASSUME NEW h, NEW hs, Sound(h, hs), NEW f \in File, Agrees(f, h)
    PROVE  Sound(Loaded(f), hs) /\ Agrees(f, Loaded(f))
<1> DEFINE g == Loaded(f)
<1>1. /\ h \in Heap /\ g \in Heap
      /\ LiveSlots(g) = LiveSlots(h) /\ g.accounts_in_use = h.accounts_in_use
      /\ g.next_number = h.next_number
      /\ \A i \in LiveSlots(h) : SameFields(g.bank[i], h.bank[i])
  BY LoadedAgrees DEF Sound, LiveSlots
<1> HIDE DEF g
<1>2. NumbersOf(g) = NumbersOf(h)
  BY <1>1 DEF NumbersOf, SameFields
<1>3. Distinct(g)
  BY <1>1 DEF Sound, Distinct, SameFields
<1>4. \A i \in LiveSlots(g) : /\ g.bank[i].number < g.next_number
                              /\ Accounted(g.bank[i], hs[g.bank[i].number])
  BY <1>1 DEF Sound, Accounted, SameFields
<1>5. Agrees(f, g)
  BY <1>1 DEF Agrees, SameFields
<1>. QED  BY <1>1, <1>2, <1>3, <1>4, <1>5 DEF Sound, g

-----------------------------------------------------------------------------
(* What the other accounts keep.                                           *)

\* Accounts of h that reappear in g, wherever they are.
LEMMA OthersWithin ==
    ASSUME NEW h, NEW g, NEW no,
           \A i \in LiveSlots(h) : h.bank[i].number # no =>
               \E j \in LiveSlots(g) : g.bank[j] = h.bank[i]
    PROVE  Others(h, no) \subseteq Others(g, no)
<1>1. SUFFICES ASSUME NEW f \in Others(h, no)
               PROVE  f \in Fields(g)
  BY DEF Others
<1>2. PICK i \in LiveSlots(h) : f = Row(h.bank[i])
  BY FieldsIn DEF Others
<1>3. h.bank[i].number # no
  BY <1>2 DEF Others, Row
<1>4. PICK j \in LiveSlots(g) : g.bank[j] = h.bank[i]
  BY <1>3
<1>. QED  BY <1>2, <1>4, FieldsIn

\* Opening changes no row but the new one.
LEMMA OpenOthers ==
    ASSUME NEW h \in Heap, OpenStatus(h) = "OK", NEW name \in Names, NEW pin \in Pins
    PROVE  Others(Opened(h, name, pin), h.next_number) = Others(h, h.next_number)
<1> DEFINE g == Opened(h, name, pin)
<1>1. /\ LiveSlots(g) = LiveSlots(h) \cup {h.accounts_in_use}
      /\ \A i \in LiveSlots(h) : g.bank[i] = h.bank[i]
      /\ g.bank[h.accounts_in_use].number = h.next_number
  BY OpenedFields
<1> HIDE DEF g
<1>2. Others(h, h.next_number) \subseteq Others(g, h.next_number)
  BY <1>1, OthersWithin
<1>3. Others(g, h.next_number) \subseteq Others(h, h.next_number)
  BY <1>1, OthersWithin
<1>. QED  BY <1>2, <1>3 DEF g

\* Closing changes no row but that of the closed account, the moved one included.
LEMMA CloseOthers ==
    ASSUME NEW h \in Heap, NEW i \in LiveSlots(h)
    PROVE  LET no == h.bank[i].number
           IN  Others(Closed(h, i), no) = Others(h, no)
<1> DEFINE g == Closed(h, i)
           n == h.accounts_in_use - 1
           no == h.bank[i].number
<1>1. /\ n \in LiveSlots(h)
      /\ LiveSlots(g) = LiveSlots(h) \ {n}
      /\ \A j \in LiveSlots(g) : g.bank[j] = IF j = i THEN h.bank[n] ELSE h.bank[j]
  BY ClosedFields
<1> HIDE DEF g, n
<1>2. ASSUME NEW m \in LiveSlots(h), h.bank[m].number # no
      PROVE  \E j \in LiveSlots(g) : g.bank[j] = h.bank[m]
  <2>1. m # i
    BY <1>2
  <2>2. CASE m = n
    BY <2>1, <2>2, <1>1
  <2>3. CASE m # n
    BY <2>1, <2>3, <1>1
  <2>. QED  BY <2>2, <2>3
<1>3. ASSUME NEW j \in LiveSlots(g)
      PROVE  \E m \in LiveSlots(h) : h.bank[m] = g.bank[j]
  BY <1>1
<1>4. Others(h, no) \subseteq Others(g, no)
  BY <1>2, OthersWithin
<1>5. Others(g, no) \subseteq Others(h, no)
  BY <1>3, OthersWithin
<1>. QED  BY <1>4, <1>5 DEF g

\* A posting changes no row but that of its own account.
LEMMA PutOthers ==
    ASSUME NEW h \in Heap, NEW i \in LiveSlots(h), NEW b, b.number = h.bank[i].number
    PROVE  Others(Put(h, i, b), b.number) = Others(h, b.number)
<1> DEFINE g == Put(h, i, b)
<1>1. /\ LiveSlots(g) = LiveSlots(h)
      /\ \A j \in LiveSlots(h) : g.bank[j] = IF j = i THEN b ELSE h.bank[j]
  BY PutFields
<1> HIDE DEF g
<1>2. \A j \in LiveSlots(h) : h.bank[j].number # b.number \/ g.bank[j].number # b.number
                             => g.bank[j] = h.bank[j]
  BY <1>1
<1>3. Others(h, b.number) \subseteq Others(g, b.number)
  BY <1>1, <1>2, OthersWithin
<1>4. Others(g, b.number) \subseteq Others(h, b.number)
  BY <1>1, <1>2, OthersWithin
<1>. QED  BY <1>3, <1>4 DEF g

-----------------------------------------------------------------------------
(* A posting leaves the account explained by its longer history.           *)

\* A posting added to a history is its last one and leaves the others.
LEMMA AppendHistory ==
    ASSUME NEW s \in History, NEW typ \in {"D", "W"}, NEW amt \in CInt, NEW bal \in Int
    PROVE  LET t == Append(s, Posting(typ, amt, bal))
           IN  /\ t \in History
               /\ Len(t) = Len(s) + 1
               /\ Last(t) = bal
               /\ \A k \in 1 .. Len(s) : t[k] = s[k]
<1> DEFINE R == [type : {"D", "W"}, amount : CInt, balance_after : Int]
           p == Posting(typ, amt, bal)
           t == Append(s, p)
<1>1. p \in R /\ p.balance_after = bal
  BY DEF Posting
<1>2. s \in Seq(R)
  BY DEF History
<1> HIDE DEF p, R
<1>3. /\ t \in Seq(R) /\ Len(t) = Len(s) + 1 /\ t[Len(s) + 1] = p
      /\ \A k \in 1 .. Len(s) : t[k] = s[k]
  BY <1>1, <1>2
<1>4. t # << >>
  BY <1>2, <1>3
<1> HIDE DEF t
<1>. QED  BY <1>1, <1>3, <1>4 DEF Last, History, R, t, p

\* The last posting of a history has an integer balance.
LEMMA LastType ==
    ASSUME NEW s \in History
    PROVE  /\ Len(s) \in Nat \ {0}
           /\ Last(s) \in Int
           /\ \A k \in 1 .. Len(s) : s[k].balance_after \in Int
<1> DEFINE R == [type : {"D", "W"}, amount : CInt, balance_after : Int]
<1>1. s \in Seq(R) /\ s # << >>
  BY DEF History
<1>2. \A r \in R : r.balance_after \in Int
  OBVIOUS
<1> HIDE DEF R
<1>3. Len(s) \in Nat \ {0} /\ \A k \in 1 .. Len(s) : s[k] \in R
  BY <1>1
<1>. QED  BY <1>2, <1>3 DEF Last

\* A deposit, wrapped or not, is explained by the posting recorded for it.
LEMMA DepositAccounted ==
    ASSUME NEW a \in Account, NEW s \in History, Accounted(a, s),
           NEW amt \in CInt, amt >= MIN_DEPOSIT
    PROVE  LET b == remember(Credited(a, amt), "D", amt)
               t == Append(s, Posting("D", amt, Last(s) + amt))
           IN  b.number = a.number /\ b.pin = a.pin /\ t \in History /\ Accounted(b, t)
<1> DEFINE c == Credited(a, amt)
           b == remember(c, "D", amt)
           t == Append(s, Posting("D", amt, Last(s) + amt))
<1>1. amt \in Int /\ amt > 0 /\ Last(s) \in Int /\ Len(s) \in Nat \ {0}
  BY LastType, BankAssumption DEF CInt
<1>2. /\ t \in History /\ Len(t) = Len(s) + 1 /\ Last(t) = Last(s) + amt
      /\ \A k \in 1 .. Len(s) : t[k] = s[k]
  BY <1>1, AppendHistory
<1> HIDE DEF t
<1>3. Wrap(a.balance + amt) \in CInt
  <2>1. a.balance \in Int
    BY BankAssumption DEF Account, CInt
  <2>. QED  BY <1>1, <2>1, WrapType
<1>4. /\ c \in Account /\ c.number = a.number /\ c.pin = a.pin
      /\ c.ntran = a.ntran /\ c.balance = Wrap(a.balance + amt)
  BY <1>3 DEF Credited, Account
<1> HIDE DEF c
<1>5. /\ b.number = a.number /\ b.pin = a.pin
      /\ b.ntran = a.ntran + 1 /\ b.balance = Wrap(a.balance + amt)
  BY <1>4, RememberKeeps
<1> HIDE DEF b
<1>6. b.balance = Wrap(Last(t))
  BY <1>1, <1>2, <1>5, WrapShift DEF Accounted
<1>7. ASSUME \A k \in 1 .. Len(t) : t[k].balance_after <= INT_MAX
      PROVE  Last(t) >= MIN_BALANCE
  <2>1. \A k \in 1 .. Len(s) : s[k].balance_after <= INT_MAX
    BY <1>1, <1>2, <1>7
  <2>2. Last(s) >= MIN_BALANCE
    BY <2>1 DEF Accounted
  <2>. QED  BY <2>2, <1>1, <1>2, BankAssumption
<1>8. Accounted(b, t)
  BY <1>2, <1>5, <1>6, <1>7 DEF Accounted
<1>. QED  BY <1>2, <1>5, <1>8 DEF b, c, t

\* The floor that withdraw checks is checked on the wrapped difference, which
\* is the exact one while no deposit has overflowed.
LEMMA WithdrawAccounted ==
    ASSUME NEW a \in Account, NEW s \in History, Accounted(a, s),
           NEW amt \in CInt, amt >= MIN_WITHDRAW, Wrap(a.balance - amt) >= MIN_BALANCE
    PROVE  LET b == remember(Debited(a, amt), "W", amt)
               t == Append(s, Posting("W", amt, Last(s) - amt))
           IN  b.number = a.number /\ b.pin = a.pin /\ t \in History /\ Accounted(b, t)
<1> DEFINE c == Debited(a, amt)
           b == remember(c, "W", amt)
           t == Append(s, Posting("W", amt, Last(s) - amt))
<1>1. amt \in Int /\ amt > 0 /\ Last(s) \in Int /\ Len(s) \in Nat \ {0}
  BY LastType, BankAssumption DEF CInt
<1>2. /\ t \in History /\ Len(t) = Len(s) + 1 /\ Last(t) = Last(s) - amt
      /\ \A k \in 1 .. Len(s) : t[k] = s[k]
  BY <1>1, AppendHistory
<1> HIDE DEF t
<1>3. Wrap(a.balance - amt) \in CInt
  <2>1. a.balance \in Int
    BY BankAssumption DEF Account, CInt
  <2>. QED  BY <1>1, <2>1, WrapType
<1>4. /\ c \in Account /\ c.number = a.number /\ c.pin = a.pin
      /\ c.ntran = a.ntran /\ c.balance = Wrap(a.balance - amt)
  BY <1>3 DEF Debited, Account
<1> HIDE DEF c
<1>5. /\ b.number = a.number /\ b.pin = a.pin
      /\ b.ntran = a.ntran + 1 /\ b.balance = Wrap(a.balance - amt)
  BY <1>4, RememberKeeps
<1> HIDE DEF b
<1>6. b.balance = Wrap(Last(t))
  <2>1. Wrap(Last(s)) \in Int /\ a.balance = Wrap(Last(s))
    BY <1>1, WrapType, BankAssumption DEF Accounted, CInt
  <2>2. a.balance - amt = Wrap(Last(s)) + (-amt) /\ Last(t) = Last(s) + (-amt)
    BY <1>1, <1>2, <2>1
  <2>. QED  BY <2>2, <1>1, <1>5, WrapShift
<1>7. ASSUME \A k \in 1 .. Len(t) : t[k].balance_after <= INT_MAX
      PROVE  Last(t) >= MIN_BALANCE
  <2>1. \A k \in 1 .. Len(s) : s[k].balance_after <= INT_MAX
    BY <1>1, <1>2, <1>7
  <2>2. Last(s) >= MIN_BALANCE
    BY <2>1 DEF Accounted
  <2>3. Last(s) <= INT_MAX
    BY <2>1, <1>1 DEF Last
  <2>4. Last(s) \in CInt /\ Last(s) - amt \in CInt
    BY <2>2, <2>3, <1>1, BankAssumption DEF CInt
  <2>5. Wrap(a.balance - amt) = Last(s) - amt
    BY <2>4, WrapId DEF Accounted
  <2>. QED  BY <2>5, <1>2
<1>8. Accounted(b, t)
  BY <1>2, <1>5, <1>6, <1>7 DEF Accounted
<1>. QED  BY <1>2, <1>5, <1>8 DEF b, c, t

-----------------------------------------------------------------------------
(* Types of requests and answers.                                          *)

\* What the clients ask are requests.
LEMMA AskType ==
    /\ \A cmd \in command_t : \A no, pin, amt \in Int : Ask(cmd, no, pin, amt) \in request_t
    /\ \A name \in Names : AskOpen(name) \in request_t
    /\ \A no \in Asked : no \in Int
    /\ \A pin \in AskedPins : pin \in Int
    /\ \A amt \in Amounts : amt \in CInt /\ amt \in Int
<1>1. \A cmd \in command_t : \A no, pin, amt \in Int : Ask(cmd, no, pin, amt) \in request_t
  BY DEF Ask, request_t
<1>2. \A name \in Names : AskOpen(name) \in request_t
  BY DEF AskOpen, Ask, request_t, command_t
<1>3. \A no \in Asked : no \in Int
  BY BankAssumption, BookAssumption DEF Asked
<1>4. \A pin \in AskedPins : pin \in Int
  BY BankAssumption DEF AskedPins
<1>5. \A amt \in Amounts : amt \in CInt /\ amt \in Int
  BY BookAssumption, BankAssumption DEF CInt
<1>. QED  BY <1>1, <1>2, <1>3, <1>4, <1>5

\* What handle_client answers are responses.
LEMMA AnswerType ==
    /\ \A st \in status_t : Answer(st) \in response_t /\ Answer(st).status = st
    /\ \A a \in Account : AnswerOpened(a) \in response_t
    /\ \A bal \in CInt : AnswerBalance(bal) \in response_t
    /\ \A s \in Seq(Tran) : AnswerStatement(s) \in response_t
<1>1. << >> \in Seq(Tran) /\ 0 \in CInt /\ "OK" \in status_t
  BY ConstantsFit DEF status_t
<1>2. \A st \in status_t : Answer(st) \in response_t /\ Answer(st).status = st
  BY <1>1 DEF Answer, response_t
<1>3. \A a \in Account : AnswerOpened(a) \in response_t
  BY <1>1 DEF AnswerOpened, Answer, response_t, Account
<1>4. \A bal \in CInt : AnswerBalance(bal) \in response_t
  BY <1>1 DEF AnswerBalance, Answer, response_t
<1>5. \A s \in Seq(Tran) : AnswerStatement(s) \in response_t
  BY <1>1 DEF AnswerStatement, Answer, response_t
<1>. QED  BY <1>2, <1>3, <1>4, <1>5

-----------------------------------------------------------------------------
(* Steps.                                                                  *)

\* A step that changes neither memory nor file.
LEMMA StayStep ==
    ASSUME IInv, UNCHANGED <<heap, file, hist, restored>>,
           request' \in request_t, response' \in response_t
    PROVE  IInv' /\ Isolated
  BY DEF IInv, Isolated, Others

\* A refused request keeps the invariant and isolates.
LEMMA RefuseStep ==
    ASSUME IInv, NEW st \in status_t, Refuse(st), request' \in request_t
    PROVE  IInv' /\ Isolated
  BY StayStep, AnswerType DEF Refuse

\* A step that commits a heap its new histories explain.
LEMMA CommitStep ==
    ASSUME NEW g, NEW hs, Sound(g, hs), Commit(g), hist' = hs,
           DOMAIN restored' = DOMAIN hs,
           request' \in request_t, response' \in response_t
    PROVE  IInv'
<1>1. Image(g) \in File /\ Agrees(Image(g), g)
  BY ImageAgrees DEF Sound
<1>. QED  BY <1>1 DEF IInv, Commit

\* The operations return statuses.
LEMMA StatusType ==
    ASSUME NEW h
    PROVE  /\ OpenStatus(h) \in status_t
           /\ \A no, pin : AuthStatus(h, no, pin) \in status_t
           /\ \A no, pin, amt : DepositStatus(h, no, pin, amt) \in status_t
           /\ \A no, pin, amt : WithdrawStatus(h, no, pin, amt) \in status_t
  BY DEF OpenStatus, AuthStatus, DepositStatus, WithdrawStatus, status_t

\* OPEN keeps the invariant and isolates.
LEMMA OpenStep ==
    ASSUME IInv, NEW name \in Names, Open(name)
    PROVE  IInv' /\ Isolated
<1>1. request' = AskOpen(name) /\ request' \in request_t /\ request'.command = "OPEN"
  BY AskType DEF Open, AskOpen, Ask
<1>2. CASE Refuse(OpenStatus(heap))
  BY <1>1, <1>2, RefuseStep, StatusType
<1>3. CASE OpenStatus(heap) = "OK" /\ ~Refuse(OpenStatus(heap))
  <2> DEFINE no == heap.next_number
  <2>1. PICK pin \in Pins : Commit(Opened(heap, name, pin))
    BY <1>3 DEF Open
  <2> DEFINE g == Opened(heap, name, pin)
             a == g.bank[heap.accounts_in_use]
  <2>2. heap \in Heap /\ Sound(heap, hist) /\ DOMAIN restored = DOMAIN hist
    BY DEF IInv, Sound
  <2>3. hist' = WithNumber(hist, no) /\ DOMAIN restored' = DOMAIN restored \cup {no}
    BY <1>3 DEF Open, WithNumber, Opening
  <2>4. Sound(g, WithNumber(hist, no))
    BY <2>2, <1>3, OpenSound
  <2>5. heap' = g /\ response' = AnswerOpened(a)
    BY <1>3, <2>1 DEF Open, Commit
  <2>6. a \in Account /\ a.number = no
    BY <1>3, <2>2, <2>4, OpenedFields, BankAssumption DEF Sound, Heap, OpenStatus, Slots
  <2>7. Others(g, no) = Others(heap, no)
    BY <2>2, <1>3, OpenOthers
  <2> HIDE DEF g, a
  <2>8. response' \in response_t /\ response'.status = "OK" /\ response'.account_number = no
    BY <2>5, <2>6, AnswerType DEF AnswerOpened, Answer
  <2>9. DOMAIN restored' = DOMAIN WithNumber(hist, no)
    BY <2>2, <2>3 DEF WithNumber
  <2>10. IInv'
    BY <1>1, <2>1, <2>3, <2>4, <2>8, <2>9, CommitStep DEF g
  <2>11. Isolated
    BY <1>1, <2>5, <2>7, <2>8 DEF Isolated
  <2>. QED  BY <2>10, <2>11
<1>. QED  BY <1>2, <1>3 DEF Open

\* CLOSE keeps the invariant and isolates.
LEMMA CloseStep ==
    ASSUME IInv, NEW no \in Asked, NEW pin \in AskedPins, Close(no, pin)
    PROVE  IInv' /\ Isolated
<1>1. /\ request' \in request_t /\ request'.command = "CLOSE"
      /\ request'.account_number = no
  BY AskType DEF Close, Ask, command_t
<1>2. CASE Refuse(AuthStatus(heap, no, pin))
  BY <1>1, <1>2, RefuseStep, StatusType
<1>3. CASE AuthStatus(heap, no, pin) = "OK" /\ ~Refuse(AuthStatus(heap, no, pin))
  <2> DEFINE i == Found(heap, no, pin)
             g == Closed(heap, i)
  <2>1. /\ heap \in Heap /\ Sound(heap, hist) /\ DOMAIN restored = DOMAIN hist
        /\ i \in LiveSlots(heap) /\ heap.bank[i].number = no
    BY <1>3, FoundMatches DEF IInv, Sound
  <2>2. /\ Commit(g) /\ hist' = Without(hist, no)
        /\ DOMAIN restored' = DOMAIN restored \ {no} /\ response' = Answer("OK")
    BY <1>3 DEF Close, Without
  <2> HIDE DEF i
  <2>3. Sound(g, Without(hist, no))
    BY <2>1, CloseSound
  <2>4. Others(g, no) = Others(heap, no)
    BY <2>1, CloseOthers
  <2>5. response' \in response_t /\ response'.status = "OK"
    BY <2>2, AnswerType DEF status_t
  <2>6. DOMAIN restored' = DOMAIN Without(hist, no)
    BY <2>1, <2>2 DEF Without
  <2> HIDE DEF g
  <2>7. IInv'
    BY <1>1, <2>2, <2>3, <2>5, <2>6, CommitStep
  <2>8. Isolated
    BY <1>1, <2>2, <2>4, <2>5 DEF Isolated, Commit
  <2>. QED  BY <2>7, <2>8
<1>. QED  BY <1>2, <1>3 DEF Close

\* Deposit and Withdraw: b is the account after the posting, s its history.
LEMMA PostStep ==
    ASSUME IInv, NEW no, NEW pin, AuthStatus(heap, no, pin) = "OK",
           NEW b \in Account, b.number = no, b.pin = pin,
           NEW s \in History, Accounted(b, s),
           Put(heap, Found(heap, no, pin), b) \in Heap,
           Commit(Put(heap, Found(heap, no, pin), b)),
           hist' = [hist EXCEPT ![no] = s], UNCHANGED restored,
           response' = AnswerBalance(BalanceOf(heap', no, pin)),
           request' \in request_t, request'.command \in {"DEPOSIT", "WITHDRAW"},
           request'.account_number = no
    PROVE  IInv' /\ Isolated
<1> DEFINE i == Found(heap, no, pin)
           g == Put(heap, i, b)
<1>1. /\ heap \in Heap /\ Sound(heap, hist) /\ DOMAIN restored = DOMAIN hist
      /\ i \in LiveSlots(heap) /\ heap.bank[i].number = no
  BY FoundMatches DEF IInv, Sound
<1>2. heap' = g /\ Commit(g) /\ g \in Heap
  BY DEF Commit
<1> HIDE DEF i
<1>3. Sound(g, hist')
  BY <1>1, <1>2, PostSound
<1>4. Others(g, no) = Others(heap, no)
  BY <1>1, PutOthers
<1>5. AuthStatus(g, no, pin) = "OK"
  <2>1. i \in LiveSlots(g) /\ g.bank[i] = b
    BY <1>1, PutFields
  <2>. QED  BY <2>1 DEF AuthStatus, Matches
<1> HIDE DEF g
<1>6. Found(g, no, pin) \in LiveSlots(g)
  BY <1>2, <1>3, <1>5, FoundMatches DEF Sound
<1>7. BalanceOf(g, no, pin) \in CInt
  BY <1>2, <1>6, SlotBelow DEF BalanceOf, Heap, Account
<1>8. response' \in response_t /\ response'.status = "OK"
  BY <1>2, <1>7, AnswerType DEF AnswerBalance, Answer
<1>9. DOMAIN restored' = DOMAIN hist'
  BY <1>1
<1>10. IInv'
  BY <1>2, <1>3, <1>8, <1>9, CommitStep
<1>11. Isolated
  BY <1>2, <1>4, <1>8 DEF Isolated
<1>. QED  BY <1>10, <1>11

\* DEPOSIT keeps the invariant and isolates.
LEMMA DepositStep ==
    ASSUME IInv, NEW no \in Asked, NEW pin \in AskedPins, NEW amt \in Amounts,
           Deposit(no, pin, amt)
    PROVE  IInv' /\ Isolated
<1>1. /\ request' \in request_t /\ request'.command = "DEPOSIT"
      /\ request'.account_number = no
  BY AskType DEF Deposit, Ask, command_t
<1>2. CASE Refuse(DepositStatus(heap, no, pin, amt))
  BY <1>1, <1>2, RefuseStep, StatusType
<1>3. CASE DepositStatus(heap, no, pin, amt) = "OK" /\ ~Refuse(DepositStatus(heap, no, pin, amt))
  <2> DEFINE i == Found(heap, no, pin)
             a == heap.bank[i]
             b == remember(Credited(a, amt), "D", amt)
             t == Append(hist[no], Posting("D", amt, Last(hist[no]) + amt))
  <2>1. AuthStatus(heap, no, pin) = "OK" /\ amt >= MIN_DEPOSIT
    BY <1>3, AskType, BankAssumption DEF DepositStatus, AuthStatus
  <2>2. /\ heap \in Heap /\ Sound(heap, hist)
        /\ i \in LiveSlots(heap) /\ heap.bank[i].number = no /\ heap.bank[i].pin = pin
    BY <2>1, FoundMatches DEF IInv, Sound
  <2>3. a \in Account /\ hist[no] \in History /\ Accounted(a, hist[no])
    BY <2>2, SlotBelow DEF Sound, Heap, NumbersOf
  <2>4. amt \in CInt
    BY AskType
  <2>5. b.number = no /\ b.pin = pin /\ t \in History /\ Accounted(b, t)
    BY <2>1, <2>2, <2>3, <2>4, DepositAccounted
  <2>6. b \in Account
    BY <2>3, <2>4, PostedType
  <2>7. Put(heap, i, b) = Deposited(heap, i, amt) /\ Put(heap, i, b) \in Heap
    BY <2>2, <2>4, DepositedType DEF Put, Deposited
  <2>8. /\ Commit(Put(heap, i, b))
        /\ response' = AnswerBalance(BalanceOf(heap', no, pin))
    BY <1>3, <2>7 DEF Deposit
  <2>9. hist' = [hist EXCEPT ![no] = t] /\ UNCHANGED restored
    BY <1>3 DEF Deposit, Record, Exact, Last
  <2> HIDE DEF b, t
  <2>. QED  BY <1>1, <2>1, <2>5, <2>6, <2>7, <2>8, <2>9, PostStep
<1>. QED  BY <1>2, <1>3 DEF Deposit

\* WITHDRAW keeps the invariant and isolates.
LEMMA WithdrawStep ==
    ASSUME IInv, NEW no \in Asked, NEW pin \in AskedPins, NEW amt \in Amounts,
           Withdraw(no, pin, amt)
    PROVE  IInv' /\ Isolated
<1>1. /\ request' \in request_t /\ request'.command = "WITHDRAW"
      /\ request'.account_number = no
  BY AskType DEF Withdraw, Ask, command_t
<1>2. CASE Refuse(WithdrawStatus(heap, no, pin, amt))
  BY <1>1, <1>2, RefuseStep, StatusType
<1>3. CASE WithdrawStatus(heap, no, pin, amt) = "OK" /\ ~Refuse(WithdrawStatus(heap, no, pin, amt))
  <2> DEFINE i == Found(heap, no, pin)
             a == heap.bank[i]
             b == remember(Debited(a, amt), "W", amt)
             t == Append(hist[no], Posting("W", amt, Last(hist[no]) - amt))
  <2>1. /\ AuthStatus(heap, no, pin) = "OK" /\ amt >= MIN_WITHDRAW
        /\ ~(Wrap(a.balance - amt) < MIN_BALANCE)
    BY <1>3, AskType, BankAssumption DEF WithdrawStatus, AuthStatus
  <2>2. /\ heap \in Heap /\ Sound(heap, hist)
        /\ i \in LiveSlots(heap) /\ heap.bank[i].number = no /\ heap.bank[i].pin = pin
    BY <2>1, FoundMatches DEF IInv, Sound
  <2>3. a \in Account /\ hist[no] \in History /\ Accounted(a, hist[no])
    BY <2>2, SlotBelow DEF Sound, Heap, NumbersOf
  <2>4. amt \in CInt
    BY AskType
  <2>5. Wrap(a.balance - amt) >= MIN_BALANCE
    <3>1. a.balance \in Int /\ amt \in Int /\ MIN_BALANCE \in Int
      BY <2>3, <2>4, BankAssumption DEF Account, CInt
    <3>2. Wrap(a.balance - amt) \in Int
      BY <3>1, WrapType, BankAssumption DEF CInt
    <3>. QED  BY <2>1, <3>1, <3>2
  <2>6. b.number = no /\ b.pin = pin /\ t \in History /\ Accounted(b, t)
    BY <2>1, <2>2, <2>3, <2>4, <2>5, WithdrawAccounted
  <2>7. b \in Account
    BY <2>3, <2>4, PostedType
  <2>8. Put(heap, i, b) = Withdrawn(heap, i, amt) /\ Put(heap, i, b) \in Heap
    BY <2>2, <2>4, WithdrawnType DEF Put, Withdrawn
  <2>9. /\ Commit(Put(heap, i, b))
        /\ response' = AnswerBalance(BalanceOf(heap', no, pin))
    BY <1>3, <2>8 DEF Withdraw
  <2>10. hist' = [hist EXCEPT ![no] = t] /\ UNCHANGED restored
    BY <1>3 DEF Withdraw, Record, Exact, Last
  <2> HIDE DEF b, t
  <2>. QED  BY <1>1, <2>1, <2>6, <2>7, <2>8, <2>9, <2>10, PostStep
<1>. QED  BY <1>2, <1>3 DEF Withdraw

\* BALANCE keeps the invariant and isolates.
LEMMA BalanceStep ==
    ASSUME IInv, NEW no \in Asked, NEW pin \in AskedPins, Balance(no, pin)
    PROVE  IInv' /\ Isolated
<1>1. request' \in request_t
  BY AskType, ConstantsFit DEF Balance, command_t, CInt
<1>2. CASE Refuse(AuthStatus(heap, no, pin))
  BY <1>1, <1>2, RefuseStep, StatusType
<1>3. CASE /\ AuthStatus(heap, no, pin) = "OK"
           /\ response' = AnswerBalance(BalanceOf(heap, no, pin))
           /\ UNCHANGED <<heap, file, hist, restored>>
  <2>1. heap \in Heap /\ Found(heap, no, pin) \in LiveSlots(heap)
    BY <1>3, FoundMatches DEF IInv, Sound
  <2>2. BalanceOf(heap, no, pin) \in CInt
    BY <2>1, SlotBelow DEF BalanceOf, Heap, Account
  <2>. QED  BY <1>1, <1>3, <2>2, AnswerType, StayStep
<1>. QED  BY <1>2, <1>3 DEF Balance

\* STATEMENT keeps the invariant and isolates.
LEMMA StatementStep ==
    ASSUME IInv, NEW no \in Asked, NEW pin \in AskedPins, Statement(no, pin)
    PROVE  IInv' /\ Isolated
<1>1. request' \in request_t
  BY AskType, ConstantsFit DEF Statement, command_t, CInt
<1>2. CASE Refuse(AuthStatus(heap, no, pin))
  BY <1>1, <1>2, RefuseStep, StatusType
<1>3. CASE /\ AuthStatus(heap, no, pin) = "OK"
           /\ response' = AnswerStatement(Kept(heap.bank[Found(heap, no, pin)]))
           /\ UNCHANGED <<heap, file, hist, restored>>
  <2>1. heap \in Heap /\ Found(heap, no, pin) \in LiveSlots(heap)
    BY <1>3, FoundMatches DEF IInv, Sound
  <2>2. Kept(heap.bank[Found(heap, no, pin)]) \in Seq(Tran)
    BY <2>1, SlotBelow, KeptType DEF Heap
  <2>. QED  BY <1>1, <1>3, <2>2, AnswerType, StayStep
<1>. QED  BY <1>2, <1>3 DEF Statement

\* Shutdown and Kill: the file agrees with memory, saved once more or not.
LEMMA RestartStep ==
    ASSUME IInv, Restart
    PROVE  IInv' /\ Isolated
<1>1. PICK f : Start(f) /\ f \in {Image(heap), file}
  BY DEF Restart, Shutdown, Kill
<1>2. heap \in Heap /\ Sound(heap, hist) /\ f \in File /\ Agrees(f, heap)
  BY <1>1, ImageAgrees DEF IInv, Sound
<1>3. Sound(Loaded(f), hist) /\ Agrees(f, Loaded(f)) /\ Fields(Loaded(f)) = Fields(heap)
  BY <1>2, LoadSound, LoadFields
<1>4. /\ NoRequest \in request_t /\ NoRequest.command = "NONE"
      /\ Answer("OK") \in response_t /\ Answer("OK").status = "OK"
  BY AskType, AnswerType DEF NoRequest, Ask, command_t, status_t
<1>. QED  BY <1>1, <1>2, <1>3, <1>4 DEF Start, IInv, Isolated

\* QUIT and an unknown command change nothing.
LEMMA QuitStep ==
    ASSUME IInv, Quit \/ UnknownCommand
    PROVE  IInv' /\ Isolated
<1>1. request' \in request_t
  BY AskType DEF Quit, UnknownCommand, command_t
<1>2. CASE Quit
  BY <1>1, <1>2, StayStep, AnswerType DEF Quit, status_t
<1>3. CASE UnknownCommand
  BY <1>1, <1>3, RefuseStep DEF UnknownCommand, status_t
<1>. QED  BY <1>2, <1>3

-----------------------------------------------------------------------------
(* Theorems.                                                               *)

\* The program starts in the invariant.
LEMMA InitIInv == Init => IInv
<1> SUFFICES ASSUME Init PROVE IInv
  OBVIOUS
<1>1. FreshHeap \in Heap /\ LiveSlots(FreshHeap) = {}
  BY FreshHeapType DEF LiveSlots, FreshHeap
<1>2. Sound(heap, hist)
  BY <1>1 DEF Init, Sound, NumbersOf, Distinct
<1>3. file \in File /\ Agrees(file, heap)
  BY DEF Init, NoFile, File, Agrees, FreshHeap
<1>4. request \in request_t /\ response \in response_t
  BY AskType, AnswerType DEF Init, NoRequest, command_t, status_t
<1>. QED  BY <1>2, <1>3, <1>4 DEF Init, IInv

\* Every step keeps the invariant and isolates.
LEMMA NextStep ==
    ASSUME IInv, [Next]_vars
    PROVE  IInv' /\ (vars' # vars => Isolated)
<1>1. CASE UNCHANGED vars
  BY <1>1 DEF vars, IInv
<1>2. CASE \E name \in Names : Open(name)
  BY <1>2, OpenStep
<1>3. ASSUME NEW no \in Asked, NEW pin \in AskedPins,
             Close(no, pin) \/ Balance(no, pin) \/ Statement(no, pin)
      PROVE  IInv' /\ Isolated
  BY <1>3, CloseStep, BalanceStep, StatementStep
<1>4. ASSUME NEW no \in Asked, NEW pin \in AskedPins, NEW amt \in Amounts,
             Deposit(no, pin, amt) \/ Withdraw(no, pin, amt)
      PROVE  IInv' /\ Isolated
  BY <1>4, DepositStep, WithdrawStep
<1>5. CASE Quit \/ UnknownCommand
  BY <1>5, QuitStep
<1>6. CASE Restart
  BY <1>6, RestartStep
<1>. QED  BY <1>1, <1>2, <1>3, <1>4, <1>5, <1>6 DEF Next, Serve

\* The inductive invariant: memory, histories and file stay tied together
\* through every request and every restart.
THEOREM Invariance == Spec => []IInv
<1>1. IInv /\ [Next]_vars => IInv'
  BY NextStep
<1>. QED  BY <1>1, InitIInv, PTL DEF Spec

\* Every variable keeps its type, and exactly the open accounts have a history.
THEOREM TypeCorrect == Spec => []TypeOK
<1>1. IInv => TypeOK
  BY DEF IInv, Sound, TypeOK, NumbersOf, Numbers
<1>. QED  BY <1>1, Invariance, PTL

\* No number is used twice, and next_number is above all of them.
THEOREM UniqueNumbers == Spec => []NumbersUnique
<1>1. IInv => NumbersUnique
  BY DEF IInv, Sound, NumbersUnique, Distinct
<1>. QED  BY <1>1, Invariance, PTL

\* Balances and counts are those of everything posted, modulo the width of int.
THEOREM Explained == Spec => []BalanceExplained
<1>1. IInv => BalanceExplained
  BY DEF IInv, Sound, BalanceExplained, Accounted, Exact, Last
<1>. QED  BY <1>1, Invariance, PTL

\* The floor holds for every account none of whose postings overflowed.
THEOREM FloorKept == Spec => []MinBalanceKept
<1>1. ASSUME IInv, NEW i \in LiveSlots(heap),
             \A k \in 1 .. Len(hist[heap.bank[i].number]) :
                 hist[heap.bank[i].number][k].balance_after <= INT_MAX
      PROVE  heap.bank[i].balance >= MIN_BALANCE
  <2> DEFINE s == hist[heap.bank[i].number]
  <2>1. s \in History /\ Accounted(heap.bank[i], s)
    BY <1>1 DEF IInv, Sound, NumbersOf
  <2>2. Len(s) \in Nat \ {0} /\ Last(s) \in Int
    BY <2>1, LastType
  <2>3. MIN_BALANCE <= Last(s) /\ Last(s) <= INT_MAX
    BY <1>1, <2>1, <2>2 DEF Accounted, Last
  <2>4. Wrap(Last(s)) = Last(s)
    BY <2>2, <2>3, WrapId, BankAssumption DEF CInt
  <2>. QED  BY <2>1, <2>3, <2>4 DEF Accounted
<1>2. IInv => MinBalanceKept
  BY <1>1 DEF MinBalanceKept
<1>. QED  BY <1>2, Invariance, PTL

\* A refused request changes nothing, a granted one only its own account, and
\* a restart no account.
THEOREM Isolates == Spec => Isolation
<1>1. IInv /\ [Next]_vars => [Isolated]_vars
  BY NextStep
<1>. QED  BY <1>1, Invariance, PTL DEF Spec, Isolation

-----------------------------------------------------------------------------
(* The words of Ledger are those of AccountBook.                           *)

\* Both modules speak of the same messages, postings and arithmetic.
LEMMA SameWords ==
    /\ \A st : Promise!Answer(st) = Answer(st)
    /\ \A bal : Promise!AnswerBalance(bal) = AnswerBalance(bal)
    /\ \A s : Promise!AnswerStatement(s) = AnswerStatement(s)
    /\ Promise!NoRequest = NoRequest
    /\ \A x : Promise!Wrap(x) = Wrap(x)
    /\ \A typ, amt, bal : Promise!Posting(typ, amt, bal) = Posting(typ, amt, bal)
    /\ \A p : Promise!AsTran(p) = AsTran(p)
<1>1. \A st : Promise!Answer(st) = Answer(st)
  BY DEF Promise!Answer, Answer
<1>2. \A bal : Promise!AnswerBalance(bal) = AnswerBalance(bal)
  BY <1>1 DEF Promise!AnswerBalance, AnswerBalance
<1>3. \A s : Promise!AnswerStatement(s) = AnswerStatement(s)
  BY <1>1 DEF Promise!AnswerStatement, AnswerStatement
<1>4. Promise!NoRequest = NoRequest
  BY DEF Promise!NoRequest, NoRequest, Promise!Ask, Ask, Promise!Blank, Blank
<1>5. \A x : Promise!Wrap(x) = Wrap(x)
  BY DEF Promise!Wrap, Wrap
<1>6. \A typ, amt, bal : Promise!Posting(typ, amt, bal) = Posting(typ, amt, bal)
  BY DEF Promise!Posting, Posting
<1>7. \A p : Promise!AsTran(p) = AsTran(p)
  BY <1>5 DEF Promise!AsTran, AsTran
<1>. QED  BY <1>1, <1>2, <1>3, <1>4, <1>5, <1>6, <1>7


\* And count sets alike.
LEMMA SameCardinality ==
    ASSUME NEW S
    PROVE  Promise!Cardinality(S) = Cardinality(S)
  BY DEF Promise!Cardinality, Cardinality

-----------------------------------------------------------------------------
(* Rings: what the kept transactions of an account say of its history.     *)

Lesser(m, n) == IF m < n THEN m ELSE n

\* How many of the last of n postings the ring has in place, if there were r
\* when the program last started: load_data puts the kept ones back from slot
\* 0 on, where remember does not continue once they are a full ring.
InPlace(n, r) ==
    IF r <= TRANS_KEEP THEN Lesser(TRANS_KEEP, n) ELSE Lesser(TRANS_KEEP, n - r)

InRing(a, s, r) ==
    LET n == Len(s)
    IN  /\ r \in 0 .. n
        /\ \A k \in 0 .. InPlace(n, r) - 1 :
               a.last[(n - 1 - k) % TRANS_KEEP] = AsTran(s[n - k])
        /\ \A k \in Ring : k < n => \E j \in 1 .. n : a.last[k] = AsTran(s[j])

Rings(h, hs, rs) ==
    \A i \in LiveSlots(h) : InRing(h.bank[i], hs[h.bank[i].number], rs[h.bank[i].number])

Lengths(hs) == [n \in DOMAIN hs |-> Len(hs[n])]

\* The rings of memory, and those a restart from the file would make.
RInv ==
    /\ Rings(heap, hist, restored)
    /\ Rings(Loaded(file), hist, Lengths(hist))
    /\ heap.next_number >= FIRST_NUMBER

\* TRANS_KEEP successive indices of a ring fall into different slots.
LEMMA SlotsApart ==
    ASSUME NEW n \in Nat, NEW k \in 1 .. TRANS_KEEP - 1
    PROVE  (n - k) % TRANS_KEEP # n % TRANS_KEEP
<1> DEFINE m == TRANS_KEEP
           q == n \div m
           r == n % m
<1>1. m \in Nat \ {0} /\ q \in Int /\ r \in 0 .. m - 1 /\ n = m * q + r
  BY BankAssumption
<1> HIDE DEF m, q, r
<1>2. CASE k <= r
  <2>1. n - k = m * q + (r - k) /\ r - k \in 0 .. m - 1 /\ r - k # r
    BY <1>1, <1>2 DEF m
  <2>. QED  BY <1>1, <2>1, ModUnique DEF m, r
<1>3. CASE k > r
  <2>1. m * (q - 1) = m * q - m
    BY <1>1
  <2>2. /\ n - k = m * (q - 1) + (r - k + m) /\ r - k + m \in 0 .. m - 1
        /\ r - k + m # r /\ q - 1 \in Int
    BY <1>1, <1>3, <2>1 DEF m
  <2>. QED  BY <1>1, <2>2, ModUnique DEF m, r
<1>. QED  BY <1>1, <1>2, <1>3 DEF m

\* How far a ring is in place, from one posting to the next and over a restart.
LEMMA InPlaceFacts ==
    ASSUME NEW n \in Nat, NEW r \in 0 .. n
    PROVE  /\ InPlace(n, r) \in 0 .. TRANS_KEEP /\ InPlace(n, r) <= n
           /\ InPlace(n + 1, r) \in 0 .. TRANS_KEEP
           /\ InPlace(n + 1, r) <= InPlace(n, r) + 1
           /\ n <= TRANS_KEEP => InPlace(n, n) = n /\ InPlace(n, r) = n
           /\ n > TRANS_KEEP => InPlace(n, n) = 0
  BY BankAssumption DEF InPlace, Lesser

\* A posting of a history, as it goes into the ring.
LEMMA AsTranIs ==
    ASSUME NEW p \in [type : {"D", "W"}, amount : CInt, balance_after : Int]
    PROVE  AsTran(p) = [type |-> p.type, amount |-> p.amount,
                        balance_after |-> Wrap(p.balance_after)]
  BY DEF AsTran

\* remember puts the posting into the ring, and in place.
LEMMA RememberRing ==
    ASSUME NEW c \in Account, NEW s \in History, NEW r, InRing(c, s, r), c.ntran = Len(s),
           NEW typ \in {"D", "W"}, NEW amt \in CInt, NEW bal \in Int, c.balance = Wrap(bal)
    PROVE  InRing(remember(c, typ, amt), Append(s, Posting(typ, amt, bal)), r)
<1> DEFINE p == Posting(typ, amt, bal)
           t == Append(s, p)
           n == Len(s)
           b == remember(c, typ, amt)
           K == TRANS_KEEP
<1>1. n \in Nat /\ K \in Nat \ {0} /\ n % K \in Ring
  <2>1. n \in Nat /\ K \in Nat \ {0}
    BY LastType, BankAssumption
  <2> HIDE DEF n
  <2>. QED  BY <2>1, ModRange DEF Ring
<1>2. p \in [type : {"D", "W"}, amount : CInt, balance_after : Int] /\ p.type = typ
      /\ p.amount = amt /\ p.balance_after = bal
  BY DEF Posting
<1>3. Len(t) = n + 1 /\ t[n + 1] = p /\ \A k \in 1 .. n : t[k] = s[k]
  <2>1. s \in Seq([type : {"D", "W"}, amount : CInt, balance_after : Int])
    BY DEF History
  <2> HIDE DEF p
  <2>. QED  BY <1>2, <2>1
<1>4. \A k \in Ring : b.last[k] = IF k = n % K THEN AsTran(p) ELSE c.last[k]
  <2>1. c.last \in [Ring -> Tran]
    BY DEF Account
  <2>2. AsTran(p) = [type |-> typ, amount |-> amt, balance_after |-> c.balance]
    BY <1>2, AsTranIs
  <2> HIDE DEF p
  <2>3. b.last = [c.last EXCEPT ![n % K] = AsTran(p)]
    BY <2>2 DEF remember, slot_for, Account
  <2>. QED  BY <1>1, <2>1, <2>3
<1> HIDE DEF p, t, b
<1>5. r \in 0 .. n /\ r \in 0 .. n + 1
  BY <1>1 DEF InRing
<1> DEFINE v == InPlace(n, r)
           w == InPlace(n + 1, r)
<1>6. v \in 0 .. K /\ w \in 0 .. K /\ w <= v + 1 /\ v <= n
  BY <1>1, <1>5, InPlaceFacts
<1> HIDE DEF v, w
<1>7. ASSUME NEW k \in 0 .. w - 1
      PROVE  b.last[(n + 1 - 1 - k) % K] = AsTran(t[n + 1 - k])
  <2>1. CASE k = 0
    <3>1. n + 1 - 1 - k = n /\ n + 1 - k = n + 1
      BY <1>1, <2>1
    <3>. QED  BY <1>1, <1>3, <1>4, <3>1
  <2>2. CASE k # 0
    <3>1. /\ k \in 1 .. K - 1 /\ k - 1 \in 0 .. v - 1 /\ n - 1 - (k - 1) = n - k
          /\ n + 1 - 1 - k = n - k /\ n - (k - 1) = n + 1 - k /\ n + 1 - k \in 1 .. n
          /\ n - k \in Int
      BY <1>1, <1>6, <2>2
    <3>2. (n - k) % K \in Ring /\ (n - k) % K # n % K
      BY <1>1, <3>1, SlotsApart, ModRange DEF Ring
    <3>3. c.last[(n - 1 - (k - 1)) % K] = AsTran(s[n - (k - 1)])
      BY <3>1 DEF InRing, v
    <3>. QED  BY <1>3, <1>4, <3>1, <3>2, <3>3
  <2>. QED  BY <2>1, <2>2
<1>8. ASSUME NEW k \in Ring, k < n + 1
      PROVE  \E j \in 1 .. n + 1 : b.last[k] = AsTran(t[j])
  <2>1. CASE k = n % K
    BY <1>1, <1>3, <1>4, <2>1
  <2>2. CASE k # n % K
    <3>1. k # n
      BY <1>1, <2>2, ModSmall DEF Ring
    <3>2. k < n
      BY <1>1, <1>8, <3>1 DEF Ring
    <3>3. PICK j \in 1 .. n : c.last[k] = AsTran(s[j])
      BY <3>2 DEF InRing
    <3>4. j \in 1 .. n + 1
      BY <1>1
    <3>. QED  BY <1>3, <1>4, <2>2, <3>3, <3>4
  <2>. QED  BY <2>1, <2>2
<1>9. InRing(b, t, r)
  BY <1>3, <1>5, <1>7, <1>8 DEF InRing, w
<1>. QED  BY <1>9 DEF p, t, b

\* The ring open_account starts an account with.
LEMMA OpeningRing ==
    ASSUME NEW h \in Heap, OpenStatus(h) = "OK", NEW name \in Names, NEW pin \in Pins
    PROVE  InRing(Opened(h, name, pin).bank[h.accounts_in_use], Opening, 0)
<1> DEFINE n == h.accounts_in_use
           a == [ZeroAccount EXCEPT !.number = h.next_number, !.pin = pin,
                                    !.name = name, !.balance = MIN_BALANCE]
           b == remember(a, "D", MIN_BALANCE)
           p == Posting("D", MIN_BALANCE, MIN_BALANCE)
           K == TRANS_KEEP
<1>1. n \in Slots /\ h.bank \in [Slots -> Account]
  BY BankAssumption DEF OpenStatus, Heap, Slots
<1>2. Opened(h, name, pin) = [bank |-> [h.bank EXCEPT ![n] = b],
                              accounts_in_use |-> n + 1,
                              next_number |-> h.next_number + 1]
  BY DEF Opened
<1>3. a \in Account
  BY ZeroAccountType, ConstantsFit, BankAssumption DEF Account, Heap, ZeroAccount
<1>4. a.ntran = 0 /\ a.balance = MIN_BALANCE
  BY DEF ZeroAccount
<1>5. p \in [type : {"D", "W"}, amount : CInt, balance_after : Int] /\ p.type = "D"
      /\ p.amount = MIN_BALANCE /\ p.balance_after = MIN_BALANCE
      /\ Wrap(MIN_BALANCE) = MIN_BALANCE
  BY ConstantsFit, WrapId, BankAssumption DEF Posting
<1>6. Len(Opening) = 1 /\ Opening[1] = p
  BY DEF Opening
<1> HIDE DEF a, p
<1>7. 0 % K = 0 /\ 0 \in Ring /\ K \in Nat \ {0}
  BY BankAssumption, ModSmall DEF Ring
<1>8. b.last[0] = AsTran(p)
  <2>1. a.last \in [Ring -> Tran]
    BY <1>3 DEF Account
  <2>2. b.last = [a.last EXCEPT ![0] =
                     [type |-> "D", amount |-> MIN_BALANCE, balance_after |-> a.balance]]
    BY <1>3, <1>4, <1>7 DEF remember, slot_for, Account
  <2>3. AsTran(p) = [type |-> "D", amount |-> MIN_BALANCE, balance_after |-> MIN_BALANCE]
    BY <1>5, AsTranIs
  <2>. QED  BY <1>4, <1>7, <2>1, <2>2, <2>3
<1> HIDE DEF b
<1>9. InPlace(1, 0) = 1
  BY <1>7 DEF InPlace, Lesser
<1>10. \A k \in 0 .. InPlace(1, 0) - 1 : 1 - 1 - k = 0 /\ 1 - k = 1
  BY <1>9
<1>11. \A k \in Ring : k < 1 => k = 0
  BY DEF Ring
<1>12. \A k \in 0 .. InPlace(1, 0) - 1 : b.last[(1 - 1 - k) % K] = AsTran(Opening[1 - k])
  BY <1>6, <1>7, <1>8, <1>10
<1>13. \A k \in Ring : k < 1 => b.last[k] = AsTran(Opening[1]) /\ 1 \in 1 .. 1
  BY <1>6, <1>8, <1>11
<1>14. InRing(b, Opening, 0)
  <2>1. 0 \in 0 .. 1
    OBVIOUS
  <2>. QED  BY <2>1, <1>6, <1>12, <1>13 DEF InRing
<1>. QED  BY <1>1, <1>2, <1>14

\* What a statement, or a save, reads of a ring.
LEMMA KeptSlots ==
    ASSUME NEW a \in Account
    PROVE  LET start == IF a.ntran > TRANS_KEEP THEN a.ntran - TRANS_KEEP ELSE 0
           IN  /\ start \in Nat
               /\ Len(Kept(a)) = Lesser(TRANS_KEEP, a.ntran)
               /\ a.ntran = start + Len(Kept(a))
               /\ \A k \in 1 .. Len(Kept(a)) : Kept(a)[k] = a.last[(start + k - 1) % TRANS_KEEP]
<1> DEFINE start == IF a.ntran > TRANS_KEEP THEN a.ntran - TRANS_KEEP ELSE 0
           n == a.ntran - start
<1>1. start \in Nat /\ n \in Nat /\ n = Lesser(TRANS_KEEP, a.ntran) /\ a.ntran = start + n
  BY BankAssumption DEF Account, Lesser
<1>2. Kept(a) = [k \in 1 .. n |-> a.last[(start + k - 1) % TRANS_KEEP]]
  BY DEF Kept
<1> HIDE DEF n, start
<1>3. /\ Len(Kept(a)) = n
      /\ \A k \in 1 .. n : Kept(a)[k] = a.last[(start + k - 1) % TRANS_KEEP]
  <2>1. Kept(a) \in Seq(Tran) /\ DOMAIN Kept(a) = 1 .. n
    BY <1>2, KeptType
  <2>2. Len(Kept(a)) = n
    BY <1>1, <2>1
  <2>. QED  BY <1>2, <2>2
<1>. QED  BY <1>1, <1>3 DEF start

\* A save and a load bring the kept transactions back, though not into their
\* slots once the ring has wrapped.
LEMMA RestartRing ==
    ASSUME NEW a \in Account, NEW s \in History, a.ntran = Len(s), NEW r, InRing(a, s, r)
    PROVE  InRing(LoadedAccount(AccountJson(a)), s, Len(s))
<1> DEFINE n == Len(s)
           K == TRANS_KEEP
           start == IF a.ntran > K THEN a.ntran - K ELSE 0
           t == Kept(a)
           b == LoadedAccount(AccountJson(a))
<1>1. n \in Nat /\ K \in Nat \ {0} /\ n \in 0 .. n
  BY LastType, BankAssumption
<1>2. /\ start \in Nat /\ Len(t) = Lesser(K, n) /\ n = start + Len(t)
      /\ \A k \in 1 .. Len(t) : t[k] = a.last[(start + k - 1) % K]
  BY KeptSlots
<1>3. n <= K => start = 0
  BY <1>1
<1>4. b.last = [k \in Ring |-> IF k < Len(t) THEN t[k + 1] ELSE ZeroTran]
  BY DEF LoadedAccount, AccountJson
<1>5. /\ r \in 0 .. n
      /\ \A k \in 0 .. InPlace(n, r) - 1 : a.last[(n - 1 - k) % K] = AsTran(s[n - k])
      /\ \A k \in Ring : k < n => \E j \in 1 .. n : a.last[k] = AsTran(s[j])
  BY DEF InRing
<1> HIDE DEF start, t, b, n
<1>6. ASSUME NEW k \in Ring, k < n
      PROVE  /\ b.last[k] = a.last[(start + k) % K]
             /\ (start + k) % K \in Ring /\ (start + k) % K < n
             /\ n <= K => b.last[k] = a.last[k]
  <2>1. k \in Nat /\ k < K /\ k < Len(t) /\ k + 1 \in 1 .. Len(t) /\ start + (k + 1) - 1 = start + k
    BY <1>1, <1>2, <1>6 DEF Ring, Lesser
  <2>2. b.last[k] = a.last[(start + k) % K]
    BY <1>2, <1>4, <2>1
  <2>3. start + k \in Int /\ (start + k) % K \in 0 .. K - 1
    <3>1. start + k \in Int
      BY <1>2, <2>1
    <3>. QED  BY <1>1, <3>1, ModRange
  <2>4. n <= K => (start + k) % K = k
    <3>1. k \in 0 .. K - 1
      BY <1>1, <2>1
    <3>2. ASSUME n <= K PROVE start + k = k
      BY <1>3, <2>1, <3>2
    <3>. QED  BY <1>1, <3>1, <3>2, ModSmall
  <2>5. (start + k) % K < n
    BY <1>1, <1>6, <2>1, <2>3, <2>4
  <2>. QED  BY <2>2, <2>3, <2>4, <2>5 DEF Ring
<1>7. ASSUME NEW k \in 0 .. InPlace(n, n) - 1
      PROVE  b.last[(n - 1 - k) % K] = AsTran(s[n - k])
  <2>1. n <= K /\ InPlace(n, n) = n /\ InPlace(n, r) = n
    <3>1. /\ n <= K => InPlace(n, n) = n /\ InPlace(n, r) = n
          /\ n > K => InPlace(n, n) = 0
      BY <1>1, <1>5, InPlaceFacts
    <3>2. ~ n > K
      BY <1>7, <3>1
    <3>. QED  BY <1>1, <3>1, <3>2
  <2>2. n - 1 - k \in 0 .. K - 1 /\ n - 1 - k < n
    BY <1>1, <2>1
  <2>3. (n - 1 - k) % K = n - 1 - k
    BY <1>1, <2>2, ModSmall
  <2>4. a.last[(n - 1 - k) % K] = AsTran(s[n - k])
    BY <1>5, <2>1
  <2>. QED  BY <1>6, <2>1, <2>2, <2>3, <2>4 DEF Ring
<1>8. InRing(b, s, n)
  BY <1>1, <1>5, <1>6, <1>7 DEF InRing, n
<1>. QED  BY <1>8 DEF b, n


-----------------------------------------------------------------------------
(* Each operation keeps the rings.                                         *)

\* The accounts of a bank and their histories.
LEMMA SoundFacts ==
    ASSUME NEW h, NEW hs, Sound(h, hs), NEW i \in LiveSlots(h)
    PROVE  /\ h.bank[i] \in Account /\ h.bank[i].number \in DOMAIN hs
           /\ hs[h.bank[i].number] \in History
           /\ Accounted(h.bank[i], hs[h.bank[i].number])
           /\ h.bank[i].ntran = Len(hs[h.bank[i].number])
<1>1. h.bank[i].number \in DOMAIN hs
  BY DEF Sound, NumbersOf
<1>2. h.bank[i] \in Account
  BY SlotBelow DEF Sound, Heap
<1>. QED  BY <1>1, <1>2 DEF Sound, Accounted

\* A restart from what has been saved.
LEMMA LoadRings ==
    ASSUME NEW h, NEW hs, Sound(h, hs), NEW rs, Rings(h, hs, rs)
    PROVE  Rings(Loaded(Image(h)), hs, Lengths(hs))
<1> DEFINE g == Loaded(Image(h))
           n == h.accounts_in_use
           f == [k \in 1 .. n |-> AccountJson(h.bank[k - 1])]
<1>1. n \in Nat /\ n <= MAX_ACCTS /\ MAX_ACCTS \in Nat
  BY BankAssumption DEF Sound, Heap
<1>2. Image(h) \in File /\ Len(f) = n /\ Image(h).kind = "whole" /\ Image(h).accounts = f
  <2>1. Image(h) \in File /\ Image(h).kind = "whole" /\ Len(Image(h).accounts) = n
    BY ImageLoads DEF Sound
  <2>. QED  BY <2>1 DEF Image
<1> HIDE DEF f
<1>3. g = [bank |-> [i \in Slots |-> IF i < n THEN LoadedAccount(f[i + 1]) ELSE ZeroAccount],
           accounts_in_use |-> n, next_number |-> Image(h).next_number]
  BY <1>2 DEF Loaded
<1>4. LiveSlots(g) = LiveSlots(h)
  BY <1>3 DEF LiveSlots
<1>5. ASSUME NEW i \in LiveSlots(h)
      PROVE  g.bank[i] = LoadedAccount(AccountJson(h.bank[i]))
  <2>1. i \in Slots /\ i < n /\ i + 1 \in 1 .. n /\ (i + 1) - 1 = i
    BY <1>1 DEF LiveSlots, Slots
  <2>2. \A k \in 1 .. n : f[k] = AccountJson(h.bank[k - 1])
    BY DEF f
  <2>3. f[i + 1] = AccountJson(h.bank[i])
    <3>1. f[i + 1] = AccountJson(h.bank[(i + 1) - 1])
      BY <2>1, <2>2
    <3>. QED  BY <2>1, <3>1
  <2>. QED  BY <1>3, <2>1, <2>3
<1> HIDE DEF g
<1>6. ASSUME NEW i \in LiveSlots(h)
      PROVE  InRing(g.bank[i], hs[g.bank[i].number], Lengths(hs)[g.bank[i].number])
  <2> DEFINE no == h.bank[i].number
  <2>1. /\ h.bank[i] \in Account /\ no \in DOMAIN hs /\ hs[no] \in History
        /\ h.bank[i].ntran = Len(hs[no])
    BY SoundFacts
  <2>2. InRing(h.bank[i], hs[no], rs[no])
    BY DEF Rings
  <2>3. InRing(g.bank[i], hs[no], Len(hs[no]))
    BY <1>5, <2>1, <2>2, RestartRing
  <2>4. g.bank[i].number = no
    <3>1. LoadedAccount(AccountJson(h.bank[i])).number = AccountJson(h.bank[i]).number
      BY DEF LoadedAccount
    <3>2. AccountJson(h.bank[i]).number = no
      BY DEF AccountJson
    <3>. QED  BY <1>5, <3>1, <3>2
  <2>5. Lengths(hs)[no] = Len(hs[no])
    BY <2>1 DEF Lengths
  <2>. QED  BY <2>3, <2>4, <2>5
<1>. QED  BY <1>4, <1>6 DEF Rings, g

WithZero(rs, no) == [n \in DOMAIN rs \cup {no} |-> IF n = no THEN 0 ELSE rs[n]]

\* A new account has a ring of its own.
LEMMA OpenRings ==
    ASSUME NEW h, NEW hs, Sound(h, hs), NEW rs, Rings(h, hs, rs), DOMAIN rs = DOMAIN hs,
           OpenStatus(h) = "OK", NEW name \in Names, NEW pin \in Pins
    PROVE  Rings(Opened(h, name, pin), WithNumber(hs, h.next_number),
                 WithZero(rs, h.next_number))
<1> DEFINE g == Opened(h, name, pin)
           n == h.accounts_in_use
           no == h.next_number
<1>1. h \in Heap
  BY DEF Sound
<1>2. /\ LiveSlots(g) = LiveSlots(h) \cup {n}
      /\ \A i \in LiveSlots(h) : g.bank[i] = h.bank[i]
      /\ g.bank[n].number = no
  BY <1>1, OpenedFields
<1>3. InRing(g.bank[n], Opening, 0)
  BY <1>1, OpeningRing
<1> HIDE DEF g
<1>4. WithNumber(hs, no)[no] = Opening /\ WithZero(rs, no)[no] = 0
  BY DEF WithNumber, WithZero
<1>5. ASSUME NEW i \in LiveSlots(h)
      PROVE  /\ WithNumber(hs, no)[h.bank[i].number] = hs[h.bank[i].number]
             /\ WithZero(rs, no)[h.bank[i].number] = rs[h.bank[i].number]
  <2>1. h.bank[i].number \in DOMAIN hs /\ h.bank[i].number # no
    BY <1>1, SoundFacts DEF Sound, Account, Heap
  <2>. QED  BY <2>1 DEF WithNumber, WithZero
<1>6. ASSUME NEW i \in LiveSlots(g)
      PROVE  InRing(g.bank[i], WithNumber(hs, no)[g.bank[i].number],
                    WithZero(rs, no)[g.bank[i].number])
  <2>1. CASE i = n
    BY <2>1, <1>2, <1>3, <1>4
  <2>2. CASE i \in LiveSlots(h)
    BY <2>2, <1>2, <1>5 DEF Rings
  <2>. QED  BY <2>1, <2>2, <1>2
<1>. QED  BY <1>6 DEF Rings, g

\* The account that moves into the gap takes its ring along.
LEMMA CloseRings ==
    ASSUME NEW h, NEW hs, Sound(h, hs), NEW rs, Rings(h, hs, rs), DOMAIN rs = DOMAIN hs,
           NEW i \in LiveSlots(h)
    PROVE  LET no == h.bank[i].number
           IN  Rings(Closed(h, i), Without(hs, no), Without(rs, no))
<1> DEFINE g == Closed(h, i)
           n == h.accounts_in_use - 1
           no == h.bank[i].number
<1>1. /\ n \in LiveSlots(h)
      /\ LiveSlots(g) = LiveSlots(h) \ {n}
      /\ \A j \in LiveSlots(g) : g.bank[j] = IF j = i THEN h.bank[n] ELSE h.bank[j]
  BY ClosedFields DEF Sound
<1> HIDE DEF g, n
<1>2. ASSUME NEW j \in LiveSlots(g)
      PROVE  InRing(g.bank[j], Without(hs, no)[g.bank[j].number],
                    Without(rs, no)[g.bank[j].number])
  <2>1. PICK m \in LiveSlots(h) : g.bank[j] = h.bank[m] /\ m # i
    BY <1>1
  <2>2. h.bank[m].number \in DOMAIN hs /\ h.bank[m].number # no
    BY <2>1, SoundFacts DEF Sound, Distinct
  <2>3. /\ Without(hs, no)[h.bank[m].number] = hs[h.bank[m].number]
        /\ Without(rs, no)[h.bank[m].number] = rs[h.bank[m].number]
    BY <2>2 DEF Without
  <2>. QED  BY <2>1, <2>3 DEF Rings
<1>. QED  BY <1>2 DEF Rings, g

\* A posting changes one ring, with its history.
LEMMA PostRings ==
    ASSUME NEW h, NEW hs, Sound(h, hs), NEW rs, Rings(h, hs, rs),
           NEW i \in LiveSlots(h), NEW b, b.number = h.bank[i].number,
           NEW s, InRing(b, s, rs[b.number])
    PROVE  Rings(Put(h, i, b), [hs EXCEPT ![h.bank[i].number] = s], rs)
<1> DEFINE g == Put(h, i, b)
           no == h.bank[i].number
           gs == [hs EXCEPT ![no] = s]
<1>1. /\ LiveSlots(g) = LiveSlots(h)
      /\ \A j \in LiveSlots(h) : g.bank[j] = IF j = i THEN b ELSE h.bank[j]
  BY PutFields DEF Sound
<1> HIDE DEF g
<1>2. ASSUME NEW j \in LiveSlots(h)
      PROVE  InRing(g.bank[j], gs[g.bank[j].number], rs[g.bank[j].number])
  <2>1. CASE j = i
    <3>1. gs[no] = s
      BY SoundFacts
    <3>. QED  BY <2>1, <3>1, <1>1
  <2>2. CASE j # i
    <3>1. h.bank[j].number # no /\ h.bank[j].number \in DOMAIN hs
      BY <2>2, SoundFacts DEF Sound, Distinct
    <3>2. gs[h.bank[j].number] = hs[h.bank[j].number]
      BY <3>1
    <3>. QED  BY <2>2, <3>2, <1>1 DEF Rings
  <2>. QED  BY <2>1, <2>2
<1>. QED  BY <1>1, <1>2 DEF Rings, g


-----------------------------------------------------------------------------
(* The accounts by number, as Ledger sees them.                            *)

\* What Ledger knows of the account a.
View(a, hs, rs) ==
    [pin |-> a.pin, name |-> a.name, history |-> hs[a.number], restored |-> rs[a.number]]

BooksOf(h, hs, rs) ==
    [n \in DOMAIN hs |->
        LET a == h.bank[CHOOSE i \in LiveSlots(h) : h.bank[i].number = n]
        IN  [pin |-> a.pin, name |-> a.name, history |-> hs[n], restored |-> rs[n]]]

\* The books are a function of the state.
LEMMA BooksAre ==
    /\ Books = BooksOf(heap, hist, restored)
    /\ Books' = BooksOf(heap', hist', restored')
  BY DEF Books, Entry, BooksOf

\* An account is in the books under its number: there is no other of that number.
LEMMA BooksView ==
    ASSUME NEW h, NEW hs, NEW rs, Sound(h, hs), NEW i \in LiveSlots(h)
    PROVE  /\ h.bank[i].number \in DOMAIN hs
           /\ BooksOf(h, hs, rs)[h.bank[i].number] = View(h.bank[i], hs, rs)
<1> DEFINE no == h.bank[i].number
           j == CHOOSE k \in LiveSlots(h) : h.bank[k].number = no
<1>1. j \in LiveSlots(h) /\ h.bank[j].number = no
  OBVIOUS
<1>2. j = i
  BY <1>1 DEF Sound, Distinct
<1>3. no \in DOMAIN hs
  BY SoundFacts
<1>4. BooksOf(h, hs, rs)[no] = [pin |-> h.bank[j].pin, name |-> h.bank[j].name,
                                history |-> hs[no], restored |-> rs[no]]
  BY <1>3 DEF BooksOf
<1> HIDE DEF j
<1>. QED  BY <1>2, <1>3, <1>4 DEF View

\* A ledger is the books of a bank if it has the bank's accounts.
LEMMA BooksUnique ==
    ASSUME NEW h, NEW hs, NEW rs, Sound(h, hs), NEW B, B = [n \in DOMAIN B |-> B[n]],
           DOMAIN B = DOMAIN hs,
           \A i \in LiveSlots(h) : B[h.bank[i].number] = View(h.bank[i], hs, rs)
    PROVE  BooksOf(h, hs, rs) = B
<1>1. DOMAIN BooksOf(h, hs, rs) = DOMAIN hs
  BY DEF BooksOf
<1>2. ASSUME NEW n \in DOMAIN hs
      PROVE  BooksOf(h, hs, rs)[n] = B[n]
  <2>1. PICK i \in LiveSlots(h) : h.bank[i].number = n
    BY DEF Sound, NumbersOf
  <2>. QED  BY <2>1, BooksView
<1>3. BooksOf(h, hs, rs) = [n \in DOMAIN hs |-> BooksOf(h, hs, rs)[n]]
  BY DEF BooksOf
<1> HIDE DEF BooksOf
<1>. QED  BY <1>2, <1>3

\* There are as many accounts in the books as slots in use.
LEMMA BooksCount ==
    ASSUME NEW h, NEW hs, Sound(h, hs)
    PROVE  Cardinality(DOMAIN hs) = h.accounts_in_use
<1> DEFINE f == [i \in LiveSlots(h) |-> h.bank[i].number]
<1>1. f \in Bijection(LiveSlots(h), NumbersOf(h))
  <2>1. f \in [LiveSlots(h) -> NumbersOf(h)]
    BY DEF NumbersOf
  <2>2. \A i, j \in LiveSlots(h) : f[i] = f[j] => i = j
    BY DEF Sound, Distinct
  <2>3. \A n \in NumbersOf(h) : \E i \in LiveSlots(h) : f[i] = n
    BY DEF NumbersOf
  <2> HIDE DEF f
  <2>. QED  BY <2>1, <2>2, <2>3 DEF Bijection, Injection, Surjection, IsInjective
<1>2. h.accounts_in_use \in Nat
  BY BankAssumption DEF Sound, Heap
<1>3. IsFiniteSet(LiveSlots(h)) /\ Cardinality(LiveSlots(h)) = h.accounts_in_use
  <2> DEFINE m == h.accounts_in_use
  <2>1. m \in Nat /\ 0 \in Int /\ m - 1 \in Int /\ LiveSlots(h) = 0 .. m - 1
    BY <1>2 DEF LiveSlots
  <2> HIDE DEF m
  <2>2. /\ IsFiniteSet(0 .. m - 1)
        /\ Cardinality(0 .. m - 1) = IF 0 > m - 1 THEN 0 ELSE (m - 1) - 0 + 1
    BY <2>1, FS_Interval
  <2>3. Cardinality(0 .. m - 1) = m
    BY <2>1, <2>2
  <2>. QED  BY <2>1, <2>2, <2>3 DEF m
<1>4. Cardinality(NumbersOf(h)) = Cardinality(LiveSlots(h))
  BY <1>1, <1>3, FS_Bijection DEF ExistsBijection
<1>. QED  BY <1>3, <1>4 DEF Sound

-----------------------------------------------------------------------------
(* The verdicts of Ledger are the statuses of the operations.              *)

\* A client is known to the ledger if the lookup finds an account.
LEMMA Known ==
    ASSUME IInv, NEW r
    PROVE  Promise!Authentic(r) <=> AuthStatus(heap, r.account_number, r.pin) = "OK"
<1> DEFINE no == r.account_number
<1>1. Sound(heap, hist) /\ DOMAIN Books = DOMAIN hist /\ heap \in Heap
  BY DEF IInv, Books, Sound
<1>2. ASSUME Promise!Authentic(r)
      PROVE  AuthStatus(heap, no, r.pin) = "OK"
  <2>1. no \in DOMAIN Books /\ Books[no].pin = r.pin
    BY <1>2 DEF Promise!Authentic
  <2>2. PICK i \in LiveSlots(heap) : heap.bank[i].number = no
    BY <1>1, <2>1 DEF Sound, NumbersOf
  <2>3. Books[no] = View(heap.bank[i], hist, restored)
    BY <1>1, <2>2, BooksAre, BooksView
  <2>4. heap.bank[i].pin = r.pin
    BY <2>1, <2>3 DEF View
  <2>. QED  BY <2>2, <2>4 DEF AuthStatus, Matches
<1>3. ASSUME AuthStatus(heap, no, r.pin) = "OK"
      PROVE  Promise!Authentic(r)
  <2> DEFINE i == Found(heap, no, r.pin)
  <2>1. i \in LiveSlots(heap) /\ heap.bank[i].number = no /\ heap.bank[i].pin = r.pin
    BY <1>1, <1>3, FoundMatches
  <2> HIDE DEF i
  <2>2. no \in DOMAIN hist /\ Books[no] = View(heap.bank[i], hist, restored)
    BY <1>1, <2>1, BooksAre, BooksView
  <2>. QED  BY <1>1, <2>1, <2>2 DEF Promise!Authentic, View
<1>. QED  BY <1>2, <1>3

\* The account an authentic request is about.
LEMMA FoundView ==
    ASSUME IInv, NEW no, NEW pin, AuthStatus(heap, no, pin) = "OK"
    PROVE  LET i == Found(heap, no, pin)
               a == heap.bank[i]
           IN  /\ i \in LiveSlots(heap) /\ a \in Account /\ a.number = no /\ a.pin = pin
               /\ no \in DOMAIN hist /\ hist[no] \in History /\ Accounted(a, hist[no])
               /\ Books[no] = View(a, hist, restored)
               /\ Promise!Exact(Books[no]) = Last(hist[no])
<1> DEFINE i == Found(heap, no, pin)
           a == heap.bank[i]
<1>1. Sound(heap, hist) /\ heap \in Heap
  BY DEF IInv, Sound
<1>2. i \in LiveSlots(heap) /\ a.number = no /\ a.pin = pin
  BY <1>1, FoundMatches
<1> HIDE DEF i
<1>3. /\ a \in Account /\ no \in DOMAIN hist /\ hist[no] \in History
      /\ Accounted(a, hist[no]) /\ Books[no] = View(a, hist, restored)
  BY <1>1, <1>2, SoundFacts, BooksAre, BooksView
<1>4. Promise!Exact(Books[no]) = Last(hist[no])
  BY <1>2, <1>3 DEF Promise!Exact, Last, View
<1>. QED  BY <1>2, <1>3, <1>4 DEF i

\* Ledger turns down what the operations turn down, for the same reason.
LEMMA Verdicts ==
    ASSUME IInv, NEW r, r.amount \in CInt
    PROVE  LET no == r.account_number
           IN  /\ r.command = "OPEN" => Promise!Verdict(r) = OpenStatus(heap)
               /\ r.command \in {"CLOSE", "BALANCE", "STATEMENT"}
                      => Promise!Verdict(r) = AuthStatus(heap, no, r.pin)
               /\ r.command = "DEPOSIT"
                      => Promise!Verdict(r) = DepositStatus(heap, no, r.pin, r.amount)
               /\ r.command = "WITHDRAW"
                      => Promise!Verdict(r) = WithdrawStatus(heap, no, r.pin, r.amount)
               /\ r.command = "QUIT" => Promise!Verdict(r) = "OK"
               /\ r.command = "UNKNOWN" => Promise!Verdict(r) = "ERROR"
<1> DEFINE no == r.account_number
           auth == IF Promise!Authentic(r) THEN "OK" ELSE "ERROR"
<1>1. AuthStatus(heap, no, r.pin) = auth
  BY Known DEF AuthStatus
<1>2. ASSUME r.command = "OPEN" PROVE Promise!Verdict(r) = OpenStatus(heap)
  <2>1. Promise!Cardinality(DOMAIN Books) = heap.accounts_in_use
    BY SameCardinality, BooksCount DEF IInv, Books
  <2>2. heap.accounts_in_use \in Nat /\ MAX_ACCTS \in Nat
    BY BankAssumption DEF IInv, Sound, Heap
  <2>3. Promise!Verdict(r) = IF heap.accounts_in_use < MAX_ACCTS THEN "OK" ELSE "ERROR"
    BY <1>2, <2>1 DEF Promise!Verdict
  <2>. QED  BY <2>2, <2>3 DEF OpenStatus
<1>3. ASSUME r.command \in {"CLOSE", "BALANCE", "STATEMENT"}
      PROVE  Promise!Verdict(r) = AuthStatus(heap, no, r.pin)
  BY <1>1, <1>3 DEF Promise!Verdict
<1>4. ASSUME r.command = "DEPOSIT"
      PROVE  Promise!Verdict(r) = DepositStatus(heap, no, r.pin, r.amount)
  BY <1>1, <1>4 DEF Promise!Verdict, DepositStatus
<1>5. ASSUME r.command = "WITHDRAW"
      PROVE  Promise!Verdict(r) = WithdrawStatus(heap, no, r.pin, r.amount)
  <2> DEFINE bad == r.amount < MIN_WITHDRAW \/ r.amount % MIN_WITHDRAW # 0
  <2>1. CASE bad
    BY <1>5, <2>1 DEF Promise!Verdict, WithdrawStatus
  <2>2. CASE ~bad /\ ~Promise!Authentic(r)
    <3>1. Matches(heap, no, r.pin) = {}
      BY <1>1, <2>2 DEF AuthStatus
    <3>. QED  BY <1>5, <2>2, <3>1 DEF Promise!Verdict, WithdrawStatus
  <2>3. CASE ~bad /\ Promise!Authentic(r)
    <3> DEFINE bal == heap.bank[Found(heap, no, r.pin)].balance
               now == Promise!Exact(Books[no])
    <3>1. Matches(heap, no, r.pin) # {} /\ AuthStatus(heap, no, r.pin) = "OK"
      BY <1>1, <2>3 DEF AuthStatus
    <3>2. bal = Wrap(now) /\ now \in Int /\ r.amount \in Int
      BY <3>1, FoundView, LastType, BankAssumption DEF Accounted, CInt
    <3> HIDE DEF bal, now
    <3>3. Promise!Wrap(now - r.amount) = Wrap(bal - r.amount)
      <4>1. Wrap(now) \in Int
        BY <3>2, WrapType, BankAssumption DEF CInt
      <4>2. now - r.amount = now + (-r.amount) /\ bal - r.amount = Wrap(now) + (-r.amount)
            /\ -r.amount \in Int
        BY <3>2, <4>1
      <4>. QED  BY <3>2, <4>2, WrapShift, SameWords
    <3>4. Promise!Verdict(r) = IF Promise!Wrap(now - r.amount) < MIN_BALANCE
                               THEN "MIN_AMT" ELSE "OK"
      BY <1>5, <2>3 DEF Promise!Verdict, now
    <3>5. WithdrawStatus(heap, no, r.pin, r.amount) =
              IF Wrap(bal - r.amount) < MIN_BALANCE THEN "MIN_AMT" ELSE "OK"
      BY <2>3, <3>1 DEF WithdrawStatus, bal
    <3>. QED  BY <3>3, <3>4, <3>5
  <2>. QED  BY <2>1, <2>2, <2>3
<1>6. r.command = "QUIT" => Promise!Verdict(r) = "OK"
  BY DEF Promise!Verdict
<1>7. r.command = "UNKNOWN" => Promise!Verdict(r) = "ERROR"
  BY DEF Promise!Verdict
<1>. QED  BY <1>2, <1>3, <1>4, <1>5, <1>6, <1>7


-----------------------------------------------------------------------------
(* What each operation makes of the books.                                 *)

Book == [pin : Nat, name : Names \cup {Blank}, history : History, restored : Nat]

\* The books are a function to entries.
LEMMA BooksType ==
    ASSUME NEW h, NEW hs, NEW rs, Sound(h, hs), Rings(h, hs, rs)
    PROVE  BooksOf(h, hs, rs) \in [DOMAIN hs -> Book]
<1>1. ASSUME NEW n \in DOMAIN hs
      PROVE  BooksOf(h, hs, rs)[n] \in Book
  <2>1. PICK i \in LiveSlots(h) : h.bank[i].number = n
    BY DEF Sound, NumbersOf
  <2>2. h.bank[i] \in Account /\ hs[n] \in History
    BY <2>1, SoundFacts
  <2>3. rs[n] \in Nat
    BY <2>1, <2>2, LastType DEF Rings, InRing
  <2>4. BooksOf(h, hs, rs)[n] = View(h.bank[i], hs, rs)
    BY <2>1, BooksView
  <2>. QED  BY <2>1, <2>2, <2>3, <2>4 DEF View, Book, Account
<1>2. BooksOf(h, hs, rs) = [n \in DOMAIN hs |-> BooksOf(h, hs, rs)[n]]
  BY DEF BooksOf
<1> HIDE DEF BooksOf
<1>. QED  BY <1>1, <1>2

\* An opened account is a new book.
LEMMA OpenBooks ==
    ASSUME NEW h, NEW hs, NEW rs, Sound(h, hs), DOMAIN rs = DOMAIN hs,
           OpenStatus(h) = "OK", NEW name \in Names, NEW pin \in Pins
    PROVE  LET no == h.next_number
               B  == BooksOf(h, hs, rs)
           IN  BooksOf(Opened(h, name, pin), WithNumber(hs, no), WithZero(rs, no)) =
                 [n \in DOMAIN B \cup {no} |->
                     IF n = no THEN [pin |-> pin, name |-> name, restored |-> 0,
                                     history |-> Opening]
                     ELSE B[n]]
<1> DEFINE g == Opened(h, name, pin)
           k == h.accounts_in_use
           no == h.next_number
           B == BooksOf(h, hs, rs)
           C == [n \in DOMAIN B \cup {no} |->
                     IF n = no THEN [pin |-> pin, name |-> name, restored |-> 0,
                                     history |-> Opening]
                     ELSE B[n]]
           gs == WithNumber(hs, no)
           ss == WithZero(rs, no)
<1>1. h \in Heap /\ Sound(g, gs)
  BY OpenSound DEF Sound
<1>2. /\ LiveSlots(g) = LiveSlots(h) \cup {k}
      /\ \A i \in LiveSlots(h) : g.bank[i] = h.bank[i]
      /\ g.bank[k].number = no /\ g.bank[k].pin = pin /\ g.bank[k].name = name
  BY <1>1, OpenedFields
<1> HIDE DEF g
<1>3. DOMAIN B = DOMAIN hs /\ DOMAIN C = DOMAIN gs
  BY DEF BooksOf, WithNumber
<1>4. C[no] = View(g.bank[k], gs, ss)
  <2>1. gs[no] = Opening /\ ss[no] = 0
    BY DEF WithNumber, WithZero
  <2>. QED  BY <1>2, <2>1 DEF View
<1>5. ASSUME NEW i \in LiveSlots(h)
      PROVE  C[g.bank[i].number] = View(g.bank[i], gs, ss)
  <2> DEFINE m == h.bank[i].number
  <2>1. m \in DOMAIN hs /\ m # no /\ B[m] = View(h.bank[i], hs, rs)
    <3>1. m \in DOMAIN hs /\ B[m] = View(h.bank[i], hs, rs)
      BY SoundFacts, BooksView
    <3>2. m < no /\ m \in Nat
      BY <1>1, SoundFacts DEF Sound, Account
    <3>3. no \in Nat
      BY <1>1 DEF Heap
    <3>. QED  BY <3>1, <3>2, <3>3
  <2>2. gs[m] = hs[m] /\ ss[m] = rs[m]
    BY <2>1 DEF WithNumber, WithZero
  <2> HIDE DEF B
  <2>3. C[m] = B[m]
    BY <1>3, <2>1
  <2>. QED  BY <1>2, <2>1, <2>2, <2>3 DEF View
<1>6. C = [n \in DOMAIN C |-> C[n]]
  OBVIOUS
<1> HIDE DEF C, gs, ss
<1>7. BooksOf(g, gs, ss) = C
  BY <1>1, <1>2, <1>3, <1>4, <1>5, <1>6, BooksUnique DEF g
<1>. QED  BY <1>7 DEF C, gs, ss, g

\* A closed account is struck off.
LEMMA CloseBooks ==
    ASSUME NEW h, NEW hs, NEW rs, Sound(h, hs), DOMAIN rs = DOMAIN hs, NEW i \in LiveSlots(h)
    PROVE  LET no == h.bank[i].number
           IN  BooksOf(Closed(h, i), Without(hs, no), Without(rs, no)) =
                 Without(BooksOf(h, hs, rs), no)
<1> DEFINE g == Closed(h, i)
           k == h.accounts_in_use - 1
           no == h.bank[i].number
           B == BooksOf(h, hs, rs)
           C == [n \in DOMAIN B \ {no} |-> B[n]]
           gs == Without(hs, no)
           ss == Without(rs, no)
<1>1. h \in Heap /\ Sound(g, gs)
  BY CloseSound DEF Sound
<1>2. /\ k \in LiveSlots(h)
      /\ LiveSlots(g) = LiveSlots(h) \ {k}
      /\ \A j \in LiveSlots(g) : g.bank[j] = IF j = i THEN h.bank[k] ELSE h.bank[j]
  BY <1>1, ClosedFields
<1> HIDE DEF g, k
<1>3. DOMAIN B = DOMAIN hs /\ DOMAIN C = DOMAIN gs
  BY DEF BooksOf, Without
<1>4. ASSUME NEW j \in LiveSlots(g)
      PROVE  C[g.bank[j].number] = View(g.bank[j], gs, ss)
  <2>1. PICK m \in LiveSlots(h) : g.bank[j] = h.bank[m] /\ m # i
    BY <1>2
  <2> DEFINE n == h.bank[m].number
  <2>2. n \in DOMAIN hs /\ n # no /\ B[n] = View(h.bank[m], hs, rs)
    BY <2>1, SoundFacts, BooksView DEF Sound, Distinct
  <2>3. gs[n] = hs[n] /\ ss[n] = rs[n]
    BY <2>2 DEF Without
  <2> HIDE DEF B
  <2>4. C[n] = B[n]
    BY <1>3, <2>2
  <2>. QED  BY <2>1, <2>2, <2>3, <2>4 DEF View
<1>5. C = [n \in DOMAIN C |-> C[n]]
  OBVIOUS
<1> HIDE DEF C, gs, ss
<1>6. BooksOf(g, gs, ss) = C
  BY <1>1, <1>3, <1>4, <1>5, BooksUnique
<1>7. C = Without(B, no)
  BY DEF C, Without
<1>. QED  BY <1>6, <1>7 DEF gs, ss, g

WithHistory(B, no, s) == [B EXCEPT ![no].history = s]

\* A posting lengthens the history in one book.
LEMMA PostBooks ==
    ASSUME NEW h, NEW hs, NEW rs, Sound(h, hs), Rings(h, hs, rs),
           NEW i \in LiveSlots(h), NEW no, no = h.bank[i].number,
           NEW b \in Account, b.number = no, b.pin = h.bank[i].pin, b.name = h.bank[i].name,
           NEW s \in History, NEW gs, gs[no] = s,
           DOMAIN gs = DOMAIN hs, \A n \in DOMAIN hs : n # no => gs[n] = hs[n],
           NEW g, g = Put(h, i, b), Sound(g, gs)
    PROVE  BooksOf(g, gs, rs) = WithHistory(BooksOf(h, hs, rs), no, s)
<1> DEFINE B == BooksOf(h, hs, rs)
           C == [B EXCEPT ![no].history = s]
<1>1. /\ LiveSlots(g) = LiveSlots(h)
      /\ \A j \in LiveSlots(h) : g.bank[j] = IF j = i THEN b ELSE h.bank[j]
      /\ Sound(g, gs)
  BY PutFields DEF Sound
<1>2. /\ no \in DOMAIN hs /\ B \in [DOMAIN hs -> Book]
      /\ B[no] = View(h.bank[i], hs, rs)
  BY SoundFacts, BooksView, BooksType
<1> HIDE DEF B
<1>3. [B[no] EXCEPT !.history = s] = View(b, gs, rs)
  <2>1. B[no] \in Book /\ gs[no] = s
    BY <1>2
  <2>2. [B[no] EXCEPT !.history = s] =
          [pin |-> B[no].pin, name |-> B[no].name, history |-> s, restored |-> B[no].restored]
    BY <2>1 DEF Book
  <2>. QED  BY <1>2, <2>1, <2>2 DEF View
<1>4. /\ DOMAIN C = DOMAIN gs /\ C = [n \in DOMAIN C |-> C[n]]
      /\ \A n \in DOMAIN hs : C[n] = IF n = no THEN View(b, gs, rs) ELSE B[n]
  <2> DEFINE e == [B[no] EXCEPT !.history = s]
  <2>1. C = [B EXCEPT ![no] = e] /\ e = View(b, gs, rs)
    BY <1>3
  <2> HIDE DEF e
  <2>. QED  BY <1>2, <2>1
<1> HIDE DEF C
<1>5. ASSUME NEW j \in LiveSlots(g)
      PROVE  C[g.bank[j].number] = View(g.bank[j], gs, rs)
  <2>1. CASE j = i
    BY <1>1, <1>2, <1>4, <2>1
  <2>2. CASE j # i
    <3>1. g.bank[j] = h.bank[j] /\ j \in LiveSlots(h)
      BY <1>1, <2>2
    <3>2. /\ h.bank[j].number \in DOMAIN hs /\ h.bank[j].number # no
          /\ B[h.bank[j].number] = View(h.bank[j], hs, rs)
      <4>1. h.bank[j].number \in DOMAIN hs /\ B[h.bank[j].number] = View(h.bank[j], hs, rs)
        BY <3>1, BooksView DEF B
      <4>2. h.bank[j].number # no
        BY <2>2, <3>1 DEF Sound, Distinct
      <4>. QED  BY <4>1, <4>2
    <3>3. gs[h.bank[j].number] = hs[h.bank[j].number]
      BY <3>2
    <3>. QED  BY <1>4, <3>1, <3>2, <3>3 DEF View
  <2>. QED  BY <2>1, <2>2
<1>6. BooksOf(g, gs, rs) = C
  BY ONLY <1>1, <1>4, <1>5, BooksUnique
<1>7. C = WithHistory(B, no, s)
  BY DEF C, WithHistory
<1>. QED  BY <1>6, <1>7 DEF B

Noted(B) == [n \in DOMAIN B |-> [B[n] EXCEPT !.restored = Len(B[n].history)]]

\* A restart notes in every book how long its history is, and changes nothing
\* else: whatever slots the file puts the accounts back in.
LEMMA StartBooks ==
    ASSUME NEW h, NEW hs, NEW rs, Sound(h, hs), Rings(h, hs, rs),
           NEW f \in File, Agrees(f, h)
    PROVE  BooksOf(Loaded(f), hs, Lengths(hs)) = Noted(BooksOf(h, hs, rs))
<1> DEFINE g == Loaded(f)
           B == BooksOf(h, hs, rs)
           C == [n \in DOMAIN B |-> [B[n] EXCEPT !.restored = Len(B[n].history)]]
           ls == Lengths(hs)
<1>1. /\ Sound(g, hs) /\ LiveSlots(g) = LiveSlots(h)
      /\ \A i \in LiveSlots(h) : SameFields(g.bank[i], h.bank[i])
  BY LoadSound, LoadedAgrees DEF Sound, LiveSlots
<1> HIDE DEF g
<1>2. B \in [DOMAIN hs -> Book]
  BY BooksType
<1>3. ASSUME NEW i \in LiveSlots(h)
      PROVE  C[g.bank[i].number] = View(g.bank[i], hs, ls)
  <2> DEFINE n == h.bank[i].number
  <2>1. n \in DOMAIN hs /\ B[n] = View(h.bank[i], hs, rs)
    BY SoundFacts, BooksView
  <2> HIDE DEF B
  <2>2. C[n] = [B[n] EXCEPT !.restored = Len(B[n].history)]
    BY <1>2, <2>1
  <2>3. B[n] \in Book
    BY <1>2, <2>1
  <2>4. C[n] = [pin |-> B[n].pin, name |-> B[n].name, history |-> B[n].history,
                restored |-> Len(B[n].history)]
    BY <2>2, <2>3 DEF Book
  <2>5. ls[n] = Len(hs[n])
    BY <2>1 DEF Lengths
  <2> HIDE DEF C, ls
  <2>. QED  BY <1>1, <2>1, <2>4, <2>5 DEF View, SameFields
<1>4. DOMAIN C = DOMAIN hs /\ C = [n \in DOMAIN C |-> C[n]]
  BY <1>2
<1> HIDE DEF C, ls
<1>5. BooksOf(g, hs, ls) = C
  BY <1>1, <1>3, <1>4, BooksUnique
<1>6. C = Noted(B)
  BY DEF C, Noted
<1>. QED  BY <1>5, <1>6 DEF ls, g


-----------------------------------------------------------------------------
(* Steps.                                                                  *)

\* What statement reads of a ring is a statement in the sense of Ledger.
LEMMA StatementKept ==
    ASSUME NEW a \in Account, NEW s \in History, a.ntran = Len(s), NEW r, InRing(a, s, r),
           NEW b, b.history = s, b.restored = r
    PROVE  Promise!IsStatement(Kept(a), b)
<1> DEFINE n == Len(s)
           K == TRANS_KEEP
           start == IF a.ntran > K THEN a.ntran - K ELSE 0
           t == Kept(a)
           l == Len(t)
<1>1. n \in Nat /\ K \in Nat \ {0}
  BY LastType, BankAssumption
<1>2. /\ start \in Nat /\ l = Lesser(K, n) /\ n = start + l
      /\ \A k \in 1 .. l : t[k] = a.last[(start + k - 1) % K]
  BY KeptSlots
<1>3. n <= K => start = 0
  BY <1>1
<1>4. /\ r \in 0 .. n
      /\ \A k \in 0 .. InPlace(n, r) - 1 : a.last[(n - 1 - k) % K] = AsTran(s[n - k])
      /\ \A k \in Ring : k < n => \E j \in 1 .. n : a.last[k] = AsTran(s[j])
  BY DEF InRing
<1> HIDE DEF start, t, n, l
<1>5. l \in Nat /\ l <= n /\ l <= K
  BY <1>1, <1>2 DEF Lesser
<1>6. InPlace(n, r) \in 0 .. K /\ InPlace(n, r) <= l
  <2>1. InPlace(n, r) \in 0 .. K /\ InPlace(n, r) <= n
    BY <1>1, <1>4, InPlaceFacts
  <2>. QED  BY <1>1, <1>2, <2>1 DEF Lesser
<1>7. ASSUME NEW k \in 0 .. InPlace(n, r) - 1
      PROVE  t[l - k] = AsTran(s[n - k])
  <2>1. l - k \in 1 .. l /\ start + (l - k) - 1 = n - 1 - k
    <3>1. PICK m : m = InPlace(n, r) /\ m \in Nat /\ m <= l
      BY <1>1, <1>6
    <3>2. k \in Nat /\ k < m
      BY <3>1
    <3>3. start \in Nat /\ n = start + l /\ l \in Nat
      BY <1>2, <1>5
    <3>. QED  BY ONLY <3>1, <3>2, <3>3
  <2>. QED  BY <1>2, <1>4, <2>1
<1>8. ASSUME NEW k \in 1 .. l
      PROVE  \E j \in 1 .. n : t[k] = AsTran(s[j])
  <2> DEFINE x == start + k - 1
  <2>1. x \in Nat /\ x \in Int /\ x < n
    BY <1>2, <1>5
  <2>2. t[k] = a.last[x % K]
    BY <1>2
  <2> HIDE DEF x
  <2>3. n <= K => x % K = x
    <3>1. n <= K => x \in 0 .. K - 1
      BY <1>1, <2>1
    <3>. QED  BY <1>1, <3>1, ModSmall
  <2>4. x % K \in 0 .. K - 1
    BY <1>1, <2>1, ModRange
  <2>5. x % K \in Ring /\ x % K < n
    BY <1>1, <2>1, <2>3, <2>4 DEF Ring
  <2>. QED  BY <1>4, <2>2, <2>5
<1>9. Promise!Vouched(b) = InPlace(n, r) /\ Promise!Smaller(K, n) = l
  BY <1>2 DEF Promise!Vouched, Promise!Smaller, InPlace, Lesser, n
<1>10. /\ Len(t) = Promise!Smaller(K, n)
       /\ \A k \in 0 .. Promise!Vouched(b) - 1 : t[Len(t) - k] = Promise!AsTran(s[n - k])
       /\ \A k \in 1 .. Len(t) : \E j \in 1 .. n : t[k] = Promise!AsTran(s[j])
  BY <1>7, <1>8, <1>9, SameWords DEF l
<1>. QED  BY <1>10 DEF Promise!IsStatement, t, n

\* A request the server serves is a step of Ledger.
LEMMA Served ==
    ASSUME NEW r, request' = r, r.command # "NONE", Promise!Grant(r) \/ Promise!Refuse(r)
    PROVE  Promise!Next
  BY DEF Promise!Next, Promise!Serve

\* A step that touches neither memory nor file leaves rings and books.
LEMMA StayRings ==
    ASSUME RInv, UNCHANGED <<heap, file, hist, restored>>
    PROVE  RInv' /\ UNCHANGED <<Books, Issued>>
<1>1. RInv'
  BY DEF RInv
<1>. QED  BY <1>1, BooksAre DEF Issued

\* A refused request is refused by Ledger too.
LEMMA RefuseImplements ==
    ASSUME RInv, NEW r, request' = r, r.command # "NONE",
           NEW st, Promise!Verdict(r) = st, Refuse(st)
    PROVE  RInv' /\ Promise!Next
<1>1. RInv' /\ UNCHANGED <<Books, Issued>> /\ st # "OK" /\ response' = Answer(st)
  BY StayRings DEF Refuse
<1>2. Promise!Refuse(r)
  BY <1>1, SameWords DEF Promise!Refuse
<1>. QED  BY <1>1, <1>2, Served

\* A commit of a heap whose rings are in order.
LEMMA CommitRings ==
    ASSUME NEW g, NEW hs, NEW rs, Sound(g, hs), Rings(g, hs, rs),
           g.next_number >= FIRST_NUMBER, Commit(g), hist' = hs, restored' = rs
    PROVE  RInv'
<1>1. Rings(Loaded(Image(g)), hs, Lengths(hs))
  BY LoadRings
<1>. QED  BY <1>1 DEF RInv, Commit

\* OPEN is a step of Ledger: the number is new, the PIN is one of gen_pin's.
LEMMA OpenImplements ==
    ASSUME IInv, RInv, NEW name \in Names, Open(name)
    PROVE  RInv' /\ Promise!Next
<1> DEFINE r == AskOpen(name)
           no == heap.next_number
<1>1. /\ request' = r /\ r.command = "OPEN" /\ r.name = name /\ r.amount \in CInt
      /\ Promise!Verdict(r) = OpenStatus(heap)
  <2>1. request' = r /\ r.command = "OPEN" /\ r.name = name /\ r.amount = 0
    BY DEF Open, AskOpen, Ask
  <2> HIDE DEF r
  <2>. QED  BY <2>1, Verdicts, ConstantsFit
<1> HIDE DEF r
<1>2. CASE Refuse(OpenStatus(heap))
  BY <1>1, <1>2, RefuseImplements
<1>3. CASE OpenStatus(heap) = "OK" /\ ~Refuse(OpenStatus(heap))
  <2>1. PICK pin \in Pins : Commit(Opened(heap, name, pin))
    BY <1>3 DEF Open
  <2> DEFINE g == Opened(heap, name, pin)
             b == g.bank[heap.accounts_in_use]
  <2>2. /\ heap \in Heap /\ Sound(heap, hist) /\ DOMAIN restored = DOMAIN hist
        /\ Rings(heap, hist, restored)
    BY DEF IInv, RInv, Sound
  <2>3. hist' = WithNumber(hist, no) /\ restored' = WithZero(restored, no)
    BY <1>3 DEF Open, WithNumber, Opening, WithZero
  <2>4. Sound(g, WithNumber(hist, no)) /\ Rings(g, WithNumber(hist, no), WithZero(restored, no))
    BY <2>2, <1>3, OpenSound, OpenRings
  <2>5. heap' = g /\ response' = AnswerOpened(b)
    BY <1>3, <2>1 DEF Open, Commit
  <2>6. /\ b.number = no /\ b.pin = pin /\ b.balance = MIN_BALANCE
        /\ g.next_number = no + 1
    BY <1>3, <2>2, OpenedFields
  <2>7. no \in Nat /\ no >= FIRST_NUMBER /\ FIRST_NUMBER \in Nat
    BY <2>2, BankAssumption DEF Heap, RInv
  <2>8. Books' = [n \in DOMAIN Books \cup {no} |->
                     IF n = no THEN [pin |-> pin, name |-> name, restored |-> 0,
                                     history |-> Opening]
                     ELSE Books[n]]
    <3> DEFINE B == BooksOf(heap, hist, restored)
    <3>1. BooksOf(g, WithNumber(hist, no), WithZero(restored, no)) =
            [n \in DOMAIN B \cup {no} |->
                IF n = no THEN [pin |-> pin, name |-> name, restored |-> 0,
                                history |-> Opening]
                ELSE B[n]]
      BY <1>3, <2>2, OpenBooks
    <3>2. B = Books /\ Books' = BooksOf(heap', hist', restored')
      BY BooksAre
    <3> HIDE DEF B, g
    <3>. QED  BY <2>3, <2>5, <3>1, <3>2
  <2> HIDE DEF g, b
  <2>9. RInv'
    <3>1. g.next_number >= FIRST_NUMBER
      BY <2>6, <2>7
    <3>. QED  BY <2>1, <2>3, <2>4, <3>1, CommitRings DEF g
  <2>10. Issued' = Issued \cup {no} /\ no \in Nat \ Issued
    <3>1. Issued' = FIRST_NUMBER .. (no + 1) - 1
      BY <2>5, <2>6 DEF Issued
    <3>2. Issued = FIRST_NUMBER .. no - 1
      BY DEF Issued
    <3>. QED  BY <2>7, <3>1, <3>2
  <2>11. /\ response'.account_number = no /\ response'.pin = pin
         /\ response' = [Promise!Answer("OK") EXCEPT !.account_number = no,
                             !.pin = pin, !.balance = MIN_BALANCE]
    BY <2>5, <2>6, SameWords DEF AnswerOpened, Answer
  <2>12. <<Promise!Posting("D", MIN_BALANCE, MIN_BALANCE)>> = Opening
    BY SameWords DEF Opening
  <2>13. Promise!Open(r)
    BY <1>1, <2>8, <2>10, <2>11, <2>12 DEF Promise!Open
  <2>14. Promise!Grant(r)
    BY <1>1, <1>3, <2>13 DEF Promise!Grant
  <2>. QED  BY <1>1, <2>9, <2>14, Served
<1>. QED  BY <1>2, <1>3 DEF Open

\* CLOSE strikes off the account that was asked for and no other.
LEMMA CloseImplements ==
    ASSUME IInv, RInv, NEW no \in Asked, NEW pin \in AskedPins, Close(no, pin)
    PROVE  RInv' /\ Promise!Next
<1> DEFINE r == Ask("CLOSE", no, pin, 0)
<1>1. /\ request' = r /\ r.command = "CLOSE" /\ r.account_number = no
      /\ Promise!Verdict(r) = AuthStatus(heap, no, pin)
  <2>1. request' = r /\ r.command = "CLOSE" /\ r.account_number = no /\ r.pin = pin
        /\ r.amount = 0
    BY DEF Close, Ask
  <2> HIDE DEF r
  <2>. QED  BY <2>1, Verdicts, ConstantsFit
<1> HIDE DEF r
<1>2. CASE Refuse(AuthStatus(heap, no, pin))
  BY <1>1, <1>2, RefuseImplements
<1>3. CASE AuthStatus(heap, no, pin) = "OK" /\ ~Refuse(AuthStatus(heap, no, pin))
  <2> DEFINE i == Found(heap, no, pin)
             g == Closed(heap, i)
  <2>1. /\ heap \in Heap /\ Sound(heap, hist) /\ DOMAIN restored = DOMAIN hist
        /\ Rings(heap, hist, restored)
    BY DEF IInv, RInv, Sound
  <2>2. i \in LiveSlots(heap) /\ heap.bank[i].number = no
    BY <1>3, <2>1, FoundMatches
  <2>3. /\ Commit(g) /\ heap' = g /\ hist' = Without(hist, no)
        /\ restored' = Without(restored, no) /\ response' = Answer("OK")
    BY <1>3 DEF Close, Without, Commit
  <2> HIDE DEF i
  <2>4. /\ Sound(g, Without(hist, no)) /\ Rings(g, Without(hist, no), Without(restored, no))
        /\ g.next_number = heap.next_number
    BY <2>1, <2>2, CloseSound, CloseRings, ClosedFields
  <2>5. Books' = [n \in DOMAIN Books \ {no} |-> Books[n]]
    <3> DEFINE B == BooksOf(heap, hist, restored)
    <3>1. BooksOf(g, Without(hist, no), Without(restored, no)) = Without(B, no)
      BY <2>1, <2>2, CloseBooks
    <3>2. B = Books /\ Books' = BooksOf(heap', hist', restored')
      BY BooksAre
    <3> HIDE DEF B, g
    <3>. QED  BY <2>3, <3>1, <3>2 DEF Without
  <2> HIDE DEF g
  <2>6. RInv'
    BY <2>3, <2>4, CommitRings DEF RInv
  <2>7. Issued' = Issued
    BY <2>3, <2>4 DEF Issued
  <2>8. Promise!Grant(r)
    BY <1>1, <1>3, <2>3, <2>5, <2>7, SameWords DEF Promise!Grant, Promise!Close
  <2>. QED  BY <1>1, <2>6, <2>8, Served
<1>. QED  BY <1>2, <1>3 DEF Close


\* A posting to the account c of the request: it goes to the end of its history,
\* into its ring, and into the answer.
LEMMA PostImplements ==
    ASSUME IInv, RInv, NEW no, NEW pin, AuthStatus(heap, no, pin) = "OK",
           NEW i, i = Found(heap, no, pin),
           NEW c \in Account, c.number = no, c.pin = pin, c.name = heap.bank[i].name,
           c.ntran = heap.bank[i].ntran, c.last = heap.bank[i].last,
           NEW typ \in {"D", "W"}, NEW amt \in CInt, NEW bal \in Int, c.balance = Wrap(bal),
           NEW b \in Account, b = remember(c, typ, amt),
           NEW t \in History, t = Append(hist[no], Posting(typ, amt, bal)), Accounted(b, t),
           Put(heap, i, b) \in Heap, Commit(Put(heap, i, b)),
           hist' = [hist EXCEPT ![no] = t], UNCHANGED restored,
           response' = AnswerBalance(BalanceOf(heap', no, pin))
    PROVE  RInv' /\ Promise!Post(no, typ, amt, bal)
<1> DEFINE g == Put(heap, i, b)
           a == heap.bank[i]
<1>1. /\ heap \in Heap /\ Sound(heap, hist) /\ Rings(heap, hist, restored)
      /\ heap' = g /\ Commit(g)
  BY DEF IInv, RInv, Sound, Commit
<1>2. /\ i \in LiveSlots(heap) /\ a \in Account /\ a.number = no /\ a.pin = pin
      /\ no \in DOMAIN hist /\ hist[no] \in History /\ a.ntran = Len(hist[no])
      /\ Books[no] = View(a, hist, restored)
  BY FoundView DEF Accounted
<1>3. b.number = no /\ b.pin = pin /\ b.name = a.name /\ b.balance = Wrap(bal)
  BY RememberKeeps
<1>4. InRing(b, t, restored[no])
  <2>1. InRing(a, hist[no], restored[no])
    BY <1>1, <1>2 DEF Rings
  <2>2. InRing(c, hist[no], restored[no])
    BY <2>1 DEF InRing
  <2>. QED  BY <1>2, <2>2, RememberRing
<1> HIDE DEF g
<1>5. Sound(g, hist') /\ Rings(g, hist', restored) /\ g.next_number = heap.next_number
  <2> DEFINE gs == [hist EXCEPT ![a.number] = t]
  <2>1. hist' = gs /\ b.number = a.number /\ InRing(b, t, restored[b.number])
    BY <1>2, <1>3, <1>4
  <2>2. Sound(g, gs) /\ Rings(g, gs, restored)
    <3>1. Put(heap, i, b) \in Heap
      OBVIOUS
    <3>2. Sound(g, gs)
      BY <1>1, <1>2, <2>1, <3>1, PostSound DEF g
    <3>3. Rings(g, gs, restored)
      BY <1>1, <1>2, <2>1, PostRings DEF g
    <3>. QED  BY <3>2, <3>3
  <2>3. g.next_number = heap.next_number
    BY <1>1, <1>2, PutFields DEF g
  <2>. QED  BY <2>1, <2>2, <2>3
<1>6. RInv'
  BY <1>1, <1>5, CommitRings DEF RInv
<1>7. response' = Promise!AnswerBalance(Promise!Wrap(bal))
  <2>1. i \in LiveSlots(g) /\ g.bank[i] = b
    BY <1>1, <1>2, PutFields DEF g
  <2>2. AuthStatus(g, no, pin) = "OK"
    BY <1>3, <2>1 DEF AuthStatus, Matches
  <2>3. Found(g, no, pin) = i
    <3>1. /\ Found(g, no, pin) \in LiveSlots(g)
          /\ g.bank[Found(g, no, pin)].number = no
      BY <2>2, FoundMatches DEF g
    <3>. QED  BY <1>3, <1>5, <2>1, <3>1 DEF Sound, Distinct
  <2>4. BalanceOf(heap', no, pin) = Wrap(bal)
    BY <1>1, <1>3, <2>1, <2>3 DEF BalanceOf
  <2>. QED  BY <2>4, SameWords
<1>8. Issued' = Issued
  BY <1>1, <1>5 DEF Issued
<1>9. Books' = [Books EXCEPT ![no].history = t]
  <2>1. BooksOf(g, hist', restored) = WithHistory(BooksOf(heap, hist, restored), no, t)
    <3>1. /\ Sound(heap, hist) /\ Rings(heap, hist, restored) /\ i \in LiveSlots(heap)
          /\ no = a.number /\ b.number = no /\ b.pin = a.pin /\ b.name = a.name
          /\ DOMAIN hist' = DOMAIN hist /\ hist'[no] = t
          /\ \A n \in DOMAIN hist : n # no => hist'[n] = hist[n]
          /\ g = Put(heap, i, b) /\ Sound(g, hist')
      BY <1>1, <1>2, <1>3, <1>5 DEF g
    <3>. QED  BY ONLY <3>1, b \in Account, t \in History, PostBooks DEF a
  <2>2. Books' = WithHistory(Books, no, t)
    BY <1>1, <2>1, BooksAre
  <2>. QED  BY <2>2 DEF WithHistory
<1>10. Append(Books[no].history, Promise!Posting(typ, amt, bal)) = t
  BY <1>2, SameWords DEF View
<1>11. Books' = [Books EXCEPT ![no].history = Append(@, Promise!Posting(typ, amt, bal))]
  BY <1>9, <1>10
<1>. QED  BY <1>6, <1>7, <1>8, <1>11 DEF Promise!Post

\* DEPOSIT adds its amount to the exact balance and reports what an int holds of it.
LEMMA DepositImplements ==
    ASSUME IInv, RInv, NEW no \in Asked, NEW pin \in AskedPins, NEW amt \in Amounts,
           Deposit(no, pin, amt)
    PROVE  RInv' /\ Promise!Next
<1> DEFINE r == Ask("DEPOSIT", no, pin, amt)
<1>1. /\ request' = r /\ r.command = "DEPOSIT" /\ r.account_number = no /\ r.amount = amt
      /\ Promise!Verdict(r) = DepositStatus(heap, no, pin, amt)
  <2>1. request' = r /\ r.command = "DEPOSIT" /\ r.account_number = no /\ r.pin = pin
        /\ r.amount = amt
    BY DEF Deposit, Ask
  <2> HIDE DEF r
  <2>. QED  BY <2>1, Verdicts, AskType
<1> HIDE DEF r
<1>2. CASE Refuse(DepositStatus(heap, no, pin, amt))
  BY <1>1, <1>2, RefuseImplements
<1>3. CASE DepositStatus(heap, no, pin, amt) = "OK" /\ ~Refuse(DepositStatus(heap, no, pin, amt))
  <2> DEFINE i == Found(heap, no, pin)
             a == heap.bank[i]
             c == Credited(a, amt)
             b == remember(c, "D", amt)
             bal == Last(hist[no]) + amt
             t == Append(hist[no], Posting("D", amt, bal))
  <2>1. AuthStatus(heap, no, pin) = "OK" /\ amt >= MIN_DEPOSIT
    BY <1>3, AskType, BankAssumption DEF DepositStatus, AuthStatus
  <2>2. /\ heap \in Heap /\ i \in LiveSlots(heap) /\ a \in Account
        /\ a.number = no /\ a.pin = pin
        /\ hist[no] \in History /\ Accounted(a, hist[no])
        /\ Promise!Exact(Books[no]) = Last(hist[no])
    BY <2>1, FoundView DEF IInv, Sound
  <2>3. amt \in CInt /\ amt \in Int /\ bal \in Int
    BY <2>2, AskType, LastType
  <2>4. t \in History /\ Accounted(b, t) /\ b \in Account
    BY <2>1, <2>2, <2>3, DepositAccounted, PostedType
  <2>5. c.balance = Wrap(bal) /\ c \in Account
    <3>1. a.balance = Wrap(Last(hist[no])) /\ Last(hist[no]) \in Int
      BY <2>2, LastType DEF Accounted
    <3>2. Wrap(a.balance + amt) = Wrap(bal)
      BY <2>3, <3>1, WrapShift
    <3>3. Wrap(a.balance + amt) \in CInt
      BY <2>3, <3>2, WrapType
    <3>. QED  BY <2>2, <3>2, <3>3 DEF Credited, Account
  <2>6. /\ c.number = no /\ c.pin = pin /\ c.name = a.name
        /\ c.ntran = a.ntran /\ c.last = a.last
    BY <2>2 DEF Credited, Account
  <2>7. Put(heap, i, b) = Deposited(heap, i, amt) /\ Put(heap, i, b) \in Heap
    BY <2>2, <2>3, DepositedType DEF Put, Deposited
  <2>8. /\ Commit(Put(heap, i, b))
        /\ response' = AnswerBalance(BalanceOf(heap', no, pin))
    BY <1>3, <2>7 DEF Deposit
  <2>9. hist' = [hist EXCEPT ![no] = t] /\ UNCHANGED restored
    BY <1>3 DEF Deposit, Record, Exact, Last
  <2> HIDE DEF i, a, c, b, t, bal
  <2>10. RInv' /\ Promise!Post(no, "D", amt, bal)
    BY <2>1, <2>3, <2>4, <2>5, <2>6, <2>7, <2>8, <2>9, PostImplements DEF i, a, b, t
  <2>11. Promise!Deposit(r)
    BY <1>1, <2>2, <2>10 DEF Promise!Deposit, bal
  <2>12. Promise!Grant(r)
    BY <1>1, <1>3, <2>11 DEF Promise!Grant
  <2>. QED  BY <1>1, <2>10, <2>12, Served
<1>. QED  BY <1>2, <1>3 DEF Deposit

\* WITHDRAW subtracts its amount, once the floor has been checked.
LEMMA WithdrawImplements ==
    ASSUME IInv, RInv, NEW no \in Asked, NEW pin \in AskedPins, NEW amt \in Amounts,
           Withdraw(no, pin, amt)
    PROVE  RInv' /\ Promise!Next
<1> DEFINE r == Ask("WITHDRAW", no, pin, amt)
<1>1. /\ request' = r /\ r.command = "WITHDRAW" /\ r.account_number = no /\ r.amount = amt
      /\ Promise!Verdict(r) = WithdrawStatus(heap, no, pin, amt)
  <2>1. request' = r /\ r.command = "WITHDRAW" /\ r.account_number = no /\ r.pin = pin
        /\ r.amount = amt
    BY DEF Withdraw, Ask
  <2> HIDE DEF r
  <2>. QED  BY <2>1, Verdicts, AskType
<1> HIDE DEF r
<1>2. CASE Refuse(WithdrawStatus(heap, no, pin, amt))
  BY <1>1, <1>2, RefuseImplements
<1>3. CASE /\ WithdrawStatus(heap, no, pin, amt) = "OK"
           /\ ~Refuse(WithdrawStatus(heap, no, pin, amt))
  <2> DEFINE i == Found(heap, no, pin)
             a == heap.bank[i]
             c == Debited(a, amt)
             b == remember(c, "W", amt)
             bal == Last(hist[no]) - amt
             t == Append(hist[no], Posting("W", amt, bal))
  <2>1. /\ AuthStatus(heap, no, pin) = "OK" /\ amt >= MIN_WITHDRAW
        /\ ~(Wrap(a.balance - amt) < MIN_BALANCE)
    BY <1>3, AskType, BankAssumption DEF WithdrawStatus, AuthStatus
  <2>2. /\ heap \in Heap /\ i \in LiveSlots(heap) /\ a \in Account
        /\ a.number = no /\ a.pin = pin
        /\ hist[no] \in History /\ Accounted(a, hist[no])
        /\ Promise!Exact(Books[no]) = Last(hist[no])
    BY <2>1, FoundView DEF IInv, Sound
  <2>3. amt \in CInt /\ amt \in Int /\ bal \in Int
    BY <2>2, AskType, LastType
  <2>4. c.balance = Wrap(bal) /\ c \in Account /\ Wrap(a.balance - amt) >= MIN_BALANCE
    <3>1. a.balance = Wrap(Last(hist[no])) /\ Last(hist[no]) \in Int
      BY <2>2, LastType DEF Accounted
    <3>2. Wrap(Last(hist[no])) \in Int /\ MIN_BALANCE \in Int
      BY <3>1, WrapType, BankAssumption DEF CInt
    <3>3. a.balance - amt = Wrap(Last(hist[no])) + (-amt) /\ bal = Last(hist[no]) + (-amt)
          /\ -amt \in Int
      BY <2>3, <3>1, <3>2
    <3>4. Wrap(a.balance - amt) = Wrap(bal)
      BY <3>1, <3>3, WrapShift
    <3>5. Wrap(a.balance - amt) \in CInt /\ Wrap(a.balance - amt) \in Int
      BY <2>3, <3>4, WrapType, BankAssumption DEF CInt
    <3>. QED  BY <2>1, <2>2, <3>2, <3>4, <3>5 DEF Debited, Account
  <2>5. t \in History /\ Accounted(b, t) /\ b \in Account
    BY <2>1, <2>2, <2>3, <2>4, WithdrawAccounted, PostedType
  <2>6. /\ c.number = no /\ c.pin = pin /\ c.name = a.name
        /\ c.ntran = a.ntran /\ c.last = a.last
    BY <2>2 DEF Debited, Account
  <2>7. Put(heap, i, b) = Withdrawn(heap, i, amt) /\ Put(heap, i, b) \in Heap
    BY <2>2, <2>3, WithdrawnType DEF Put, Withdrawn
  <2>8. /\ Commit(Put(heap, i, b))
        /\ response' = AnswerBalance(BalanceOf(heap', no, pin))
    BY <1>3, <2>7 DEF Withdraw
  <2>9. hist' = [hist EXCEPT ![no] = t] /\ UNCHANGED restored
    BY <1>3 DEF Withdraw, Record, Exact, Last
  <2> HIDE DEF i, a, c, b, t, bal
  <2>10. RInv' /\ Promise!Post(no, "W", amt, bal)
    BY <2>1, <2>3, <2>4, <2>5, <2>6, <2>7, <2>8, <2>9, PostImplements DEF i, a, b, t
  <2>11. Promise!Withdraw(r)
    BY <1>1, <2>2, <2>10 DEF Promise!Withdraw, bal
  <2>12. Promise!Grant(r)
    BY <1>1, <1>3, <2>11 DEF Promise!Grant
  <2>. QED  BY <1>1, <2>10, <2>12, Served
<1>. QED  BY <1>2, <1>3 DEF Withdraw


\* A granted request that changes no account.
LEMMA StayImplements ==
    ASSUME RInv, UNCHANGED <<heap, file, hist, restored>>, NEW r, request' = r,
           r.command # "NONE", Promise!Verdict(r) = "OK",
           \/ r.command = "BALANCE" /\ Promise!Balance(r)
           \/ r.command = "STATEMENT" /\ Promise!Statement(r)
           \/ r.command = "QUIT" /\ Promise!Quit(r)
    PROVE  RInv' /\ Promise!Next
<1>1. Promise!Grant(r)
  BY DEF Promise!Grant
<1>. QED  BY <1>1, Served, StayRings

\* BALANCE reports what an int holds of the exact balance.
LEMMA BalanceImplements ==
    ASSUME IInv, RInv, NEW no \in Asked, NEW pin \in AskedPins, Balance(no, pin)
    PROVE  RInv' /\ Promise!Next
<1> DEFINE r == Ask("BALANCE", no, pin, 0)
<1>1. /\ request' = r /\ r.command = "BALANCE" /\ r.account_number = no
      /\ Promise!Verdict(r) = AuthStatus(heap, no, pin)
  <2>1. request' = r /\ r.command = "BALANCE" /\ r.account_number = no /\ r.pin = pin
        /\ r.amount = 0
    BY DEF Balance, Ask
  <2> HIDE DEF r
  <2>. QED  BY <2>1, Verdicts, ConstantsFit
<1> HIDE DEF r
<1>2. CASE Refuse(AuthStatus(heap, no, pin))
  BY <1>1, <1>2, RefuseImplements
<1>3. CASE /\ AuthStatus(heap, no, pin) = "OK"
           /\ response' = AnswerBalance(BalanceOf(heap, no, pin))
           /\ UNCHANGED <<heap, file, hist, restored>>
  <2>1. BalanceOf(heap, no, pin) = Wrap(Promise!Exact(Books[no]))
    BY <1>3, FoundView DEF BalanceOf, Accounted
  <2>2. Promise!Balance(r)
    BY <1>1, <1>3, <2>1, SameWords, StayRings DEF Promise!Balance
  <2>. QED  BY <1>1, <1>3, <2>2, StayImplements
<1>. QED  BY <1>2, <1>3 DEF Balance

\* STATEMENT lists the last postings, so far as the ring has them in place.
LEMMA StatementImplements ==
    ASSUME IInv, RInv, NEW no \in Asked, NEW pin \in AskedPins, Statement(no, pin)
    PROVE  RInv' /\ Promise!Next
<1> DEFINE r == Ask("STATEMENT", no, pin, 0)
<1>1. /\ request' = r /\ r.command = "STATEMENT" /\ r.account_number = no
      /\ Promise!Verdict(r) = AuthStatus(heap, no, pin)
  <2>1. request' = r /\ r.command = "STATEMENT" /\ r.account_number = no /\ r.pin = pin
        /\ r.amount = 0
    BY DEF Statement, Ask
  <2> HIDE DEF r
  <2>. QED  BY <2>1, Verdicts, ConstantsFit
<1> HIDE DEF r
<1>2. CASE Refuse(AuthStatus(heap, no, pin))
  BY <1>1, <1>2, RefuseImplements
<1>3. CASE /\ AuthStatus(heap, no, pin) = "OK"
           /\ response' = AnswerStatement(Kept(heap.bank[Found(heap, no, pin)]))
           /\ UNCHANGED <<heap, file, hist, restored>>
  <2> DEFINE a == heap.bank[Found(heap, no, pin)]
             s == Kept(a)
  <2>1. /\ Found(heap, no, pin) \in LiveSlots(heap) /\ a \in Account /\ a.number = no
        /\ hist[no] \in History /\ a.ntran = Len(hist[no])
        /\ Books[no] = View(a, hist, restored)
    BY <1>3, FoundView DEF Accounted
  <2>2. InRing(a, hist[no], restored[no])
    BY <2>1 DEF RInv, Rings
  <2>3. Books[no].history = hist[no] /\ Books[no].restored = restored[no]
    BY <2>1 DEF View
  <2> HIDE DEF a
  <2>4. Promise!IsStatement(s, Books[no])
    BY <2>1, <2>2, <2>3, StatementKept
  <2> HIDE DEF s
  <2>5. response' = AnswerStatement(s) /\ response'.transactions = s
    <3>1. response' = AnswerStatement(s)
      BY <1>3 DEF s, a
    <3>2. AnswerStatement(s).transactions = s
      BY DEF AnswerStatement, Answer
    <3>. QED  BY <3>1, <3>2
  <2>6. Promise!Statement(r)
    BY <1>1, <1>3, <2>4, <2>5, SameWords, StayRings DEF Promise!Statement
  <2>. QED  BY <1>1, <1>3, <2>6, StayImplements
<1>. QED  BY <1>2, <1>3 DEF Statement

\* QUIT and an unknown command.
LEMMA QuitImplements ==
    ASSUME IInv, RInv, Quit \/ UnknownCommand
    PROVE  RInv' /\ Promise!Next
<1>1. CASE Quit
  <2> DEFINE r == Ask("QUIT", 0, 0, 0)
  <2>1. request' = r /\ r.command = "QUIT" /\ r.amount = 0
    BY <1>1 DEF Quit, Ask
  <2> HIDE DEF r
  <2>2. Promise!Verdict(r) = "OK"
    BY <2>1, Verdicts, ConstantsFit
  <2>3. UNCHANGED <<heap, file, hist, restored>> /\ response' = Answer("OK")
    BY <1>1 DEF Quit
  <2>4. Promise!Quit(r)
    BY <2>3, SameWords, StayRings DEF Promise!Quit
  <2>. QED  BY <2>1, <2>2, <2>3, <2>4, StayImplements
<1>2. CASE UnknownCommand
  <2> DEFINE r == Ask("UNKNOWN", 0, 0, 0)
  <2>1. request' = r /\ r.command = "UNKNOWN" /\ r.amount = 0
    BY <1>2 DEF UnknownCommand, Ask
  <2> HIDE DEF r
  <2>2. Promise!Verdict(r) = "ERROR"
    BY <2>1, Verdicts, ConstantsFit
  <2>. QED  BY <1>2, <2>1, <2>2, RefuseImplements DEF UnknownCommand
<1>. QED  BY <1>1, <1>2

\* A shutdown or a kill is a Restart of Ledger: no book is lost or altered.
LEMMA RestartImplements ==
    ASSUME IInv, RInv, Restart
    PROVE  RInv' /\ Promise!Next
<1>1. PICK f : Start(f) /\ f \in {Image(heap), file}
  BY DEF Restart, Shutdown, Kill
<1>2. /\ heap \in Heap /\ Sound(heap, hist) /\ Rings(heap, hist, restored)
      /\ f \in File /\ Agrees(f, heap)
  BY <1>1, ImageAgrees DEF IInv, RInv, Sound
<1>3. /\ heap' = Loaded(f) /\ file' = f /\ hist' = hist /\ restored' = Lengths(hist)
      /\ request' = NoRequest /\ response' = Answer("OK")
  BY <1>1 DEF Start, Lengths
<1>4. heap'.next_number = heap.next_number
  BY <1>2, <1>3, LoadedAgrees
<1>5. Rings(Loaded(f), hist, Lengths(hist))
  BY <1>1, <1>2, LoadRings DEF RInv
<1>6. RInv'
  BY <1>3, <1>4, <1>5 DEF RInv
<1>7. Books' = Noted(Books)
  <2>1. BooksOf(Loaded(f), hist, Lengths(hist)) = Noted(BooksOf(heap, hist, restored))
    BY <1>2, StartBooks
  <2>. QED  BY <1>3, <2>1, BooksAre
<1>8. Issued' = Issued
  BY <1>4 DEF Issued
<1>9. Promise!Restart
  BY <1>3, <1>7, <1>8, SameWords DEF Promise!Restart, Noted
<1>. QED  BY <1>6, <1>9 DEF Promise!Next

-----------------------------------------------------------------------------
(* Theorems.                                                               *)

\* The program starts in the invariant, and as Ledger does.
LEMMA InitImplements == Init => RInv /\ Promise!Init
<1> SUFFICES ASSUME Init PROVE RInv /\ Promise!Init
  OBVIOUS
<1>1. LiveSlots(FreshHeap) = {} /\ FreshHeap.next_number = FIRST_NUMBER
      /\ Loaded(NoFile) = FreshHeap
  BY EmptyLoads DEF LiveSlots, FreshHeap
<1>2. FIRST_NUMBER \in Nat
  BY BankAssumption
<1>3. RInv
  BY <1>1, <1>2 DEF Init, RInv, Rings
<1>4. Issued = {}
  BY <1>1, <1>2 DEF Init, Issued
<1>5. Books = << >>
  BY DEF Init, Books
<1>. QED  BY <1>3, <1>4, <1>5, SameWords DEF Init, Promise!Init

\* Every step keeps the rings and is a step of Ledger, or leaves it alone.
LEMMA StepImplements ==
    ASSUME IInv, RInv, [Next]_vars
    PROVE  RInv' /\ [Promise!Next]_(Promise!vars)
<1>1. CASE UNCHANGED vars
  <2>1. RInv' /\ UNCHANGED <<Books, Issued>>
    BY <1>1, StayRings DEF vars
  <2>. QED  BY <1>1, <2>1 DEF vars, Promise!vars
<1>2. CASE \E name \in Names : Open(name)
  BY <1>2, OpenImplements
<1>3. ASSUME NEW no \in Asked, NEW pin \in AskedPins,
             Close(no, pin) \/ Balance(no, pin) \/ Statement(no, pin)
      PROVE  RInv' /\ Promise!Next
  BY <1>3, CloseImplements, BalanceImplements, StatementImplements
<1>4. ASSUME NEW no \in Asked, NEW pin \in AskedPins, NEW amt \in Amounts,
             Deposit(no, pin, amt) \/ Withdraw(no, pin, amt)
      PROVE  RInv' /\ Promise!Next
  BY <1>4, DepositImplements, WithdrawImplements
<1>5. CASE Quit \/ UnknownCommand
  BY <1>5, QuitImplements
<1>6. CASE Restart
  BY <1>6, RestartImplements
<1>. QED  BY <1>1, <1>2, <1>3, <1>4, <1>5, <1>6 DEF Next, Serve

\* The rings of memory, and those a restart would make, stay in order.
THEOREM RingsHold == Spec => []RInv
<1>1. IInv /\ RInv /\ [Next]_vars => RInv'
  BY StepImplements
<1>2. Init => RInv
  BY InitImplements
<1>. QED  BY <1>1, <1>2, Invariance, PTL DEF Spec

\* The bank keeps the promises of Ledger: every answer, statements included, is
\* that of a ledger of exact histories, through every close, wrap and restart.
THEOREM ImplementsLedger == Spec => KeepsPromises
<1>1. IInv /\ RInv /\ [Next]_vars => [Promise!Next]_(Promise!vars)
  BY StepImplements
<1>2. Init => Promise!Init
  BY InitImplements
<1>. QED  BY <1>1, <1>2, Invariance, RingsHold, PTL DEF Spec, KeepsPromises, Promise!Spec

=============================================================================
