----------------------- MODULE BankPersistenceProofs -----------------------
(***************************************************************************)
(* Facts about the operators of BankAccount and BankPersistence, for every *)
(* value of the constants: C ints stay C ints, operations and save and     *)
(* load keep the types, and a lookup finds the one account that matches.   *)
(***************************************************************************)
EXTENDS BankPersistence, WellFoundedInduction, TLAPS

\* A remainder is below its modulus.
LEMMA ModRange ==
    ASSUME NEW x \in Int, NEW k \in Nat \ {0}
    PROVE  x % k \in 0 .. k - 1
  OBVIOUS

\* What is below the modulus is its own remainder.
LEMMA ModSmall ==
    ASSUME NEW m \in Nat \ {0}, NEW y \in 0 .. m - 1
    PROVE  y % m = y
  OBVIOUS

\* The result of a wrapped addition or subtraction is an int.
LEMMA WrapType ==
    ASSUME NEW x \in Int
    PROVE  Wrap(x) \in CInt
  BY BankAssumption, ModRange DEF Wrap, CInt

\* Within the range of int, nothing wraps.
LEMMA WrapId ==
    ASSUME NEW x \in CInt
    PROVE  Wrap(x) = x
  BY BankAssumption, ModSmall DEF Wrap, CInt

\* Multiples of the modulus make no difference to a remainder.
LEMMA ModUnique ==
    ASSUME NEW m \in Nat \ {0}, NEW q \in Int, NEW r \in 0 .. m - 1
    PROVE  (m * q + r) % m = r
  OBVIOUS

\* A multiple of the modulus may be taken off inside a remainder.
LEMMA ModShift ==
    ASSUME NEW m \in Nat \ {0}, NEW x \in Int, NEW y \in Int
    PROVE  ((x % m) + y) % m = (x + y) % m
<1> DEFINE z == (x % m) + y
           q == x \div m
           p == z \div m
           r == z % m
<1>1. q \in Int /\ p \in Int /\ z \in Int /\ r \in 0 .. m - 1
  BY ModRange
<1>2. x = m * q + (x % m) /\ z = m * p + r
  OBVIOUS
<1>3. x + y = m * (p + q) + r
  BY <1>1, <1>2
<1> HIDE DEF p, q, r
<1>4. (m * (p + q) + r) % m = r
  BY <1>1, ModUnique
<1>. QED  BY <1>3, <1>4 DEF r

\* A chain of wrapped additions wraps like their exact sum.
LEMMA WrapShift ==
    ASSUME NEW x \in Int, NEW y \in Int
    PROVE  Wrap(Wrap(x) + y) = Wrap(x + y)
<1> DEFINE m == 2 * (INT_MAX + 1)
           c == x + INT_MAX + 1
<1>1. m \in Nat \ {0} /\ c \in Int /\ c % m \in Int
  BY BankAssumption, ModRange
<1>2. Wrap(x) + y + INT_MAX + 1 = (c % m) + y
  BY <1>1, BankAssumption DEF Wrap
<1>3. Wrap(x + y) = ((c + y) % m) - INT_MAX - 1
  BY <1>1, BankAssumption DEF Wrap
<1>4. Wrap(Wrap(x) + y) = (((c % m) + y) % m) - INT_MAX - 1
  BY <1>2 DEF Wrap
<1> HIDE DEF m, c
<1>. QED  BY <1>1, <1>3, <1>4, ModShift

-----------------------------------------------------------------------------
(* Types.                                                                  *)

\* The int constants of headers.h are C ints.
LEMMA ConstantsFit == MIN_BALANCE \in CInt /\ 0 \in CInt
  BY BankAssumption DEF CInt

\* Memory nothing was written to is an account of zeroes.
LEMMA ZeroAccountType == ZeroAccount \in Account
  BY ConstantsFit DEF ZeroAccount, Account, ZeroTran, Tran, Ring

\* remember writes inside the ring and keeps the account an account.
LEMMA RememberType ==
    ASSUME NEW a \in Account, NEW typ \in {"D", "W"}, NEW amt \in CInt
    PROVE  remember(a, typ, amt) \in Account
<1> DEFINE t == [type |-> typ, amount |-> amt, balance_after |-> a.balance]
           last == [a.last EXCEPT ![slot_for(a)] = t]
<1>1. slot_for(a) \in Ring
  <2>1. a.ntran \in Int /\ TRANS_KEEP \in Nat \ {0}
    BY BankAssumption DEF Account
  <2>. QED  BY <2>1, ModRange DEF slot_for, Ring
<1>2. t \in Tran
  BY DEF Account, Tran
<1>3. last \in [Ring -> Tran]
  BY <1>1, <1>2 DEF Account
<1>4. remember(a, typ, amt) = [a EXCEPT !.ntran = @ + 1, !.last = last]
  BY DEF remember
<1> HIDE DEF t, last
<1>5. remember(a, typ, amt) =
        [number |-> a.number, pin |-> a.pin, name |-> a.name,
         balance |-> a.balance, last |-> last, ntran |-> a.ntran + 1]
  BY <1>4 DEF Account
<1>6. a.ntran + 1 \in Nat
  BY DEF Account
<1>. QED  BY <1>3, <1>5, <1>6 DEF Account

\* remember changes only the ring and the count.
LEMMA RememberKeeps ==
    ASSUME NEW a \in Account, NEW typ, NEW amt
    PROVE  LET b == remember(a, typ, amt)
           IN  /\ b.number = a.number /\ b.pin = a.pin /\ b.name = a.name
               /\ b.balance = a.balance /\ b.ntran = a.ntran + 1
  BY DEF remember, Account

\* What a statement or a save reads of the ring is a sequence of transactions.
LEMMA KeptType ==
    ASSUME NEW a \in Account
    PROVE  Kept(a) \in Seq(Tran)
<1> DEFINE start == IF a.ntran > TRANS_KEEP THEN a.ntran - TRANS_KEEP ELSE 0
<1>1. start \in Nat /\ a.ntran - start \in Nat
  BY BankAssumption DEF Account
<1>2. ASSUME NEW k \in 1 .. a.ntran - start
      PROVE  a.last[(start + k - 1) % TRANS_KEEP] \in Tran
  <2>1. start + k - 1 \in Int /\ TRANS_KEEP \in Nat \ {0}
    BY <1>1, BankAssumption
  <2>2. (start + k - 1) % TRANS_KEEP \in Ring
    BY <2>1, ModRange DEF Ring
  <2>. QED  BY <2>2 DEF Account
<1> HIDE DEF start
<1>3. [k \in 1 .. a.ntran - start |-> a.last[(start + k - 1) % TRANS_KEEP]] \in Seq(Tran)
  BY <1>1, <1>2
<1>. QED  BY <1>3 DEF Kept, start

\* The live slots are slots of bank[].
LEMMA SlotBelow ==
    ASSUME NEW h \in Heap
    PROVE  LiveSlots(h) \subseteq Slots
  BY BankAssumption DEF Heap, LiveSlots, Slots

\* The initial values of the globals are a heap.
LEMMA FreshHeapType == FreshHeap \in Heap
  BY ZeroAccountType, BankAssumption DEF FreshHeap, Heap

\* open_account keeps the heap a heap.
LEMMA OpenedType ==
    ASSUME NEW h \in Heap, OpenStatus(h) = "OK", NEW name \in Names, NEW pin \in Pins
    PROVE  Opened(h, name, pin) \in Heap
<1> DEFINE a == [ZeroAccount EXCEPT !.number = h.next_number, !.pin = pin,
                                    !.name = name, !.balance = MIN_BALANCE]
<1>1. a \in Account
  BY ZeroAccountType, ConstantsFit, BankAssumption DEF Account, Heap, ZeroAccount
<1>2. remember(a, "D", MIN_BALANCE) \in Account
  BY <1>1, RememberType, ConstantsFit
<1>3. h.accounts_in_use \in Slots /\ h.accounts_in_use + 1 \in 0 .. MAX_ACCTS
  BY BankAssumption DEF OpenStatus, Heap, Slots
<1> HIDE DEF a
<1>4. Opened(h, name, pin) =
        [bank |-> [h.bank EXCEPT ![h.accounts_in_use] = remember(a, "D", MIN_BALANCE)],
         accounts_in_use |-> h.accounts_in_use + 1,
         next_number |-> h.next_number + 1]
  BY DEF Opened, a
<1>. QED  BY <1>2, <1>3, <1>4 DEF Heap

\* close_account keeps the heap a heap.
LEMMA ClosedType ==
    ASSUME NEW h \in Heap, NEW i \in LiveSlots(h)
    PROVE  Closed(h, i) \in Heap
<1>1. h.accounts_in_use - 1 \in Slots /\ h.accounts_in_use - 1 \in 0 .. MAX_ACCTS
  BY BankAssumption DEF LiveSlots, Heap, Slots
<1>. QED  BY <1>1, SlotBelow DEF Closed, Heap

\* A posting changes the balance and counts; the rest of the account stays.
LEMMA PostedType ==
    ASSUME NEW a \in Account, NEW amt \in CInt
    PROVE  /\ remember(Credited(a, amt), "D", amt) \in Account
           /\ remember(Debited(a, amt), "W", amt) \in Account
<1>1. Wrap(a.balance + amt) \in CInt /\ Wrap(a.balance - amt) \in CInt
  BY WrapType, BankAssumption DEF Account, CInt
<1>2. Credited(a, amt) \in Account /\ Debited(a, amt) \in Account
  BY <1>1 DEF Credited, Debited, Account
<1>. QED  BY <1>2, RememberType

\* deposit keeps the heap a heap.
LEMMA DepositedType ==
    ASSUME NEW h \in Heap, NEW i \in LiveSlots(h), NEW amt \in CInt
    PROVE  Deposited(h, i, amt) \in Heap
<1>1. i \in Slots /\ h.bank[i] \in Account
  BY SlotBelow DEF Heap
<1>2. remember(Credited(h.bank[i], amt), "D", amt) \in Account
  BY <1>1, PostedType
<1>. QED  BY <1>1, <1>2 DEF Deposited, Heap

\* withdraw keeps the heap a heap.
LEMMA WithdrawnType ==
    ASSUME NEW h \in Heap, NEW i \in LiveSlots(h), NEW amt \in CInt
    PROVE  Withdrawn(h, i, amt) \in Heap
<1>1. i \in Slots /\ h.bank[i] \in Account
  BY SlotBelow DEF Heap
<1>2. remember(Debited(h.bank[i], amt), "W", amt) \in Account
  BY <1>1, PostedType
<1>. QED  BY <1>1, <1>2 DEF Withdrawn, Heap

-----------------------------------------------------------------------------
(* Looking an account up.                                                  *)

\* A set of naturals has a least one.
LEMMA LeastNat ==
    ASSUME NEW T, T \subseteq Nat, T # {}
    PROVE  \E x \in T : \A y \in T : x <= y
<1>1. PICK x \in T : \A y \in T : ~ (<<y, x>> \in OpToRel(<, Nat))
  BY WFMin, NatLessThanWellFounded
<1>2. ASSUME NEW y \in T
      PROVE  x <= y
  <2>1. x \in Nat /\ y \in Nat
    OBVIOUS
  <2>2. ~ (y < x)
    BY <1>1, <2>1 DEF OpToRel
  <2>. QED  BY <2>1, <2>2
<1>. QED  BY <1>2

\* The loop finds an account that matches, if there is one.
LEMMA FoundMatches ==
    ASSUME NEW h \in Heap, NEW no, NEW pin, AuthStatus(h, no, pin) = "OK"
    PROVE  /\ Found(h, no, pin) \in LiveSlots(h)
           /\ h.bank[Found(h, no, pin)].number = no
           /\ h.bank[Found(h, no, pin)].pin = pin
<1>1. Matches(h, no, pin) # {} /\ Matches(h, no, pin) \subseteq Nat
  BY BankAssumption DEF AuthStatus, Matches, LiveSlots, Heap
<1>2. \E i \in Matches(h, no, pin) : \A j \in Matches(h, no, pin) : i <= j
  BY <1>1, LeastNat
<1>3. Found(h, no, pin) \in Matches(h, no, pin)
  BY <1>2 DEF Found
<1>. QED  BY <1>3 DEF Matches

\* No two of the first accounts_in_use slots hold the same number.
Distinct(h) ==
    \A i, j \in LiveSlots(h) : h.bank[i].number = h.bank[j].number => i = j

-----------------------------------------------------------------------------
(* Saving and loading.                                                     *)

SameFields(a, b) ==
    /\ a.number = b.number /\ a.pin = b.pin /\ a.name = b.name
    /\ a.balance = b.balance /\ a.ntran = b.ntran

\* The file holds what a restart needs to bring the accounts of h back: all
\* but the places of their transactions in the ring.
Agrees(f, h) ==
    \/ f = NoFile /\ h.accounts_in_use = 0 /\ h.next_number = FIRST_NUMBER
    \/ /\ f.kind = "whole"
       /\ Len(f.accounts) = h.accounts_in_use
       /\ f.next_number = h.next_number
       /\ \A i \in LiveSlots(h) : SameFields(f.accounts[i + 1], h.bank[i])

\* What save_data writes of an account is well formed.
LEMMA AccountJsonType ==
    ASSUME NEW a \in Account
    PROVE  AccountJson(a) \in JsonAccount
  BY KeptType DEF AccountJson, JsonAccount, Account

\* A whole save writes a file, and one that agrees with memory.
LEMMA ImageAgrees ==
    ASSUME NEW h \in Heap
    PROVE  Image(h) \in File /\ Agrees(Image(h), h)
<1> DEFINE n == h.accounts_in_use
           s == [k \in 1 .. n |-> AccountJson(h.bank[k - 1])]
<1>1. n \in Nat
  BY BankAssumption DEF Heap
<1>2. \A k \in 1 .. n : k - 1 \in LiveSlots(h) /\ k - 1 \in Slots
  BY <1>1, SlotBelow DEF LiveSlots
<1>3. \A k \in 1 .. n : AccountJson(h.bank[k - 1]) \in JsonAccount
  BY <1>2, AccountJsonType DEF Heap
<1>4. s \in Seq(JsonAccount) /\ Len(s) = n
  BY <1>1, <1>3
<1>5. ASSUME NEW i \in LiveSlots(h)
      PROVE  SameFields(s[i + 1], h.bank[i])
  <2>1. i + 1 \in 1 .. n /\ (i + 1) - 1 = i
    BY <1>1 DEF LiveSlots
  <2>2. s[i + 1] = AccountJson(h.bank[i])
    BY <2>1
  <2>. QED  BY <2>2 DEF AccountJson, SameFields
<1> HIDE DEF s
<1>6. Image(h) = [kind |-> "whole", accounts_in_use |-> n,
                  next_number |-> h.next_number, accounts |-> s]
  BY DEF Image, s
<1>7. Image(h) \in File
  BY <1>1, <1>4, <1>6 DEF File, Heap
<1>8. Agrees(Image(h), h)
  BY <1>4, <1>5, <1>6 DEF Agrees
<1>. QED  BY <1>7, <1>8

\* What load_data makes of an account object is an account.
LEMMA LoadedAccountType ==
    ASSUME NEW j \in JsonAccount
    PROVE  LoadedAccount(j) \in Account /\ SameFields(LoadedAccount(j), j)
<1> DEFINE last == [k \in Ring |-> IF k < Len(j.last) THEN j.last[k + 1] ELSE ZeroTran]
<1>1. ZeroTran \in Tran
  BY ConstantsFit DEF ZeroTran, Tran
<1>2. j.last \in Seq(Tran)
  BY DEF JsonAccount
<1>3. ASSUME NEW k \in Ring
      PROVE  (IF k < Len(j.last) THEN j.last[k + 1] ELSE ZeroTran) \in Tran
  BY <1>1, <1>2, BankAssumption DEF Ring
<1>4. last \in [Ring -> Tran]
  BY <1>3
<1> HIDE DEF last
<1>5. LoadedAccount(j) = [number |-> j.number, pin |-> j.pin, name |-> j.name,
                          balance |-> j.balance, ntran |-> j.ntran, last |-> last]
  BY DEF LoadedAccount, last
<1>. QED  BY <1>4, <1>5 DEF Account, JsonAccount, SameFields

\* Loading a file that agrees with h brings every account of h back.
LEMMA LoadedAgrees ==
    ASSUME NEW h \in Heap, NEW f \in File, Agrees(f, h)
    PROVE  /\ Loaded(f) \in Heap
           /\ Loaded(f).accounts_in_use = h.accounts_in_use
           /\ Loaded(f).next_number = h.next_number
           /\ \A i \in LiveSlots(h) : SameFields(Loaded(f).bank[i], h.bank[i])
<1>1. CASE f = NoFile /\ h.accounts_in_use = 0 /\ h.next_number = FIRST_NUMBER
  <2>1. Loaded(f) = FreshHeap
    BY <1>1 DEF Loaded, NoFile
  <2>2. LiveSlots(h) = {}
    BY <1>1 DEF LiveSlots
  <2>3. FreshHeap.accounts_in_use = 0 /\ FreshHeap.next_number = FIRST_NUMBER
    BY DEF FreshHeap
  <2>. QED  BY <1>1, <2>1, <2>2, <2>3, FreshHeapType
<1>2. CASE /\ f.kind = "whole"
           /\ Len(f.accounts) = h.accounts_in_use
           /\ f.next_number = h.next_number
           /\ \A i \in LiveSlots(h) : SameFields(f.accounts[i + 1], h.bank[i])
  <2> DEFINE slots == [i \in Slots |-> IF i < Len(f.accounts)
                                       THEN LoadedAccount(f.accounts[i + 1])
                                       ELSE ZeroAccount]
  <2>1. f.accounts \in Seq(JsonAccount) /\ f.next_number \in Nat
    BY DEF File
  <2>2. ASSUME NEW i \in Slots, i < Len(f.accounts)
        PROVE  f.accounts[i + 1] \in JsonAccount
    BY <2>1, <2>2, BankAssumption DEF Slots
  <2>3. slots \in [Slots -> Account]
    BY <2>2, LoadedAccountType, ZeroAccountType
  <2>4. ASSUME NEW i \in LiveSlots(h)
        PROVE  SameFields(slots[i], h.bank[i])
    <3>1. i \in Slots /\ i < Len(f.accounts)
      BY <1>2, SlotBelow, BankAssumption DEF LiveSlots, Heap
    <3>2. slots[i] = LoadedAccount(f.accounts[i + 1])
      BY <3>1
    <3>3. SameFields(LoadedAccount(f.accounts[i + 1]), f.accounts[i + 1])
      BY <3>1, <2>2, LoadedAccountType
    <3>4. SameFields(f.accounts[i + 1], h.bank[i])
      BY <1>2
    <3>. QED  BY <3>2, <3>3, <3>4 DEF SameFields
  <2>5. Loaded(f) = [bank |-> slots, accounts_in_use |-> Len(f.accounts),
                     next_number |-> f.next_number]
    BY <1>2 DEF Loaded
  <2> HIDE DEF slots
  <2>6. Loaded(f) \in Heap
    BY <1>2, <2>1, <2>3, <2>5 DEF Heap
  <2>. QED  BY <1>2, <2>4, <2>5, <2>6
<1>. QED  BY <1>1, <1>2 DEF Agrees

-----------------------------------------------------------------------------
(* The accounts of a table, without slots and transactions.                *)

Row(a) == <<a.number, a.pin, a.name, a.balance, a.ntran>>

\* The rows of a table are those of its live slots.
LEMMA FieldsIn ==
    ASSUME NEW h, NEW f
    PROVE  f \in Fields(h) <=> \E i \in LiveSlots(h) : f = Row(h.bank[i])
  BY DEF Fields, Row

\* A load from a file that agrees with memory gives the same rows.
LEMMA LoadFields ==
    ASSUME NEW h \in Heap, NEW f \in File, Agrees(f, h)
    PROVE  Fields(Loaded(f)) = Fields(h)
<1> DEFINE g == Loaded(f)
<1>1. /\ LiveSlots(g) = LiveSlots(h)
      /\ \A i \in LiveSlots(h) : SameFields(g.bank[i], h.bank[i])
  BY LoadedAgrees DEF LiveSlots
<1> HIDE DEF g
<1>2. \A i \in LiveSlots(h) : Row(g.bank[i]) = Row(h.bank[i])
  BY <1>1 DEF SameFields, Row
<1>3. \A x : x \in Fields(g) <=> x \in Fields(h)
  BY <1>1, <1>2, FieldsIn
<1>. QED  BY <1>3 DEF Fields, g

\* Every file but one of more accounts than bank[] has slots makes a heap.
LEMMA LoadedType ==
    ASSUME NEW f \in File, Len(f.accounts) <= MAX_ACCTS
    PROVE  /\ Loaded(f) \in Heap
           /\ f.kind \in {"cut", "whole"} =>
                  /\ LiveSlots(Loaded(f)) = 0 .. Len(f.accounts) - 1
                  /\ Loaded(f).next_number = f.next_number
                  /\ \A i \in LiveSlots(Loaded(f)) :
                         SameFields(Loaded(f).bank[i], f.accounts[i + 1])
<1>1. f.accounts \in Seq(JsonAccount) /\ f.next_number \in Nat /\ Len(f.accounts) \in Nat
  BY DEF File
<1>2. CASE f.kind \in {"absent", "empty"}
  BY <1>2, FreshHeapType DEF Loaded
<1>3. CASE f.kind \in {"cut", "whole"}
  <2> DEFINE slots == [i \in Slots |-> IF i < Len(f.accounts)
                                       THEN LoadedAccount(f.accounts[i + 1])
                                       ELSE ZeroAccount]
  <2>1. ASSUME NEW i \in Slots, i < Len(f.accounts)
        PROVE  f.accounts[i + 1] \in JsonAccount
    BY <1>1, <2>1, BankAssumption DEF Slots
  <2>2. slots \in [Slots -> Account]
    BY <2>1, LoadedAccountType, ZeroAccountType
  <2>3. Loaded(f) = [bank |-> slots, accounts_in_use |-> Len(f.accounts),
                     next_number |-> f.next_number]
    BY <1>3 DEF Loaded
  <2>4. ASSUME NEW i \in 0 .. Len(f.accounts) - 1
        PROVE  SameFields(slots[i], f.accounts[i + 1])
    <3>1. i \in Slots /\ i < Len(f.accounts)
      BY <1>1, BankAssumption DEF Slots
    <3>. QED  BY <3>1, <2>1, LoadedAccountType
  <2> HIDE DEF slots
  <2>5. Loaded(f) \in Heap
    BY <1>1, <2>2, <2>3, BankAssumption DEF Heap
  <2>6. LiveSlots(Loaded(f)) = 0 .. Len(f.accounts) - 1
    BY <2>3 DEF LiveSlots
  <2>. QED  BY <2>3, <2>4, <2>5, <2>6
<1>4. f.kind \in {"absent", "empty", "cut", "whole"}
  BY DEF File
<1>5. {"absent", "empty"} \cap {"cut", "whole"} = {}
  OBVIOUS
<1>. QED  BY <1>2, <1>3, <1>4, <1>5

\* A whole save, loaded again, brings back all accounts.
LEMMA ImageLoads ==
    ASSUME NEW h \in Heap
    PROVE  /\ Image(h) \in File /\ Image(h).kind = "whole"
           /\ Len(Image(h).accounts) = h.accounts_in_use
           /\ Len(Image(h).accounts) <= MAX_ACCTS
           /\ Fields(Loaded(Image(h))) = Fields(h)
           /\ Loaded(Image(h)).next_number = h.next_number
<1>1. Image(h) \in File /\ Agrees(Image(h), h)
  BY ImageAgrees
<1>2. Image(h).kind = "whole" /\ NoFile.kind = "absent"
  BY DEF Image, NoFile
<1>3. Len(Image(h).accounts) = h.accounts_in_use
  BY <1>1, <1>2 DEF Agrees
<1>4. h.accounts_in_use <= MAX_ACCTS
  BY BankAssumption DEF Heap
<1>. QED  BY <1>1, <1>2, <1>3, <1>4, LoadFields, LoadedAgrees

\* A file that was only emptied brings back none.
LEMMA EmptyLoads ==
    /\ EmptyFile \in File /\ EmptyFile.kind = "empty" /\ Len(EmptyFile.accounts) = 0
    /\ NoFile \in File /\ NoFile.kind = "absent" /\ Len(NoFile.accounts) = 0
    /\ Loaded(EmptyFile) = FreshHeap /\ Loaded(NoFile) = FreshHeap
    /\ Fields(FreshHeap) = {}
<1>1. LiveSlots(FreshHeap) = {}
  BY DEF LiveSlots, FreshHeap
<1>2. Fields(FreshHeap) = {}
  BY <1>1 DEF Fields
<1>3. NoFile \in File /\ NoFile.kind = "absent" /\ Len(NoFile.accounts) = 0
  BY DEF NoFile, File
<1>4. EmptyFile \in File /\ EmptyFile.kind = "empty" /\ Len(EmptyFile.accounts) = 0
  BY <1>3 DEF EmptyFile, File
<1>5. Loaded(EmptyFile) = FreshHeap /\ Loaded(NoFile) = FreshHeap
  BY <1>3, <1>4 DEF Loaded
<1>. QED  BY <1>2, <1>3, <1>4, <1>5

\* A save that was cut short brings back the first accounts, and the number
\* the next account is to get.
LEMMA CutLoads ==
    ASSUME NEW h \in Heap, NEW k \in 0 .. h.accounts_in_use
    PROVE  /\ Cut(h, k) \in File /\ Cut(h, k).kind = "cut"
           /\ Len(Cut(h, k).accounts) = k /\ k <= MAX_ACCTS
           /\ Fields(Loaded(Cut(h, k))) \subseteq Fields(h)
           /\ Loaded(Cut(h, k)).next_number = h.next_number
<1> DEFINE n == h.accounts_in_use
           s == Image(h).accounts
           t == SubSeq(s, 1, k)
           f == Cut(h, k)
<1>1. n \in Nat /\ n <= MAX_ACCTS /\ MAX_ACCTS \in Nat /\ k \in Nat /\ k <= n
  BY BankAssumption DEF Heap
<1>2. /\ Image(h) \in File /\ Len(s) = n
      /\ \A i \in LiveSlots(h) : SameFields(s[i + 1], h.bank[i])
  BY ImageAgrees, ImageLoads DEF Agrees, NoFile
<1>3. s \in Seq(JsonAccount)
  BY <1>2 DEF File
<1>4. t \in Seq(JsonAccount) /\ Len(t) = k /\ \A i \in 1 .. k : t[i] = s[i]
  BY <1>1, <1>2, <1>3
<1>5. Image(h).next_number = h.next_number
  BY DEF Image
<1>6. /\ f \in File /\ f.kind = "cut" /\ f.accounts = t /\ Len(f.accounts) = k
      /\ f.next_number = h.next_number
  BY <1>2, <1>4, <1>5 DEF Cut, File
<1> HIDE DEF s, t, f
<1>7. /\ LiveSlots(Loaded(f)) = 0 .. k - 1
      /\ Loaded(f).next_number = h.next_number
      /\ \A i \in LiveSlots(Loaded(f)) : SameFields(Loaded(f).bank[i], t[i + 1])
  BY <1>1, <1>6, LoadedType
<1>8. ASSUME NEW i \in 0 .. k - 1
      PROVE  i \in LiveSlots(h) /\ Row(Loaded(f).bank[i]) = Row(h.bank[i])
  <2>1. i \in LiveSlots(h) /\ i + 1 \in 1 .. k
    BY <1>1 DEF LiveSlots
  <2>2. SameFields(Loaded(f).bank[i], t[i + 1])
    BY <1>7
  <2>3. t[i + 1] = s[i + 1]
    BY <1>4, <2>1
  <2>4. SameFields(s[i + 1], h.bank[i])
    BY <1>2, <2>1
  <2>5. Row(Loaded(f).bank[i]) = Row(h.bank[i])
    BY <2>2, <2>3, <2>4 DEF SameFields, Row
  <2>. QED  BY <2>1, <2>5
<1>9. \A x \in Fields(Loaded(f)) : x \in Fields(h)
  BY <1>7, <1>8, FieldsIn
<1>. QED  BY <1>1, <1>6, <1>7, <1>9 DEF f

=============================================================================
