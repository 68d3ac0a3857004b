---------------------------- MODULE BankAccount ----------------------------
(***************************************************************************)
(* The account table of the bank and the operations on it, as in           *)
(* server/bank_account.c.  Every server variant of the repository links or *)
(* repeats this code.  A heap is the value of the three globals            *)
(* bank[], accounts_in_use and next_number of one process.                 *)
(*                                                                         *)
(* The slots of bank[] at and above accounts_in_use are kept: the code     *)
(* never clears them when an account is closed, so they hold stale copies. *)
(* The time stamp of a transaction and the account type are left out; the  *)
(* name and the national id are one value, the holder.                     *)
(***************************************************************************)
EXTENDS Integers, Sequences

CONSTANTS
    MAX_ACCTS,     \* length of bank[]
    MIN_BALANCE,   \* opening balance and floor of a withdrawal
    MIN_DEPOSIT,   \* smallest deposit
    MIN_WITHDRAW,  \* withdrawal unit
    TRANS_KEEP,    \* length of an account's ring of transactions
    FIRST_NUMBER,  \* initial value of next_number
    INT_MAX,       \* largest C int; the smallest is -INT_MAX - 1
    Pins,          \* what gen_pin can return (1000..9999 in the code)
    Names          \* account holders

ASSUME BankAssumption ==
    /\ MAX_ACCTS \in Nat \ {0}
    /\ TRANS_KEEP \in Nat \ {0}
    /\ FIRST_NUMBER \in Nat \ {0}
    /\ MIN_DEPOSIT \in Nat \ {0}
    /\ MIN_WITHDRAW \in Nat \ {0}
    /\ MIN_BALANCE \in Nat \ {0}
    /\ INT_MAX \in Nat /\ MIN_BALANCE <= INT_MAX
    /\ Pins \subseteq Nat \ {0}

CInt == -INT_MAX - 1 .. INT_MAX

\* The int that holds the integer x: two's complement, so that the build's
\* additions and subtractions wrap.
Wrap(x) == ((x + INT_MAX + 1) % (2 * (INT_MAX + 1))) - INT_MAX - 1

Slots == 0 .. MAX_ACCTS - 1
Ring  == 0 .. TRANS_KEEP - 1

Blank == "blank"   \* the holder of memory nothing was written to

ZeroTran == [type |-> "0", amount |-> 0, balance_after |-> 0]
Tran     == [type : {"D", "W", "0"}, amount : CInt, balance_after : CInt]

ZeroAccount ==
    [number |-> 0, pin |-> 0, name |-> Blank, balance |-> 0,
     last |-> [k \in Ring |-> ZeroTran], ntran |-> 0]

Account ==
    [number : Nat, pin : Nat, name : Names \cup {Blank}, balance : CInt,
     last : [Ring -> Tran], ntran : Nat]

Heap == [bank : [Slots -> Account], accounts_in_use : 0 .. MAX_ACCTS,
         next_number : Nat]

\* The globals as the program starts, before load_data.
FreshHeap == [bank |-> [i \in Slots |-> ZeroAccount], accounts_in_use |-> 0,
              next_number |-> FIRST_NUMBER]

LiveSlots(h) == 0 .. h.accounts_in_use - 1

\* The accounts, without their transactions and whatever slots they are in.
Fields(h) ==
    {<<a.number, a.pin, a.name, a.balance, a.ntran>> :
         a \in {h.bank[i] : i \in LiveSlots(h)}}

-----------------------------------------------------------------------------
(* Recording a transaction: remember and slot_for.                         *)

SlotForNext(a) == (a.ntran + 1) % TRANS_KEEP   \* mutant: index taken after ntran++

slot_for(a) == a.ntran % TRANS_KEEP

remember(a, typ, amt) ==
    LET t == [type |-> typ, amount |-> amt, balance_after |-> a.balance]
    IN  [a EXCEPT !.ntran = @ + 1, !.last = [@ EXCEPT ![slot_for(a)] = t]]

\* The kept transactions, in the order of the loops of statement and of
\* write_account_json: indices ntran - TRANS_KEEP (or 0) to ntran - 1.
Kept(a) ==
    LET start == IF a.ntran > TRANS_KEEP THEN a.ntran - TRANS_KEEP ELSE 0
    IN  [k \in 1 .. a.ntran - start |-> a.last[(start + k - 1) % TRANS_KEEP]]

-----------------------------------------------------------------------------
(* Looking an account up: the loop every operation starts with.            *)

Matches(h, no, pin) ==
    {i \in LiveSlots(h) : h.bank[i].number = no /\ h.bank[i].pin = pin}

Found(h, no, pin) ==
    CHOOSE i \in Matches(h, no, pin) : \A j \in Matches(h, no, pin) : i <= j

-----------------------------------------------------------------------------
(* Status each operation returns.                                          *)

OpenStatus(h) == IF h.accounts_in_use >= MAX_ACCTS THEN "ERROR" ELSE "OK"

AuthStatus(h, no, pin) == IF Matches(h, no, pin) = {} THEN "ERROR" ELSE "OK"

DepositStatus(h, no, pin, amt) ==
    IF amt < MIN_DEPOSIT THEN "INVALID" ELSE AuthStatus(h, no, pin)

LaxWithdrawStatus(h, no, pin, amt) ==          \* mutant: floor is zero
    IF amt < MIN_WITHDRAW \/ amt % MIN_WITHDRAW # 0 THEN "INVALID"
    ELSE IF Matches(h, no, pin) = {} THEN "ERROR"
    ELSE IF Wrap(h.bank[Found(h, no, pin)].balance - amt) < 0 THEN "MIN_AMT"
    ELSE "OK"

WithdrawStatus(h, no, pin, amt) ==
    IF amt < MIN_WITHDRAW \/ amt % MIN_WITHDRAW # 0 THEN "INVALID"
    ELSE IF Matches(h, no, pin) = {} THEN "ERROR"
    ELSE IF Wrap(h.bank[Found(h, no, pin)].balance - amt) < MIN_BALANCE
         THEN "MIN_AMT"
    ELSE "OK"

-----------------------------------------------------------------------------
(* What the successful operations do to the account and the heap.          *)

Credited(a, amt) == [a EXCEPT !.balance = Wrap(@ + amt)]
Debited(a, amt)  == [a EXCEPT !.balance = Wrap(@ - amt)]

OpenedBySlot(h, name, pin) ==      \* mutant: number made from the slot
    LET no == FIRST_NUMBER + h.accounts_in_use
        a  == [ZeroAccount EXCEPT !.number = no, !.pin = pin,
                                  !.name = name, !.balance = MIN_BALANCE]
    IN  [bank |-> [h.bank EXCEPT ![h.accounts_in_use] =
                       remember(a, "D", MIN_BALANCE)],
         accounts_in_use |-> h.accounts_in_use + 1,
         next_number |-> h.next_number + 1]

Opened(h, name, pin) ==
    LET a == [ZeroAccount EXCEPT !.number = h.next_number, !.pin = pin,
                                 !.name = name, !.balance = MIN_BALANCE]
    IN  [bank |-> [h.bank EXCEPT ![h.accounts_in_use] =
                       remember(a, "D", MIN_BALANCE)],
         accounts_in_use |-> h.accounts_in_use + 1,
         next_number |-> h.next_number + 1]

ClosedInPlace(h, i) ==             \* mutant: accounts_in_use - 1, not --
    LET n == h.accounts_in_use - 1
    IN  [h EXCEPT !.bank = [@ EXCEPT ![i] = h.bank[n]]]

ClosedTwice(h, i) ==               \* mutant: accounts_in_use decremented once more
    LET n == h.accounts_in_use - 1
    IN  [h EXCEPT !.bank = [@ EXCEPT ![i] = h.bank[n]], !.accounts_in_use = n - 1]

\* bank[i] = bank[--accounts_in_use]: the last account moves into the gap.
Closed(h, i) ==
    LET n == h.accounts_in_use - 1
    IN  [h EXCEPT !.bank = [@ EXCEPT ![i] = h.bank[n]],
                  !.accounts_in_use = n]

Deposited(h, i, amt) ==
    [h EXCEPT !.bank[i] = remember(Credited(@, amt), "D", amt)]

Withdrawn(h, i, amt) ==
    [h EXCEPT !.bank[i] = remember(Debited(@, amt), "W", amt)]

=============================================================================
