-------------------------- MODULE BankPersistence --------------------------
(***************************************************************************)
(* What save_data writes to bank.json and what load_data makes of it, as   *)
(* in server/bank_persistence.c.  A file is a record:                      *)
(*   kind             "absent", "empty" (nothing but what fopen "w" left), *)
(*                    "cut" (ends inside the array of accounts) or "whole" *)
(*   accounts_in_use, next_number        the header                        *)
(*   accounts         the complete account objects that follow it          *)
(* The text of a JSON value is not modelled here.                          *)
(***************************************************************************)
EXTENDS BankAccount

JsonAccount == [number : Nat, pin : Nat, name : Names \cup {Blank},
                balance : CInt, ntran : Nat, last : Seq(Tran)]

File == [kind : {"absent", "empty", "cut", "whole"}, accounts_in_use : Nat,
         next_number : Nat, accounts : Seq(JsonAccount)]

NoFile == [kind |-> "absent", accounts_in_use |-> 0, next_number |-> 0,
           accounts |-> << >>]

EmptyFile == [NoFile EXCEPT !.kind = "empty"]

\* The transactions go out oldest first, whatever slots they sit in.
AccountJson(a) ==
    [number |-> a.number, pin |-> a.pin, name |-> a.name,
     balance |-> a.balance, ntran |-> a.ntran, last |-> Kept(a)]

\* The file a save_data that runs to its end leaves.
Image(h) ==
    [kind |-> "whole", accounts_in_use |-> h.accounts_in_use,
     next_number |-> h.next_number,
     accounts |-> [k \in 1 .. h.accounts_in_use |-> AccountJson(h.bank[k - 1])]]

\* The file a save_data leaves that ends after account k, once the buffer of
\* its stream has gone out for the first time.
Cut(h, k) == [Image(h) EXCEPT !.kind = "cut", !.accounts = SubSeq(@, 1, k)]

LoadedCounted(j) ==                \* mutant: ntran is the number of objects read
    [number |-> j.number, pin |-> j.pin, name |-> j.name,
     balance |-> j.balance, ntran |-> Len(j.last),
     last |-> [k \in Ring |-> IF k < Len(j.last) THEN j.last[k + 1]
                                                 ELSE ZeroTran]]

\* They come back into the slots from 0 on.
LoadedAccount(j) ==
    [number |-> j.number, pin |-> j.pin, name |-> j.name,
     balance |-> j.balance, ntran |-> j.ntran,
     last |-> [k \in Ring |-> IF k < Len(j.last) THEN j.last[k + 1]
                                                 ELSE ZeroTran]]

\* The globals after load_data in a new process.  It stops at the first
\* account it cannot read and keeps those before it; without a header it
\* changes nothing.
Loaded(f) ==
    IF f.kind \in {"absent", "empty"} THEN FreshHeap
    ELSE [bank |-> [i \in Slots |-> IF i < Len(f.accounts)
                                    THEN LoadedAccount(f.accounts[i + 1])
                                    ELSE ZeroAccount],
          accounts_in_use |-> Len(f.accounts),
          next_number |-> f.next_number]

=============================================================================
