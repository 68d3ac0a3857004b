------------------------------- MODULE Ledger -------------------------------
(***************************************************************************)
(* What the bank promises its clients, without slots, rings or files: a    *)
(* set of accounts named by number, each with the history of everything    *)
(* ever posted to it.  Balances in a history are the exact integers; what  *)
(* an answer reports is the C int that holds one.                          *)
(*                                                                         *)
(* An account also knows the length its history had when the program last  *)
(* started: a statement vouches for no more than what was posted since,    *)
(* once the history is longer than the ring.                               *)
(***************************************************************************)
EXTENDS BankMessages, FiniteSets

VARIABLES
    ledger,     \* the open accounts: number -> [pin, name, history, restored]
    issued,     \* the numbers ever given out
    request,    \* the last request and the answer to it
    response

vars == <<ledger, issued, request, response>>

Posting(typ, amt, bal) == [type |-> typ, amount |-> amt, balance_after |-> bal]

\* A posting as the int fields of a transaction_t hold it.
AsTran(p) == [p EXCEPT !.balance_after = Wrap(@)]

Exact(a) == a.history[Len(a.history)].balance_after

Smaller(m, n) == IF m < n THEN m ELSE n

\* How many of the latest postings a statement gives in place and in full.
Vouched(a) ==
    IF a.restored <= TRANS_KEEP THEN Smaller(TRANS_KEEP, Len(a.history))
    ELSE Smaller(TRANS_KEEP, Len(a.history) - a.restored)

IsStatement(s, a) ==
    LET n == Len(a.history)
    IN  /\ Len(s) = Smaller(TRANS_KEEP, n)
        /\ \A k \in 0 .. Vouched(a) - 1 : s[Len(s) - k] = AsTran(a.history[n - k])
        /\ \A k \in 1 .. Len(s) : \E j \in 1 .. n : s[k] = AsTran(a.history[j])

Authentic(r) ==
    r.account_number \in DOMAIN ledger /\ ledger[r.account_number].pin = r.pin

\* Why a request is turned down; OK if it is not.
Verdict(r) ==
    CASE r.command = "OPEN" ->
            IF Cardinality(DOMAIN ledger) < MAX_ACCTS THEN "OK" ELSE "ERROR"
      [] r.command = "QUIT"    -> "OK"
      [] r.command = "UNKNOWN" -> "ERROR"
      [] r.command = "DEPOSIT" /\ r.amount < MIN_DEPOSIT -> "INVALID"
      [] r.command = "WITHDRAW" /\ (r.amount < MIN_WITHDRAW
                                    \/ r.amount % MIN_WITHDRAW # 0) -> "INVALID"
      [] OTHER ->
            IF ~Authentic(r) THEN "ERROR"
            ELSE IF /\ r.command = "WITHDRAW"
                    /\ Wrap(Exact(ledger[r.account_number]) - r.amount) < MIN_BALANCE
                 THEN "MIN_AMT" ELSE "OK"

Init ==
    /\ ledger = << >>
    /\ issued = {}
    /\ request = NoRequest
    /\ response = Answer("OK")

Refuse(r) ==
    /\ Verdict(r) # "OK"
    /\ response' = Answer(Verdict(r))
    /\ UNCHANGED <<ledger, issued>>

\* The number is one no account ever had.
Open(r) ==
    LET no == response'.account_number
        a  == [pin |-> response'.pin, name |-> r.name, restored |-> 0,
               history |-> <<Posting("D", MIN_BALANCE, MIN_BALANCE)>>]
    IN  /\ no \in Nat \ issued
        /\ a.pin \in Pins
        /\ ledger' = [n \in DOMAIN ledger \cup {no} |->
                         IF n = no THEN a ELSE ledger[n]]
        /\ issued' = issued \cup {no}
        /\ response' = [Answer("OK") EXCEPT !.account_number = no,
                            !.pin = a.pin, !.balance = MIN_BALANCE]

Close(r) ==
    /\ ledger' = [n \in DOMAIN ledger \ {r.account_number} |-> ledger[n]]
    /\ response' = Answer("OK")
    /\ UNCHANGED issued

Post(no, typ, amt, bal) ==
    /\ ledger' = [ledger EXCEPT ![no].history = Append(@, Posting(typ, amt, bal))]
    /\ response' = AnswerBalance(Wrap(bal))
    /\ UNCHANGED issued

Deposit(r) ==
    Post(r.account_number, "D", r.amount, Exact(ledger[r.account_number]) + r.amount)

Withdraw(r) ==
    Post(r.account_number, "W", r.amount, Exact(ledger[r.account_number]) - r.amount)

Balance(r) ==
    /\ response' = AnswerBalance(Wrap(Exact(ledger[r.account_number])))
    /\ UNCHANGED <<ledger, issued>>

Statement(r) ==
    /\ IsStatement(response'.transactions, ledger[r.account_number])
    /\ response' = AnswerStatement(response'.transactions)
    /\ UNCHANGED <<ledger, issued>>

Quit(r) ==
    /\ response' = Answer("OK")
    /\ UNCHANGED <<ledger, issued>>

Grant(r) ==
    /\ Verdict(r) = "OK"
    /\ \/ r.command = "OPEN"      /\ Open(r)
       \/ r.command = "CLOSE"     /\ Close(r)
       \/ r.command = "DEPOSIT"   /\ Deposit(r)
       \/ r.command = "WITHDRAW"  /\ Withdraw(r)
       \/ r.command = "BALANCE"   /\ Balance(r)
       \/ r.command = "STATEMENT" /\ Statement(r)
       \/ r.command = "QUIT"      /\ Quit(r)

Serve(r) == request' = r /\ (Grant(r) \/ Refuse(r))

\* The program stops and starts again: no account is lost or altered.
Restart ==
    /\ ledger' = [n \in DOMAIN ledger |->
                     [ledger[n] EXCEPT !.restored = Len(ledger[n].history)]]
    /\ request' = NoRequest
    /\ response' = Answer("OK")
    /\ UNCHANGED issued

Next == (request'.command # "NONE" /\ Serve(request')) \/ Restart

Spec == Init /\ [][Next]_vars

=============================================================================
