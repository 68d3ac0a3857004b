---------------------------- MODULE AccountBook ----------------------------
(***************************************************************************)
(* The iterative bank server as its clients see it when nothing interrupts *)
(* a request: handle_client takes one request at a time, runs the account  *)
(* operation on the globals, which saves the file, and answers.  Between   *)
(* two requests the program may be shut down or killed, and is started     *)
(* again from the file.                                                    *)
(*                                                                         *)
(* hist and restored are history variables: for each open account, what    *)
(* was posted to it, with the exact balances, and how much of that had     *)
(* been posted when the program last started.                              *)
(***************************************************************************)
EXTENDS BankPersistence, BankMessages, FiniteSets

CONSTANTS
    Amounts,     \* amounts asked for
    MaxOpens,    \* bound: accounts ever opened
    MaxPostings  \* bound: postings to the open accounts together

ASSUME BookAssumption ==
    Amounts \subseteq CInt /\ MaxOpens \in Nat /\ MaxPostings \in Nat

VARIABLES
    heap,       \* bank[], accounts_in_use, next_number
    file,       \* bank.json
    hist, restored,
    request, response

vars == <<heap, file, hist, restored, request, response>>

Numbers == {heap.bank[i].number : i \in LiveSlots(heap)}

\* Numbers a client may send: those given out, and one never given out.
Asked == 0 .. FIRST_NUMBER + MaxOpens - 1

\* PINs a client may send: those in use, and one that never is.
AskedPins == Pins \cup {0}

Posting(typ, amt, bal) == [type |-> typ, amount |-> amt, balance_after |-> bal]

AsTran(p) == [p EXCEPT !.balance_after = Wrap(@)]

Exact(no) == hist[no][Len(hist[no])].balance_after

Init ==
    /\ heap = FreshHeap
    /\ file = NoFile
    /\ hist = << >>
    /\ restored = << >>
    /\ request = NoRequest
    /\ response = Answer("OK")

-----------------------------------------------------------------------------
(* The cases of the switch in handle_client.                               *)

Refuse(st) ==
    /\ st # "OK"
    /\ response' = Answer(st)
    /\ UNCHANGED <<heap, file, hist, restored>>

CommitUnsaved(h) == heap' = h /\ UNCHANGED file   \* mutant: no save_data

\* Every operation that changes the globals ends with save_data.
Commit(h) == heap' = h /\ file' = Image(h)

Open(name) ==
    /\ request' = AskOpen(name)
    /\ \/ Refuse(OpenStatus(heap))
       \/ /\ OpenStatus(heap) = "OK"
          /\ heap.next_number < FIRST_NUMBER + MaxOpens
          /\ LET no == heap.next_number
                 Post == [n \in DOMAIN hist \cup {no} |->
                             IF n = no THEN <<Posting("D", MIN_BALANCE, MIN_BALANCE)>>
                             ELSE hist[n]]
             IN  /\ \E pin \in Pins : Commit(Opened(heap, name, pin))
                 /\ hist' = Post
                 /\ restored' = [n \in DOMAIN restored \cup {no} |->
                                    IF n = no THEN 0 ELSE restored[n]]
          /\ response' = AnswerOpened(heap'.bank[heap.accounts_in_use])

Close(no, pin) ==
    /\ request' = Ask("CLOSE", no, pin, 0)
    /\ \/ Refuse(AuthStatus(heap, no, pin))
       \/ /\ AuthStatus(heap, no, pin) = "OK"
          /\ Commit(Closed(heap, Found(heap, no, pin)))
          /\ hist' = [n \in DOMAIN hist \ {no} |-> hist[n]]
          /\ restored' = [n \in DOMAIN restored \ {no} |-> restored[n]]
          /\ response' = Answer("OK")

Postings == UNION {{n} \X DOMAIN hist[n] : n \in DOMAIN hist}

Record(no, typ, amt, bal) ==
    /\ Cardinality(Postings) < MaxPostings
    /\ hist' = [hist EXCEPT ![no] = Append(@, Posting(typ, amt, bal))]
    /\ UNCHANGED restored

\* A second lookup, in balance, gives the balance to report.
BalanceOf(h, no, pin) == h.bank[Found(h, no, pin)].balance

Deposit(no, pin, amt) ==
    /\ request' = Ask("DEPOSIT", no, pin, amt)
    /\ \/ Refuse(DepositStatus(heap, no, pin, amt))
       \/ /\ DepositStatus(heap, no, pin, amt) = "OK"
          /\ Commit(Deposited(heap, Found(heap, no, pin), amt))
          /\ Record(no, "D", amt, Exact(no) + amt)
          /\ response' = AnswerBalance(BalanceOf(heap', no, pin))

Withdraw(no, pin, amt) ==
    /\ request' = Ask("WITHDRAW", no, pin, amt)
    /\ \/ Refuse(WithdrawStatus(heap, no, pin, amt))
       \/ /\ WithdrawStatus(heap, no, pin, amt) = "OK"
          /\ Commit(Withdrawn(heap, Found(heap, no, pin), amt))
          /\ Record(no, "W", amt, Exact(no) - amt)
          /\ response' = AnswerBalance(BalanceOf(heap', no, pin))

Balance(no, pin) ==
    /\ request' = Ask("BALANCE", no, pin, 0)
    /\ \/ Refuse(AuthStatus(heap, no, pin))
       \/ /\ AuthStatus(heap, no, pin) = "OK"
          /\ response' = AnswerBalance(BalanceOf(heap, no, pin))
          /\ UNCHANGED <<heap, file, hist, restored>>

Statement(no, pin) ==
    /\ request' = Ask("STATEMENT", no, pin, 0)
    /\ \/ Refuse(AuthStatus(heap, no, pin))
       \/ /\ AuthStatus(heap, no, pin) = "OK"
          /\ response' = AnswerStatement(Kept(heap.bank[Found(heap, no, pin)]))
          /\ UNCHANGED <<heap, file, hist, restored>>

\* QUIT is answered and ends the session; any other number is not a command.
Quit ==
    /\ request' = Ask("QUIT", 0, 0, 0)
    /\ response' = Answer("OK")
    /\ UNCHANGED <<heap, file, hist, restored>>

UnknownCommand ==
    /\ request' = Ask("UNKNOWN", 0, 0, 0)
    /\ Refuse("ERROR")

-----------------------------------------------------------------------------
(* The program stops and starts again.                                     *)

Start(f) ==
    /\ heap' = Loaded(f)
    /\ file' = f
    /\ restored' = [n \in DOMAIN hist |-> Len(hist[n])]
    /\ request' = NoRequest
    /\ response' = Answer("OK")
    /\ UNCHANGED hist

Shutdown == Start(Image(heap))   \* shutdown_server saves, then exits
Kill     == Start(file)

Serve ==
    \/ \E name \in Names : Open(name)
    \/ \E no \in Asked, pin \in AskedPins :
           \/ Close(no, pin) \/ Balance(no, pin) \/ Statement(no, pin)
           \/ \E amt \in Amounts : Deposit(no, pin, amt) \/ Withdraw(no, pin, amt)
    \/ Quit \/ UnknownCommand

Restart == Shutdown \/ Kill

Next == Serve \/ Restart

Spec == Init /\ [][Next]_vars

-----------------------------------------------------------------------------
(* Properties.                                                             *)

TypeOK ==
    /\ heap \in Heap
    /\ file \in File
    /\ DOMAIN hist = Numbers /\ DOMAIN restored = Numbers
    /\ request \in request_t
    /\ response \in response_t

\* No two open accounts share a number, and next_number is above all of
\* them, through every close (which moves an account) and every restart.
NumbersUnique ==
    /\ \A i, j \in LiveSlots(heap) :
           heap.bank[i].number = heap.bank[j].number => i = j
    /\ \A i \in LiveSlots(heap) : heap.bank[i].number < heap.next_number

\* The balance and ntran of an account are those of all its postings, up to
\* the width of an int: none is lost, doubled or posted to another account.
BalanceExplained ==
    \A i \in LiveSlots(heap) :
        LET a == heap.bank[i]
        IN  a.ntran = Len(hist[a.number]) /\ a.balance = Wrap(Exact(a.number))

\* An account no deposit of which overflowed int never goes under the floor
\* that open_account starts it at and withdraw checks.
MinBalanceKept ==
    \A i \in LiveSlots(heap) :
        LET a == heap.bank[i]
        IN  (\A k \in 1 .. Len(hist[a.number]) :
                hist[a.number][k].balance_after <= INT_MAX)
            => a.balance >= MIN_BALANCE

Others(h, no) == {f \in Fields(h) : f[1] # no}

Isolated ==
    /\ response'.status # "OK" => heap' = heap
    /\ request'.command = "NONE" => Fields(heap') = Fields(heap)
    /\ request'.command # "NONE" =>
           LET no == IF request'.command = "OPEN" THEN response'.account_number
                     ELSE request'.account_number
           IN  Others(heap', no) = Others(heap, no)

\* An answer other than OK changes nothing; an OK answer changes at most the
\* account that was asked for (or opened); a restart changes no account's
\* number, PIN, holder, balance or count of transactions.
Isolation == [][Isolated]_vars

\* The account of number n in bank[], with its history.
Entry(n) ==
    LET a == heap.bank[CHOOSE i \in LiveSlots(heap) : heap.bank[i].number = n]
    IN  [pin |-> a.pin, name |-> a.name, history |-> hist[n], restored |-> restored[n]]

Books  == [n \in DOMAIN hist |-> Entry(n)]
Issued == FIRST_NUMBER .. heap.next_number - 1

\* The bank keeps the ledger's promises (Ledger), statements included.
Promise == INSTANCE Ledger WITH ledger <- Books, issued <- Issued

KeepsPromises == Promise!Spec

\* headers.h: "ring buffer of last 5": the kept transactions of an account
\* are its last ones, in order.
LastFiveKept ==
    \A i \in LiveSlots(heap) :
        LET h == hist[heap.bank[i].number]
            n == IF Len(h) < TRANS_KEEP THEN Len(h) ELSE TRANS_KEEP
        IN  Kept(heap.bank[i]) =
                [k \in 1 .. n |-> AsTran(h[Len(h) - n + k])]

=============================================================================
