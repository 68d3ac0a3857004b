----------------------------- MODULE BankServer -----------------------------
(***************************************************************************)
(* The iterative server, one statement at a time: the account operations   *)
(* of server/bank_account.c, save_data and load_data, the request loop of  *)
(* handle_client, and what can cut in on them.  SIGINT and SIGTERM run     *)
(* shutdown_server between any two statements, from before load_data on;   *)
(* a kill (SIGKILL, power, or the second signal, which signal() leaves at  *)
(* its default under -std=c99) ends the process between any two.           *)
(*                                                                         *)
(* Statements that store to fields nothing reads before the next step are  *)
(* one step; a copy of a struct is one step.  Whatever load_data stored of *)
(* the account at which a cut file ends is left out.                       *)
(***************************************************************************)
EXTENDS BankPersistence, FiniteSets

CONSTANTS
    Amounts,     \* amounts asked for
    MaxOpens,    \* bound: numbers given out by one file's succession
    MaxPostings, \* bound: ntran of an account
    MaxStarts,   \* bound: times the program is started again
    FirstFiles   \* files the first start may find, left by an earlier shutdown

ASSUME ServerAssumption ==
    /\ Amounts \subseteq CInt /\ FirstFiles \subseteq File
    /\ \A f \in FirstFiles : /\ Len(f.accounts) <= f.accounts_in_use
                             /\ f.accounts_in_use <= MAX_ACCTS
    /\ MaxOpens \in Nat /\ MaxPostings \in Nat /\ MaxStarts \in Nat

VARIABLES
    pc,        \* the next statement
    job,       \* the request being served, or the load in progress
    heap,      \* bank[], accounts_in_use, next_number
    file,      \* bank.json
    starts,    \* times the program was started again
    before,    \* history: the accounts as the last answered request left them
    after,     \* history: as the request being served is to leave them
    high,      \* history: next_number at that last answer
    stop       \* history: what a kill now would leave, or the last stop left:
               \*   "clean"    the accounts of the last answer
               \*   "unsaved"  the file as it was before a save that failed
               \*   "torn"     a file truncated by a save of whole operations
               \*   "half"     a half-done operation, saved by the handler
               \*   "loading"  a half-done load, saved by the handler
               \*   "mangled"  several of these

vars == <<pc, job, heap, file, starts, before, after, high, stop>>

Loading  == {"load", "load_number", "load_account"}
Mutating == {"clear", "number", "identity", "balance", "move", "count", "post"}
Saving   == {"truncate", "write"}
Handling == {"handler", "handler_write"}
Waiting  == {"recv", "send"}
First    == {"claim", "shrink", "credit", "debit"}

Running == Loading \cup First \cup Mutating \cup Saving \cup Waiting

NoJob == [slot |-> 0, pin |-> 0, name |-> Blank, type |-> "0", amount |-> 0,
          cut |-> "clean"]

Init ==
    /\ pc = "load"
    /\ job = NoJob
    /\ heap = FreshHeap
    /\ file \in FirstFiles
    /\ starts = 0
    /\ before = Fields(Loaded(file)) /\ after = before
    /\ high = Loaded(file).next_number
    /\ stop = "clean"

Goto(p) == pc' = p

-----------------------------------------------------------------------------
(* main: load_data.                                                        *)

\* main goes on to serve whatever load_data returned.
Ready(h) ==
    /\ Goto("recv")
    /\ heap' = h
    /\ job' = NoJob
    /\ before' = Fields(h) /\ after' = Fields(h)
    /\ high' = h.next_number
    /\ stop' = "clean"

\* No file or no header: nothing is stored.  Otherwise the header is, one
\* field after the other.
LoadHeader ==
    /\ pc = "load"
    /\ IF file.kind \in {"absent", "empty"}
       THEN Ready(heap)
       ELSE /\ Goto("load_number")
            /\ heap' = [heap EXCEPT !.accounts_in_use = file.accounts_in_use]
            /\ UNCHANGED <<job, before, after, high, stop>>
    /\ UNCHANGED <<file, starts>>

LoadNumber ==
    /\ pc = "load_number"
    /\ Goto("load_account")
    /\ heap' = [heap EXCEPT !.next_number = file.next_number]
    /\ UNCHANGED <<job, file, starts, before, after, high, stop>>

LoadAccount ==
    /\ pc = "load_account"
    /\ job.slot < Len(file.accounts)
    /\ heap' = [heap EXCEPT !.bank[job.slot] =
                                LoadedAccount(file.accounts[job.slot + 1])]
    /\ job' = [job EXCEPT !.slot = @ + 1]
    /\ UNCHANGED <<pc, file, starts, before, after, high, stop>>

LoadEndsEarly ==        \* mutant: the loop stops one account short
    /\ pc = "load_account"
    /\ job.slot = Len(file.accounts) - 1 \/ Len(file.accounts) = 0
    /\ Ready([heap EXCEPT !.accounts_in_use = job.slot])
    /\ UNCHANGED <<file, starts>>

LoadEndsUntrimmed ==    \* mutant: accounts_in_use stays what the header said
    /\ pc = "load_account"
    /\ job.slot = Len(file.accounts)
    /\ Ready(heap)
    /\ UNCHANGED <<file, starts>>

\* The file has no further account: accounts_in_use is what was read.
LoadEnds ==
    /\ pc = "load_account"
    /\ job.slot = Len(file.accounts)
    /\ Ready([heap EXCEPT !.accounts_in_use = job.slot])
    /\ UNCHANGED <<file, starts>>

-----------------------------------------------------------------------------
(* handle_client: a request comes in and is judged; one that is refused    *)
(* goes straight to its answer.  Requests that only read are not shown.    *)

Begin(p, j, h) ==
    /\ pc = "recv"
    /\ Goto(p)
    /\ job' = j
    /\ after' = Fields(h)
    /\ UNCHANGED <<heap, file, starts, before, high, stop>>

\* The pin is the one gen_pin is going to return.
AskOpen(name, pin) ==
    /\ OpenStatus(heap) = "OK"
    /\ heap.next_number < FIRST_NUMBER + MaxOpens
    /\ Begin("claim", [NoJob EXCEPT !.slot = heap.accounts_in_use, !.pin = pin,
                                    !.name = name, !.type = "D", !.amount = MIN_BALANCE],
             Opened(heap, name, pin))

AskClose(no, pin) ==
    /\ AuthStatus(heap, no, pin) = "OK"
    /\ Begin("shrink", [NoJob EXCEPT !.slot = Found(heap, no, pin)],
             Closed(heap, Found(heap, no, pin)))

AskDeposit(no, pin, amt) ==
    LET i == Found(heap, no, pin)
    IN  /\ DepositStatus(heap, no, pin, amt) = "OK"
        /\ heap.bank[i].ntran < MaxPostings
        /\ Begin("credit", [NoJob EXCEPT !.slot = i, !.type = "D", !.amount = amt],
                 Deposited(heap, i, amt))

AskWithdraw(no, pin, amt) ==
    LET i == Found(heap, no, pin)
    IN  /\ WithdrawStatus(heap, no, pin, amt) = "OK"
        /\ heap.bank[i].ntran < MaxPostings
        /\ Begin("debit", [NoJob EXCEPT !.slot = i, !.type = "W", !.amount = amt],
                 Withdrawn(heap, i, amt))

Receive ==
    \/ \E name \in Names, pin \in Pins : AskOpen(name, pin)
    \/ \E i \in LiveSlots(heap) :
           LET no == heap.bank[i].number  pin == heap.bank[i].pin
           IN  \/ AskClose(no, pin)
               \/ \E amt \in Amounts : AskDeposit(no, pin, amt) \/ AskWithdraw(no, pin, amt)

-----------------------------------------------------------------------------
(* The statements of open_account, close_account, deposit and withdraw.    *)

Step(from, to, h) ==
    /\ pc = from
    /\ Goto(to)
    /\ heap' = h
    /\ UNCHANGED <<job, file, starts, before, after, high, stop>>

\* &bank[accounts_in_use++]: the slot counts before it is written.
Claim == Step("claim", "clear", [heap EXCEPT !.accounts_in_use = @ + 1])

Clear == Step("clear", "number", [heap EXCEPT !.bank[job.slot] = ZeroAccount])

NumberAgain ==          \* mutant: next_number, not next_number++
    Step("number", "identity", [heap EXCEPT !.bank[job.slot].number = heap.next_number])

Number == Step("number", "identity",
               [heap EXCEPT !.bank[job.slot].number = heap.next_number,
                            !.next_number = @ + 1])

Identity == Step("identity", "balance",
                 [heap EXCEPT !.bank[job.slot].pin = job.pin,
                              !.bank[job.slot].name = job.name])

Fund == Step("balance", "count", [heap EXCEPT !.bank[job.slot].balance = MIN_BALANCE])

Credit == Step("credit", "count",
               [heap EXCEPT !.bank[job.slot] = Credited(@, job.amount)])

Debit == Step("debit", "count",
              [heap EXCEPT !.bank[job.slot] = Debited(@, job.amount)])

\* remember: slot_for, then ntran++, then the transaction is written.
Count == Step("count", "post", [heap EXCEPT !.bank[job.slot].ntran = @ + 1])

PostUnsaved ==          \* mutant: answered without save_data
    LET a == heap.bank[job.slot]
        k == slot_for([a EXCEPT !.ntran = @ - 1])
    IN  Step("post", "send",
             [heap EXCEPT !.bank[job.slot].last[k] =
                 [type |-> job.type, amount |-> job.amount, balance_after |-> a.balance]])

Post ==
    LET a == heap.bank[job.slot]
        k == slot_for([a EXCEPT !.ntran = @ - 1])
    IN  Step("post", "truncate",
             [heap EXCEPT !.bank[job.slot].last[k] =
                 [type |-> job.type, amount |-> job.amount, balance_after |-> a.balance]])

ShrinkTwice == Step("shrink", "move", [heap EXCEPT !.accounts_in_use = @ - 2])  \* mutant

\* bank[i] = bank[--accounts_in_use]
Shrink == Step("shrink", "move", [heap EXCEPT !.accounts_in_use = @ - 1])

MoveBeforeLast ==       \* mutant: the index is decremented once more
    Step("move", "truncate",
         [heap EXCEPT !.bank[job.slot] =
             heap.bank[IF heap.accounts_in_use = 0 THEN 0
                       ELSE heap.accounts_in_use - 1]])

Move == Step("move", "truncate",
             [heap EXCEPT !.bank[job.slot] = heap.bank[heap.accounts_in_use]])

Operate ==
    \/ Claim \/ Clear \/ Number \/ Identity \/ Fund \/ Credit \/ Debit
    \/ Count \/ Post \/ Shrink \/ Move

-----------------------------------------------------------------------------
(* The process ends, and its memory with it.                               *)

Die ==
    /\ Goto("down")
    /\ heap' = FreshHeap
    /\ job' = NoJob
    /\ UNCHANGED <<starts, before, after, high>>

-----------------------------------------------------------------------------
(* save_data, in the operation that changed the globals (pc is "truncate", *)
(* then "write") or in the signal handler ("handler", "handler_write").    *)

SaveStep(p, f) ==
    /\ Goto(p)
    /\ file' = f
    /\ UNCHANGED <<job, heap, starts, before, after, high>>

\* fopen with "w": what the file held is gone before anything is written.
Truncate ==
    /\ \/ pc = "truncate" /\ SaveStep("write", EmptyFile)
       \/ pc = "handler"  /\ SaveStep("handler_write", EmptyFile)
    /\ stop' = IF job.cut = "clean" /\ stop = "clean" THEN "torn" ELSE "mangled"

\* The stream's buffer is full: the header and the first accounts go out.
Flush ==
    /\ pc \in {"write", "handler_write"}
    /\ \E k \in Len(file.accounts) + 1 .. heap.accounts_in_use :
           SaveStep(pc, Cut(heap, k))
    /\ UNCHANGED stop

\* fclose; the operation then answers and the handler exits.
CloseFile ==
    /\ \/ pc = "write" /\ SaveStep("send", Image(heap))
       \/ pc = "handler_write" /\ file' = Image(heap) /\ Die
    /\ stop' = job.cut

\* fopen fails: save_data returns -1, which no caller looks at.
SaveFails ==
    /\ pc = "truncate"
    /\ SaveStep("send", file)
    /\ stop' = "unsaved"

Send ==
    /\ pc = "send"
    /\ Goto("recv")
    /\ job' = NoJob
    /\ before' = after
    /\ high' = heap.next_number
    /\ UNCHANGED <<heap, file, starts, after, stop>>

-----------------------------------------------------------------------------
(* What stops the server.                                                  *)

\* SIGINT or SIGTERM: the handler runs and the program never goes on.
Signal ==
    /\ pc \in Running
    /\ Goto("handler")
    /\ job' = [NoJob EXCEPT !.cut = CASE pc \in Mutating -> "half"
                                      [] pc \in Loading -> IF stop = "clean"
                                                           THEN "loading" ELSE "mangled"
                                      [] OTHER -> "clean"]
    /\ UNCHANGED <<heap, file, starts, before, after, high, stop>>

Kill ==
    /\ pc # "down"
    /\ Die
    /\ UNCHANGED <<file, stop>>

Boot ==
    /\ pc = "down"
    /\ starts < MaxStarts
    /\ starts' = starts + 1
    /\ Goto("load")
    /\ UNCHANGED <<job, heap, file, before, after, high, stop>>

\* The load in progress ends at this step.
Served == pc \in Loading /\ pc' = "recv"

Next ==
    \/ LoadHeader \/ LoadNumber \/ LoadAccount \/ LoadEnds
    \/ Receive \/ Operate
    \/ Truncate \/ Flush \/ CloseFile \/ SaveFails
    \/ Send
    \/ Signal \/ Kill \/ Boot

Spec == Init /\ [][Next]_vars

-----------------------------------------------------------------------------
(* Properties.                                                             *)

TypeOK ==
    /\ pc \in Running \cup Handling \cup {"down"}
    /\ heap \in Heap
    /\ file \in File
    /\ job.slot \in 0 .. MAX_ACCTS
    /\ high \in Nat
    /\ stop \in {"clean", "half", "loading", "torn", "unsaved", "mangled"}

\* The statements of an operation add up to the operation (BankAccount): when
\* it saves, the accounts are those it is to leave, and the transaction just
\* posted is the last one a statement would show.
OperationDone ==
    pc = "truncate" =>
        /\ Fields(heap) = after
        /\ job.type # "0" =>
               LET a == heap.bank[job.slot]  s == Kept(a)
               IN  s[Len(s)] = [type |-> job.type, amount |-> job.amount,
                                balance_after |-> a.balance]

\* A server waiting for a request has in memory what a restart would load,
\* unless a save failed.
FileCurrent ==
    pc = "recv" /\ stop = "clean" =>
        /\ Fields(Loaded(file)) = Fields(heap)
        /\ Loaded(file).next_number = heap.next_number

\* A server that was not stopped in the middle of a load, of an operation's
\* statements or of a save comes back with every account as the last answer
\* left it, or as the request then being served was to leave it.
RestartKeepsAnswers ==
    [][Served /\ stop = "clean" => /\ Fields(heap') \in {before, after}
                                   /\ heap'.next_number >= high]_vars

\* Killed in a save that had got as far as the accounts: what comes back may
\* lack accounts, but has none that was not there, and no number given to a
\* client is given again.
TornKeepsPrefix ==
    [][Served /\ stop = "torn" /\ file.kind = "cut" =>
           /\ Fields(heap') \subseteq before \cup after
           /\ heap'.next_number >= high]_vars

\* "Signal handler for graceful shutdown" (bank_server.c:21), one that finds an
\* operation or the loading of the data half done: the next start has the
\* accounts as the last answer or the request being served left them.
GracefulShutdown ==
    [][Served /\ stop \in {"half", "loading"} => Fields(heap') \in {before, after}]_vars

=============================================================================
