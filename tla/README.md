# The networked bank: specifications, checks and proofs

A small bank in C: a client with a menu, a server that serves one client after
another, a server that forks a child for each client, and a program without a
network. This directory specifies them in TLA+, model-checks the
specifications with TLC and proves theorems about them with TLAPS.

    tlc -config AccountBook.cfg MC_AccountBook     # check a run
    tlapm AccountBookProofs.tla                    # check the proofs

`PROJECT.json` lists components, runs, the source lines behind each
definition, findings, hazards and theorems. Paths below are relative to `src/`.

## 1. The system

| component | source | state | operations |
|---|---|---|---|
| account operations | `server/bank_account.c` | `bank[1000]`, `accounts_in_use`, `next_number` | open, close, deposit, withdraw, balance, statement |
| persistence | `server/bank_persistence.c` | `bank.json` | `save_data`, `load_data` |
| messages | `server/headers.h` | - | `request_t`, `response_t`, sent as the bytes of a struct |
| iterative server | `server/bank_server.c`, `main.c` | the globals above, a listening socket, one client | accept loop, `handle_client`, `shutdown_server` |
| concurrent server | `bank_concurrent/` | the globals once per process, `child_count`, `child_pids[]` | accept and fork, `handle_client`, `child_handler`, `shutdown_server` |
| client | `client/` | a socket, one request and its answer | a menu; each choice sends a request and waits |
| single-unit programs | `server/coi_server.c`, `client/coi_client.c` | as the split programs | the same code in one file each |
| standalone program | `bank_standalone.c` | the same table and file | the same operations from a menu |
| logging | `server/bank_log.c`, `server/loggings.h`, `client/client_logger.c` | a log file | `log_message` |

How they interact. A client sends a `request_t`; `handle_client` judges it, runs
one account operation on the globals and sends a `response_t`. Each operation
that changed the globals calls `save_data`, which rewrites the whole of
`bank.json`; `load_data` reads it once, when the program starts. SIGINT and
SIGTERM run `shutdown_server` inside whatever statement they interrupt: it saves
the globals and exits. In the concurrent server each child has the copy of the
globals it was forked with, all processes save to the same file without a lock,
and SIGCHLD runs `child_handler`, which shares `child_count` and `child_pids[]`
with the accept loop.

What is hard here, and what a correct component has to guarantee:

- *Account table.* Closing moves the last account into the gap. Numbers must
  stay unique, an account must keep its number, PIN, balance and transactions
  through any sequence of opens and closes, and a balance must be that of what
  was posted. The ring of transactions is indexed by a counter that only grows;
  `int` arithmetic wraps.
- *Persistence.* `fopen("w")` destroys the only copy before the new one is
  written; the file stores a ring in another layout than memory does.
- *Signals.* The handler runs between any two statements, in the middle of an
  operation, of a save or of the load, and uses what it interrupted.
- *Processes.* Private copies of a table, one file, inherited counters, PINs
  drawn from one seed, children that outlive their parent.
- *SIGCHLD.* Not queued; it cuts in on `child_count++`, on `realloc`, on itself
  being shut down.
- *Sockets.* A recv may return 0 or a part of a message; an answer may be lost
  after the operation was saved; a client may stay connected for ever; SIGPIPE
  ends a process that sends once too often.
- *Text.* The file is read by skipping to the next comma or brace; names are
  escaped, and `char` is signed.
- *Console.* The stand-alone program and the client do not look at what `scanf`
  returns for the numbers of an operation.

`server/bank_common.h`, which the split sources include, is not in the
repository. `server/headers.h` declares the same types; it also declares the
globals `static`, which in the split build would give every file a table of its
own, so the missing header must declare them `extern`. The models have one set
of globals per process, as `coi_server.c` does.

## 2. Modules

| module | models | composed of |
|---|---|---|
| `BankAccount` | the globals of one process (a *heap*) and the operations on them, as operators | - |
| `BankPersistence` | what `save_data` writes (`Image`) and `load_data` reads (`Loaded`), files cut short included | `BankAccount` |
| `BankMessages` | `request_t`, `response_t`, and how an answer is filled in | `BankAccount` |
| `Ledger` | the abstract specification: what the bank promises, without slots, rings or files | `BankMessages` |
| `AccountBook` | the iterative server request by request, with restarts between requests; implements `Ledger` | `BankPersistence`, `BankMessages`, instance of `Ledger` |
| `BankServer` | the iterative server statement by statement, with signals, kills, failed and torn saves | `BankPersistence` |
| `AtomicBank` | the abstract specification of requests, saves and stops: an operation is one step, and a start finds the accounts of an answer | `BankAccount` |
| `BankServerAtomic` | `BankServer` with history variables for the order of the loaded numbers and for the numbers answered; implements `AtomicBank` | `BankServer`, instance of `AtomicBank` |
| `ConcurrentBank` | parent and children, private tables, one file, signals and kills of each process | `BankPersistence` |
| `ChildTracking` | `child_count` and `child_pids[]` under the accept loop, `child_handler` and `shutdown_server` | - |
| `JsonFile` | the text of `bank.json`, written and read field by field and character by character; implements `Loaded` | `BankPersistence` |
| `Sessions` | clients, connections, backlog, the accept loop and `handle_client` of either server | - |
| `Standalone` | the console program: menu, unchecked scans, operations, saves, kills | `BankPersistence` |
| `BankPersistenceProofs` | lemmas about the operators of `BankAccount` and `BankPersistence` | `BankPersistence` |
| `AccountBookProofs`, `BankServerProofs`, `ConcurrentBankProofs`, `JsonFileProofs`, `StandaloneProofs` | theorems about the module they are named for; the first also that `AccountBook` implements `Ledger`, the second that `BankServerAtomic` implements `AtomicBank` | that module, `BankPersistenceProofs` |
| `ChildTrackingProofs`, `SessionsProofs` | theorems about the module they are named for | that module |
| `MC_*` | constants of the runs | |

**BankAccount.** `bank[]` is a function from slots to records; slots at and above
`accounts_in_use` keep the stale account they last held, as in the code.
`Opened`, `Closed`, `Deposited`, `Withdrawn` are the updates, `OpenStatus`,
`AuthStatus`, `DepositStatus`, `WithdrawStatus` the checks in the order the code
makes them, `slot_for`, `remember`, `Kept` the ring. `Wrap` is the `int` of the
build: two's complement, which is what `-std=c99 -Wall` without optimisation
makes of the overflow in `deposit`. Left out: time stamps, the account type, the
text of a name (name and national id are one value).

**BankPersistence.** A file is its kind (absent, empty, cut inside the array,
whole), the header and the complete account objects. The save unrolls the ring,
oldest first; the load fills it from slot 0. The text is `JsonFile`'s.
Also left out is what `load_data` stored of the one account object at which a cut
file ends: it stays in a slot above `accounts_in_use`, and `open_account` clears
a slot before it uses it.

**AccountBook.** One action per case of the switch of `handle_client`, refusals
included, each with its save; `Shutdown` and `Kill` between two requests, followed
by the load. `hist` and `restored` are history variables: what was posted to
each open account, with exact balances, and how much of it before the last start.

**Ledger.** Accounts named by number, each with the list of all that was posted
to it. It says which requests are turned down and why, that a number is never
given out twice, what balances answers report, and how much of a statement is
vouched for: the last `TRANS_KEEP` postings in order, except that after a restart
of an account with more postings than the ring only those posted since are
certain to be in place (finding `account_book_ring` is why).

**BankServer.** `pc` is the statement to run next: the load (header, number,
accounts), `recv`, the statements of an operation, the save (open, stream
buffers that go out, close) and the send. Stores that nothing reads in between
are one step. `Signal` runs the handler in the middle of any of it, also of
another save; what that does to the file is the handler's own save, since the
interrupted stream, which `exit` flushes, holds a prefix of the same table at the
same place (where the handler's own `fopen` fails, a `Flush` and a kill). `-std=c99` gives `signal()` its one-shot meaning: a second signal
kills. A stream that was cut has the header and at least one account, as they go
out with the first buffer. `before`, `after`, `high` and `stop` are history: the
accounts as the last answer left them and as the request is to leave them,
`next_number` then, and what the last stop interrupted. The end of the process
by SIGPIPE in `send` is one of its kills.

**AtomicBank, BankServerAtomic.** `AtomicBank` is what a client may count on: the
accounts as rows, the rows that the request being served is to leave, what a start
would find on the disk, and whether the last save was whole, failed or is torn. `Ask`
is one whole opening, closing, deposit or withdrawal, `Answer` comes after the save
of it has ended or failed, `Start` finds the accounts of an answer or of the request
that was being served. It promises nothing where the program keeps nothing: a save
cut short and a stop within an operation or a load leave the disk in any state, and
the numbers of what is then loaded may be out of order (accounts with number 0 or a
number used twice, finding `server_graceful`), on which the operations may do anything.
`orderly` is the history variable that tells; `told`, a second one, is the highest
number an answer has told. `BankServerAtomic` maps the variables of
`BankServer` to those of `AtomicBank`; where memory itself is to hold what the
history variables say (at `recv`, in saves, at `send`), the mapping reads memory. The disk is mapped to the
rows the file holds (`Held`), which a lemma shows to be those of `Loaded`.

**ConcurrentBank.** Each process has its heap, `child_count` and next step; an
operation is one step and its save two: `fopen` empties the file, `fclose` writes the
whole text from the start of the file, so that what another process has written is
covered, or left behind the end of the text, which is as far as `load_data` reads.
`Signal` may cut in between the two. The handler then saves through a stream of its
own, and `exit` flushes the first one (`begun`) afterwards, when another process may
have saved and answered: `Leftover` writes any first part of the text over the file.
`garbled` says that the file is then the mix of two tables, or ends in its header;
what `load_data` makes of that is not modelled, and no start finds it (the guard of
`Boot`). A later save makes the file whole again. `rand` records the PINs that the
seed of each start yields: the parent seeds once and never draws, so children of one
start draw the same. Left out: requests that only read or are refused (they change
nothing), saves of more than one stream buffer whose parts interleave, a save whose
`fopen` fails, a second signal before `exit` (a kill).

**ChildTracking.** One thread: `stack` holds the handlers under way, and only the
top one moves. `child_count++` is a read and a store; `track_child_process` is a
check, a `realloc` that may extend or move the block or fail, the two
assignments, and the store at `child_count - 1`. A store or shift outside the
array, or a shift in the block that `realloc` has just freed, sets `smashed`, after
which `realloc` or `free` may abort. `Hang` is the
deadlock of a handler that calls `log_message` while it interrupts another in
`localtime`. Left out: a second SIGINT or SIGTERM, a `fork` that fails. The end
of the process resets the other variables, so that no states differ in what is
gone.

**JsonFile.** `save_data` is the sequence of tokens it writes: keys, integers and
the letter of a transaction are one token, all else is characters, and names are
sequences of bytes with the escapes of `write_json_string`. The reader is a state
machine with the control of `load_data`: `at` says what it reads, `field` which
field of it, `ValueAt` is the skip to a comma and the match of a key, `NameChar` one
turn of `read_json_string`. The file may end at any token from the end of the
header on. `NextTrip` saves what was loaded and loads it again. Left out: a cut
between two digits (the reader then fails at the next comma or brace, as it does
when the integer is there and nothing after it), white space, `nat_id`, account type
and times, files that `save_data` did not write.

**Sessions.** A client is at its menu, waits for the answer to an operation or to
QUIT, or spins at the end of its input; the server's side of its connection is
waiting for a request, about to perform it, or about to answer. A request is its
number within the connection, a message two halves, so that a recv can find one
half only; what operations do to accounts is left to the other modules. The two
`atServer`, `atClient` say what each end knows of the other: `"open"`, `"fin"`
(closed), `"reset"` (the next call returns -1) and `"dead"` (the next send raises
SIGPIPE). That is TCP as the programs see it, and external: bytes arrive in order and
at once; closing a socket with unread data, and a listening socket with connections
not yet accepted, resets; a first send to a closed end is lost and succeeds. `mode`
is the server that runs; the iterative one accepts when it serves nobody, ends with
its client's SIGPIPE and closes that connection when it is stopped, while the
children of the concurrent one live on. `done` and `shown` are history: what the
server ran and what the client showed for each connection.

**Standalone.** The menu's operations scan their numbers without a check. `Scan`
is the choice and these scans. Where one of them finds no number, the operation runs
on variables that were not read, which may hold anything; since what is typed may be
anything too, the values say nothing about which were read. A lone sign is used up by
the scan that fails on it and the menu goes on, as often as such input comes. `jammed`
becomes true if a scan finds the end of the input or something it does not use up:
that stays where it is for all scans to come, the menu's included. An operation changes memory in one
step, which is enough as the program has no handler that would save half of it;
the save is open, buffers that go out, close, or a failed open.

## 3. Runs

| run | module | size | distinct states | result |
|---|---|---|---|---|
| `account_book` | `MC_AccountBook` | 2 slots, ring of 2, `int` of -16..15, amounts 1, 2, 12; 3 openings, 5 postings | 55,880 | 4 invariants, `Isolation`, refinement of `Ledger` hold |
| `bank_server` | `MC_BankServer` | 2 slots, ring of 2, amount 2; 3 openings, `ntran` up to 3, 2 starts, first file absent or of two accounts | 2,738,680 | 4 invariants, 2 action properties, refinement of `AtomicBank` hold |
| `concurrent_bank` | `MC_ConcurrentBank` | parent, 2 children, 2 PINs, 2 operations per child, 2 forks, 2 starts | 1,232,477 | 3 invariants, 1 action property hold |
| `child_tracking` | `MC_ChildTracking` | 3 children, array of 1 at first, 3 forks | 536,563 | 3 invariants, 1 liveness property hold |
| `sessions` | `MC_Sessions` | both servers, 2 clients with 2 and 1 requests, backlog of 1, one connection with messages in two parts | 293,187 | 4 invariants, 1 liveness property hold |
| `json_file` | `MC_JsonFile` | 3 banks of up to 2 accounts, ring of 2, names of up to 3 bytes in a field of 7, every cut, 2 saves and loads | 6,450 | 4 invariants hold |
| `standalone` | `MC_Standalone` | 2 slots, ring of 2, 4 numbers, 2 PINs, 2 amounts; 3 openings, `ntran` up to 3, 2 further starts | 362,594 | 2 invariants, 1 action and 1 liveness property hold |
| `account_book_ring` | | as `account_book` | | `LastFiveKept` violated |
| `server_graceful` | | as `bank_server` | | `GracefulShutdown` violated |
| `concurrent_later` | | as `concurrent_bank` | | `KnownLater` violated |
| `tracking_shutdown` | | as `child_tracking`, array of 2 | | `ShutdownSaves` violated |
| `sessions_ghost` | | as `sessions` | | `ShownWasSent` violated |

What the properties say:

- `NumbersUnique`, `BalanceExplained`, `MinBalanceKept`, `Isolation`
  (`AccountBook`): unique numbers below `next_number`; every balance and count is
  that of the postings, modulo the width of `int`; the floor holds for each
  account no deposit of which overflowed; a request touches at most its own
  account, a refusal none, a restart none. `KeepsPromises`: refinement of `Ledger`.
- `OperationDone`, `FileCurrent` (`BankServer`): the statements of an operation
  add up to the operation, in particular those of a close with its move and those
  of a posting with the counter incremented before the transaction is written; a
  server that waits has in memory what a restart would load. `RestartKeepsAnswers`:
  a stop that did not fall inside the statements of an operation, a load or a
  save loses no answer. `TornKeepsPrefix`: a kill in a save that had got to the
  accounts loses accounts and never invents one or gives a number out again.
- `NumbersUnique` (`BankServerAtomic`): the answer to an opening tells a number above
  all that answers have told before, through `open_account` taken apart into statements,
  signals, kills and starts, and no two accounts of the table share one. Three stops
  are excepted, after which the code does tell a number again: one after a save that
  failed, one in a save that got no further than `fopen`, and one whose handler saved
  a half-done load, or several of these in a row (`Intact`); what is said counts from the last such start. So is a
  table loaded out of order (`orderly`). A half-done opening or a file cut among the
  accounts is no exception. `ImplementsAtomic`:
  the server refines `AtomicBank`, so that a request is seen whole or not at all, by
  its client and by the next start.
- `Twins`, `FileFollowsSaver`, `ShutdownTakesBack` (`ConcurrentBank`) state what
  the private tables come to: children give the same numbers with the same PINs
  to different clients; the file is the table of the child that saved last, whatever
  saves were under way at once, until another process opens it, closes it or exits
  with a save that a signal interrupted; and a shutdown of an idle server restores
  what it had loaded at its start. They say what the code does reliably, not what one
  would want of it. `bank_concurrent/bank.log` shows number 100002 given twice,
  with PIN 3474 both times.
- `NeverUndercounted`, `CalmTracks`, `ZombiesReaped` (`ChildTracking`): the count
  may stay too high but never too low; as long as SIGCHLD has only come between
  two clients and memory was there, the array holds exactly the children not yet
  reaped, through shifts and growth; each zombie is reaped, or the server ends.
- `AnswersMatch`, `OnlyLastUnknown` (`Sessions`): on a connection whose messages
  come whole, the answers shown are those to the first requests in order, and after
  them only failures; the server ran exactly those requests, once each, and at most
  one more. So when a connection breaks the client cannot know of one request,
  its last, and repeating it may do it twice: nothing in the protocol tells.
  `NoBrokenPipe`: clients that come, go and die at any time do not take the server
  with them by SIGPIPE; a request in two parts, answered twice, can. `WaitEnds`: a
  client that waits gets an answer or learns that there is none, and the server
  is rid of a client that is gone. At the iterative server this needs the other
  clients to leave: one that stays, or spins at the end of its input, keeps them
  waiting.
- `LoadsFile` (`JsonFile`): wherever the text ends, the reader comes to the
  accounts, transactions, number and count that `Loaded` says of that file, which is
  what the other modules build on. `NamesKept`: names of characters from 1 to 127
  come back as they were. `NamesSettle`: a name with other bytes, which comes back
  as another one (`char` is signed: byte C3 is written `\uffffffc3` and read as the
  text `ffc3`), does not change again.
- `FileCurrent`, `RestartKeeps` (`Standalone`) are the guarantees of the server, with
  no stop that saves half an operation, and with the last save making up for failed
  ones. `JamEnds`: after input that stays where it is the program ends, and does not
  run operations nobody asked for without end.

Why the bounds are enough. Two slots give a full table, a close of the last and of
the other account, the move, and a slot opened again over a stale copy. A ring of
two wraps with three postings, and a restart finds `ntran` a multiple of the ring
or not. `int` holds -16..15 with a floor of 4, so that one deposit of 12 overflows
and a withdrawal works on a wrapped balance. Two starts give a stop, a load and a
stop in the load; the file of an earlier shutdown lets the first load be
interrupted. Two children overlap in every step of a save and meet a second
server start. Three children and an array of one give two growths, a shift with
an entry on either side, and two signals that merge. Two clients and a backlog of one give a client that waits
behind another, one in the backlog when the server ends, and one that is refused; two
requests on a connection give an answer that is one late. The names hold a quote and
a backslash, control characters with and without a letter of their own, and bytes
whose escapes do not fit the field when read as text. All bounds are in guards
(`MaxOpens`, `MaxPostings`, `MaxStarts`, `MaxRequests`, `MaxForks`, `MaxBoots`,
`MaxSplits`)
and cut off behaviours, never change a step.

`MC_AccountBook` uses a VIEW without `request` and `response`: no action reads
them, so two states that differ in them alone have the same successors and every
step, answer included, is still checked. `MC_ConcurrentBank` has the children as
model values with SYMMETRY: no action or property tells one from another, and the
run has no liveness property. Deadlock is checked in `account_book`
and `sessions`; in the other runs the system may stop: the process has ended and the
bound on starts is reached, or the second load is done.

**Fairness.** Weak fairness, of what a running program does without anybody's
help. `ChildTracking`: `Deliver` (the kernel delivers a pending signal that is not
blocked), `Handler` and `Shutdown` (a running handler, whose calls do not block, goes
on; the hang is an action of its own). `Sessions`: `Accept`, `Serve` of each connection
(a server that can go on does; its recv is enabled only when something is there)
and `ClientReceive`. `Standalone`: `Program`, and `LeaveMenu` once its scanf
cannot read. Nothing is assumed of users, operators, faults, children, or that a
server is started again; that clients leave the iterative server is the premise of
`WaitEnds`, not an assumption. The other modules state safety only.

## 4. Findings

1. `account_book_ring`: after a restart the ring is rotated against `ntran` unless
   `ntran` is a multiple of 5: statements are out of order, and the next posting
   overwrites one that is not the oldest.
2. `server_graceful`: the "graceful" shutdown saves what it interrupts. Ctrl-C
   during the load, whose first two seconds are a `sleep`, saves the empty or partial
   table over the file; in an operation, it saves an account without number or
   PIN, a balance without its transaction, a moved account twice.
3. `concurrent_later`: a client of the concurrent server does not find the account
   another client was given.
4. `tracking_shutdown`: a child that ends while the parent saves at shutdown makes
   `child_handler` read through the freed, nulled array; the parent crashes
   instead of saving.
5. `sessions_ghost`: a client whose connection was closed takes recv's 0 for an
   answer and prints a response nothing was written to.

Four more are in the models and excused, or said the other way round, by the
properties that hold, without a run of their own. `deposit` has no upper bound, and a
sum that overflows `int` is stored far under the minimum balance (the premise of
`MinBalanceKept`). A kill during a save loses accounts that clients had answers for
(`TornKeepsPrefix` promises a prefix). A SIGCHLD between the read and the store of
`child_count++` leaves the count too high for good (`NeverUndercounted` is an
inequality). Names with bytes from 0x80 on change at the first restart
(`NamesSettle`).

A comment that no run is needed for: `bank_account.c:94` says that closing shifts
the tail of the array left; the code moves the last account into the gap.

## 5. Proofs

Each theorem holds for every value of the constants that the module's assumption
allows: any size of table, ring, array or backlog, any set of clients, children,
PINs, names and amounts, and any value of the bounds. The assumptions are what the
source's `#define`s satisfy (positive sizes and limits, a minimum balance that fits an
`int`, positive PINs, amounts that fit an `int`) and, besides, that the children are
finitely many (`ChildTracking`), that the file the first server finds is one that
a shutdown left (`BankServer`), and that what is saved first is a table a program can
have, with names that are C strings and fit their field (`JsonFile`).

| module | theorem | statement |
|---|---|---|
| `AccountBookProofs` | `TypeCorrect`, `UniqueNumbers`, `Explained`, `FloorKept` | `[]TypeOK`, `[]NumbersUnique`, `[]BalanceExplained`, `[]MinBalanceKept` |
| | `Isolates` | `Isolation` |
| | `RingsHold`, `ImplementsLedger` | `[]RInv`; `KeepsPromises`: `AccountBook` implements `Ledger` |
| `BankServerProofs` | `TypeCorrect`, `StatementsAddUp`, `FileIsCurrent` | `[]TypeOK`, `[]OperationDone`, `[]FileCurrent` |
| | `RestartsKeep`, `TornKeeps` | `RestartKeepsAnswers`, `TornKeepsPrefix` |
| | `OrderInvariance`, `NumbersStayUnique` | `[]OrderInv`, `[]NumbersUnique` |
| | `IsAtomic` | `ImplementsAtomic`: `BankServer` implements `AtomicBank` |
| `ConcurrentBankProofs` | `TypeCorrect`, `AreTwins`, `FileIsLastSaver` | `[]TypeOK`, `[]Twins`, `[]FileFollowsSaver` |
| | `TakesBack` | `ShutdownTakesBack` |
| `ChildTrackingProofs` | `TypeCorrect`, `NeverCountsLess`, `CalmlyTracks` | `[]TypeOK`, `[]NeverUndercounted`, `[]CalmTracks` |
| `SessionsProofs` | `TypeCorrect`, `AnswersAreMatched`, `OnlyTheLastUnknown`, `PipesHold` | `[]TypeOK`, `[]AnswersMatch`, `[]OnlyLastUnknown`, `[]NoBrokenPipe` |
| `StandaloneProofs` | `TypeCorrect`, `FileIsCurrent` | `[]TypeOK`, `[]FileCurrent` |
| | `RestartsKeep` | `RestartKeeps` |
| `JsonFileProofs` | `TypeCorrect`, `LoadsWhatIsThere` | `[]TypeOK`, `[]LoadsFile` |
| | `PlainNamesKept`, `NamesSettleAtOnce` | `[]NamesKept`, `[]NamesSettle` |

Every module also has the theorem `Invariance`, that its inductive invariant
`IInv` always holds, one lemma per action (or group of like actions) that it keeps
`IInv`, and a last one that puts them together. Almost none of the checked invariants is
inductive; what has to be added is where the argument is. All the inductive
invariants were checked by TLC on the instances of the runs first.

*The lemmas about operators* are in `BankPersistenceProofs`: what `remember`,
`Opened`, `Closed`, `Deposited` and `Withdrawn` return is an account or a heap;
`Wrap` (`WrapShift`: a chain of wrapped additions is the exact sum wrapped once);
`Found` returns an account with the number and the PIN (`FoundMatches`); and what a
load makes of a whole save (`ImageLoads`), of a file a `fopen` emptied (`EmptyLoads`)
and of one cut after some account (`CutLoads`).

*`AccountBook`.* `IInv` is `Sound(heap, hist)` (the histories are those of exactly
the open accounts, numbers are distinct and below `next_number`, and each account is
`Accounted` by its history: count and wrapped balance agree, and as long as no
posting overflowed the *exact* balance is at or above the floor) and
`Agrees(file, heap)` (a load gives the same accounts, counts and `next_number`). The
exact balance is needed since what is known of the wrapped one alone does not
survive a withdrawal, and the file since a restart makes memory from it. As numbers
are distinct, a posting changes the account of one history, an open adds one
(`OpenedFields`) and a close removes one and moves another without changing it
(`ClosedFields`).

*`BankServer`.* The hard part is a table in the middle of an operation, where
neither `before` nor `after` describes it. `OperationSound` says what the statements
*still to come* will make of it: `FinalRow` is the row the slot will have in the end,
computed from what the slot holds now and what the statement at `pc` and those after
it are to write, and `after` is that row with the rows of all other accounts. So the
statements of an operation keep `after` equal to one expression, one statement at a time.
A close needs another form of it (`after` is the table of `Closed`, or of the move that
is left). `FileSound` says what a load would make of the file for each value of the
history variable `stop`; of a file that a kill cut it only bounds the rows, each of
which is one of `before` or of `after`, as a second process may have been stopped
while it saved what it had loaded of such a file.

*Numbers answered.* `NumbersUnique` needs more than that the table is in order
(`OrderInv`, below): `ToldInv` adds that all numbers told are below `next_number` at the
last answer. `OpeningSound` follows an opening from the request to its answer, as the
number it is to have is first `next_number`, then in the slot; `HalfSound` says that an
operation found half done has not put `next_number` back, nor has the file that the
handler makes of it, and `ToldKept` that a start from any `Intact` file goes on above
`told`.

*`BankServer` implements `AtomicBank`.* What `IInv` lacks is the numbers: that an
opening adds a row, that a posting or a close replaces or removes *one*, and that the
number given out is the next one. `OrderInv` adds them. `PostingInOrder` speaks of the
other accounts only (their numbers are below that of the last answer and none is
`FinalNumber`, the one that the slot is to have) as the slot itself holds a stale
account, then zeroes, then the number; `NumberLeft` is what `next_number` is to be
after the statements still to come. `MoveInOrder` says of a close that the table after
its move is in order (`ClosedInOrder`), and `NumberAfter` that between operations
`next_number` is one more than at the last answer exactly if an account has the number
it was then. All of this holds only for a table that was in order when it was loaded,
which a whole save keeps (`ImageInOrder`); `HistorySound` is what holds of any. Then each
action is a step of `AtomicBank` or none: `AskStep` has the requests (`OthersAreOther`,
`RowsCount` for the room in the table), the statements stutter (`StatementStutters`),
the save is `Write` and `Saved` or, in the handler, `ShutDown` (`CloseFileIsSaved`), and
the load stutters until it ends (`StartStep`).

*`ConcurrentBank`.* `Twins` is about two processes but follows from one sequence:
`rand` at the start the two come from. `Yields` says that an account a process opened
since the fork has the PIN of that sequence at its number, `Peers` that two
processes of one start agree on the PINs of all numbers both know. They need that the
file agrees with itself (`FileClear`), for a parent loads what some earlier child left
in it. `Counts` ties `child_count` to the set of children of this start that were
not reaped, for `ShutdownTakesBack` and for `child_count` not to fall below zero. All of it
has to hold through the exit of a process whose leftover stream puts any number of its
own accounts into the file (`CutHeirs`), or garbles it.

*`ChildTracking`.* At rest, `child_count` is at least the number of the children not
reaped. Within `child_count++` it is not: `Counted` speaks then of the value read
(`reg + 1`) and not of the variable, whatever the handler subtracts from it in between,
and `Owed` is the child that `waitpid` has returned and `child_count--` has not.
`Tracks`, with the same split, says of the array that it `Lists` the children, each
once; the step that needs most is the shift in `child_handler`, which moves the
entries after the one it removes.

*`Sessions`.* The invariant says where the one message of a connection is
(`Coming`, `InHand`, `Ran`, or answered), so that the client and the server are
`InStep` while both ends are open. When the server's end is closed (`CutOff`), an
answer it sent before may still arrive; when the client's end is closed
(`LeftBehind`), its last request may still be run. `Tally(c, m, k)` ties the
histories to these places: the first `m` answers shown are those of the first `m`
requests, all others say that there was none, and the first `k` requests were run, `k`
being `m` or `m + 1`. `Once` (no connection is queued twice) is needed for `Accept`.

*`Standalone`.* `Follows` and `FileSound` tie the history variables to the table and
the file at each place where `main` can be ended. Of an operation that runs on
variables nobody read only the types are used, so the theorems do not depend on
what was in them.

*`AccountBook` implements `Ledger`.* `Promise` is `Ledger` over a refinement mapping:
`Books` takes each number in use to the account the search finds by it (distinct
numbers make it *the* account: `BooksUnique`, `BooksView`), with its history and
what the last restart restored of it, and `Issued` is the set of the numbers below
`next_number`. Each action is shown to be the step of `Ledger` for the same request
and answer (`OpenImplements`, ..., `RestartImplements`); that the server turns down
what `Ledger` does, for the same reason, is `Verdicts` (`BooksCount` for a full
table). All but one part of it needs no more than `IInv`: that a statement shows the
last postings in order needs to know where they are in the ring, which is `RInv`.
`InRing` says that the last `InPlace` postings of an account are in the slots that
`ntran` gives them, and that every slot in use holds some posting of the account.
`RInv` has it twice, of the accounts in memory and of those that a load of the file
would give, as a restart makes the first from the second. A posting keeps it as the
last `TRANS_KEEP` indices are in different slots (`SlotsApart`, `RememberRing`). A
save and a load keep the slots while the postings are no more than the ring and
otherwise the contents only (`RestartRing`): that is why `Ledger` vouches for no
more, and what the finding `account_book_ring` shows.

*`JsonFile`.* The theorems are about any table, names of any length, and a file that
ends at any token. The first half of the module says where everything is in the
text. `save_data` flattens sequences of sequences, by recursion and for as many accounts,
transactions and characters as there are; what is at a place of it follows without an
induction rule from the least element at which it would fail (`LeastNat` of
`BankPersistenceProofs`, in `FlattensExists`, `JoinedAt`, `JoinedOffsets`). `Layout` puts it
together: `HeaderTokens`, for each account `AccountTokens` from the place `Base` on, and
`Off`, the end of each account (`LayoutIs`, for every table that `Saveable` allows). The
second half is the reader. `IInv` says where it is (`ReadsField`, `ReadsName`,
`ReadsArray`, `ReadsTran`, `ReadsClosing`) and what it has made of the account so far
(`FieldsRead`, `LastRead`). Since a skip to a comma or a brace takes the *first* one there
is, the argument is that none comes earlier, and that is only so where the reader has
used up exactly what belongs to the field before: inside a name commas, braces and
quotes may stand, and `read_json_string` has to end at the quote that closes it. The case
that needs care is a byte from 128 on, whose `\uffffffc3` is ten characters of which
the escape takes six: the other four are read as text (`ReadsName` allows for a place
6, 7, 8 or 9 characters into it). `Prefix` makes the text a beginning of what was written,
and `Done` counts the accounts that are all there, which is what `WholeAccounts` is
(`WholeIs`). For a second save and load `IInv` has to give back its own assumption:
what was loaded is `Saveable`, and its names are plain.

The numbers of accounts and the counter `ntran` are unbounded naturals in the
model: after 2^31 openings or postings to one account the C counters would
overflow, which is out of the model's scope.

Only model-checked: liveness (`ZombiesReaped`, `WaitEnds`, `JamEnds`), as the provers
do not handle fairness.

## 6. Not modelled

- The digits of integers and files that `save_data` did not write, such as one edited
  by hand.
- `coi_server.c`, `dto_api.h` and `coi_client.c`: the programs of the split sources
  in one file. What is said of the split programs holds of them too, statement by
  statement, but was read off and mapped to the split sources.
- What clients ask and are answered over a connection, in `Sessions`: `AccountBook` has
  the requests, one at a time, and `Sessions` what becomes of them on the way.
- Several programs on one file other than a server and its children, saves of more
  than one buffer whose parts interleave, and a start that finds the mix of two tables
  that a flush at exit can leave (`garbled`).
- Logging, except for the hang in signal handlers; the socket setup in
  `init_server`, which ends the program when a call fails; a disk that is full
  (the outcome is a cut file, as after a kill, of which `LoadsFile` says what is read).

## 7. Plan

Done, most important first: the account table and its abstraction; persistence and
restarts; statements, signals and kills; processes; child tracking; sessions; the
text of the file; the stand-alone program; the server as an atomic bank. Proved: all
invariants and action properties of the runs that pass, that `AccountBook` implements
`Ledger`, and that `BankServer` implements `AtomicBank`.

`BankServer` is not shown to implement `AccountBook`: `AccountBook` has rings, answers
and statements of account as well, and a save that never fails, so that it could be
said only of behaviours without the faults that `BankServer` is about. `AtomicBank` is
the statement that includes them. What is left is in section 6.
