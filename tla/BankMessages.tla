---------------------------- MODULE BankMessages ----------------------------
(***************************************************************************)
(* request_t and response_t, the messages between a client and a server,   *)
(* as in server/headers.h (server/bank_common.h is not in the repository). *)
(* The account type and the message text are left out.                     *)
(***************************************************************************)
EXTENDS BankAccount

command_t == {"OPEN", "CLOSE", "DEPOSIT", "WITHDRAW", "BALANCE", "STATEMENT",
              "QUIT", "UNKNOWN", "NONE"}   \* NONE: nothing asked since the start

status_t == {"OK", "ERROR", "MIN_AMT", "INVALID"}

request_t == [command : command_t, account_number : Int, pin : Int,
              amount : Int, name : Names \cup {Blank}]

response_t == [status : status_t, account_number : Nat, pin : Nat,
               balance : CInt, transactions : Seq(Tran)]

Ask(cmd, no, pin, amt) ==
    [command |-> cmd, account_number |-> no, pin |-> pin, amount |-> amt,
     name |-> Blank]

AskOpen(name) == [Ask("OPEN", 0, 0, 0) EXCEPT !.name = name]

NoRequest == Ask("NONE", 0, 0, 0)

\* A response that was memset to zero and given a status.
Answer(st) == [status |-> st, account_number |-> 0, pin |-> 0, balance |-> 0,
               transactions |-> << >>]

AnswerOpened(a) ==
    [Answer("OK") EXCEPT !.account_number = a.number, !.pin = a.pin,
                         !.balance = a.balance]

AnswerBalance(bal) == [Answer("OK") EXCEPT !.balance = bal]

AnswerStatement(s) == [Answer("OK") EXCEPT !.transactions = s]

=============================================================================
