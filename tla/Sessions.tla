------------------------------ MODULE Sessions ------------------------------
(***************************************************************************)
(* Clients, connections and the server's side of them: client/*.c, the     *)
(* accept loop and handle_client of bank_server.c and of                   *)
(* bank_server_concurrent.c.  What an operation does to the accounts is    *)
(* left to the other modules; here a request is its number within its      *)
(* connection, and a message on the wire is its two halves.                *)
(*                                                                         *)
(* TCP is external: bytes arrive in order; recv returns what is there, up  *)
(* to one message; a peer that closes leaves an end of file behind, or a   *)
(* reset when it had data it did not read; a message sent to a closed end  *)
(* is lost and makes the connection one on which a further send raises     *)
(* SIGPIPE, which none of the programs handles.                            *)
(***************************************************************************)
EXTENDS Integers, Sequences, FiniteSets

CONSTANTS
    Clients,      \* client processes
    Modes,        \* "iterative", "concurrent": the server programs
    QueueLimit,   \* connections the kernel holds for accept (listen: 5, 10)
    MaxRequests,  \* bound: requests of each client
    MaxSplits     \* bound: connections on which a message comes in two parts

ASSUME SessionsAssumption ==
    /\ Modes \subseteq {"iterative", "concurrent"}
    /\ QueueLimit \in Nat \ {0} /\ MaxRequests \in [Clients -> Nat] /\ MaxSplits \in Nat

VARIABLES
    mode,      \* the server program that runs
    up,        \* it has its listening socket
    queue,     \* connections not yet accepted
    handler,   \* the step handle_client is at for a client's connection
    req,       \* its request_t: the request its command is of, and whether
               \*   all of it is of that request
    pc,        \* the step a client is at
    asked,     \* requests of the client so far
    toServer, toClient,   \* bytes that arrived and were not read
    atServer, atClient,   \* what an end knows of the other end:
               \*   "open"; "fin", closed; "reset", the next call reports the
               \*   reset; "dead", the next send raises SIGPIPE
    done,      \* history: the requests run for this connection
    shown,     \* history: the answers the client showed
    short,     \* history: a message of this connection came in two parts
    broken     \* history: a server process was ended by SIGPIPE

clientVars == <<pc, asked, shown>>
wireVars   == <<toServer, toClient, atServer, atClient, short>>
serverVars == <<mode, up, queue, handler, req, done, broken>>
vars == <<clientVars, wireVars, serverVars>>

QUIT    == 0       \* the number of the message disconnect_from_server sends
GARBAGE == -1      \* bytes that are not the start of a message
NOTHING == -2      \* recv returned 0, response_t was not written
FAILED  == -3      \* "Send failed", "Receive failed"

Numbers == Nat
Halves  == (Numbers \cup {GARBAGE}) \X {1, 2}

NoRequest == [no |-> GARBAGE, whole |-> FALSE]

Message(n) == << <<n, 1>>, <<n, 2>> >>

\* What the first bytes received are the start of.
StartOf(bytes) == IF bytes[1][2] = 1 THEN bytes[1][1] ELSE GARBAGE

Connected == {"menu", "wait", "bye", "spin"}

Init ==
    /\ mode \in Modes
    /\ up = TRUE
    /\ queue = << >>
    /\ handler = [c \in Clients |-> "none"]
    /\ req = [c \in Clients |-> NoRequest]
    /\ pc = [c \in Clients |-> "off"]
    /\ asked = [c \in Clients |-> 0]
    /\ toServer = [c \in Clients |-> << >>]
    /\ toClient = [c \in Clients |-> << >>]
    /\ atServer = [c \in Clients |-> "open"]
    /\ atClient = [c \in Clients |-> "open"]
    /\ done = [c \in Clients |-> << >>]
    /\ shown = [c \in Clients |-> << >>]
    /\ short = [c \in Clients |-> FALSE]
    /\ broken = FALSE

Queued == {queue[i] : i \in DOMAIN queue}
Served == {c \in Clients : handler[c] # "none"}

\* How an end that closes is seen by the other one.
Farewell(unread) == IF unread = << >> THEN "fin" ELSE "reset"

\* The number of halves a recv takes: a message, or the part of it that is
\* there.
Taken(c, bytes) ==
    {k \in 1 .. 2 : /\ k <= Len(bytes)
                    /\ k = 1 /\ Len(bytes) > 1 =>
                           /\ ~ short[c]
                           /\ Cardinality({d \in Clients : short[d]}) < MaxSplits}

Parted(c, k, bytes) ==
    short' = [short EXCEPT ![c] = @ \/ (k = 1 /\ Len(bytes) > 1)]

Rest(k, bytes) == SubSeq(bytes, k + 1, Len(bytes))

-----------------------------------------------------------------------------
(* The client.                                                             *)

Connect(c) ==
    /\ pc[c] = "off"
    /\ up /\ Len(queue) < QueueLimit
    /\ pc' = [pc EXCEPT ![c] = "menu"]
    /\ queue' = Append(queue, c)
    /\ UNCHANGED <<asked, shown, wireVars, mode, up, handler, req, done, broken>>

\* Refused, or the queue was full until connect gave up: the program exits.
ConnectFails(c) ==
    /\ pc[c] = "off"
    /\ ~ up \/ Len(queue) = QueueLimit
    /\ pc' = [pc EXCEPT ![c] = "gone"]
    /\ UNCHANGED <<asked, shown, wireVars, serverVars>>

\* exit, or death: the kernel closes the client's socket.
Leave(c, unread) ==
    /\ pc' = [pc EXCEPT ![c] = "gone"]
    /\ atServer' = [atServer EXCEPT ![c] = IF c \in Queued \cup Served THEN Farewell(unread) ELSE "open"]
    /\ toClient' = [toClient EXCEPT ![c] = << >>]
    /\ atClient' = [atClient EXCEPT ![c] = "open"]

Show(c, answer) == shown' = [shown EXCEPT ![c] = Append(@, answer)]

\* send of message n; the client goes on at p, or at q when send returns -1.
ClientSend(c, n, p, q) ==
    \/ /\ atClient[c] = "open"
       /\ toServer' = [toServer EXCEPT ![c] = @ \o Message(n)]
       /\ pc' = [pc EXCEPT ![c] = p]
       /\ UNCHANGED <<toClient, atServer, atClient, shown>>
    \/ /\ atClient[c] = "fin"
       /\ \E s \in {"fin", "dead"} : atClient' = [atClient EXCEPT ![c] = s]
       /\ pc' = [pc EXCEPT ![c] = p]
       /\ UNCHANGED <<toServer, toClient, atServer, shown>>
    \/ /\ atClient[c] = "reset"
       /\ atClient' = [atClient EXCEPT ![c] = "dead"]
       /\ pc' = [pc EXCEPT ![c] = q]
       /\ IF n = QUIT THEN UNCHANGED shown ELSE Show(c, FAILED)
       /\ UNCHANGED <<toServer, toClient, atServer>>
    \/ /\ atClient[c] = "dead"
       /\ Leave(c, toClient[c])
       /\ UNCHANGED <<toServer, shown>>

\* One of the operations of the menu: a request is filled in and sent.
Ask(c) ==
    /\ pc[c] = "menu"
    /\ asked[c] < MaxRequests[c]
    /\ asked' = [asked EXCEPT ![c] = @ + 1]
    /\ ClientSend(c, asked[c] + 1, "wait", "menu")
    /\ UNCHANGED <<short, serverVars>>

\* disconnect_from_server waits for an answer even when its send failed.
Disconnect(c) ==
    /\ pc[c] = "menu"
    /\ ClientSend(c, QUIT, "bye", "bye")
    /\ UNCHANGED <<asked, short, serverVars>>

\* The menu's scanf finds the end of the input: its loop never ends.
EndOfInput(c) ==
    /\ pc[c] = "menu"
    /\ pc' = [pc EXCEPT ![c] = "spin"]
    /\ UNCHANGED <<asked, shown, wireVars, serverVars>>

ClientKilled(c) ==
    /\ pc[c] \in Connected
    /\ Leave(c, toClient[c])
    /\ UNCHANGED <<asked, shown, toServer, short, serverVars>>

\* recv finds bytes: whatever they are the start of is shown as the answer.
ReceiveAnswer(c) ==
    \E k \in Taken(c, toClient[c]) :
        LET rest == Rest(k, toClient[c])
        IN  /\ \/ /\ pc[c] = "wait"
                  /\ Show(c, StartOf(toClient[c]))
                  /\ pc' = [pc EXCEPT ![c] = "menu"]
                  /\ toClient' = [toClient EXCEPT ![c] = rest]
                  /\ UNCHANGED <<atServer, atClient>>
               \/ /\ pc[c] = "bye"
                  /\ Leave(c, rest)
                  /\ UNCHANGED shown
            /\ Parted(c, k, toClient[c])
            /\ UNCHANGED <<asked, toServer, serverVars>>

\* recv returns 0 or -1.  Only -1 is an error to an operation, which shows
\* what its response_t holds otherwise; a program that dies of what it finds
\* there is one that is killed after it.
NoAnswer(c) ==
    /\ toClient[c] = << >> /\ atClient[c] # "open"
    /\ \/ /\ pc[c] = "wait"
          /\ \/ atClient[c] # "reset" /\ Show(c, NOTHING) /\ UNCHANGED atClient
             \/ /\ atClient[c] # "fin" /\ Show(c, FAILED)
                /\ atClient' = [atClient EXCEPT ![c] = "dead"]
          /\ pc' = [pc EXCEPT ![c] = "menu"]
          /\ UNCHANGED <<toClient, atServer>>
       \/ /\ pc[c] = "bye"
          /\ Leave(c, << >>)
          /\ UNCHANGED shown
    /\ UNCHANGED <<asked, toServer, short, serverVars>>

ClientReceive(c) == ReceiveAnswer(c) \/ NoAnswer(c)

-----------------------------------------------------------------------------
(* The server.                                                             *)

\* The server's ends of connections are closed, those it accepted and those
\* the kernel still held for it.
CloseEnds(accepted, waiting) ==
    LET closed == accepted \cup waiting
        Seen(c) == IF c \in accepted THEN Farewell(toServer[c]) ELSE "reset"
    IN  /\ handler' = [c \in Clients |-> IF c \in closed THEN "none" ELSE handler[c]]
        /\ req' = [c \in Clients |-> IF c \in closed THEN NoRequest ELSE req[c]]
        /\ toServer' = [c \in Clients |-> IF c \in closed THEN << >> ELSE toServer[c]]
        /\ atServer' = [c \in Clients |-> IF c \in closed THEN "open" ELSE atServer[c]]
        /\ atClient' = [c \in Clients |-> IF c \in closed /\ pc[c] # "gone"
                                         THEN Seen(c) ELSE atClient[c]]

CloseEnd(c) == CloseEnds({c}, {})

AcceptPeeks ==          \* mutant: the connection stays in the queue
    /\ up /\ queue # << >>
    /\ mode = "iterative" => Served = {}
    /\ UNCHANGED queue
    /\ handler' = [handler EXCEPT ![Head(queue)] = "recv"]
    /\ UNCHANGED <<clientVars, wireVars, mode, up, req, done, broken>>

\* The iterative server comes back to accept when its client is done with.
Accept ==
    /\ up /\ queue # << >>
    /\ mode = "iterative" => Served = {}
    /\ queue' = Tail(queue)
    /\ handler' = [handler EXCEPT ![Head(queue)] = "recv"]
    /\ UNCHANGED <<clientVars, wireVars, mode, up, req, done, broken>>

\* fork returns -1: the connection is closed without a word.
ForkFails ==
    /\ mode = "concurrent" /\ up /\ queue # << >>
    /\ queue' = Tail(queue)
    /\ CloseEnd(Head(queue))
    /\ UNCHANGED <<clientVars, toClient, short, mode, up, done, broken>>

Step(c, from, to) ==
    /\ handler[c] = from
    /\ handler' = [handler EXCEPT ![c] = to]

\* The request read is the one whose start comes first; what is missing of
\* it stays what it was in request.
ReceiveRequest(c) ==
    /\ Step(c, "recv", "perform")
    /\ \E k \in Taken(c, toServer[c]) :
           /\ req' = [req EXCEPT ![c] = [no |-> StartOf(toServer[c]), whole |-> k = 2]]
           /\ toServer' = [toServer EXCEPT ![c] = Rest(k, @)]
           /\ Parted(c, k, toServer[c])
    /\ UNCHANGED <<clientVars, toClient, atServer, atClient, mode, up, queue, done, broken>>

GoneServed(c) ==        \* mutant: a recv of 0 is taken for a request
    /\ handler[c] = "recv"
    /\ toServer[c] = << >> /\ atServer[c] # "open"
    /\ IF atServer[c] # "reset"
       THEN handler' = [handler EXCEPT ![c] = "perform"] /\ UNCHANGED <<req, toServer, atServer, atClient>>
       ELSE CloseEnd(c)
    /\ UNCHANGED <<clientVars, toClient, short, mode, up, queue, done, broken>>

GoneIfClosed(c) ==      \* mutant: only a recv of 0 ends the session, an error does not
    /\ handler[c] = "recv"
    /\ toServer[c] = << >> /\ atServer[c] = "fin"
    /\ CloseEnd(c)
    /\ UNCHANGED <<clientVars, toClient, short, mode, up, queue, done, broken>>

ClientGone(c) ==
    /\ handler[c] = "recv"
    /\ toServer[c] = << >> /\ atServer[c] # "open"
    /\ CloseEnd(c)
    /\ UNCHANGED <<clientVars, toClient, short, mode, up, queue, done, broken>>

\* What the process of the listening socket leaves when it ends: the
\* iterative server serves in it, the children of the other one live on.
Shut ==
    /\ up' = FALSE
    /\ queue' = << >>
    /\ CloseEnds(IF mode = "iterative" THEN Served ELSE {}, Queued)

\* send on a connection the client broke after an earlier answer was lost on
\* it: SIGPIPE ends the process that serves it.
BrokenPipe(c) ==
    /\ atServer[c] = "dead"
    /\ IF mode = "iterative" THEN Shut ELSE CloseEnd(c) /\ UNCHANGED <<up, queue>>
    /\ broken' = TRUE
    /\ UNCHANGED toClient

Reply(c, n) == toClient' = [toClient EXCEPT ![c] = @ \o Message(n)]

\* A QUIT is answered, whatever comes of it, and the connection closed.
Quits(c) ==
    \/ /\ atServer[c] # "dead"
       /\ IF atServer[c] = "open" THEN Reply(c, QUIT) ELSE UNCHANGED toClient
       /\ CloseEnd(c)
       /\ UNCHANGED <<up, queue, broken>>
    \/ BrokenPipe(c)

RunsAnswering(c, ops) ==   \* mutant: the case of the command sends the answer too
    /\ handler' = [handler EXCEPT ![c] = "send"]
    /\ done' = [done EXCEPT ![c] = @ \o ops]
    /\ Reply(c, req[c].no)
    /\ UNCHANGED <<up, queue, req, toServer, atServer, atClient, broken>>

\* The operation of a request runs to its end, or there is none.
Runs(c, ops) ==
    /\ handler' = [handler EXCEPT ![c] = "send"]
    /\ done' = [done EXCEPT ![c] = @ \o ops]
    /\ UNCHANGED <<up, queue, req, toServer, toClient, atServer, atClient, broken>>

\* Bytes that are not the start of a request may be a QUIT (most of a request
\* is zeroes), an operation, or a command the server does not know.
Perform(c) ==
    LET n == req[c].no
    IN  /\ handler[c] = "perform"
        /\ \/ n \in {QUIT, GARBAGE} /\ Quits(c) /\ UNCHANGED done
           \/ n = GARBAGE /\ Runs(c, << >>)
           \/ n # QUIT /\ Runs(c, <<IF req[c].whole THEN n ELSE GARBAGE>>)
        /\ UNCHANGED <<clientVars, short, mode>>

Answered(c) == handler' = [handler EXCEPT ![c] = "recv"]

SendAnswer(c) ==
    /\ handler[c] = "send"
    /\ \/ /\ atServer[c] = "open"
          /\ Answered(c)
          /\ Reply(c, req[c].no)
          /\ UNCHANGED <<up, queue, req, toServer, atServer, atClient, broken>>
       \/ /\ atServer[c] = "fin"
          /\ Answered(c)
          /\ \E s \in {"fin", "dead"} : atServer' = [atServer EXCEPT ![c] = s]
          /\ UNCHANGED <<up, queue, req, toServer, toClient, atClient, broken>>
       \/ /\ atServer[c] = "reset"
          /\ CloseEnd(c)
          /\ UNCHANGED <<up, queue, toClient, broken>>
       \/ BrokenPipe(c)
    /\ UNCHANGED <<clientVars, short, mode, done>>

\* A signal or a kill.  The iterative server ends with its client, the
\* concurrent one leaves its children behind.
Stop ==
    /\ up
    /\ Shut
    /\ UNCHANGED <<clientVars, toClient, short, mode, done, broken>>

StopChild(c) ==
    /\ mode = "concurrent" /\ handler[c] # "none"
    /\ CloseEnd(c)
    /\ UNCHANGED <<clientVars, toClient, short, mode, up, queue, done, broken>>

\* init_server: the sockets of children left behind are not in the way.
Start ==
    /\ ~ up
    /\ up' = TRUE
    /\ UNCHANGED <<clientVars, wireVars, mode, queue, handler, req, done, broken>>

-----------------------------------------------------------------------------
Serve(c) ==
    \/ ReceiveRequest(c) \/ ClientGone(c) \/ Perform(c) \/ SendAnswer(c)

User(c) ==
    \/ Connect(c) \/ ConnectFails(c) \/ Ask(c) \/ Disconnect(c)
    \/ EndOfInput(c) \/ ClientKilled(c)

Next ==
    \/ \E c \in Clients : User(c) \/ ClientReceive(c) \/ Serve(c) \/ StopChild(c)
    \/ Accept \/ ForkFails \/ Stop \/ Start

\* The programs go on when they can; users and faults do what they like.
Fairness ==
    /\ WF_vars(Accept)
    /\ \A c \in Clients : WF_vars(Serve(c)) /\ WF_vars(ClientReceive(c))

Spec == Init /\ [][Next]_vars /\ Fairness

-----------------------------------------------------------------------------
(* Properties.                                                             *)

TypeOK ==
    /\ mode \in Modes /\ up \in BOOLEAN /\ broken \in BOOLEAN
    /\ queue \in Seq(Clients) /\ Len(queue) <= QueueLimit /\ Queued \cap Served = {}
    /\ handler \in [Clients -> {"none", "recv", "perform", "send"}]
    /\ req \in [Clients -> [no : Numbers \cup {GARBAGE}, whole : BOOLEAN]]
    /\ pc \in [Clients -> {"off", "gone"} \cup Connected]
    /\ asked \in [Clients -> Nat] /\ \A c \in Clients : asked[c] <= MaxRequests[c]
    /\ toServer \in [Clients -> Seq(Halves)] /\ toClient \in [Clients -> Seq(Halves)]
    /\ atServer \in [Clients -> {"open", "fin", "reset", "dead"}]
    /\ atClient \in [Clients -> {"open", "fin", "reset", "dead"}]
    /\ done \in [Clients -> Seq(Numbers \cup {GARBAGE})]
    /\ shown \in [Clients -> Seq(Numbers \cup {GARBAGE, NOTHING, FAILED})]
    /\ short \in [Clients -> BOOLEAN]

\* Requests whose own answer the client has shown.
Settled(c) == {n \in DOMAIN shown[c] : shown[c][n] = n}

\* On a connection whose messages came whole, whatever came of the other
\* connections: the answers shown are the answers to the first requests, one
\* each, and what the client is shown after them is that there is none.
AnswersMatch ==
    \A c \in Clients : ~ short[c] =>
        /\ Settled(c) = 1 .. Cardinality(Settled(c))
        /\ \A n \in DOMAIN shown[c] \ Settled(c) : shown[c][n] \in {NOTHING, FAILED}

\* There, the requests the server ran are the first ones of the client, in
\* order and once each: all that are settled, and at most the one after them,
\* of which the client cannot know.
OnlyLastUnknown ==
    \A c \in Clients : ~ short[c] =>
        LET m == Cardinality(Settled(c))
        IN  \E k \in {m, m + 1} : k <= asked[c] /\ done[c] = [n \in 1 .. k |-> n]

\* Clients that come, go and die at any time do not end the server: it takes
\* a message that came in two parts to have it send to a broken connection.
NoBrokenPipe == broken => \E c \in Clients : short[c]

\* The client waits for an answer, or the server serves one that is gone.
Pending(c) == pc[c] \in {"wait", "bye"} \/ (pc[c] = "gone" /\ handler[c] # "none")
Away(c)    == pc[c] \in {"off", "gone"}

\* A client that waits for an answer gets one or learns that the connection is
\* gone, and the server is rid of a client that is gone: at the concurrent
\* server always, at the iterative one if the other clients do not stay for
\* ever, as one does whose user goes away or whose input has ended.
WaitEnds ==
    \A c \in Clients :
        (\A d \in Clients \ {c} : []<>(Away(d) \/ mode = "concurrent"))
            => (Pending(c) ~> ~ Pending(c))

\* "Display server response" (client_logic.c:66): what an operation shows is
\* something the server sent.
ShownWasSent == \A c \in Clients : \A n \in DOMAIN shown[c] : shown[c][n] # NOTHING

=============================================================================
