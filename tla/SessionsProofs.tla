---------------------------- MODULE SessionsProofs ----------------------------
(***************************************************************************)
(* Type correctness, AnswersMatch, OnlyLastUnknown and NoBrokenPipe of     *)
(* Sessions, for every value of the constants.                             *)
(***************************************************************************)
EXTENDS Sessions, FiniteSetTheorems, TLAPS

-----------------------------------------------------------------------------
(* The inductive invariant: where the one message of a connection is.      *)

\* The connection is one the server has, or is to accept.
Held(c) == c \in Queued \/ handler[c] # "none"

\* Where the server is with the one request that may be on its way.
Quiet(c)     == toServer[c] = << >> /\ handler[c] \in {"none", "recv"}
Coming(c, n) == toServer[c] = Message(n) /\ handler[c] \in {"none", "recv"}
InHand(c, n) == /\ toServer[c] = << >> /\ handler[c] = "perform"
                /\ req[c] = [no |-> n, whole |-> TRUE]
Ran(c, n)    == toServer[c] = << >> /\ handler[c] = "send" /\ req[c].no = n

\* The first m answers shown are those of the first m requests, the others
\* say that there was none; the first k requests were run.
Tally(c, m, k) ==
    /\ m \in Nat /\ k \in {m, m + 1} /\ k <= asked[c]
    /\ done[c] = [n \in 1 .. k |-> n]
    /\ m <= Len(shown[c]) /\ Len(shown[c]) <= asked[c]
    /\ \A n \in 1 .. Len(shown[c]) :
           IF n <= m THEN shown[c][n] = n ELSE shown[c][n] \in {NOTHING, FAILED}

\* No connection yet.
Off(c) ==
    /\ ~ Held(c) /\ toServer[c] = << >> /\ toClient[c] = << >>
    /\ atServer[c] = "open" /\ atClient[c] = "open"
    /\ asked[c] = 0 /\ shown[c] = << >> /\ done[c] = << >> /\ ~ short[c]

\* Both ends are open: the client and the server are in step.
InStep(c, m, k) ==
    /\ Held(c) /\ atServer[c] = "open" /\ Len(shown[c]) = m
    /\ pc[c] \in {"menu", "spin"} =>
           asked[c] = m /\ k = m /\ Quiet(c) /\ toClient[c] = << >>
    /\ pc[c] = "bye" =>
           /\ asked[c] = m /\ k = m /\ toClient[c] = << >>
           /\ Coming(c, QUIT) \/ InHand(c, QUIT)
    /\ pc[c] = "wait" =>
           LET n == m + 1
           IN  /\ asked[c] = n
               /\ \/ k = m /\ toClient[c] = << >> /\ (Coming(c, n) \/ InHand(c, n))
                  \/ k = n /\ toClient[c] = << >> /\ Ran(c, n)
                  \/ k = n /\ toClient[c] = Message(n) /\ Quiet(c)

\* The server's end is closed; an answer it sent before may still be there.
CutOff(c, m, k) ==
    /\ ~ Held(c)
    /\ Len(shown[c]) = IF pc[c] = "wait" THEN asked[c] - 1 ELSE asked[c]
    /\ \/ toClient[c] = << >>
       \/ pc[c] = "bye"
       \/ /\ pc[c] = "wait" /\ toClient[c] = Message(m + 1)
          /\ asked[c] = m + 1 /\ k = m + 1

\* The client's end is closed; its last request may not have been run yet.
\* An answer was sent in vain only after that.
LeftBehind(c, m, k) ==
    Held(c) =>
        /\ atServer[c] # "open"
        /\ \/ Quiet(c)
           \/ /\ atServer[c] # "dead"
              /\ \E n \in Nat :
                     \/ Ran(c, n)
                     \/ /\ Coming(c, n) \/ InHand(c, n)
                        /\ n = QUIT \/ (n = k + 1 /\ k = m /\ n <= asked[c])

Place(c, m, k) ==
    /\ pc[c] \in Connected /\ atClient[c] = "open" => InStep(c, m, k)
    /\ pc[c] \in Connected /\ atClient[c] # "open" => CutOff(c, m, k)
    /\ pc[c] = "gone" => LeftBehind(c, m, k)

Connection(c) ==
    /\ pc[c] = "off" => Off(c)
    /\ ~ short[c] => \E m, k \in Nat : Tally(c, m, k) /\ Place(c, m, k)

\* No connection is queued twice.
Once == \A i, j \in DOMAIN queue : queue[i] = queue[j] => i = j

IInv == TypeOK /\ Once /\ (\A c \in Clients : Connection(c)) /\ NoBrokenPipe

-----------------------------------------------------------------------------
(* Messages and what is left of them.                                      *)

\* A message is its two halves and starts with the first.
LEMMA MessageType ==
    ASSUME NEW n \in Numbers \cup {GARBAGE}
    PROVE  /\ Message(n) \in Seq(Halves) /\ Len(Message(n)) = 2 /\ Message(n) # << >>
           /\ StartOf(Message(n)) = n
  BY DEF Message, Halves, StartOf

\* A message that arrives where nothing was.
LEMMA MessageArrives ==
    ASSUME NEW n \in Numbers \cup {GARBAGE}
    PROVE  << >> \o Message(n) = Message(n)
<1>1. Message(n) \in Seq(Halves)
  BY MessageType
<1>. QED  BY <1>1

\* What a recv leaves, and what it takes for the start of a message.
LEMMA RestType ==
    ASSUME NEW c, NEW bytes \in Seq(Halves), NEW k \in Taken(c, bytes)
    PROVE  /\ Rest(k, bytes) \in Seq(Halves) /\ k \in 1 .. 2
           /\ StartOf(bytes) \in Numbers \cup {GARBAGE}
           /\ bytes # << >>
<1>1. k \in 1 .. 2 /\ k <= Len(bytes) /\ Len(bytes) \in Nat
  BY DEF Taken
<1>2. Rest(k, bytes) \in Seq(Halves)
  BY <1>1 DEF Rest
<1>3. bytes[1] \in Halves
  BY <1>1
<1>4. StartOf(bytes) \in Numbers \cup {GARBAGE}
  BY <1>3 DEF Halves, StartOf
<1>. QED  BY <1>1, <1>2, <1>4

\* On a connection whose messages come whole, a recv takes a whole message.
LEMMA WholeTaken ==
    ASSUME short \in [Clients -> BOOLEAN], NEW c \in Clients, NEW n \in Numbers \cup {GARBAGE},
           NEW k \in Taken(c, Message(n)), Parted(c, k, Message(n)), ~ short'[c]
    PROVE  k = 2 /\ Rest(k, Message(n)) = << >> /\ ~ short[c]
<1>1. Len(Message(n)) = 2 /\ Message(n) \in Seq(Halves) /\ k \in 1 .. 2
  BY MessageType DEF Taken
<1>2. (short[c] => short'[c]) /\ (k = 1 /\ Len(Message(n)) > 1 => short'[c])
  BY DEF Parted
<1>3. ~ short[c] /\ ~ (k = 1 /\ Len(Message(n)) > 1)
  BY <1>2
<1>4. k = 2
  BY <1>1, <1>3
<1>5. Rest(2, Message(n)) = << >>
  BY <1>1 DEF Rest
<1>. QED  BY <1>3, <1>4, <1>5

\* Other connections' messages are not parted.
LEMMA PartedElsewhere ==
    ASSUME short \in [Clients -> BOOLEAN], NEW c \in Clients, NEW k, NEW bytes,
           Parted(c, k, bytes)
    PROVE  /\ short' \in [Clients -> BOOLEAN]
           /\ \A d \in Clients : d # c => short'[d] = short[d]
           /\ short[c] => short'[c]
  BY DEF Parted

-----------------------------------------------------------------------------
(* Connections a step does not touch.                                      *)

\* The step is not about the connection of d.
Apart(d) ==
    /\ pc'[d] = pc[d] /\ asked'[d] = asked[d] /\ shown'[d] = shown[d]
    /\ toServer'[d] = toServer[d] /\ toClient'[d] = toClient[d]
    /\ atServer'[d] = atServer[d] /\ atClient'[d] = atClient[d]
    /\ handler'[d] = handler[d] /\ req'[d] = req[d]
    /\ done'[d] = done[d] /\ short'[d] = short[d]
    /\ d \in Queued' <=> d \in Queued

LEMMA ApartStays ==
    ASSUME NEW d \in Clients, Connection(d), Apart(d)
    PROVE  Connection(d)'
<1>1. Held(d)' <=> Held(d)
  BY DEF Apart, Held
<1>2. (pc[d] = "off" => Off(d)) => (pc[d] = "off" => Off(d))'
  BY <1>1 DEF Apart, Off
<1>3. ASSUME NEW m \in Nat, NEW k \in Nat, Tally(d, m, k), Place(d, m, k)
      PROVE  Tally(d, m, k)' /\ Place(d, m, k)'
  <2>1. Tally(d, m, k)'
    BY <1>3 DEF Apart, Tally
  <2>2. /\ Quiet(d)' <=> Quiet(d)
        /\ \A n : (Coming(d, n)' <=> Coming(d, n)) /\ (InHand(d, n)' <=> InHand(d, n))
                  /\ (Ran(d, n)' <=> Ran(d, n))
    BY DEF Apart, Quiet, Coming, InHand, Ran
  <2>3. InStep(d, m, k) => InStep(d, m, k)'
    BY <1>1, <2>2 DEF Apart, InStep
  <2>4. CutOff(d, m, k) => CutOff(d, m, k)'
    BY <1>1 DEF Apart, CutOff
  <2>5. LeftBehind(d, m, k) => LeftBehind(d, m, k)'
    BY <1>1, <2>2 DEF Apart, LeftBehind
  <2>6. Place(d, m, k)'
    BY <1>3, <2>3, <2>4, <2>5 DEF Apart, Place
  <2>. QED  BY <2>1, <2>6
<1>4. ~ short'[d] => \E m, k \in Nat : Tally(d, m, k)' /\ Place(d, m, k)'
  BY <1>3 DEF Connection, Apart
<1>. QED  BY <1>2, <1>4 DEF Connection

\* The connections of all clients, from that of the one the step is about.
LEMMA OneMoves ==
    ASSUME IInv, NEW c \in Clients, Connection(c)',
           \A d \in Clients \ {c} : Apart(d)
    PROVE  \A d \in Clients : Connection(d)'
<1>1. ASSUME NEW d \in Clients, d # c
      PROVE  Connection(d)'
  BY <1>1, ApartStays DEF IInv
<1>. QED  BY <1>1

-----------------------------------------------------------------------------
(* The queue, and ends that are closed.                                    *)

\* A connection comes in.
LEMMA QueueAppend ==
    ASSUME queue \in Seq(Clients), Once, NEW c \in Clients, c \notin Queued,
           queue' = Append(queue, c)
    PROVE  /\ queue' \in Seq(Clients) /\ Len(queue') = Len(queue) + 1
           /\ Once' /\ Queued' = Queued \cup {c}
<1>1. /\ queue' \in Seq(Clients) /\ Len(queue') = Len(queue) + 1 /\ Len(queue) \in Nat
      /\ DOMAIN queue = 1 .. Len(queue) /\ DOMAIN queue' = 1 .. Len(queue) + 1
      /\ \A i \in 1 .. Len(queue) : queue'[i] = queue[i]
      /\ queue'[Len(queue) + 1] = c
  OBVIOUS
<1>2. \A i \in 1 .. Len(queue) : queue[i] \in Queued /\ queue[i] # c
  BY <1>1 DEF Queued
<1>3. Once'
  BY <1>1, <1>2 DEF Once
<1>4. \A x : x \in Queued' <=> x \in Queued \/ x = c
  <2>1. ASSUME NEW x \in Queued'
        PROVE  x \in Queued \/ x = c
    <3>1. PICK i \in 1 .. Len(queue) + 1 : x = queue'[i]
      BY <1>1 DEF Queued
    <3>2. CASE i = Len(queue) + 1
      BY <1>1, <3>1, <3>2
    <3>3. CASE i # Len(queue) + 1
      <4>1. i \in 1 .. Len(queue)
        BY <1>1, <3>3
      <4>. QED  BY <1>1, <1>2, <3>1, <4>1
    <3>. QED  BY <3>2, <3>3
  <2>2. ASSUME NEW x, x \in Queued \/ x = c
        PROVE  x \in Queued'
    <3>1. CASE x = c
      <4>1. Len(queue) + 1 \in DOMAIN queue'
        BY <1>1
      <4>. QED  BY <1>1, <3>1, <4>1 DEF Queued
    <3>2. CASE x \in Queued
      <4>1. PICK i \in 1 .. Len(queue) : x = queue[i]
        BY <1>1, <3>2 DEF Queued
      <4>2. i \in DOMAIN queue' /\ queue'[i] = x
        BY <1>1, <4>1
      <4>. QED  BY <4>2 DEF Queued
    <3>. QED  BY <2>2, <3>1, <3>2
  <2>. QED  BY <2>1, <2>2
<1>. QED  BY <1>1, <1>3, <1>4

\* The first connection is taken off the queue.
LEMMA QueueTail ==
    ASSUME queue \in Seq(Clients), Once, queue # << >>, queue' = Tail(queue)
    PROVE  /\ queue' \in Seq(Clients) /\ Len(queue') = Len(queue) - 1
           /\ Once' /\ Head(queue) \in Queued /\ Head(queue) \in Clients
           /\ Queued' = Queued \ {Head(queue)}
<1>1. /\ queue' \in Seq(Clients) /\ Len(queue') = Len(queue) - 1
      /\ Len(queue) \in Nat /\ Len(queue) > 0
      /\ DOMAIN queue = 1 .. Len(queue) /\ DOMAIN queue' = 1 .. Len(queue) - 1
      /\ \A i \in 1 .. Len(queue) - 1 : queue'[i] = queue[i + 1]
      /\ Head(queue) = queue[1] /\ Head(queue) \in Clients
  OBVIOUS
<1>2. Head(queue) \in Queued
  <2>1. 1 \in DOMAIN queue
    BY <1>1
  <2>. QED  BY <1>1, <2>1 DEF Queued
<1>3. Once'
  <2>1. ASSUME NEW i \in 1 .. Len(queue) - 1, NEW j \in 1 .. Len(queue) - 1, queue'[i] = queue'[j]
        PROVE  i = j
    <3>1. i + 1 \in 1 .. Len(queue) /\ j + 1 \in 1 .. Len(queue)
      BY <1>1
    <3>2. queue[i + 1] = queue[j + 1]
      BY <1>1, <2>1
    <3>3. i + 1 = j + 1
      BY <1>1, <3>1, <3>2 DEF Once
    <3>. QED  BY <3>3
  <2>. QED  BY <1>1, <2>1 DEF Once
<1>4. \A x : x \in Queued' <=> x \in Queued /\ x # Head(queue)
  <2>1. ASSUME NEW x \in Queued'
        PROVE  x \in Queued /\ x # Head(queue)
    <3>1. PICK i \in 1 .. Len(queue) - 1 : x = queue'[i]
      BY <1>1 DEF Queued
    <3>2. i + 1 \in 1 .. Len(queue) /\ 1 \in 1 .. Len(queue) /\ i + 1 # 1 /\ x = queue[i + 1]
      BY <1>1, <3>1
    <3>3. queue[i + 1] # queue[1]
      BY <1>1, <3>2 DEF Once
    <3>. QED  BY <1>1, <3>2, <3>3 DEF Queued
  <2>2. ASSUME NEW x \in Queued, x # Head(queue)
        PROVE  x \in Queued'
    <3>1. PICK i \in 1 .. Len(queue) : x = queue[i]
      BY <1>1 DEF Queued
    <3>2. i # 1
      BY <1>1, <2>2, <3>1
    <3>3. i - 1 \in 1 .. Len(queue) - 1 /\ (i - 1) + 1 = i
      BY <1>1, <3>2
    <3>4. queue'[i - 1] = x
      BY <1>1, <3>1, <3>3
    <3>. QED  BY <1>1, <3>3, <3>4 DEF Queued
  <2>. QED  BY <2>1, <2>2
<1>. QED  BY <1>1, <1>2, <1>3, <1>4

\* What CloseEnds leaves of the connections it closes, and of the others.
LEMMA EndsClosed ==
    ASSUME TypeOK, NEW A, NEW W, CloseEnds(A, W)
    PROVE  /\ handler' \in [Clients -> {"none", "recv", "perform", "send"}]
           /\ req' \in [Clients -> [no : Numbers \cup {GARBAGE}, whole : BOOLEAN]]
           /\ toServer' \in [Clients -> Seq(Halves)]
           /\ atServer' \in [Clients -> {"open", "fin", "reset", "dead"}]
           /\ atClient' \in [Clients -> {"open", "fin", "reset", "dead"}]
           /\ \A c \in Clients \cap (A \cup W) :
                  /\ handler'[c] = "none" /\ toServer'[c] = << >> /\ atServer'[c] = "open"
                  /\ pc[c] # "gone" => atClient'[c] \in {"fin", "reset"}
                  /\ pc[c] = "gone" => atClient'[c] = atClient[c]
           /\ \A c \in Clients \ (A \cup W) :
                  /\ handler'[c] = handler[c] /\ req'[c] = req[c]
                  /\ toServer'[c] = toServer[c] /\ atServer'[c] = atServer[c]
                  /\ atClient'[c] = atClient[c]
<1> DEFINE closed == A \cup W
           Seen(c) == IF c \in A THEN Farewell(toServer[c]) ELSE "reset"
<1>1. /\ handler' = [c \in Clients |-> IF c \in closed THEN "none" ELSE handler[c]]
      /\ req' = [c \in Clients |-> IF c \in closed THEN NoRequest ELSE req[c]]
      /\ toServer' = [c \in Clients |-> IF c \in closed THEN << >> ELSE toServer[c]]
      /\ atServer' = [c \in Clients |-> IF c \in closed THEN "open" ELSE atServer[c]]
      /\ atClient' = [c \in Clients |-> IF c \in closed /\ pc[c] # "gone"
                                       THEN Seen(c) ELSE atClient[c]]
  BY DEF CloseEnds
<1>2. \A c : Seen(c) \in {"fin", "reset"}
  BY DEF Farewell
<1>3. NoRequest \in [no : Numbers \cup {GARBAGE}, whole : BOOLEAN] /\ << >> \in Seq(Halves)
  BY DEF NoRequest
<1> HIDE DEF closed, Seen
<1>4. /\ handler' \in [Clients -> {"none", "recv", "perform", "send"}]
      /\ atServer' \in [Clients -> {"open", "fin", "reset", "dead"}]
      /\ atClient' \in [Clients -> {"open", "fin", "reset", "dead"}]
  BY <1>1, <1>2 DEF TypeOK
<1>5. req' \in [Clients -> [no : Numbers \cup {GARBAGE}, whole : BOOLEAN]]
  BY <1>1, <1>3 DEF TypeOK
<1>6. toServer' \in [Clients -> Seq(Halves)]
  BY <1>1, <1>3 DEF TypeOK
<1>7. ASSUME NEW c \in Clients, c \in closed
      PROVE  /\ handler'[c] = "none" /\ toServer'[c] = << >> /\ atServer'[c] = "open"
             /\ pc[c] # "gone" => atClient'[c] \in {"fin", "reset"}
             /\ pc[c] = "gone" => atClient'[c] = atClient[c]
  BY <1>1, <1>2, <1>7
<1>8. ASSUME NEW c \in Clients, c \notin closed
      PROVE  /\ handler'[c] = handler[c] /\ req'[c] = req[c]
             /\ toServer'[c] = toServer[c] /\ atServer'[c] = atServer[c]
             /\ atClient'[c] = atClient[c]
  BY <1>1, <1>8
<1>. QED  BY <1>4, <1>5, <1>6, <1>7, <1>8 DEF closed

\* No answer that arrives now is shown, if the messages came whole.
ShowsNoMore(c) == ~ short[c] => pc[c] \in {"bye", "gone"}

\* What the server's end of a connection leaves to its client when it closes.
LEMMA ConnectionCut ==
    ASSUME TypeOK, NEW c \in Clients, Connection(c), Held(c), ~ Held(c)',
           pc'[c] = pc[c], asked'[c] = asked[c], shown'[c] = shown[c],
           done'[c] = done[c], short'[c] = short[c],
           pc[c] # "gone" => atClient'[c] \in {"fin", "reset"},
           \/ toClient'[c] = toClient[c]
           \/ ShowsNoMore(c)
    PROVE  Connection(c)'
<1>1. pc[c] # "off"
  BY DEF Connection, Off
<1>2. ASSUME ~ short[c], NEW m \in Nat, NEW k \in Nat, Tally(c, m, k), Place(c, m, k)
      PROVE  Tally(c, m, k)' /\ Place(c, m, k)'
  <2>1. Tally(c, m, k)'
    BY <1>2 DEF Tally
  <2>2. CASE pc[c] = "gone"
    <3>1. LeftBehind(c, m, k)'
      BY DEF LeftBehind
    <3>2. pc'[c] = "gone" /\ pc'[c] \notin Connected
      BY <2>2 DEF Connected
    <3>. QED  BY <2>1, <3>1, <3>2 DEF Place
  <2>3. CASE pc[c] # "gone"
    <3>1. pc[c] \in Connected
      BY <1>1, <2>3 DEF TypeOK
    <3>2. InStep(c, m, k)
      BY <1>2, <3>1 DEF Place, CutOff
    <3>3. Len(shown[c]) = IF pc[c] = "wait" THEN asked[c] - 1 ELSE asked[c]
      BY <3>1, <3>2 DEF InStep, Connected
    <3>4. \/ toClient[c] = << >>
          \/ pc[c] = "wait" /\ toClient[c] = Message(m + 1) /\ asked[c] = m + 1 /\ k = m + 1
      BY <3>1, <3>2 DEF InStep, Connected
    <3>5. toClient'[c] = toClient[c] \/ pc[c] = "bye"
      BY <1>2, <2>3 DEF ShowsNoMore
    <3>6. CutOff(c, m, k)'
      BY <3>3, <3>4, <3>5 DEF CutOff
    <3>7. atClient'[c] \in {"fin", "reset"} /\ pc'[c] # "gone"
      BY <2>3
    <3>8. atClient'[c] # "open"
      BY <3>7
    <3>. QED  BY <2>1, <3>6, <3>7, <3>8 DEF Place
  <2>. QED  BY <2>1, <2>2, <2>3
<1>3. ~ short'[c] => \E m, k \in Nat : Tally(c, m, k)' /\ Place(c, m, k)'
  BY <1>2 DEF Connection
<1>. QED  BY <1>1, <1>3 DEF Connection

\* A step that closes ends of the server.
LEMMA ClosingStep ==
    ASSUME IInv, NEW A, NEW W, A \cup W \subseteq {c \in Clients : Held(c)}, CloseEnds(A, W),
           UNCHANGED <<clientVars, short, mode, done>>,
           queue' \in Seq(Clients), Len(queue') <= QueueLimit, Once',
           Queued' = Queued \ (A \cup W),
           toClient' \in [Clients -> Seq(Halves)], up' \in BOOLEAN, broken' \in BOOLEAN,
           \A c \in Clients : \/ toClient'[c] = toClient[c]
                              \/ c \in A \cup W /\ ShowsNoMore(c),
           NoBrokenPipe'
    PROVE  IInv'
<1>1. TypeOK
  BY DEF IInv
<1>2. /\ handler' \in [Clients -> {"none", "recv", "perform", "send"}]
      /\ req' \in [Clients -> [no : Numbers \cup {GARBAGE}, whole : BOOLEAN]]
      /\ toServer' \in [Clients -> Seq(Halves)]
      /\ atServer' \in [Clients -> {"open", "fin", "reset", "dead"}]
      /\ atClient' \in [Clients -> {"open", "fin", "reset", "dead"}]
  BY <1>1, EndsClosed
<1>3. \A c \in Clients \cap (A \cup W) :
          /\ handler'[c] = "none" /\ c \notin Queued'
          /\ pc[c] # "gone" => atClient'[c] \in {"fin", "reset"}
  BY <1>1, EndsClosed
<1>4. \A c \in Clients \ (A \cup W) :
          /\ handler'[c] = handler[c] /\ req'[c] = req[c]
          /\ toServer'[c] = toServer[c] /\ atServer'[c] = atServer[c]
          /\ atClient'[c] = atClient[c]
          /\ c \in Queued' <=> c \in Queued
  BY <1>1, EndsClosed
<1>5. /\ pc' = pc /\ asked' = asked /\ shown' = shown /\ short' = short /\ mode' = mode
      /\ done' = done
  BY DEF clientVars
<1>6. Queued' \cap Served' = {}
  <2>1. ASSUME NEW c \in Queued', c \in Served'
        PROVE  FALSE
    <3>1. c \in Clients /\ handler'[c] # "none"
      BY <2>1 DEF Served
    <3>2. c \notin A \cup W /\ c \in Queued /\ c \in Served
      BY <1>3, <1>4, <2>1, <3>1 DEF Served
    <3>. QED  BY <1>1, <3>2 DEF TypeOK
  <2>. QED  BY <2>1
<1>7. TypeOK'
  BY <1>1, <1>2, <1>5, <1>6 DEF TypeOK
<1>8. ASSUME NEW c \in Clients
      PROVE  Connection(c)'
  <2>1. CASE c \in A \cup W
    <3>1. ~ Held(c)' /\ Held(c) /\ Connection(c)
      BY <1>3, <2>1 DEF Held, IInv
    <3>2. pc[c] # "gone" => atClient'[c] \in {"fin", "reset"}
      BY <1>3, <2>1
    <3>. QED  BY <1>1, <1>5, <3>1, <3>2, ConnectionCut
  <2>2. CASE c \notin A \cup W
    <3>1. Apart(c)
      BY <1>4, <1>5, <2>2 DEF Apart
    <3>. QED  BY <3>1, ApartStays DEF IInv
  <2>. QED  BY <2>1, <2>2
<1>. QED  BY <1>7, <1>8 DEF IInv

\* The end of one connection is closed by the process that serves it.
LEMMA OneEndStep ==
    ASSUME IInv, NEW c \in Clients, handler[c] # "none", CloseEnd(c),
           UNCHANGED <<clientVars, short, mode, done, queue, up>>,
           toClient' \in [Clients -> Seq(Halves)], broken' \in BOOLEAN,
           \A d \in Clients \ {c} : toClient'[d] = toClient[d],
           toClient'[c] = toClient[c] \/ ShowsNoMore(c),
           NoBrokenPipe'
    PROVE  IInv'
<1>1. c \notin Queued /\ Held(c)
  BY DEF IInv, TypeOK, Served, Held
<1>2. Queued' = Queued /\ Queued = Queued \ ({c} \cup {})
  BY <1>1 DEF Queued
<1>3. {c} \cup {} \subseteq {d \in Clients : Held(d)}
  BY <1>1
<1>4. queue' \in Seq(Clients) /\ Len(queue') <= QueueLimit /\ Once' /\ up' \in BOOLEAN
  BY DEF IInv, TypeOK, Once
<1>5. CloseEnds({c}, {})
  BY DEF CloseEnd
<1>6. \A d \in Clients : \/ toClient'[d] = toClient[d]
                         \/ d \in {c} \cup {} /\ ShowsNoMore(d)
  <2>1. ASSUME NEW d \in Clients, d # c PROVE toClient'[d] = toClient[d]
    BY <2>1
  <2>2. c \in {c} \cup {}
    OBVIOUS
  <2>. QED  BY <2>1, <2>2
<1>. QED  BY <1>2, <1>3, <1>4, <1>5, <1>6, ClosingStep

\* The listening process ends.
LEMMA ShutStep ==
    ASSUME IInv, Shut, UNCHANGED <<clientVars, toClient, short, mode, done>>,
           broken' \in BOOLEAN, NoBrokenPipe'
    PROVE  IInv'
<1> DEFINE A == IF mode = "iterative" THEN Served ELSE {}
<1>1. CloseEnds(A, Queued) /\ queue' = << >> /\ up' = FALSE
  BY DEF Shut
<1>2. A \subseteq Served
  OBVIOUS
<1> HIDE DEF A
<1>3. Queued \subseteq Clients
  BY DEF IInv, TypeOK, Queued
<1>4. A \cup Queued \subseteq {c \in Clients : Held(c)}
  BY <1>2, <1>3 DEF Served, Held
<1>5. Queued' = {} /\ Queued' = Queued \ (A \cup Queued)
  BY <1>1 DEF Queued
<1>6. /\ queue' \in Seq(Clients) /\ Len(queue') = 0 /\ DOMAIN queue' = {}
      /\ QueueLimit \in Nat
  BY <1>1, SessionsAssumption
<1>7. Once' /\ Len(queue') <= QueueLimit
  BY <1>6 DEF Once
<1>8. toClient' = toClient /\ toClient' \in [Clients -> Seq(Halves)]
  BY DEF IInv, TypeOK
<1>9. \A c \in Clients : \/ toClient'[c] = toClient[c]
                         \/ c \in A \cup Queued /\ ShowsNoMore(c)
  BY <1>8
<1>10. UNCHANGED <<clientVars, short, mode, done>> /\ up' \in BOOLEAN
  BY <1>1
<1>. QED  BY <1>1, <1>4, <1>5, <1>7, <1>6, <1>8, <1>9, <1>10, ClosingStep

\* Stops and faults of the server.
LEMMA FaultStep ==
    ASSUME IInv, ForkFails \/ Stop \/ Start \/ \E c \in Clients : StopChild(c)
    PROVE  IInv'
<1>1. broken' = broken /\ broken \in BOOLEAN /\ short' = short /\ NoBrokenPipe'
  <2>1. broken' = broken /\ short' = short
    BY DEF ForkFails, Stop, Start, StopChild, wireVars
  <2>. QED  BY <2>1 DEF IInv, TypeOK, NoBrokenPipe
<1>2. CASE Stop
  BY <1>1, <1>2, ShutStep DEF Stop
<1>3. ASSUME NEW c \in Clients, StopChild(c)
      PROVE  IInv'
  <2>1. toClient' = toClient /\ toClient \in [Clients -> Seq(Halves)]
    BY <1>3 DEF StopChild, IInv, TypeOK
  <2>. QED  BY <1>1, <1>3, <2>1, OneEndStep DEF StopChild
<1>4. CASE Start
  <2>1. UNCHANGED <<clientVars, wireVars, mode, queue, handler, req, done, broken>> /\ up' = TRUE
    BY <1>4 DEF Start
  <2>2. UNCHANGED <<pc, asked, shown, toServer, toClient, atServer, atClient, short, mode,
                    queue, handler, req, done, broken>>
    BY <2>1 DEF clientVars, wireVars
  <2>3. Queued' = Queued /\ Served' = Served
    BY <2>2 DEF Queued, Served
  <2>4. TypeOK' /\ Once'
    BY <2>1, <2>2, <2>3 DEF IInv, TypeOK, Once
  <2>5. \A c \in Clients : Apart(c)
    BY <2>2, <2>3 DEF Apart
  <2>. QED  BY <1>1, <2>4, <2>5, ApartStays DEF IInv
<1>5. CASE ForkFails
  <2> DEFINE c == Head(queue)
  <2>1. /\ queue # << >> /\ queue' = Tail(queue) /\ CloseEnds({c}, {})
        /\ UNCHANGED <<clientVars, toClient, short, mode, up, done>>
    BY <1>5 DEF ForkFails, CloseEnd
  <2>2. queue \in Seq(Clients) /\ Once
    BY DEF IInv, TypeOK
  <2>3. /\ queue' \in Seq(Clients) /\ Len(queue') = Len(queue) - 1 /\ Len(queue) \in Nat
        /\ Once' /\ c \in Queued /\ c \in Clients /\ Queued' = Queued \ {c}
    BY <2>1, <2>2, QueueTail
  <2> HIDE DEF c
  <2>4. Len(queue') <= QueueLimit
    BY <2>3, SessionsAssumption DEF IInv, TypeOK
  <2>5. {c} \cup {} \subseteq {d \in Clients : Held(d)} /\ Queued' = Queued \ ({c} \cup {})
    BY <2>3 DEF Held
  <2>6. toClient' = toClient /\ toClient' \in [Clients -> Seq(Halves)] /\ up' \in BOOLEAN
    BY <2>1 DEF IInv, TypeOK
  <2>7. \A d \in Clients : \/ toClient'[d] = toClient[d]
                           \/ d \in {c} \cup {} /\ ShowsNoMore(d)
    BY <2>6
  <2>8. UNCHANGED <<clientVars, short, mode, done>> /\ broken' \in BOOLEAN
    BY <1>1, <2>1
  <2>. QED  BY <1>1, <2>1, <2>3, <2>4, <2>5, <2>6, <2>7, <2>8, ClosingStep
<1>. QED  BY <1>2, <1>3, <1>4, <1>5

-----------------------------------------------------------------------------
(* Steps of the server.                                                    *)

\* A step about one connection, in which no process breaks.
LEMMA OneStep ==
    ASSUME IInv, NEW c \in Clients, TypeOK', Once', Connection(c)',
           \A d \in Clients \ {c} : Apart(d), broken' = broken, short[c] => short'[c]
    PROVE  IInv'
<1>1. \A d \in Clients : Connection(d)'
  BY OneMoves
<1>2. \A d \in Clients \ {c} : short'[d] = short[d]
  BY DEF Apart
<1>3. NoBrokenPipe'
  BY <1>2, Zenon DEF IInv, NoBrokenPipe
<1>. QED  BY <1>1, <1>3 DEF IInv

\* A broken connection is one on which a message came in two parts.
LEMMA DeadIsShort ==
    ASSUME IInv, NEW c \in Clients, atServer[c] = "dead", handler[c] \in {"perform", "send"}
    PROVE  short[c]
<1> SUFFICES ASSUME ~ short[c] PROVE FALSE
  OBVIOUS
<1>1. Held(c)
  BY DEF Held
<1>2. PICK m \in Nat, k \in Nat : Place(c, m, k)
  BY DEF IInv, Connection
<1>3. pc[c] \in Connected \cup {"gone"}
  BY <1>1 DEF IInv, TypeOK, Connection, Off
<1>. QED  BY <1>1, <1>2, <1>3 DEF Place, InStep, CutOff, LeftBehind, Quiet

\* The server takes a connection off the queue.
LEMMA AcceptStep ==
    ASSUME IInv, Accept, NEW c, c = Head(queue)
    PROVE  IInv'
<1>1. /\ queue # << >> /\ queue' = Tail(queue) /\ handler' = [handler EXCEPT ![c] = "recv"]
      /\ UNCHANGED <<pc, asked, shown, toServer, toClient, atServer, atClient, short, mode, up,
                     req, done, broken>>
  BY DEF Accept, clientVars, wireVars
<1>2. /\ queue' \in Seq(Clients) /\ Len(queue') = Len(queue) - 1 /\ Once'
      /\ c \in Queued /\ c \in Clients /\ Queued' = Queued \ {c}
  BY <1>1, QueueTail DEF IInv, TypeOK
<1>3. /\ handler' \in [Clients -> {"none", "recv", "perform", "send"}]
      /\ handler'[c] = "recv" /\ \A d \in Clients \ {c} : handler'[d] = handler[d]
  BY <1>1, <1>2 DEF IInv, TypeOK
<1>4. handler[c] = "none"
  BY <1>2 DEF IInv, TypeOK, Served
<1>5. Queued' \cap Served' = {}
  <2>1. \A d \in Clients : d # c /\ handler'[d] # "none" => d \notin Queued
    BY <1>3 DEF IInv, TypeOK, Served
  <2>. QED  BY <1>2, <2>1 DEF Served
<1>6. TypeOK'
  <2>1. queue \in Seq(Clients) /\ Len(queue) <= QueueLimit /\ QueueLimit \in Nat
    BY SessionsAssumption DEF IInv, TypeOK
  <2>2. Len(queue') <= QueueLimit
    BY <1>2, <2>1
  <2>. QED  BY <1>1, <1>2, <1>3, <1>5, <2>2 DEF IInv, TypeOK
<1>7. \A d \in Clients \ {c} : Apart(d)
  BY <1>1, <1>2, <1>3 DEF Apart
<1>8. Connection(c)'
  <2>1. pc[c] # "off"
    BY <1>2 DEF IInv, Connection, Off, Held
  <2>2. Held(c) /\ Held(c)'
    BY <1>2, <1>3 DEF Held
  <2>3. /\ Quiet(c)' <=> Quiet(c)
        /\ \A n : (Coming(c, n)' <=> Coming(c, n)) /\ ~ InHand(c, n) /\ ~ Ran(c, n)
    BY <1>1, <1>3, <1>4 DEF Quiet, Coming, InHand, Ran
  <2>4. ASSUME NEW m \in Nat, NEW k \in Nat, Tally(c, m, k), Place(c, m, k)
        PROVE  Tally(c, m, k)' /\ Place(c, m, k)'
    <3>1. Tally(c, m, k)'
      BY <1>1, <2>4 DEF Tally
    <3>2. InStep(c, m, k) => InStep(c, m, k)'
      BY <1>1, <2>2, <2>3 DEF InStep
    <3>3. LeftBehind(c, m, k) => LeftBehind(c, m, k)'
      BY <1>1, <2>2, <2>3 DEF LeftBehind
    <3>4. ~ CutOff(c, m, k)
      BY <2>2 DEF CutOff
    <3>5. Place(c, m, k)'
      BY <1>1, <2>4, <3>2, <3>3, <3>4 DEF Place
    <3>. QED  BY <3>1, <3>5
  <2>5. ~ short'[c] => \E m, k \in Nat : Tally(c, m, k)' /\ Place(c, m, k)'
    BY <1>1, <1>2, <2>4 DEF IInv, Connection
  <2>. QED  BY <1>1, <2>1, <2>5 DEF Connection
<1>. QED  BY <1>1, <1>2, <1>6, <1>7, <1>8, OneStep

\* handle_client takes a request off its connection.
LEMMA ReceiveRequestStep ==
    ASSUME IInv, NEW c \in Clients, ReceiveRequest(c)
    PROVE  IInv'
<1> DEFINE bytes == toServer[c]
<1>1. PICK k \in Taken(c, bytes) :
          /\ req' = [req EXCEPT ![c] = [no |-> StartOf(bytes), whole |-> k = 2]]
          /\ toServer' = [toServer EXCEPT ![c] = Rest(k, bytes)]
          /\ Parted(c, k, bytes)
  BY DEF ReceiveRequest
<1>2. /\ handler[c] = "recv" /\ handler' = [handler EXCEPT ![c] = "perform"]
      /\ UNCHANGED <<pc, asked, shown, toClient, atServer, atClient, mode, up, queue, done, broken>>
  BY DEF ReceiveRequest, Step, clientVars
<1>3. bytes \in Seq(Halves)
  BY DEF IInv, TypeOK
<1>4. /\ Rest(k, bytes) \in Seq(Halves) /\ StartOf(bytes) \in Numbers \cup {GARBAGE}
      /\ bytes # << >>
  BY <1>1, <1>3, RestType
<1>5. /\ short' \in [Clients -> BOOLEAN] /\ (short[c] => short'[c])
      /\ \A d \in Clients \ {c} : short'[d] = short[d]
  BY <1>1, PartedElsewhere DEF IInv, TypeOK
<1> DEFINE r == [no |-> StartOf(bytes), whole |-> k = 2]
<1>6. r \in [no : Numbers \cup {GARBAGE}, whole : BOOLEAN]
  BY <1>4
<1>7. /\ req' \in [Clients -> [no : Numbers \cup {GARBAGE}, whole : BOOLEAN]]
      /\ toServer' \in [Clients -> Seq(Halves)]
      /\ handler' \in [Clients -> {"none", "recv", "perform", "send"}]
      /\ handler'[c] = "perform" /\ toServer'[c] = Rest(k, bytes) /\ req'[c] = r
      /\ \A d \in Clients \ {c} : /\ handler'[d] = handler[d] /\ toServer'[d] = toServer[d]
                                  /\ req'[d] = req[d]
  BY <1>1, <1>2, <1>4, <1>6 DEF IInv, TypeOK
<1>8. Queued' = Queued /\ Served' = Served
  BY <1>2, <1>7 DEF Queued, Served
<1>9. TypeOK' /\ Once'
  BY <1>2, <1>5, <1>7, <1>8 DEF IInv, TypeOK, Once
<1>10. \A d \in Clients \ {c} : Apart(d)
  BY <1>2, <1>5, <1>7, <1>8 DEF Apart
<1>11. Held(c) /\ Held(c)' /\ pc[c] # "off"
  BY <1>2, <1>7 DEF Held, IInv, Connection, Off
<1>12. ASSUME NEW n \in Nat, Coming(c, n), ~ short'[c]
       PROVE  InHand(c, n)' /\ ~ short[c]
  <2>1. bytes = Message(n) /\ n \in Numbers \cup {GARBAGE}
    BY <1>12 DEF Coming, Numbers
  <2>2. k = 2 /\ Rest(k, bytes) = << >> /\ ~ short[c] /\ StartOf(bytes) = n
    BY <1>1, <1>12, <2>1, WholeTaken, MessageType DEF IInv, TypeOK
  <2>. QED  BY <1>7, <2>2 DEF InHand
<1>13. ASSUME ~ short'[c]
       PROVE  \E m, j \in Nat : Tally(c, m, j)' /\ Place(c, m, j)'
  <2>1. ~ short[c]
    BY <1>5, <1>13
  <2>2. PICK m \in Nat, j \in Nat : Tally(c, m, j) /\ Place(c, m, j)
    BY <2>1 DEF IInv, Connection
  <2>3. Tally(c, m, j)'
    BY <1>2, <2>2 DEF Tally
  <2>4. ~ Quiet(c) /\ (\A n : ~ InHand(c, n) /\ ~ Ran(c, n)) /\ ~ CutOff(c, m, j)
    BY <1>2, <1>4, <1>11 DEF Quiet, InHand, Ran, CutOff
  <2>5. InStep(c, m, j) => InStep(c, m, j)'
    <3>1. QUIT \in Nat /\ m + 1 \in Nat
      BY DEF QUIT
    <3>2. Coming(c, QUIT) => InHand(c, QUIT)'
      BY <1>12, <1>13, <3>1
    <3>3. Coming(c, m + 1) => InHand(c, m + 1)'
      BY <1>12, <1>13, <3>1
    <3>. QED  BY <1>2, <1>11, <2>4, <3>2, <3>3 DEF InStep
  <2>6. LeftBehind(c, m, j) => LeftBehind(c, m, j)'
    <3>1. \A n \in Nat : Coming(c, n) => InHand(c, n)'
      BY <1>12, <1>13
    <3>. QED  BY <1>2, <1>11, <2>4, <3>1 DEF LeftBehind
  <2>7. Place(c, m, j)'
    BY <1>2, <2>2, <2>4, <2>5, <2>6 DEF Place
  <2>. QED  BY <2>3, <2>7
<1>14. Connection(c)'
  BY <1>2, <1>11, <1>13 DEF Connection
<1>. QED  BY <1>2, <1>5, <1>9, <1>10, <1>14, OneStep

\* What handle_client leaves when it closes the connection of a step that
\* breaks no process.
LEMMA QuietEnd ==
    ASSUME IInv, NEW c \in Clients, handler[c] # "none", CloseEnd(c),
           UNCHANGED <<clientVars, toClient, short, mode, done, queue, up, broken>>
    PROVE  IInv'
<1>1. broken' = broken /\ short' = short /\ toClient' = toClient
  OBVIOUS
<1>2. NoBrokenPipe' /\ broken' \in BOOLEAN /\ toClient' \in [Clients -> Seq(Halves)]
  BY <1>1 DEF IInv, TypeOK, NoBrokenPipe
<1>. QED  BY <1>1, <1>2, OneEndStep

\* A process is ended by SIGPIPE.
LEMMA BrokenPipeStep ==
    ASSUME IInv, NEW c \in Clients, handler[c] \in {"perform", "send"}, BrokenPipe(c),
           UNCHANGED <<clientVars, short, mode, done>>
    PROVE  IInv'
<1>1. broken' \in BOOLEAN /\ toClient' = toClient /\ toClient' \in [Clients -> Seq(Halves)]
  BY DEF BrokenPipe, IInv, TypeOK
<1>2. short[c] /\ short' = short
  BY DeadIsShort DEF BrokenPipe
<1>3. NoBrokenPipe'
  BY <1>2 DEF NoBrokenPipe
<1>4. CASE mode = "iterative"
  BY <1>1, <1>3, <1>4, ShutStep DEF BrokenPipe
<1>5. CASE mode # "iterative"
  BY <1>1, <1>3, <1>5, OneEndStep DEF BrokenPipe
<1>. QED  BY <1>4, <1>5

\* A message of an answer is put on the wire.
LEMMA Replies ==
    ASSUME TypeOK, NEW c \in Clients, NEW n \in Numbers \cup {GARBAGE}, Reply(c, n)
    PROVE  /\ toClient' \in [Clients -> Seq(Halves)]
           /\ toClient'[c] = toClient[c] \o Message(n)
           /\ \A d \in Clients \ {c} : toClient'[d] = toClient[d]
<1>1. toClient \in [Clients -> Seq(Halves)] /\ Message(n) \in Seq(Halves)
  BY MessageType DEF TypeOK
<1>2. toClient[c] \o Message(n) \in Seq(Halves)
  BY <1>1
<1>. QED  BY <1>1, <1>2 DEF Reply

\* A QUIT, or what is taken for one, ends the connection.
LEMMA QuitsStep ==
    ASSUME IInv, NEW c \in Clients, handler[c] = "perform", req[c].no \in {QUIT, GARBAGE},
           Quits(c), UNCHANGED <<clientVars, short, mode, done>>
    PROVE  IInv'
<1>1. CASE BrokenPipe(c)
  BY <1>1, BrokenPipeStep
<1>2. CASE ~ BrokenPipe(c)
  <2>1. /\ IF atServer[c] = "open" THEN Reply(c, QUIT) ELSE UNCHANGED toClient
        /\ CloseEnd(c) /\ UNCHANGED <<up, queue, broken>>
    BY <1>2 DEF Quits
  <2>2. /\ toClient' \in [Clients -> Seq(Halves)]
        /\ \A d \in Clients \ {c} : toClient'[d] = toClient[d]
    <3>1. CASE atServer[c] = "open"
      BY <2>1, <3>1, Replies DEF IInv, QUIT, Numbers
    <3>2. CASE atServer[c] # "open"
      BY <2>1, <3>2 DEF IInv, TypeOK
    <3>. QED  BY <3>1, <3>2
  <2>3. ASSUME ~ short[c]
        PROVE  pc[c] \in {"bye", "gone"}
    <3>1. PICK m \in Nat, k \in Nat : Place(c, m, k)
      BY <2>3 DEF IInv, Connection
    <3>2. Held(c)
      BY DEF Held
    <3>3. pc[c] \in Connected \cup {"gone"}
      BY <3>2 DEF IInv, TypeOK, Connection, Off
    <3>4. ~ CutOff(c, m, k) /\ ~ Quiet(c) /\ \A n : ~ Coming(c, n) /\ ~ Ran(c, n)
      BY <3>2 DEF CutOff, Quiet, Coming, Ran
    <3>5. ~ InHand(c, m + 1)
      BY DEF InHand, QUIT, GARBAGE
    <3>. QED  BY <3>1, <3>3, <3>4, <3>5 DEF Place, InStep, Connected
  <2>4. ShowsNoMore(c)
    BY <2>3 DEF ShowsNoMore
  <2>5. NoBrokenPipe' /\ broken' \in BOOLEAN
    BY <2>1 DEF IInv, TypeOK, NoBrokenPipe
  <2>. QED  BY <2>1, <2>2, <2>4, <2>5, OneEndStep
<1>. QED  BY <1>1, <1>2

\* The operation of a request runs: it was the next one of its client.
LEMMA RunsStep ==
    ASSUME IInv, NEW c \in Clients, handler[c] = "perform",
           NEW ops \in Seq(Numbers \cup {GARBAGE}), Runs(c, ops),
           \/ req[c].no = GARBAGE
           \/ req[c].no # QUIT /\ ops = <<IF req[c].whole THEN req[c].no ELSE GARBAGE>>,
           UNCHANGED <<clientVars, short, mode>>
    PROVE  IInv'
<1>1. /\ handler' = [handler EXCEPT ![c] = "send"] /\ done' = [done EXCEPT ![c] = @ \o ops]
      /\ UNCHANGED <<pc, asked, shown, short, mode, up, queue, req, toServer, toClient, atServer,
                     atClient, broken>>
  BY DEF Runs, clientVars
<1>2. done[c] \in Seq(Numbers \cup {GARBAGE}) /\ done[c] \o ops \in Seq(Numbers \cup {GARBAGE})
  BY DEF IInv, TypeOK
<1>3. /\ handler' \in [Clients -> {"none", "recv", "perform", "send"}]
      /\ done' \in [Clients -> Seq(Numbers \cup {GARBAGE})]
      /\ handler'[c] = "send" /\ done'[c] = done[c] \o ops
      /\ \A d \in Clients \ {c} : handler'[d] = handler[d] /\ done'[d] = done[d]
  BY <1>1, <1>2 DEF IInv, TypeOK
<1>4. Queued' = Queued /\ Served' = Served
  BY <1>1, <1>3 DEF Queued, Served
<1>5. TypeOK' /\ Once'
  BY <1>1, <1>3, <1>4 DEF IInv, TypeOK, Once
<1>6. \A d \in Clients \ {c} : Apart(d)
  BY <1>1, <1>3, <1>4 DEF Apart
<1>7. Held(c) /\ Held(c)' /\ pc[c] # "off"
  BY <1>3 DEF Held, IInv, Connection, Off
<1>8. ASSUME ~ short'[c]
      PROVE  \E m, j \in Nat : Tally(c, m, j)' /\ Place(c, m, j)'
  <2>1. PICK m \in Nat, k \in Nat : Tally(c, m, k) /\ Place(c, m, k)
    BY <1>1, <1>8 DEF IInv, Connection
  <2>2. /\ ~ CutOff(c, m, k) /\ ~ Quiet(c) /\ (\A n : ~ Coming(c, n) /\ ~ Ran(c, n))
        /\ pc[c] \in Connected \cup {"gone"}
    BY <1>7 DEF CutOff, Quiet, Coming, Ran, IInv, TypeOK
  <2>3. ~ InHand(c, QUIT)
    BY DEF InHand, QUIT, GARBAGE
  <2>4. /\ k = m /\ InHand(c, k + 1) /\ k + 1 <= asked[c]
        /\ pc[c] \in Connected => /\ pc[c] = "wait" /\ atServer[c] = "open" /\ atClient[c] = "open"
                                   /\ Len(shown[c]) = m /\ asked[c] = m + 1 /\ toClient[c] = << >>
        /\ pc[c] = "gone" => atServer[c] \notin {"open", "dead"}
    <3>1. CASE pc[c] \in Connected
      <4>1. InStep(c, m, k) /\ atClient[c] = "open" /\ pc[c] # "gone"
        BY <2>1, <2>2, <3>1 DEF Place, Connected
      <4>2. /\ pc[c] = "wait" /\ k = m /\ InHand(c, m + 1) /\ asked[c] = m + 1
            /\ toClient[c] = << >> /\ atServer[c] = "open" /\ Len(shown[c]) = m
        BY <2>2, <2>3, <3>1, <4>1 DEF InStep, Connected
      <4>. QED  BY <4>1, <4>2
    <3>2. CASE pc[c] = "gone"
      <4>1. LeftBehind(c, m, k) /\ pc[c] \notin Connected
        BY <2>1, <3>2 DEF Place, Connected
      <4>2. PICK n \in Nat : /\ InHand(c, n) /\ (n = QUIT \/ (n = k + 1 /\ k = m /\ n <= asked[c]))
                             /\ atServer[c] \notin {"open", "dead"}
        BY <1>7, <2>2, <4>1 DEF LeftBehind
      <4>. QED  BY <2>3, <4>1, <4>2
    <3>. QED  BY <2>2, <3>1, <3>2
  <2>5. req[c].no = k + 1 /\ toServer[c] = << >> /\ ops = <<k + 1>>
    BY <2>4 DEF InHand, GARBAGE
  <2>6. Tally(c, m, k + 1)'
    <3>1. done[c] = [n \in 1 .. k |-> n]
      BY <2>1 DEF Tally
    <3>2. [n \in 1 .. k |-> n] \o <<k + 1>> = [n \in 1 .. k + 1 |-> n]
      OBVIOUS
    <3>3. done'[c] = [n \in 1 .. k + 1 |-> n]
      BY <1>3, <2>5, <3>1, <3>2
    <3>. QED  BY <1>1, <2>1, <2>4, <3>3 DEF Tally
  <2>7. Ran(c, k + 1)'
    BY <1>1, <1>3, <2>5 DEF Ran
  <2>8. Place(c, m, k + 1)'
    <3>1. CASE pc[c] \in Connected
      <4>1. InStep(c, m, k + 1)'
        BY <1>1, <1>7, <2>4, <2>7, <3>1 DEF InStep
      <4>. QED  BY <1>1, <2>4, <3>1, <4>1 DEF Place
    <3>2. CASE pc[c] = "gone"
      <4>1. LeftBehind(c, m, k + 1)'
        BY <1>1, <2>4, <2>7, <3>2 DEF LeftBehind
      <4>. QED  BY <1>1, <3>2, <4>1 DEF Place, Connected
    <3>. QED  BY <2>2, <3>1, <3>2
  <2>9. k + 1 \in Nat
    OBVIOUS
  <2>. QED  BY <2>6, <2>8, <2>9
<1>9. Connection(c)'
  BY <1>1, <1>7, <1>8 DEF Connection
<1>. QED  BY <1>1, <1>5, <1>6, <1>9, OneStep

\* handle_client does what a request says.
LEMMA PerformStep ==
    ASSUME IInv, NEW c \in Clients, Perform(c)
    PROVE  IInv'
<1> DEFINE n == req[c].no
<1>1. handler[c] = "perform" /\ UNCHANGED <<clientVars, short, mode>>
  BY DEF Perform
<1>2. n \in Numbers \cup {GARBAGE}
  BY DEF IInv, TypeOK
<1>3. CASE n \in {QUIT, GARBAGE} /\ Quits(c) /\ UNCHANGED done
  BY <1>1, <1>3, QuitsStep
<1>4. CASE n = GARBAGE /\ Runs(c, << >>)
  <2>1. << >> \in Seq(Numbers \cup {GARBAGE})
    OBVIOUS
  <2>. QED  BY <1>1, <1>4, <2>1, RunsStep
<1>5. CASE n # QUIT /\ Runs(c, <<IF req[c].whole THEN n ELSE GARBAGE>>)
  <2>1. <<IF req[c].whole THEN n ELSE GARBAGE>> \in Seq(Numbers \cup {GARBAGE})
    BY <1>2
  <2>. QED  BY <1>1, <1>5, <2>1, RunsStep
<1>. QED  BY <1>3, <1>4, <1>5 DEF Perform

\* The answer is sent, or found out not to arrive.
LEMMA SendAnswerStep ==
    ASSUME IInv, NEW c \in Clients, SendAnswer(c)
    PROVE  IInv'
<1>1. handler[c] = "send" /\ UNCHANGED <<clientVars, short, mode, done>>
  BY DEF SendAnswer
<1>2. CASE BrokenPipe(c)
  BY <1>1, <1>2, BrokenPipeStep
<1>3. CASE atServer[c] = "reset" /\ CloseEnd(c) /\ UNCHANGED <<up, queue, toClient, broken>>
  BY <1>1, <1>3, QuietEnd
<1>4. ASSUME NEW s \in {"open", "fin", "dead"}, NEW w \in Seq(Halves),
             atServer[c] \in {"open", "fin"},
             IF atServer[c] = "open" THEN s = "open" /\ w = toClient[c] \o Message(req[c].no)
                                     ELSE s # "open" /\ w = toClient[c],
             Answered(c), toClient' = [toClient EXCEPT ![c] = w],
             atServer' = [atServer EXCEPT ![c] = s],
             UNCHANGED <<up, queue, req, toServer, atClient, broken>>
      PROVE  IInv'
  <2>1. UNCHANGED <<pc, asked, shown, short, mode, done, up, queue, req, toServer, atClient, broken>>
    BY <1>1, <1>4 DEF clientVars
  <2>2. /\ handler' \in [Clients -> {"none", "recv", "perform", "send"}]
        /\ toClient' \in [Clients -> Seq(Halves)]
        /\ atServer' \in [Clients -> {"open", "fin", "reset", "dead"}]
        /\ handler'[c] = "recv" /\ toClient'[c] = w /\ atServer'[c] = s
        /\ \A d \in Clients \ {c} : /\ handler'[d] = handler[d] /\ toClient'[d] = toClient[d]
                                    /\ atServer'[d] = atServer[d]
    BY <1>4 DEF Answered, IInv, TypeOK
  <2>3. Queued' = Queued /\ Served' = Served
    BY <1>1, <2>1, <2>2 DEF Queued, Served
  <2>4. TypeOK' /\ Once'
    BY <2>1, <2>2, <2>3 DEF IInv, TypeOK, Once
  <2>5. \A d \in Clients \ {c} : Apart(d)
    BY <2>1, <2>2, <2>3 DEF Apart
  <2>6. Held(c) /\ Held(c)' /\ pc[c] # "off"
    BY <1>1, <2>2 DEF Held, IInv, Connection, Off
  <2>7. ASSUME ~ short'[c]
        PROVE  \E m, k \in Nat : Tally(c, m, k)' /\ Place(c, m, k)'
    <3>1. PICK m \in Nat, k \in Nat : Tally(c, m, k) /\ Place(c, m, k)
      BY <2>1, <2>7 DEF IInv, Connection
    <3>2. Tally(c, m, k)'
      BY <2>1, <3>1 DEF Tally
    <3>3. /\ ~ CutOff(c, m, k) /\ ~ Quiet(c) /\ (\A n : ~ Coming(c, n) /\ ~ InHand(c, n))
          /\ pc[c] \in Connected \cup {"gone"}
      BY <1>1, <2>6 DEF CutOff, Quiet, Coming, InHand, IInv, TypeOK
    <3>4. CASE pc[c] \in Connected
      <4>1. InStep(c, m, k) /\ atClient[c] = "open" /\ pc[c] # "gone"
        BY <3>1, <3>3, <3>4 DEF Place, Connected
      <4>2. /\ pc[c] = "wait" /\ Ran(c, m + 1) /\ k = m + 1 /\ asked[c] = m + 1
            /\ toClient[c] = << >> /\ Len(shown[c]) = m /\ atServer[c] = "open"
        BY <3>3, <3>4, <4>1 DEF InStep, Connected
      <4>3. req[c].no = m + 1 /\ toServer[c] = << >>
        BY <4>2 DEF Ran
      <4>4. w = Message(m + 1) /\ s = "open"
        <5>1. m + 1 \in Numbers \cup {GARBAGE}
          BY DEF Numbers
        <5>. QED  BY <1>4, <4>2, <4>3, <5>1, MessageArrives
      <4>5. Quiet(c)'
        BY <2>1, <2>2, <4>3 DEF Quiet
      <4>6. InStep(c, m, k)'
        BY <2>1, <2>2, <2>6, <4>2, <4>4, <4>5 DEF InStep
      <4>. QED  BY <2>1, <3>2, <4>1, <4>6 DEF Place
    <3>5. CASE pc[c] = "gone"
      <4>1. LeftBehind(c, m, k) /\ pc[c] \notin Connected
        BY <3>1, <3>5 DEF Place, Connected
      <4>2. PICK n \in Nat : Ran(c, n) /\ atServer[c] # "open"
        BY <2>6, <3>3, <4>1 DEF LeftBehind
      <4>3. toServer[c] = << >> /\ s # "open"
        BY <1>4, <4>2 DEF Ran
      <4>4. Quiet(c)'
        BY <2>1, <2>2, <4>3 DEF Quiet
      <4>5. LeftBehind(c, m, k)'
        BY <2>2, <4>3, <4>4 DEF LeftBehind
      <4>. QED  BY <2>1, <3>2, <3>5, <4>1, <4>5 DEF Place
    <3>. QED  BY <3>3, <3>4, <3>5
  <2>8. Connection(c)'
    BY <2>1, <2>6, <2>7 DEF Connection
  <2>. QED  BY <2>1, <2>4, <2>5, <2>8, OneStep
<1>5. CASE /\ atServer[c] = "open" /\ Answered(c) /\ Reply(c, req[c].no)
           /\ UNCHANGED <<up, queue, req, toServer, atServer, atClient, broken>>
  <2>1. req[c].no \in Numbers \cup {GARBAGE} /\ toClient \in [Clients -> Seq(Halves)]
        /\ atServer \in [Clients -> {"open", "fin", "reset", "dead"}]
    BY DEF IInv, TypeOK
  <2>2. toClient[c] \o Message(req[c].no) \in Seq(Halves)
    BY <2>1, MessageType
  <2>3. /\ toClient' = [toClient EXCEPT ![c] = toClient[c] \o Message(req[c].no)]
        /\ atServer' = [atServer EXCEPT ![c] = "open"]
    BY <1>5, <2>1 DEF Reply
  <2>. QED  BY <1>4, <1>5, <2>2, <2>3
<1>6. CASE /\ atServer[c] = "fin" /\ Answered(c)
           /\ \E s \in {"fin", "dead"} : atServer' = [atServer EXCEPT ![c] = s]
           /\ UNCHANGED <<up, queue, req, toServer, toClient, atClient, broken>>
  <2>1. toClient \in [Clients -> Seq(Halves)]
    BY DEF IInv, TypeOK
  <2>2. toClient' = [toClient EXCEPT ![c] = toClient[c]] /\ toClient[c] \in Seq(Halves)
    BY <1>6, <2>1
  <2>. QED  BY <1>4, <1>6, <2>2
<1>. QED  BY <1>2, <1>3, <1>5, <1>6 DEF SendAnswer

\* handle_client, for one connection.
LEMMA ServeStep ==
    ASSUME IInv, NEW c \in Clients, Serve(c)
    PROVE  IInv'
<1>1. CASE ClientGone(c)
  BY <1>1, QuietEnd DEF ClientGone
<1>. QED  BY <1>1, ReceiveRequestStep, PerformStep, SendAnswerStep DEF Serve

-----------------------------------------------------------------------------
(* Steps of the client.                                                    *)

\* What the step of a client leaves to the others.
Elsewhere(c) ==
    \A d \in Clients \ {c} :
        /\ pc'[d] = pc[d] /\ asked'[d] = asked[d] /\ shown'[d] = shown[d]
        /\ toServer'[d] = toServer[d] /\ toClient'[d] = toClient[d]
        /\ atServer'[d] = atServer[d] /\ atClient'[d] = atClient[d] /\ short'[d] = short[d]

\* A step of a client that leaves the server's own state alone.
LEMMA ClientStep ==
    ASSUME IInv, NEW c \in Clients, UNCHANGED serverVars, Elsewhere(c),
           pc' \in [Clients -> {"off", "gone"} \cup Connected],
           asked' \in [Clients -> Nat], \A d \in Clients : asked'[d] <= MaxRequests[d],
           toServer' \in [Clients -> Seq(Halves)], toClient' \in [Clients -> Seq(Halves)],
           atServer' \in [Clients -> {"open", "fin", "reset", "dead"}],
           atClient' \in [Clients -> {"open", "fin", "reset", "dead"}],
           shown' \in [Clients -> Seq(Numbers \cup {GARBAGE, NOTHING, FAILED})],
           short' \in [Clients -> BOOLEAN], short[c] => short'[c],
           Connection(c)'
    PROVE  IInv'
<1>1. UNCHANGED <<mode, up, queue, handler, req, done, broken>>
  BY DEF serverVars
<1>2. Queued' = Queued /\ Served' = Served
  BY <1>1 DEF Queued, Served
<1>3. TypeOK' /\ Once'
  BY <1>1, <1>2 DEF IInv, TypeOK, Once
<1>4. \A d \in Clients \ {c} : Apart(d)
  BY <1>1, <1>2 DEF Elsewhere, Apart
<1>. QED  BY <1>1, <1>3, <1>4, OneStep

\* The kernel closes the end of a client: types.
LEMMA LeaveType ==
    ASSUME TypeOK, NEW c \in Clients, NEW unread, Leave(c, unread)
    PROVE  /\ pc' \in [Clients -> {"off", "gone"} \cup Connected] /\ pc'[c] = "gone"
           /\ toClient' \in [Clients -> Seq(Halves)]
           /\ atServer' \in [Clients -> {"open", "fin", "reset", "dead"}]
           /\ atClient' \in [Clients -> {"open", "fin", "reset", "dead"}]
           /\ Held(c) => atServer'[c] \in {"fin", "reset"}
           /\ \A d \in Clients \ {c} :
                  /\ pc'[d] = pc[d] /\ toClient'[d] = toClient[d]
                  /\ atServer'[d] = atServer[d] /\ atClient'[d] = atClient[d]
<1> DEFINE s == IF c \in Queued \cup Served THEN Farewell(unread) ELSE "open"
<1>1. /\ pc' = [pc EXCEPT ![c] = "gone"] /\ atServer' = [atServer EXCEPT ![c] = s]
      /\ toClient' = [toClient EXCEPT ![c] = << >>] /\ atClient' = [atClient EXCEPT ![c] = "open"]
  BY DEF Leave
<1>2. s \in {"open", "fin", "reset"} /\ (Held(c) => s \in {"fin", "reset"})
  BY DEF Farewell, Held, Served
<1>3. << >> \in Seq(Halves)
  OBVIOUS
<1> HIDE DEF s
<1>. QED  BY <1>1, <1>2, <1>3 DEF TypeOK

\* A client that leaves: its last request may still be on its way.
LEMMA LeaveConnection ==
    ASSUME TypeOK, NEW c \in Clients, Connection(c), pc[c] \in Connected,
           NEW unread, Leave(c, unread), UNCHANGED serverVars,
           toServer'[c] = toServer[c], shown'[c] = shown[c],
           short[c] => short'[c], asked'[c] \in Nat, asked'[c] >= asked[c]
    PROVE  Connection(c)'
<1>1. pc'[c] = "gone" /\ (Held(c) => atServer'[c] \in {"fin", "reset"}) /\ pc[c] # "gone"
  BY LeaveType DEF Connected
<1>2. UNCHANGED <<queue, handler, req, done>>
  BY DEF serverVars
<1>3. /\ Held(c)' <=> Held(c)
      /\ Quiet(c)' <=> Quiet(c)
      /\ \A n : (Coming(c, n)' <=> Coming(c, n)) /\ (InHand(c, n)' <=> InHand(c, n))
                /\ (Ran(c, n)' <=> Ran(c, n))
  BY <1>2 DEF Held, Queued, Quiet, Coming, InHand, Ran
<1>4. asked[c] \in Nat
  BY SessionsAssumption DEF TypeOK
<1>5. ASSUME ~ short[c], NEW m \in Nat, NEW k \in Nat, Tally(c, m, k), Place(c, m, k)
      PROVE  Tally(c, m, k)' /\ Place(c, m, k)'
  <2>1. Tally(c, m, k)'
    <3>1. shown[c] \in Seq(Numbers \cup {GARBAGE, NOTHING, FAILED})
      BY DEF TypeOK
    <3>2. Len(shown[c]) \in Nat
      BY <3>1
    <3>. QED  BY <1>2, <1>4, <1>5, <3>2 DEF Tally
  <2>2. LeftBehind(c, m, k)'
    <3>1. CASE ~ Held(c)
      BY <1>3, <3>1 DEF LeftBehind
    <3>2. CASE Held(c)
      <4>1. InStep(c, m, k)
        BY <1>5, <3>2 DEF Place, CutOff
      <4>2. atServer'[c] \notin {"open", "dead"}
        BY <1>1, <3>2
      <4>3. CASE pc[c] \in {"menu", "spin"}
        BY <1>3, <4>1, <4>2, <4>3 DEF InStep, LeftBehind
      <4>4. CASE pc[c] = "bye"
        <5>1. QUIT \in Nat /\ (Coming(c, QUIT)' \/ InHand(c, QUIT)')
          BY <1>3, <4>1, <4>4 DEF InStep, QUIT
        <5>. QED  BY <4>2, <5>1 DEF LeftBehind
      <4>5. CASE pc[c] = "wait"
        <5>1. /\ asked[c] = m + 1
              /\ \/ k = m /\ (Coming(c, m + 1)' \/ InHand(c, m + 1)')
                 \/ Ran(c, m + 1)'
                 \/ Quiet(c)'
          BY <1>3, <4>1, <4>5 DEF InStep
        <5>2. m + 1 \in Nat /\ m + 1 <= asked'[c]
          BY <1>4, <5>1
        <5>3. CASE k = m /\ (Coming(c, m + 1)' \/ InHand(c, m + 1)')
          BY <4>2, <5>2, <5>3 DEF LeftBehind
        <5>4. CASE Ran(c, m + 1)'
          BY <4>2, <5>2, <5>4 DEF LeftBehind
        <5>5. CASE Quiet(c)'
          BY <4>2, <5>5 DEF LeftBehind
        <5>. QED  BY <5>1, <5>3, <5>4, <5>5
      <4>. QED  BY <4>3, <4>4, <4>5 DEF Connected
    <3>. QED  BY <3>1, <3>2
  <2>3. Place(c, m, k)'
    BY <1>1, <2>2 DEF Place, Connected
  <2>. QED  BY <2>1, <2>3
<1>6. ~ short'[c] => \E m, k \in Nat : Tally(c, m, k)' /\ Place(c, m, k)'
  BY <1>1, <1>5 DEF Connection
<1>. QED  BY <1>1, <1>6 DEF Connection

\* A connection comes into the queue, with nothing on it.
LEMMA ConnectStep ==
    ASSUME IInv, NEW c \in Clients, Connect(c)
    PROVE  IInv'
<1>1. /\ pc[c] = "off" /\ Len(queue) < QueueLimit /\ pc' = [pc EXCEPT ![c] = "menu"]
      /\ queue' = Append(queue, c)
      /\ UNCHANGED <<asked, shown, toServer, toClient, atServer, atClient, short, mode, up,
                     handler, req, done, broken>>
  BY DEF Connect, wireVars
<1>2. Off(c) /\ c \notin Queued /\ handler[c] = "none"
  BY <1>1 DEF IInv, Connection, Off, Held
<1>3. /\ queue' \in Seq(Clients) /\ Len(queue') = Len(queue) + 1 /\ Once'
      /\ Queued' = Queued \cup {c}
  BY <1>1, <1>2, QueueAppend DEF IInv, TypeOK
<1>4. /\ pc' \in [Clients -> {"off", "gone"} \cup Connected] /\ pc'[c] = "menu"
      /\ \A d \in Clients \ {c} : pc'[d] = pc[d]
  BY <1>1 DEF IInv, TypeOK, Connected
<1>5. Len(queue') <= QueueLimit
  <2>1. Len(queue) \in Nat /\ QueueLimit \in Nat
    BY SessionsAssumption DEF IInv, TypeOK
  <2>. QED  BY <1>1, <1>3, <2>1
<1>6. Queued' \cap Served' = {}
  <2>1. Served' = Served /\ c \notin Served
    BY <1>1, <1>2 DEF Served
  <2>. QED  BY <1>3, <2>1 DEF IInv, TypeOK
<1>7. TypeOK'
  BY <1>1, <1>3, <1>4, <1>5, <1>6 DEF IInv, TypeOK
<1>8. \A d \in Clients \ {c} : Apart(d)
  BY <1>1, <1>3, <1>4 DEF Apart
<1>9. Connection(c)'
  <2>1. /\ asked'[c] = 0 /\ shown'[c] = << >> /\ done'[c] = << >> /\ toServer'[c] = << >>
        /\ toClient'[c] = << >> /\ atServer'[c] = "open" /\ atClient'[c] = "open"
        /\ handler'[c] = "none"
    BY <1>1, <1>2 DEF Off
  <2>2. Tally(c, 0, 0)'
    <3>1. << >> = [n \in 1 .. 0 |-> n]
      OBVIOUS
    <3>. QED  BY <2>1, <3>1 DEF Tally
  <2>3. Quiet(c)' /\ Held(c)'
    BY <1>3, <2>1 DEF Quiet, Held
  <2>4. InStep(c, 0, 0)'
    BY <1>4, <2>1, <2>3 DEF InStep
  <2>5. Place(c, 0, 0)'
    BY <1>4, <2>1, <2>4 DEF Place
  <2>6. pc'[c] # "off"
    BY <1>4
  <2>. QED  BY <2>2, <2>5, <2>6 DEF Connection
<1>. QED  BY <1>1, <1>3, <1>7, <1>8, <1>9, OneStep

\* A client that gives up, or whose input has ended.
LEMMA IdleStep ==
    ASSUME IInv, NEW c \in Clients, ConnectFails(c) \/ EndOfInput(c)
    PROVE  IInv'
<1>1. PICK p \in {"gone", "spin"} :
          /\ pc' = [pc EXCEPT ![c] = p]
          /\ p = "gone" => pc[c] = "off"
          /\ p = "spin" => pc[c] = "menu"
          /\ UNCHANGED <<asked, shown, wireVars, serverVars>>
  BY DEF ConnectFails, EndOfInput
<1>2. /\ pc' \in [Clients -> {"off", "gone"} \cup Connected] /\ pc'[c] = p
      /\ \A d \in Clients \ {c} : pc'[d] = pc[d]
  BY <1>1 DEF IInv, TypeOK, Connected
<1>3. UNCHANGED <<asked, shown, toServer, toClient, atServer, atClient, short,
                  queue, handler, req, done>>
  BY <1>1 DEF wireVars, serverVars
<1>4. /\ Held(c)' <=> Held(c)
      /\ Quiet(c)' <=> Quiet(c)
  BY <1>3 DEF Held, Queued, Quiet
<1>5. Connection(c)'
  <2>1. CASE p = "gone"
    <3>1. Off(c) /\ ~ Held(c)'
      BY <1>1, <1>4, <2>1 DEF IInv, Connection, Off
    <3>2. Tally(c, 0, 0)'
      <4>1. << >> = [n \in 1 .. 0 |-> n]
        OBVIOUS
      <4>. QED  BY <1>3, <3>1, <4>1 DEF Tally, Off
    <3>3. Place(c, 0, 0)'
      BY <1>2, <2>1, <3>1 DEF Place, LeftBehind, Connected
    <3>. QED  BY <1>2, <2>1, <3>2, <3>3 DEF Connection
  <2>2. CASE p = "spin"
    <3>1. pc[c] = "menu" /\ pc[c] \in Connected /\ pc'[c] = "spin" /\ pc'[c] # "off"
      BY <1>1, <1>2, <2>2 DEF Connected
    <3>2. ASSUME NEW m \in Nat, NEW k \in Nat, Tally(c, m, k), Place(c, m, k)
          PROVE  Tally(c, m, k)' /\ Place(c, m, k)'
      <4>1. Tally(c, m, k)'
        BY <1>3, <3>2 DEF Tally
      <4>2. InStep(c, m, k) => InStep(c, m, k)'
        BY <1>3, <1>4, <3>1 DEF InStep
      <4>3. CutOff(c, m, k) => CutOff(c, m, k)'
        BY <1>3, <1>4, <3>1 DEF CutOff
      <4>4. Place(c, m, k)'
        BY <1>3, <3>1, <3>2, <4>2, <4>3 DEF Place
      <4>. QED  BY <4>1, <4>4
    <3>3. ~ short'[c] => \E m, k \in Nat : Tally(c, m, k)' /\ Place(c, m, k)'
      BY <1>3, <3>2 DEF IInv, Connection
    <3>. QED  BY <3>1, <3>3 DEF Connection
  <2>. QED  BY <2>1, <2>2
<1>6. Elsewhere(c)
  BY <1>2, <1>3 DEF Elsewhere
<1>7. /\ UNCHANGED serverVars
      /\ asked' \in [Clients -> Nat] /\ \A d \in Clients : asked'[d] <= MaxRequests[d]
      /\ toServer' \in [Clients -> Seq(Halves)] /\ toClient' \in [Clients -> Seq(Halves)]
      /\ atServer' \in [Clients -> {"open", "fin", "reset", "dead"}]
      /\ atClient' \in [Clients -> {"open", "fin", "reset", "dead"}]
      /\ shown' \in [Clients -> Seq(Numbers \cup {GARBAGE, NOTHING, FAILED})]
      /\ short' \in [Clients -> BOOLEAN] /\ short' = short
  BY <1>1, <1>3 DEF IInv, TypeOK
<1>. QED  BY <1>2, <1>5, <1>6, <1>7, ClientStep

\* A client's process ends.
LEMMA ClientKilledStep ==
    ASSUME IInv, NEW c \in Clients, ClientKilled(c)
    PROVE  IInv'
<1>1. /\ pc[c] \in Connected /\ Leave(c, toClient[c]) /\ UNCHANGED serverVars
      /\ UNCHANGED <<asked, shown, toServer, short>>
  BY DEF ClientKilled
<1>2. TypeOK /\ Connection(c)
  BY DEF IInv
<1>3. /\ pc' \in [Clients -> {"off", "gone"} \cup Connected]
      /\ toClient' \in [Clients -> Seq(Halves)]
      /\ atServer' \in [Clients -> {"open", "fin", "reset", "dead"}]
      /\ atClient' \in [Clients -> {"open", "fin", "reset", "dead"}]
      /\ \A d \in Clients \ {c} :
             /\ pc'[d] = pc[d] /\ toClient'[d] = toClient[d]
             /\ atServer'[d] = atServer[d] /\ atClient'[d] = atClient[d]
  BY <1>1, <1>2, LeaveType
<1>4. /\ asked' \in [Clients -> Nat] /\ \A d \in Clients : asked'[d] <= MaxRequests[d]
      /\ toServer' \in [Clients -> Seq(Halves)]
      /\ shown' \in [Clients -> Seq(Numbers \cup {GARBAGE, NOTHING, FAILED})]
      /\ short' \in [Clients -> BOOLEAN] /\ short' = short
  BY <1>1, <1>2 DEF TypeOK
<1>5. asked[c] \in Nat
  BY <1>2, SessionsAssumption DEF TypeOK
<1>6. Connection(c)'
  BY <1>1, <1>2, <1>5, LeaveConnection
<1>7. Elsewhere(c)
  BY <1>1, <1>3 DEF Elsewhere
<1>. QED  BY <1>1, <1>3, <1>4, <1>6, <1>7, ClientStep

\* What was counted stays counted when the client asks again, and when it is
\* shown that there is no answer.
LEMMA TallyStays ==
    ASSUME TypeOK, NEW c \in Clients, NEW m, NEW k, Tally(c, m, k), done'[c] = done[c],
           asked'[c] \in Nat, asked'[c] >= asked[c],
           \/ shown'[c] = shown[c]
           \/ \E x \in {NOTHING, FAILED} :
                  shown'[c] = Append(shown[c], x) /\ Len(shown[c]) + 1 <= asked'[c]
    PROVE  Tally(c, m, k)'
<1>1. shown[c] \in Seq(Numbers \cup {GARBAGE, NOTHING, FAILED}) /\ Len(shown[c]) \in Nat
  BY DEF TypeOK
<1>2. asked[c] \in Nat /\ m \in Nat /\ k \in Nat
  BY SessionsAssumption DEF TypeOK, Tally
<1>3. CASE shown'[c] = shown[c]
  BY <1>1, <1>2, <1>3 DEF Tally
<1>4. ASSUME NEW x \in {NOTHING, FAILED},
             shown'[c] = Append(shown[c], x) /\ Len(shown[c]) + 1 <= asked'[c]
      PROVE  Tally(c, m, k)'
  <2>1. /\ Len(shown'[c]) = Len(shown[c]) + 1
        /\ \A n \in 1 .. Len(shown[c]) : shown'[c][n] = shown[c][n]
        /\ shown'[c][Len(shown[c]) + 1] = x
    BY <1>1, <1>4
  <2>2. ASSUME NEW n \in 1 .. Len(shown'[c])
        PROVE  IF n <= m THEN shown'[c][n] = n ELSE shown'[c][n] \in {NOTHING, FAILED}
    <3>1. CASE n = Len(shown[c]) + 1
      BY <1>1, <1>2, <2>1, <3>1 DEF Tally
    <3>2. CASE n # Len(shown[c]) + 1
      <4>1. n \in 1 .. Len(shown[c])
        BY <1>1, <2>1, <3>2
      <4>. QED  BY <2>1, <4>1 DEF Tally
    <3>. QED  BY <3>1, <3>2
  <2>. QED  BY <1>1, <1>2, <1>4, <2>1, <2>2 DEF Tally
<1>. QED  BY <1>3, <1>4

\* A send by a client: types.
LEMMA ClientSends ==
    ASSUME TypeOK, NEW c \in Clients, NEW n \in Numbers,
           NEW p \in Connected, NEW q \in Connected, ClientSend(c, n, p, q)
    PROVE  /\ pc' \in [Clients -> {"off", "gone"} \cup Connected]
           /\ toServer' \in [Clients -> Seq(Halves)] /\ toClient' \in [Clients -> Seq(Halves)]
           /\ atServer' \in [Clients -> {"open", "fin", "reset", "dead"}]
           /\ atClient' \in [Clients -> {"open", "fin", "reset", "dead"}]
           /\ shown' \in [Clients -> Seq(Numbers \cup {GARBAGE, NOTHING, FAILED})]
           /\ \A d \in Clients \ {c} :
                  /\ pc'[d] = pc[d] /\ shown'[d] = shown[d]
                  /\ toServer'[d] = toServer[d] /\ toClient'[d] = toClient[d]
                  /\ atServer'[d] = atServer[d] /\ atClient'[d] = atClient[d]
           /\ \/ /\ atClient[c] = "open" /\ atClient'[c] = "open" /\ pc'[c] = p
                 /\ toServer'[c] = toServer[c] \o Message(n)
                 /\ atServer'[c] = atServer[c]
                 /\ toClient'[c] = toClient[c] /\ shown'[c] = shown[c]
              \/ /\ atClient[c] = "fin" /\ atClient'[c] # "open" /\ pc'[c] = p
                 /\ toClient'[c] = toClient[c] /\ shown'[c] = shown[c]
              \/ /\ atClient[c] = "reset" /\ atClient'[c] # "open" /\ pc'[c] = q
                 /\ toClient'[c] = toClient[c]
                 /\ shown'[c] = IF n = QUIT THEN shown[c] ELSE Append(shown[c], FAILED)
              \/ /\ atClient[c] = "dead" /\ Leave(c, toClient[c])
                 /\ toServer'[c] = toServer[c] /\ shown'[c] = shown[c]
<1>1. /\ pc \in [Clients -> {"off", "gone"} \cup Connected]
      /\ toServer \in [Clients -> Seq(Halves)] /\ toClient \in [Clients -> Seq(Halves)]
      /\ atServer \in [Clients -> {"open", "fin", "reset", "dead"}]
      /\ atClient \in [Clients -> {"open", "fin", "reset", "dead"}]
      /\ shown \in [Clients -> Seq(Numbers \cup {GARBAGE, NOTHING, FAILED})]
  BY DEF TypeOK
<1>2. toServer[c] \o Message(n) \in Seq(Halves)
  BY <1>1, MessageType
<1>3. Append(shown[c], FAILED) \in Seq(Numbers \cup {GARBAGE, NOTHING, FAILED})
  BY <1>1
<1>4. CASE /\ atClient[c] = "open"
           /\ toServer' = [toServer EXCEPT ![c] = @ \o Message(n)]
           /\ pc' = [pc EXCEPT ![c] = p]
           /\ UNCHANGED <<toClient, atServer, atClient, shown>>
  BY <1>1, <1>2, <1>4
<1>5. CASE /\ atClient[c] = "fin"
           /\ \E s \in {"fin", "dead"} : atClient' = [atClient EXCEPT ![c] = s]
           /\ pc' = [pc EXCEPT ![c] = p]
           /\ UNCHANGED <<toServer, toClient, atServer, shown>>
  BY <1>1, <1>5
<1>6. CASE /\ atClient[c] = "reset"
           /\ atClient' = [atClient EXCEPT ![c] = "dead"]
           /\ pc' = [pc EXCEPT ![c] = q]
           /\ IF n = QUIT THEN UNCHANGED shown ELSE Show(c, FAILED)
           /\ UNCHANGED <<toServer, toClient, atServer>>
  <2>1. /\ shown' \in [Clients -> Seq(Numbers \cup {GARBAGE, NOTHING, FAILED})]
        /\ shown'[c] = IF n = QUIT THEN shown[c] ELSE Append(shown[c], FAILED)
        /\ \A d \in Clients \ {c} : shown'[d] = shown[d]
    BY <1>1, <1>3, <1>6 DEF Show
  <2>. QED  BY <1>1, <1>6, <2>1
<1>7. CASE /\ atClient[c] = "dead" /\ Leave(c, toClient[c])
           /\ UNCHANGED <<toServer, shown>>
  BY <1>1, <1>7, LeaveType
<1>. QED  BY <1>4, <1>5, <1>6, <1>7 DEF ClientSend

\* A request is sent when nothing of an earlier one is left on the connection.
LEMMA AskStep ==
    ASSUME IInv, NEW c \in Clients, Ask(c)
    PROVE  IInv'
<1> DEFINE n == asked[c] + 1
<1>1. /\ pc[c] = "menu" /\ asked[c] < MaxRequests[c] /\ asked' = [asked EXCEPT ![c] = n]
      /\ ClientSend(c, n, "wait", "menu") /\ UNCHANGED <<short, serverVars>>
  BY DEF Ask
<1>2. TypeOK /\ Connection(c) /\ pc[c] \in Connected /\ UNCHANGED <<queue, handler, req, done>>
  BY <1>1 DEF IInv, Connected, serverVars
<1>3. asked[c] \in Nat /\ n \in Numbers /\ n # QUIT
  BY <1>2, SessionsAssumption DEF TypeOK, Numbers, QUIT
<1>4. /\ asked' \in [Clients -> Nat] /\ asked'[c] = n
      /\ \A d \in Clients \ {c} : asked'[d] = asked[d]
  BY <1>1, <1>2, <1>3 DEF TypeOK, Numbers
<1>5. \A d \in Clients : asked'[d] <= MaxRequests[d]
  <2>1. MaxRequests[c] \in Nat
    BY SessionsAssumption
  <2>2. n <= MaxRequests[c]
    BY <1>1, <1>3, <2>1
  <2>. QED  BY <1>2, <1>4, <2>2 DEF TypeOK
<1>6. "wait" \in Connected /\ "menu" \in Connected
  BY DEF Connected
<1> DEFINE
      Sent   == /\ atClient[c] = "open" /\ atClient'[c] = "open" /\ pc'[c] = "wait"
                /\ toServer'[c] = toServer[c] \o Message(n)
                /\ atServer'[c] = atServer[c]
                /\ toClient'[c] = toClient[c] /\ shown'[c] = shown[c]
      Lost   == /\ atClient[c] = "fin" /\ atClient'[c] # "open" /\ pc'[c] = "wait"
                /\ toClient'[c] = toClient[c] /\ shown'[c] = shown[c]
      Failed == /\ atClient[c] = "reset" /\ atClient'[c] # "open" /\ pc'[c] = "menu"
                /\ toClient'[c] = toClient[c]
                /\ shown'[c] = Append(shown[c], FAILED)
      Killed == /\ atClient[c] = "dead" /\ Leave(c, toClient[c])
                /\ toServer'[c] = toServer[c] /\ shown'[c] = shown[c]
<1> HIDE DEF n
<1>7. /\ pc' \in [Clients -> {"off", "gone"} \cup Connected]
      /\ toServer' \in [Clients -> Seq(Halves)] /\ toClient' \in [Clients -> Seq(Halves)]
      /\ atServer' \in [Clients -> {"open", "fin", "reset", "dead"}]
      /\ atClient' \in [Clients -> {"open", "fin", "reset", "dead"}]
      /\ shown' \in [Clients -> Seq(Numbers \cup {GARBAGE, NOTHING, FAILED})]
      /\ \A d \in Clients \ {c} :
             /\ pc'[d] = pc[d] /\ shown'[d] = shown[d]
             /\ toServer'[d] = toServer[d] /\ toClient'[d] = toClient[d]
             /\ atServer'[d] = atServer[d] /\ atClient'[d] = atClient[d]
      /\ Sent \/ Lost \/ Failed \/ Killed
  BY <1>1, <1>2, <1>3, <1>6, ClientSends
<1>8. Elsewhere(c)
  BY <1>1, <1>4, <1>7 DEF Elsewhere
<1>9. asked'[c] \in Nat /\ asked'[c] >= asked[c] /\ asked'[c] = asked[c] + 1
  BY <1>3, <1>4 DEF n
<1>10. short' = short /\ short' \in [Clients -> BOOLEAN]
  BY <1>1, <1>2 DEF TypeOK
<1>11. Held(c)' <=> Held(c)
  BY <1>2 DEF Held, Queued
<1>12. ASSUME Sent \/ Lost \/ Failed, ~ short[c],
              NEW m \in Nat, NEW k \in Nat, Tally(c, m, k), Place(c, m, k)
       PROVE  Tally(c, m, k)' /\ Place(c, m, k)'
  <2>1. shown[c] \in Seq(Numbers \cup {GARBAGE, NOTHING, FAILED}) /\ Len(shown[c]) \in Nat
    BY <1>2 DEF TypeOK
  <2>2. Len(shown[c]) = asked[c] /\ toClient[c] = << >>
    BY <1>1, <1>2, <1>12 DEF Place, InStep, CutOff
  <2>3. Tally(c, m, k)'
    BY <1>2, <1>9, <1>12, <2>1, <2>2, TallyStays
  <2>4. CASE Sent
    <3>1. /\ Held(c) /\ atServer[c] = "open" /\ Len(shown[c]) = m /\ asked[c] = m /\ k = m
          /\ Quiet(c)
      BY <1>1, <1>2, <1>12, <2>4 DEF Place, InStep
    <3>2. toServer'[c] = Message(n) /\ n = m + 1
      BY <1>3, <2>4, <3>1, MessageArrives DEF Quiet, n
    <3>3. Coming(c, m + 1)'
      BY <1>2, <3>1, <3>2 DEF Quiet, Coming
    <3>4. InStep(c, m, k)'
      BY <1>9, <1>11, <2>2, <2>4, <3>1, <3>3 DEF InStep
    <3>. QED  BY <2>3, <2>4, <3>4 DEF Place, Connected
  <2>5. CASE Lost
    <3>1. ~ Held(c)
      BY <1>2, <1>12, <2>5 DEF Place, CutOff
    <3>2. CutOff(c, m, k)'
      BY <1>3, <1>9, <1>11, <2>2, <2>5, <3>1 DEF CutOff
    <3>. QED  BY <2>3, <2>5, <3>2 DEF Place, Connected
  <2>6. CASE Failed
    <3>1. ~ Held(c)
      BY <1>2, <1>12, <2>6 DEF Place, CutOff
    <3>2. Len(shown'[c]) = Len(shown[c]) + 1
      BY <2>1, <2>6
    <3>3. CutOff(c, m, k)'
      BY <1>9, <1>11, <2>2, <2>6, <3>1, <3>2 DEF CutOff
    <3>. QED  BY <2>3, <2>6, <3>3 DEF Place, Connected
  <2>. QED  BY <1>12, <2>4, <2>5, <2>6
<1>13. Connection(c)'
  <2>1. CASE Killed
    BY <1>1, <1>2, <1>9, <1>10, <2>1, LeaveConnection
  <2>2. CASE Sent \/ Lost \/ Failed
    <3>1. ~ short'[c] => \E m, k \in Nat : Tally(c, m, k)' /\ Place(c, m, k)'
      BY <1>2, <1>10, <1>12, <2>2 DEF Connection
    <3>2. pc'[c] # "off"
      BY <2>2
    <3>. QED  BY <3>1, <3>2 DEF Connection
  <2>. QED  BY <1>7, <2>1, <2>2
<1>. QED  BY <1>1, <1>4, <1>5, <1>7, <1>8, <1>10, <1>13, ClientStep

\* A QUIT is sent; the client waits for its answer, arrived or not.
LEMMA DisconnectStep ==
    ASSUME IInv, NEW c \in Clients, Disconnect(c)
    PROVE  IInv'
<1>1. /\ pc[c] = "menu" /\ ClientSend(c, QUIT, "bye", "bye")
      /\ UNCHANGED <<asked, short, serverVars>>
  BY DEF Disconnect
<1>2. TypeOK /\ Connection(c) /\ pc[c] \in Connected /\ UNCHANGED <<queue, handler, req, done>>
  BY <1>1 DEF IInv, Connected, serverVars
<1>3. "bye" \in Connected /\ QUIT \in Numbers /\ asked[c] \in Nat
  BY <1>2 DEF Connected, QUIT, Numbers, TypeOK
<1> DEFINE
      Sent   == /\ atClient[c] = "open" /\ atClient'[c] = "open" /\ pc'[c] = "bye"
                /\ toServer'[c] = toServer[c] \o Message(QUIT)
                /\ atServer'[c] = atServer[c]
                /\ toClient'[c] = toClient[c] /\ shown'[c] = shown[c]
      Lost   == /\ atClient[c] # "open" /\ atClient'[c] # "open" /\ pc'[c] = "bye"
                /\ toClient'[c] = toClient[c] /\ shown'[c] = shown[c]
      Killed == /\ atClient[c] = "dead" /\ Leave(c, toClient[c])
                /\ toServer'[c] = toServer[c] /\ shown'[c] = shown[c]
<1>4. /\ pc' \in [Clients -> {"off", "gone"} \cup Connected]
      /\ toServer' \in [Clients -> Seq(Halves)] /\ toClient' \in [Clients -> Seq(Halves)]
      /\ atServer' \in [Clients -> {"open", "fin", "reset", "dead"}]
      /\ atClient' \in [Clients -> {"open", "fin", "reset", "dead"}]
      /\ shown' \in [Clients -> Seq(Numbers \cup {GARBAGE, NOTHING, FAILED})]
      /\ \A d \in Clients \ {c} :
             /\ pc'[d] = pc[d] /\ shown'[d] = shown[d]
             /\ toServer'[d] = toServer[d] /\ toClient'[d] = toClient[d]
             /\ atServer'[d] = atServer[d] /\ atClient'[d] = atClient[d]
      /\ Sent \/ Lost \/ Killed
  BY <1>1, <1>2, <1>3, ClientSends
<1>5. asked' = asked /\ short' = short
  BY <1>1
<1>6. Elsewhere(c)
  BY <1>4, <1>5 DEF Elsewhere
<1>7. /\ asked' \in [Clients -> Nat] /\ \A d \in Clients : asked'[d] <= MaxRequests[d]
      /\ short' \in [Clients -> BOOLEAN]
  BY <1>2, <1>5 DEF TypeOK
<1>8. Held(c)' <=> Held(c)
  BY <1>2 DEF Held, Queued
<1>9. ASSUME Sent \/ Lost, ~ short[c],
             NEW m \in Nat, NEW k \in Nat, Tally(c, m, k), Place(c, m, k)
      PROVE  Tally(c, m, k)' /\ Place(c, m, k)'
  <2>1. Tally(c, m, k)'
    BY <1>2, <1>5, <1>9 DEF Tally
  <2>2. CASE Sent
    <3>1. /\ Held(c) /\ atServer[c] = "open" /\ Len(shown[c]) = m /\ asked[c] = m /\ k = m
          /\ Quiet(c) /\ toClient[c] = << >>
      BY <1>1, <1>2, <1>9, <2>2 DEF Place, InStep
    <3>2. toServer'[c] = Message(QUIT)
      BY <1>3, <2>2, <3>1, MessageArrives DEF Quiet
    <3>3. Coming(c, QUIT)'
      BY <1>2, <3>1, <3>2 DEF Quiet, Coming
    <3>4. InStep(c, m, k)'
      BY <1>5, <1>8, <2>2, <3>1, <3>3 DEF InStep
    <3>. QED  BY <2>1, <2>2, <3>4 DEF Place, Connected
  <2>3. CASE Lost
    <3>1. CutOff(c, m, k)
      BY <1>2, <1>9, <2>3 DEF Place
    <3>2. CutOff(c, m, k)'
      BY <1>1, <1>5, <1>8, <2>3, <3>1 DEF CutOff
    <3>. QED  BY <2>1, <2>3, <3>2 DEF Place, Connected
  <2>. QED  BY <1>9, <2>2, <2>3
<1>10. Connection(c)'
  <2>1. CASE Killed
    <3>1. asked'[c] \in Nat /\ asked'[c] >= asked[c]
      BY <1>3, <1>5
    <3>. QED  BY <1>1, <1>2, <1>5, <2>1, <3>1, LeaveConnection
  <2>2. CASE Sent \/ Lost
    <3>1. ~ short'[c] => \E m, k \in Nat : Tally(c, m, k)' /\ Place(c, m, k)'
      BY <1>2, <1>5, <1>9, <2>2 DEF Connection
    <3>2. pc'[c] # "off"
      BY <2>2
    <3>. QED  BY <3>1, <3>2 DEF Connection
  <2>. QED  BY <1>4, <2>1, <2>2
<1>. QED  BY <1>1, <1>4, <1>5, <1>6, <1>7, <1>10, ClientStep

\* recv returns 0 or -1: the server's end was closed, and the answer of the
\* last request, if there was one, is not to come any more.
LEMMA NoAnswerStep ==
    ASSUME IInv, NEW c \in Clients, NoAnswer(c)
    PROVE  IInv'
<1>1. /\ toClient[c] = << >> /\ atClient[c] # "open"
      /\ UNCHANGED <<asked, toServer, short, serverVars>>
  BY DEF NoAnswer
<1>2. TypeOK /\ Connection(c) /\ UNCHANGED <<queue, handler, req, done>>
  BY <1>1 DEF IInv, serverVars
<1>3. /\ asked' \in [Clients -> Nat] /\ (\A d \in Clients : asked'[d] <= MaxRequests[d])
      /\ toServer' \in [Clients -> Seq(Halves)]
      /\ short' \in [Clients -> BOOLEAN] /\ short' = short
      /\ asked[c] \in Nat /\ asked' = asked
  BY <1>1, <1>2 DEF TypeOK
<1>4. CASE pc[c] = "bye" /\ Leave(c, << >>) /\ UNCHANGED shown
  <2>1. /\ pc' \in [Clients -> {"off", "gone"} \cup Connected]
        /\ toClient' \in [Clients -> Seq(Halves)]
        /\ atServer' \in [Clients -> {"open", "fin", "reset", "dead"}]
        /\ atClient' \in [Clients -> {"open", "fin", "reset", "dead"}]
        /\ \A d \in Clients \ {c} :
               /\ pc'[d] = pc[d] /\ toClient'[d] = toClient[d]
               /\ atServer'[d] = atServer[d] /\ atClient'[d] = atClient[d]
    BY <1>2, <1>4, LeaveType
  <2>2. Elsewhere(c)
    BY <1>1, <1>4, <2>1 DEF Elsewhere
  <2>3. shown' \in [Clients -> Seq(Numbers \cup {GARBAGE, NOTHING, FAILED})]
    BY <1>2, <1>4 DEF TypeOK
  <2>4. Connection(c)'
    <3>1. pc[c] \in Connected /\ asked'[c] \in Nat /\ asked'[c] >= asked[c]
      BY <1>3, <1>4 DEF Connected
    <3>. QED  BY <1>1, <1>2, <1>4, <3>1, LeaveConnection
  <2>. QED  BY <1>1, <1>3, <2>1, <2>2, <2>3, <2>4, ClientStep
<1>5. ASSUME NEW x \in {NOTHING, FAILED}, NEW s \in {"fin", "reset", "dead"},
             pc[c] = "wait", Show(c, x), atClient' = [atClient EXCEPT ![c] = s],
             pc' = [pc EXCEPT ![c] = "menu"], UNCHANGED <<toClient, atServer>>
      PROVE  IInv'
  <2>1. shown[c] \in Seq(Numbers \cup {GARBAGE, NOTHING, FAILED}) /\ Len(shown[c]) \in Nat
    BY <1>2 DEF TypeOK
  <2>2. Append(shown[c], x) \in Seq(Numbers \cup {GARBAGE, NOTHING, FAILED})
    BY <2>1
  <2>3. /\ shown' \in [Clients -> Seq(Numbers \cup {GARBAGE, NOTHING, FAILED})]
        /\ shown'[c] = Append(shown[c], x) /\ Len(shown'[c]) = Len(shown[c]) + 1
        /\ \A d \in Clients \ {c} : shown'[d] = shown[d]
    BY <1>2, <1>5, <2>1, <2>2 DEF Show, TypeOK
  <2>4. /\ pc' \in [Clients -> {"off", "gone"} \cup Connected]
        /\ atClient' \in [Clients -> {"open", "fin", "reset", "dead"}]
        /\ pc'[c] = "menu" /\ atClient'[c] = s
        /\ \A d \in Clients \ {c} : pc'[d] = pc[d] /\ atClient'[d] = atClient[d]
    BY <1>2, <1>5 DEF TypeOK, Connected
  <2>5. /\ toClient' \in [Clients -> Seq(Halves)]
        /\ atServer' \in [Clients -> {"open", "fin", "reset", "dead"}]
    BY <1>2, <1>5 DEF TypeOK
  <2>6. Elsewhere(c)
    BY <1>1, <1>5, <2>3, <2>4 DEF Elsewhere
  <2>7. ASSUME ~ short[c], NEW m \in Nat, NEW k \in Nat, Tally(c, m, k), Place(c, m, k)
        PROVE  Tally(c, m, k)' /\ Place(c, m, k)'
    <3>1. CutOff(c, m, k)
      BY <1>1, <1>5, <2>7 DEF Place, Connected
    <3>2. Len(shown[c]) + 1 = asked[c] /\ ~ Held(c)
      BY <1>3, <1>5, <3>1 DEF CutOff
    <3>3. Tally(c, m, k)'
      <4>1. asked'[c] \in Nat /\ asked'[c] >= asked[c] /\ Len(shown[c]) + 1 <= asked'[c]
        BY <1>3, <3>2
      <4>. QED  BY <1>2, <2>3, <2>7, <4>1, TallyStays
    <3>4. ~ Held(c)'
      BY <1>2, <3>2 DEF Held, Queued
    <3>5. CutOff(c, m, k)'
      BY <1>1, <1>3, <1>5, <2>3, <2>4, <3>2, <3>4 DEF CutOff
    <3>. QED  BY <2>4, <3>3, <3>5 DEF Place, Connected
  <2>8. Connection(c)'
    <3>1. ~ short'[c] => \E m, k \in Nat : Tally(c, m, k)' /\ Place(c, m, k)'
      BY <1>2, <1>3, <1>5, <2>7 DEF Connection
    <3>2. pc'[c] # "off"
      BY <2>4
    <3>. QED  BY <3>1, <3>2 DEF Connection
  <2>. QED  BY <1>1, <1>3, <2>3, <2>4, <2>5, <2>6, <2>8, ClientStep
<1>6. ASSUME pc[c] = "wait",
             \/ atClient[c] # "reset" /\ Show(c, NOTHING) /\ UNCHANGED atClient
             \/ /\ atClient[c] # "fin" /\ Show(c, FAILED)
                /\ atClient' = [atClient EXCEPT ![c] = "dead"],
             pc' = [pc EXCEPT ![c] = "menu"], UNCHANGED <<toClient, atServer>>
      PROVE  IInv'
  <2>1. atClient[c] \in {"fin", "reset", "dead"} /\ atClient = [atClient EXCEPT ![c] = atClient[c]]
    BY <1>1, <1>2 DEF TypeOK
  <2>. QED  BY <1>5, <1>6, <2>1
<1>. QED  BY <1>4, <1>6 DEF NoAnswer

\* recv finds an answer: on a connection whose messages come whole, the one of
\* the last request.
LEMMA ReceiveAnswerStep ==
    ASSUME IInv, NEW c \in Clients, ReceiveAnswer(c)
    PROVE  IInv'
<1> DEFINE bytes == toClient[c]
           x     == StartOf(bytes)
<1>1. PICK k0 \in Taken(c, bytes) :
          /\ \/ /\ pc[c] = "wait" /\ Show(c, x) /\ pc' = [pc EXCEPT ![c] = "menu"]
                /\ toClient' = [toClient EXCEPT ![c] = Rest(k0, bytes)]
                /\ UNCHANGED <<atServer, atClient>>
             \/ pc[c] = "bye" /\ Leave(c, Rest(k0, bytes)) /\ UNCHANGED shown
          /\ Parted(c, k0, bytes)
          /\ UNCHANGED <<asked, toServer, serverVars>>
  BY DEF ReceiveAnswer
<1>2. TypeOK /\ Connection(c) /\ UNCHANGED <<queue, handler, req, done>>
  BY <1>1 DEF IInv, serverVars
<1>3. bytes \in Seq(Halves)
  BY <1>2 DEF TypeOK
<1>4. Rest(k0, bytes) \in Seq(Halves) /\ x \in Numbers \cup {GARBAGE} /\ bytes # << >>
  BY <1>1, <1>3, RestType
<1>5. /\ short' \in [Clients -> BOOLEAN] /\ (short[c] => short'[c])
      /\ \A d \in Clients \ {c} : short'[d] = short[d]
  BY <1>1, <1>2, PartedElsewhere DEF TypeOK
<1>6. /\ asked' \in [Clients -> Nat] /\ (\A d \in Clients : asked'[d] <= MaxRequests[d])
      /\ toServer' \in [Clients -> Seq(Halves)]
      /\ asked[c] \in Nat /\ asked' = asked /\ toServer' = toServer
  BY <1>1, <1>2 DEF TypeOK
<1> HIDE DEF x
<1>7. CASE pc[c] = "bye" /\ Leave(c, Rest(k0, bytes)) /\ UNCHANGED shown
  <2>1. /\ pc' \in [Clients -> {"off", "gone"} \cup Connected]
        /\ toClient' \in [Clients -> Seq(Halves)]
        /\ atServer' \in [Clients -> {"open", "fin", "reset", "dead"}]
        /\ atClient' \in [Clients -> {"open", "fin", "reset", "dead"}]
        /\ \A d \in Clients \ {c} :
               /\ pc'[d] = pc[d] /\ toClient'[d] = toClient[d]
               /\ atServer'[d] = atServer[d] /\ atClient'[d] = atClient[d]
    BY <1>2, <1>7, LeaveType
  <2>2. Elsewhere(c)
    BY <1>5, <1>6, <1>7, <2>1 DEF Elsewhere
  <2>3. shown' \in [Clients -> Seq(Numbers \cup {GARBAGE, NOTHING, FAILED})]
    BY <1>2, <1>7 DEF TypeOK
  <2>4. Connection(c)'
    <3>1. pc[c] \in Connected /\ asked'[c] \in Nat /\ asked'[c] >= asked[c]
      BY <1>6, <1>7 DEF Connected
    <3>. QED  BY <1>1, <1>2, <1>5, <1>6, <1>7, <3>1, LeaveConnection
  <2>. QED  BY <1>1, <1>5, <1>6, <2>1, <2>2, <2>3, <2>4, ClientStep
<1>8. CASE /\ pc[c] = "wait" /\ Show(c, x) /\ pc' = [pc EXCEPT ![c] = "menu"]
           /\ toClient' = [toClient EXCEPT ![c] = Rest(k0, bytes)]
           /\ UNCHANGED <<atServer, atClient>>
  <2>1. shown[c] \in Seq(Numbers \cup {GARBAGE, NOTHING, FAILED}) /\ Len(shown[c]) \in Nat
    BY <1>2 DEF TypeOK
  <2>2. Append(shown[c], x) \in Seq(Numbers \cup {GARBAGE, NOTHING, FAILED})
    BY <1>4, <2>1
  <2>3. /\ shown' \in [Clients -> Seq(Numbers \cup {GARBAGE, NOTHING, FAILED})]
        /\ shown'[c] = Append(shown[c], x)
        /\ \A d \in Clients \ {c} : shown'[d] = shown[d]
    BY <1>2, <1>8, <2>1, <2>2 DEF Show, TypeOK
  <2>4. /\ Len(shown'[c]) = Len(shown[c]) + 1 /\ shown'[c][Len(shown[c]) + 1] = x
        /\ \A n \in 1 .. Len(shown[c]) : shown'[c][n] = shown[c][n]
    BY <2>1, <2>3
  <2>5. /\ pc' \in [Clients -> {"off", "gone"} \cup Connected]
        /\ toClient' \in [Clients -> Seq(Halves)]
        /\ pc'[c] = "menu" /\ toClient'[c] = Rest(k0, bytes)
        /\ \A d \in Clients \ {c} : pc'[d] = pc[d] /\ toClient'[d] = toClient[d]
    BY <1>2, <1>4, <1>8 DEF TypeOK, Connected
  <2>6. /\ atClient' \in [Clients -> {"open", "fin", "reset", "dead"}]
        /\ atServer' \in [Clients -> {"open", "fin", "reset", "dead"}]
        /\ atClient' = atClient /\ atServer' = atServer
    BY <1>2, <1>8 DEF TypeOK
  <2>7. Elsewhere(c)
    BY <1>5, <1>6, <2>3, <2>5, <2>6 DEF Elsewhere
  <2>8. ASSUME ~ short'[c], NEW m \in Nat, NEW k \in Nat, Tally(c, m, k), Place(c, m, k)
        PROVE  Tally(c, m + 1, m + 1)' /\ Place(c, m + 1, m + 1)'
    <3>1. /\ bytes = Message(m + 1) /\ asked[c] = m + 1 /\ k = m + 1 /\ Len(shown[c]) = m
          /\ \/ atClient[c] = "open" /\ Held(c) /\ Quiet(c) /\ atServer[c] = "open"
             \/ atClient[c] # "open" /\ ~ Held(c)
      <4>1. CASE atClient[c] = "open"
        <5>1. InStep(c, m, k)
          BY <1>8, <2>8, <4>1 DEF Place, Connected
        <5>. QED  BY <1>4, <1>8, <4>1, <5>1 DEF InStep
      <4>2. CASE atClient[c] # "open"
        <5>1. CutOff(c, m, k)
          BY <1>8, <2>8, <4>2 DEF Place, Connected
        <5>. QED  BY <1>4, <1>8, <4>2, <5>1 DEF CutOff
      <4>. QED  BY <4>1, <4>2
    <3>2. m + 1 \in Numbers \cup {GARBAGE} /\ m + 1 \in Nat
      BY DEF Numbers
    <3>3. Rest(k0, bytes) = << >> /\ x = m + 1
      BY <1>1, <1>2, <2>8, <3>1, <3>2, WholeTaken, MessageType DEF TypeOK, x
    <3>4. Tally(c, m + 1, m + 1)'
      <4>1. \A n \in 1 .. Len(shown[c]) : shown[c][n] = n
        BY <2>8, <3>1 DEF Tally
      <4>2. \A n \in 1 .. m + 1 : shown'[c][n] = n
        <5>1. ASSUME NEW n \in 1 .. m + 1
              PROVE  shown'[c][n] = n
          <6>1. CASE n = m + 1
            BY <2>4, <3>1, <3>3, <6>1
          <6>2. CASE n # m + 1
            <7>1. n \in 1 .. Len(shown[c])
              BY <3>1, <6>2
            <7>. QED  BY <2>4, <4>1, <7>1
          <6>. QED  BY <6>1, <6>2
        <5>. QED  BY <5>1
      <4>3. Len(shown'[c]) = m + 1 /\ asked'[c] = m + 1
        BY <1>6, <2>4, <3>1
      <4>4. done'[c] = [n \in 1 .. m + 1 |-> n]
        BY <1>2, <2>8, <3>1 DEF Tally
      <4>. QED  BY <3>2, <4>2, <4>3, <4>4 DEF Tally
    <3>5. Held(c)' <=> Held(c)
      BY <1>2 DEF Held, Queued
    <3>6. Quiet(c)' <=> Quiet(c)
      BY <1>2, <1>6 DEF Quiet
    <3>7. CASE atClient[c] = "open"
      <4>1. InStep(c, m + 1, m + 1)'
        BY <1>6, <2>4, <2>5, <2>6, <3>1, <3>3, <3>5, <3>6, <3>7 DEF InStep
      <4>. QED  BY <2>5, <2>6, <3>4, <3>7, <4>1 DEF Place, Connected
    <3>8. CASE atClient[c] # "open"
      <4>1. CutOff(c, m + 1, m + 1)'
        BY <1>6, <2>4, <2>5, <3>1, <3>3, <3>5, <3>8 DEF CutOff
      <4>. QED  BY <2>5, <2>6, <3>4, <3>8, <4>1 DEF Place, Connected
    <3>. QED  BY <3>7, <3>8
  <2>9. Connection(c)'
    <3>1. ASSUME ~ short'[c]
          PROVE  \E m, k \in Nat : Tally(c, m, k)' /\ Place(c, m, k)'
      <4>1. PICK m \in Nat, k \in Nat : Tally(c, m, k) /\ Place(c, m, k)
        BY <1>2, <1>5, <3>1 DEF Connection
      <4>2. m + 1 \in Nat /\ Tally(c, m + 1, m + 1)' /\ Place(c, m + 1, m + 1)'
        BY <2>8, <3>1, <4>1
      <4>. QED  BY <4>2
    <3>2. pc'[c] # "off"
      BY <2>5
    <3>. QED  BY <3>1, <3>2 DEF Connection
  <2>. QED  BY <1>1, <1>5, <1>6, <2>3, <2>5, <2>6, <2>7, <2>9, ClientStep
<1>. QED  BY <1>1, <1>7, <1>8

-----------------------------------------------------------------------------
(* The invariant.                                                          *)

LEMMA InitIInv ==
    Init => IInv
<1> SUFFICES ASSUME Init PROVE IInv
  OBVIOUS
<1>1. queue = << >> /\ DOMAIN queue = {} /\ Len(queue) = 0 /\ Queued = {}
  BY DEF Init, Queued
<1>2. << >> \in Seq(Clients) /\ << >> \in Seq(Halves) /\ << >> \in Seq(Numbers \cup {GARBAGE})
      /\ << >> \in Seq(Numbers \cup {GARBAGE, NOTHING, FAILED})
  OBVIOUS
<1>3. NoRequest \in [no : Numbers \cup {GARBAGE}, whole : BOOLEAN]
  BY DEF NoRequest
<1>4. QueueLimit \in Nat /\ \A c \in Clients : MaxRequests[c] \in Nat
  BY SessionsAssumption
<1>5. TypeOK
  <2>1. /\ queue \in Seq(Clients) /\ Len(queue) <= QueueLimit /\ Queued \cap Served = {}
        /\ mode \in Modes /\ up \in BOOLEAN /\ broken \in BOOLEAN
    <3>1. Len(queue) <= QueueLimit
      BY <1>1, <1>4
    <3>2. mode \in Modes /\ up = TRUE /\ broken = FALSE
      BY DEF Init
    <3>. QED  BY <1>1, <1>2, <3>1, <3>2
  <2>2. /\ handler \in [Clients -> {"none", "recv", "perform", "send"}]
        /\ req \in [Clients -> [no : Numbers \cup {GARBAGE}, whole : BOOLEAN]]
        /\ pc \in [Clients -> {"off", "gone"} \cup Connected]
    BY <1>3 DEF Init
  <2>3. /\ asked \in [Clients -> Nat] /\ \A c \in Clients : asked[c] <= MaxRequests[c]
    BY <1>4 DEF Init
  <2>4. /\ toServer \in [Clients -> Seq(Halves)] /\ toClient \in [Clients -> Seq(Halves)]
        /\ done \in [Clients -> Seq(Numbers \cup {GARBAGE})]
        /\ shown \in [Clients -> Seq(Numbers \cup {GARBAGE, NOTHING, FAILED})]
    BY <1>2 DEF Init
  <2>5. /\ atServer \in [Clients -> {"open", "fin", "reset", "dead"}]
        /\ atClient \in [Clients -> {"open", "fin", "reset", "dead"}]
        /\ short \in [Clients -> BOOLEAN]
    BY DEF Init
  <2>. QED  BY <2>1, <2>2, <2>3, <2>4, <2>5 DEF TypeOK
<1>6. Once
  BY <1>1 DEF Once
<1>7. ASSUME NEW c \in Clients
      PROVE  Connection(c)
  <2>1. Off(c) /\ pc[c] = "off"
    BY <1>1 DEF Init, Off, Held
  <2>2. Tally(c, 0, 0)
    <3>1. << >> = [n \in 1 .. 0 |-> n]
      OBVIOUS
    <3>. QED  BY <2>1, <3>1 DEF Tally, Off
  <2>3. Place(c, 0, 0)
    BY <2>1 DEF Place, Connected
  <2>. QED  BY <2>1, <2>2, <2>3 DEF Connection
<1>8. NoBrokenPipe
  BY DEF Init, NoBrokenPipe
<1>. QED  BY <1>5, <1>6, <1>7, <1>8 DEF IInv

LEMMA StutterStep ==
    ASSUME IInv, UNCHANGED vars
    PROVE  IInv'
<1>1. UNCHANGED <<pc, asked, shown, toServer, toClient, atServer, atClient, short, mode, up,
                  queue, handler, req, done, broken>>
  BY DEF vars, clientVars, wireVars, serverVars
<1>2. Queued' = Queued /\ Served' = Served
  BY <1>1 DEF Queued, Served
<1>3. TypeOK' /\ Once' /\ NoBrokenPipe'
  BY <1>1, <1>2 DEF IInv, TypeOK, Once, NoBrokenPipe
<1>4. \A d \in Clients : Apart(d)
  BY <1>1, <1>2 DEF Apart
<1>. QED  BY <1>3, <1>4, ApartStays DEF IInv

LEMMA NextStep ==
    IInv /\ [Next]_vars => IInv'
<1> SUFFICES ASSUME IInv, [Next]_vars PROVE IInv'
  OBVIOUS
<1>1. ASSUME NEW c \in Clients, User(c)
      PROVE  IInv'
  BY <1>1, ConnectStep, IdleStep, AskStep, DisconnectStep, ClientKilledStep DEF User
<1>2. ASSUME NEW c \in Clients, ClientReceive(c)
      PROVE  IInv'
  BY <1>2, ReceiveAnswerStep, NoAnswerStep DEF ClientReceive
<1>3. CASE Accept
  BY <1>3, AcceptStep
<1>. QED  BY <1>1, <1>2, <1>3, ServeStep, FaultStep, StutterStep DEF Next

\* The message of a connection is in one place: on its way, with the server,
\* or answered, and the client knows which as long as both ends are open.
THEOREM Invariance ==
    Spec => []IInv
<1>. QED  BY InitIInv, NextStep, PTL DEF Spec

\* Every variable keeps its type, and no connection is both queued and served.
THEOREM TypeCorrect ==
    Spec => []TypeOK
<1>1. IInv => TypeOK
  BY DEF IInv
<1>. QED  BY <1>1, Invariance, PTL

\* What the client showed of a connection whose messages came whole.
LEMMA SettledTally ==
    ASSUME TypeOK, NEW c \in Clients, NEW m \in Nat, NEW k, Tally(c, m, k)
    PROVE  /\ Settled(c) = 1 .. m /\ Cardinality(Settled(c)) = m
           /\ \A n \in DOMAIN shown[c] \ Settled(c) : shown[c][n] \in {NOTHING, FAILED}
<1>1. /\ shown[c] \in Seq(Numbers \cup {GARBAGE, NOTHING, FAILED})
      /\ Len(shown[c]) \in Nat /\ DOMAIN shown[c] = 1 .. Len(shown[c])
  BY DEF TypeOK
<1>2. ASSUME NEW n \in 1 .. Len(shown[c])
      PROVE  /\ n <= m => shown[c][n] = n
             /\ ~ (n <= m) => shown[c][n] \in {NOTHING, FAILED} /\ shown[c][n] # n
  BY DEF Tally, NOTHING, FAILED
<1>3. Settled(c) = 1 .. m
  <2>1. ASSUME NEW n \in Settled(c)
        PROVE  n \in 1 .. m
    BY <1>1, <1>2, <2>1 DEF Settled
  <2>2. ASSUME NEW n \in 1 .. m
        PROVE  n \in Settled(c)
    <3>1. n \in 1 .. Len(shown[c])
      BY <1>1 DEF Tally
    <3>. QED  BY <1>1, <1>2, <2>2, <3>1 DEF Settled
  <2>. QED  BY <2>1, <2>2
<1>4. Cardinality(1 .. m) = m
  <2>1. 1 \in Int /\ m \in Int
    OBVIOUS
  <2>. QED  BY <2>1, FS_Interval
<1>. QED  BY <1>1, <1>2, <1>3, <1>4

\* On a connection whose messages came whole, the answers shown are those of
\* the first requests, one each, and after them only that there is none.
THEOREM AnswersAreMatched ==
    Spec => []AnswersMatch
<1>1. ASSUME IInv
      PROVE  AnswersMatch
  <2>1. ASSUME NEW c \in Clients, ~ short[c]
        PROVE  /\ Settled(c) = 1 .. Cardinality(Settled(c))
               /\ \A n \in DOMAIN shown[c] \ Settled(c) : shown[c][n] \in {NOTHING, FAILED}
    <3>1. PICK m \in Nat, k \in Nat : Tally(c, m, k)
      BY <1>1, <2>1 DEF IInv, Connection
    <3>. QED  BY <1>1, <3>1, SettledTally DEF IInv
  <2>. QED  BY <2>1 DEF AnswersMatch
<1>. QED  BY <1>1, Invariance, PTL

\* There, the server ran the first requests in order and once each: all whose
\* answers were shown, and at most the one after them.
THEOREM OnlyTheLastUnknown ==
    Spec => []OnlyLastUnknown
<1>1. ASSUME IInv
      PROVE  OnlyLastUnknown
  <2>1. ASSUME NEW c \in Clients, ~ short[c]
        PROVE  \E k \in {Cardinality(Settled(c)), Cardinality(Settled(c)) + 1} :
                   k <= asked[c] /\ done[c] = [n \in 1 .. k |-> n]
    <3>1. PICK m \in Nat, k \in Nat : Tally(c, m, k)
      BY <1>1, <2>1 DEF IInv, Connection
    <3>2. Cardinality(Settled(c)) = m
      BY <1>1, <3>1, SettledTally DEF IInv
    <3>. QED  BY <3>1, <3>2 DEF Tally
  <2>. QED  BY <2>1 DEF OnlyLastUnknown
<1>. QED  BY <1>1, Invariance, PTL

\* It takes a message that came in two parts to have SIGPIPE end a process of
\* the server.
THEOREM PipesHold ==
    Spec => []NoBrokenPipe
<1>1. IInv => NoBrokenPipe
  BY DEF IInv
<1>. QED  BY <1>1, Invariance, PTL

=============================================================================
