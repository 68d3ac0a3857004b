------------------------ MODULE ChildTrackingProofs ------------------------
(***************************************************************************)
(* Type correctness, NeverUndercounted and CalmTracks of ChildTracking,    *)
(* for any number of children and any size of the first array.             *)
(***************************************************************************)
EXTENDS ChildTracking, FiniteSetTheorems, SequenceTheorems, TLAPS

-----------------------------------------------------------------------------
(* The inductive invariant.                                                *)

MaybePid == Pids \cup {NoPid}

Stacks == {<< >>, <<"chld">>, <<"term">>, <<"chld", "term">>, <<"term", "chld">>}

\* What is said of the variables when no shutdown is under way: a shutdown
\* never returns to what it has interrupted.
Alive == status = "up" /\ stack \in {<< >>, <<"chld">>}

Typed ==
    /\ TypeOK
    /\ pending \in BOOLEAN /\ smashed \in BOOLEAN /\ calm \in BOOLEAN
    /\ pc \in {"accept", "read", "store", "check", "grow", "adopt", "index", "track"}
    /\ step \in {"wait", "untrack", "decrement"}
    /\ job \in MaybePid /\ dead \in MaybePid /\ reg \in Int
    /\ stack \in {<< >>, <<"term">>} => step = "wait"

\* The child that waitpid has returned and child_count-- has not yet.
Owed == IF step = "wait" THEN 0 ELSE 1

\* The increment that is under way counts, whatever the handler subtracts
\* from child_count meanwhile.
Counted ==
    LET n == Cardinality(Unreaped)
    IN  /\ pc = "read" => child_count - Owed + 1 >= n
        /\ pc = "store" => reg + 1 >= n
        /\ pc \notin {"read", "store"} => child_count - Owed >= n

\* The first n entries of the array are the pids of S, each once.
Lists(arr, n, S) ==
    /\ n \in Nat /\ 0 .. n - 1 \subseteq DOMAIN arr
    /\ \A i \in 0 .. n - 1 : arr[i] \in S
    /\ \A p \in S : \E i \in 0 .. n - 1 : arr[i] = p
    /\ \A i, j \in 0 .. n - 1 : arr[i] = arr[j] => i = j

\* Between two clients, with the handler at each of its steps.
TrackedAtRest ==
    /\ step = "wait" => /\ child_count = Cardinality(Unreaped)
                        /\ Lists(child_pids, child_count, Unreaped)
    /\ step = "untrack" => /\ child_count = Cardinality(Unreaped) + 1
                           /\ dead \in Pids \ Unreaped
                           /\ Lists(child_pids, child_count, Unreaped \cup {dead})
    /\ step = "decrement" => /\ child_count = Cardinality(Unreaped) + 1
                             /\ Lists(child_pids, child_count - 1, Unreaped)

\* While the loop adds a child.
TrackedInLoop ==
    /\ stack = << >> /\ job \in Unreaped
    /\ pc \in {"read", "store"} =>
           /\ child_count = Cardinality(Unreaped) - 1
           /\ Lists(child_pids, child_count, Unreaped \ {job})
    /\ pc \in {"check", "grow", "adopt", "index", "track"} =>
           /\ child_count = Cardinality(Unreaped)
           /\ Lists(child_pids, child_count - 1, Unreaped \ {job})
    /\ pc = "store" => reg = child_count
    /\ pc = "adopt" => child_count <= 2 * child_array_size
    /\ pc \in {"index", "track"} => child_count <= child_array_size
    /\ pc = "track" => reg = child_count - 1

Tracks ==
    calm => /\ ~ smashed
            /\ pc # "adopt" => block = "whole"
            /\ IF pc = "accept" THEN TrackedAtRest ELSE TrackedInLoop

IInv == Typed /\ (Alive => Counted /\ Tracks)

-----------------------------------------------------------------------------
(* The stack of handlers.                                                  *)

\* Which handlers are under way, in each stack there can be.
LEMMA StackFacts ==
    ASSUME stack \in Stacks
    PROVE  /\ Top = "loop" => stack = << >>
           /\ Top = "chld" => stack \in {<<"chld">>, <<"chld", "term">>}
           /\ Top = "term" => stack \in {<<"term">>, <<"term", "chld">>}
           /\ ~ Underway("chld") => stack \in {<< >>, <<"term">>}
           /\ ~ Underway("term") => stack \in {<< >>, <<"chld">>}
<1>1. /\ stack = <<"chld">> => Underway("chld")
      /\ stack = <<"term">> => Underway("term")
  BY DEF Underway
<1>2. /\ stack = <<"chld", "term">> => Underway("chld") /\ Underway("term")
      /\ stack = <<"term", "chld">> => Underway("chld") /\ Underway("term")
  <2>1. ASSUME NEW a, NEW b, stack = <<a, b>>
        PROVE  Underway(a) /\ Underway(b)
    <3>1. stack[1] = a /\ stack[2] = b /\ Len(stack) = 2
      BY <2>1
    <3>. QED  BY <3>1 DEF Underway
  <2>. QED  BY <2>1
<1>3. Top = CASE stack = << >> -> "loop"
              [] stack \in {<<"chld">>, <<"chld", "term">>} -> "chld"
              [] OTHER -> "term"
  BY DEF Top, Stacks
<1>. QED  BY <1>1, <1>2, <1>3 DEF Stacks

\* A sequence of one element put before another.
LEMMA Pair ==
    ASSUME NEW a, NEW b
    PROVE  <<a>> \o <<b>> = <<a, b>>
<1> DEFINE T == {a, b}
<1>0. a \in T /\ b \in T
  OBVIOUS
<1> HIDE DEF T
<1> DEFINE s == <<a>>  t == <<b>>  u == <<a, b>>
<1>1. s \in Seq(T) /\ t \in Seq(T) /\ Len(s) = 1 /\ Len(t) = 1 /\ s[1] = a /\ t[1] = b
  BY <1>0
<1>2. u \in Seq(T) /\ Len(u) = 2 /\ u[1] = a /\ u[2] = b
  BY <1>0
<1> HIDE DEF s, t, u
<1>3. s \o t \in Seq(T) /\ Len(s \o t) = Len(s) + Len(t)
  BY <1>1, ConcatProperties
<1>4. \A i \in 1 .. Len(s) + Len(t) : (s \o t)[i] = IF i <= Len(s) THEN s[i] ELSE t[i - Len(s)]
  BY <1>1, ConcatProperties
<1>5. \A i \in 1 .. Len(s \o t) : (s \o t)[i] = u[i]
  BY <1>1, <1>2, <1>3, <1>4
<1>6. s \o t = u
  BY <1>1, <1>2, <1>3, <1>5, SeqEqual
<1>. QED  BY <1>6 DEF s, t, u

\* A handler that cuts in, and child_handler's return.
LEMMA StackMoves ==
    /\ <<"chld">> \o << >> = <<"chld">> /\ <<"chld">> \o <<"term">> = <<"chld", "term">>
    /\ <<"term">> \o << >> = <<"term">> /\ <<"term">> \o <<"chld">> = <<"term", "chld">>
    /\ Tail(<<"chld">>) = << >> /\ Tail(<<"chld", "term">>) = <<"term">>
    /\ <<"chld">> \notin {<< >>, <<"term">>} /\ <<"chld", "term">> \notin {<< >>, <<"term">>}
    /\ <<"term">> \notin {<< >>, <<"chld">>} /\ <<"term", "chld">> \notin {<< >>, <<"chld">>}
<1>1. <<"chld">> \o << >> = <<"chld">>
  OBVIOUS
<1>2. <<"chld">> \o <<"term">> = <<"chld", "term">>
  BY Pair
<1>3. <<"term">> \o << >> = <<"term">>
  OBVIOUS
<1>4. <<"term">> \o <<"chld">> = <<"term", "chld">>
  BY Pair
<1>5. Tail(<<"chld">>) = << >>
  OBVIOUS
<1>6. Tail(<<"chld", "term">>) = <<"term">>
  OBVIOUS
<1>7. <<"chld">> \notin {<< >>, <<"term">>} /\ <<"term">> \notin {<< >>, <<"chld">>}
  OBVIOUS
<1>8. <<"chld", "term">> \notin {<< >>, <<"term">>}
  OBVIOUS
<1>9. <<"term", "chld">> \notin {<< >>, <<"chld">>}
  OBVIOUS
<1>. QED  BY <1>1, <1>2, <1>3, <1>4, <1>5, <1>6, <1>7, <1>8, <1>9

-----------------------------------------------------------------------------
(* Counting children.                                                      *)

\* There are finitely many children to reap.
LEMMA FewChildren == IsFiniteSet(Unreaped) /\ Cardinality(Unreaped) \in Nat
<1>1. Unreaped \in SUBSET Pids
  BY DEF Unreaped
<1>2. IsFiniteSet(Unreaped)
  BY <1>1, FS_Subset, TrackingAssumption
<1>. QED  BY <1>2, FS_CardinalityType

\* fork adds one child.
LEMMA OneMore ==
    ASSUME child \in [Pids -> {"none", "running", "zombie"}],
           NEW p \in Pids, child[p] = "none", child' = [child EXCEPT ![p] = "running"]
    PROVE  /\ p \notin Unreaped /\ Unreaped' = Unreaped \cup {p}
           /\ Cardinality(Unreaped') = Cardinality(Unreaped) + 1
<1>1. p \notin Unreaped /\ Unreaped' = Unreaped \cup {p}
  BY DEF Unreaped
<1>. QED  BY <1>1, FewChildren, FS_AddElement

\* waitpid takes one away.
LEMMA OneLess ==
    ASSUME child \in [Pids -> {"none", "running", "zombie"}],
           NEW p \in Pids, child[p] = "zombie", child' = [child EXCEPT ![p] = "none"]
    PROVE  /\ p \in Unreaped /\ Unreaped' = Unreaped \ {p}
           /\ Cardinality(Unreaped') = Cardinality(Unreaped) - 1
<1>1. p \in Unreaped /\ Unreaped' = Unreaped \ {p}
  BY DEF Unreaped
<1>. QED  BY <1>1, FewChildren, FS_RemoveElement

-----------------------------------------------------------------------------
(* The array.                                                              *)

\* track_child_process adds a child at the end.
LEMMA ListsMore ==
    ASSUME NEW size \in Nat, NEW V, NEW arr \in [0 .. size - 1 -> V],
           NEW n, NEW S, Lists(arr, n, S), n < size, NEW p \in V, p \notin S
    PROVE  Lists([arr EXCEPT ![n] = p], n + 1, S \cup {p})
<1> DEFINE b == [arr EXCEPT ![n] = p]
<1>1. n \in Nat /\ n \in DOMAIN arr /\ 0 .. n \subseteq DOMAIN arr
  BY DEF Lists
<1>2. DOMAIN b = DOMAIN arr /\ b[n] = p
  BY <1>1
<1>3. \A i \in 0 .. n - 1 : b[i] = arr[i] /\ i # n
  BY <1>1
<1>4. \A i \in 0 .. n : i \in 0 .. n - 1 \/ i = n
  BY <1>1
<1>5. 0 .. n - 1 \subseteq 0 .. n /\ n \in 0 .. n /\ n + 1 \in Nat /\ (n + 1) - 1 = n
  BY <1>1
<1> HIDE DEF b
<1>6. \A i \in 0 .. n : b[i] \in S \cup {p}
  BY <1>2, <1>3, <1>4 DEF Lists
<1>7. \A q \in S \cup {p} : \E i \in 0 .. n : b[i] = q
  BY <1>2, <1>3, <1>5 DEF Lists
<1>8. \A i, j \in 0 .. n : b[i] = b[j] => i = j
  BY <1>2, <1>3, <1>4 DEF Lists
<1>9. Lists(b, n + 1, S \cup {p})
  BY <1>1, <1>2, <1>5, <1>6, <1>7, <1>8 DEF Lists
<1>. QED  BY <1>9 DEF b

\* realloc keeps the entries.
LEMMA ListsGrown ==
    ASSUME NEW arr, NEW n, NEW S, Lists(arr, n, S),
           NEW b, DOMAIN arr \subseteq DOMAIN b, \A i \in DOMAIN arr : b[i] = arr[i]
    PROVE  Lists(b, n, S)
BY DEF Lists

\* untrack_child_process finds the entry of the child that was reaped and
\* moves the entries after it: the others remain, each once.
LEMMA ListsLess ==
    ASSUME NEW size \in Nat, child_pids \in [0 .. size - 1 -> MaybePid],
           NEW S, dead \notin S, Lists(child_pids, child_count, S \cup {dead}),
           NEW d \in 0 .. child_count - 1, First(d), child_pids' = Shifted(d)
    PROVE  Lists(child_pids', child_count - 1, S)
<1> DEFINE n == child_count - 1
<1>1. d \in 0 .. child_count - 1 /\ First(d) /\ child_pids' = Shifted(d)
  OBVIOUS
<1>2. n \in Nat /\ child_count = n + 1 /\ d \in 0 .. n /\ child_pids[d] = dead
  BY <1>1 DEF Lists, First, Tracked
<1> HIDE DEF n
<1> DEFINE Old(i) == IF d <= i THEN i + 1 ELSE i
<1>3. 0 .. n \subseteq DOMAIN child_pids /\ DOMAIN child_pids' = DOMAIN child_pids
  BY <1>1, <1>2 DEF Lists, Shifted
<1>4. \A i \in 0 .. n - 1 : i \in 0 .. n /\ Old(i) \in 0 .. n /\ Old(i) # d
  BY <1>2
<1>5. \A i \in 0 .. n - 1 : child_pids'[i] = child_pids[Old(i)]
  <2> SUFFICES ASSUME NEW i \in 0 .. n - 1
               PROVE  child_pids'[i] = child_pids[Old(i)]
    OBVIOUS
  <2>1. i \in DOMAIN child_pids /\ i + 1 \in DOMAIN child_pids /\ child_count - 1 = n
    BY <1>2, <1>3
  <2>2. child_pids'[i] = IF d <= i /\ i < n THEN At(i + 1) ELSE child_pids[i]
    BY <1>1, <2>1 DEF Shifted
  <2>. QED  BY <1>2, <2>1, <2>2 DEF At
<1>6. \A i, j \in 0 .. n - 1 : Old(i) = Old(j) => i = j
  BY <1>2
<1>7. \A k \in 0 .. n : k # d => \E i \in 0 .. n - 1 : Old(i) = k
  <2> SUFFICES ASSUME NEW k \in 0 .. n, k # d
               PROVE  \E i \in 0 .. n - 1 : Old(i) = k
    OBVIOUS
  <2>1. CASE k < d
    BY <1>2, <2>1
  <2>2. CASE d < k
    <3>1. k - 1 \in 0 .. n - 1 /\ Old(k - 1) = k
      BY <1>2, <2>2
    <3>. QED  BY <3>1
  <2>. QED  BY <1>2, <2>1, <2>2
<1> HIDE DEF Old
<1>8. /\ \A i \in 0 .. n : child_pids[i] \in S \cup {dead}
      /\ \A p \in S \cup {dead} : \E i \in 0 .. n : child_pids[i] = p
      /\ \A i, j \in 0 .. n : child_pids[i] = child_pids[j] => i = j
  <2>1. child_count - 1 = n
    BY <1>2
  <2>. QED  BY <2>1 DEF Lists
<1>9. \A i \in 0 .. n - 1 : child_pids'[i] \in S
  BY <1>2, <1>4, <1>5, <1>8
<1>10. \A p \in S : \E i \in 0 .. n - 1 : child_pids'[i] = p
  <2> SUFFICES ASSUME NEW p \in S
               PROVE  \E i \in 0 .. n - 1 : child_pids'[i] = p
    OBVIOUS
  <2>1. PICK k \in 0 .. n : child_pids[k] = p
    BY <1>8
  <2>2. k # d
    BY <1>2, <2>1
  <2>3. PICK i \in 0 .. n - 1 : Old(i) = k
    BY <1>7, <2>2
  <2>. QED  BY <1>5, <2>1, <2>3
<1>11. \A i, j \in 0 .. n - 1 : child_pids'[i] = child_pids'[j] => i = j
  BY <1>4, <1>5, <1>6, <1>8
<1>12. 0 .. n - 1 \subseteq DOMAIN child_pids'
  <2>1. 0 .. n - 1 \subseteq 0 .. n
    BY <1>2
  <2>. QED  BY <1>3, <2>1
<1>13. Lists(child_pids', n, S)
  BY <1>2, <1>9, <1>10, <1>11, <1>12 DEF Lists
<1>. QED  BY <1>13 DEF n

-----------------------------------------------------------------------------
(* Steps of the accept loop.                                               *)

\* The server starts in the invariant.
LEMMA InitIInv == Init => IInv
<1> SUFFICES ASSUME Init PROVE IInv
  OBVIOUS
<1>1. child_pids \in [0 .. child_array_size - 1 -> MaybePid] /\ child_array_size \in Nat \ {0}
  BY TrackingAssumption DEF Init, FirstArray, MaybePid
<1>2. child \in [Pids -> {"none", "running", "zombie"}] /\ Unreaped = {}
  BY DEF Init, NoChild, Unreaped
<1>3. Typed
  BY <1>1, <1>2 DEF Init, Typed, TypeOK, MaybePid
<1>4. Cardinality(Unreaped) = 0
  BY <1>2, FS_EmptySet
<1>5. Counted /\ Tracks
  BY <1>1, <1>2, <1>4 DEF Init, Counted, Owed, Tracks, TrackedAtRest, Lists
<1>. QED  BY <1>3, <1>5 DEF IInv

\* What a step of the loop finds, and what it leaves alone.
LEMMA LoopFacts ==
    ASSUME IInv, Runs("loop")
    PROVE  /\ stack = << >> /\ step = "wait" /\ Owed = 0 /\ Counted /\ Tracks
           /\ child_count \in Int /\ reg \in Int /\ child_array_size \in Nat \ {0}
           /\ Cardinality(Unreaped) \in Nat
           /\ pc # "adopt" => child_pids \in [0 .. child_array_size - 1 -> MaybePid]
<1>1. stack = << >>
  BY StackFacts DEF IInv, Typed, TypeOK, Stacks, Runs
<1>2. step = "wait" /\ Counted /\ Tracks
  BY <1>1 DEF IInv, Typed, Alive, Runs
<1>. QED  BY <1>1, <1>2, FewChildren DEF IInv, Typed, TypeOK, MaybePid, Owed

\* A step of the loop that leaves the array alone keeps the types.
LEMMA LoopTyped ==
    ASSUME IInv, NEW from, NEW to, InLoop(from, to), from # "adopt", to # "adopt",
           to \in {"accept", "read", "store", "check", "grow", "index", "track"},
           child' \in [Pids -> {"none", "running", "zombie"}],
           child_count' \in Int, reg' \in Int, job' \in MaybePid,
           smashed' \in BOOLEAN, calm' \in BOOLEAN,
           child_array_size' = child_array_size,
           child_pids' \in [0 .. child_array_size - 1 -> MaybePid]
    PROVE  Typed'
BY DEF IInv, Typed, TypeOK, InLoop, MaybePid

LEMMA ForkStep ==
    ASSUME IInv, NEW p \in Pids, Fork(p)
    PROVE  IInv'
<1>1. Runs("loop") /\ pc = "accept" /\ pc' = "read"
  BY DEF Fork, InLoop
<1>2. child' = [child EXCEPT ![p] = "running"] /\ child \in [Pids -> {"none", "running", "zombie"}]
  BY DEF Fork, IInv, Typed, TypeOK
<1>3. child' \in [Pids -> {"none", "running", "zombie"}]
  BY <1>2
<1>4. p \notin Unreaped /\ Unreaped' = Unreaped \cup {p}
      /\ Cardinality(Unreaped') = Cardinality(Unreaped) + 1
  BY <1>2, OneMore DEF Fork
<1>5. Typed'
  BY <1>1, <1>3, LoopFacts, LoopTyped DEF Fork, IInv, Typed, array, MaybePid
<1>6. Counted'
  BY <1>1, <1>4, LoopFacts DEF Counted, Owed, Fork, InLoop, array
<1>7. Unreaped' \ {p} = Unreaped
  BY <1>4
<1>8. calm => /\ child_count' = Cardinality(Unreaped') - 1
              /\ Lists(child_pids', child_count', Unreaped' \ {job'})
  <2>1. child_pids' = child_pids /\ child_count' = child_count /\ Unreaped' \ {job'} = Unreaped
    BY <1>7 DEF Fork, array
  <2>2. calm => /\ child_count = Cardinality(Unreaped)
                /\ Lists(child_pids, child_count, Unreaped)
    BY <1>1, LoopFacts DEF Tracks, TrackedAtRest
  <2>. QED  BY <1>1, <1>4, <2>1, <2>2, LoopFacts
<1>9. Tracks'
  BY <1>1, <1>4, <1>8, LoopFacts DEF Tracks, TrackedInLoop, Fork, InLoop, array
<1>. QED  BY <1>5, <1>6, <1>9 DEF IInv

LEMMA ReadStep ==
    ASSUME IInv, Read
    PROVE  IInv'
<1>1. Runs("loop") /\ pc = "read" /\ pc' = "store" /\ Unreaped' = Unreaped /\ reg' = child_count
  BY DEF Read, Turn, InLoop, Unreaped
<1>2. Typed'
  BY <1>1, LoopFacts, LoopTyped DEF Read, Turn, IInv, Typed, TypeOK, array
<1>3. Counted'
  BY <1>1, LoopFacts DEF Counted, Owed, Read, Turn, InLoop, array
<1>4. Tracks'
  BY <1>1, LoopFacts DEF Tracks, TrackedInLoop, Read, Turn, InLoop, array
<1>. QED  BY <1>2, <1>3, <1>4 DEF IInv

LEMMA StoreStep ==
    ASSUME IInv, Store
    PROVE  IInv'
<1>1. /\ Runs("loop") /\ pc = "store" /\ pc' = "check" /\ Unreaped' = Unreaped
      /\ child_count' = reg + 1
  BY DEF Store, Turn, InLoop, Unreaped
<1>2. Typed'
  BY <1>1, LoopFacts, LoopTyped DEF Store, Turn, IInv, Typed, TypeOK
<1>3. Counted'
  BY <1>1, LoopFacts DEF Counted, Owed, Store, Turn, InLoop
<1>4. calm => reg = child_count /\ child_count' - 1 = child_count
  BY <1>1, LoopFacts DEF Tracks, TrackedInLoop
<1>5. Tracks'
  BY <1>1, <1>4, LoopFacts DEF Tracks, TrackedInLoop, Store, Turn, InLoop
<1>. QED  BY <1>2, <1>3, <1>5 DEF IInv

LEMMA CheckStep ==
    ASSUME IInv, Check
    PROVE  IInv'
<1>1. /\ Runs("loop") /\ pc = "check" /\ Unreaped' = Unreaped
      /\ pc' = IF child_count >= child_array_size THEN "grow" ELSE "index"
  BY DEF Check, Turn, InLoop, Unreaped
<1>2. Typed'
  BY <1>1, LoopFacts, LoopTyped DEF Check, Turn, IInv, Typed, TypeOK, array
<1>3. Counted'
  BY <1>1, LoopFacts DEF Counted, Owed, Check, Turn, InLoop, array
<1>4. pc' = "index" => child_count <= child_array_size
  BY <1>1, LoopFacts
<1>5. Tracks'
  BY <1>1, <1>4, LoopFacts DEF Tracks, TrackedInLoop, Check, Turn, InLoop, array
<1>. QED  BY <1>2, <1>3, <1>5 DEF IInv

LEMMA GrowStep ==
    ASSUME IInv, Grow
    PROVE  IInv'
<1>1. /\ Runs("loop") /\ pc = "grow" /\ pc' = "adopt" /\ Unreaped' = Unreaped
      /\ child_array_size' = child_array_size /\ child_count' = child_count /\ job' = job
  BY DEF Grow, Turn, InLoop, Unreaped
<1>2. child_array_size \in Nat /\ child_pids \in [0 .. child_array_size - 1 -> MaybePid]
  BY <1>1, LoopFacts
<1>3. 0 .. child_array_size - 1 \subseteq 0 .. 2 * child_array_size - 1
  BY <1>2
<1>4. /\ child_pids' \in [0 .. 2 * child_array_size - 1 -> MaybePid]
      /\ \A i \in DOMAIN child_pids : child_pids'[i] = child_pids[i]
  BY <1>2, <1>3 DEF Grow, MaybePid
<1>5. Typed'
  BY <1>1, <1>4, LoopFacts DEF Grow, Turn, InLoop, IInv, Typed, TypeOK, MaybePid
<1>6. Counted'
  BY <1>1, LoopFacts DEF Counted, Owed, Grow, Turn, InLoop
<1>7. ASSUME calm
      PROVE  /\ Lists(child_pids', child_count - 1, Unreaped \ {job})
             /\ child_count <= 2 * child_array_size
  <2>1. Lists(child_pids, child_count - 1, Unreaped \ {job})
    BY <1>1, <1>7, LoopFacts DEF Tracks, TrackedInLoop
  <2>2. child_count - 1 \in Nat /\ 0 .. (child_count - 1) - 1 \subseteq 0 .. child_array_size - 1
    BY <1>2, <2>1 DEF Lists
  <2> child_count \in Int
    BY <1>1, LoopFacts
  <2>3. child_count - 1 <= child_array_size
    <3>1. CASE child_count - 1 = 0
      BY <1>2, <3>1
    <3>2. CASE child_count - 1 # 0
      <4>1. (child_count - 1) - 1 \in 0 .. (child_count - 1) - 1
        BY <2>2, <3>2
      <4>. QED  BY <1>2, <2>2, <4>1
    <3>. QED  BY <3>1, <3>2
  <2>4. child_count <= 2 * child_array_size
    BY <1>1, <2>2, <2>3, LoopFacts
  <2>. QED  BY <1>2, <1>3, <1>4, <2>1, <2>4, ListsGrown
<1>8. Tracks'
  BY <1>1, <1>7, LoopFacts DEF Tracks, TrackedInLoop, Grow, Turn, InLoop
<1>. QED  BY <1>5, <1>6, <1>8 DEF IInv

LEMMA GrowFailsStep ==
    ASSUME IInv, GrowFails
    PROVE  IInv'
<1>1. Runs("loop") /\ pc = "grow" /\ pc' = "accept" /\ Unreaped' = Unreaped
  BY DEF GrowFails, Turn, InLoop, Unreaped
<1>2. Typed'
  BY <1>1, LoopFacts, LoopTyped DEF GrowFails, Turn, IInv, Typed, TypeOK, array, MaybePid
<1>3. Counted'
  BY <1>1, LoopFacts DEF Counted, Owed, GrowFails, Turn, InLoop, array
<1>4. Tracks'
  BY DEF Tracks, GrowFails
<1>. QED  BY <1>2, <1>3, <1>4 DEF IInv

LEMMA AdoptStep ==
    ASSUME IInv, Adopt
    PROVE  IInv'
<1>1. /\ Runs("loop") /\ pc = "adopt" /\ pc' = "index" /\ Unreaped' = Unreaped
      /\ child_array_size' = 2 * child_array_size /\ job' = job
  BY DEF Adopt, Turn, InLoop, Unreaped
<1>2. /\ child_array_size' \in Nat \ {0}
      /\ child_pids \in [0 .. 2 * child_array_size - 1 -> MaybePid]
  BY <1>1, LoopFacts DEF IInv, Typed, TypeOK, MaybePid
<1>3. Typed'
  BY <1>1, <1>2, LoopFacts DEF Adopt, Turn, InLoop, IInv, Typed, TypeOK, MaybePid
<1>4. Counted'
  BY <1>1, LoopFacts DEF Counted, Owed, Adopt, Turn, InLoop
<1>5. Tracks'
  BY <1>1, LoopFacts DEF Tracks, TrackedInLoop, Adopt, Turn, InLoop
<1>. QED  BY <1>3, <1>4, <1>5 DEF IInv

LEMMA IndexStep ==
    ASSUME IInv, Index
    PROVE  IInv'
<1>1. Runs("loop") /\ pc = "index" /\ pc' = "track" /\ Unreaped' = Unreaped /\ reg' = child_count - 1
  BY DEF Index, Turn, InLoop, Unreaped
<1>2. Typed'
  BY <1>1, LoopFacts, LoopTyped DEF Index, Turn, IInv, Typed, TypeOK, array
<1>3. Counted'
  BY <1>1, LoopFacts DEF Counted, Owed, Index, Turn, InLoop, array
<1>4. Tracks'
  BY <1>1, LoopFacts DEF Tracks, TrackedInLoop, Index, Turn, InLoop, array
<1>. QED  BY <1>2, <1>3, <1>4 DEF IInv

LEMMA TrackStep ==
    ASSUME IInv, Track
    PROVE  IInv'
<1>1. /\ Runs("loop") /\ pc = "track" /\ pc' = "accept" /\ Unreaped' = Unreaped
      /\ child_count' = child_count /\ child_array_size' = child_array_size
  BY DEF Track, Turn, InLoop, Unreaped
<1>2. child_pids \in [0 .. child_array_size - 1 -> MaybePid] /\ job \in MaybePid
  BY <1>1, LoopFacts DEF IInv, Typed
<1>3. child_pids' \in [0 .. child_array_size - 1 -> MaybePid] /\ smashed' \in BOOLEAN
  BY <1>2 DEF Track, IInv, Typed
<1>4. Typed'
  BY <1>1, <1>3, LoopFacts, LoopTyped DEF Track, Turn, IInv, Typed, TypeOK, MaybePid
<1>5. Counted'
  BY <1>1, LoopFacts DEF Counted, Owed, Track, Turn, InLoop
<1>6. ASSUME calm
      PROVE  /\ smashed' = smashed /\ child_count = Cardinality(Unreaped)
             /\ Lists(child_pids', child_count, Unreaped)
  <2> DEFINE n == child_count - 1
  <2>1. /\ Lists(child_pids, n, Unreaped \ {job}) /\ job \in Unreaped /\ reg = n
        /\ child_count <= child_array_size /\ child_count = Cardinality(Unreaped)
    BY <1>1, <1>6, LoopFacts DEF Tracks, TrackedInLoop
  <2>2. n \in Nat /\ n < child_array_size /\ n + 1 = child_count
    BY <1>1, <2>1, LoopFacts DEF Lists
  <2>3. n \in DOMAIN child_pids
    BY <1>1, <1>2, <2>2, LoopFacts
  <2>4. child_pids' = [child_pids EXCEPT ![n] = job] /\ smashed' = smashed
    BY <2>1, <2>3 DEF Track
  <2>5. child_array_size \in Nat
    BY <1>1, LoopFacts
  <2> HIDE DEF n
  <2>6. Lists(child_pids', n + 1, (Unreaped \ {job}) \cup {job})
    BY <1>2, <2>1, <2>2, <2>4, <2>5, ListsMore
  <2>7. (Unreaped \ {job}) \cup {job} = Unreaped
    BY <2>1
  <2>8. Lists(child_pids', child_count, Unreaped)
    BY <2>2, <2>6, <2>7
  <2>. QED  BY <2>1, <2>4, <2>8
<1>7. Tracks'
  BY <1>1, <1>6, LoopFacts DEF Tracks, TrackedAtRest, Track, Turn, InLoop
<1>. QED  BY <1>4, <1>5, <1>7 DEF IInv

-----------------------------------------------------------------------------
(* Steps of the children and of child_handler.                             *)

\* A child that ends is still to be reaped.
LEMMA ChildEndsStep ==
    ASSUME IInv, NEW p \in Pids, ChildEnds(p)
    PROVE  IInv'
<1>1. child \in [Pids -> {"none", "running", "zombie"}]
  BY DEF IInv, Typed, TypeOK
<1>2. child' \in [Pids -> {"none", "running", "zombie"}] /\ Unreaped' = Unreaped
  BY <1>1 DEF ChildEnds, Unreaped
<1>3. UNCHANGED <<child_count, child_array_size, child_pids, block, smashed, pc, job, reg,
                  stack, step, dead, exit, status, calm>> /\ pending' \in BOOLEAN
  BY DEF ChildEnds, array, loop
<1>4. Typed'
  BY <1>2, <1>3 DEF IInv, Typed, TypeOK
<1>5. Alive' = Alive /\ Counted' = Counted /\ Tracks' = Tracks
  BY <1>2, <1>3 DEF Alive, Counted, Owed, Tracks, TrackedAtRest, TrackedInLoop
<1>. QED  BY <1>4, <1>5 DEF IInv

\* child_handler starts.
LEMMA DeliverStep ==
    ASSUME IInv, Deliver
    PROVE  IInv'
<1>1. UNCHANGED <<child, child_count, child_array_size, child_pids, block, smashed, pc, job, reg,
                  dead, exit, status>> /\ Unreaped' = Unreaped
  BY DEF Deliver, array, loop, Unreaped
<1>2. /\ stack \in {<< >>, <<"term">>} /\ step = "wait" /\ step' = "wait"
      /\ stack' = <<"chld">> \o stack /\ status = "up"
  BY StackFacts DEF Deliver, MayDeliver, IInv, Typed, TypeOK, Stacks
<1>3. stack' = IF stack = << >> THEN <<"chld">> ELSE <<"chld", "term">>
  BY <1>2, StackMoves
<1>4. calm' \in BOOLEAN /\ pending' \in BOOLEAN /\ (calm' => calm /\ pc = "accept")
  BY DEF Deliver, IInv, Typed
<1>5. Typed'
  BY <1>1, <1>2, <1>3, <1>4 DEF IInv, Typed, TypeOK
<1>6. Alive' => Alive
  BY <1>1, <1>2, <1>3 DEF Alive
<1>7. Counted' = Counted
  BY <1>1, <1>2 DEF Counted, Owed
<1>8. Tracks => Tracks'
  BY <1>1, <1>2, <1>4 DEF Tracks, TrackedAtRest
<1>. QED  BY <1>5, <1>6, <1>7, <1>8 DEF IInv

\* What a step of child_handler finds.
LEMMA HandlerFacts ==
    ASSUME IInv, Runs("chld")
    PROVE  /\ stack \in {<<"chld">>, <<"chld", "term">>}
           /\ Alive => Counted /\ Tracks /\ (calm => pc = "accept")
           /\ child_count \in Int /\ reg \in Int /\ child_array_size \in Nat \ {0}
           /\ Cardinality(Unreaped) \in Nat
           /\ pc # "adopt" => child_pids \in [0 .. child_array_size - 1 -> MaybePid]
<1>1. stack \in {<<"chld">>, <<"chld", "term">>}
  BY StackFacts DEF IInv, Typed, TypeOK, Stacks, Runs
<1>2. stack # << >>
  BY <1>1
<1>. QED  BY <1>1, <1>2, FewChildren DEF IInv, Typed, TypeOK, MaybePid, Tracks, TrackedInLoop

LEMMA WaitStep ==
    ASSUME IInv, NEW p \in Pids, Wait(p)
    PROVE  IInv'
<1>1. Runs("chld") /\ step = "wait" /\ step' = "untrack" /\ dead' = p
  BY DEF Wait, InHandler
<1>2. UNCHANGED <<child_count, child_array_size, child_pids, block, smashed, pc, job, reg,
                  stack, pending, status, calm>>
  BY DEF Wait, InHandler, loop
<1>3. child' = [child EXCEPT ![p] = "none"] /\ child \in [Pids -> {"none", "running", "zombie"}]
  BY DEF Wait, IInv, Typed, TypeOK
<1>4. child' \in [Pids -> {"none", "running", "zombie"}]
  BY <1>3
<1>5. p \in Unreaped /\ Unreaped' = Unreaped \ {p}
      /\ Cardinality(Unreaped') = Cardinality(Unreaped) - 1
  BY <1>3, OneLess DEF Wait
<1>6. Typed'
  <2>1. stack' \notin {<< >>, <<"term">>}
    BY <1>1, <1>2, HandlerFacts, StackMoves
  <2>2. child' \in [Pids -> {"none", "running", "zombie"}] /\ dead' \in MaybePid
    BY <1>1, <1>4 DEF MaybePid
  <2>. QED  BY <1>1, <1>2, <2>1, <2>2 DEF IInv, Typed, TypeOK
<1>7. Alive' = Alive
  BY <1>2 DEF Alive
<1>8. Counted => Counted'
  BY <1>1, <1>2, <1>5, HandlerFacts DEF Counted, Owed
<1>9. p \in Pids \ Unreaped' /\ Unreaped' \cup {p} = Unreaped
  BY <1>5
<1>10. Tracks /\ (calm => pc = "accept") => Tracks'
  <2> SUFFICES ASSUME Tracks, calm, pc = "accept"
               PROVE  ~ smashed' /\ (pc' # "adopt" => block' = "whole") /\ TrackedAtRest'
    BY <1>2 DEF Tracks
  <2>1. child_count = Cardinality(Unreaped) /\ Lists(child_pids, child_count, Unreaped)
    BY <1>1 DEF Tracks, TrackedAtRest
  <2>2. child_count' = Cardinality(Unreaped') + 1
    BY <1>1, <1>2, <1>5, <2>1, HandlerFacts
  <2>3. Lists(child_pids', child_count', Unreaped' \cup {dead'})
    BY <1>1, <1>2, <1>9, <2>1
  <2>4. TrackedAtRest'
    BY <1>1, <1>9, <2>2, <2>3 DEF TrackedAtRest
  <2>. QED  BY <1>2, <2>4 DEF Tracks
<1>. QED  BY <1>1, <1>6, <1>7, <1>8, <1>10, HandlerFacts DEF IInv

LEMMA ReturnStep ==
    ASSUME IInv, Return
    PROVE  IInv'
<1>1. Runs("chld") /\ step = "wait" /\ step' = "wait" /\ dead' = NoPid /\ stack' = Tail(stack)
  BY DEF Return, InHandler
<1>2. UNCHANGED <<child, child_count, child_array_size, child_pids, block, smashed, pc, job, reg,
                  pending, status, calm>> /\ Unreaped' = Unreaped
  BY DEF Return, InHandler, loop, Unreaped
<1>3. stack' = IF stack = <<"chld">> THEN << >> ELSE <<"term">>
  BY <1>1, HandlerFacts, StackMoves
<1>4. Typed'
  <2>1. stack' \in Stacks /\ dead' \in MaybePid
    BY <1>1, <1>3 DEF Stacks, MaybePid
  <2>. QED  BY <1>1, <1>2, <2>1 DEF IInv, Typed, TypeOK, Stacks
<1>5. Alive' => Alive
  <2>1. stack' \in {<< >>, <<"chld">>} => stack = <<"chld">>
    BY <1>3, StackMoves
  <2>. QED  BY <1>2, <2>1 DEF Alive
<1>6. Counted' = Counted
  BY <1>1, <1>2 DEF Counted, Owed
<1>7. Tracks /\ (calm => pc = "accept") => Tracks'
  BY <1>1, <1>2 DEF Tracks, TrackedAtRest
<1>. QED  BY <1>1, <1>4, <1>5, <1>6, <1>7, HandlerFacts DEF IInv

\* Where the array lists the children, the one that was reaped is found and
\* the memory after the array is not read or written.
LEMMA UntrackCalm ==
    ASSUME IInv, Untrack, Alive, calm
    PROVE  ~ smashed' /\ Lists(child_pids', child_count - 1, Unreaped)
<1>1. Runs("chld") /\ step = "untrack"
  BY DEF Untrack, InHandler
<1>2. /\ pc = "accept" /\ ~ smashed /\ block = "whole" /\ dead \in Pids \ Unreaped
      /\ Lists(child_pids, child_count, Unreaped \cup {dead})
      /\ child_count = Cardinality(Unreaped) + 1
  BY <1>1, HandlerFacts DEF Tracks, TrackedAtRest
<1>3. /\ child_pids \in [0 .. child_array_size - 1 -> MaybePid] /\ child_array_size \in Nat
      /\ child_count - 1 \in Nat
  BY <1>1, <1>2, HandlerFacts
<1>4. PICK i \in 0 .. child_count - 1 : child_pids[i] = dead
  BY <1>2 DEF Lists
<1>5. First(i)
  <2>1. i \in DOMAIN child_pids
    BY <1>2 DEF Lists
  <2>2. ASSUME NEW k \in 0 .. i - 1
        PROVE  child_pids[k] # dead
    <3>1. k \in 0 .. child_count - 1 /\ k # i
      BY <1>3
    <3>. QED  BY <1>2, <1>4, <3>1 DEF Lists
  <2>. QED  BY <1>4, <2>1, <2>2 DEF First, Tracked
<1>6. PICK d \in 0 .. child_count - 1 :
          /\ First(d) /\ child_pids' = Shifted(d)
          /\ smashed' = (smashed \/ child_count - 1 > Cardinality(DOMAIN child_pids))
  BY <1>2, <1>5 DEF Untrack, Present
<1>7. Lists(child_pids', child_count - 1, Unreaped)
  BY <1>2, <1>3, <1>6, ListsLess
<1>8. ~ (child_count - 1 > Cardinality(DOMAIN child_pids))
  <2>1. Cardinality(DOMAIN child_pids) = child_array_size
    <3>1. Cardinality(0 .. child_array_size - 1) = child_array_size
      BY <1>3, FS_Interval
    <3>. QED  BY <1>3, <3>1
  <2>2. child_count - 1 \in 0 .. child_array_size - 1
    <3>1. child_count - 1 \in 0 .. child_count - 1
      BY <1>3
    <3>. QED  BY <1>2, <1>3, <3>1 DEF Lists
  <2>. QED  BY <1>3, <2>1, <2>2
<1>. QED  BY <1>2, <1>6, <1>7, <1>8

LEMMA UntrackStep ==
    ASSUME IInv, Untrack
    PROVE  IInv'
<1>1. Runs("chld") /\ step = "untrack" /\ step' = "decrement"
  BY DEF Untrack, InHandler
<1>2. UNCHANGED <<child, child_count, child_array_size, block, pc, job, reg,
                  stack, dead, pending, status, calm>> /\ Unreaped' = Unreaped
  BY DEF Untrack, InHandler, loop, Unreaped
<1>3. /\ smashed' \in BOOLEAN
      /\ \A n \in Nat : child_pids \in [0 .. n - 1 -> MaybePid]
                            => child_pids' \in [0 .. n - 1 -> MaybePid]
  <2>1. smashed' \in BOOLEAN
    BY DEF Untrack, IInv, Typed
  <2>2. ASSUME NEW i, NEW n \in Nat, child_pids \in [0 .. n - 1 -> MaybePid]
        PROVE  Shifted(i) \in [0 .. n - 1 -> MaybePid]
    <3>1. \A k : At(k) \in MaybePid
      BY <2>2 DEF At, MaybePid
    <3>. QED  BY <2>2, <3>1 DEF Shifted
  <2>3. child_pids' = child_pids \/ \E i : child_pids' = Shifted(i)
    BY DEF Untrack
  <2>. QED  BY <2>1, <2>2, <2>3
<1>4. Typed'
  <2>1. 2 * child_array_size \in Nat /\ child_array_size \in Nat
    BY <1>1, HandlerFacts
  <2>. QED  BY <1>1, <1>2, <1>3, <2>1, HandlerFacts DEF IInv, Typed, TypeOK, MaybePid
<1>5. Alive' = Alive
  BY <1>2 DEF Alive
<1>6. Counted' = Counted
  BY <1>1, <1>2 DEF Counted, Owed
<1>7. Alive => Tracks'
  <2> SUFFICES ASSUME Alive, calm
               PROVE  Tracks'
    BY <1>2 DEF Tracks
  <2>1. pc = "accept" /\ block = "whole" /\ child_count = Cardinality(Unreaped) + 1
    BY <1>1, HandlerFacts DEF Tracks, TrackedAtRest
  <2>2. ~ smashed' /\ Lists(child_pids', child_count - 1, Unreaped)
    BY UntrackCalm
  <2>. QED  BY <1>1, <1>2, <2>1, <2>2 DEF Tracks, TrackedAtRest
<1>. QED  BY <1>1, <1>4, <1>5, <1>6, <1>7, HandlerFacts DEF IInv

LEMMA DecrementStep ==
    ASSUME IInv, Decrement
    PROVE  IInv'
<1>1. /\ Runs("chld") /\ step = "decrement" /\ step' = "wait"
      /\ child_count' = child_count - 1
  BY DEF Decrement, InHandler
<1>2. UNCHANGED <<child, child_array_size, child_pids, smashed, block, pc, job, reg,
                  stack, dead, pending, status, calm>> /\ Unreaped' = Unreaped
  BY DEF Decrement, InHandler, loop, Unreaped
<1>3. child_count \in Int
  BY <1>1, HandlerFacts
<1>4. Typed'
  BY <1>1, <1>2, <1>3, HandlerFacts DEF IInv, Typed, TypeOK
<1>5. Alive' = Alive
  BY <1>2 DEF Alive
<1>6. Counted => Counted'
  BY <1>1, <1>2, HandlerFacts DEF Counted, Owed
<1>7. Tracks /\ (calm => pc = "accept") => Tracks'
  <2>1. child_count = Cardinality(Unreaped) + 1 => child_count - 1 = Cardinality(Unreaped)
    BY <1>1, HandlerFacts
  <2>. QED  BY <1>1, <1>2, <2>1 DEF Tracks, TrackedAtRest
<1>. QED  BY <1>1, <1>4, <1>5, <1>6, <1>7, HandlerFacts DEF IInv

-----------------------------------------------------------------------------
(* Shutdown, and the ends of the process.                                  *)

LEMMA EndsStep ==
    ASSUME NEW how \in {"saved", "crashed", "hung"}, Ends(how)
    PROVE  IInv'
<1>1. child_pids' \in [0 .. child_array_size' - 1 -> MaybePid] /\ child_array_size' \in Nat \ {0}
  BY TrackingAssumption DEF Ends, FirstArray, MaybePid
<1>2. child' \in [Pids -> {"none", "running", "zombie"}] /\ child_count' \in Int /\ reg' \in Int
  BY DEF Ends, NoChild
<1>3. Typed'
  BY <1>1, <1>2 DEF Ends, Typed, TypeOK, MaybePid
<1>4. ~ Alive'
  BY DEF Ends, Alive
<1>. QED  BY <1>3, <1>4 DEF IInv

LEMMA TerminateStep ==
    ASSUME IInv, Terminate
    PROVE  IInv'
<1>1. /\ stack \in {<< >>, <<"chld">>} /\ stack' = <<"term">> \o stack
      /\ stack = << >> => step = "wait"
  BY StackFacts DEF Terminate, MayTerminate, IInv, Typed, TypeOK, Stacks
<1>2. stack' = IF stack = << >> THEN <<"term">> ELSE <<"term", "chld">>
  BY <1>1, StackMoves
<1>3. stack' \notin {<< >>, <<"chld">>} /\ (stack' = <<"term">> => step = "wait")
  <2>1. <<"term", "chld">> # <<"term">>
    OBVIOUS
  <2>. QED  BY <1>1, <1>2, <2>1, StackMoves
<1>4. UNCHANGED <<child, child_count, child_array_size, child_pids, block, smashed, pc, job, reg,
                  pending, step, dead, status, calm>>
  BY DEF Terminate, array, loop
<1>5. Typed'
  BY <1>2, <1>3, <1>4 DEF IInv, Typed, TypeOK
<1>. QED  BY <1>3, <1>5 DEF IInv, Alive

LEMMA FreeArrayStep ==
    ASSUME IInv, FreeArray
    PROVE  IInv'
<1>1. stack \in {<<"term">>, <<"term", "chld">>}
  BY StackFacts DEF FreeArray, Runs, IInv, Typed, TypeOK, Stacks
<1>2. UNCHANGED <<child, child_count, child_array_size, child_pids, smashed, pc, job, reg,
                  pending, stack, step, dead, status, calm>>
  BY DEF FreeArray, loop
<1>3. Typed'
  BY <1>2 DEF IInv, Typed, TypeOK
<1>4. ~ Alive'
  BY <1>1, <1>2 DEF Alive
<1>. QED  BY <1>3, <1>4 DEF IInv

\* Every step keeps the invariant.
LEMMA NextStep ==
    ASSUME IInv, [Next]_vars
    PROVE  IInv'
<1>1. CASE UNCHANGED vars
  <2>1. UNCHANGED <<child, child_count, child_array_size, child_pids, block, smashed, pc, job, reg,
                    pending, stack, step, dead, status, calm>> /\ Unreaped' = Unreaped
    BY <1>1 DEF vars, array, loop, Unreaped
  <2>2. Typed' = Typed
    BY <2>1 DEF Typed, TypeOK
  <2>3. Alive' = Alive /\ Counted' = Counted /\ Tracks' = Tracks
    BY <2>1 DEF Alive, Counted, Owed, Tracks, TrackedAtRest, TrackedInLoop
  <2>. QED  BY <2>2, <2>3 DEF IInv
<1>2. CASE Loop
  BY <1>2, ForkStep, ReadStep, StoreStep, CheckStep, GrowStep, GrowFailsStep, AdoptStep,
     IndexStep, TrackStep, EndsStep DEF Loop, GrowAborts
<1>3. CASE Handler
  BY <1>3, WaitStep, ReturnStep, UntrackStep, DecrementStep, EndsStep DEF Handler, UntrackCrashes
<1>4. CASE Shutdown
  BY <1>4, FreeArrayStep, EndsStep DEF Shutdown, FreeAborts, SaveAndExit
<1>5. CASE \E p \in Pids : ChildEnds(p)
  BY <1>5, ChildEndsStep
<1>6. CASE Deliver \/ Terminate \/ Hang
  BY <1>6, DeliverStep, TerminateStep, EndsStep DEF Hang
<1>. QED  BY <1>1, <1>2, <1>3, <1>4, <1>5, <1>6 DEF Next

-----------------------------------------------------------------------------
(* Theorems.                                                               *)

\* The inductive invariant: the types, and until a shutdown begins how count
\* and array follow the children at each step of the loop and of the handler.
THEOREM Invariance == Spec => []IInv
<1>1. IInv /\ [Next]_vars => IInv'
  BY NextStep
<1>. QED  BY <1>1, InitIInv, PTL DEF Spec

\* child_array_size is the size of the block whenever it is read, wherever
\* the handlers interrupt track_child_process.
THEOREM TypeCorrect == Spec => []TypeOK
<1>1. IInv => TypeOK
  BY DEF IInv, Typed
<1>. QED  BY <1>1, Invariance, PTL

\* However the handler cuts in on child_count++, and however often realloc
\* fails, no child is missing from the count.
THEOREM NeverCountsLess == Spec => []NeverUndercounted
<1>1. IInv => NeverUndercounted
  <2> SUFFICES ASSUME IInv, AtRest
               PROVE  child_count >= Cardinality(Unreaped)
    BY DEF NeverUndercounted
  <2>1. step = "wait" /\ Counted /\ child_count \in Int
    BY DEF AtRest, IInv, Typed, TypeOK, Alive
  <2>. QED  BY <2>1 DEF AtRest, Counted, Owed
<1>. QED  BY <1>1, Invariance, PTL

\* As long as SIGCHLD comes between two clients, the array lists the children.
THEOREM CalmlyTracks == Spec => []CalmTracks
<1>1. IInv => CalmTracks
  <2> SUFFICES ASSUME IInv, AtRest, calm
               PROVE  /\ ~ smashed /\ child_count = Cardinality(Unreaped)
                      /\ {child_pids[i] : i \in 0 .. child_count - 1} = Unreaped
    BY DEF CalmTracks
  <2>1. step = "wait" /\ Tracks
    BY DEF AtRest, IInv, Typed, Alive
  <2>2. /\ ~ smashed /\ child_count = Cardinality(Unreaped)
        /\ Lists(child_pids, child_count, Unreaped)
    BY <2>1 DEF AtRest, Tracks, TrackedAtRest
  <2>3. {child_pids[i] : i \in 0 .. child_count - 1} = Unreaped
    BY <2>2 DEF Lists
  <2>. QED  BY <2>2, <2>3
<1>. QED  BY <1>1, Invariance, PTL

=============================================================================
