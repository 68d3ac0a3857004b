--------------------------- MODULE JsonFileProofs ---------------------------
(***************************************************************************)
(* The reader of JsonFile comes to what BankPersistence says, for every    *)
(* value of the constants: any globals, any names, any place of the cut.   *)
(***************************************************************************)
EXTENDS JsonFile, BankPersistenceProofs, SequenceTheorems

-----------------------------------------------------------------------------
(* Pieces of a sequence.                                                   *)

\* The piece s of q begins after place p.
At(q, p, s) == /\ p \in Nat /\ p + Len(s) <= Len(q)
               /\ \A i \in 1 .. Len(s) : q[p + i] = s[i]

\* The two halves of a concatenation.
LEMMA ConcatAt ==
    ASSUME NEW S, NEW s \in Seq(S), NEW t \in Seq(S)
    PROVE  /\ s \o t \in Seq(S) /\ Len(s \o t) = Len(s) + Len(t)
           /\ At(s \o t, 0, s) /\ At(s \o t, Len(s), t)
<1>1. /\ s \o t \in Seq(S) /\ Len(s \o t) = Len(s) + Len(t)
      /\ \A i \in 1 .. Len(s) + Len(t) :
             (s \o t)[i] = IF i <= Len(s) THEN s[i] ELSE t[i - Len(s)]
  BY ConcatProperties
<1>2. Len(s) \in Nat /\ Len(t) \in Nat
  BY LenProperties
<1> HIDE DEF At
<1>3. At(s \o t, 0, s)
  BY <1>1, <1>2 DEF At
<1>4. ASSUME NEW i \in 1 .. Len(t)
      PROVE  (s \o t)[Len(s) + i] = t[i]
  <2>1. Len(s) + i \in 1 .. Len(s) + Len(t) /\ ~ (Len(s) + i <= Len(s)) /\ Len(s) + i - Len(s) = i
    BY <1>2
  <2>. QED  BY <1>1, <2>1
<1>. QED  BY <1>1, <1>2, <1>3, <1>4 DEF At

\* A piece of a piece.
LEMMA AtTrans ==
    ASSUME NEW S, NEW q \in Seq(S), NEW s \in Seq(S), NEW t \in Seq(S), NEW p, NEW r,
           At(q, p, s), At(s, r, t)
    PROVE  At(q, p + r, t)
<1>1. Len(q) \in Nat /\ Len(s) \in Nat /\ Len(t) \in Nat /\ p \in Nat /\ r \in Nat
  BY LenProperties DEF At
<1>2. ASSUME NEW i \in 1 .. Len(t)
      PROVE  q[p + r + i] = t[i]
  <2>1. r + i \in 1 .. Len(s) /\ p + r + i = p + (r + i)
    BY <1>1 DEF At
  <2>. QED  BY <2>1 DEF At
<1>. QED  BY <1>1, <1>2 DEF At

\* A piece of the beginning.
LEMMA AtPrefix ==
    ASSUME NEW S, NEW q \in Seq(S), NEW s \in Seq(S), NEW t \in Seq(S), NEW r,
           At(q, 0, s), At(s, r, t)
    PROVE  At(q, r, t)
<1>1. At(q, 0 + r, t)
  BY AtTrans
<1>2. 0 + r = r
  BY DEF At
<1>. QED  BY <1>1, <1>2

\* Three parts of a concatenation.
LEMMA ThreeAt ==
    ASSUME NEW S, NEW s \in Seq(S), NEW t \in Seq(S), NEW u \in Seq(S)
    PROVE  LET q == (s \o t) \o u
           IN  /\ q \in Seq(S) /\ Len(q) = Len(s) + Len(t) + Len(u)
               /\ At(q, 0, s) /\ At(q, Len(s), t) /\ At(q, Len(s) + Len(t), u)
<1> DEFINE r == s \o t
           q == r \o u
<1>1. /\ r \in Seq(S) /\ Len(r) = Len(s) + Len(t)
      /\ At(r, 0, s) /\ At(r, Len(s), t)
  BY ConcatAt
<1> HIDE DEF r
<1>2. /\ q \in Seq(S) /\ Len(q) = Len(r) + Len(u)
      /\ At(q, 0, r) /\ At(q, Len(r), u)
  BY <1>1, ConcatAt
<1> HIDE DEF q
<1>3. At(q, 0, s) /\ At(q, Len(s), t)
  BY <1>1, <1>2, AtPrefix
<1>. QED  BY <1>1, <1>2, <1>3 DEF q, r

\* Without the first token, all pieces but the first move one down.
LEMMA AtTail ==
    ASSUME NEW S, NEW q \in Seq(S), NEW s \in Seq(S), NEW p \in Nat \ {0}, At(q, p, s)
    PROVE  /\ Tail(q) \in Seq(S) /\ Len(Tail(q)) = Len(q) - 1
           /\ At(Tail(q), p - 1, s)
<1>1. Len(q) \in Nat /\ Len(s) \in Nat /\ p + Len(s) <= Len(q)
  BY LenProperties DEF At
<1>2. q # << >>
  BY <1>1
<1>3. /\ Tail(q) \in Seq(S) /\ Len(Tail(q)) = Len(q) - 1
      /\ \A i \in 1 .. Len(Tail(q)) : Tail(q)[i] = q[i + 1]
  BY <1>2, HeadTailProperties
<1>4. ASSUME NEW i \in 1 .. Len(s)
      PROVE  Tail(q)[p - 1 + i] = s[i]
  <2>1. p - 1 + i \in 1 .. Len(Tail(q)) /\ (p - 1 + i) + 1 = p + i
    BY <1>1, <1>3
  <2>. QED  BY <1>3, <2>1 DEF At
<1>. QED  BY <1>1, <1>3, <1>4 DEF At

-----------------------------------------------------------------------------
(* FlattenSeq: one element more is one piece more.                         *)

\* f is the function that FlattenSeq defines by recursion, up to n.
Flattens(f, s, n) ==
    f = [i \in 1 .. n |-> IF i = 1 THEN s[i] ELSE f[i - 1] \o s[i]]

\* What it is at each place.
LEMMA FlattensAt ==
    ASSUME NEW s, NEW n \in Nat, NEW f, Flattens(f, s, n), NEW i \in 1 .. n
    PROVE  f[i] = IF i = 1 THEN s[i] ELSE f[i - 1] \o s[i]
<1> DEFINE g == [j \in 1 .. n |-> IF j = 1 THEN s[j] ELSE f[j - 1] \o s[j]]
<1>1. g[i] = IF i = 1 THEN s[i] ELSE f[i - 1] \o s[i]
  OBVIOUS
<1>2. f = g
  BY DEF Flattens
<1> HIDE DEF g
<1>. QED  BY <1>1, <1>2

\* There is one.
LEMMA FlattensExists ==
    ASSUME NEW s, NEW n \in Nat
    PROVE  \E f : Flattens(f, s, n)
<1> DEFINE T == {k \in Nat : ~ \E f : Flattens(f, s, k)}
<1>1. ASSUME T # {}
      PROVE  FALSE
  <2>1. PICK k \in T : \A j \in T : k <= j
    BY <1>1, LeastNat
  <2>2. k # 0
    <3> DEFINE g == [i \in 1 .. 0 |-> << >>]
    <3>1. Flattens(g, s, 0)
      BY DEF Flattens
    <3>. QED  BY <3>1, <2>1
  <2>3. k - 1 \in Nat /\ k - 1 \notin T
    BY <2>1, <2>2
  <2>4. PICK f : Flattens(f, s, k - 1)
    BY <2>3
  <2> DEFINE g == [i \in 1 .. k |-> IF i = 1 THEN s[i] ELSE f[i - 1] \o s[i]]
  <2>5. ASSUME NEW i \in 1 .. k - 1
        PROVE  g[i] = f[i]
    <3>1. f[i] = IF i = 1 THEN s[i] ELSE f[i - 1] \o s[i]
      BY <2>3, <2>4, FlattensAt
    <3>2. i \in 1 .. k
      BY <2>3
    <3>. QED  BY <3>1, <3>2
  <2> HIDE DEF g
  <2>6. \A i \in 1 .. k : i # 1 => f[i - 1] = g[i - 1]
    <3>1. \A i \in 1 .. k : i # 1 => i - 1 \in 1 .. k - 1
      BY <2>3
    <3>. QED  BY <3>1, <2>5
  <2>7. g = [i \in 1 .. k |-> IF i = 1 THEN s[i] ELSE g[i - 1] \o s[i]]
    <3>1. \A i \in 1 .. k : (IF i = 1 THEN s[i] ELSE f[i - 1] \o s[i])
                              = (IF i = 1 THEN s[i] ELSE g[i - 1] \o s[i])
      BY <2>6
    <3>. QED  BY <3>1 DEF g
  <2>8. Flattens(g, s, k)
    BY <2>7 DEF Flattens
  <2>. QED  BY <2>1, <2>8
<1>. QED  BY <1>1

\* A longer one goes on as a shorter one.
LEMMA FlattensSame ==
    ASSUME NEW s, NEW t, NEW m \in Nat, NEW n \in Nat, m <= n, NEW f, NEW g,
           Flattens(f, s, m), Flattens(g, t, n), \A i \in 1 .. m : s[i] = t[i]
    PROVE  \A i \in 1 .. m : f[i] = g[i]
<1> DEFINE T == {k \in 1 .. m : f[k] # g[k]}
<1>1. ASSUME T # {}
      PROVE  FALSE
  <2>1. PICK k \in T : \A j \in T : k <= j
    <3>1. T \subseteq Nat
      OBVIOUS
    <3>. QED  BY <1>1, <3>1, LeastNat
  <2>2. /\ f[k] = IF k = 1 THEN s[k] ELSE f[k - 1] \o s[k]
        /\ g[k] = IF k = 1 THEN t[k] ELSE g[k - 1] \o t[k]
    <3>1. k \in 1 .. m /\ k \in 1 .. n
      OBVIOUS
    <3>. QED  BY <3>1, FlattensAt
  <2>3. k # 1 => k - 1 \in 1 .. m /\ k - 1 \notin T
    BY <2>1
  <2>4. k # 1 => f[k - 1] = g[k - 1]
    BY <2>3
  <2>. QED  BY <2>1, <2>2, <2>4
<1>. QED  BY <1>1

\* Its values are sequences.
LEMMA FlattensType ==
    ASSUME NEW S, NEW s, NEW n \in Nat, NEW f, Flattens(f, s, n),
           \A i \in 1 .. n : s[i] \in Seq(S)
    PROVE  \A i \in 1 .. n : f[i] \in Seq(S)
<1> DEFINE T == {k \in 1 .. n : f[k] \notin Seq(S)}
<1>1. ASSUME T # {}
      PROVE  FALSE
  <2>1. PICK k \in T : \A j \in T : k <= j
    <3>1. T \subseteq Nat
      OBVIOUS
    <3>. QED  BY <1>1, <3>1, LeastNat
  <2>2. f[k] = IF k = 1 THEN s[k] ELSE f[k - 1] \o s[k]
    BY FlattensAt
  <2>3. k # 1 => k - 1 \in 1 .. n /\ k - 1 \notin T
    BY <2>1
  <2>4. k # 1 => f[k - 1] \in Seq(S)
    BY <2>3
  <2>5. k # 1 => f[k - 1] \o s[k] \in Seq(S)
    BY <2>1, <2>4, ConcatProperties
  <2>. QED  BY <2>1, <2>2, <2>5
<1>. QED  BY <1>1

\* FlattenSeq is its last value.
LEMMA FlattenSeqIs ==
    ASSUME NEW S, NEW s \in Seq(S), Len(s) # 0
    PROVE  \E f : Flattens(f, s, Len(s)) /\ FlattenSeq(s) = f[Len(s)]
<1>1. Len(s) \in Nat
  BY LenProperties
<1>2. \E f : Flattens(f, s, Len(s))
  BY <1>1, FlattensExists
<1> DEFINE g == CHOOSE f : Flattens(f, s, Len(s))
<1>3. Flattens(g, s, Len(s))
  BY <1>2
<1>4. FlattenSeq(s) = g[Len(s)]
  BY DEF FlattenSeq, Flattens
<1>. QED  BY <1>3, <1>4

\* The first n of a family of sequences, one after another.
Joined(G, n) == FlattenSeq([j \in 1 .. n |-> G[j]])

\* Nothing, to begin with.
LEMMA JoinedNone ==
    ASSUME NEW G
    PROVE  Joined(G, 0) = << >>
<1> DEFINE s == [j \in 1 .. 0 |-> G[j]]
<1>1. s = << >> /\ Len(s) = 0
  OBVIOUS
<1>2. FlattenSeq(s) = s
  BY <1>1 DEF FlattenSeq
<1>. QED  BY <1>1, <1>2 DEF Joined

\* And then one after the other.
LEMMA JoinedNext ==
    ASSUME NEW S, NEW G, NEW n \in Nat, \A j \in 1 .. n + 1 : G[j] \in Seq(S)
    PROVE  /\ Joined(G, n) \in Seq(S) /\ Joined(G, n + 1) \in Seq(S)
           /\ Joined(G, n + 1) = Joined(G, n) \o G[n + 1]
<1> DEFINE s == [j \in 1 .. n |-> G[j]]
           t == [j \in 1 .. n + 1 |-> G[j]]
<1>1. s \in Seq(Seq(S)) /\ t \in Seq(Seq(S)) /\ Len(s) = n /\ Len(t) = n + 1
  OBVIOUS
<1>2. /\ \A i \in 1 .. n : s[i] = t[i] /\ s[i] \in Seq(S)
      /\ \A i \in 1 .. n + 1 : t[i] = G[i] /\ t[i] \in Seq(S)
  OBVIOUS
<1>3. Joined(G, n) = FlattenSeq(s) /\ Joined(G, n + 1) = FlattenSeq(t)
  BY DEF Joined
<1> HIDE DEF s, t
<1>4. PICK g : Flattens(g, t, n + 1) /\ FlattenSeq(t) = g[n + 1]
  BY <1>1, FlattenSeqIs
<1>5. g[n + 1] \in Seq(S)
  BY <1>2, <1>4, FlattensType
<1>6. g[n + 1] = IF n + 1 = 1 THEN t[n + 1] ELSE g[n + 1 - 1] \o t[n + 1]
  <2>1. PICK m : m = n + 1
    OBVIOUS
  <2>2. Flattens(g, t, m) /\ m \in Nat /\ m \in 1 .. m
    BY <1>4, <2>1
  <2>3. g[m] = IF m = 1 THEN t[m] ELSE g[m - 1] \o t[m]
    BY ONLY <2>2, FlattensAt
  <2>. QED  BY <2>1, <2>3
<1>7. CASE n = 0
  <2>1. g[n + 1] = G[n + 1]
    BY <1>2, <1>6, <1>7
  <2>2. Joined(G, n) = << >>
    BY <1>7, JoinedNone
  <2>3. << >> \o G[n + 1] = G[n + 1]
    BY <1>2, ConcatEmptySeq
  <2>. QED  BY <1>3, <1>4, <1>5, <2>1, <2>2, <2>3
<1>8. CASE n # 0
  <2>1. PICK f : Flattens(f, s, n) /\ FlattenSeq(s) = f[n]
    BY <1>1, <1>8, FlattenSeqIs
  <2>2. f[n] = g[n] /\ f[n] \in Seq(S)
    <3>1. \A i \in 1 .. n : f[i] = g[i]
      <4>1. n \in Nat /\ n + 1 \in Nat /\ n <= n + 1
        OBVIOUS
      <4>2. Flattens(g, t, n + 1)
        BY <1>4
      <4>3. Flattens(f, s, n)
        BY <2>1
      <4>4. \A i \in 1 .. n : s[i] = t[i]
        BY <1>2
      <4>. QED  BY ONLY <4>1, <4>2, <4>3, <4>4, FlattensSame
    <3>2. \A i \in 1 .. n : f[i] \in Seq(S)
      BY <1>2, <2>1, FlattensType
    <3>. QED  BY <3>1, <3>2, <1>8
  <2>3. n + 1 # 1 /\ n + 1 - 1 = n
    BY <1>8
  <2>4. g[n + 1] = g[n] \o t[n + 1]
    BY <1>6, <2>3
  <2>5. t[n + 1] = G[n + 1]
    BY <1>2
  <2>. QED  BY <1>3, <1>4, <1>5, <2>1, <2>2, <2>4, <2>5
<1>. QED  BY <1>7, <1>8

\* The sequence of all of them is FlattenSeq.
LEMMA JoinedAll ==
    ASSUME NEW S, NEW s \in Seq(S)
    PROVE  FlattenSeq(s) = Joined(s, Len(s))
<1>1. s = [j \in 1 .. Len(s) |-> s[j]]
  BY LenProperties
<1>. QED  BY <1>1 DEF Joined

\* Every one of them is where those before it end.
LEMMA JoinedAt ==
    ASSUME NEW S, NEW G, NEW n \in Nat, \A j \in 1 .. n : G[j] \in Seq(S)
    PROVE  /\ Joined(G, n) \in Seq(S)
           /\ \A k \in 0 .. n : At(Joined(G, n), 0, Joined(G, k))
           /\ \A k \in 1 .. n : At(Joined(G, n), Len(Joined(G, k - 1)), G[k])
<1>1. \A k \in 0 .. n : Joined(G, k) \in Seq(S)
  <2>1. Joined(G, 0) \in Seq(S)
    <3>1. << >> \in Seq(S)
      OBVIOUS
    <3>. QED  BY <3>1, JoinedNone
  <2>2. ASSUME NEW k \in 1 .. n
        PROVE  Joined(G, k) \in Seq(S)
    <3>1. k - 1 \in Nat /\ k - 1 + 1 = k /\ \A j \in 1 .. k : G[j] \in Seq(S)
      OBVIOUS
    <3>. QED  BY <3>1, JoinedNext
  <2>. QED  BY <2>1, <2>2
<1>2. ASSUME NEW k \in 1 .. n
      PROVE  /\ At(Joined(G, k), 0, Joined(G, k - 1))
             /\ At(Joined(G, k), Len(Joined(G, k - 1)), G[k])
  <2>1. k - 1 \in Nat /\ k - 1 + 1 = k /\ k - 1 \in 0 .. n /\ \A j \in 1 .. k : G[j] \in Seq(S)
    OBVIOUS
  <2>2. Joined(G, k) = Joined(G, k - 1) \o G[k]
    BY <2>1, JoinedNext
  <2>. QED  BY <1>1, <2>1, <2>2, ConcatAt
<1>3. ASSUME NEW k \in 0 .. n
      PROVE  At(Joined(G, n), 0, Joined(G, k))
  <2> DEFINE T == {d \in Nat : d <= n - k /\ ~ At(Joined(G, k + d), 0, Joined(G, k))}
  <2>1. ASSUME T # {}
        PROVE  FALSE
    <3>1. PICK d \in T : \A e \in T : d <= e
      <4>1. T \subseteq Nat
        OBVIOUS
      <4>. QED  BY <2>1, <4>1, LeastNat
    <3>2. Joined(G, k) \in Seq(S) /\ Len(Joined(G, k)) \in Nat
      BY <1>1, LenProperties
    <3>3. d # 0
      <4>1. k + 0 = k
        OBVIOUS
      <4>2. At(Joined(G, k), 0, Joined(G, k))
        BY <3>2 DEF At
      <4>. QED  BY <3>1, <4>1, <4>2
    <3>4. d - 1 \in Nat /\ d - 1 <= n - k /\ ~ (d <= d - 1) /\ k + d \in 1 .. n
          /\ k + (d - 1) = k + d - 1 /\ k + d - 1 \in 0 .. n
      BY <3>3
    <3>8. d - 1 \notin T
      BY <3>1, <3>4
    <3>5. At(Joined(G, k + d - 1), 0, Joined(G, k))
      BY <3>4, <3>8
    <3>6. At(Joined(G, k + d), 0, Joined(G, k + d - 1))
      BY <1>2, <3>4
    <3>7. At(Joined(G, k + d), 0, Joined(G, k))
      <4>1. Joined(G, k + d) \in Seq(S) /\ Joined(G, k + d - 1) \in Seq(S)
        BY <1>1, <3>4
      <4>. QED  BY ONLY <3>2, <3>5, <3>6, <4>1, AtPrefix
    <3>. QED  BY <3>7
  <2>2. n - k \in Nat /\ k + (n - k) = n
    OBVIOUS
  <2>3. n - k \notin T
    BY <2>1
  <2>4. At(Joined(G, k + (n - k)), 0, Joined(G, k))
    BY <2>2, <2>3
  <2>. QED  BY <2>2, <2>4
<1>4. ASSUME NEW k \in 1 .. n
      PROVE  At(Joined(G, n), Len(Joined(G, k - 1)), G[k])
  <2>1. k \in 0 .. n /\ n \in 0 .. n /\ G[k] \in Seq(S)
    OBVIOUS
  <2>2. Joined(G, n) \in Seq(S) /\ Joined(G, k) \in Seq(S)
    BY <1>1, <2>1
  <2>3. /\ At(Joined(G, n), 0, Joined(G, k))
        /\ At(Joined(G, k), Len(Joined(G, k - 1)), G[k])
    BY <1>2, <1>3, <2>1
  <2>. QED  BY ONLY <2>1, <2>2, <2>3, AtPrefix
<1>. QED  BY <1>1, <1>3, <1>4

\* One more of them adds its length.
LEMMA JoinedLen ==
    ASSUME NEW S, NEW G, NEW n \in Nat, NEW m, m = n + 1, \A j \in 1 .. m : G[j] \in Seq(S),
           NEW a \in Nat, Len(Joined(G, n)) = a, NEW b \in Nat, Len(G[m]) = b
    PROVE  /\ Joined(G, m) \in Seq(S) /\ Len(Joined(G, m)) = a + b
           /\ At(Joined(G, m), a, G[m])
<1>1. /\ Joined(G, n) \in Seq(S) /\ Joined(G, n + 1) \in Seq(S)
      /\ Joined(G, n + 1) = Joined(G, n) \o G[n + 1]
  BY JoinedNext
<1>2. G[m] \in Seq(S) /\ Joined(G, m) = Joined(G, n) \o G[m] /\ Joined(G, m) \in Seq(S)
  BY <1>1
<1> DEFINE x == Joined(G, n)
           y == Joined(G, m)
           z == G[m]
<1>3. x \in Seq(S) /\ z \in Seq(S) /\ y = x \o z /\ Len(x) = a /\ Len(z) = b /\ y \in Seq(S)
  BY <1>1, <1>2
<1> HIDE DEF x, y, z
<1>4. y \in Seq(S) /\ Len(y) = a + b /\ At(y, a, z)
  BY ONLY <1>3, ConcatAt
<1>. QED  BY <1>4 DEF x, y, z

\* Where each of them is, given where the one before it ends.
LEMMA JoinedOffsets ==
    ASSUME NEW S, NEW G, NEW n \in Nat, \A j \in 1 .. n : G[j] \in Seq(S),
           NEW off \in [0 .. n -> Nat], off[0] = 0,
           \A j \in 1 .. n : off[j] = off[j - 1] + Len(G[j])
    PROVE  /\ Joined(G, n) \in Seq(S) /\ Len(Joined(G, n)) = off[n]
           /\ \A k \in 1 .. n : At(Joined(G, n), off[k - 1], G[k])
<1> DEFINE T == {k \in 0 .. n : Len(Joined(G, k)) # off[k]}
<1>1. ASSUME T # {}
      PROVE  FALSE
  <2>1. PICK k \in T : \A j \in T : k <= j
    <3>1. T \subseteq Nat
      OBVIOUS
    <3>. QED  BY <1>1, <3>1, LeastNat
  <2>2. k # 0
    <3>1. Len(Joined(G, 0)) = 0
      BY JoinedNone
    <3>. QED  BY <3>1
  <2> DEFINE i == k - 1
  <2>3. i \in Nat /\ k = i + 1 /\ i \in 0 .. n /\ k \in 1 .. n /\ ~ (k <= i)
    BY <2>2
  <2>4. off[k] = off[i] + Len(G[k]) /\ off[i] \in Nat
    BY <2>3
  <2>5. i \notin T
    BY <2>1, <2>3
  <2>6. Len(Joined(G, i)) = off[i]
    BY <2>3, <2>5
  <2>7. G[k] \in Seq(S) /\ Len(G[k]) \in Nat /\ \A j \in 1 .. k : G[j] \in Seq(S)
    BY <2>3, LenProperties
  <2> HIDE DEF i
  <2>8. Len(Joined(G, k)) = off[i] + Len(G[k])
    <3>1. PICK x \in Nat : x = off[i]
      BY <2>4
    <3>2. PICK y \in Nat : y = Len(G[k])
      BY <2>7
    <3>3. Len(Joined(G, i)) = x /\ Len(G[k]) = y
      BY <2>6, <3>1, <3>2
    <3>4. i \in Nat /\ k = i + 1 /\ \A j \in 1 .. k : G[j] \in Seq(S)
      BY <2>3, <2>7
    <3>5. /\ Joined(G, k) \in Seq(S) /\ Len(Joined(G, k)) = x + y
          /\ At(Joined(G, k), x, G[k])
      BY ONLY x \in Nat, y \in Nat, <3>3, <3>4, JoinedLen
    <3>. QED  BY <3>1, <3>2, <3>5
  <2>. QED  BY <2>4, <2>8
<1>2. \A k \in 0 .. n : Len(Joined(G, k)) = off[k]
  BY <1>1
<1>3. \A k \in 1 .. n : k - 1 \in 0 .. n
  OBVIOUS
<1>. QED  BY <1>2, <1>3, JoinedAt

-----------------------------------------------------------------------------
(* Tokens, members and objects.                                            *)

Words == {"version", "accounts_in_use", "next_number", "accounts",
          "number", "pin", "name", "balance", "ntran", "last",
          "type", "amount", "balance_after", "D", "W", "0"}

Token == ({"char", "int"} \X Int) \cup ({"key", "letter"} \X Words)

\* Tokens tell what they are and what they hold.
LEMMA TokenFacts ==
    /\ \A b \in Int : Char(b) \in Token /\ Num(b) \in Token
    /\ \A w \in Words : Key(w) \in Token /\ Letter(w) \in Token
    /\ \A b, c : /\ Char(b) = Char(c) <=> b = c
                 /\ Key(b) = Key(c) <=> b = c
                 /\ Char(b) # Key(c) /\ Char(b) # Num(c) /\ Char(b) # Letter(c)
    /\ \A b : Char(b)[2] = b /\ Num(b)[2] = b /\ Letter(b)[2] = b
BY DEF Token, Words, Char, Num, Key, Letter

\* Bytes as characters.
LEMMA CharsAre ==
    ASSUME NEW s \in Seq(Int)
    PROVE  /\ Chars(s) \in Seq(Token) /\ Len(Chars(s)) = Len(s)
           /\ \A i \in 1 .. Len(s) : Chars(s)[i] = Char(s[i])
<1>1. DOMAIN s = 1 .. Len(s) /\ Len(s) \in Nat /\ \A i \in 1 .. Len(s) : s[i] \in Int
  BY LenProperties
<1>2. \A i \in 1 .. Len(s) : Char(s[i]) \in Token
  BY <1>1, TokenFacts
<1>3. Chars(s) = [i \in 1 .. Len(s) |-> Char(s[i])]
  BY <1>1 DEF Chars
<1>. QED  BY <1>1, <1>2, <1>3

\* One character.
LEMMA OneChar ==
    ASSUME NEW b \in Int
    PROVE  /\ Chars(<<b>>) \in Seq(Token) /\ Len(Chars(<<b>>)) = 1
           /\ Chars(<<b>>)[1] = Char(b)
<1> DEFINE s == <<b>>
<1>1. s \in Seq(Int) /\ Len(s) = 1 /\ s[1] = b
  OBVIOUS
<1> HIDE DEF s
<1>2. /\ Chars(s) \in Seq(Token) /\ Len(Chars(s)) = 1
      /\ Chars(s)[1] = Char(b)
  BY <1>1, CharsAre
<1>. QED  BY <1>2 DEF s

\* A member is a comma, a key, a colon and its value.
LEMMA MemberIs ==
    ASSUME NEW w \in Words, NEW v \in Seq(Token)
    PROVE  LET m == Member(w, v)
           IN  /\ m \in Seq(Token) /\ Len(m) = 3 + Len(v)
               /\ m[1] = Char(Comma) /\ m[2] = Key(w) /\ m[3] = Char(Colon)
               /\ At(m, 3, v)
<1> DEFINE c == Chars(<<Comma>>)
           k == <<Key(w), Char(Colon)>>
<1>1. c \in Seq(Token) /\ Len(c) = 1 /\ c[1] = Char(Comma)
  BY OneChar DEF Comma
<1>2. k \in Seq(Token) /\ Len(k) = 2 /\ k[1] = Key(w) /\ k[2] = Char(Colon)
  <2>1. Key(w) \in Token /\ Char(Colon) \in Token
    BY TokenFacts DEF Colon
  <2>. QED  BY <2>1
<1>3. Member(w, v) = (c \o k) \o v
  BY DEF Member
<1> HIDE DEF c, k
<1>4. /\ c \o k \in Seq(Token) /\ Len(c \o k) = 3
      /\ At(c \o k, 0, c) /\ At(c \o k, 1, k)
  <2>1. /\ c \o k \in Seq(Token) /\ Len(c \o k) = Len(c) + Len(k)
        /\ At(c \o k, 0, c) /\ At(c \o k, Len(c), k)
    BY <1>1, <1>2, ConcatAt
  <2>. QED  BY <1>1, <1>2, <2>1
<1>5. /\ (c \o k) \o v \in Seq(Token) /\ Len((c \o k) \o v) = 3 + Len(v)
      /\ At((c \o k) \o v, 0, c \o k) /\ At((c \o k) \o v, 3, v)
  BY <1>4, ConcatAt
<1>6. (c \o k)[1] = Char(Comma) /\ (c \o k)[2] = Key(w) /\ (c \o k)[3] = Char(Colon)
  BY <1>1, <1>2, <1>4 DEF At
<1>7. \A i \in 1 .. 3 : ((c \o k) \o v)[i] = (c \o k)[i]
  BY <1>4, <1>5 DEF At
<1>. QED  BY <1>3, <1>5, <1>6, <1>7

\* An object begins and ends with its braces; between them are its members.
LEMMA ObjectIs ==
    ASSUME NEW ms \in Seq(Seq(Token)), Len(ms) # 0, Len(ms[1]) # 0
    PROVE  LET J == Joined(ms, Len(ms))
           IN  /\ J \in Seq(Token) /\ Len(J) # 0
               /\ Object(ms) \in Seq(Token) /\ Len(Object(ms)) = Len(J) + 1
               /\ Object(ms)[1] = Char(Brace) /\ Object(ms)[Len(J) + 1] = Char(EndBrace)
               /\ \A i \in 2 .. Len(J) : Object(ms)[i] = J[i]
<1> DEFINE n == Len(ms)
           J == Joined(ms, n)
           b == Chars(<<Brace>>)
           e == Chars(<<EndBrace>>)
           o == (b \o Tail(J)) \o e
<1>1. n \in Nat /\ 1 \in 1 .. n /\ \A j \in 1 .. n : ms[j] \in Seq(Token)
  BY LenProperties
<1>2. J \in Seq(Token) /\ At(J, Len(Joined(ms, 1 - 1)), ms[1])
  BY <1>1, JoinedAt
<1>3. Len(J) # 0 /\ Len(J) \in Nat
  <2>1. Len(ms[1]) \in Nat
    BY <1>1, LenProperties
  <2>. QED  BY <1>2, <2>1, LenProperties DEF At
<1>4. Object(ms) = o
  BY JoinedAll DEF Object
<1>5. /\ b \in Seq(Token) /\ Len(b) = 1 /\ b[1] = Char(Brace)
      /\ e \in Seq(Token) /\ Len(e) = 1 /\ e[1] = Char(EndBrace)
  BY OneChar DEF Brace, EndBrace
<1>6. /\ Tail(J) \in Seq(Token) /\ Len(Tail(J)) = Len(J) - 1
      /\ \A i \in 1 .. Len(J) - 1 : Tail(J)[i] = J[i + 1]
  <2>1. J # << >>
    BY <1>3
  <2>. QED  BY <1>2, <2>1, HeadTailProperties
<1> HIDE DEF J, b, e
<1>7. /\ o \in Seq(Token) /\ Len(o) = 1 + (Len(J) - 1) + 1
      /\ At(o, 0, b) /\ At(o, 1, Tail(J)) /\ At(o, 1 + (Len(J) - 1), e)
  <2> DEFINE t == Tail(J)
  <2>1. t \in Seq(Token) /\ Len(t) = Len(J) - 1
    BY <1>6
  <2> HIDE DEF t
  <2>2. LET q == (b \o t) \o e
        IN  /\ q \in Seq(Token) /\ Len(q) = Len(b) + Len(t) + Len(e)
            /\ At(q, 0, b) /\ At(q, Len(b), t) /\ At(q, Len(b) + Len(t), e)
    BY <1>5, <2>1, ThreeAt
  <2>. QED  BY <1>5, <2>1, <2>2 DEF t
<1> HIDE DEF o
<1>8. o[1] = Char(Brace) /\ o[Len(J) + 1] = Char(EndBrace)
  BY <1>3, <1>5, <1>7 DEF At
<1>9. ASSUME NEW i \in 2 .. Len(J)
      PROVE  o[i] = J[i]
  <2>1. i - 1 \in 1 .. Len(J) - 1 /\ 1 + (i - 1) = i /\ (i - 1) + 1 = i
    BY <1>3
  <2>2. o[1 + (i - 1)] = Tail(J)[i - 1]
    BY <1>6, <1>7, <2>1 DEF At
  <2>. QED  BY <1>6, <2>1, <2>2
<1>. QED  BY <1>2, <1>3, <1>4, <1>7, <1>8, <1>9 DEF J

\* Where the members of an object are.
LEMMA ObjectAt ==
    ASSUME NEW ms \in Seq(Seq(Token)), NEW n \in Nat \ {0}, n = Len(ms), Len(ms[1]) # 0,
           NEW off \in [0 .. n -> Nat], off[0] = 0,
           \A j \in 1 .. n : off[j] = off[j - 1] + Len(ms[j])
    PROVE  LET q == Object(ms)
           IN  /\ q \in Seq(Token) /\ Len(q) = off[n] + 1
               /\ q[1] = Char(Brace) /\ q[off[n] + 1] = Char(EndBrace)
               /\ \A k \in 1 .. n : \A i \in 1 .. Len(ms[k]) :
                      off[k - 1] + i # 1 => q[off[k - 1] + i] = ms[k][i]
<1> DEFINE q == Object(ms)
           J == Joined(ms, n)
<1>1. \A j \in 1 .. n : ms[j] \in Seq(Token)
  OBVIOUS
<1>2. /\ J \in Seq(Token) /\ Len(J) = off[n]
      /\ \A k \in 1 .. n : At(J, off[k - 1], ms[k])
  BY ONLY <1>1, n \in Nat, off \in [0 .. n -> Nat], off[0] = 0,
          \A j \in 1 .. n : off[j] = off[j - 1] + Len(ms[j]), JoinedOffsets
<1>3. /\ q \in Seq(Token) /\ Len(q) = Len(J) + 1
      /\ q[1] = Char(Brace) /\ q[Len(J) + 1] = Char(EndBrace)
      /\ \A i \in 2 .. Len(J) : q[i] = J[i]
  BY ObjectIs
<1> HIDE DEF q, J
<1>4. ASSUME NEW k \in 1 .. n, NEW i \in 1 .. Len(ms[k]), off[k - 1] + i # 1
      PROVE  q[off[k - 1] + i] = ms[k][i]
  <2>1. J[off[k - 1] + i] = ms[k][i] /\ off[k - 1] + Len(ms[k]) <= Len(J)
    BY <1>2 DEF At
  <2>2. off[k - 1] \in Nat /\ Len(ms[k]) \in Nat /\ Len(J) \in Nat
    <3>1. k - 1 \in 0 .. n /\ ms[k] \in Seq(Token)
      BY <1>1
    <3>. QED  BY <1>2, <3>1, LenProperties
  <2>3. off[k - 1] + i \in 2 .. Len(J)
    <3>1. PICK x \in Nat : x = off[k - 1]
      BY <2>2
    <3>2. PICK l \in Nat : l = Len(ms[k])
      BY <2>2
    <3>3. PICK z \in Nat : z = Len(J)
      BY <2>2
    <3>4. i \in 1 .. l /\ x + i # 1 /\ x + l <= z
      BY <1>4, <2>1, <3>1, <3>2, <3>3
    <3>5. x + i \in 2 .. z
      BY ONLY <3>4, x \in Nat, l \in Nat, z \in Nat
    <3>. QED  BY <3>1, <3>3, <3>5
  <2>. QED  BY <1>3, <2>1, <2>3
<1>. QED  BY <1>2, <1>3, <1>4 DEF q

\* A member whose value is one token.
LEMMA ShortMember ==
    ASSUME NEW w \in Words, NEW x \in Token
    PROVE  LET m == Member(w, <<x>>)
           IN  /\ m \in Seq(Token) /\ Len(m) = 4
               /\ m[1] = Char(Comma) /\ m[2] = Key(w) /\ m[3] = Char(Colon) /\ m[4] = x
<1> DEFINE v == <<x>>
<1>1. v \in Seq(Token) /\ Len(v) = 1 /\ v[1] = x
  OBVIOUS
<1> HIDE DEF v
<1>2. LET m == Member(w, v)
      IN  /\ m \in Seq(Token) /\ Len(m) = 4
          /\ m[1] = Char(Comma) /\ m[2] = Key(w) /\ m[3] = Char(Colon) /\ m[4] = x
  <2> DEFINE m == Member(w, v)
  <2>1. /\ m \in Seq(Token) /\ Len(m) = 3 + Len(v)
        /\ m[1] = Char(Comma) /\ m[2] = Key(w) /\ m[3] = Char(Colon)
        /\ At(m, 3, v)
    BY <1>1, MemberIs
  <2> HIDE DEF m
  <2>2. m[3 + 1] = v[1]
    BY <1>1, <2>1 DEF At
  <2>. QED  BY <1>1, <2>1, <2>2 DEF m
<1>. QED  BY <1>2 DEF v

\* The thirteen tokens of a transaction.
TranTokens(q, p, t) ==
    /\ q[p + 1] = Char(Brace)
    /\ q[p + 2] = Key("type") /\ q[p + 3] = Char(Colon) /\ q[p + 4] = Letter(t.type)
    /\ q[p + 5] = Char(Comma)
    /\ q[p + 6] = Key("amount") /\ q[p + 7] = Char(Colon) /\ q[p + 8] = Num(t.amount)
    /\ q[p + 9] = Char(Comma)
    /\ q[p + 10] = Key("balance_after") /\ q[p + 11] = Char(Colon)
    /\ q[p + 12] = Num(t.balance_after)
    /\ q[p + 13] = Char(EndBrace)

\* That is how write_transaction_json writes it.
LEMMA TranIs ==
    ASSUME NEW t \in Tran
    PROVE  LET q == write_transaction_json(t)
           IN  q \in Seq(Token) /\ Len(q) = 13 /\ TranTokens(q, 0, t)
<1> DEFINE m1 == Member("type", <<Letter(t.type)>>)
           m2 == Member("amount", <<Num(t.amount)>>)
           m3 == Member("balance_after", <<Num(t.balance_after)>>)
           ms == <<m1, m2, m3>>
<1>1. /\ "type" \in Words /\ "amount" \in Words /\ "balance_after" \in Words
      /\ t.type \in Words /\ t.amount \in Int /\ t.balance_after \in Int
  BY BankAssumption DEF Words, Tran, CInt
<1>2. Letter(t.type) \in Token /\ Num(t.amount) \in Token /\ Num(t.balance_after) \in Token
  BY <1>1, TokenFacts
<1>3. /\ m1 \in Seq(Token) /\ Len(m1) = 4
      /\ m1[2] = Key("type") /\ m1[3] = Char(Colon) /\ m1[4] = Letter(t.type)
  BY <1>1, <1>2, ShortMember
<1>4. /\ m2 \in Seq(Token) /\ Len(m2) = 4 /\ m2[1] = Char(Comma)
      /\ m2[2] = Key("amount") /\ m2[3] = Char(Colon) /\ m2[4] = Num(t.amount)
  BY <1>1, <1>2, ShortMember
<1>5. /\ m3 \in Seq(Token) /\ Len(m3) = 4 /\ m3[1] = Char(Comma)
      /\ m3[2] = Key("balance_after") /\ m3[3] = Char(Colon) /\ m3[4] = Num(t.balance_after)
  BY <1>1, <1>2, ShortMember
<1>6. write_transaction_json(t) = Object(ms)
  BY DEF write_transaction_json
<1> HIDE DEF m1, m2, m3
<1>7. ms \in Seq(Seq(Token)) /\ Len(ms) = 3 /\ ms[1] = m1 /\ ms[2] = m2 /\ ms[3] = m3
  BY <1>3, <1>4, <1>5
<1> HIDE DEF ms
<1>8. \A j \in 1 .. 3 : ms[j] \in Seq(Token)
  BY <1>3, <1>4, <1>5, <1>7
<1> DEFINE off == [k \in 0 .. 3 |-> 4 * k]
           q == Object(ms)
<1>9. /\ off \in [0 .. 3 -> Nat] /\ off[0] = 0 /\ off[1] = 4 /\ off[2] = 8 /\ off[3] = 12
      /\ \A j \in 1 .. 3 : off[j] = off[j - 1] + 4
  OBVIOUS
<1>10. \A j \in 1 .. 3 : Len(ms[j]) = 4
  BY <1>3, <1>4, <1>5, <1>7
<1> HIDE DEF off
<1>11. /\ q \in Seq(Token) /\ Len(q) = off[3] + 1
       /\ q[1] = Char(Brace) /\ q[off[3] + 1] = Char(EndBrace)
       /\ \A k \in 1 .. 3 : \A i \in 1 .. Len(ms[k]) :
              off[k - 1] + i # 1 => q[off[k - 1] + i] = ms[k][i]
  <2>1. PICK n \in Nat \ {0} : n = 3
    OBVIOUS
  <2>2. n = Len(ms) /\ Len(ms[1]) # 0
    <3>1. n = Len(ms)
      BY ONLY <1>7, <2>1
    <3>2. Len(ms[1]) # 0
      BY <1>3, <1>7
    <3>. QED  BY <3>1, <3>2
  <2>3. /\ off \in [0 .. n -> Nat] /\ off[0] = 0
        /\ \A j \in 1 .. n : off[j] = off[j - 1] + Len(ms[j])
    BY <1>9, <1>10, <2>1
  <2>4. /\ q \in Seq(Token) /\ Len(q) = off[n] + 1
        /\ q[1] = Char(Brace) /\ q[off[n] + 1] = Char(EndBrace)
        /\ \A k \in 1 .. n : \A i \in 1 .. Len(ms[k]) :
               off[k - 1] + i # 1 => q[off[k - 1] + i] = ms[k][i]
    <3>1. ms \in Seq(Seq(Token))
      BY <1>7
    <3>. QED  BY ONLY n \in Nat \ {0}, <2>2, <2>3, <3>1, ObjectAt DEF q
  <2>. QED  BY <2>1, <2>4
<1> HIDE DEF q
<1>12. /\ \A i \in 1 .. 4 : off[0] + i # 1 => q[off[0] + i] = m1[i]
       /\ \A i \in 1 .. 4 : off[1] + i # 1 => q[off[1] + i] = m2[i]
       /\ \A i \in 1 .. 4 : off[2] + i # 1 => q[off[2] + i] = m3[i]
  <2>1. \A k \in 0 .. 2 : \A i \in 1 .. 4 : off[k] + i # 1 => q[off[k] + i] = ms[k + 1][i]
    <3> SUFFICES ASSUME NEW k \in 0 .. 2, NEW i \in 1 .. 4, off[k] + i # 1
                 PROVE  q[off[k] + i] = ms[k + 1][i]
      OBVIOUS
    <3>1. PICK j \in 1 .. 3 : j = k + 1 /\ j - 1 = k
      OBVIOUS
    <3>2. Len(ms[j]) = 4
      BY <1>10
    <3>. QED  BY <1>11, <3>1, <3>2
  <2>. QED  BY <1>7, <2>1
<1>13. /\ q[2] = m1[2] /\ q[3] = m1[3] /\ q[4] = m1[4]
       /\ q[5] = m2[1] /\ q[6] = m2[2] /\ q[7] = m2[3] /\ q[8] = m2[4]
       /\ q[9] = m3[1] /\ q[10] = m3[2] /\ q[11] = m3[3] /\ q[12] = m3[4]
  BY <1>9, <1>12
<1>14. Len(q) = 13 /\ q[1] = Char(Brace) /\ q[13] = Char(EndBrace)
  BY <1>9, <1>11
<1>15. TranTokens(q, 0, t)
  BY <1>3, <1>4, <1>5, <1>13, <1>14 DEF TranTokens
<1>. QED  BY <1>6, <1>11, <1>14, <1>15 DEF q

\* A piece of the text has its tokens wherever it is.
LEMMA TranShift ==
    ASSUME NEW q, NEW p, NEW w, NEW t, At(q, p, w), Len(w) = 13, TranTokens(w, 0, t)
    PROVE  TranTokens(q, p, t)
<1>1. p \in Nat /\ \A i \in 1 .. 13 : q[p + i] = w[i]
  BY DEF At
<1>. QED  BY <1>1 DEF TranTokens

-----------------------------------------------------------------------------
(* The layout of the file.                                                 *)

\* The length of the first j characters of a name, as they are written.
NameOff(s, j) == Len(Joined([i \in DOMAIN s |-> Escaped(s[i])], j))

NameLen(a) == NameOff(a.name, Len(a.name)) + 2

Byte == 1 .. 255

\* What a byte becomes, by its kind: two characters, the six of a control
\* character, the ten of a negative char, or itself.
EscapedAs(b, e) ==
    /\ e \in Seq(Int) /\ Len(e) \in {1, 2, 6, 10}
    /\ b \in {Quote, Backslash} \cup DOMAIN Short =>
           /\ Len(e) = 2 /\ e[1] = Backslash
           /\ e[2] = IF b \in DOMAIN Short THEN Short[b] ELSE b
    /\ b < 32 /\ b \notin DOMAIN Short =>
           /\ Len(e) = 6 /\ e[1] = Backslash /\ e[2] = 117 /\ e[3] = 48 /\ e[4] = 48
           /\ e[5] = HexDigit(b \div 16) /\ e[6] = HexDigit(b % 16)
    /\ b >= 128 =>
           /\ Len(e) = 10 /\ e[1] = Backslash /\ e[2] = 117
           /\ \A i \in 3 .. 8 : e[i] = 102
           /\ e[9] = HexDigit(b \div 16) /\ e[10] = HexDigit(b % 16)
    /\ b \in 32 .. 127 \ {Quote, Backslash} => Len(e) = 1 /\ e[1] = b

\* The five characters with a letter of their own.
LEMMA ShortIs ==
    /\ DOMAIN Short = {8, 9, 10, 12, 13}
    /\ Short[8] = 98 /\ Short[9] = 116 /\ Short[10] = 110 /\ Short[12] = 102 /\ Short[13] = 114
  BY DEF Short

\* The hexadecimal digits.
LEMMA HexDigitIs ==
    \A d \in 0 .. 15 : HexDigit(d) \in 48 .. 57 \cup 97 .. 102
  BY DEF HexDigit

\* The digits of a byte.
LEMMA DigitsOf ==
    ASSUME NEW b \in Byte
    PROVE  /\ b \div 16 \in 0 .. 15 /\ b % 16 \in 0 .. 15 /\ 16 * (b \div 16) + (b % 16) = b
           /\ b < 32 => b \div 16 \in 0 .. 1
<1>1. PICK m \in Nat \ {0} : m = 16
  OBVIOUS
<1>2. b \in Int /\ b \in 1 .. 255
  BY DEF Byte
<1> DEFINE q == b \div m
           r == b % m
<1>3. b = m * q + r /\ q \in Int
  BY <1>2
<1>4. r \in 0 .. m - 1
  BY <1>2, ModRange
<1> HIDE DEF q, r
<1>5. b = 16 * q + r /\ r \in 0 .. 15
  BY <1>1, <1>3, <1>4
<1>6. q \in 0 .. 15 /\ (b < 32 => q \in 0 .. 1)
  BY <1>2, <1>3, <1>5
<1>7. q = b \div 16 /\ r = b % 16
  BY <1>1 DEF q, r
<1>. QED  BY <1>2, <1>5, <1>6, <1>7

\* %04x of a char.
LEMMA HexIs ==
    ASSUME NEW b \in Byte
    PROVE  /\ Hex(b) \in Seq(Int)
           /\ b < 128 => /\ Len(Hex(b)) = 4 /\ Hex(b)[1] = 48 /\ Hex(b)[2] = 48
                         /\ Hex(b)[3] = HexDigit(b \div 16) /\ Hex(b)[4] = HexDigit(b % 16)
           /\ b >= 128 => /\ Len(Hex(b)) = 8 /\ \A i \in 1 .. 6 : Hex(b)[i] = 102
                          /\ Hex(b)[7] = HexDigit(b \div 16) /\ Hex(b)[8] = HexDigit(b % 16)
<1> DEFINE x == HexDigit(b \div 16)
           y == HexDigit(b % 16)
           t == <<x, y>>
           z == <<48, 48>>
           f == [d \in 1 .. 6 |-> HexDigit(15)]
<1>1. x \in Int /\ y \in Int /\ HexDigit(15) = 102
  <2>1. HexDigit(b \div 16) \in 48 .. 57 \cup 97 .. 102 /\ HexDigit(b % 16) \in 48 .. 57 \cup 97 .. 102
    BY DigitsOf, HexDigitIs
  <2>2. HexDigit(15) = 102
    BY DEF HexDigit
  <2>. QED  BY <2>1, <2>2
<1> HIDE DEF x, y
<1>2. t \in Seq(Int) /\ Len(t) = 2 /\ t[1] = x /\ t[2] = y
  BY <1>1
<1>3. z \in Seq(Int) /\ Len(z) = 2 /\ z[1] = 48 /\ z[2] = 48
  OBVIOUS
<1>4. f \in Seq(Int) /\ Len(f) = 6 /\ \A i \in 1 .. 6 : f[i] = 102
  BY <1>1
<1>5. Hex(b) = (IF b < 128 THEN z ELSE f) \o t
  BY DEF Hex, x, y
<1> HIDE DEF t, z, f
<1>6. /\ z \o t \in Seq(Int) /\ Len(z \o t) = 4
      /\ (z \o t)[1] = 48 /\ (z \o t)[2] = 48 /\ (z \o t)[3] = x /\ (z \o t)[4] = y
  <2>1. /\ z \o t \in Seq(Int) /\ Len(z \o t) = Len(z) + Len(t)
        /\ At(z \o t, 0, z) /\ At(z \o t, Len(z), t)
    BY <1>2, <1>3, ConcatAt
  <2>2. Len(z \o t) = 4 /\ At(z \o t, 2, t)
    BY <1>2, <1>3, <2>1
  <2>. QED  BY <1>2, <1>3, <2>1, <2>2 DEF At
<1> DEFINE w == f \o t
<1>7. /\ w \in Seq(Int) /\ Len(w) = Len(f) + Len(t)
      /\ At(w, 0, f) /\ At(w, Len(f), t)
  BY <1>2, <1>4, ConcatAt
<1>10. Hex(b) = IF b < 128 THEN z \o t ELSE w
  BY <1>5
<1> HIDE DEF w
<1>11. Len(w) = 6 + 2 /\ At(w, 6, t)
  BY ONLY <1>2, <1>4, <1>7
<1>12. \A i \in 1 .. 6 : w[i] = 102
  <2>1. ASSUME NEW i \in 1 .. 6
        PROVE  w[i] = 102
    <3>1. i \in 1 .. Len(f) /\ 0 + i = i /\ f[i] = 102
      BY <1>4
    <3>2. w[0 + i] = f[i]
      BY <1>7, <3>1 DEF At
    <3>. QED  BY <3>1, <3>2
  <2>. QED  BY <2>1
<1>13. w[7] = x /\ w[8] = y
  BY <1>2, <1>11 DEF At
<1>8. CASE b < 128
  <2>1. Hex(b) = z \o t /\ ~ (b >= 128)
    BY <1>5, <1>8 DEF Byte
  <2>. QED  BY <1>6, <2>1 DEF x, y
<1>9. CASE ~ (b < 128)
  <2>1. Hex(b) = w
    BY <1>9, <1>10
  <2>2. /\ w \in Seq(Int) /\ Len(w) = 8 /\ \A i \in 1 .. 6 : w[i] = 102
        /\ w[7] = HexDigit(b \div 16) /\ w[8] = HexDigit(b % 16)
    <3>1. w \in Seq(Int)
      BY <1>7
    <3>2. Len(w) = 8
      BY <1>11
    <3>3. w[7] = HexDigit(b \div 16) /\ w[8] = HexDigit(b % 16)
      BY <1>13 DEF x, y
    <3>. QED  BY ONLY <1>12, <3>1, <3>2, <3>3
  <2>. QED  BY <1>9, <2>1, <2>2
<1>. QED  BY <1>8, <1>9

\* Escaped is of its kind.
LEMMA EscapedIs ==
    ASSUME NEW b \in Byte
    PROVE  EscapedAs(b, Escaped(b))
<1>1. CASE b \in {Quote, Backslash}
  <2>1. Escaped(b) = <<Backslash, b>> /\ b \in Int
    BY <1>1, ShortIs DEF Escaped, Byte, Quote, Backslash
  <2>. QED  BY <1>1, <2>1, ShortIs DEF EscapedAs, Quote, Backslash
<1>2. CASE b \in DOMAIN Short
  <2>1. b \notin {Quote, Backslash} /\ b < 32 /\ Short[b] \in Int
    BY <1>2, ShortIs DEF Quote, Backslash
  <2>2. Escaped(b) = <<Backslash, Short[b]>>
    BY <1>2, <2>1 DEF Escaped
  <2>. QED  BY <1>2, <2>1, <2>2 DEF EscapedAs, Quote, Backslash, Byte
<1>3. CASE b \notin DOMAIN Short /\ (b < 32 \/ b >= 128)
  <2> DEFINE h == Hex(b)
             u == <<Backslash, 117>>
  <2>1. b \notin {Quote, Backslash}
    BY <1>3 DEF Quote, Backslash
  <2>2. Escaped(b) = u \o h
    BY <1>3, <2>1 DEF Escaped
  <2>3. u \in Seq(Int) /\ Len(u) = 2 /\ u[1] = Backslash /\ u[2] = 117
    BY DEF Backslash
  <2>4. /\ h \in Seq(Int)
        /\ b < 128 => /\ Len(h) = 4 /\ h[1] = 48 /\ h[2] = 48
                      /\ h[3] = HexDigit(b \div 16) /\ h[4] = HexDigit(b % 16)
        /\ b >= 128 => /\ Len(h) = 8 /\ \A i \in 1 .. 6 : h[i] = 102
                       /\ h[7] = HexDigit(b \div 16) /\ h[8] = HexDigit(b % 16)
    BY HexIs
  <2> HIDE DEF h, u
  <2> DEFINE e == u \o h
  <2>5. /\ e \in Seq(Int) /\ Len(e) = 2 + Len(h)
        /\ At(e, 0, u) /\ At(e, 2, h)
    <3>1. /\ e \in Seq(Int) /\ Len(e) = Len(u) + Len(h)
          /\ At(e, 0, u) /\ At(e, Len(u), h)
      BY <2>3, <2>4, ConcatAt
    <3>. QED  BY <2>3, <3>1
  <2> HIDE DEF e
  <2>6. e[1] = Backslash /\ e[2] = 117
    BY <2>3, <2>5 DEF At
  <2>7. CASE b < 128
    <3>0. Len(h) = 4
      BY <2>4, <2>7
    <3>1. Len(e) = 2 + 4
      BY ONLY <2>5, <3>0
    <3>2. e[3] = h[1] /\ e[4] = h[2] /\ e[5] = h[3] /\ e[6] = h[4]
      BY <2>5, <3>0 DEF At
    <3>3. b < 32
      BY <1>3, <2>7 DEF Byte
    <3>4. EscapedAs(b, e)
      <4>1. Len(e) \in {1, 2, 6, 10} /\ Len(e) = 6
        BY <3>1
      <4>2. /\ b \notin {Quote, Backslash} \cup DOMAIN Short /\ ~ (b >= 128)
            /\ b \notin 32 .. 127 \ {Quote, Backslash}
        BY <1>3, <2>1, <2>7, <3>3 DEF Byte
      <4>3. /\ e[3] = 48 /\ e[4] = 48 /\ e[5] = HexDigit(b \div 16) /\ e[6] = HexDigit(b % 16)
        BY <2>4, <2>7, <3>2
      <4>. QED  BY <2>5, <2>6, <4>1, <4>2, <4>3 DEF EscapedAs
    <3>. QED  BY <2>2, <3>4 DEF e
  <2>8. CASE b >= 128
    <3>0. Len(h) = 8 /\ \A i \in 1 .. 6 : h[i] = 102
      BY <2>4, <2>8
    <3>1. Len(e) = 2 + 8
      BY ONLY <2>5, <3>0
    <3>2. e[9] = h[7] /\ e[10] = h[8]
      BY <2>5, <3>0 DEF At
    <3>3. \A i \in 3 .. 8 : e[i] = 102
      <4>1. \A i \in 1 .. 6 : e[2 + i] = 102
        BY <2>5, <3>0 DEF At
      <4>2. \A i \in 3 .. 8 : i - 2 \in 1 .. 6 /\ 2 + (i - 2) = i
        OBVIOUS
      <4>. QED  BY <4>1, <4>2
    <3>4. ~ (b < 32) /\ b \notin 32 .. 127
      BY <2>8 DEF Byte
    <3>5. EscapedAs(b, e)
      <4>1. Len(e) \in {1, 2, 6, 10} /\ Len(e) = 10
        BY <3>1
      <4>2. /\ b \notin {Quote, Backslash} \cup DOMAIN Short
            /\ b \notin 32 .. 127 \ {Quote, Backslash}
        BY <1>3, <2>1, <3>4
      <4>3. e[9] = HexDigit(b \div 16) /\ e[10] = HexDigit(b % 16)
        BY <2>4, <2>8, <3>2
      <4>. QED  BY <2>5, <2>6, <3>3, <3>4, <4>1, <4>2, <4>3 DEF EscapedAs
    <3>. QED  BY <2>2, <3>5 DEF e
  <2>. QED  BY <2>7, <2>8 DEF Byte
<1>4. CASE b \notin {Quote, Backslash} /\ b \notin DOMAIN Short /\ ~ (b < 32 \/ b >= 128)
  <2>1. Escaped(b) = <<b>> /\ b \in Int
    BY <1>4 DEF Escaped, Byte
  <2>. QED  BY <1>4, <2>1 DEF EscapedAs, Byte
<1>. QED  BY <1>1, <1>2, <1>3, <1>4

\* The length of the transactions of an account, with commas between them.
LastLen(a) == IF Len(Kept(a)) = 0 THEN 0 ELSE 14 * Len(Kept(a)) - 1

AccountLen(a) == 25 + NameLen(a) + LastLen(a)

FieldTokens(q, p, w) == q[p + 1] = Key(w) /\ q[p + 2] = Char(Colon)

\* A name between its quotes.
NameTokens(q, p, s) ==
    /\ q[p + 1] = Char(Quote)
    /\ \A j \in 1 .. Len(s) : \A i \in 1 .. Len(Escaped(s[j])) :
           q[p + 1 + NameOff(s, j - 1) + i] = Char(Escaped(s[j])[i])
    /\ q[p + 2 + NameOff(s, Len(s))] = Char(Quote)

\* Where the characters of a name go.
LEMMA NameOffs ==
    ASSUME NEW s \in Seq(Byte)
    PROVE  LET G == [i \in DOMAIN s |-> Escaped(s[i])]
           IN  /\ G \in Seq(Seq(Int)) /\ Len(G) = Len(s)
               /\ \A j \in 1 .. Len(s) : G[j] = Escaped(s[j]) /\ G[j] \in Seq(Int)
               /\ NameOff(s, 0) = 0
               /\ \A j \in 0 .. Len(s) : NameOff(s, j) \in Nat
               /\ \A j \in 1 .. Len(s) : NameOff(s, j) = NameOff(s, j - 1) + Len(Escaped(s[j]))
<1> DEFINE G == [i \in DOMAIN s |-> Escaped(s[i])]
           n == Len(s)
<1>1. n \in Nat /\ DOMAIN s = 1 .. n /\ \A j \in 1 .. n : s[j] \in Byte
  BY LenProperties
<1>2. \A j \in 1 .. n : Escaped(s[j]) \in Seq(Int)
  BY <1>1, EscapedIs DEF EscapedAs
<1>3. /\ G \in Seq(Seq(Int)) /\ Len(G) = n
      /\ \A j \in 1 .. n : G[j] = Escaped(s[j]) /\ G[j] \in Seq(Int)
  BY <1>1, <1>2
<1>4. \A j : NameOff(s, j) = Len(Joined(G, j))
  BY DEF NameOff
<1> HIDE DEF G, n
<1>5. NameOff(s, 0) = 0
  BY <1>4, JoinedNone
<1>6. ASSUME NEW j \in 0 .. n
      PROVE  NameOff(s, j) \in Nat
  <2>1. j \in Nat /\ \A i \in 1 .. j : G[i] \in Seq(Int)
    BY <1>1, <1>3
  <2>2. Joined(G, j) \in Seq(Int)
    BY <2>1, JoinedAt
  <2>. QED  BY <1>4, <2>2, LenProperties
<1>7. ASSUME NEW j \in 1 .. n
      PROVE  NameOff(s, j) = NameOff(s, j - 1) + Len(Escaped(s[j]))
  <2> DEFINE i == j - 1
  <2>1. i \in Nat /\ j = i + 1 /\ i \in 0 .. n /\ \A k \in 1 .. j : G[k] \in Seq(Int)
    BY <1>1, <1>3
  <2>2. Len(G[j]) \in Nat /\ NameOff(s, i) \in Nat
    BY <1>3, <1>6, <2>1, LenProperties
  <2>3. Len(Joined(G, i)) = NameOff(s, i)
    BY <1>4
  <2> HIDE DEF i
  <2>4. Joined(G, j) \in Seq(Int) /\ Len(Joined(G, j)) = NameOff(s, i) + Len(G[j])
    BY ONLY <2>1, <2>2, <2>3, JoinedLen
  <2>5. G[j] = Escaped(s[j])
    BY <1>3
  <2>. QED  BY <1>4, <2>4, <2>5 DEF i
<1>. QED  BY <1>3, <1>5, <1>6, <1>7 DEF G, n

\* write_json_string: the characters between the quotes.
LEMMA NameIs ==
    ASSUME NEW s \in Seq(Byte)
    PROVE  LET q == write_json_string(s)
           IN  /\ q \in Seq(Token) /\ Len(q) = NameOff(s, Len(s)) + 2
               /\ NameTokens(q, 0, s)
               /\ \A j \in 1 .. Len(s) : \A i \in 1 .. Len(Escaped(s[j])) :
                      1 + NameOff(s, j - 1) + i \in 1 .. Len(q)
<1> DEFINE G == [i \in DOMAIN s |-> Escaped(s[i])]
           n == Len(s)
           F == FlattenSeq(G)
           x == <<Quote>>
           y == (x \o F) \o x
<1>1. /\ G \in Seq(Seq(Int)) /\ Len(G) = n /\ n \in Nat
      /\ \A j \in 1 .. n : G[j] = Escaped(s[j]) /\ G[j] \in Seq(Int)
      /\ \A j \in 0 .. n : NameOff(s, j) \in Nat
  BY NameOffs, LenProperties
<1>2. \A j : NameOff(s, j) = Len(Joined(G, j))
  BY DEF NameOff
<1>3. write_json_string(s) = Chars(y)
  BY DEF write_json_string
<1>4. x \in Seq(Int) /\ Len(x) = 1 /\ x[1] = Quote
  BY DEF Quote
<1> HIDE DEF G, n, x
<1>5. F = Joined(G, n) /\ F \in Seq(Int) /\ Len(F) = NameOff(s, n)
      /\ \A j \in 1 .. n : At(F, NameOff(s, j - 1), G[j])
  <2>1. F = Joined(G, n)
    BY <1>1, JoinedAll
  <2>2. /\ Joined(G, n) \in Seq(Int)
        /\ \A j \in 1 .. n : At(Joined(G, n), Len(Joined(G, j - 1)), G[j])
    BY <1>1, JoinedAt
  <2>. QED  BY <1>2, <2>1, <2>2
<1> HIDE DEF F
<1>6. /\ y \in Seq(Int) /\ Len(y) = Len(x) + Len(F) + Len(x)
      /\ At(y, 0, x) /\ At(y, Len(x), F) /\ At(y, Len(x) + Len(F), x)
  <2>1. x \in Seq(Int) /\ F \in Seq(Int)
    BY <1>4, <1>5
  <2>2. LET q == (x \o F) \o x
        IN  /\ q \in Seq(Int) /\ Len(q) = Len(x) + Len(F) + Len(x)
            /\ At(q, 0, x) /\ At(q, Len(x), F) /\ At(q, Len(x) + Len(F), x)
    BY ONLY <2>1, ThreeAt
  <2>. QED  BY <2>2
<1> DEFINE m == NameOff(s, n)
<1>7. m \in Nat /\ Len(F) = m
  BY <1>1, <1>5
<1> HIDE DEF y, m
<1>8. /\ Len(y) = m + 2 /\ At(y, 1, F) /\ At(y, 1 + m, x)
  BY ONLY <1>4, <1>6, <1>7
<1>9. /\ Chars(y) \in Seq(Token) /\ Len(Chars(y)) = m + 2
      /\ \A i \in 1 .. m + 2 : Chars(y)[i] = Char(y[i])
  BY <1>6, <1>8, CharsAre
<1> DEFINE c == Chars(y)
<1> HIDE DEF c
<1>10. c[1] = Char(Quote) /\ c[2 + m] = Char(Quote)
  <2>1. y[0 + 1] = Quote /\ y[1 + m + 1] = Quote
    BY <1>4, <1>6, <1>8 DEF At
  <2>2. 1 \in 1 .. m + 2 /\ m + 2 \in 1 .. m + 2
    BY <1>7
  <2>. QED  BY <1>7, <1>9, <2>1, <2>2 DEF c
<1>11. ASSUME NEW j \in 1 .. n, NEW i \in 1 .. Len(Escaped(s[j]))
       PROVE  /\ c[1 + NameOff(s, j - 1) + i] = Char(Escaped(s[j])[i])
              /\ 1 + NameOff(s, j - 1) + i \in 1 .. m + 2
  <2> DEFINE k == NameOff(s, j - 1)
             g == G[j]
  <2>1. At(F, k, g) /\ g = Escaped(s[j]) /\ g \in Seq(Int) /\ Len(g) \in Nat
    BY <1>1, <1>5, LenProperties
  <2> HIDE DEF k, g
  <2>2. k \in Nat /\ k + Len(g) <= m /\ F[k + i] = g[i] /\ i \in 1 .. Len(g)
    BY <1>7, <2>1 DEF At
  <2>3. k + i \in 1 .. m /\ 1 + k + i \in 1 .. m + 2 /\ 1 + (k + i) = 1 + k + i
    BY <1>7, <2>1, <2>2
  <2>4. y[1 + (k + i)] = F[k + i]
    BY <1>7, <1>8, <2>3 DEF At
  <2>5. c[1 + k + i] = Char(g[i])
    BY <1>9, <2>2, <2>3, <2>4 DEF c
  <2>. QED  BY <2>1, <2>3, <2>5 DEF k
<1>12. NameTokens(c, 0, s)
  <2>1. \A j \in 1 .. Len(s) : \A i \in 1 .. Len(Escaped(s[j])) :
            c[0 + 1 + NameOff(s, j - 1) + i] = Char(Escaped(s[j])[i])
    <3> SUFFICES ASSUME NEW j \in 1 .. Len(s), NEW i \in 1 .. Len(Escaped(s[j]))
                 PROVE  c[0 + 1 + NameOff(s, j - 1) + i] = Char(Escaped(s[j])[i])
      OBVIOUS
    <3>1. c[1 + NameOff(s, j - 1) + i] = Char(Escaped(s[j])[i])
      BY <1>11 DEF n
    <3>2. 0 + 1 = 1
      OBVIOUS
    <3>. QED  BY <3>1, <3>2
  <2>2. c[0 + 1] = Char(Quote) /\ c[0 + 2 + NameOff(s, Len(s))] = Char(Quote)
    BY <1>10 DEF m, n
  <2>. QED  BY <2>1, <2>2 DEF NameTokens
<1>13. c \in Seq(Token) /\ Len(c) = m + 2
  BY <1>9 DEF c
<1>14. \A j \in 1 .. n : \A i \in 1 .. Len(Escaped(s[j])) : 1 + NameOff(s, j - 1) + i \in 1 .. Len(c)
  BY <1>11, <1>13
<1>. QED  BY <1>3, <1>12, <1>13, <1>14 DEF c, m, n

\* Wherever they are.
LEMMA NameShift ==
    ASSUME NEW s \in Seq(Byte), NEW q, NEW p, At(q, p, write_json_string(s))
    PROVE  NameTokens(q, p, s)
<1> DEFINE w == write_json_string(s)
           m == NameOff(s, Len(s))
<1>1. /\ Len(w) = m + 2 /\ m \in Nat /\ NameTokens(w, 0, s)
      /\ \A j \in 1 .. Len(s) : \A i \in 1 .. Len(Escaped(s[j])) :
             1 + NameOff(s, j - 1) + i \in 1 .. Len(w)
  <2>1. Len(s) \in 0 .. Len(s)
    BY LenProperties
  <2>. QED  BY <2>1, NameIs, NameOffs
<1>2. p \in Nat /\ \A i \in 1 .. Len(w) : q[p + i] = w[i]
  BY DEF At
<1> HIDE DEF w
<1>3. q[p + 1] = Char(Quote) /\ q[p + 2 + m] = Char(Quote)
  <2>1. w[1] = Char(Quote) /\ w[2 + m] = Char(Quote)
    BY <1>1 DEF NameTokens
  <2> HIDE DEF m
  <2>2. 1 \in 1 .. m + 2 /\ 2 + m \in 1 .. m + 2 /\ p + (2 + m) = p + 2 + m
    BY <1>1, <1>2
  <2>. QED  BY <1>1, <1>2, <2>1, <2>2
<1>4. ASSUME NEW j \in 1 .. Len(s), NEW i \in 1 .. Len(Escaped(s[j]))
      PROVE  q[p + 1 + NameOff(s, j - 1) + i] = Char(Escaped(s[j])[i])
  <2> DEFINE k == NameOff(s, j - 1)
  <2>1. k \in Nat
    <3>1. \A l \in 0 .. Len(s) : NameOff(s, l) \in Nat
      BY NameOffs
    <3>2. j - 1 \in 0 .. Len(s)
      BY LenProperties
    <3>. QED  BY <3>1, <3>2
  <2>2. 1 + k + i \in 1 .. Len(w) /\ w[0 + 1 + k + i] = Char(Escaped(s[j])[i])
    BY <1>1 DEF NameTokens
  <2> HIDE DEF k
  <2>3. p + (1 + k + i) = p + 1 + k + i /\ 0 + 1 + k + i = 1 + k + i
    BY <1>2, <2>1
  <2>. QED  BY <1>2, <2>2, <2>3 DEF k
<1>. QED  BY <1>3, <1>4 DEF NameTokens, m

\* The transactions after place p.
LastTokens(q, p, a) ==
    \A r \in 0 .. Len(Kept(a)) - 1 :
        /\ At(q, p + 14 * r, write_transaction_json(Kept(a)[r + 1]))
        /\ r # 0 => q[p + 14 * r] = Char(Comma)

\* The elements of an array: each but the first has a comma before it.
LEMMA ElementsAre ==
    ASSUME NEW objs \in Seq(Seq(Token))
    PROVE  LET G == [j \in DOMAIN objs |-> IF j = 1 THEN objs[j] ELSE Chars(<<Comma>>) \o objs[j]]
           IN  /\ Elements(objs) = Joined(G, Len(objs))
               /\ \A j \in 1 .. Len(objs) :
                      /\ G[j] \in Seq(Token)
                      /\ j = 1 => G[j] = objs[j]
                      /\ j # 1 => /\ Len(G[j]) = 1 + Len(objs[j]) /\ G[j][1] = Char(Comma)
                                  /\ At(G[j], 1, objs[j])
<1> DEFINE c == Chars(<<Comma>>)
           n == Len(objs)
           G == [j \in DOMAIN objs |-> IF j = 1 THEN objs[j] ELSE c \o objs[j]]
<1>1. c \in Seq(Token) /\ Len(c) = 1 /\ c[1] = Char(Comma)
  BY OneChar DEF Comma
<1>2. n \in Nat /\ DOMAIN objs = 1 .. n /\ \A j \in 1 .. n : objs[j] \in Seq(Token)
  BY LenProperties
<1>3. Elements(objs) = FlattenSeq(G)
  BY DEF Elements
<1> HIDE DEF c, n
<1>4. \A j \in 1 .. n : G[j] = IF j = 1 THEN objs[j] ELSE c \o objs[j]
  BY <1>2
<1>5. ASSUME NEW j \in 1 .. n
      PROVE  /\ c \o objs[j] \in Seq(Token) /\ Len(c \o objs[j]) = 1 + Len(objs[j])
             /\ (c \o objs[j])[1] = Char(Comma) /\ At(c \o objs[j], 1, objs[j])
  <2> DEFINE o == objs[j]
             w == c \o o
  <2>1. o \in Seq(Token)
    BY <1>2
  <2> HIDE DEF o
  <2>2. /\ w \in Seq(Token) /\ Len(w) = Len(c) + Len(o)
        /\ At(w, 0, c) /\ At(w, Len(c), o)
    BY <1>1, <2>1, ConcatAt
  <2> HIDE DEF w
  <2>3. Len(w) = 1 + Len(o) /\ At(w, 1, o)
    BY ONLY <1>1, <2>2
  <2>4. w[0 + 1] = c[1]
    BY <1>1, <2>2 DEF At
  <2>. QED  BY <1>1, <2>2, <2>3, <2>4 DEF w, o
<1>6. \A j \in 1 .. n : G[j] \in Seq(Token)
  BY <1>2, <1>4, <1>5
<1>7. G \in Seq(Seq(Token)) /\ Len(G) = n
  <2>1. G = [j \in 1 .. n |-> G[j]]
    BY <1>2
  <2> HIDE DEF G
  <2>2. [j \in 1 .. n |-> G[j]] \in Seq(Seq(Token)) /\ Len([j \in 1 .. n |-> G[j]]) = n
    BY <1>2, <1>6
  <2>. QED  BY <2>1, <2>2
<1> HIDE DEF G
<1>8. Elements(objs) = Joined(G, n)
  BY <1>3, <1>7, JoinedAll
<1>9. \A j \in 1 .. n :
          /\ j = 1 => G[j] = objs[j]
          /\ j # 1 => /\ Len(G[j]) = 1 + Len(objs[j]) /\ G[j][1] = Char(Comma)
                      /\ At(G[j], 1, objs[j])
  BY <1>4, <1>5
<1>. QED  BY <1>6, <1>8, <1>9 DEF G, n, c

\* An account, as a save writes it and as a load makes it.
Rings(a) == a.ntran \in Nat /\ a.last \in [Ring -> Tran]

\* No more than TRANS_KEEP transactions are written.
LEMMA KeptSize ==
    ASSUME NEW a, Rings(a)
    PROVE  /\ Kept(a) \in Seq(Tran) /\ Len(Kept(a)) \in 0 .. TRANS_KEEP
           /\ DOMAIN Kept(a) = 1 .. Len(Kept(a))
<1> DEFINE start == IF a.ntran > TRANS_KEEP THEN a.ntran - TRANS_KEEP ELSE 0
           n == a.ntran - start
           K == [k \in 1 .. n |-> a.last[(start + k - 1) % TRANS_KEEP]]
<1>1. start \in Nat /\ n \in 0 .. TRANS_KEEP
  BY BankAssumption DEF Rings
<1>2. ASSUME NEW k \in 1 .. n
      PROVE  a.last[(start + k - 1) % TRANS_KEEP] \in Tran
  <2>1. start + k - 1 \in Int /\ TRANS_KEEP \in Nat \ {0}
    BY <1>1, BankAssumption
  <2>2. (start + k - 1) % TRANS_KEEP \in Ring
    BY <2>1, ModRange DEF Ring
  <2>. QED  BY <2>2 DEF Rings
<1> HIDE DEF start, n
<1>3. K \in Seq(Tran) /\ Len(K) = n /\ DOMAIN K = 1 .. n
  BY <1>1, <1>2
<1>4. Kept(a) = K
  BY DEF Kept, start, n
<1>. QED  BY <1>1, <1>3, <1>4

\* The place of the comma before transaction r, or of the end of the last one.
LEMMA LastIs ==
    ASSUME NEW a, Rings(a)
    PROVE  LET K == Kept(a)
               q == Elements([j \in DOMAIN K |-> write_transaction_json(K[j])])
           IN  /\ q \in Seq(Token) /\ Len(q) = LastLen(a)
               /\ LastTokens(q, 0, a)
<1> DEFINE K == Kept(a)
           n == Len(K)
           T == [j \in DOMAIN K |-> write_transaction_json(K[j])]
           q == Elements(T)
<1>1. n \in Nat /\ DOMAIN K = 1 .. n /\ \A j \in 1 .. n : K[j] \in Tran
  BY KeptSize, BankAssumption
<1>2. \A j \in 1 .. n : /\ write_transaction_json(K[j]) \in Seq(Token)
                        /\ Len(write_transaction_json(K[j])) = 13
  BY <1>1, TranIs
<1> HIDE DEF n
<1>3. /\ T \in Seq(Seq(Token)) /\ Len(T) = n
      /\ \A j \in 1 .. n : /\ T[j] \in Seq(Token) /\ Len(T[j]) = 13
                           /\ T[j] = write_transaction_json(K[j])
  BY <1>1, <1>2
<1> HIDE DEF T, K
<1> DEFINE G == [j \in DOMAIN T |-> IF j = 1 THEN T[j] ELSE Chars(<<Comma>>) \o T[j]]
<1>4. /\ q = Joined(G, n)
      /\ \A j \in 1 .. n :
             /\ G[j] \in Seq(Token)
             /\ j = 1 => G[j] = T[j]
             /\ j # 1 => /\ Len(G[j]) = 1 + Len(T[j]) /\ G[j][1] = Char(Comma)
                         /\ At(G[j], 1, T[j])
  BY <1>3, ElementsAre
<1> HIDE DEF G, q
<1> DEFINE off == [k \in 0 .. n |-> IF k = 0 THEN 0 ELSE 14 * k - 1]
<1>5. /\ off \in [0 .. n -> Nat] /\ off[0] = 0
      /\ \A j \in 1 .. n : off[j] = 14 * j - 1
      /\ off[n] = IF n = 0 THEN 0 ELSE 14 * n - 1
      /\ \A j \in 1 .. n : off[j] = off[j - 1] + (IF j = 1 THEN 13 ELSE 14)
  BY <1>1
<1>6. \A j \in 1 .. n : Len(G[j]) = IF j = 1 THEN 13 ELSE 14
  <2> SUFFICES ASSUME NEW j \in 1 .. n
               PROVE  Len(G[j]) = IF j = 1 THEN 13 ELSE 14
    OBVIOUS
  <2>1. CASE j = 1
    BY <1>3, <1>4, <2>1
  <2>2. CASE j # 1
    <3>1. Len(G[j]) = 1 + Len(T[j])
      BY <1>4, <2>2
    <3>2. Len(T[j]) = 13
      BY <1>3
    <3>3. Len(G[j]) = 1 + 13
      BY ONLY <3>1, <3>2
    <3>. QED  BY <2>2, <3>3
  <2>. QED  BY <2>1, <2>2
<1> HIDE DEF off
<1>7. /\ off \in [0 .. n -> Nat] /\ off[0] = 0
      /\ \A j \in 1 .. n : off[j] = off[j - 1] + Len(G[j])
      /\ \A j \in 1 .. n : G[j] \in Seq(Token)
  BY <1>4, <1>5, <1>6
<1>8. /\ Joined(G, n) \in Seq(Token) /\ Len(Joined(G, n)) = off[n]
      /\ \A k \in 1 .. n : At(Joined(G, n), off[k - 1], G[k])
  BY ONLY <1>1, <1>7, JoinedOffsets
<1>9. q \in Seq(Token) /\ Len(q) = LastLen(a)
  BY <1>4, <1>5, <1>8 DEF LastLen, n, K
<1>10. ASSUME NEW r \in 0 .. n - 1
       PROVE  /\ At(q, 14 * r, write_transaction_json(K[r + 1]))
              /\ r # 0 => q[14 * r] = Char(Comma)
  <2> DEFINE k == r + 1
  <2>1. k \in 1 .. n /\ k - 1 = r /\ k \in Nat
    BY <1>1
  <2> HIDE DEF k
  <2>2. At(q, off[k - 1], G[k])
    BY <1>4, <1>8, <2>1
  <2>5. /\ r = 0 => off[k - 1] = 0
        /\ r # 0 => off[k - 1] = 14 * r - 1
    <3>1. r # 0 => r \in 1 .. n
      BY <1>1
    <3>. QED  BY <1>5, <2>1, <3>1
  <2>3. At(q, 14 * r, T[k]) /\ (r # 0 => q[14 * r] = Char(Comma))
    <3>1. CASE r = 0
      BY <1>4, <2>1, <2>2, <2>5, <3>1
    <3>2. CASE r # 0
      <4> DEFINE p == 14 * r - 1
                 g == G[k]
                 t == T[k]
      <4>1. p \in Nat /\ p + 1 = 14 * r
        BY <1>1, <3>2
      <4>2. At(q, p, g) /\ g \in Seq(Token) /\ g[1] = Char(Comma) /\ Len(g) = 14
            /\ At(g, 1, t) /\ t \in Seq(Token)
        <5>1. k # 1
          BY <2>1, <3>2
        <5>. QED  BY <1>3, <1>4, <1>6, <2>1, <2>2, <2>5, <3>2, <5>1
      <4> HIDE DEF p, g, t
      <4>3. At(q, p + 1, t)
        BY ONLY <1>9, <4>2, AtTrans
      <4>4. q[p + 1] = Char(Comma)
        BY <4>2 DEF At
      <4>. QED  BY <4>1, <4>3, <4>4 DEF t
    <3>. QED  BY <3>1, <3>2
  <2>4. At(q, 14 * r, write_transaction_json(K[k]))
    BY <1>3, <2>1, <2>3
  <2>. QED  BY <2>3, <2>4 DEF k
<1>. QED  BY <1>9, <1>10 DEF LastTokens, K, n, q, T

\* Wherever they are.
LEMMA LastShift ==
    ASSUME NEW a, Rings(a), NEW q \in Seq(Token), NEW p, NEW w \in Seq(Token), At(q, p, w),
           NEW o \in Nat, LastTokens(w, o, a), NEW b, b = p + o
    PROVE  LastTokens(q, b, a)
<1> DEFINE n == Len(Kept(a))
<1>1. n \in Nat /\ \A j \in 1 .. n : Kept(a)[j] \in Tran
  BY KeptSize, BankAssumption
<1>2. p \in Nat /\ b \in Nat /\ \A i \in 1 .. Len(w) : q[p + i] = w[i]
  BY DEF At
<1>3. ASSUME NEW r \in 0 .. n - 1
      PROVE  /\ At(q, b + 14 * r, write_transaction_json(Kept(a)[r + 1]))
             /\ r # 0 => q[b + 14 * r] = Char(Comma)
  <2> DEFINE c == o + 14 * r
             t == Kept(a)[r + 1]
             v == write_transaction_json(t)
  <2>1. c \in Nat /\ (r # 0 => c \in Nat \ {0}) /\ t \in Tran /\ b + 14 * r = p + c
    BY <1>1, <1>2
  <2>2. At(w, c, v)
    BY DEF LastTokens
  <2>3. r # 0 => w[c] = Char(Comma)
    BY DEF LastTokens
  <2>4. v \in Seq(Token)
    BY <2>1, TranIs
  <2> HIDE DEF c, t, v
  <2>5. At(q, p + c, v)
    BY <2>2, <2>4, AtTrans
  <2>6. ASSUME r # 0
        PROVE  q[p + c] = Char(Comma)
    <3>1. c \in 1 .. Len(w)
      BY <2>1, <2>2, <2>4, <2>6, LenProperties DEF At
    <3>. QED  BY <1>2, <2>3, <2>6, <3>1
  <2>. QED  BY <2>1, <2>5, <2>6 DEF t, v
<1>. QED  BY <1>3 DEF LastTokens, n

AccountTokens(q, p, a) ==
    /\ q[p + 1] = Char(Brace)
    /\ FieldTokens(q, p + 1, "number") /\ q[p + 4] = Num(a.number)
    /\ q[p + 5] = Char(Comma) /\ FieldTokens(q, p + 5, "pin") /\ q[p + 8] = Num(a.pin)
    /\ q[p + 9] = Char(Comma) /\ FieldTokens(q, p + 9, "name")
    /\ NameTokens(q, p + 11, a.name)
    /\ LET n == p + NameLen(a)
       IN  /\ q[n + 12] = Char(Comma) /\ FieldTokens(q, n + 12, "balance")
           /\ q[n + 15] = Num(a.balance)
           /\ q[n + 16] = Char(Comma) /\ FieldTokens(q, n + 16, "ntran")
           /\ q[n + 19] = Num(a.ntran)
           /\ q[n + 20] = Char(Comma) /\ FieldTokens(q, n + 20, "last")
           /\ q[n + 23] = Char(Bracket)
           /\ LastTokens(q, n + 23, a)
           /\ q[n + 24 + LastLen(a)] = Char(EndBracket)
           /\ q[n + 25 + LastLen(a)] = Char(EndBrace)

Writable(a) ==
    /\ Rings(a) /\ a.number \in Int /\ a.pin \in Int /\ a.balance \in Int
    /\ a.name \in Seq(Byte)

ArrayText(a) ==
    LET K == Kept(a)
    IN  Chars(<<Bracket>>) \o Elements([j \in DOMAIN K |-> write_transaction_json(K[j])])
            \o Chars(<<EndBracket>>)

\* The array of an account's transactions.
LEMMA ArrayIs ==
    ASSUME NEW a, Rings(a)
    PROVE  LET q == ArrayText(a)
           IN  /\ q \in Seq(Token) /\ Len(q) = LastLen(a) + 2 /\ LastLen(a) \in Nat
               /\ q[1] = Char(Bracket) /\ LastTokens(q, 1, a)
               /\ q[LastLen(a) + 2] = Char(EndBracket)
<1> DEFINE x == Chars(<<Bracket>>)
           y == Chars(<<EndBracket>>)
           K == Kept(a)
           E == Elements([j \in DOMAIN K |-> write_transaction_json(K[j])])
           q == (x \o E) \o y
           e == LastLen(a)
<1>1. /\ x \in Seq(Token) /\ Len(x) = 1 /\ x[1] = Char(Bracket)
      /\ y \in Seq(Token) /\ Len(y) = 1 /\ y[1] = Char(EndBracket)
  BY OneChar DEF Bracket, EndBracket
<1>2. E \in Seq(Token) /\ Len(E) = e /\ LastTokens(E, 0, a)
  BY LastIs
<1>3. ArrayText(a) = q
  BY DEF ArrayText
<1>4. e \in Nat
  <2>1. Len(Kept(a)) \in Nat
    BY KeptSize, BankAssumption
  <2>. QED  BY <2>1 DEF LastLen
<1> HIDE DEF x, y, E, e
<1>5. LET w == (x \o E) \o y
      IN  /\ w \in Seq(Token) /\ Len(w) = Len(x) + Len(E) + Len(y)
          /\ At(w, 0, x) /\ At(w, Len(x), E) /\ At(w, Len(x) + Len(E), y)
  <2>1. x \in Seq(Token) /\ y \in Seq(Token) /\ E \in Seq(Token)
    BY <1>1, <1>2
  <2>. QED  BY ONLY <2>1, ThreeAt
<1>6. /\ q \in Seq(Token) /\ Len(q) = Len(x) + Len(E) + Len(y)
      /\ At(q, 0, x) /\ At(q, Len(x), E) /\ At(q, Len(x) + Len(E), y)
  BY <1>5
<1> HIDE DEF q
<1>7. Len(q) = 1 + e + 1 /\ At(q, 1, E) /\ At(q, 1 + e, y)
  BY ONLY <1>1, <1>2, <1>6
<1>8. q[0 + 1] = Char(Bracket) /\ q[1 + e + 1] = Char(EndBracket)
  BY <1>1, <1>6, <1>7 DEF At
<1>9. LastTokens(q, 1, a)
  <2>1. 0 \in Nat /\ 1 = 1 + 0
    OBVIOUS
  <2>. QED  BY <1>2, <1>6, <1>7, <2>1, LastShift
<1>10. 1 + e + 1 = e + 2
  BY <1>4
<1>. QED  BY <1>3, <1>4, <1>6, <1>7, <1>8, <1>9, <1>10 DEF e

\* Where the members of an account object are.
LEMMA AccountIs ==
    ASSUME NEW a, Writable(a)
    PROVE  LET w == write_account_json(a)
               l == NameLen(a)
               e == LastLen(a)
           IN  /\ l \in Nat /\ e \in Nat
               /\ w \in Seq(Token) /\ Len(w) = AccountLen(a)
               /\ w[1] = Char(Brace) /\ w[2] = Key("number") /\ w[3] = Char(Colon)
               /\ w[4] = Num(a.number)
               /\ At(w, 4, Member("pin", <<Num(a.pin)>>))
               /\ At(w, 8, Member("name", write_json_string(a.name)))
               /\ At(w, 11 + l, Member("balance", <<Num(a.balance)>>))
               /\ At(w, 15 + l, Member("ntran", <<Num(a.ntran)>>))
               /\ At(w, 19 + l, Member("last", ArrayText(a)))
               /\ w[25 + l + e] = Char(EndBrace)
<1> DEFINE l == NameLen(a)
           e == LastLen(a)
           m1 == Member("number", <<Num(a.number)>>)
           m2 == Member("pin", <<Num(a.pin)>>)
           m3 == Member("name", write_json_string(a.name))
           m4 == Member("balance", <<Num(a.balance)>>)
           m5 == Member("ntran", <<Num(a.ntran)>>)
           m6 == Member("last", ArrayText(a))
           ms == <<m1, m2, m3, m4, m5, m6>>
           w == Object(ms)
<1>1. /\ "number" \in Words /\ "pin" \in Words /\ "name" \in Words
      /\ "balance" \in Words /\ "ntran" \in Words /\ "last" \in Words
  BY DEF Words
<1>2. /\ Num(a.number) \in Token /\ Num(a.pin) \in Token /\ Num(a.balance) \in Token
      /\ Num(a.ntran) \in Token
  BY TokenFacts DEF Writable, Rings
<1>3. l \in Nat /\ e \in Nat
  <2>1. NameOff(a.name, Len(a.name)) \in Nat
    <3>1. \A j \in 0 .. Len(a.name) : NameOff(a.name, j) \in Nat
      BY NameOffs DEF Writable
    <3>2. Len(a.name) \in 0 .. Len(a.name)
      BY LenProperties DEF Writable
    <3>. QED  BY <3>1, <3>2
  <2>. QED  BY <2>1, ArrayIs DEF NameLen, Writable
<1>4. /\ m1 \in Seq(Token) /\ Len(m1) = 4
      /\ m1[2] = Key("number") /\ m1[3] = Char(Colon) /\ m1[4] = Num(a.number)
  BY <1>1, <1>2, ShortMember
<1>5. /\ m2 \in Seq(Token) /\ Len(m2) = 4
      /\ m4 \in Seq(Token) /\ Len(m4) = 4
      /\ m5 \in Seq(Token) /\ Len(m5) = 4
  BY <1>1, <1>2, ShortMember
<1>6. m3 \in Seq(Token) /\ Len(m3) = 3 + l
  <2> DEFINE v == write_json_string(a.name)
  <2>1. v \in Seq(Token) /\ Len(v) = l
    BY NameIs DEF Writable, NameLen
  <2> HIDE DEF v
  <2>2. Member("name", v) \in Seq(Token) /\ Len(Member("name", v)) = 3 + Len(v)
    BY <1>1, <2>1, MemberIs
  <2>. QED  BY <2>1, <2>2 DEF v
<1>7. m6 \in Seq(Token) /\ Len(m6) = 5 + e
  <2> DEFINE v == ArrayText(a)
  <2>1. v \in Seq(Token) /\ Len(v) = e + 2
    BY ArrayIs DEF Writable
  <2> HIDE DEF v
  <2>2. Member("last", v) \in Seq(Token) /\ Len(Member("last", v)) = 3 + Len(v)
    BY <1>1, <2>1, MemberIs
  <2> HIDE DEF e
  <2>3. 3 + Len(v) = 5 + e
    BY <1>3, <2>1
  <2>. QED  BY <2>2, <2>3 DEF v
<1>8. write_account_json(a) = Object(ms)
  BY DEF write_account_json, ArrayText
<1> HIDE DEF l, e, m1, m2, m3, m4, m5, m6
<1>9. /\ ms \in Seq(Seq(Token)) /\ Len(ms) = 6
      /\ ms[1] = m1 /\ ms[2] = m2 /\ ms[3] = m3 /\ ms[4] = m4 /\ ms[5] = m5 /\ ms[6] = m6
  BY <1>4, <1>5, <1>6, <1>7
<1> HIDE DEF ms
<1> DEFINE len == [k \in 1 .. 6 |-> IF k = 3 THEN 3 + l ELSE IF k = 6 THEN 5 + e ELSE 4]
           off == [k \in 0 .. 6 |-> IF k <= 2 THEN 4 * k
                                    ELSE IF k <= 5 THEN 4 * k - 1 + l ELSE 24 + l + e]
<1>10. /\ len[1] = 4 /\ len[2] = 4 /\ len[3] = 3 + l /\ len[4] = 4 /\ len[5] = 4 /\ len[6] = 5 + e
  OBVIOUS
<1>11. \A j \in 1 .. 6 : Len(ms[j]) = len[j]
  <2> SUFFICES ASSUME NEW j \in 1 .. 6
               PROVE  Len(ms[j]) = len[j]
    OBVIOUS
  <2> HIDE DEF len
  <2>1. j = 1 \/ j = 2 \/ j = 3 \/ j = 4 \/ j = 5 \/ j = 6
    OBVIOUS
  <2>. QED  BY <1>4, <1>5, <1>6, <1>7, <1>9, <1>10, <2>1
<1>12. /\ off \in [0 .. 6 -> Nat] /\ off[0] = 0 /\ off[1] = 4 /\ off[2] = 8 /\ off[3] = 11 + l
       /\ off[4] = 15 + l /\ off[5] = 19 + l /\ off[6] = 24 + l + e
       /\ \A j \in 1 .. 6 : off[j] = off[j - 1] + len[j]
       /\ \A j \in 2 .. 6 : off[j - 1] # 0 /\ off[j] <= off[6]
  BY <1>3
<1> HIDE DEF off, len
<1>13. /\ w \in Seq(Token) /\ Len(w) = off[6] + 1
       /\ w[1] = Char(Brace) /\ w[off[6] + 1] = Char(EndBrace)
       /\ \A k \in 1 .. 6 : \A i \in 1 .. Len(ms[k]) :
              off[k - 1] + i # 1 => w[off[k - 1] + i] = ms[k][i]
  <2>1. PICK n \in Nat \ {0} : n = 6
    OBVIOUS
  <2>2. n = Len(ms) /\ Len(ms[1]) # 0
    <3>1. n = Len(ms)
      BY ONLY <1>9, <2>1
    <3>2. Len(m1) # 0 /\ ms[1] = m1
      BY <1>4, <1>9
    <3>. QED  BY ONLY <3>1, <3>2
  <2>3. /\ off \in [0 .. n -> Nat] /\ off[0] = 0
        /\ \A j \in 1 .. n : off[j] = off[j - 1] + Len(ms[j])
    BY <1>11, <1>12, <2>1
  <2>4. /\ w \in Seq(Token) /\ Len(w) = off[n] + 1
        /\ w[1] = Char(Brace) /\ w[off[n] + 1] = Char(EndBrace)
        /\ \A k \in 1 .. n : \A i \in 1 .. Len(ms[k]) :
               off[k - 1] + i # 1 => w[off[k - 1] + i] = ms[k][i]
    <3>1. ms \in Seq(Seq(Token))
      BY <1>9
    <3>. QED  BY ONLY n \in Nat \ {0}, <2>2, <2>3, <3>1, ObjectAt DEF w
  <2>. QED  BY <2>1, <2>4
<1> HIDE DEF w
<1>14. w[2] = m1[2] /\ w[3] = m1[3] /\ w[4] = m1[4]
  <2>1. PICK k \in 1 .. 6 : k = 1 /\ k - 1 = 0
    OBVIOUS
  <2>2. off[k - 1] = 0 /\ ms[k] = m1 /\ Len(ms[k]) = 4
    BY <1>4, <1>9, <1>12, <2>1
  <2> DEFINE z == off[k - 1]
  <2>4. \A i \in 1 .. Len(ms[k]) : z + i # 1 => w[z + i] = ms[k][i]
    BY <1>13
  <2> HIDE DEF z
  <2>5. z = 0 /\ \A i \in 1 .. 4 : z + i # 1 => w[z + i] = m1[i]
    BY <2>2, <2>4 DEF z
  <2>3. \A i \in 1 .. 4 : i # 1 => w[i] = m1[i]
    BY <2>5
  <2>. QED  BY <2>3
<1>15. ASSUME NEW k \in 2 .. 6
       PROVE  At(w, off[k - 1], ms[k])
  <2>1. /\ k - 1 \in 0 .. 6 /\ k \in 1 .. 6 /\ off[k - 1] \in Nat
        /\ Len(ms[k]) = len[k] /\ off[k] = off[k - 1] + len[k]
        /\ off[k - 1] # 0
    <3>1. k - 1 \in 0 .. 6 /\ k \in 1 .. 6
      OBVIOUS
    <3>2. off[k - 1] \in Nat
      BY <1>12, <3>1
    <3>3. off[k] = off[k - 1] + len[k] /\ off[k - 1] # 0
      BY <1>12, <3>1
    <3>4. Len(ms[k]) = len[k]
      BY <1>11, <3>1
    <3>. QED  BY <3>1, <3>2, <3>3, <3>4
  <2>2. off[k] <= off[6]
    BY <1>12
  <2>3. off[6] \in Nat
    BY <1>12
  <2>4. off[k - 1] + Len(ms[k]) <= Len(w)
    BY <1>13, <2>1, <2>2, <2>3
  <2>5. \A i \in 1 .. Len(ms[k]) : off[k - 1] + i # 1
    BY <2>1
  <2>. QED  BY <1>13, <2>1, <2>4, <2>5 DEF At
<1>16. /\ At(w, 4, m2) /\ At(w, 8, m3) /\ At(w, 11 + l, m4) /\ At(w, 15 + l, m5)
       /\ At(w, 19 + l, m6)
  <2>1. /\ At(w, off[1], ms[2]) /\ At(w, off[2], ms[3]) /\ At(w, off[3], ms[4])
        /\ At(w, off[4], ms[5]) /\ At(w, off[5], ms[6])
    BY <1>15
  <2>. QED  BY <1>9, <1>12, <2>1
<1>17. Len(w) = 25 + l + e /\ w[25 + l + e] = Char(EndBrace)
  <2>1. off[6] + 1 = 25 + l + e
    BY <1>3, <1>12
  <2>. QED  BY <1>13, <2>1
<1>18. AccountLen(a) = 25 + l + e
  BY DEF AccountLen, l, e
<1>. QED  BY <1>3, <1>4, <1>8, <1>13, <1>14, <1>16, <1>17, <1>18
             DEF l, e, m1, m2, m3, m4, m5, m6, w

\* A member of an object, wherever it is.
LEMMA MemberAt ==
    ASSUME NEW w \in Words, NEW v \in Seq(Token), NEW q \in Seq(Token), NEW p,
           At(q, p, Member(w, v))
    PROVE  /\ p \in Nat /\ q[p + 1] = Char(Comma) /\ FieldTokens(q, p + 1, w)
           /\ At(q, p + 3, v)
<1> DEFINE m == Member(w, v)
<1>1. /\ m \in Seq(Token) /\ Len(m) = 3 + Len(v)
      /\ m[1] = Char(Comma) /\ m[2] = Key(w) /\ m[3] = Char(Colon)
      /\ At(m, 3, v)
  BY MemberIs
<1> HIDE DEF m
<1>2. At(q, p + 3, v)
  <2>1. At(q, p, m)
    BY DEF m
  <2>. QED  BY <1>1, <2>1, AtTrans
<1>3. p \in Nat /\ \A i \in 1 .. Len(m) : q[p + i] = m[i]
  BY DEF At, m
<1>4. \A i \in 1 .. 3 : q[p + i] = m[i]
  <2>1. Len(v) \in Nat
    BY LenProperties
  <2>. QED  BY <1>1, <1>3, <2>1
<1>5. q[p + 1] = Char(Comma) /\ q[p + 1 + 1] = Key(w) /\ q[p + 1 + 2] = Char(Colon)
  BY <1>1, <1>3, <1>4
<1>. QED  BY <1>2, <1>3, <1>5 DEF FieldTokens

\* A member whose value is one token, wherever it is.
LEMMA ShortMemberAt ==
    ASSUME NEW w \in Words, NEW x \in Token, NEW q \in Seq(Token), NEW p,
           At(q, p, Member(w, <<x>>))
    PROVE  /\ p \in Nat /\ q[p + 1] = Char(Comma) /\ FieldTokens(q, p + 1, w)
           /\ q[p + 4] = x
<1> DEFINE v == <<x>>
<1>1. v \in Seq(Token) /\ Len(v) = 1 /\ v[1] = x /\ At(q, p, Member(w, v))
  OBVIOUS
<1> HIDE DEF v
<1>2. /\ p \in Nat /\ q[p + 1] = Char(Comma) /\ FieldTokens(q, p + 1, w)
      /\ At(q, p + 3, v)
  BY <1>1, MemberAt
<1>3. q[p + 3 + 1] = x
  BY <1>1, <1>2 DEF At
<1>. QED  BY <1>2, <1>3

\* write_account_json: the tokens of an account, wherever it is.
LEMMA AccountAt ==
    ASSUME NEW a, Writable(a), NEW q \in Seq(Token), NEW p, At(q, p, write_account_json(a))
    PROVE  AccountTokens(q, p, a)
<1> DEFINE w == write_account_json(a)
           l == NameLen(a)
           e == LastLen(a)
           m2 == Member("pin", <<Num(a.pin)>>)
           m3 == Member("name", write_json_string(a.name))
           m4 == Member("balance", <<Num(a.balance)>>)
           m5 == Member("ntran", <<Num(a.ntran)>>)
           m6 == Member("last", ArrayText(a))
<1>0. At(q, p, w)
  OBVIOUS
<1>1. /\ l \in Nat /\ e \in Nat
      /\ w \in Seq(Token) /\ Len(w) = 25 + l + e
      /\ w[1] = Char(Brace) /\ w[2] = Key("number") /\ w[3] = Char(Colon)
      /\ w[4] = Num(a.number)
      /\ At(w, 4, m2) /\ At(w, 8, m3) /\ At(w, 11 + l, m4) /\ At(w, 15 + l, m5)
      /\ At(w, 19 + l, m6)
      /\ w[25 + l + e] = Char(EndBrace)
  BY AccountIs DEF AccountLen
<1>2. /\ "pin" \in Words /\ "name" \in Words
      /\ "balance" \in Words /\ "ntran" \in Words /\ "last" \in Words
  BY DEF Words
<1>3. Num(a.pin) \in Token /\ Num(a.balance) \in Token /\ Num(a.ntran) \in Token
  BY TokenFacts DEF Writable, Rings
<1>4. write_json_string(a.name) \in Seq(Token) /\ ArrayText(a) \in Seq(Token)
  BY NameIs, ArrayIs DEF Writable
<1>5. /\ m2 \in Seq(Token) /\ m3 \in Seq(Token) /\ m4 \in Seq(Token) /\ m5 \in Seq(Token)
      /\ m6 \in Seq(Token)
  <2>1. m2 \in Seq(Token) /\ m4 \in Seq(Token) /\ m5 \in Seq(Token)
    BY <1>2, <1>3, ShortMember
  <2>2. m3 \in Seq(Token) /\ m6 \in Seq(Token)
    BY <1>2, <1>4, MemberIs
  <2>. QED  BY <2>1, <2>2
<1> HIDE DEF w, l, e, m2, m3, m4, m5, m6
<1>6. /\ At(q, p + 4, m2) /\ At(q, p + 8, m3) /\ At(q, p + (11 + l), m4)
      /\ At(q, p + (15 + l), m5) /\ At(q, p + (19 + l), m6)
  BY <1>0, <1>1, <1>5, AtTrans
<1>7. p \in Nat /\ \A i \in 1 .. 25 + l + e : q[p + i] = w[i]
  BY <1>0, <1>1 DEF At
<1>8. /\ q[p + 1] = Char(Brace) /\ FieldTokens(q, p + 1, "number") /\ q[p + 4] = Num(a.number)
  <2>0. \A i \in 1 .. 4 : i \in 1 .. 25 + l + e
    BY <1>1
  <2>1. \A i \in 1 .. 4 : q[p + i] = w[i]
    BY <1>7, <2>0
  <2>2. /\ q[p + 1] = Char(Brace) /\ q[p + 1 + 1] = Key("number") /\ q[p + 1 + 2] = Char(Colon)
        /\ q[p + 4] = Num(a.number)
    <3>1. p + 1 + 1 = p + 2 /\ p + 1 + 2 = p + 3
      BY <1>7
    <3>2. q[p + 1] = w[1] /\ q[p + 2] = w[2] /\ q[p + 3] = w[3] /\ q[p + 4] = w[4]
      BY <1>7, <2>1
    <3>. QED  BY <1>1, <3>1, <3>2
  <2>. QED  BY <2>2 DEF FieldTokens
<1>9. /\ q[p + 4 + 1] = Char(Comma) /\ FieldTokens(q, p + 4 + 1, "pin")
      /\ q[p + 4 + 4] = Num(a.pin)
  BY <1>2, <1>3, <1>6, ShortMemberAt DEF m2
<1>10. /\ q[p + 8 + 1] = Char(Comma) /\ FieldTokens(q, p + 8 + 1, "name")
       /\ At(q, p + 8 + 3, write_json_string(a.name))
  BY <1>2, <1>4, <1>6, MemberAt DEF m3
<1>11. NameTokens(q, p + 11, a.name)
  <2>1. p + 8 + 3 = p + 11
    BY <1>7
  <2>. QED  BY <1>10, <2>1, NameShift DEF Writable
<1> DEFINE n == p + l
<1>12. /\ p + (11 + l) + 1 = n + 12 /\ p + (11 + l) + 4 = n + 15
       /\ p + (15 + l) + 1 = n + 16 /\ p + (15 + l) + 4 = n + 19
       /\ p + (19 + l) + 1 = n + 20 /\ p + (19 + l) + 3 = n + 22
       /\ n \in Nat /\ p + (25 + l + e) = n + 25 + e /\ 25 + l + e \in 1 .. 25 + l + e
       /\ p + 4 + 1 = p + 5 /\ p + 4 + 4 = p + 8 /\ p + 8 + 1 = p + 9
  BY <1>1, <1>7
<1>13. /\ q[p + (11 + l) + 1] = Char(Comma) /\ FieldTokens(q, p + (11 + l) + 1, "balance")
       /\ q[p + (11 + l) + 4] = Num(a.balance)
  BY <1>2, <1>3, <1>6, ShortMemberAt DEF m4
<1>14. /\ q[p + (15 + l) + 1] = Char(Comma) /\ FieldTokens(q, p + (15 + l) + 1, "ntran")
       /\ q[p + (15 + l) + 4] = Num(a.ntran)
  BY <1>2, <1>3, <1>6, ShortMemberAt DEF m5
<1>15. /\ q[p + (19 + l) + 1] = Char(Comma) /\ FieldTokens(q, p + (19 + l) + 1, "last")
       /\ At(q, p + (19 + l) + 3, ArrayText(a))
  BY <1>2, <1>4, <1>6, MemberAt DEF m6
<1> HIDE DEF n
<1>16. /\ q[n + 12] = Char(Comma) /\ FieldTokens(q, n + 12, "balance") /\ q[n + 15] = Num(a.balance)
       /\ q[n + 16] = Char(Comma) /\ FieldTokens(q, n + 16, "ntran") /\ q[n + 19] = Num(a.ntran)
       /\ q[n + 20] = Char(Comma) /\ FieldTokens(q, n + 20, "last") /\ At(q, n + 22, ArrayText(a))
  BY <1>12, <1>13, <1>14, <1>15
<1>17. /\ q[n + 23] = Char(Bracket) /\ LastTokens(q, n + 23, a)
       /\ q[n + 24 + e] = Char(EndBracket)
  <2> DEFINE v == ArrayText(a)
  <2>1. /\ v \in Seq(Token) /\ Len(v) = e + 2
        /\ v[1] = Char(Bracket) /\ LastTokens(v, 1, a) /\ v[e + 2] = Char(EndBracket)
    BY ArrayIs DEF Writable, e
  <2>2. At(q, n + 22, v)
    BY <1>16
  <2> HIDE DEF v
  <2>3. \A i \in 1 .. e + 2 : q[n + 22 + i] = v[i]
    BY <2>1, <2>2 DEF At
  <2>4. q[n + 22 + 1] = v[1] /\ q[n + 22 + (e + 2)] = v[e + 2]
    BY <1>1, <1>12, <2>3
  <2>5. n + 22 + (e + 2) = n + 24 + e /\ n + 22 + 1 = n + 23 /\ n + 23 = n + 22 + 1 /\ 1 \in Nat
    BY <1>1, <1>12
  <2>6. LastTokens(q, n + 23, a)
    BY <2>1, <2>2, <2>5, LastShift DEF Writable
  <2>. QED  BY <2>1, <2>4, <2>5, <2>6
<1>18. q[n + 25 + e] = Char(EndBrace)
  BY <1>1, <1>7, <1>12
<1>19. /\ q[p + 5] = Char(Comma) /\ FieldTokens(q, p + 5, "pin") /\ q[p + 8] = Num(a.pin)
       /\ q[p + 9] = Char(Comma) /\ FieldTokens(q, p + 9, "name")
  BY <1>9, <1>10, <1>12
<1>. QED  BY <1>8, <1>11, <1>16, <1>17, <1>18, <1>19 DEF AccountTokens, n, l, e

HeaderTokens(q, h) ==
    /\ q[1] = Char(Brace)
    /\ FieldTokens(q, 1, "version") /\ q[4] = Num(1)
    /\ q[5] = Char(Comma) /\ FieldTokens(q, 5, "accounts_in_use") /\ q[8] = Num(h.accounts_in_use)
    /\ q[9] = Char(Comma) /\ FieldTokens(q, 9, "next_number") /\ q[12] = Num(h.next_number)
    /\ q[13] = Char(Comma) /\ FieldTokens(q, 13, "accounts") /\ q[16] = Char(Bracket)

\* The end of account k, and the place before the brace of the next one.
Off(h, k)  == Len(TextTo(h, k))
Base(h, k) == IF k = 0 THEN 16 ELSE Off(h, k) + 1

Layout(h, q) ==
    /\ q \in Seq(Token) /\ HeaderTokens(q, h)
    /\ Off(h, 0) = 16
    /\ \A k \in LiveSlots(h) :
           /\ AccountTokens(q, Base(h, k), h.bank[k])
           /\ Off(h, k + 1) = Base(h, k) + AccountLen(h.bank[k])
           /\ q[Off(h, k + 1) + 1] = Char(IF k + 1 = h.accounts_in_use THEN EndBracket ELSE Comma)
    /\ Len(q) = Off(h, h.accounts_in_use) + 2

HeaderText(h) ==
    Chars(<<Brace>>)
        \o Tail(Member("version", <<Num(1)>>)
                 \o Member("accounts_in_use", <<Num(h.accounts_in_use)>>)
                 \o Member("next_number", <<Num(h.next_number)>>)
                 \o Member("accounts", Chars(<<Bracket>>)))

\* The text before the first account.
LEMMA HeaderIs ==
    ASSUME NEW h, Saveable(h)
    PROVE  LET q == HeaderText(h)
           IN  q \in Seq(Token) /\ Len(q) = 16 /\ HeaderTokens(q, h)
<1> DEFINE b == Chars(<<Bracket>>)
           m1 == Member("version", <<Num(1)>>)
           m2 == Member("accounts_in_use", <<Num(h.accounts_in_use)>>)
           m3 == Member("next_number", <<Num(h.next_number)>>)
           m4 == Member("accounts", b)
           x == (m1 \o m2) \o m3
           T == x \o m4
           c == Chars(<<Brace>>)
           q == c \o Tail(T)
<1>1. /\ "version" \in Words /\ "accounts_in_use" \in Words /\ "next_number" \in Words
      /\ "accounts" \in Words
  BY DEF Words
<1>2. Num(1) \in Token /\ Num(h.accounts_in_use) \in Token /\ Num(h.next_number) \in Token
  BY TokenFacts, BankAssumption DEF Saveable
<1>3. /\ m1 \in Seq(Token) /\ Len(m1) = 4
      /\ m1[2] = Key("version") /\ m1[3] = Char(Colon) /\ m1[4] = Num(1)
  BY <1>1, <1>2, ShortMember
<1>4. /\ m2 \in Seq(Token) /\ Len(m2) = 4 /\ m2[1] = Char(Comma)
      /\ m2[2] = Key("accounts_in_use") /\ m2[3] = Char(Colon) /\ m2[4] = Num(h.accounts_in_use)
  BY <1>1, <1>2, ShortMember
<1>5. /\ m3 \in Seq(Token) /\ Len(m3) = 4 /\ m3[1] = Char(Comma)
      /\ m3[2] = Key("next_number") /\ m3[3] = Char(Colon) /\ m3[4] = Num(h.next_number)
  BY <1>1, <1>2, ShortMember
<1>6. b \in Seq(Token) /\ Len(b) = 1 /\ b[1] = Char(Bracket)
  BY OneChar DEF Bracket
<1>7. c \in Seq(Token) /\ Len(c) = 1 /\ c[1] = Char(Brace)
  BY OneChar DEF Brace
<1>8. HeaderText(h) = q
  BY DEF HeaderText
<1> HIDE DEF m1, m2, m3, b, c
<1>9. /\ m4 \in Seq(Token) /\ Len(m4) = 4 /\ m4[1] = Char(Comma)
      /\ m4[2] = Key("accounts") /\ m4[3] = Char(Colon) /\ m4[4] = Char(Bracket)
  <2>1. /\ m4 \in Seq(Token) /\ Len(m4) = 3 + Len(b)
        /\ m4[1] = Char(Comma) /\ m4[2] = Key("accounts") /\ m4[3] = Char(Colon)
        /\ At(m4, 3, b)
    BY <1>1, <1>6, MemberIs
  <2> HIDE DEF m4
  <2>2. Len(m4) = 3 + 1
    BY ONLY <1>6, <2>1
  <2>3. m4[3 + 1] = b[1]
    BY <1>6, <2>1 DEF At
  <2>. QED  BY <1>6, <2>1, <2>2, <2>3
<1> HIDE DEF m4
<1>10. /\ x \in Seq(Token) /\ Len(x) = 12
       /\ At(x, 0, m1) /\ At(x, 4, m2) /\ At(x, 8, m3)
  <2>1. LET w == (m1 \o m2) \o m3
        IN  /\ w \in Seq(Token) /\ Len(w) = Len(m1) + Len(m2) + Len(m3)
            /\ At(w, 0, m1) /\ At(w, Len(m1), m2) /\ At(w, Len(m1) + Len(m2), m3)
    <3>1. m1 \in Seq(Token) /\ m2 \in Seq(Token) /\ m3 \in Seq(Token)
      BY <1>3, <1>4, <1>5
    <3>. QED  BY ONLY <3>1, ThreeAt
  <2>2. /\ x \in Seq(Token) /\ Len(x) = Len(m1) + Len(m2) + Len(m3)
        /\ At(x, 0, m1) /\ At(x, Len(m1), m2) /\ At(x, Len(m1) + Len(m2), m3)
    BY <2>1
  <2> HIDE DEF x
  <2>3. Len(m1) + Len(m2) = 8 /\ Len(m1) + Len(m2) + Len(m3) = 12
    BY <1>3, <1>4, <1>5
  <2>4. Len(x) = 12
    BY <2>2, <2>3
  <2>5. At(x, 4, m2)
    BY <1>3, <2>2
  <2>6. At(x, 8, m3)
    BY <2>2, <2>3
  <2>. QED  BY <2>2, <2>4, <2>5, <2>6
<1> HIDE DEF x
<1>11. /\ T \in Seq(Token) /\ Len(T) = 16
       /\ At(T, 0, x) /\ At(T, 12, m4)
  <2>1. /\ T \in Seq(Token) /\ Len(T) = Len(x) + Len(m4)
        /\ At(T, 0, x) /\ At(T, Len(x), m4)
    BY <1>9, <1>10, ConcatAt
  <2> HIDE DEF T
  <2>2. Len(x) + Len(m4) = 16
    BY <1>9, <1>10
  <2>3. Len(T) = 16
    BY <2>1, <2>2
  <2>4. At(T, 12, m4)
    BY <1>10, <2>1
  <2>. QED  BY <2>1, <2>3, <2>4
<1>12. /\ T[2] = m1[2] /\ T[3] = m1[3] /\ T[4] = m1[4]
       /\ T[5] = m2[1] /\ T[6] = m2[2] /\ T[7] = m2[3] /\ T[8] = m2[4]
       /\ T[9] = m3[1] /\ T[10] = m3[2] /\ T[11] = m3[3] /\ T[12] = m3[4]
       /\ T[13] = m4[1] /\ T[14] = m4[2] /\ T[15] = m4[3] /\ T[16] = m4[4]
  <2> HIDE DEF T
  <2>1. At(T, 0, m1) /\ At(T, 4, m2) /\ At(T, 8, m3)
    <3>1. T \in Seq(Token) /\ x \in Seq(Token) /\ m1 \in Seq(Token) /\ m2 \in Seq(Token)
          /\ m3 \in Seq(Token) /\ At(T, 0, x)
      BY <1>3, <1>4, <1>5, <1>10, <1>11
    <3>. QED  BY ONLY <1>10, <3>1, AtPrefix
  <2>. QED  BY <1>3, <1>4, <1>5, <1>9, <1>11, <2>1 DEF At
<1>13. /\ Tail(T) \in Seq(Token) /\ Len(Tail(T)) = 15
       /\ \A i \in 1 .. 15 : Tail(T)[i] = T[i + 1]
  <2> HIDE DEF T
  <2>1. T \in Seq(Token) /\ Len(T) = 16
    BY <1>11
  <2>2. T # << >>
    <3>1. Len(<< >>) = 0
      OBVIOUS
    <3>. QED  BY <2>1, <3>1
  <2>3. /\ Tail(T) \in Seq(Token) /\ Len(Tail(T)) = Len(T) - 1
        /\ \A i \in 1 .. Len(Tail(T)) : Tail(T)[i] = T[i + 1]
    BY <2>1, <2>2, HeadTailProperties
  <2>4. Len(Tail(T)) = 15
    BY <2>1, <2>3
  <2>. QED  BY <2>3, <2>4
<1> DEFINE t == Tail(T)
<1> HIDE DEF T
<1>14. /\ q \in Seq(Token) /\ Len(q) = 16 /\ At(q, 0, c) /\ At(q, 1, t)
  <2>1. t \in Seq(Token) /\ Len(t) = 15
    BY <1>13
  <2> HIDE DEF t
  <2>2. /\ c \o t \in Seq(Token) /\ Len(c \o t) = Len(c) + Len(t)
        /\ At(c \o t, 0, c) /\ At(c \o t, Len(c), t)
    BY <1>7, <2>1, ConcatAt
  <2>3. Len(c \o t) = 1 + 15 /\ At(c \o t, 1, t)
    BY ONLY <1>7, <2>1, <2>2
  <2>. QED  BY <2>2, <2>3 DEF t
<1> HIDE DEF q
<1>15. q[1] = Char(Brace)
  BY <1>7, <1>14 DEF At
<1>16. \A i \in 2 .. 16 : q[i] = T[i]
  <2> SUFFICES ASSUME NEW i \in 2 .. 16
               PROVE  q[i] = T[i]
    OBVIOUS
  <2>1. i - 1 \in 1 .. 15 /\ 1 + (i - 1) = i /\ (i - 1) + 1 = i
    OBVIOUS
  <2>2. q[1 + (i - 1)] = t[i - 1]
    BY <1>13, <1>14, <2>1 DEF At
  <2>. QED  BY <1>13, <2>1, <2>2
<1>17. /\ q[2] = m1[2] /\ q[3] = m1[3] /\ q[4] = m1[4]
       /\ q[5] = m2[1] /\ q[6] = m2[2] /\ q[7] = m2[3] /\ q[8] = m2[4]
       /\ q[9] = m3[1] /\ q[10] = m3[2] /\ q[11] = m3[3] /\ q[12] = m3[4]
       /\ q[13] = m4[1] /\ q[14] = m4[2] /\ q[15] = m4[3] /\ q[16] = m4[4]
  BY <1>12, <1>16
<1>18. HeaderTokens(q, h)
  BY <1>3, <1>4, <1>5, <1>9, <1>15, <1>17 DEF HeaderTokens, FieldTokens
<1>. QED  BY <1>8, <1>14, <1>18 DEF q

\* The accounts of globals that can be saved can be written.
LEMMA NamedWritable ==
    ASSUME NEW a \in NamedAccount
    PROVE  Writable(a) /\ AccountLen(a) \in Nat /\ NameLen(a) \in Nat /\ LastLen(a) \in Nat
<1>1. Writable(a)
  <2>1. a.name \in Seq(Byte)
    BY DEF NamedAccount, Name, Byte
  <2>2. a.number \in Nat /\ a.pin \in Nat /\ a.ntran \in Nat /\ a.balance \in CInt
        /\ a.last \in [Ring -> Tran]
    BY DEF NamedAccount
  <2>3. a.balance \in Int
    BY <2>2, BankAssumption DEF CInt
  <2>. QED  BY <2>1, <2>2, <2>3 DEF Writable, Rings
<1>2. NameLen(a) \in Nat /\ LastLen(a) \in Nat
  BY <1>1, AccountIs
<1>. QED  BY <1>1, <1>2 DEF AccountLen

\* The text of the first k accounts.
AccountsText(h) == [k \in 0 .. h.accounts_in_use |->
                        Elements([j \in 1 .. k |-> write_account_json(h.bank[j - 1])])]

\* The text of all the accounts, one after another.
LEMMA AccountsAre ==
    ASSUME NEW h, Saveable(h)
    PROVE  LET n == h.accounts_in_use
               E == AccountsText(h)
           IN  /\ n \in Nat
               /\ E[0] = << >>
               /\ \A k \in 0 .. n : E[k] \in Seq(Token) /\ Len(E[k]) \in Nat
               /\ \A k \in 0 .. n - 1 :
                      LET c == IF k = 0 THEN 0 ELSE 1
                      IN  /\ Len(E[k + 1]) = Len(E[k]) + c + AccountLen(h.bank[k])
                          /\ At(E[n], Len(E[k]) + c, write_account_json(h.bank[k]))
                          /\ k # 0 => E[n][Len(E[k]) + 1] = Char(Comma)
<1> DEFINE n == h.accounts_in_use
           E == AccountsText(h)
           O(k) == [j \in 1 .. k |-> write_account_json(h.bank[j - 1])]
           G == [j \in 1 .. n |-> IF j = 1 THEN write_account_json(h.bank[j - 1])
                                  ELSE Chars(<<Comma>>) \o write_account_json(h.bank[j - 1])]
<1>1. n \in Nat
  BY BankAssumption DEF Saveable
<1> HIDE DEF n, E
<1>2. ASSUME NEW j \in 1 .. n
      PROVE  /\ h.bank[j - 1] \in NamedAccount
             /\ write_account_json(h.bank[j - 1]) \in Seq(Token)
             /\ Len(write_account_json(h.bank[j - 1])) = AccountLen(h.bank[j - 1])
             /\ AccountLen(h.bank[j - 1]) \in Nat
  <2> DEFINE a == h.bank[j - 1]
  <2>1. a \in NamedAccount
    <3>1. j - 1 \in LiveSlots(h)
      BY <1>1 DEF LiveSlots, n
    <3>. QED  BY <3>1 DEF Saveable
  <2> HIDE DEF a
  <2>2. Writable(a) /\ AccountLen(a) \in Nat
    BY <2>1, NamedWritable
  <2>3. write_account_json(a) \in Seq(Token) /\ Len(write_account_json(a)) = AccountLen(a)
    BY <2>2, AccountIs
  <2>. QED  BY <2>1, <2>2, <2>3 DEF a
<1>3. ASSUME NEW k \in 0 .. n
      PROVE  /\ E[k] = Joined(G, k)
             /\ \A j \in 1 .. k :
                    /\ G[j] \in Seq(Token)
                    /\ j = 1 => G[j] = write_account_json(h.bank[j - 1])
                    /\ j # 1 => /\ Len(G[j]) = 1 + Len(write_account_json(h.bank[j - 1]))
                                /\ G[j][1] = Char(Comma)
                                /\ At(G[j], 1, write_account_json(h.bank[j - 1]))
  <2> DEFINE objs == O(k)
             F == [j \in DOMAIN objs |-> IF j = 1 THEN objs[j] ELSE Chars(<<Comma>>) \o objs[j]]
  <2>1. k \in Nat /\ \A j \in 1 .. k : j \in 1 .. n
    BY <1>1
  <2>2. /\ objs \in Seq(Seq(Token)) /\ Len(objs) = k /\ DOMAIN objs = 1 .. k
        /\ \A j \in 1 .. k : objs[j] = write_account_json(h.bank[j - 1])
    <3>1. \A j \in 1 .. k : write_account_json(h.bank[j - 1]) \in Seq(Token)
      BY <1>2, <2>1
    <3>2. objs \in [1 .. k -> Seq(Token)]
      BY <3>1
    <3>. QED  BY <2>1, <3>2
  <2>3. E[k] = Elements(objs)
    BY DEF n, E, AccountsText
  <2> HIDE DEF objs
  <2>4. /\ Elements(objs) = Joined(F, k)
        /\ \A j \in 1 .. k :
               /\ F[j] \in Seq(Token)
               /\ j = 1 => F[j] = objs[j]
               /\ j # 1 => /\ Len(F[j]) = 1 + Len(objs[j]) /\ F[j][1] = Char(Comma)
                           /\ At(F[j], 1, objs[j])
    BY <2>2, ElementsAre
  <2>5. \A j \in 1 .. k : F[j] = G[j]
    BY <2>1, <2>2
  <2> HIDE DEF F, G
  <2>6. Joined(F, k) = Joined(G, k)
    BY <2>5 DEF Joined
  <2>. QED  BY <2>2, <2>3, <2>4, <2>5, <2>6
<1> HIDE DEF G
<1>4. \A j \in 1 .. n : G[j] \in Seq(Token)
  <2>1. n \in 0 .. n
    BY <1>1
  <2>. QED  BY <1>3, <2>1
<1>5. E[0] = << >>
  <2>1. 0 \in 0 .. n
    BY <1>1
  <2>. QED  BY <1>3, <2>1, JoinedNone
<1>6. ASSUME NEW k \in 0 .. n
      PROVE  E[k] \in Seq(Token) /\ Len(E[k]) \in Nat
  <2>1. k \in Nat /\ \A j \in 1 .. k : G[j] \in Seq(Token)
    BY <1>1, <1>4
  <2>2. Joined(G, k) \in Seq(Token)
    BY <2>1, JoinedAt
  <2>. QED  BY <1>3, <2>2, LenProperties
<1>7. ASSUME NEW k \in 0 .. n - 1
      PROVE  LET c == IF k = 0 THEN 0 ELSE 1
             IN  /\ Len(E[k + 1]) = Len(E[k]) + c + AccountLen(h.bank[k])
                 /\ At(E[n], Len(E[k]) + c, write_account_json(h.bank[k]))
                 /\ k # 0 => E[n][Len(E[k]) + 1] = Char(Comma)
  <2> DEFINE c == IF k = 0 THEN 0 ELSE 1
             j == k + 1
             w == write_account_json(h.bank[k])
             u == Len(E[k])
             len == AccountLen(h.bank[k])
  <2>1. /\ k \in Nat /\ j \in 1 .. n /\ j - 1 = k /\ k \in 0 .. n /\ j \in 0 .. n /\ n \in 0 .. n
        /\ j = k + 1 /\ (j = 1 <=> k = 0)
    BY <1>1
  <2>2. E[k] = Joined(G, k) /\ E[j] = Joined(G, j) /\ E[n] = Joined(G, n)
    BY <1>3, <2>1
  <2>3. w \in Seq(Token) /\ Len(w) = len /\ len \in Nat
    BY <1>2, <2>1
  <2>4. u \in Nat /\ E[n] \in Seq(Token) /\ E[j] \in Seq(Token)
    BY <1>6, <2>1
  <2> HIDE DEF j
  <2>5. /\ G[j] \in Seq(Token)
        /\ k = 0 => G[j] = w
        /\ k # 0 => Len(G[j]) = 1 + Len(w) /\ G[j][1] = Char(Comma) /\ At(G[j], 1, w)
    <3>1. j \in 1 .. j /\ j - 1 = k
      BY <2>1
    <3>. QED  BY <1>3, <2>1, <3>1
  <2> HIDE DEF w, len, u
  <2>6. Len(G[j]) = c + len /\ At(G[j], c, w)
    <3>1. CASE k = 0
      <4>1. At(w, 0, w)
        BY <2>3 DEF At
      <4>. QED  BY <2>3, <2>5, <3>1, <4>1
    <3>2. CASE k # 0
      BY <2>3, <2>5, <3>2
    <3>. QED  BY <3>1, <3>2
  <2>7. c \in Nat
    OBVIOUS
  <2> HIDE DEF c
  <2>8. Len(E[j]) = u + (c + len)
    <3>1. k \in Nat /\ j = k + 1 /\ \A i \in 1 .. j : G[i] \in Seq(Token)
      BY <1>1, <1>4, <2>1
    <3>2. Len(Joined(G, k)) = u
      BY <2>2 DEF u
    <3>3. c + len \in Nat
      BY <2>3, <2>7
    <3>4. Joined(G, j) \in Seq(Token) /\ Len(Joined(G, j)) = u + (c + len)
      BY ONLY <2>4, <2>6, <3>1, <3>2, <3>3, JoinedLen
    <3>. QED  BY <2>2, <3>4
  <2>9. At(E[n], u, G[j])
    <3>1. \A i \in 1 .. n : At(Joined(G, n), Len(Joined(G, i - 1)), G[i])
      BY <1>1, <1>4, JoinedAt
    <3>2. At(Joined(G, n), Len(Joined(G, j - 1)), G[j])
      BY <2>1, <3>1
    <3>. QED  BY <2>1, <2>2, <3>2 DEF u
  <2>10. At(E[n], u + c, w)
    BY <2>3, <2>4, <2>5, <2>6, <2>9, AtTrans
  <2>11. ASSUME k # 0
         PROVE  E[n][u + 1] = Char(Comma)
    <3>1. 1 \in 1 .. Len(G[j])
      BY <2>3, <2>5, <2>11
    <3>. QED  BY <2>5, <2>9, <2>11, <3>1 DEF At
  <2>12. u + (c + len) = u + c + len
    BY <2>3, <2>4, <2>7
  <2>. QED  BY <2>8, <2>10, <2>11, <2>12 DEF c, w, u, j, len
<1>. QED  BY <1>1, <1>5, <1>6, <1>7 DEF n, E

\* save_data: where everything is.
LEMMA LayoutIs ==
    ASSUME NEW h, Saveable(h)
    PROVE  /\ Layout(h, save_data(h))
           /\ \A k \in 0 .. h.accounts_in_use : Off(h, k) \in Nat /\ 16 <= Off(h, k)
<1> DEFINE n == h.accounts_in_use
           H == HeaderText(h)
           E == AccountsText(h)
           z == <<EndBracket, EndBrace>>
           Z == Chars(z)
           q == (H \o E[n]) \o Z
<1>1. /\ n \in Nat /\ E[0] = << >>
      /\ \A k \in 0 .. n : E[k] \in Seq(Token) /\ Len(E[k]) \in Nat
      /\ \A k \in 0 .. n - 1 :
             LET c == IF k = 0 THEN 0 ELSE 1
             IN  /\ Len(E[k + 1]) = Len(E[k]) + c + AccountLen(h.bank[k])
                 /\ At(E[n], Len(E[k]) + c, write_account_json(h.bank[k]))
                 /\ k # 0 => E[n][Len(E[k]) + 1] = Char(Comma)
  BY AccountsAre
<1>2. H \in Seq(Token) /\ Len(H) = 16 /\ HeaderTokens(H, h)
  BY HeaderIs
<1>3. Z \in Seq(Token) /\ Len(Z) = 2 /\ Z[1] = Char(EndBracket)
  <2>1. z \in Seq(Int) /\ Len(z) = 2 /\ z[1] = EndBracket
    BY DEF EndBracket, EndBrace
  <2> HIDE DEF z
  <2>2. /\ Chars(z) \in Seq(Token) /\ Len(Chars(z)) = Len(z)
        /\ \A i \in 1 .. Len(z) : Chars(z)[i] = Char(z[i])
    BY <2>1, CharsAre
  <2>. QED  BY <2>1, <2>2
<1>4. \A k \in 0 .. n : TextTo(h, k) = H \o E[k]
  BY <1>1 DEF TextTo, HeaderText, AccountsText
<1>5. n \in 0 .. n /\ 0 \in 0 .. n
  BY <1>1
<1>6. save_data(h) = q
  BY <1>4, <1>5 DEF save_data
<1> HIDE DEF n, H, E, Z
<1>7. ASSUME NEW k \in 0 .. n
      PROVE  Off(h, k) = 16 + Len(E[k]) /\ Off(h, k) \in Nat /\ 16 <= Off(h, k)
  <2> DEFINE f == E[k]
  <2>1. f \in Seq(Token) /\ Len(f) \in Nat
    BY <1>1
  <2>2. Off(h, k) = Len(H \o f)
    BY <1>4 DEF Off
  <2> HIDE DEF f
  <2>3. H \o f \in Seq(Token) /\ Len(H \o f) = Len(H) + Len(f)
    BY <1>2, <2>1, ConcatAt
  <2>4. Len(H \o f) = 16 + Len(f)
    BY ONLY <1>2, <2>3
  <2>5. 16 + Len(f) \in Nat /\ 16 <= 16 + Len(f)
    BY <2>1
  <2>. QED  BY <2>2, <2>4, <2>5 DEF f
<1> DEFINE f == E[n]
<1>8. f \in Seq(Token) /\ Len(f) \in Nat
  BY <1>1, <1>5
<1>9. /\ q \in Seq(Token) /\ Len(q) = Len(H) + Len(f) + Len(Z)
      /\ At(q, 0, H) /\ At(q, Len(H), f) /\ At(q, Len(H) + Len(f), Z)
  <2> HIDE DEF f
  <2>1. LET w == (H \o f) \o Z
        IN  /\ w \in Seq(Token) /\ Len(w) = Len(H) + Len(f) + Len(Z)
            /\ At(w, 0, H) /\ At(w, Len(H), f) /\ At(w, Len(H) + Len(f), Z)
    BY <1>2, <1>3, <1>8, ThreeAt
  <2>. QED  BY <2>1 DEF f
<1> HIDE DEF q, f
<1>10. At(q, 16, f) /\ At(q, 16 + Len(f), Z)
  BY <1>2, <1>9
<1>11. Off(h, n) = 16 + Len(f)
  BY <1>5, <1>7 DEF f
<1>12. Len(q) = Off(h, n) + 2
  <2>1. Len(H) + Len(f) + Len(Z) = 16 + Len(f) + 2
    BY <1>2, <1>3, <1>8
  <2>. QED  BY <1>9, <1>11, <2>1
<1>13. q[Off(h, n) + 1] = Char(EndBracket)
  BY <1>3, <1>8, <1>10, <1>11 DEF At
<1>14. HeaderTokens(q, h)
  <2>1. \A i \in 1 .. 16 : q[0 + i] = H[i]
    BY <1>2, <1>9 DEF At
  <2>2. /\ q[1] = H[1] /\ q[2] = H[2] /\ q[3] = H[3] /\ q[4] = H[4]
        /\ q[5] = H[5] /\ q[6] = H[6] /\ q[7] = H[7] /\ q[8] = H[8]
        /\ q[9] = H[9] /\ q[10] = H[10] /\ q[11] = H[11] /\ q[12] = H[12]
        /\ q[13] = H[13] /\ q[14] = H[14] /\ q[15] = H[15] /\ q[16] = H[16]
    BY <2>1
  <2>. QED  BY <1>2, <2>2 DEF HeaderTokens, FieldTokens
<1>15. Off(h, 0) = 16
  BY <1>1, <1>5, <1>7
<1>16. ASSUME NEW k \in 0 .. n - 1
       PROVE  /\ AccountTokens(q, Base(h, k), h.bank[k])
              /\ Off(h, k + 1) = Base(h, k) + AccountLen(h.bank[k])
              /\ k # 0 => q[Off(h, k) + 1] = Char(Comma)
  <2> DEFINE a == h.bank[k]
             c == IF k = 0 THEN 0 ELSE 1
             u == Len(E[k])
             w == write_account_json(a)
  <2>1. k \in 0 .. n /\ k + 1 \in 0 .. n
    BY <1>1
  <2>2. a \in NamedAccount
    BY DEF LiveSlots, Saveable, n
  <2>3. Off(h, k) = 16 + u /\ u \in Nat /\ Off(h, k + 1) = 16 + Len(E[k + 1])
    BY <1>1, <1>7, <2>1
  <2>4. /\ Len(E[k + 1]) = u + c + AccountLen(a)
        /\ At(f, u + c, w)
        /\ k # 0 => f[u + 1] = Char(Comma)
    BY <1>1 DEF f
  <2>5. Writable(a) /\ AccountLen(a) \in Nat /\ w \in Seq(Token)
    BY <2>2, NamedWritable, AccountIs
  <2>6. Base(h, k) = 16 + (u + c) /\ c \in Nat
    <3>1. CASE k = 0
      <4>1. u = 0
        BY <1>1, <3>1
      <4>. QED  BY <3>1, <4>1 DEF Base
    <3>2. CASE k # 0
      BY <2>3, <3>2 DEF Base
    <3>. QED  BY <3>1, <3>2
  <2> HIDE DEF a, c, w
  <2>7. At(q, 16 + (u + c), w)
    <3> HIDE DEF u
    <3>1. q \in Seq(Token) /\ f \in Seq(Token) /\ w \in Seq(Token) /\ At(q, 16, f) /\ At(f, u + c, w)
      BY <1>8, <1>9, <1>10, <2>4, <2>5
    <3>. QED  BY ONLY <3>1, AtTrans
  <2>8. AccountTokens(q, Base(h, k), a)
    BY <1>9, <2>5, <2>6, <2>7, AccountAt DEF w
  <2>9. Off(h, k + 1) = Base(h, k) + AccountLen(a)
    BY <2>3, <2>4, <2>5, <2>6
  <2>10. ASSUME k # 0
         PROVE  q[Off(h, k) + 1] = Char(Comma)
    <3>1. f[u + 1] = Char(Comma) /\ u + c + Len(w) <= Len(f) /\ Len(w) \in Nat
      BY <2>4, <2>5, <2>10, LenProperties DEF At
    <3>2. AccountLen(a) \in Nat \ {0} /\ Len(w) = AccountLen(a)
      <4>1. Len(w) = AccountLen(a)
        BY <2>5, AccountIs DEF w
      <4>2. NameLen(a) \in Nat /\ LastLen(a) \in Nat
        BY <2>2, NamedWritable DEF a
      <4>. QED  BY <4>1, <4>2 DEF AccountLen
    <3>3. u + 1 \in 1 .. Len(f)
      BY <1>8, <2>3, <2>6, <3>1, <3>2
    <3>4. q[16 + (u + 1)] = f[u + 1]
      BY <1>10, <3>3 DEF At
    <3>5. Off(h, k) + 1 = 16 + (u + 1)
      BY <2>3
    <3>. QED  BY <3>1, <3>4, <3>5
  <2>. QED  BY <2>8, <2>9, <2>10 DEF a
<1>17. ASSUME NEW k \in 0 .. n - 1
       PROVE  q[Off(h, k + 1) + 1] = Char(IF k + 1 = n THEN EndBracket ELSE Comma)
  <2>1. CASE k + 1 = n
    BY <1>13, <2>1
  <2>2. CASE k + 1 # n
    <3>1. k + 1 \in 0 .. n - 1 /\ k + 1 # 0
      BY <1>1, <2>2
    <3>2. q[Off(h, k + 1) + 1] = Char(Comma)
      BY <1>16, <3>1
    <3>. QED  BY <2>2, <3>2
  <2>. QED  BY <2>1, <2>2
<1>18. Layout(h, q)
  BY <1>9, <1>12, <1>14, <1>15, <1>16, <1>17 DEF Layout, LiveSlots, n
<1>. QED  BY <1>6, <1>7, <1>18 DEF n

-----------------------------------------------------------------------------
(* The invariant.                                                          *)

\* text is the beginning of the file, all of the header at least.
Prefix ==
    /\ text \in Seq(Token) /\ Len(text) <= Len(save_data(saved))
    /\ \A i \in 1 .. Len(text) : text[i] = save_data(saved)[i]
    /\ text = << >> \/ 16 <= Len(text)

\* Characters that are written as they are, or with one escape.
Plain(s) == \A k \in DOMAIN s : s[k] < 128

LoadedName == Seq(1 .. 127)

LoadedAcc == [number : Nat, pin : Nat, name : LoadedName \cup {Blank}, balance : CInt,
              last : [Ring -> Tran], ntran : Nat]

LoadedHeap == [bank : [Slots -> LoadedAcc], accounts_in_use : 0 .. MAX_ACCTS, next_number : Nat]

\* What the first k fields made of account a.
FieldsRead(b, a, k) ==
    /\ k >= 1 => b.number = a.number
    /\ k >= 2 => b.pin = a.pin
    /\ k >= 3 => /\ b.name \in LoadedName /\ Len(b.name) < NameSize
                 /\ Plain(a.name) => b.name = a.name
    /\ k >= 4 => b.balance = a.balance
    /\ k >= 5 => b.ntran = a.ntran

\* The first r transactions are there.
LastRead(b, a, r) ==
    \A k \in Ring : b.last[k] = IF k < r THEN Kept(a)[k + 1] ELSE ZeroTran

NoLast(b) == \A k \in Ring : b.last[k] = ZeroTran

AccountRead(b, a) == FieldsRead(b, a, 5) /\ LastRead(b, a, Len(Kept(a)))

\* Transaction r, of which the fields before k are read, and those before it.
TranRead(b, a, r, k) ==
    /\ \A i \in Ring : i # r => b.last[i] = IF i < r THEN Kept(a)[i + 1] ELSE ZeroTran
    /\ k >= 2 => b.last[r].type = Kept(a)[r + 1].type
    /\ k >= 3 => b.last[r].amount = Kept(a)[r + 1].amount

\* Where the reader of account a, which begins after place p, may be.
FieldPos(a, k) ==
    CASE k = 1 -> 2 [] k = 2 -> 5 [] k = 3 -> 9 [] k = 4 -> 12 + NameLen(a)
      [] k = 5 -> 16 + NameLen(a) [] k = 6 -> 20 + NameLen(a)

ReadsField(p, b, a) ==
    /\ field \in 1 .. 6 /\ pos = p + FieldPos(a, field)
    /\ FieldsRead(b, a, field - 1) /\ NoLast(b)

\* Within the ten tokens of a character from 128 on it stops after six of them
\* and after each of the other four.
ReadsName(p, b, a) ==
    /\ field = 4 /\ trans_read = 0
    /\ \E j \in 0 .. Len(a.name), d \in {0, 6, 7, 8, 9} :
           /\ pos = p + 13 + NameOff(a.name, j) + d
           /\ d # 0 => j < Len(a.name) /\ a.name[j + 1] >= 128
           /\ Plain(a.name) => name = SubSeq(a.name, 1, j)
    /\ FieldsRead(b, a, 2) /\ NoLast(b)

\* After a transaction it is past the comma, unless that is not there.
ReadsArray(p, b, a) ==
    LET q == p + 23 + NameLen(a) + 14 * trans_read
    IN  /\ trans_read \in 0 .. Len(Kept(a))
        /\ pos = IF trans_read = 0 \/ (trans_read < Len(Kept(a)) /\ q <= Len(text))
                 THEN q + 1 ELSE q
        /\ FieldsRead(b, a, 5) /\ LastRead(b, a, trans_read)

ReadsTran(p, b, a) ==
    /\ trans_read \in 0 .. Len(Kept(a)) - 1
    /\ field \in 1 .. 3
    /\ pos = p + 23 + NameLen(a) + 14 * trans_read
               + (CASE field = 1 -> 2 [] field = 2 -> 5 [] field = 3 -> 9)
    /\ FieldsRead(b, a, 5) /\ TranRead(b, a, trans_read, field)

ReadsClosing(p, b, a) == pos = p + AccountLen(a) /\ AccountRead(b, a)

Inside == {"field", "name", "array", "tran", "closing"}

Begins == /\ pos = 1 /\ slot = 0 /\ heap.accounts_in_use = 0 /\ heap.next_number = FIRST_NUMBER

ReadsHeader ==
    /\ field \in 1 .. 4 /\ pos = IF field = 1 THEN 2 ELSE 4 * field - 3
    /\ slot = 0 /\ 16 <= Len(text)
    /\ field >= 3 => heap.accounts_in_use = saved.accounts_in_use
    /\ field >= 4 => heap.next_number = saved.next_number

HeaderRead ==
    /\ 16 <= Len(text)
    /\ heap.accounts_in_use = saved.accounts_in_use
    /\ heap.next_number = saved.next_number
    /\ slot \in 0 .. saved.accounts_in_use
    /\ Off(saved, slot) <= Len(text)

ReadsAccounts == HeaderRead /\ pos = Base(saved, slot) + 1 /\ pos <= Len(text) + 1

\* Within the account in slot.
Reads ==
    LET p == Base(saved, slot)
        b == heap.bank[slot]
        a == saved.bank[slot]
    IN  /\ at = "field" => ReadsField(p, b, a)
        /\ at = "name" => ReadsName(p, b, a)
        /\ at = "array" => ReadsArray(p, b, a)
        /\ at = "tran" => ReadsTran(p, b, a)
        /\ at = "closing" => ReadsClosing(p, b, a)

ReadsAccount ==
    /\ HeaderRead /\ slot \in LiveSlots(saved)
    /\ pos <= Len(text) + (IF at = "closing" THEN 2 ELSE 1)
    /\ Reads

\* All that is there is read.
Done ==
    LET n == heap.accounts_in_use
    IN  IF text = << >> THEN n = 0 /\ heap.next_number = FIRST_NUMBER
        ELSE /\ n \in 0 .. saved.accounts_in_use
             /\ heap.next_number = saved.next_number
             /\ Off(saved, n) <= Len(text)
             /\ n < saved.accounts_in_use => Len(text) < Off(saved, n + 1)

Types ==
    /\ at \in {"brace", "header", "account", "done"} \cup Inside
    /\ pos \in Nat /\ pos <= Len(text) + 2
    /\ slot \in 0 .. MAX_ACCTS /\ trans_read \in 0 .. TRANS_KEEP
    /\ name \in LoadedName /\ Len(name) < NameSize
    /\ heap \in LoadedHeap
    /\ trip \in {1, 2}

IInv ==
    /\ Types
    /\ Saveable(saved) /\ Prefix
    /\ trip = 2 => \A j \in LiveSlots(saved) : Plain(saved.bank[j].name)
    /\ at = "brace" => Begins
    /\ at = "header" => ReadsHeader
    /\ at = "account" => ReadsAccounts
    /\ at \in Inside => ReadsAccount
    /\ at = "done" => Done
    /\ \A j \in Slots : j < (IF at = "done" THEN heap.accounts_in_use ELSE slot)
                            => AccountRead(heap.bank[j], saved.bank[j])
    /\ \A j \in Slots : at # "done" /\ j >= slot /\ (j = slot => at \notin Inside)
                            => NoLast(heap.bank[j])

-----------------------------------------------------------------------------
(* Reading.                                                                *)

\* What is there of the file is as it was written.
LEMMA IsThere ==
    ASSUME Prefix, NEW p \in Nat, NEW token
    PROVE  /\ Len(text) \in Nat
           /\ Is(p, token) <=> p # 0 /\ p <= Len(text) /\ save_data(saved)[p] = token
           /\ p # 0 /\ p <= Len(text) => text[p] = save_data(saved)[p]
<1>1. Len(text) \in Nat /\ DOMAIN text = 1 .. Len(text)
  BY LenProperties DEF Prefix
<1>2. p \in 1 .. Len(text) <=> p # 0 /\ p <= Len(text)
  BY <1>1
<1>3. p \in 1 .. Len(text) => text[p] = save_data(saved)[p]
  BY DEF Prefix
<1>. QED  BY <1>1, <1>2, <1>3 DEF Is

\* skip_to_char stands at once at a character that is next, and finds
\* nothing past the end.
LEMMA SkipIs ==
    ASSUME Prefix, NEW p \in Nat \ {0}, NEW b, save_data(saved)[p] = Char(b)
    PROVE  SkipTo(p, b) = IF p <= Len(text) THEN p + 1 ELSE 0
<1> DEFINE found == {q \in p .. Len(text) : text[q] = Char(b)}
<1>1. Len(text) \in Nat /\ p <= Len(text) => text[p] = Char(b)
  BY IsThere
<1>2. CASE p <= Len(text)
  <2>1. p \in found /\ \A x \in found : p <= x
    BY <1>1, <1>2
  <2>2. \A y \in found : (\A x \in found : y <= x) => y = p
    BY <1>1, <2>1
  <2>3. Min(found) = p
    <3> HIDE DEF found
    <3>1. \E y \in found : \A x \in found : y <= x
      BY <2>1
    <3>. QED  BY <2>2, <3>1 DEF Min
  <2>. QED  BY <1>2, <2>1, <2>3 DEF SkipTo
<1>3. CASE ~ p <= Len(text)
  <2>1. found = {}
    BY <1>1, <1>3
  <2>. QED  BY <1>3, <2>1 DEF SkipTo
<1>. QED  BY <1>2, <1>3

\* A field that was written, at the place where the reader is, is found if it
\* and the beginning of its value are there.
LEMMA ValueIs ==
    ASSUME Prefix, NEW fields, NEW k \in Nat \ {0}, NEW p \in Nat, pos \in Nat \ {0},
           pos = IF k = 1 THEN p + 1 ELSE p,
           k # 1 => save_data(saved)[pos] = Char(Comma),
           FieldTokens(save_data(saved), p, fields[k])
    PROVE  ValueAt(fields, k) = IF p + 3 <= Len(text) THEN p + 3 ELSE 0
<1> DEFINE r == IF k = 1 THEN pos ELSE SkipTo(pos, Comma)
<1>1. Len(text) \in Nat
  BY IsThere
<1>2. CASE p + 3 <= Len(text)
  <2>1. r = p + 1
    BY <1>1, <1>2, SkipIs
  <2>2. Is(p + 1, Key(fields[k]))
    <3>1. p + 1 \in Nat /\ p + 1 # 0 /\ p + 1 <= Len(text)
      BY <1>1, <1>2
    <3>. QED  BY <3>1, IsThere DEF FieldTokens
  <2>3. Is(p + 2, Char(Colon))
    <3>1. p + 2 \in Nat /\ p + 2 # 0 /\ p + 2 <= Len(text)
      BY <1>1, <1>2
    <3>. QED  BY <3>1, IsThere DEF FieldTokens
  <2>4. (p + 1) + 1 = p + 2 /\ (p + 1) + 2 = p + 3 /\ p + 1 # 0
    OBVIOUS
  <2>. QED  BY <1>2, <2>1, <2>2, <2>3, <2>4 DEF ValueAt
<1>3. CASE ~ p + 3 <= Len(text)
  <2>1. r = p + 1 \/ r = 0
    BY <1>1, SkipIs
  <2>2. r # 0 => ~ (r + 2 <= Len(text))
    BY <1>1, <1>3, <2>1
  <2>. QED  BY <1>3, <2>2 DEF ValueAt
<1>. QED  BY <1>2, <1>3

-----------------------------------------------------------------------------
(* What stays as it is.                                                    *)

\* Reading an account, what the reader knows of the file.
LEMMA Context ==
    ASSUME IInv, at \in Inside
    PROVE  LET a == saved.bank[slot]
               p == Base(saved, slot)
               q == save_data(saved)
           IN  /\ slot \in LiveSlots(saved) /\ slot \in Slots /\ slot \in Nat
               /\ a \in NamedAccount /\ Writable(a) /\ a.name \in Seq(Byte)
               /\ p \in Nat /\ 16 <= p
               /\ q \in Seq(Token) /\ Len(text) \in Nat
               /\ AccountTokens(q, p, a)
               /\ Off(saved, slot + 1) = p + AccountLen(a)
               /\ q[p + AccountLen(a) + 1] =
                      Char(IF slot + 1 = saved.accounts_in_use THEN EndBracket ELSE Comma)
               /\ NameLen(a) \in Nat /\ LastLen(a) \in Nat /\ AccountLen(a) \in Nat
               /\ Kept(a) \in Seq(Tran) /\ Len(Kept(a)) \in 0 .. TRANS_KEEP
               /\ heap.bank[slot] \in LoadedAcc
<1> DEFINE a == saved.bank[slot]
           p == Base(saved, slot)
           q == save_data(saved)
<1>1. slot \in LiveSlots(saved) /\ HeaderRead
  BY DEF IInv, ReadsAccount
<1>2. Saveable(saved) /\ Prefix /\ Types
  BY DEF IInv
<1>3. slot \in Slots /\ slot \in Nat /\ slot \in 0 .. saved.accounts_in_use - 1
  BY <1>1, <1>2, BankAssumption DEF Saveable, LiveSlots, Slots
<1>4. a \in NamedAccount
  BY <1>1, <1>2 DEF Saveable
<1> HIDE DEF a
<1>5. Writable(a) /\ AccountLen(a) \in Nat /\ NameLen(a) \in Nat /\ LastLen(a) \in Nat
  BY <1>4, NamedWritable
<1>6. Kept(a) \in Seq(Tran) /\ Len(Kept(a)) \in 0 .. TRANS_KEEP
  BY <1>5, KeptSize DEF Writable
<1>7. Layout(saved, q) /\ \A k \in 0 .. saved.accounts_in_use : Off(saved, k) \in Nat
  BY <1>2, LayoutIs
<1>8. p \in Nat /\ 16 <= p
  <2>1. CASE slot = 0
    BY <2>1 DEF Base
  <2>2. CASE slot # 0
    <3> DEFINE k == slot - 1
    <3>1. k \in LiveSlots(saved) /\ k + 1 = slot /\ k \in 0 .. saved.accounts_in_use
          /\ slot \in 0 .. saved.accounts_in_use
      BY <1>2, <1>3, <2>2, BankAssumption DEF LiveSlots, Saveable
    <3> HIDE DEF k
    <3> DEFINE b == saved.bank[k]
    <3>2. b \in NamedAccount
      BY <1>2, <3>1 DEF Saveable
    <3>3. Off(saved, slot) = Base(saved, k) + AccountLen(b)
      BY <1>7, <3>1 DEF Layout
    <3> HIDE DEF b
    <3>4. AccountLen(b) \in Nat /\ NameLen(b) \in Nat /\ LastLen(b) \in Nat
      BY <3>2, NamedWritable
    <3>5. AccountLen(b) >= 25
      BY <3>4 DEF AccountLen
    <3>6. Base(saved, k) \in Nat
      BY <1>7, <3>1 DEF Base
    <3>7. Off(saved, slot) \in Nat
      BY <1>7, <3>1
    <3>. QED  BY <2>2, <3>3, <3>4, <3>5, <3>6, <3>7 DEF Base
  <2>. QED  BY <2>1, <2>2
<1>9. /\ q \in Seq(Token) /\ AccountTokens(q, p, a)
      /\ Off(saved, slot + 1) = p + AccountLen(a)
      /\ q[Off(saved, slot + 1) + 1] =
             Char(IF slot + 1 = saved.accounts_in_use THEN EndBracket ELSE Comma)
  BY <1>1, <1>7 DEF Layout, a
<1>10. Len(text) \in Nat
  BY <1>2, LenProperties DEF Prefix
<1>11. heap.bank[slot] \in LoadedAcc
  BY <1>2, <1>3 DEF Types, LoadedHeap
<1>12. a.name \in Seq(Byte)
  BY <1>5 DEF Writable
<1>. QED  BY <1>1, <1>3, <1>4, <1>5, <1>6, <1>8, <1>9, <1>10, <1>11, <1>12 DEF a

\* load_data returns with the n accounts that are all there.
LEMMA StopKeeps ==
    ASSUME IInv, NEW n \in 0 .. MAX_ACCTS, Stop(n),
           \/ text = << >> /\ n = 0 /\ heap.next_number = FIRST_NUMBER
           \/ /\ n \in 0 .. saved.accounts_in_use /\ heap.next_number = saved.next_number
              /\ text # << >> /\ Off(saved, n) <= Len(text)
              /\ n < saved.accounts_in_use => Len(text) < Off(saved, n + 1),
           \A j \in Slots : j < n => AccountRead(heap.bank[j], saved.bank[j])
    PROVE  IInv'
<1>1. /\ Types /\ Saveable(saved) /\ Prefix
      /\ trip = 2 => \A j \in LiveSlots(saved) : Plain(saved.bank[j].name)
  BY DEF IInv
<1>2. /\ at' = "done" /\ heap' = [heap EXCEPT !.accounts_in_use = n]
      /\ UNCHANGED <<saved, text, pos, field, slot, trans_read, name, trip>>
  BY DEF Stop
<1>3. heap' \in LoadedHeap /\ heap'.accounts_in_use = n
      /\ heap'.bank = heap.bank /\ heap'.next_number = heap.next_number
  BY <1>1, <1>2 DEF Types, LoadedHeap
<1>4. Types'
  BY <1>1, <1>2, <1>3 DEF Types
<1>5. Saveable(saved)' /\ Prefix'
      /\ (trip = 2 => \A j \in LiveSlots(saved) : Plain(saved.bank[j].name))'
  BY <1>1, <1>2 DEF Prefix, Saveable, LiveSlots
<1>6. Done'
  BY <1>2, <1>3 DEF Done
<1>7. (\A j \in Slots : j < (IF at = "done" THEN heap.accounts_in_use ELSE slot)
                          => AccountRead(heap.bank[j], saved.bank[j]))'
  BY <1>2, <1>3
<1>. QED  BY <1>2, <1>4, <1>5, <1>6, <1>7 DEF IInv, Inside

\* It returns within an account, with those before it.
LEMMA StopInside ==
    ASSUME IInv, at \in Inside, Stop(slot),
           Len(text) < Base(saved, slot) + AccountLen(saved.bank[slot])
    PROVE  IInv'
<1>1. HeaderRead
  BY DEF IInv, ReadsAccount
<1>2. /\ slot \in 0 .. MAX_ACCTS
      /\ \A j \in Slots : j < slot => AccountRead(heap.bank[j], saved.bank[j])
  BY DEF IInv, Types, Inside
<1>3. Off(saved, slot + 1) = Base(saved, slot) + AccountLen(saved.bank[slot])
  BY Context
<1>4. text # << >>
  BY <1>1, EmptySeq DEF HeaderRead
<1>. QED  BY <1>1, <1>2, <1>3, <1>4, StopKeeps DEF HeaderRead

\* It goes on within an account: what was read before stays.
LEMMA InsideKeeps ==
    ASSUME IInv, at \in Inside, at' \in Inside, UNCHANGED <<saved, text, trip, slot>>,
           heap' \in LoadedHeap, heap'.accounts_in_use = heap.accounts_in_use,
           heap'.next_number = heap.next_number,
           \A j \in Slots \ {slot} : heap'.bank[j] = heap.bank[j],
           name' \in LoadedName, Len(name') < NameSize, trans_read' \in 0 .. TRANS_KEEP,
           pos' \in Nat, pos' <= Len(text) + (IF at' = "closing" THEN 2 ELSE 1), Reads'
    PROVE  IInv'
<1>1. /\ Types /\ Saveable(saved) /\ Prefix /\ HeaderRead
      /\ trip = 2 => \A j \in LiveSlots(saved) : Plain(saved.bank[j].name)
      /\ slot \in LiveSlots(saved)
  BY DEF IInv, ReadsAccount
<1>2. Types'
  <2>1. Len(text) \in Nat
    BY <1>1, LenProperties DEF Prefix
  <2>. QED  BY <1>1, <2>1 DEF Types, Inside
<1>3. Saveable(saved)' /\ Prefix' /\ HeaderRead'
      /\ (trip = 2 => \A j \in LiveSlots(saved) : Plain(saved.bank[j].name))'
  BY <1>1 DEF Prefix, Saveable, LiveSlots, HeaderRead
<1>4. ReadsAccount'
  BY <1>1, <1>3 DEF ReadsAccount, LiveSlots
<1>5. ASSUME NEW j \in Slots, j < slot
      PROVE  AccountRead(heap'.bank[j], saved.bank[j])
  <2>1. j # slot /\ at # "done"
    BY <1>1, <1>5 DEF Types, Slots, Inside
  <2>. QED  BY <1>5, <2>1 DEF IInv
<1>6. ASSUME NEW j \in Slots, j >= slot, j # slot
      PROVE  NoLast(heap'.bank[j])
  BY <1>6 DEF IInv, Inside
<1>7. at' # "done" /\ at' # "brace" /\ at' # "header" /\ at' # "account" /\ slot' = slot /\ saved' = saved
  BY DEF Inside
<1>. QED  BY <1>2, <1>3, <1>4, <1>5, <1>6, <1>7 DEF IInv

-----------------------------------------------------------------------------
(* The fields of an account.                                               *)

\* What field k of account a holds, if it is one token.
FieldToken(a, k) ==
    CASE k = 1 -> Num(a.number) [] k = 2 -> Num(a.pin) [] k = 3 -> Char(Quote)
      [] k = 4 -> Num(a.balance) [] k = 5 -> Num(a.ntran) [] k = 6 -> Char(Bracket)

\* The place of the value of field k.
FieldEnd(a, k) == FieldPos(a, k) + (IF k = 1 THEN 2 ELSE 3)

\* The places of the fields as written.
LEMMA FieldPlaces ==
    ASSUME NEW q, NEW p \in Nat, NEW a, NameLen(a) \in Nat, AccountTokens(q, p, a),
           NEW k \in 1 .. 6
    PROVE  LET f == IF k = 1 THEN p + FieldPos(a, k) - 1 ELSE p + FieldPos(a, k)
           IN  /\ f \in Nat /\ FieldPos(a, k) \in Nat
               /\ f + 3 = p + FieldEnd(a, k) /\ FieldEnd(a, k) \in Nat
               /\ k # 1 => q[f] = Char(Comma)
               /\ FieldTokens(q, f, AccountFields[k])
               /\ q[f + 3] = FieldToken(a, k)
               /\ FieldPos(a, k) >= 2 /\ FieldEnd(a, k) <= 23 + NameLen(a)
<1> DEFINE l == NameLen(a)
           n == p + l
<1>1. l \in Nat /\ n \in Nat
  OBVIOUS
<1>2. /\ FieldTokens(q, p + 1, "number") /\ q[p + 4] = Num(a.number)
      /\ q[p + 5] = Char(Comma) /\ FieldTokens(q, p + 5, "pin") /\ q[p + 8] = Num(a.pin)
      /\ q[p + 9] = Char(Comma) /\ FieldTokens(q, p + 9, "name")
      /\ q[p + 12] = Char(Quote)
      /\ q[n + 12] = Char(Comma) /\ FieldTokens(q, n + 12, "balance")
      /\ q[n + 15] = Num(a.balance)
      /\ q[n + 16] = Char(Comma) /\ FieldTokens(q, n + 16, "ntran")
      /\ q[n + 19] = Num(a.ntran)
      /\ q[n + 20] = Char(Comma) /\ FieldTokens(q, n + 20, "last")
      /\ q[n + 23] = Char(Bracket)
  <2>1. NameTokens(q, p + 11, a.name)
    BY DEF AccountTokens
  <2>2. q[(p + 11) + 1] = Char(Quote)
    BY <2>1 DEF NameTokens
  <2>3. (p + 11) + 1 = p + 12
    OBVIOUS
  <2>. QED  BY <2>2, <2>3 DEF AccountTokens
<1> HIDE DEF l
<1>3. CASE k = 1
  <2>1. FieldPos(a, k) = 2 /\ FieldEnd(a, k) = 4 /\ p + FieldPos(a, k) - 1 = p + 1
    BY <1>3 DEF FieldPos, FieldEnd
  <2>2. AccountFields[k] = "number" /\ FieldToken(a, k) = Num(a.number)
    BY <1>3 DEF AccountFields, FieldToken
  <2>. QED  BY <1>1, <1>2, <1>3, <2>1, <2>2
<1>4. CASE k = 2
  <2>1. FieldPos(a, k) = 5 /\ FieldEnd(a, k) = 8
    BY <1>4 DEF FieldPos, FieldEnd
  <2>2. AccountFields[k] = "pin" /\ FieldToken(a, k) = Num(a.pin)
    BY <1>4 DEF AccountFields, FieldToken
  <2>. QED  BY <1>1, <1>2, <1>4, <2>1, <2>2
<1>5. CASE k = 3
  <2>1. FieldPos(a, k) = 9 /\ FieldEnd(a, k) = 12
    BY <1>5 DEF FieldPos, FieldEnd
  <2>2. AccountFields[k] = "name" /\ FieldToken(a, k) = Char(Quote)
    BY <1>5 DEF AccountFields, FieldToken
  <2>. QED  BY <1>1, <1>2, <1>5, <2>1, <2>2
<1>6. CASE k = 4
  <2>1. FieldPos(a, k) = 12 + l /\ FieldEnd(a, k) = 15 + l
    BY <1>1, <1>6 DEF FieldPos, FieldEnd, l
  <2>2. AccountFields[k] = "balance" /\ FieldToken(a, k) = Num(a.balance)
    BY <1>6 DEF AccountFields, FieldToken
  <2>3. /\ p + FieldPos(a, k) = n + 12 /\ p + FieldEnd(a, k) = n + 15 /\ (n + 12) + 3 = n + 15
        /\ FieldPos(a, k) >= 2 /\ FieldEnd(a, k) <= 23 + NameLen(a)
    BY <1>1, <2>1 DEF l
  <2>. QED  BY <1>1, <1>2, <1>6, <2>1, <2>2, <2>3
<1>7. CASE k = 5
  <2>1. FieldPos(a, k) = 16 + l /\ FieldEnd(a, k) = 19 + l
    BY <1>1, <1>7 DEF FieldPos, FieldEnd, l
  <2>2. AccountFields[k] = "ntran" /\ FieldToken(a, k) = Num(a.ntran)
    BY <1>7 DEF AccountFields, FieldToken
  <2>3. /\ p + FieldPos(a, k) = n + 16 /\ p + FieldEnd(a, k) = n + 19 /\ (n + 16) + 3 = n + 19
        /\ FieldPos(a, k) >= 2 /\ FieldEnd(a, k) <= 23 + NameLen(a)
    BY <1>1, <2>1 DEF l
  <2>. QED  BY <1>1, <1>2, <1>7, <2>1, <2>2, <2>3
<1>8. CASE k = 6
  <2>1. FieldPos(a, k) = 20 + l /\ FieldEnd(a, k) = 23 + l
    BY <1>1, <1>8 DEF FieldPos, FieldEnd, l
  <2>2. AccountFields[k] = "last" /\ FieldToken(a, k) = Char(Bracket)
    BY <1>8 DEF AccountFields, FieldToken
  <2>3. /\ p + FieldPos(a, k) = n + 20 /\ p + FieldEnd(a, k) = n + 23 /\ (n + 20) + 3 = n + 23
        /\ FieldPos(a, k) >= 2 /\ FieldEnd(a, k) <= 23 + NameLen(a)
    BY <1>1, <2>1 DEF l
  <2>. QED  BY <1>1, <1>2, <1>8, <2>1, <2>2, <2>3
<1>. QED  BY <1>3, <1>4, <1>5, <1>6, <1>7, <1>8

\* The value of a field of an account, or that the file ends before it.
LEMMA FieldValue ==
    ASSUME IInv, at = "field"
    PROVE  LET a == saved.bank[slot]
               e == Base(saved, slot) + FieldEnd(a, field)
           IN  /\ e \in Nat /\ field \in 1 .. 6
               /\ ValueAt(AccountFields, field) = IF e <= Len(text) THEN e ELSE 0
               /\ e <= Len(text) => text[e] = FieldToken(a, field)
               /\ e < Base(saved, slot) + AccountLen(a)
<1> DEFINE a == saved.bank[slot]
           p == Base(saved, slot)
           q == save_data(saved)
           f == IF field = 1 THEN p + FieldPos(a, field) - 1 ELSE p + FieldPos(a, field)
           e == p + FieldEnd(a, field)
<1>1. at \in Inside
  BY DEF Inside
<1>2. /\ p \in Nat /\ AccountTokens(q, p, a) /\ Len(text) \in Nat
      /\ NameLen(a) \in Nat /\ LastLen(a) \in Nat
  BY <1>1, Context
<1>3. field \in 1 .. 6 /\ pos = p + FieldPos(a, field) /\ Prefix
  BY <1>1 DEF IInv, ReadsAccount, Reads, ReadsField
<1>4. /\ f \in Nat /\ FieldPos(a, field) \in Nat
      /\ f + 3 = e /\ FieldEnd(a, field) \in Nat
      /\ field # 1 => q[f] = Char(Comma)
      /\ FieldTokens(q, f, AccountFields[field])
      /\ q[f + 3] = FieldToken(a, field)
      /\ FieldPos(a, field) >= 2 /\ FieldEnd(a, field) <= 23 + NameLen(a)
  <2> HIDE DEF a, p, q, f, e
  <2>1. LET g == IF field = 1 THEN p + FieldPos(a, field) - 1 ELSE p + FieldPos(a, field)
        IN  /\ g \in Nat /\ FieldPos(a, field) \in Nat
            /\ g + 3 = p + FieldEnd(a, field) /\ FieldEnd(a, field) \in Nat
            /\ field # 1 => q[g] = Char(Comma)
            /\ FieldTokens(q, g, AccountFields[field])
            /\ q[g + 3] = FieldToken(a, field)
            /\ FieldPos(a, field) >= 2 /\ FieldEnd(a, field) <= 23 + NameLen(a)
    BY <1>2, <1>3, FieldPlaces
  <2>. QED  BY <2>1 DEF f, e
<1>5. FieldPos(a, field) >= 2 /\ FieldEnd(a, field) < AccountLen(a)
  <2> DEFINE l == NameLen(a)
  <2>1. AccountLen(a) >= 25 + l /\ AccountLen(a) \in Int
    BY <1>2 DEF AccountLen
  <2>2. /\ FieldPos(a, field) >= 2 /\ FieldEnd(a, field) <= 23 + l
        /\ FieldEnd(a, field) \in Nat /\ l \in Nat
    BY <1>2, <1>4
  <2>. QED  BY ONLY <2>1, <2>2
<1> HIDE DEF a, p, q
<1>6. pos \in Nat \ {0} /\ pos = IF field = 1 THEN f + 1 ELSE f
  <2> DEFINE x == FieldPos(a, field)
  <2>1. x \in Nat /\ x >= 2 /\ p \in Nat /\ pos = p + x
    BY <1>2, <1>3, <1>4
  <2> HIDE DEF x
  <2>2. f = IF field = 1 THEN p + x - 1 ELSE p + x
    BY DEF x
  <2> HIDE DEF f
  <2>. QED  BY <2>1, <2>2
<1>7. e \in Nat /\ e # 0 /\ e < p + AccountLen(a)
  <2>1. AccountLen(a) \in Int
    BY <1>2 DEF AccountLen
  <2>2. p \in Nat /\ FieldEnd(a, field) \in Nat /\ f \in Nat /\ f + 3 = e
    BY <1>2, <1>4
  <2> HIDE DEF f
  <2>. QED  BY <1>5, <2>1, <2>2
<1> HIDE DEF f, e
<1>8. ValueAt(AccountFields, field) = IF f + 3 <= Len(text) THEN f + 3 ELSE 0
  BY <1>3, <1>4, <1>6, ValueIs DEF q
<1>9. e <= Len(text) => text[e] = q[e]
  BY <1>3, <1>7, IsThere DEF q
<1>. QED  BY <1>3, <1>4, <1>7, <1>8, <1>9 DEF a, p, e

\* One account changes.
LEMMA BankChange ==
    ASSUME NEW h \in LoadedHeap, NEW s \in Slots, NEW b \in LoadedAcc
    PROVE  LET g == [h EXCEPT !.bank[s] = b]
           IN  /\ g \in LoadedHeap
               /\ g.accounts_in_use = h.accounts_in_use /\ g.next_number = h.next_number
               /\ g.bank[s] = b /\ \A j \in Slots \ {s} : g.bank[j] = h.bank[j]
<1> DEFINE g == [h EXCEPT !.bank[s] = b]
           n == [h.bank EXCEPT ![s] = b]
<1>1. h.bank \in [Slots -> LoadedAcc] /\ h.accounts_in_use \in 0 .. MAX_ACCTS /\ h.next_number \in Nat
  BY DEF LoadedHeap
<1>2. n \in [Slots -> LoadedAcc] /\ n[s] = b /\ \A j \in Slots \ {s} : n[j] = h.bank[j]
  BY <1>1
<1>3. g = [bank |-> n, accounts_in_use |-> h.accounts_in_use, next_number |-> h.next_number]
  BY DEF LoadedHeap
<1> HIDE DEF n, g
<1>4. g.bank = n /\ g.accounts_in_use = h.accounts_in_use /\ g.next_number = h.next_number
  BY <1>3
<1>5. g \in LoadedHeap
  BY <1>1, <1>2, <1>3 DEF LoadedHeap
<1>. QED  BY <1>2, <1>4, <1>5 DEF g

\* One field of it changes.
LEMMA FieldChange ==
    ASSUME NEW h \in LoadedHeap, NEW s \in Slots, NEW x
    PROVE  LET b == h.bank[s]
           IN  /\ b \in LoadedAcc
               /\ [h EXCEPT !.bank[s].number = x] =
                      [h EXCEPT !.bank[s] = [b EXCEPT !.number = x]]
               /\ [h EXCEPT !.bank[s].pin = x] = [h EXCEPT !.bank[s] = [b EXCEPT !.pin = x]]
               /\ [h EXCEPT !.bank[s].name = x] = [h EXCEPT !.bank[s] = [b EXCEPT !.name = x]]
               /\ [h EXCEPT !.bank[s].balance = x] =
                      [h EXCEPT !.bank[s] = [b EXCEPT !.balance = x]]
               /\ [h EXCEPT !.bank[s].ntran = x] = [h EXCEPT !.bank[s] = [b EXCEPT !.ntran = x]]
  BY DEF LoadedHeap

\* What Field stores: field k, if it is one that is stored at once.
Stores(b, a, c, k) ==
    /\ c.number = (IF k = 1 THEN a.number ELSE b.number)
    /\ c.pin = (IF k = 2 THEN a.pin ELSE b.pin)
    /\ c.balance = (IF k = 4 THEN a.balance ELSE b.balance)
    /\ c.ntran = (IF k = 5 THEN a.ntran ELSE b.ntran)
    /\ c.name = b.name /\ c.last = b.last

\* One more field is there.
LEMMA OneMore ==
    ASSUME NEW b, NEW a, NEW c, NEW k \in 1 .. 6, FieldsRead(b, a, k - 1), Stores(b, a, c, k),
           k # 3
    PROVE  FieldsRead(c, a, IF k = 6 THEN 5 ELSE k)
  BY DEF FieldsRead, Stores

\* What a field that is there makes of the globals.
LEMMA FieldStored ==
    ASSUME IInv, Field, ValueAt(AccountFields, field) # 0
    PROVE  /\ heap' \in LoadedHeap /\ heap'.accounts_in_use = heap.accounts_in_use
           /\ heap'.next_number = heap.next_number
           /\ \A j \in Slots \ {slot} : heap'.bank[j] = heap.bank[j]
           /\ Stores(heap.bank[slot], saved.bank[slot], heap'.bank[slot], field)
<1> DEFINE a == saved.bank[slot]
           b == heap.bank[slot]
           v == ValueAt(AccountFields, field)
           x == text[v][2]
<1>1. at = "field" /\ at \in Inside
  BY DEF Field, Inside
<1>2. /\ slot \in Slots /\ a \in NamedAccount /\ b \in LoadedAcc
      /\ heap \in LoadedHeap
  BY <1>1, Context DEF IInv, Types
<1>3. field \in 1 .. 6 /\ text[v] = FieldToken(a, field)
  BY <1>1, FieldValue
<1>4. heap' = CASE field = 1 -> [heap EXCEPT !.bank[slot].number = x]
                [] field = 2 -> [heap EXCEPT !.bank[slot].pin = x]
                [] field = 4 -> [heap EXCEPT !.bank[slot].balance = x]
                [] field = 5 -> [heap EXCEPT !.bank[slot].ntran = x]
                [] OTHER -> heap
  BY DEF Field
<1>5. a.number \in Nat /\ a.pin \in Nat /\ a.balance \in CInt /\ a.ntran \in Nat
  BY <1>2 DEF NamedAccount
<1> HIDE DEF a, b, v
<1>6. /\ field = 1 => x = a.number
      /\ field = 2 => x = a.pin
      /\ field = 4 => x = a.balance
      /\ field = 5 => x = a.ntran
  BY <1>3, TokenFacts DEF FieldToken
<1> HIDE DEF x
<1>7. \/ /\ field \in {3, 6} /\ heap' = heap
      \/ \E c \in LoadedAcc : heap' = [heap EXCEPT !.bank[slot] = c] /\ Stores(b, a, c, field)
  <2>1. CASE field = 1
    <3> DEFINE c == [b EXCEPT !.number = x]
    <3>1. c \in LoadedAcc /\ Stores(b, a, c, field)
      <4>1. x = a.number /\ x \in Nat /\ b \in LoadedAcc
        BY <1>2, <1>5, <1>6, <2>1
      <4>2. /\ c \in LoadedAcc /\ c.number = x /\ c.pin = b.pin /\ c.name = b.name
            /\ c.balance = b.balance /\ c.ntran = b.ntran /\ c.last = b.last
        BY <4>1 DEF LoadedAcc
      <4> HIDE DEF c
      <4>. QED  BY <2>1, <4>1, <4>2 DEF Stores
    <3>2. heap' = [heap EXCEPT !.bank[slot] = c]
      BY <1>2, <1>4, <2>1, FieldChange DEF b
    <3>. QED  BY <3>1, <3>2
  <2>2. CASE field = 2
    <3> DEFINE c == [b EXCEPT !.pin = x]
    <3>1. c \in LoadedAcc /\ Stores(b, a, c, field)
      <4>1. x = a.pin /\ x \in Nat /\ b \in LoadedAcc
        BY <1>2, <1>5, <1>6, <2>2
      <4>2. /\ c \in LoadedAcc /\ c.number = b.number /\ c.pin = x /\ c.name = b.name
            /\ c.balance = b.balance /\ c.ntran = b.ntran /\ c.last = b.last
        BY <4>1 DEF LoadedAcc
      <4> HIDE DEF c
      <4>. QED  BY <2>2, <4>1, <4>2 DEF Stores
    <3>2. heap' = [heap EXCEPT !.bank[slot] = c]
      BY <1>2, <1>4, <2>2, FieldChange DEF b
    <3>. QED  BY <3>1, <3>2
  <2>3. CASE field = 4
    <3> DEFINE c == [b EXCEPT !.balance = x]
    <3>1. c \in LoadedAcc /\ Stores(b, a, c, field)
      <4>1. x = a.balance /\ x \in CInt /\ b \in LoadedAcc
        BY <1>2, <1>5, <1>6, <2>3
      <4>2. /\ c \in LoadedAcc /\ c.number = b.number /\ c.pin = b.pin /\ c.name = b.name
            /\ c.balance = x /\ c.ntran = b.ntran /\ c.last = b.last
        BY <4>1 DEF LoadedAcc
      <4> HIDE DEF c
      <4>. QED  BY <2>3, <4>1, <4>2 DEF Stores
    <3>2. heap' = [heap EXCEPT !.bank[slot] = c]
      BY <1>2, <1>4, <2>3, FieldChange DEF b
    <3>. QED  BY <3>1, <3>2
  <2>4. CASE field = 5
    <3> DEFINE c == [b EXCEPT !.ntran = x]
    <3>1. c \in LoadedAcc /\ Stores(b, a, c, field)
      <4>1. x = a.ntran /\ x \in Nat /\ b \in LoadedAcc
        BY <1>2, <1>5, <1>6, <2>4
      <4>2. /\ c \in LoadedAcc /\ c.number = b.number /\ c.pin = b.pin /\ c.name = b.name
            /\ c.balance = b.balance /\ c.ntran = x /\ c.last = b.last
        BY <4>1 DEF LoadedAcc
      <4> HIDE DEF c
      <4>. QED  BY <2>4, <4>1, <4>2 DEF Stores
    <3>2. heap' = [heap EXCEPT !.bank[slot] = c]
      BY <1>2, <1>4, <2>4, FieldChange DEF b
    <3>. QED  BY <3>1, <3>2
  <2>5. CASE field \in {3, 6}
    BY <1>4, <2>5
  <2>. QED  BY <1>3, <2>1, <2>2, <2>3, <2>4, <2>5
<1>8. CASE field \in {3, 6} /\ heap' = heap
  BY <1>2, <1>8 DEF Stores, a, b
<1>9. CASE \E c \in LoadedAcc : heap' = [heap EXCEPT !.bank[slot] = c] /\ Stores(b, a, c, field)
  <2>1. PICK c \in LoadedAcc : heap' = [heap EXCEPT !.bank[slot] = c] /\ Stores(b, a, c, field)
    BY <1>9
  <2> DEFINE g == [heap EXCEPT !.bank[slot] = c]
  <2>2. /\ g \in LoadedHeap
        /\ g.accounts_in_use = heap.accounts_in_use /\ g.next_number = heap.next_number
        /\ g.bank[slot] = c /\ \A j \in Slots \ {slot} : g.bank[j] = heap.bank[j]
    BY <1>2, BankChange
  <2> HIDE DEF g
  <2>3. heap' = g
    BY <2>1 DEF g
  <2>. QED  BY <2>1, <2>2, <2>3 DEF a, b
<1>. QED  BY <1>7, <1>8, <1>9

\* The next field begins right after the value of this one.
LEMMA FieldSteps ==
    ASSUME NEW a, NameLen(a) \in Nat, NEW k \in 1 .. 6
    PROVE  /\ k \in {1, 2, 4, 5} => FieldEnd(a, k) + 1 = FieldPos(a, k + 1)
           /\ k = 3 => FieldEnd(a, k) + 1 = 13
           /\ k = 6 => FieldEnd(a, k) + 1 = 24 + NameLen(a)
<1> DEFINE l == NameLen(a)
<1> HIDE DEF l
<1>1. l \in Nat /\ NameLen(a) = l
  BY DEF l
<1>2. CASE k = 1
  <2>1. k + 1 = 2
    BY <1>2
  <2>2. FieldEnd(a, k) = 4 /\ FieldPos(a, k + 1) = 5
    BY <1>2, <2>1 DEF FieldPos, FieldEnd
  <2>. QED  BY <1>2, <2>2
<1>3. CASE k = 2
  <2>1. k + 1 = 3
    BY <1>3
  <2>2. FieldEnd(a, k) = 8 /\ FieldPos(a, k + 1) = 9
    BY <1>3, <2>1 DEF FieldPos, FieldEnd
  <2>. QED  BY <1>3, <2>2
<1>4. CASE k = 3
  <2>1. FieldEnd(a, k) = 12
    BY <1>4 DEF FieldPos, FieldEnd
  <2>. QED  BY <1>4, <2>1
<1>5. CASE k = 4
  <2>1. k + 1 = 5
    BY <1>5
  <2>2. FieldEnd(a, k) = 15 + l /\ FieldPos(a, k + 1) = 16 + l
    BY <1>1, <1>5, <2>1 DEF FieldPos, FieldEnd
  <2>. QED  BY <1>1, <1>5, <2>2
<1>6. CASE k = 5
  <2>1. k + 1 = 6
    BY <1>6
  <2>2. FieldEnd(a, k) = 19 + l /\ FieldPos(a, k + 1) = 20 + l
    BY <1>1, <1>6, <2>1 DEF FieldPos, FieldEnd
  <2>. QED  BY <1>1, <1>6, <2>2
<1>7. CASE k = 6
  <2>1. FieldEnd(a, k) = 23 + l
    BY <1>1, <1>7 DEF FieldPos, FieldEnd
  <2>. QED  BY <1>1, <1>7, <2>1
<1>. QED  BY <1>2, <1>3, <1>4, <1>5, <1>6, <1>7

\* A field of an account.
LEMMA FieldKeeps == IInv /\ Field => IInv'
<1> SUFFICES ASSUME IInv, Field
             PROVE  IInv'
  OBVIOUS
<1> DEFINE a == saved.bank[slot]
           b == heap.bank[slot]
           c == heap'.bank[slot]
           p == Base(saved, slot)
           e == p + FieldEnd(a, field)
           v == ValueAt(AccountFields, field)
<1>1. at = "field" /\ at \in Inside
  BY DEF Field, Inside
<1>2. /\ p \in Nat /\ NameLen(a) \in Nat /\ Len(text) \in Nat
      /\ a.name \in Seq(Byte) /\ Len(Kept(a)) \in Nat
  BY <1>1, Context
<1>3. /\ e \in Nat /\ field \in 1 .. 6
      /\ v = IF e <= Len(text) THEN e ELSE 0
      /\ e < p + AccountLen(a)
  BY <1>1, FieldValue
<1>4. CASE v = 0
  <2>1. Stop(slot)
    BY <1>4 DEF Field
  <2>2. Len(text) < p + AccountLen(a)
    <3>1. AccountLen(a) \in Nat
      BY <1>1, Context
    <3>2. e # 0
      <4>1. 16 <= p /\ FieldEnd(a, field) \in Nat
        BY <1>1, <1>3, Context, FieldPlaces
      <4>. QED  BY <1>2, <4>1
    <3> HIDE DEF e, v
    <3>. QED  BY <1>2, <1>3, <1>4, <3>1, <3>2
  <2>. QED  BY <1>1, <2>1, <2>2, StopInside
<1>5. CASE v # 0
  <2>1. v = e /\ e <= Len(text)
    BY <1>3, <1>5
  <2>2. /\ heap' \in LoadedHeap /\ heap'.accounts_in_use = heap.accounts_in_use
        /\ heap'.next_number = heap.next_number
        /\ \A j \in Slots \ {slot} : heap'.bank[j] = heap.bank[j]
        /\ Stores(b, a, c, field)
    BY <1>5, FieldStored
  <2>3. /\ at' = (CASE field = 3 -> "name" [] field = 6 -> "array" [] OTHER -> "field")
        /\ field' = field + 1 /\ pos' = v + 1
        /\ UNCHANGED <<saved, text, trip, slot>> /\ name' = << >> /\ trans_read' = 0
    BY <1>5 DEF Field, Goes
  <2>4. /\ name' \in LoadedName /\ Len(name') < NameSize /\ trans_read' \in 0 .. TRANS_KEEP
        /\ at' \in Inside /\ at' # "closing" /\ at' # "tran"
        /\ pos' \in Nat /\ pos' <= Len(text) + 1
    <3>1. name' \in LoadedName /\ Len(name') = 0
      BY <2>3, EmptySeq DEF LoadedName
    <3>2. trans_read' \in 0 .. TRANS_KEEP /\ 0 < NameSize
      BY <2>3, BankAssumption, JsonAssumption
    <3>3. at' \in Inside /\ at' # "closing" /\ at' # "tran"
      BY <2>3 DEF Inside
    <3>4. pos' \in Nat /\ pos' <= Len(text) + 1
      BY <1>2, <1>3, <2>1, <2>3
    <3>. QED  BY <3>1, <3>2, <3>3, <3>4
  <2>5. FieldsRead(b, a, field - 1) /\ NoLast(b)
    BY <1>1 DEF IInv, ReadsAccount, Reads, ReadsField
  <2>6. NoLast(c)
    BY <2>2, <2>5 DEF NoLast, Stores
  <2>7. /\ field \in {1, 2, 4, 5} => FieldEnd(a, field) + 1 = FieldPos(a, field + 1)
        /\ field = 3 => FieldEnd(a, field) + 1 = 13
        /\ field = 6 => FieldEnd(a, field) + 1 = 24 + NameLen(a)
    BY <1>2, <1>3, FieldSteps
  <2>8. Reads'
    <3> HIDE DEF a, b, c, p
    <3>0. FieldEnd(a, field) \in Nat /\ e = p + FieldEnd(a, field)
      BY <1>1, <1>2, <1>3, Context, FieldPlaces DEF a, p
    <3>1. CASE field \in {1, 2, 4, 5}
      <4>1. at' = "field" /\ field' \in 1 .. 6 /\ field' - 1 = field
        BY <1>3, <2>3, <3>1
      <4>2. pos' = p + FieldPos(a, field')
        BY <1>2, <2>1, <2>3, <2>7, <3>0, <3>1
      <4>3. FieldsRead(c, a, field)
        BY <1>3, <2>2, <2>5, <3>1, OneMore
      <4>. QED  BY <2>3, <2>6, <4>1, <4>2, <4>3 DEF Reads, ReadsField, a, c, p
    <3>2. CASE field = 3
      <4> DEFINE s == a.name
      <4>1. at' = "name" /\ field' = 4
        BY <2>3, <3>2
      <4>2. NameOff(s, 0) = 0 /\ Len(s) \in Nat
        BY <1>2, NameOffs, LenProperties
      <4>3. pos' = p + 13 + NameOff(s, 0) + 0
        BY <1>2, <2>1, <2>3, <2>7, <3>0, <3>2, <4>2
      <4>4. SubSeq(s, 1, 0) = << >>
        BY <1>2, EmptySeq
      <4>5. FieldsRead(c, a, 2)
        BY <2>2, <2>5, <3>2 DEF FieldsRead, Stores
      <4>6. 0 \in 0 .. Len(s) /\ 0 \in {0, 6, 7, 8, 9}
        BY <4>2
      <4>. QED  BY <2>3, <2>6, <4>1, <4>3, <4>4, <4>5, <4>6 DEF Reads, ReadsName, a, c, p
    <3>3. CASE field = 6
      <4>1. at' = "array"
        BY <2>3, <3>3
      <4>2. pos' = p + 23 + NameLen(a) + 14 * trans_read' + 1
        <5>1. PICK w \in Nat : w = NameLen(a)
          BY <1>2
        <5>2. trans_read' = 0 /\ FieldEnd(a, field) + 1 = 24 + w
          BY <2>3, <2>7, <3>3, <5>1
        <5>3. pos' = p + (24 + w) /\ p \in Nat
          BY <1>2, <2>1, <2>3, <3>0, <5>2
        <5>4. p + (24 + w) = p + 23 + w + 14 * 0 + 1
          BY ONLY <5>3, w \in Nat
        <5>. QED  BY <5>1, <5>2, <5>3, <5>4
      <4>3. FieldsRead(c, a, 5)
        BY <2>2, <2>5, <3>3 DEF FieldsRead, Stores
      <4>4. LastRead(c, a, 0)
        BY <2>6, BankAssumption DEF LastRead, NoLast, Ring
      <4>5. 0 \in 0 .. Len(Kept(a))
        BY <1>2
      <4>. QED  BY <2>3, <4>1, <4>2, <4>3, <4>4, <4>5 DEF Reads, ReadsArray, a, c, p
    <3>. QED  BY <1>3, <3>1, <3>2, <3>3
  <2>. QED  BY <1>1, <2>2, <2>3, <2>4, <2>8, InsideKeeps
<1>. QED  BY <1>4, <1>5

-----------------------------------------------------------------------------
(* The characters of a name.                                               *)

\* The bytes that stand for character j + 1 of a name.
LEMMA NameBytes ==
    ASSUME NEW s \in Seq(Byte), NEW q, NEW p \in Nat, NameTokens(q, p, s),
           NEW j \in 0 .. Len(s) - 1
    PROVE  LET b == s[j + 1]
               e == Escaped(b)
           IN  /\ j + 1 \in 0 .. Len(s) /\ j + 1 \in 1 .. Len(s) /\ b \in Byte /\ EscapedAs(b, e)
               /\ NameOff(s, j) \in Nat /\ Len(e) \in Nat
               /\ NameOff(s, j + 1) = NameOff(s, j) + Len(e)
               /\ NameOff(s, j) + Len(e) <= NameOff(s, Len(s)) + 1
               /\ \A i \in 1 .. Len(e) : q[p + 1 + NameOff(s, j) + i] = Char(e[i])
<1> DEFINE k == j + 1
           b == s[k]
           e == Escaped(b)
           n == NameOff(s, j)
<1>1. Len(s) \in Nat
  BY LenProperties
<1>2. k \in 0 .. Len(s) /\ k \in 1 .. Len(s) /\ k - 1 = j /\ j \in 0 .. Len(s) /\ Len(s) \in 0 .. Len(s)
  BY <1>1
<1> HIDE DEF k
<1>3. b \in Byte
  BY <1>2
<1>4. EscapedAs(b, e) /\ Len(e) \in Nat \ {0}
  <2>1. EscapedAs(b, e)
    BY <1>3, EscapedIs
  <2>2. e \in Seq(Int) /\ Len(e) \in {1, 2, 6, 10}
    BY <2>1 DEF EscapedAs
  <2> HIDE DEF b, e
  <2>3. Len(e) \in Nat /\ Len(e) # 0
    <3>1. Len(e) \in Nat
      BY <2>2, LenProperties
    <3>2. PICK l \in Nat : l = Len(e)
      BY <3>1
    <3>3. l = 1 \/ l = 2 \/ l = 6 \/ l = 10
      BY <2>2, <3>2
    <3>4. l # 0
      BY <3>3
    <3>. QED  BY <3>1, <3>2, <3>4
  <2>. QED  BY <2>1, <2>3
<1>5. n \in Nat /\ NameOff(s, k) = n + Len(e) /\ NameOff(s, Len(s)) \in Nat
  <2>1. /\ \A i \in 0 .. Len(s) : NameOff(s, i) \in Nat
        /\ \A i \in 1 .. Len(s) : NameOff(s, i) = NameOff(s, i - 1) + Len(Escaped(s[i]))
    BY NameOffs
  <2>. QED  BY <1>2, <2>1
<1> HIDE DEF b, n
<1>6. n + Len(e) <= NameOff(s, Len(s)) + 1
  <2>1. LET w == write_json_string(s)
        IN  /\ w \in Seq(Token) /\ Len(w) = NameOff(s, Len(s)) + 2
            /\ NameTokens(w, 0, s)
            /\ \A i \in 1 .. Len(s) : \A m \in 1 .. Len(Escaped(s[i])) :
                   1 + NameOff(s, i - 1) + m \in 1 .. Len(w)
    BY NameIs
  <2>2. \A m \in 1 .. Len(e) : 1 + n + m <= NameOff(s, Len(s)) + 2
    BY <1>2, <1>5, <2>1 DEF b, n
  <2>3. Len(e) \in 1 .. Len(e)
    BY <1>4
  <2>. QED  BY <1>4, <1>5, <2>2, <2>3
<1>7. \A i \in 1 .. Len(e) : q[p + 1 + n + i] = Char(e[i])
  BY <1>2 DEF NameTokens, b, n
<1>. QED  BY <1>2, <1>3, <1>4, <1>5, <1>6, <1>7 DEF k, b, n

\* A character that fits is put at the end of the name.
LEMMA PutIs ==
    ASSUME name \in LoadedName, Len(name) < NameSize, NEW b \in 1 .. 127, Put(b)
    PROVE  /\ name' \in LoadedName /\ Len(name') < NameSize
           /\ Len(name) < NameSize - 1 => name' = Append(name, b)
<1>1. Append(name, b) \in LoadedName /\ Len(Append(name, b)) = Len(name) + 1 /\ Len(name) \in Nat
  BY AppendProperties, LenProperties DEF LoadedName
<1>. QED  BY <1>1, JsonAssumption DEF Put

\* One more character of the name is there.
LEMMA OneMoreByte ==
    ASSUME NEW s \in Seq(Byte), Len(s) < NameSize, NEW j \in 0 .. Len(s) - 1
    PROVE  /\ Len(SubSeq(s, 1, j)) < NameSize - 1
           /\ Append(SubSeq(s, 1, j), s[j + 1]) = SubSeq(s, 1, j + 1)
<1> DEFINE u == SubSeq(s, 1, j)
           w == SubSeq(s, 1, j + 1)
<1>1. Len(s) \in Nat /\ NameSize \in Nat
  BY LenProperties, JsonAssumption
<1>2. u \in Seq(Byte) /\ Len(u) = j /\ \A i \in 1 .. j : u[i] = s[i]
  BY <1>1, SubSeqProperties
<1>3. w \in Seq(Byte) /\ Len(w) = j + 1 /\ \A i \in 1 .. j + 1 : w[i] = s[i]
  BY <1>1, SubSeqProperties
<1>4. s[j + 1] \in Byte
  BY <1>1
<1> HIDE DEF u, w
<1>5. /\ Append(u, s[j + 1]) \in Seq(Byte) /\ Len(Append(u, s[j + 1])) = j + 1
      /\ \A i \in 1 .. j : Append(u, s[j + 1])[i] = u[i]
      /\ Append(u, s[j + 1])[j + 1] = s[j + 1]
  BY <1>2, <1>4, AppendProperties
<1>6. \A i \in 1 .. j + 1 : Append(u, s[j + 1])[i] = w[i]
  BY <1>1, <1>2, <1>3, <1>5
<1>7. Append(u, s[j + 1]) = w
  BY <1>3, <1>5, <1>6, SeqEqual
<1>. QED  BY <1>1, <1>2, <1>7 DEF u, w

\* The value of a hexadecimal digit.
DigitValue(c) == IF c < 58 THEN c - 48 ELSE c - 87

\* It is read as it was written.
LEMMA DigitBack ==
    ASSUME NEW d \in 0 .. 15
    PROVE  DigitValue(HexDigit(d)) = d
  BY DEF DigitValue, HexDigit

\* The byte that four digits say: the ones written for a byte below 32.
LEMMA SpelledLow ==
    ASSUME NEW b \in Byte, b < 32, NEW x, x[1] = 48, x[2] = 48,
           x[3] = HexDigit(b \div 16), x[4] = HexDigit(b % 16)
    PROVE  Spelled(x) = b
<1> DEFINE h == b \div 16
           l == b % 16
<1>1. h \in 0 .. 15 /\ l \in 0 .. 15 /\ 16 * h + l = b
  BY DigitsOf
<1> HIDE DEF h, l
<1>2. DigitValue(x[3]) = h /\ DigitValue(x[4]) = l
  BY <1>1, DigitBack DEF h, l
<1>3. DigitValue(x[1]) = 0 /\ DigitValue(x[2]) = 0
  BY DEF DigitValue
<1>4. Spelled(x) = 4096 * DigitValue(x[1]) + 256 * DigitValue(x[2])
                       + 16 * DigitValue(x[3]) + DigitValue(x[4])
  BY DEF Spelled, DigitValue
<1>. QED  BY <1>1, <1>2, <1>3, <1>4

\* And the first ones written for a byte from 128 on, which are of no byte.
LEMMA SpelledHigh ==
    ASSUME NEW x, x[1] = 102, x[2] = 102, x[3] = 102, x[4] = 102
    PROVE  ~ Spelled(x) < 256
<1>1. DigitValue(102) = 15
  BY DEF DigitValue
<1>2. Spelled(x) = 4096 * DigitValue(x[1]) + 256 * DigitValue(x[2])
                       + 16 * DigitValue(x[3]) + DigitValue(x[4])
  BY DEF Spelled, DigitValue
<1>. QED  BY <1>1, <1>2

\* A letter after a backslash.
LEMMA UnescapedIs ==
    /\ \A b \in DOMAIN Short : Unescaped(Short[b]) = b /\ Short[b] # 117
    /\ Unescaped(Quote) = Quote /\ Unescaped(Backslash) = Backslash
    /\ Quote # 117 /\ Backslash # 117
<1>1. ASSUME NEW b \in DOMAIN Short
      PROVE  Unescaped(Short[b]) = b /\ Short[b] # 117
  <2>1. \A c \in DOMAIN Short : Short[c] = Short[b] => c = b
    BY ShortIs
  <2>2. Short[b] # 117
    BY ShortIs
  <2>. QED  BY <2>1, <2>2 DEF Unescaped
<1>2. \A c \in DOMAIN Short : Short[c] # Quote /\ Short[c] # Backslash
  BY ShortIs DEF Quote, Backslash
<1>3. Unescaped(Quote) = Quote /\ Unescaped(Backslash) = Backslash
  BY <1>2 DEF Unescaped
<1>. QED  BY <1>1, <1>3 DEF Quote, Backslash

\* The reader stays within the name.
LEMMA NameGoes ==
    ASSUME IInv, at = "name", at' = "name", field' = field,
           UNCHANGED <<saved, text, trip, slot, trans_read, heap>>,
           NEW j \in 0 .. Len(saved.bank[slot].name), NEW d \in {0, 6, 7, 8, 9},
           pos' = Base(saved, slot) + 13 + NameOff(saved.bank[slot].name, j) + d,
           pos' \in Nat, pos' <= Len(text) + 1,
           d # 0 => j < Len(saved.bank[slot].name) /\ saved.bank[slot].name[j + 1] >= 128,
           name' \in LoadedName, Len(name') < NameSize,
           Plain(saved.bank[slot].name) => name' = SubSeq(saved.bank[slot].name, 1, j)
    PROVE  IInv'
<1>1. at \in Inside /\ at' \in Inside
  BY DEF Inside
<1>2. Types /\ ReadsName(Base(saved, slot), heap.bank[slot], saved.bank[slot])
  BY <1>1 DEF IInv, ReadsAccount, Reads
<1>3. Reads'
  BY <1>2 DEF Reads, ReadsName
<1>4. heap' \in LoadedHeap /\ trans_read' \in 0 .. TRANS_KEEP
  BY <1>2 DEF Types
<1>. QED  BY <1>1, <1>3, <1>4, InsideKeeps

\* The four ways a character is written.
LEMMA EscapedKinds ==
    ASSUME NEW b \in Byte
    PROVE  LET x == Escaped(b)
           IN  \/ b \in 32 .. 127 /\ b # Quote /\ b # Backslash /\ Len(x) = 1 /\ x[1] = b
               \/ b < 128 /\ Len(x) = 2 /\ x[1] = Backslash /\ x[2] # 117 /\ Unescaped(x[2]) = b
               \/ /\ b < 32 /\ Len(x) = 6 /\ x[1] = Backslash /\ x[2] = 117 /\ x[3] = 48 /\ x[4] = 48
                  /\ x[5] = HexDigit(b \div 16) /\ x[6] = HexDigit(b % 16)
               \/ /\ b >= 128 /\ Len(x) = 10 /\ x[1] = Backslash /\ x[2] = 117
                  /\ x[3] = 102 /\ x[4] = 102 /\ x[5] = 102 /\ x[6] = 102
                  /\ x[7] = 102 /\ x[8] = 102
                  /\ x[9] \in 48 .. 102 /\ x[9] # Backslash
                  /\ x[10] \in 48 .. 102 /\ x[10] # Backslash
<1> DEFINE x == Escaped(b)
<1>1. EscapedAs(b, x)
  BY EscapedIs
<1> HIDE DEF x
<1>2. CASE b \in {Quote, Backslash} \cup DOMAIN Short
  <2>1. Len(x) = 2 /\ x[1] = Backslash /\ x[2] = IF b \in DOMAIN Short THEN Short[b] ELSE b
    BY <1>1, <1>2 DEF EscapedAs
  <2>2. b < 128
    BY <1>2, ShortIs DEF Quote, Backslash
  <2>3. x[2] # 117 /\ Unescaped(x[2]) = b
    BY <1>2, <2>1, UnescapedIs
  <2>. QED  BY <2>1, <2>2, <2>3 DEF x
<1>3. CASE b < 32 /\ b \notin DOMAIN Short
  BY <1>1, <1>3 DEF EscapedAs, x
<1>4. CASE b >= 128
  <2>1. /\ Len(x) = 10 /\ x[1] = Backslash /\ x[2] = 117
        /\ \A i \in 3 .. 8 : x[i] = 102
        /\ x[9] = HexDigit(b \div 16) /\ x[10] = HexDigit(b % 16)
    BY <1>1, <1>4 DEF EscapedAs
  <2>2. b \div 16 \in 0 .. 15 /\ b % 16 \in 0 .. 15
    BY DigitsOf
  <2>3. /\ x[9] \in 48 .. 102 /\ x[9] # Backslash
        /\ x[10] \in 48 .. 102 /\ x[10] # Backslash
    BY <2>1, <2>2, HexDigitIs DEF Backslash
  <2>. QED  BY <1>4, <2>1, <2>3 DEF x
<1>5. CASE b \in 32 .. 127 /\ b # Quote /\ b # Backslash
  <2>1. Len(x) = 1 /\ x[1] = b
    BY <1>1, <1>5 DEF EscapedAs
  <2>. QED  BY <1>5, <2>1 DEF x
<1>6. b \in Nat
  BY DEF Byte
<1>. QED  BY <1>2, <1>3, <1>4, <1>5, <1>6

\* A character of a name.
LEMMA NameKeeps == IInv /\ NameChar => IInv'
<1> SUFFICES ASSUME IInv, NameChar
             PROVE  IInv'
  OBVIOUS
<1> DEFINE a == saved.bank[slot]
           s == a.name
           p == Base(saved, slot)
           q == save_data(saved)
           left == Len(text) - pos + 1
           c == text[pos][2]
           e == text[pos + 1][2]
<1>1. at = "name" /\ at \in Inside
  BY DEF NameChar, Inside
<1>2. /\ p \in Nat /\ NameLen(a) \in Nat /\ Len(text) \in Nat
      /\ s \in Seq(Byte) /\ AccountTokens(q, p, a) /\ a \in NamedAccount
      /\ AccountLen(a) \in Nat /\ LastLen(a) \in Nat
      /\ slot \in Slots /\ heap.bank[slot] \in LoadedAcc
  BY <1>1, Context
<1>3. /\ Types /\ Prefix /\ pos <= Len(text) + 1
      /\ ReadsName(p, heap.bank[slot], a)
  BY <1>1 DEF IInv, ReadsAccount, Reads
<1>4. PICK j \in 0 .. Len(s), d \in {0, 6, 7, 8, 9} :
           /\ pos = p + 13 + NameOff(s, j) + d
           /\ d # 0 => j < Len(s) /\ s[j + 1] >= 128
           /\ Plain(s) => name = SubSeq(s, 1, j)
  BY <1>3 DEF ReadsName
<1>5. NameTokens(q, p + 11, s) /\ p + 11 \in Nat
  <2>1. NameTokens(q, p + 11, a.name)
    BY <1>2 DEF AccountTokens
  <2>. QED  BY <1>2, <2>1
<1>6. name \in LoadedName /\ Len(name) < NameSize /\ pos \in Nat /\ Len(s) \in Nat /\ Len(s) < NameSize
  BY <1>2, <1>3, LenProperties DEF Types, NamedAccount, Name
<1>7. NameOff(s, Len(s)) \in Nat /\ NameOff(s, j) \in Nat
  <2>1. Len(s) \in 0 .. Len(s)
    BY <1>6
  <2>. QED  BY <1>2, <2>1, NameOffs
<1> HIDE DEF s
<1>8. pos <= p + 14 + NameOff(s, Len(s)) /\ 13 <= pos
  <2>1. CASE j = Len(s)
    <3>1. d = 0
      BY <1>4, <1>6, <2>1
    <3>. QED  BY <1>2, <1>4, <1>7, <2>1, <3>1
  <2>2. CASE j < Len(s)
    <3>1. j \in 0 .. Len(s) - 1
      BY <1>6, <2>2
    <3> DEFINE x == Escaped(s[j + 1])
    <3>2. /\ NameOff(s, j) + Len(x) <= NameOff(s, Len(s)) + 1 /\ Len(x) \in Nat
          /\ EscapedAs(s[j + 1], x)
      BY <1>2, <1>5, <3>1, NameBytes DEF s
    <3>3. d # 0 => Len(x) = 10
      BY <1>4, <3>2 DEF EscapedAs
    <3> HIDE DEF x
    <3>4. d = 0 \/ (d \in Nat /\ d <= 9)
      BY <1>4
    <3>5. PICK l \in Nat : l = Len(x)
      BY <3>2
    <3>6. d <= l /\ d \in Nat
      <4>1. d # 0 => l = 10
        BY <3>3, <3>5
      <4> HIDE DEF left, c, e
      <4>. QED  BY ONLY <3>4, <3>5, <4>1
    <3>7. PICK m \in Nat : m = NameOff(s, j)
      BY <1>7
    <3>8. PICK n \in Nat : n = NameOff(s, Len(s))
      BY <1>7
    <3>9. m + l <= n + 1 /\ pos = p + 13 + m + d
      BY <1>4, <3>2, <3>5, <3>7, <3>8
    <3>10. pos <= p + 14 + n /\ 13 <= pos
      <4>1. p \in Nat
        BY <1>2
      <4> HIDE DEF p
      <4>. QED  BY ONLY <3>6, <3>9, <4>1, m \in Nat, l \in Nat, n \in Nat
    <3>. QED  BY <3>8, <3>10
  <2>. QED  BY <1>6, <2>1, <2>2
\* What it stops at is within the account.
<1>9. ASSUME Stop(slot), Len(text) < pos + 5
      PROVE  IInv'
  <2>1. NameLen(a) = NameOff(s, Len(s)) + 2
    BY DEF NameLen, s
  <2>2. AccountLen(a) >= 25 + NameLen(a)
    BY <1>2 DEF AccountLen
  <2> HIDE DEF a, p
  <2>3. NameLen(a) \in Nat /\ AccountLen(a) \in Nat /\ p \in Nat /\ Len(text) \in Nat
    BY <1>2
  <2>4. NameOff(s, Len(s)) \in Nat /\ pos \in Nat /\ pos <= p + 14 + NameOff(s, Len(s))
    BY <1>6, <1>7, <1>8
  <2>5. Len(text) < p + AccountLen(a)
    <3>1. PICK w \in Nat : w = NameLen(a)
      BY <2>3
    <3>2. PICK m \in Nat : m = NameOff(s, Len(s))
      BY <2>4
    <3>3. PICK r \in Nat : r = AccountLen(a)
      BY <2>3
    <3>4. PICK l \in Nat : l = Len(text)
      BY <2>3
    <3>5. w = m + 2 /\ r >= 25 + w /\ l < pos + 5 /\ pos <= p + 14 + m
      BY <1>9, <2>1, <2>2, <2>4, <3>1, <3>2, <3>3, <3>4
    <3>6. l < p + r
      BY ONLY <2>3, <2>4, <3>5, l \in Nat, m \in Nat, w \in Nat, r \in Nat
    <3>. QED  BY <3>3, <3>4, <3>6
  <2>. QED  BY <1>1, <1>9, <2>5, StopInside DEF a, p
<1>10. CASE left = 0 \/ (c = Backslash /\ left < 2)
  <2>1. Stop(slot)
    BY <1>10 DEF NameChar
  <2>2. Len(text) < pos + 5
    BY <1>2, <1>6, <1>10
  <2>. QED  BY <1>9, <2>1, <2>2
<1>11. CASE ~ (left = 0 \/ (c = Backslash /\ left < 2))
  <2>1. pos <= Len(text)
    BY <1>2, <1>3, <1>6, <1>11
  <2>2. c = q[pos][2]
    <3>1. pos # 0
      BY <1>6, <1>8
    <3>. QED  BY <1>3, <1>6, <2>1, <3>1, IsThere
  <2>3. CASE j = Len(s)
    <3>1. d = 0
      BY <1>4, <1>6, <2>3
    <3>2. c = Quote
      <4>1. q[(p + 11) + 2 + NameOff(s, Len(s))] = Char(Quote)
        BY <1>5 DEF NameTokens
      <4>2. pos = (p + 11) + 2 + NameOff(s, Len(s))
        BY <1>2, <1>4, <1>7, <2>3, <3>1
      <4>. QED  BY <2>2, <4>1, <4>2, TokenFacts
    <3>3. /\ at' = "field" /\ field' = field /\ pos' = pos + 1
          /\ UNCHANGED <<saved, text, trip, slot, trans_read, name>>
          /\ heap' = [heap EXCEPT !.bank[slot].name = name]
      BY <1>11, <3>2 DEF NameChar, Goes
    <3> DEFINE b == heap.bank[slot]
               g == [b EXCEPT !.name = name]
               h == [heap EXCEPT !.bank[slot] = g]
    <3>4. b \in LoadedAcc /\ heap \in LoadedHeap
      BY <1>2, <1>3 DEF Types
    <3>5. /\ g \in LoadedAcc /\ g.number = b.number /\ g.pin = b.pin /\ g.name = name
          /\ g.balance = b.balance /\ g.ntran = b.ntran /\ g.last = b.last
      <4> HIDE DEF b
      <4>. QED  BY <1>6, <3>4 DEF LoadedAcc
    <3>6. heap' = h
      BY <1>2, <3>3, <3>4, FieldChange
    <3> HIDE DEF g
    <3>7. /\ h \in LoadedHeap
          /\ h.accounts_in_use = heap.accounts_in_use /\ h.next_number = heap.next_number
          /\ h.bank[slot] = g /\ \A k \in Slots \ {slot} : h.bank[k] = heap.bank[k]
      BY <1>2, <3>4, <3>5, BankChange
    <3> HIDE DEF h, b
    <3>8. FieldsRead(b, a, 2) /\ NoLast(b) /\ field = 4 /\ trans_read = 0
      BY <1>3 DEF ReadsName, b
    <3>9. Plain(s) => name = s
      <4>1. SubSeq(s, 1, Len(s)) = s
        BY <1>2, <1>6, SubSeqFull
      <4>. QED  BY <1>4, <2>3, <4>1
    <3>10. FieldsRead(g, a, 3) /\ NoLast(g)
      BY <1>6, <3>5, <3>8, <3>9 DEF FieldsRead, NoLast, s
    <3>11. pos' = p + FieldPos(a, 4)
      <4>1. FieldPos(a, 4) = 12 + (NameOff(s, Len(s)) + 2)
        BY DEF FieldPos, NameLen, s
      <4>. QED  BY <1>2, <1>4, <1>7, <2>3, <3>1, <3>3, <4>1
    <3>12. field' \in 1 .. 6 /\ field' = 4 /\ field' - 1 = 3
      BY <3>3, <3>8
    <3>13. heap'.bank[slot] = g
      BY <3>6, <3>7
    <3>14. Reads'
      <4> HIDE DEF a, p
      <4>. QED  BY <3>3, <3>10, <3>11, <3>12, <3>13 DEF Reads, ReadsField, a, p
    <3>15. /\ at' \in Inside /\ name' \in LoadedName /\ Len(name') < NameSize
           /\ trans_read' \in 0 .. TRANS_KEEP /\ pos' \in Nat
           /\ pos' <= Len(text) + (IF at' = "closing" THEN 2 ELSE 1)
      BY <1>2, <1>3, <1>6, <2>1, <3>3 DEF Types, Inside
    <3>. QED  BY <1>1, <3>3, <3>6, <3>7, <3>14, <3>15, InsideKeeps
  <2>4. CASE j < Len(s)
    <3> DEFINE b == s[j + 1]
               x == Escaped(b)
               m == NameOff(s, j)
               z == Len(x)
    <3>1. j \in 0 .. Len(s) - 1
      BY <1>6, <2>4
    <3>2. /\ j + 1 \in 0 .. Len(s) /\ b \in Byte /\ m \in Nat /\ z \in Nat
          /\ NameOff(s, j + 1) = m + z
          /\ \A i \in 1 .. z : q[(p + 11) + 1 + m + i] = Char(x[i])
      <4>1. PICK r \in Nat : r = p + 11
        BY <1>5
      <4>2. NameTokens(q, r, s) /\ s \in Seq(Byte)
        BY <1>2, <1>5, <4>1
      <4>3. LET y == s[j + 1]
                w == Escaped(y)
            IN  /\ j + 1 \in 0 .. Len(s) /\ j + 1 \in 1 .. Len(s) /\ y \in Byte /\ EscapedAs(y, w)
                /\ NameOff(s, j) \in Nat /\ Len(w) \in Nat
                /\ NameOff(s, j + 1) = NameOff(s, j) + Len(w)
                /\ NameOff(s, j) + Len(w) <= NameOff(s, Len(s)) + 1
                /\ \A i \in 1 .. Len(w) : q[r + 1 + NameOff(s, j) + i] = Char(w[i])
        BY ONLY <3>1, <4>2, r \in Nat, NameBytes
      <4>. QED  BY <4>1, <4>3
    <3>3. \/ b \in 32 .. 127 /\ b # Quote /\ b # Backslash /\ z = 1 /\ x[1] = b
          \/ b < 128 /\ z = 2 /\ x[1] = Backslash /\ x[2] # 117 /\ Unescaped(x[2]) = b
          \/ /\ b < 32 /\ z = 6 /\ x[1] = Backslash /\ x[2] = 117 /\ x[3] = 48 /\ x[4] = 48
             /\ x[5] = HexDigit(b \div 16) /\ x[6] = HexDigit(b % 16)
          \/ /\ b >= 128 /\ z = 10 /\ x[1] = Backslash /\ x[2] = 117
             /\ x[3] = 102 /\ x[4] = 102 /\ x[5] = 102 /\ x[6] = 102
             /\ x[7] = 102 /\ x[8] = 102
             /\ x[9] \in 48 .. 102 /\ x[9] # Backslash
             /\ x[10] \in 48 .. 102 /\ x[10] # Backslash
      <4>1. b \in Byte
        BY <3>2
      <4> HIDE DEF b
      <4>. QED  BY <4>1, EscapedKinds
    <3>4. j + 1 <= Len(s) /\ j + 1 \in Nat /\ (j + 1) - 1 = j
      BY <1>6, <3>1
    <3>5. d # 0 => b >= 128
      BY <1>4
    <3>6. Plain(s) => b < 128
      BY <1>2, <1>6, <3>1 DEF Plain
    <3>7. /\ Len(SubSeq(s, 1, j)) < NameSize - 1
          /\ Append(SubSeq(s, 1, j), b) = SubSeq(s, 1, j + 1)
      BY <1>2, <1>6, <3>1, OneMoreByte
    <3>8. b \in 1 .. 255
      BY <3>2 DEF Byte
    <3>9. pos = p + 13 + m + d
      BY <1>4
    <3> HIDE DEF b, x, m, z
\* The characters that are there.
    <3>10. ASSUME NEW i \in 1 .. 10, NEW r \in Nat, r = pos + (i - (d + 1)), i > d, i <= z,
                  r <= Len(text)
           PROVE  text[r][2] = x[i]
      <4>1. r # 0 /\ i \in 1 .. z /\ (p + 11) + 1 + m + i = r
        <5>1. d \in Nat
          BY <1>4
        <5>2. i \in Int /\ 1 <= i
          BY <3>10
        <5>3. p \in Nat /\ m \in Nat /\ z \in Nat /\ i <= z /\ i > d
          BY <1>2, <3>2, <3>10
        <5>4. r = pos + (i - (d + 1)) /\ pos = p + 13 + m + d
          BY <3>9, <3>10
        <5> HIDE DEF p
        <5>. QED  BY ONLY <5>1, <5>2, <5>3, <5>4
      <4>2. q[r] = Char(x[i])
        BY <3>2, <4>1
      <4>3. text[r] = q[r]
        BY <1>3, <3>10, <4>1, IsThere
      <4>. QED  BY <4>2, <4>3, TokenFacts
    <3>11. text[pos][2] = x[d + 1] /\ (pos + 1 <= Len(text) /\ d + 2 <= z => text[pos + 1][2] = x[d + 2])
      <4>1. d \in Nat /\ d <= 9
        BY <1>4
      <4>2. d + 1 <= z
        <5>1. d # 0 => z = 10
          BY <3>3, <3>5, <3>8
        <5>2. z # 0
          BY <3>3
        <5>. QED  BY <3>2, <4>1, <5>1, <5>2
      <4>3. /\ d + 1 \in 1 .. 10 /\ pos = pos + ((d + 1) - (d + 1)) /\ d + 1 > d
            /\ d + 2 <= z => d + 2 \in 1 .. 10 /\ d + 2 > d
            /\ pos + 1 = pos + ((d + 2) - (d + 1)) /\ pos + 1 \in Nat
        <5>1. z <= 10
          BY <3>3
        <5>. QED  BY <1>6, <3>2, <4>1, <4>2, <5>1
      <4>4. text[pos][2] = x[d + 1]
        BY <1>6, <2>1, <3>10, <4>2, <4>3
      <4>5. ASSUME pos + 1 <= Len(text), d + 2 <= z
            PROVE  text[pos + 1][2] = x[d + 2]
        BY <3>10, <4>3, <4>5
      <4>. QED  BY <4>4, <4>5
\* A character that comes back as it was.
    <3>12. ASSUME Put(b), b < 128, d = 0, pos' = pos + z, pos' <= Len(text) + 1,
                  at' = "name", field' = field,
                  UNCHANGED <<saved, text, trip, slot, trans_read, heap>>
           PROVE  IInv'
      <4>1. b \in 1 .. 127
        BY <3>8, <3>12
      <4>2. /\ name' \in LoadedName /\ Len(name') < NameSize
            /\ Len(name) < NameSize - 1 => name' = Append(name, b)
        BY <1>6, <3>12, <4>1, PutIs
      <4>3. Plain(s) => name' = SubSeq(s, 1, j + 1)
        BY <1>4, <3>7, <4>2
      <4>4. pos' = p + 13 + NameOff(s, j + 1) + 0 /\ pos' \in Nat /\ 0 \in {0, 6, 7, 8, 9}
        <5>1. pos = p + 13 + m /\ p \in Nat /\ m \in Nat /\ z \in Nat
          <6>1. p \in Nat /\ m \in Nat /\ z \in Nat
            BY <1>2, <3>2
          <6>2. d = 0 /\ pos = p + 13 + m + d
            BY <3>9, <3>12
          <6> HIDE DEF p
          <6>3. p + 13 + m + 0 = p + 13 + m
            BY ONLY <6>1
          <6>. QED  BY <6>1, <6>2, <6>3
        <5>2. pos' = pos + z /\ NameOff(s, j + 1) = m + z
          BY <3>2, <3>12
        <5>3. 0 \in {0, 6, 7, 8, 9}
          OBVIOUS
        <5> HIDE DEF p
        <5>4. pos' = p + 13 + (m + z) + 0 /\ pos' \in Nat
          BY ONLY <5>1, <5>2
        <5>. QED  BY <5>2, <5>3, <5>4
      <4>. QED  BY <1>1, <3>2, <3>12, <4>2, <4>3, <4>4, NameGoes DEF s
    <3>13. CASE b \in 32 .. 127 /\ b # Quote /\ b # Backslash /\ z = 1 /\ x[1] = b
      <4>1. d = 0 /\ b < 128
        BY <3>5, <3>13
      <4>2. c = b
        BY <3>11, <3>13, <4>1
      <4>3. /\ at' = "name" /\ field' = field /\ pos' = pos + 1 /\ Put(c)
            /\ UNCHANGED <<saved, text, trip, slot, trans_read, heap>>
        BY <1>11, <3>13, <4>2 DEF NameChar, Goes
      <4>4. pos' = pos + z /\ pos' <= Len(text) + 1
        BY <1>2, <1>6, <2>1, <3>13, <4>3
      <4>. QED  BY <3>12, <4>1, <4>2, <4>3, <4>4
    <3>14. CASE b < 128 /\ z = 2 /\ x[1] = Backslash /\ x[2] # 117 /\ Unescaped(x[2]) = b
      <4>1. d = 0 /\ b < 128
        BY <3>5, <3>8, <3>14
      <4>2. c = Backslash
        BY <3>11, <3>14, <4>1
      <4>3. pos + 1 <= Len(text)
        BY <1>2, <1>6, <1>11, <4>2
      <4>4. e = x[2]
        BY <3>11, <3>14, <4>1, <4>3
      <4>5. /\ at' = "name" /\ field' = field /\ pos' = pos + 2 /\ Put(Unescaped(e))
            /\ UNCHANGED <<saved, text, trip, slot, trans_read, heap>>
        <5>1. c # Quote
          BY <4>2 DEF Quote, Backslash
        <5>. QED  BY <1>11, <3>14, <4>2, <4>4, <5>1 DEF NameChar, Goes
      <4>6. pos' = pos + z /\ pos' <= Len(text) + 1
        BY <1>2, <1>6, <3>14, <4>3, <4>5
      <4>. QED  BY <3>12, <3>14, <4>1, <4>4, <4>5, <4>6
    <3>15. ASSUME z >= 6, d = 0, x[1] = Backslash, x[2] = 117
           PROVE  \/ IInv'
                  \/ /\ at' = "name" /\ field' = field /\ pos' = pos + 6 /\ pos' <= Len(text) + 1
                     /\ UNCHANGED <<saved, text, trip, slot, trans_read, heap>>
                     /\ \E y : /\ y[1] = x[3] /\ y[2] = x[4] /\ y[3] = x[5] /\ y[4] = x[6]
                                /\ IF Spelled(y) < 256 THEN Put(Spelled(y)) ELSE UNCHANGED name
      <4>1. c = Backslash
        BY <3>11, <3>15
      <4>2. pos + 1 <= Len(text)
        BY <1>2, <1>6, <1>11, <4>1
      <4>3. e = 117
        BY <3>2, <3>11, <3>15, <4>2
      <4>4. c # Quote
        BY <4>1 DEF Quote, Backslash
      <4>5. CASE left < 6
        <5>1. Stop(slot)
          BY <1>11, <4>1, <4>3, <4>4, <4>5 DEF NameChar
        <5>2. Len(text) < pos + 5
          BY <1>2, <1>6, <4>5
        <5>. QED  BY <1>9, <5>1, <5>2
      <4>6. CASE ~ left < 6
        <5> DEFINE y == [k \in 1 .. 4 |-> text[pos + 1 + k][2]]
        <5>1. /\ at' = "name" /\ field' = field /\ pos' = pos + 6
              /\ UNCHANGED <<saved, text, trip, slot, trans_read, heap>>
              /\ IF Spelled(y) < 256 THEN Put(Spelled(y)) ELSE UNCHANGED name
          BY <1>11, <4>1, <4>3, <4>4, <4>6 DEF NameChar, Goes
        <5>2. pos' <= Len(text) + 1 /\ pos + 5 <= Len(text)
          <6>1. Len(text) \in Nat /\ pos \in Nat /\ ~ (Len(text) - pos + 1 < 6) /\ pos' = pos + 6
            BY <1>2, <1>6, <4>6, <5>1
          <6>. QED  BY ONLY <6>1
        <5>3. ASSUME NEW k \in 1 .. 4, NEW i \in 1 .. 10, i = k + 2
              PROVE  y[k] = x[i]
          <6> DEFINE r == pos + 1 + k
          <6>1. /\ r \in Nat /\ r = pos + (i - (d + 1)) /\ i > d /\ i <= z /\ r <= Len(text)
            <7>1. pos \in Nat /\ Len(text) \in Nat /\ z \in Nat /\ z >= 6 /\ d = 0
              BY <1>2, <1>6, <3>2, <3>15
            <7>2. k \in Nat /\ k <= 4 /\ i = k + 2 /\ pos + 5 <= Len(text)
              BY <5>2, <5>3
            <7>. QED  BY ONLY <7>1, <7>2
          <6> HIDE DEF r
          <6>2. text[r][2] = x[i]
            BY <3>10, <6>1
          <6>. QED  BY <6>2 DEF r
        <5> HIDE DEF y
        <5>4. y[1] = x[3] /\ y[2] = x[4] /\ y[3] = x[5] /\ y[4] = x[6]
          BY <5>3
        <5>. QED  BY <5>1, <5>2, <5>4
      <4>. QED  BY <4>5, <4>6
    <3>16. CASE /\ b < 32 /\ z = 6 /\ x[1] = Backslash /\ x[2] = 117 /\ x[3] = 48 /\ x[4] = 48
                /\ x[5] = HexDigit(b \div 16) /\ x[6] = HexDigit(b % 16)
      <4>1. d = 0 /\ b < 128
        BY <3>5, <3>8, <3>16
      <4>2. ASSUME NEW y, y[1] = x[3], y[2] = x[4], y[3] = x[5], y[4] = x[6]
            PROVE  Spelled(y) = b /\ b < 256
        BY <3>2, <3>8, <3>16, <4>2, SpelledLow
      <4>. QED  BY <3>12, <3>15, <3>16, <4>1, <4>2
    <3>17. CASE /\ b >= 128 /\ z = 10 /\ x[1] = Backslash /\ x[2] = 117
                /\ x[3] = 102 /\ x[4] = 102 /\ x[5] = 102 /\ x[6] = 102
                /\ x[7] = 102 /\ x[8] = 102
                /\ x[9] \in 48 .. 102 /\ x[9] # Backslash
                /\ x[10] \in 48 .. 102 /\ x[10] # Backslash
      <4>1. ~ b < 128 /\ ~ Plain(s)
        BY <3>6, <3>8, <3>17
      <4>2. CASE d = 0
        <5>1. CASE /\ at' = "name" /\ field' = field /\ pos' = pos + 6 /\ pos' <= Len(text) + 1
                   /\ UNCHANGED <<saved, text, trip, slot, trans_read, heap>>
                   /\ \E y : /\ y[1] = x[3] /\ y[2] = x[4] /\ y[3] = x[5] /\ y[4] = x[6]
                              /\ IF Spelled(y) < 256 THEN Put(Spelled(y)) ELSE UNCHANGED name
          <6>1. name' = name
            <7>1. PICK y : /\ y[1] = x[3] /\ y[2] = x[4] /\ y[3] = x[5] /\ y[4] = x[6]
                           /\ IF Spelled(y) < 256 THEN Put(Spelled(y)) ELSE UNCHANGED name
              BY <5>1
            <7>2. y[1] = 102 /\ y[2] = 102 /\ y[3] = 102 /\ y[4] = 102
              BY <3>17, <7>1
            <7>3. ~ Spelled(y) < 256
              BY ONLY <7>2, SpelledHigh
            <7>. QED  BY <7>1, <7>3
          <6>2. pos' = p + 13 + NameOff(s, j) + 6 /\ pos' \in Nat
            <7>1. pos = p + 13 + m + 0 /\ pos' = pos + 6 /\ p \in Nat /\ m \in Nat
              BY <1>2, <3>2, <3>9, <4>2, <5>1
            <7> HIDE DEF p
            <7>2. pos' = p + 13 + m + 6 /\ pos' \in Nat
              BY ONLY <7>1
            <7>. QED  BY <7>2 DEF m
          <6>3. 6 \in {0, 6, 7, 8, 9} /\ j < Len(s) /\ s[j + 1] >= 128
            BY <2>4, <3>17 DEF b
          <6>. QED  BY <1>1, <1>6, <4>1, <5>1, <6>1, <6>2, <6>3, NameGoes DEF s
        <5>. QED  BY <3>15, <3>17, <4>2, <5>1
      <4>3. CASE d # 0
        <5>1. c \in 48 .. 102 /\ c # Backslash /\ c # Quote
          <6>1. c = x[d + 1]
            BY <3>11
          <6>2. d = 6 \/ d = 7 \/ d = 8 \/ d = 9
            BY <1>4, <4>3
          <6>3. d + 1 = 7 \/ d + 1 = 8 \/ d + 1 = 9 \/ d + 1 = 10
            BY <6>2
          <6>4. x[d + 1] \in 48 .. 102 /\ x[d + 1] # Backslash
            <7>1. CASE d + 1 = 7 \/ d + 1 = 8
              BY <3>17, <7>1 DEF Backslash
            <7>2. CASE d + 1 = 9
              BY <3>17, <7>2
            <7>3. CASE d + 1 = 10
              BY <3>17, <7>3
            <7>. QED  BY <6>3, <7>1, <7>2, <7>3
          <6> HIDE DEF c
          <6>5. c \in 48 .. 102 /\ c # Backslash
            BY <6>1, <6>4
          <6>6. c # Quote
            BY <6>5 DEF Quote
          <6>. QED  BY <6>5, <6>6
        <5>2. /\ at' = "name" /\ field' = field /\ pos' = pos + 1 /\ Put(c)
              /\ UNCHANGED <<saved, text, trip, slot, trans_read, heap>>
          BY <1>11, <5>1 DEF NameChar, Goes
        <5>3. name' \in LoadedName /\ Len(name') < NameSize
          <6>1. c \in 1 .. 127
            BY <5>1
          <6> HIDE DEF c
          <6>. QED  BY <1>6, <5>2, <6>1, PutIs
        <5>4. pos' <= Len(text) + 1 /\ pos' \in Nat
          BY <1>2, <1>6, <2>1, <5>2
        <5>5. p \in Nat /\ m \in Nat /\ pos = p + 13 + m + d /\ pos' = pos + 1
          BY <1>2, <3>2, <3>9, <5>2
        <5>6. CASE d = 9
          <6>1. z = 10 /\ NameOff(s, j + 1) = m + z
            BY <3>2, <3>17
          <6> HIDE DEF p
          <6>2. pos' = p + 13 + NameOff(s, j + 1) + 0
            <7>1. pos' = p + 13 + (m + 10) + 0
              BY ONLY <5>5, <5>6
            <7>. QED  BY <6>1, <7>1
          <6>3. 0 \in {0, 6, 7, 8, 9}
            OBVIOUS
          <6>. QED  BY <1>1, <3>2, <4>1, <5>2, <5>3, <5>4, <6>2, <6>3, NameGoes DEF s, p
        <5>7. CASE d # 9
          <6>1. d \in {6, 7, 8}
            BY <1>4, <4>3, <5>7
          <6>2. d + 1 \in {0, 6, 7, 8, 9} /\ d + 1 # 0 /\ d \in Nat
            BY <6>1
          <6>3. pos' = p + 13 + m + (d + 1)
            <7> HIDE DEF p
            <7>. QED  BY ONLY <5>5, <6>2
          <6>4. j < Len(s) /\ s[j + 1] >= 128
            BY <2>4, <3>17 DEF b
          <6>. QED  BY <1>1, <4>1, <5>2, <5>3, <5>4, <6>2, <6>3, <6>4, NameGoes DEF s, m
        <5>. QED  BY <5>6, <5>7
      <4>. QED  BY <4>2, <4>3
    <3>. QED  BY <3>3, <3>13, <3>14, <3>16, <3>17
  <2>. QED  BY <1>6, <2>3, <2>4
<1>. QED  BY <1>10, <1>11

-----------------------------------------------------------------------------
(* The transactions of an account.                                         *)

\* Where transaction r is, and what is after it.
LEMMA LastPlaces ==
    ASSUME IInv, at \in Inside, NEW r \in 0 .. Len(Kept(saved.bank[slot]))
    PROVE  LET a == saved.bank[slot]
               q == save_data(saved)
               m == Len(Kept(a))
               n == Base(saved, slot) + 23 + NameLen(a)
               x == n + 14 * r
               z == Base(saved, slot) + AccountLen(a)
           IN  /\ x \in Nat /\ z \in Nat /\ 16 <= x /\ m \in 0 .. TRANS_KEEP /\ r \in Nat
               /\ r < m => /\ Kept(a)[r + 1] \in Tran /\ TranTokens(q, x, Kept(a)[r + 1])
                           /\ x + 14 < z
                           /\ q[x + 14] = Char(IF r + 1 < m THEN Comma ELSE EndBracket)
               /\ r = m /\ m # 0 => q[x] = Char(EndBracket) /\ x + 1 = z
               /\ m = 0 => q[x + 1] = Char(EndBracket) /\ x + 2 = z
<1> DEFINE a == saved.bank[slot]
           q == save_data(saved)
           m == Len(Kept(a))
           p == Base(saved, slot)
           l == NameLen(a)
           y == p + l + 23
           n == p + 23 + l
           x == n + 14 * r
           z == p + AccountLen(a)
<1>1. /\ p \in Nat /\ 16 <= p /\ l \in Nat /\ AccountTokens(q, p, a)
      /\ Kept(a) \in Seq(Tran) /\ m \in 0 .. TRANS_KEEP
      /\ q \in Seq(Token)
  BY Context
<1>2. m \in Nat /\ r \in Nat /\ r <= m /\ TRANS_KEEP \in Nat
  BY <1>1, BankAssumption
<1>3. n \in Nat /\ 16 <= n /\ n = y /\ x \in Nat /\ 16 <= x
  BY <1>1, <1>2
<1>4. z = n + (IF m = 0 THEN 2 ELSE 14 * m + 1) /\ z \in Nat
  <2>1. LastLen(a) = IF m = 0 THEN 0 ELSE 14 * m - 1
    BY DEF LastLen
  <2>2. AccountLen(a) = 25 + l + LastLen(a)
    BY DEF AccountLen
  <2> HIDE DEF m, l, p, a
  <2>. QED  BY <1>1, <1>2, <2>1, <2>2
<1>5. /\ LastTokens(q, y, a)
      /\ q[p + l + 24 + LastLen(a)] = Char(EndBracket)
  BY <1>1 DEF AccountTokens
<1>6. q[n + (IF m = 0 THEN 1 ELSE 14 * m)] = Char(EndBracket)
  <2>1. LastLen(a) = IF m = 0 THEN 0 ELSE 14 * m - 1
    BY DEF LastLen
  <2> HIDE DEF m, l, p
  <2>2. p + l + 24 + LastLen(a) = n + (IF m = 0 THEN 1 ELSE 14 * m)
    BY <1>1, <1>2, <2>1
  <2>. QED  BY <1>5, <2>2
<1> HIDE DEF a, l, m, p, q, y, n
<1>7. ASSUME NEW i \in 0 .. m - 1
      PROVE  At(q, n + 14 * i, write_transaction_json(Kept(a)[i + 1]))
             /\ (i # 0 => q[n + 14 * i] = Char(Comma))
  BY <1>3, <1>5 DEF LastTokens, m
<1>8. ASSUME r < m
      PROVE  /\ Kept(a)[r + 1] \in Tran /\ TranTokens(q, x, Kept(a)[r + 1])
             /\ x + 14 < z
             /\ q[x + 14] = Char(IF r + 1 < m THEN Comma ELSE EndBracket)
  <2> DEFINE t == Kept(a)[r + 1]
             w == write_transaction_json(t)
  <2>1. r \in 0 .. m - 1 /\ r + 1 \in 1 .. m
    BY <1>2, <1>8
  <2>2. t \in Tran
    BY <1>1, <2>1, ElementOfSeq DEF m
  <2>3. At(q, x, w)
    BY <1>7, <2>1
  <2> HIDE DEF t
  <2>4. w \in Seq(Token) /\ Len(w) = 13 /\ TranTokens(w, 0, t)
    BY <2>2, TranIs
  <2> HIDE DEF w, x
  <2>5. TranTokens(q, x, t)
    BY <2>3, <2>4, TranShift
  <2>6. x + 14 < z /\ x + 14 = n + 14 * (r + 1)
    BY <1>2, <1>3, <1>4, <1>8 DEF x
  <2>7. CASE r + 1 < m
    <3>1. r + 1 \in 0 .. m - 1 /\ r + 1 # 0
      BY <1>2, <2>7
    <3>2. q[n + 14 * (r + 1)] = Char(Comma)
      BY <1>7, <3>1
    <3>. QED  BY <2>2, <2>5, <2>6, <2>7, <3>2 DEF t
  <2>8. CASE ~ r + 1 < m
    <3>1. r + 1 = m /\ m # 0
      BY <1>2, <1>8, <2>8
    <3>. QED  BY <1>6, <2>2, <2>5, <2>6, <2>8, <3>1 DEF t
  <2>. QED  BY <2>7, <2>8
<1>9. r = m /\ m # 0 => q[x] = Char(EndBracket) /\ x + 1 = z
  BY <1>2, <1>3, <1>4, <1>6
<1>10. m = 0 => q[x + 1] = Char(EndBracket) /\ x + 2 = z
  BY <1>2, <1>3, <1>4, <1>6
<1>. QED  BY <1>1, <1>2, <1>3, <1>4, <1>8, <1>9, <1>10 DEF a, m, p, q, n, l

\* A transaction begins, or the array ends.
LEMMA ArrayKeeps == IInv /\ Array => IInv'
<1> SUFFICES ASSUME IInv, Array
             PROVE  IInv'
  OBVIOUS
<1> DEFINE a == saved.bank[slot]
           b == heap.bank[slot]
           q == save_data(saved)
           m == Len(Kept(a))
           r == trans_read
           p == Base(saved, slot)
           n == p + 23 + NameLen(a)
           x == n + 14 * r
           z == p + AccountLen(a)
<1>1. at = "array" /\ at \in Inside
  BY DEF Array, Inside
<1>2. Types /\ Prefix /\ ReadsArray(p, b, a) /\ pos <= Len(text) + 1
  BY <1>1 DEF IInv, ReadsAccount, Reads
<1>3. /\ r \in 0 .. m
      /\ pos = IF r = 0 \/ (r < m /\ x <= Len(text)) THEN x + 1 ELSE x
      /\ FieldsRead(b, a, 5) /\ LastRead(b, a, r)
  BY <1>2 DEF ReadsArray
<1>4. /\ x \in Nat /\ z \in Nat /\ 16 <= x /\ m \in 0 .. TRANS_KEEP /\ r \in Nat
      /\ r < m => /\ Kept(a)[r + 1] \in Tran /\ TranTokens(q, x, Kept(a)[r + 1])
                  /\ x + 14 < z
                  /\ q[x + 14] = Char(IF r + 1 < m THEN Comma ELSE EndBracket)
      /\ r = m /\ m # 0 => q[x] = Char(EndBracket) /\ x + 1 = z
      /\ m = 0 => q[x + 1] = Char(EndBracket) /\ x + 2 = z
  BY <1>1, <1>3, LastPlaces
<1>5. Len(text) \in Nat /\ TRANS_KEEP \in Nat \ {0} /\ pos \in Nat /\ m \in Nat /\ heap \in LoadedHeap
      /\ name \in LoadedName /\ Len(name) < NameSize
  BY <1>1, <1>2, <1>4, Context, BankAssumption DEF Types
<1>6. /\ pos <= Len(text) => text[pos] = q[pos]
      /\ Is(pos, Char(EndBracket)) <=> pos <= Len(text) /\ q[pos] = Char(EndBracket)
      /\ Is(pos, Char(Brace)) <=> pos <= Len(text) /\ q[pos] = Char(Brace)
  <2>1. pos # 0
    BY <1>3, <1>4
  <2>. QED  BY <1>2, <1>5, <2>1, IsThere
<1> HIDE DEF a, b, p, q, m, n, x, z
\* What it stops at is within the account.
<1>7. ASSUME Stop(slot), Len(text) < z
      PROVE  IInv'
  BY <1>1, <1>7, StopInside DEF a, p, z
<1>8. ASSUME r < m, pos <= Len(text)
      PROVE  pos = x + 1 /\ Is(pos, Char(Brace)) /\ ~ Is(pos, Char(EndBracket))
  <2>1. pos = x + 1
    <3>1. CASE r = 0 \/ (r < m /\ x <= Len(text))
      BY <1>3, <3>1
    <3>2. CASE ~ (r = 0 \/ (r < m /\ x <= Len(text)))
      BY <1>3, <1>8, <3>2
    <3>. QED  BY <3>1, <3>2
  <2>2. q[x + 1] = Char(Brace)
    BY <1>4, <1>8 DEF TranTokens
  <2>3. Char(Brace) # Char(EndBracket)
    BY TokenFacts DEF Brace, EndBracket
  <2>. QED  BY <1>6, <1>8, <2>1, <2>2, <2>3
<1>9. ASSUME ~ r < m
      PROVE  r = m /\ q[pos] = Char(EndBracket) /\ pos + 1 = z /\ ~ Is(pos, Char(Brace))
  <2>1. r = m
    BY <1>3, <1>5, <1>9
  <2>2. q[pos] = Char(EndBracket) /\ pos + 1 = z
    <3>1. CASE m = 0
      <4>1. pos = x + 1
        BY <1>3, <2>1, <3>1
      <4>. QED  BY <1>4, <3>1, <4>1
    <3>2. CASE m # 0
      <4>1. pos = x
        BY <1>3, <1>9, <2>1, <3>2
      <4>. QED  BY <1>4, <2>1, <3>2, <4>1
    <3>. QED  BY <3>1, <3>2
  <2>3. Char(Brace) # Char(EndBracket)
    BY TokenFacts DEF Brace, EndBracket
  <2>. QED  BY <1>6, <2>1, <2>2, <2>3
<1>10. CASE Is(pos, Char(EndBracket)) \/ r = TRANS_KEEP
  <2>1. /\ at' = "closing" /\ field' = field /\ pos' = pos + 1
        /\ UNCHANGED <<saved, text, trip, slot, trans_read, name, heap>>
    BY <1>10 DEF Array, Goes
  <2>2. ~ r < m
    <3>1. CASE r = TRANS_KEEP
      BY <1>4, <1>5, <3>1
    <3>2. CASE Is(pos, Char(EndBracket))
      BY <1>6, <1>8, <3>2
    <3>. QED  BY <1>10, <3>1, <3>2
  <2>3. r = m /\ pos + 1 = z
    BY <1>9, <2>2
  <2>4. AccountRead(b, a)
    BY <1>3, <2>3 DEF AccountRead, m
  <2>5. Reads'
    BY <2>1, <2>3, <2>4 DEF Reads, ReadsClosing, a, b, p, z
  <2>6. /\ at' \in Inside /\ pos' \in Nat /\ pos' <= Len(text) + 2 /\ trans_read' \in 0 .. TRANS_KEEP
    BY <1>2, <1>5, <2>1 DEF Inside, Types
  <2>. QED  BY <1>1, <1>5, <2>1, <2>5, <2>6, InsideKeeps
<1>11. CASE ~ (Is(pos, Char(EndBracket)) \/ r = TRANS_KEEP) /\ Is(pos, Char(Brace))
  <2>1. /\ at' = "tran" /\ field' = 1 /\ pos' = pos + 1
        /\ UNCHANGED <<saved, text, trip, slot, trans_read, name, heap>>
    BY <1>11 DEF Array, Goes
  <2>2. r < m /\ pos = x + 1
    BY <1>6, <1>8, <1>9, <1>11
  <2>3. pos' = x + 2 /\ r \in 0 .. m - 1
    BY <1>3, <1>4, <1>5, <2>1, <2>2
  <2>4. TranRead(b, a, r, 1)
    BY <1>3 DEF TranRead, LastRead
  <2>5. Reads'
    BY <1>3, <2>1, <2>3, <2>4 DEF Reads, ReadsTran, a, b, p, m, n, x
  <2>6. /\ at' \in Inside /\ pos' \in Nat /\ pos' <= Len(text) + 1 /\ trans_read' \in 0 .. TRANS_KEEP
    BY <1>2, <1>5, <1>6, <1>11, <2>1 DEF Inside, Types
  <2>. QED  BY <1>1, <1>5, <2>1, <2>5, <2>6, InsideKeeps
<1>12. CASE ~ (Is(pos, Char(EndBracket)) \/ r = TRANS_KEEP) /\ ~ Is(pos, Char(Brace))
  <2>1. Stop(slot)
    BY <1>12 DEF Array
  <2>2. Len(text) < z
    <3>1. CASE r < m
      <4>1. ~ pos <= Len(text)
        BY <1>8, <1>12, <3>1
      <4>2. pos <= x + 1
        BY <1>3, <1>4
      <4>. QED  BY <1>4, <1>5, <3>1, <4>1, <4>2
    <3>2. CASE ~ r < m
      <4>1. ~ pos <= Len(text)
        BY <1>6, <1>9, <1>12, <3>2
      <4>. QED  BY <1>4, <1>5, <1>9, <3>2, <4>1
    <3>. QED  BY <3>1, <3>2
  <2>. QED  BY <1>7, <2>1, <2>2
<1>. QED  BY <1>10, <1>11, <1>12

\* What field k of transaction t holds, and where its value is.
TranToken(t, k) ==
    CASE k = 1 -> Letter(t.type) [] k = 2 -> Num(t.amount) [] k = 3 -> Num(t.balance_after)

\* The places of the fields of a transaction as written.
LEMMA TranPlaces ==
    ASSUME NEW q, NEW x \in Nat, NEW t, TranTokens(q, x, t), NEW k \in 1 .. 3, NEW p,
           p = x + (CASE k = 1 -> 2 [] k = 2 -> 5 [] k = 3 -> 9)
    PROVE  LET f == IF k = 1 THEN p - 1 ELSE p
           IN  /\ f \in Nat /\ p \in Nat \ {0} /\ p = IF k = 1 THEN f + 1 ELSE f
               /\ f + 3 = x + 4 * k
               /\ k # 1 => q[f] = Char(Comma)
               /\ FieldTokens(q, f, TranFields[k])
               /\ q[f + 3] = TranToken(t, k)
<1>1. CASE k = 1
  <2>1. p = x + 2
    BY <1>1
  <2>2. FieldTokens(q, x + 1, "type") /\ q[x + 4] = Letter(t.type)
    <3>1. (x + 1) + 1 = x + 2 /\ (x + 1) + 2 = x + 3
      OBVIOUS
    <3>. QED  BY <3>1 DEF TranTokens, FieldTokens
  <2>3. TranFields[k] = "type" /\ TranToken(t, k) = Letter(t.type)
    BY <1>1 DEF TranFields, TranToken
  <2>4. p - 1 = x + 1 /\ (x + 1) + 3 = x + 4 /\ x + 4 = x + 4 * k /\ p = (x + 1) + 1
        /\ x + 1 \in Nat /\ p \in Nat \ {0}
    BY <1>1, <2>1
  <2>. QED  BY <1>1, <2>2, <2>3, <2>4
<1>2. CASE k = 2
  <2>1. p = x + 5
    BY <1>2
  <2>2. q[x + 5] = Char(Comma) /\ FieldTokens(q, x + 5, "amount") /\ q[x + 8] = Num(t.amount)
    <3>1. (x + 5) + 1 = x + 6 /\ (x + 5) + 2 = x + 7
      OBVIOUS
    <3>. QED  BY <3>1 DEF TranTokens, FieldTokens
  <2>3. TranFields[k] = "amount" /\ TranToken(t, k) = Num(t.amount)
    BY <1>2 DEF TranFields, TranToken
  <2>4. (x + 5) + 3 = x + 8 /\ x + 8 = x + 4 * k /\ x + 5 \in Nat \ {0}
    BY <1>2
  <2>. QED  BY <1>2, <2>1, <2>2, <2>3, <2>4
<1>3. CASE k = 3
  <2>1. p = x + 9
    BY <1>3
  <2>2. q[x + 9] = Char(Comma) /\ FieldTokens(q, x + 9, "balance_after")
        /\ q[x + 12] = Num(t.balance_after)
    <3>1. (x + 9) + 1 = x + 10 /\ (x + 9) + 2 = x + 11
      OBVIOUS
    <3>. QED  BY <3>1 DEF TranTokens, FieldTokens
  <2>3. TranFields[k] = "balance_after" /\ TranToken(t, k) = Num(t.balance_after)
    BY <1>3 DEF TranFields, TranToken
  <2>4. (x + 9) + 3 = x + 12 /\ x + 12 = x + 4 * k /\ x + 9 \in Nat \ {0}
    BY <1>3
  <2>. QED  BY <1>3, <2>1, <2>2, <2>3, <2>4
<1>. QED  BY <1>1, <1>2, <1>3

\* One transaction of one account changes.
LEMMA TranChange ==
    ASSUME NEW h \in LoadedHeap, NEW s \in Slots, NEW r \in Ring, NEW u \in Tran, NEW g,
           g = [h EXCEPT !.bank[s].last[r] = u]
    PROVE  LET b == h.bank[s]
               c == g.bank[s]
           IN  /\ g \in LoadedHeap
               /\ g.accounts_in_use = h.accounts_in_use /\ g.next_number = h.next_number
               /\ \A j \in Slots \ {s} : g.bank[j] = h.bank[j]
               /\ b.last[r] \in Tran
               /\ c.number = b.number /\ c.pin = b.pin /\ c.name = b.name
               /\ c.balance = b.balance /\ c.ntran = b.ntran
               /\ c.last[r] = u /\ \A i \in Ring \ {r} : c.last[i] = b.last[i]
<1> DEFINE b == h.bank[s]
           last == [b.last EXCEPT ![r] = u]
           d == [b EXCEPT !.last = last]
<1>1. b \in LoadedAcc
  BY DEF LoadedHeap
<1>2. g = [h EXCEPT !.bank[s] = d]
  BY DEF LoadedHeap
<1> HIDE DEF b
<1>3. b.last \in [Ring -> Tran]
  BY <1>1 DEF LoadedAcc
<1>4. last \in [Ring -> Tran] /\ last[r] = u /\ \A i \in Ring \ {r} : last[i] = b.last[i]
  BY <1>3
<1> HIDE DEF last
<1>5. /\ d \in LoadedAcc /\ d.number = b.number /\ d.pin = b.pin /\ d.name = b.name
      /\ d.balance = b.balance /\ d.ntran = b.ntran /\ d.last = last
  BY <1>1, <1>4 DEF LoadedAcc
<1> HIDE DEF d
<1>6. LET e == [h EXCEPT !.bank[s] = d]
      IN  /\ e \in LoadedHeap
          /\ e.accounts_in_use = h.accounts_in_use /\ e.next_number = h.next_number
          /\ e.bank[s] = d /\ \A j \in Slots \ {s} : e.bank[j] = h.bank[j]
  BY <1>5, BankChange
<1>7. /\ g \in LoadedHeap
      /\ g.accounts_in_use = h.accounts_in_use /\ g.next_number = h.next_number
      /\ g.bank[s] = d /\ \A j \in Slots \ {s} : g.bank[j] = h.bank[j]
  BY <1>2, <1>6
<1>8. b.last[r] \in Tran
  BY <1>3
<1>. QED  BY <1>4, <1>5, <1>7, <1>8 DEF b

\* Transactions with the same members are the same.
LEMMA TranSame ==
    ASSUME NEW u \in Tran, NEW t \in Tran, u.type = t.type, u.amount = t.amount,
           u.balance_after = t.balance_after
    PROVE  u = t
  BY DEF Tran

\* The value of a field of a transaction, or that the file ends before it.
LEMMA TranValue ==
    ASSUME IInv, at = "tran"
    PROVE  LET a == saved.bank[slot]
               t == Kept(a)[trans_read + 1]
               x == Base(saved, slot) + 23 + NameLen(a) + 14 * trans_read
               e == x + 4 * field
           IN  /\ e \in Nat \ {0} /\ field \in 1 .. 3 /\ t \in Tran
               /\ ValueAt(TranFields, field) = IF e <= Len(text) THEN e ELSE 0
               /\ e <= Len(text) => text[e] = TranToken(t, field)
<1> DEFINE a == saved.bank[slot]
           q == save_data(saved)
           m == Len(Kept(a))
           r == trans_read
           p == Base(saved, slot)
           n == p + 23 + NameLen(a)
           x == n + 14 * r
           z == p + AccountLen(a)
           t == Kept(a)[r + 1]
           f == IF field = 1 THEN pos - 1 ELSE pos
<1>1. at \in Inside
  BY DEF Inside
<1>2. Prefix /\ ReadsTran(p, heap.bank[slot], a)
  BY <1>1 DEF IInv, ReadsAccount, Reads
<1>3. /\ r \in 0 .. m - 1 /\ field \in 1 .. 3
      /\ pos = x + (CASE field = 1 -> 2 [] field = 2 -> 5 [] field = 3 -> 9)
  BY <1>2 DEF ReadsTran
<1>4. Len(text) \in Nat /\ m \in Nat
  BY <1>1, Context
<1>5. r \in 0 .. m /\ r < m
  BY <1>3, <1>4
<1>6. x \in Nat /\ t \in Tran /\ TranTokens(q, x, t)
  BY <1>1, <1>5, LastPlaces
<1> HIDE DEF a, q, m, n, p, t, x
<1>7. /\ f \in Nat /\ pos \in Nat \ {0} /\ pos = IF field = 1 THEN f + 1 ELSE f
      /\ f + 3 = x + 4 * field
      /\ field # 1 => q[f] = Char(Comma)
      /\ FieldTokens(q, f, TranFields[field])
      /\ q[f + 3] = TranToken(t, field)
  BY <1>3, <1>6, TranPlaces
<1> HIDE DEF f
<1>8. field \in Nat \ {0} /\ (field # 1 => q[pos] = Char(Comma)) /\ f + 3 \in Nat /\ f + 3 # 0
  BY <1>3, <1>7
<1>9. ValueAt(TranFields, field) = IF f + 3 <= Len(text) THEN f + 3 ELSE 0
  BY <1>2, <1>7, <1>8, ValueIs DEF q
<1>10. f + 3 <= Len(text) => text[f + 3] = q[f + 3]
  BY <1>2, <1>8, IsThere DEF q
<1>. QED  BY <1>3, <1>6, <1>7, <1>8, <1>9, <1>10 DEF a, n, p, t, x

\* What a field of a transaction that is there makes of the globals.
LEMMA TranStored ==
    ASSUME IInv, Transaction, at' # "done"
    PROVE  LET a == saved.bank[slot]
               b == heap.bank[slot]
               c == heap'.bank[slot]
               r == trans_read
               t == Kept(a)[r + 1]
           IN  /\ heap' \in LoadedHeap /\ heap'.accounts_in_use = heap.accounts_in_use
               /\ heap'.next_number = heap.next_number
               /\ \A j \in Slots \ {slot} : heap'.bank[j] = heap.bank[j]
               /\ c.number = b.number /\ c.pin = b.pin /\ c.name = b.name
               /\ c.balance = b.balance /\ c.ntran = b.ntran
               /\ \A i \in Ring \ {r} : c.last[i] = b.last[i]
               /\ field < 3 => TranRead(c, a, r, field + 1)
               /\ field = 3 => LastRead(c, a, r + 1)
<1> DEFINE a == saved.bank[slot]
           b == heap.bank[slot]
           r == trans_read
           t == Kept(a)[r + 1]
           v == ValueAt(TranFields, field)
           x == text[v][2]
           o == b.last[r]
           u == CASE field = 1 -> [o EXCEPT !.type = x]
                  [] field = 2 -> [o EXCEPT !.amount = x]
                  [] field = 3 -> [o EXCEPT !.balance_after = x]
<1>1. at = "tran" /\ at \in Inside
  BY DEF Transaction, Inside
<1>2. /\ slot \in Slots /\ b \in LoadedAcc /\ Len(Kept(a)) \in 0 .. TRANS_KEEP
      /\ heap \in LoadedHeap
  BY <1>1, Context DEF IInv, Types
<1>3. ReadsTran(Base(saved, slot), b, a)
  BY <1>1 DEF IInv, ReadsAccount, Reads
<1>4. field \in 1 .. 3 /\ t \in Tran /\ r \in 0 .. Len(Kept(a)) - 1 /\ TranRead(b, a, r, field)
  BY <1>1, <1>3, TranValue DEF ReadsTran
<1>5. r \in Ring /\ r \in Nat
  BY <1>2, <1>4, BankAssumption DEF Ring
<1>6. v # 0 /\ text[v] = TranToken(t, field)
  <2>1. v # 0
    BY DEF Transaction, Stop
  <2>. QED  BY <1>1, <2>1, TranValue
<1>7. heap' = [heap EXCEPT !.bank[slot].last[r] = u]
  <2>1. ~ Stop(slot)
    BY DEF Stop
  <2>. QED  BY <1>2, <2>1 DEF Transaction, LoadedHeap, LoadedAcc
<1>8. /\ field = 1 => x = t.type
      /\ field = 2 => x = t.amount
      /\ field = 3 => x = t.balance_after
  <2> HIDE DEF t, v
  <2>. QED  BY <1>6, TokenFacts DEF TranToken
<1>9. o \in Tran
  BY <1>2, <1>5 DEF LoadedAcc
<1> HIDE DEF a, b, t, v, x, o
<1>10. /\ u \in Tran
       /\ u.type = IF field = 1 THEN t.type ELSE o.type
       /\ u.amount = IF field = 2 THEN t.amount ELSE o.amount
       /\ u.balance_after = IF field = 3 THEN t.balance_after ELSE o.balance_after
  <2>1. CASE field = 1
    <3>1. u = [o EXCEPT !.type = t.type]
      BY <1>8, <2>1
    <3> HIDE DEF u
    <3>. QED  BY <1>4, <1>9, <2>1, <3>1 DEF Tran
  <2>2. CASE field = 2
    <3>1. u = [o EXCEPT !.amount = t.amount]
      BY <1>8, <2>2
    <3> HIDE DEF u
    <3>. QED  BY <1>4, <1>9, <2>2, <3>1 DEF Tran
  <2>3. CASE field = 3
    <3>1. u = [o EXCEPT !.balance_after = t.balance_after]
      BY <1>8, <2>3
    <3> HIDE DEF u
    <3>. QED  BY <1>4, <1>9, <2>3, <3>1 DEF Tran
  <2>. QED  BY <1>4, <2>1, <2>2, <2>3
<1> HIDE DEF u
<1> DEFINE g == [heap EXCEPT !.bank[slot].last[r] = u]
           c == g.bank[slot]
<1>11. /\ g \in LoadedHeap
       /\ g.accounts_in_use = heap.accounts_in_use /\ g.next_number = heap.next_number
       /\ \A j \in Slots \ {slot} : g.bank[j] = heap.bank[j]
       /\ b.last[r] \in Tran
       /\ c.number = b.number /\ c.pin = b.pin /\ c.name = b.name
       /\ c.balance = b.balance /\ c.ntran = b.ntran
       /\ c.last[r] = u /\ \A i \in Ring \ {r} : c.last[i] = b.last[i]
  <2> DEFINE d == g
  <2>1. d = [heap EXCEPT !.bank[slot].last[r] = u]
    OBVIOUS
  <2> HIDE DEF d, g
  <2>2. LET e == heap.bank[slot]
            k == d.bank[slot]
        IN  /\ d \in LoadedHeap
            /\ d.accounts_in_use = heap.accounts_in_use /\ d.next_number = heap.next_number
            /\ \A j \in Slots \ {slot} : d.bank[j] = heap.bank[j]
            /\ e.last[r] \in Tran
            /\ k.number = e.number /\ k.pin = e.pin /\ k.name = e.name
            /\ k.balance = e.balance /\ k.ntran = e.ntran
            /\ k.last[r] = u /\ \A i \in Ring \ {r} : k.last[i] = e.last[i]
    BY <1>2, <1>5, <1>10, <2>1, TranChange
  <2>. QED  BY <2>2 DEF b, d
<1>12. heap' = g
  BY <1>7
<1> HIDE DEF g
<1>13. field < 3 => TranRead(c, a, r, field + 1)
  <2> SUFFICES ASSUME field < 3
               PROVE  TranRead(c, a, r, field + 1)
    OBVIOUS
  <2>1. \A i \in Ring : i # r => c.last[i] = IF i < r THEN Kept(a)[i + 1] ELSE ZeroTran
    BY <1>4, <1>11 DEF TranRead
  <2>2. c.last[r].type = t.type
    BY <1>4, <1>10, <1>11 DEF TranRead, t, o
  <2>3. field = 2 => c.last[r].amount = t.amount
    BY <1>4, <1>10, <1>11 DEF TranRead, t, o
  <2>4. field + 1 >= 3 => field = 2
    BY <1>4
  <2> HIDE DEF c
  <2>. QED  BY <2>1, <2>2, <2>3, <2>4 DEF TranRead, t
<1>14. field = 3 => LastRead(c, a, r + 1)
  <2> SUFFICES ASSUME field = 3
               PROVE  LastRead(c, a, r + 1)
    OBVIOUS
  <2>1. u = t
    <3>1. u.type = t.type /\ u.amount = t.amount /\ u.balance_after = t.balance_after
      BY <1>4, <1>10 DEF TranRead, t, o
    <3>. QED  BY <1>4, <1>10, <3>1, TranSame
  <2>2. ASSUME NEW i \in Ring
        PROVE  c.last[i] = IF i < r + 1 THEN Kept(a)[i + 1] ELSE ZeroTran
    <3>0. i \in Int
      BY DEF Ring
    <3>1. CASE i = r
      BY <1>5, <1>11, <2>1, <3>1 DEF t
    <3>2. CASE i # r
      <4>1. c.last[i] = IF i < r THEN Kept(a)[i + 1] ELSE ZeroTran
        BY <1>4, <1>11, <3>2 DEF TranRead
      <4>2. i < r + 1 <=> i < r
        BY <1>5, <3>0, <3>2
      <4>. QED  BY <4>1, <4>2
    <3>. QED  BY <3>1, <3>2
  <2> HIDE DEF c
  <2>. QED  BY <2>2 DEF LastRead
<1>. QED  BY <1>11, <1>12, <1>13, <1>14 DEF a, b

\* A field of a transaction, and after the last one the place after it.
LEMMA TranKeeps == IInv /\ Transaction => IInv'
<1> SUFFICES ASSUME IInv, Transaction
             PROVE  IInv'
  OBVIOUS
<1> DEFINE a == saved.bank[slot]
           b == heap.bank[slot]
           c == heap'.bank[slot]
           q == save_data(saved)
           m == Len(Kept(a))
           r == trans_read
           p == Base(saved, slot)
           n == p + 23 + NameLen(a)
           x == n + 14 * r
           e == x + 4 * field
           z == p + AccountLen(a)
           t == Kept(a)[r + 1]
           v == ValueAt(TranFields, field)
           end == SkipTo(v + 1, EndBrace)
<1>1. at = "tran" /\ at \in Inside
  BY DEF Transaction, Inside
<1>2. Types /\ Prefix /\ ReadsTran(p, b, a) /\ pos <= Len(text) + 1
  BY <1>1 DEF IInv, ReadsAccount, Reads
<1>3. r \in 0 .. m - 1 /\ field \in 1 .. 3 /\ FieldsRead(b, a, 5)
  BY <1>2 DEF ReadsTran
<1>4. /\ Len(text) \in Nat /\ m \in Nat /\ TRANS_KEEP \in Nat /\ m <= TRANS_KEEP
      /\ name \in LoadedName /\ Len(name) < NameSize
  BY <1>1, <1>2, Context, BankAssumption DEF Types
<1>5. r \in 0 .. m /\ r < m /\ r \in Nat
  BY <1>3, <1>4
<1>6. /\ x \in Nat /\ z \in Nat /\ TranTokens(q, x, t) /\ x + 14 < z
      /\ q[x + 14] = Char(IF r + 1 < m THEN Comma ELSE EndBracket)
  BY <1>1, <1>5, LastPlaces
<1>7. /\ e \in Nat \ {0}
      /\ v = IF e <= Len(text) THEN e ELSE 0
  BY <1>1, TranValue
<1> HIDE DEF a, p, q, m, n, x, z, t, v
<1>8. field = 3 /\ v # 0 => end = IF x + 13 <= Len(text) THEN x + 14 ELSE 0
  <2> SUFFICES ASSUME field = 3, v # 0
               PROVE  end = IF x + 13 <= Len(text) THEN x + 14 ELSE 0
    OBVIOUS
  <2>1. v + 1 = x + 13 /\ (x + 13) + 1 = x + 14 /\ x + 13 \in Nat \ {0}
    BY <1>6, <1>7
  <2>2. q[x + 13] = Char(EndBrace)
    BY <1>6 DEF TranTokens
  <2>3. SkipTo(x + 13, EndBrace) = IF x + 13 <= Len(text) THEN (x + 13) + 1 ELSE 0
    <3> DEFINE y == x + 13
    <3>1. y \in Nat \ {0} /\ q[y] = Char(EndBrace)
      BY <2>1, <2>2
    <3> HIDE DEF y
    <3>2. SkipTo(y, EndBrace) = IF y <= Len(text) THEN y + 1 ELSE 0
      BY <1>2, <3>1, SkipIs DEF q
    <3>. QED  BY <3>2 DEF y
  <2>. QED  BY <2>1, <2>3
<1> HIDE DEF end
<1>9. CASE v = 0 \/ (field = 3 /\ end = 0)
  <2>1. Stop(slot)
    BY <1>9 DEF Transaction, v, end
  <2>2. Len(text) < z
    <3>1. CASE v = 0
      <4>1. Len(text) < e /\ e <= x + 12
        BY <1>3, <1>4, <1>6, <1>7, <3>1
      <4>. QED  BY <1>4, <1>6, <1>7, <4>1
    <3>2. CASE v # 0
      BY <1>4, <1>6, <1>8, <1>9, <3>2
    <3>. QED  BY <3>1, <3>2
  <2>. QED  BY <1>1, <2>1, <2>2, StopInside DEF a, p, z
<1>10. CASE ~ (v = 0 \/ (field = 3 /\ end = 0))
  <2>1. /\ at' # "done" /\ UNCHANGED <<saved, text, trip, slot, name>>
        /\ field < 3 => at' = "tran" /\ field' = field + 1 /\ pos' = v + 1 /\ UNCHANGED trans_read
        /\ ~ field < 3 => /\ at' = "array" /\ trans_read' = r + 1
                          /\ pos' = IF Is(end, Char(Comma)) THEN end + 1 ELSE end
    BY <1>10 DEF Transaction, Goes, v, end
  <2>2. /\ heap' \in LoadedHeap /\ heap'.accounts_in_use = heap.accounts_in_use
        /\ heap'.next_number = heap.next_number
        /\ \A j \in Slots \ {slot} : heap'.bank[j] = heap.bank[j]
        /\ c.number = b.number /\ c.pin = b.pin /\ c.name = b.name
        /\ c.balance = b.balance /\ c.ntran = b.ntran
        /\ field < 3 => TranRead(c, a, r, field + 1)
        /\ field = 3 => LastRead(c, a, r + 1)
    BY <2>1, TranStored DEF a
  <2>3. v = e /\ e <= Len(text)
    BY <1>7, <1>10
  <2>4. FieldsRead(c, a, 5)
    BY <1>3, <2>2 DEF FieldsRead
  <2>5. CASE field < 3
    <3>1. /\ at' = "tran" /\ field' = field + 1 /\ field' \in 1 .. 3 /\ trans_read' = r
      BY <1>3, <2>1, <2>5
    <3>2. pos' = x + (CASE field' = 1 -> 2 [] field' = 2 -> 5 [] field' = 3 -> 9)
      <4>1. CASE field = 1
        <5>1. field' = 2 /\ pos' = x + 5
          BY <1>6, <2>1, <2>3, <2>5, <3>1, <4>1
        <5>. QED  BY <5>1
      <4>2. CASE field = 2
        <5>1. field' = 3 /\ pos' = x + 9
          BY <1>6, <2>1, <2>3, <2>5, <3>1, <4>2
        <5>. QED  BY <5>1
      <4>3. field = 1 \/ field = 2
        BY <1>3, <2>5
      <4> HIDE DEF x
      <4>. QED  BY <4>1, <4>2, <4>3
    <3>3. Reads'
      <4> HIDE DEF b, c, e
      <4>. QED  BY <1>3, <2>1, <2>2, <2>4, <2>5, <3>1, <3>2 DEF Reads, ReadsTran, a, b, c, p, m, n, x
    <3>4. /\ at' \in Inside /\ pos' \in Nat /\ pos' <= Len(text) + 1 /\ at' # "closing"
          /\ trans_read' \in 0 .. TRANS_KEEP
      BY <1>2, <1>4, <1>7, <2>1, <2>3, <2>5, <3>1 DEF Inside, Types
    <3>. QED  BY <1>1, <1>4, <2>1, <2>2, <3>3, <3>4, InsideKeeps
  <2>6. CASE ~ field < 3
    <3>1. field = 3
      BY <1>3, <2>6
    <3>2. end = x + 14 /\ x + 13 <= Len(text)
      BY <1>8, <1>10, <3>1
    <3>3. Is(end, Char(Comma)) <=> x + 14 <= Len(text) /\ r + 1 < m
      <4>1. end \in Nat /\ end # 0
        BY <1>6, <3>2
      <4>2. Is(end, Char(Comma)) <=> end <= Len(text) /\ q[end] = Char(Comma)
        BY <1>2, <4>1, IsThere DEF q
      <4>3. Char(Comma) # Char(EndBracket)
        BY TokenFacts DEF Comma, EndBracket
      <4>. QED  BY <1>6, <3>2, <4>2, <4>3
    <3>4. n + 14 * (r + 1) = x + 14 /\ r + 1 \in 0 .. m /\ r + 1 # 0 /\ r + 1 \in 0 .. TRANS_KEEP
      <4>1. n \in Nat
        <5>1. p \in Nat /\ NameLen(a) \in Nat
          BY <1>1, Context DEF p, a
        <5>. QED  BY <5>1 DEF n
      <4>2. x = n + 14 * r /\ r \in Nat /\ r < m /\ m \in Nat /\ TRANS_KEEP \in Nat /\ m <= TRANS_KEEP
        BY <1>4, <1>5 DEF x
      <4> HIDE DEF r
      <4>3. n + 14 * (r + 1) = x + 14
        BY ONLY <4>1, <4>2
      <4>4. r + 1 \in 0 .. m /\ r + 1 # 0 /\ r + 1 \in 0 .. TRANS_KEEP
        BY ONLY <4>2
      <4>. QED  BY <4>3, <4>4
    <3>5. pos' = IF r + 1 < m /\ x + 14 <= Len(text) THEN x + 14 + 1 ELSE x + 14
      BY <2>1, <2>6, <3>2, <3>3
    <3>6. Reads'
      <4> HIDE DEF b, c, e
      <4>. QED  BY <2>1, <2>2, <2>4, <2>6, <3>1, <3>4, <3>5 DEF Reads, ReadsArray, a, b, c, p, m, n
    <3>7. /\ at' \in Inside /\ pos' \in Nat /\ pos' <= Len(text) + 1 /\ at' # "closing"
          /\ trans_read' \in 0 .. TRANS_KEEP
      BY <1>4, <1>6, <2>1, <2>6, <3>2, <3>4, <3>5 DEF Inside
    <3>. QED  BY <1>1, <1>4, <2>1, <2>2, <3>6, <3>7, InsideKeeps
  <2>. QED  BY <2>5, <2>6
<1>. QED  BY <1>9, <1>10

-----------------------------------------------------------------------------
(* From one account to the next.                                           *)

\* The accounts that were saved, as the reader needs them between two of them.
LEMMA Between ==
    ASSUME IInv, HeaderRead, NEW k \in LiveSlots(saved)
    PROVE  LET a == saved.bank[k]
               q == save_data(saved)
           IN  /\ k \in Slots /\ k \in Nat /\ AccountTokens(q, Base(saved, k), a)
               /\ Off(saved, k + 1) = Base(saved, k) + AccountLen(a)
               /\ Base(saved, k) \in Nat /\ AccountLen(a) \in Nat /\ 25 <= AccountLen(a)
               /\ Off(saved, k) \in Nat /\ Off(saved, k) <= Base(saved, k)
<1> DEFINE a == saved.bank[k]
           q == save_data(saved)
<1>1. Saveable(saved)
  BY DEF IInv
<1>2. k \in Slots /\ k \in Nat /\ k \in 0 .. saved.accounts_in_use
  BY <1>1, BankAssumption DEF Saveable, LiveSlots, Slots
<1>3. a \in NamedAccount
  BY <1>1 DEF Saveable
<1>4. /\ Layout(saved, q)
      /\ \A i \in 0 .. saved.accounts_in_use : Off(saved, i) \in Nat /\ 16 <= Off(saved, i)
  BY <1>1, LayoutIs
<1>5. AccountTokens(q, Base(saved, k), a) /\ Off(saved, k + 1) = Base(saved, k) + AccountLen(a)
      /\ Off(saved, 0) = 16
  BY <1>4 DEF Layout
<1> HIDE DEF a
<1>6. AccountLen(a) \in Nat /\ NameLen(a) \in Nat /\ LastLen(a) \in Nat
  BY <1>3, NamedWritable
<1>7. 25 <= AccountLen(a)
  BY <1>6 DEF AccountLen
<1>8. Off(saved, k) \in Nat
  BY <1>2, <1>4
<1>9. Base(saved, k) \in Nat /\ Off(saved, k) <= Base(saved, k)
  BY <1>5, <1>8 DEF Base
<1>. QED  BY <1>2, <1>5, <1>6, <1>7, <1>8, <1>9 DEF a

\* The next account begins, or there is none.
LEMMA NextAccountKeeps == IInv /\ NextAccount => IInv'
<1> SUFFICES ASSUME IInv, NextAccount
             PROVE  IInv'
  OBVIOUS
<1> DEFINE a == saved.bank[slot]
           b == heap.bank[slot]
           q == save_data(saved)
           p == Base(saved, slot)
           n == saved.accounts_in_use
<1>1. at = "account" /\ ReadsAccounts
  BY DEF NextAccount, IInv
<1>2. /\ HeaderRead /\ pos = p + 1 /\ pos <= Len(text) + 1 /\ 16 <= Len(text)
      /\ heap.accounts_in_use = n /\ heap.next_number = saved.next_number
      /\ slot \in 0 .. n /\ Off(saved, slot) <= Len(text)
  BY <1>1 DEF ReadsAccounts, HeaderRead
<1>3. /\ Types /\ Saveable(saved) /\ Prefix
      /\ trip = 2 => \A j \in LiveSlots(saved) : Plain(saved.bank[j].name)
  BY DEF IInv
<1>4. Len(text) \in Nat /\ text # << >>
  BY <1>2, <1>3, EmptySeq, LenProperties DEF Prefix
<1>5. slot < n => slot \in LiveSlots(saved)
  BY <1>2, <1>3, BankAssumption DEF LiveSlots, Saveable
<1>6. \A j \in Slots : j < slot => AccountRead(heap.bank[j], saved.bank[j])
  BY <1>1 DEF IInv
<1>7. CASE slot < heap.accounts_in_use /\ Is(pos, Char(Brace))
  <2>1. /\ at' = "field" /\ field' = 1 /\ pos' = pos + 1
        /\ UNCHANGED <<saved, text, trip, slot, trans_read, name, heap>>
    BY <1>7 DEF NextAccount, Goes
  <2>2. slot \in LiveSlots(saved) /\ p \in Nat /\ slot \in Slots
    BY <1>2, <1>5, <1>7, Between
  <2>3. pos <= Len(text) /\ pos \in Nat
    BY <1>2, <1>3, <1>7, <2>2, IsThere
  <2>4. ReadsField(p, b, a)'
    <3>1. NoLast(b)
      BY <1>1, <2>2 DEF IInv, Types, Inside
    <3>2. pos' = p + 2
      BY <1>2, <2>1, <2>2
    <3>3. FieldPos(a, 1) = 2
      BY DEF FieldPos
    <3>4. FieldsRead(b, a, 0)
      BY DEF FieldsRead
    <3> HIDE DEF a, b, p
    <3>. QED  BY <2>1, <3>1, <3>2, <3>3, <3>4 DEF ReadsField, a, b, p
  <2>5. ReadsAccount'
    <3>1. Reads'
      BY <2>1, <2>4 DEF Reads
    <3>. QED  BY <1>2, <2>1, <2>2, <2>3, <3>1 DEF ReadsAccount, HeaderRead, LiveSlots
  <2>6. Types' /\ Saveable(saved)' /\ Prefix'
        /\ (trip = 2 => \A j \in LiveSlots(saved) : Plain(saved.bank[j].name))'
    BY <1>3, <1>4, <2>1, <2>3 DEF Types, Inside, Prefix, Saveable, LiveSlots
  <2>7. (\A j \in Slots : at # "done" /\ j >= slot /\ (j = slot => at \notin Inside)
                            => NoLast(heap.bank[j]))'
    BY <1>1, <2>1 DEF IInv, Inside
  <2>. QED  BY <1>6, <2>1, <2>5, <2>6, <2>7 DEF IInv
<1>8. CASE ~ (slot < heap.accounts_in_use /\ Is(pos, Char(Brace)))
  <2>1. Stop(slot)
    BY <1>8 DEF NextAccount
  <2>2. slot < n => Len(text) < Off(saved, slot + 1)
    <3> SUFFICES ASSUME slot < n
                 PROVE  Len(text) < Off(saved, slot + 1)
      OBVIOUS
    <3>1. /\ AccountTokens(q, p, a) /\ Off(saved, slot + 1) = p + AccountLen(a)
          /\ p \in Nat /\ AccountLen(a) \in Nat /\ 25 <= AccountLen(a)
      BY <1>2, <1>5, Between
    <3>2. q[pos] = Char(Brace)
      BY <1>2, <3>1 DEF AccountTokens
    <3>3. ~ pos <= Len(text)
      BY <1>2, <1>3, <1>8, <3>1, <3>2, IsThere
    <3> HIDE DEF p, a
    <3>. QED  BY <1>2, <1>4, <3>1, <3>3
  <2>3. slot \in 0 .. MAX_ACCTS
    BY <1>3 DEF Types
  <2>. QED  BY <1>2, <1>4, <1>6, <2>1, <2>2, <2>3, StopKeeps
<1>. QED  BY <1>7, <1>8

\* An account ends.
LEMMA ClosingKeeps == IInv /\ Closing => IInv'
<1> SUFFICES ASSUME IInv, Closing
             PROVE  IInv'
  OBVIOUS
<1> DEFINE a == saved.bank[slot]
           b == heap.bank[slot]
           q == save_data(saved)
           p == Base(saved, slot)
           n == saved.accounts_in_use
           z == p + AccountLen(a)
           end == SkipTo(pos, EndBrace)
           more == \/ Is(end, Char(Comma))
                   \/ Is(end, Char(EndBracket)) /\ slot = heap.accounts_in_use - 1
<1>1. at = "closing" /\ at \in Inside
  BY DEF Closing, Inside
<1>2. /\ Types /\ Saveable(saved) /\ Prefix /\ HeaderRead /\ pos = z /\ AccountRead(b, a)
      /\ trip = 2 => \A j \in LiveSlots(saved) : Plain(saved.bank[j].name)
  BY <1>1 DEF IInv, ReadsAccount, Reads, ReadsClosing
<1>3. /\ slot \in LiveSlots(saved) /\ slot \in Slots /\ slot \in Nat
      /\ p \in Nat /\ Len(text) \in Nat /\ AccountLen(a) \in Nat /\ 16 <= p
      /\ AccountTokens(q, p, a) /\ Off(saved, slot + 1) = z
      /\ q[z + 1] = Char(IF slot + 1 = n THEN EndBracket ELSE Comma)
      /\ NameLen(a) \in Nat /\ LastLen(a) \in Nat
  BY <1>1, Context
<1>4. n \in 0 .. MAX_ACCTS /\ n \in Nat /\ slot + 1 \in 0 .. n /\ slot + 1 \in 0 .. MAX_ACCTS
      /\ heap.accounts_in_use = n /\ heap.next_number = saved.next_number
  <2>1. heap.accounts_in_use = n /\ heap.next_number = saved.next_number
    BY <1>2 DEF HeaderRead
  <2>2. n \in 0 .. MAX_ACCTS /\ slot \in 0 .. n - 1
    BY <1>2, <1>3 DEF Saveable, LiveSlots
  <2> HIDE DEF n
  <2>3. n \in Nat /\ slot + 1 \in 0 .. n /\ slot + 1 \in 0 .. MAX_ACCTS
    <3>1. MAX_ACCTS \in Nat /\ slot \in Nat
      BY <1>3, BankAssumption
    <3>. QED  BY ONLY <2>2, <3>1
  <2>. QED  BY <2>1, <2>2, <2>3
<1>5. q[z] = Char(EndBrace) /\ z \in Nat /\ z # 0
  <2>1. q[p + NameLen(a) + 25 + LastLen(a)] = Char(EndBrace)
    BY <1>3 DEF AccountTokens
  <2>2. AccountLen(a) = 25 + NameLen(a) + LastLen(a)
    BY DEF AccountLen
  <2> HIDE DEF p, a
  <2>3. p + NameLen(a) + 25 + LastLen(a) = z
    BY <1>3, <2>2
  <2>. QED  BY <1>3, <2>1, <2>3
<1> HIDE DEF z
<1>6. end = IF z <= Len(text) THEN z + 1 ELSE 0
  BY <1>2, <1>5, SkipIs
<1>7. \A j \in Slots : j < slot + 1 => AccountRead(heap.bank[j], saved.bank[j])
  <2> SUFFICES ASSUME NEW j \in Slots, j < slot + 1
               PROVE  AccountRead(heap.bank[j], saved.bank[j])
    OBVIOUS
  <2>1. CASE j = slot
    BY <1>2, <2>1
  <2>2. CASE j # slot
    <3>1. j < slot /\ at # "done"
      BY <1>1, <1>3, <2>2 DEF Slots
    <3>. QED  BY <3>1 DEF IInv
  <2>. QED  BY <2>1, <2>2
<1> HIDE DEF end
<1>8. CASE end = 0
  <2>1. Stop(slot)
    BY <1>8 DEF Closing, end
  <2>2. Len(text) < z
    BY <1>3, <1>5, <1>6, <1>8
  <2>. QED  BY <1>1, <2>1, <2>2, StopInside DEF z
<1>9. end # 0 => end = z + 1 /\ z <= Len(text) /\ end \in Nat
  BY <1>5, <1>6
<1>10. end # 0 => (more <=> z + 1 <= Len(text))
  <2> SUFFICES ASSUME end # 0
               PROVE  more <=> z + 1 <= Len(text)
    OBVIOUS
  <2>1. /\ Is(end, Char(Comma)) <=> z + 1 <= Len(text) /\ q[z + 1] = Char(Comma)
        /\ Is(end, Char(EndBracket)) <=> z + 1 <= Len(text) /\ q[z + 1] = Char(EndBracket)
    BY <1>2, <1>5, <1>9, IsThere
  <2>2. Char(Comma) # Char(EndBracket)
    BY TokenFacts DEF Comma, EndBracket
  <2>3. slot + 1 = n <=> slot = heap.accounts_in_use - 1
    BY <1>3, <1>4
  <2> HIDE DEF a, p, q, n
  <2>. QED  BY <1>3, <2>1, <2>2, <2>3
<1> HIDE DEF more
<1>11. text # << >>
  BY <1>2, EmptySeq DEF HeaderRead
<1>12. CASE end # 0 /\ ~ more
  <2>1. Stop(slot + 1)
    BY <1>12 DEF Closing, end, more
  <2>2. Off(saved, slot + 1) <= Len(text)
    BY <1>3, <1>9, <1>12
  <2>3. slot + 1 < n => Len(text) < Off(saved, slot + 1 + 1)
    <3> SUFFICES ASSUME slot + 1 < n
                 PROVE  Len(text) < Off(saved, slot + 1 + 1)
      OBVIOUS
    <3> DEFINE k == slot + 1
    <3>1. k \in LiveSlots(saved)
      BY <1>3, <1>4 DEF LiveSlots
    <3> HIDE DEF k
    <3>2. /\ Off(saved, k + 1) = Base(saved, k) + AccountLen(saved.bank[k])
          /\ Base(saved, k) \in Nat /\ AccountLen(saved.bank[k]) \in Nat
          /\ 25 <= AccountLen(saved.bank[k])
          /\ Off(saved, k) \in Nat /\ Off(saved, k) <= Base(saved, k)
      BY <1>2, <3>1, Between
    <3>3. Off(saved, k) = z
      BY <1>3 DEF k
    <3>4. ~ (z + 1 <= Len(text))
      BY <1>10, <1>12
    <3>5. Len(text) < Off(saved, k + 1)
      <4>1. Len(text) \in Nat /\ z \in Nat
        BY <1>3, <1>5
      <4>. QED  BY <3>2, <3>3, <3>4, <4>1
    <3>. QED  BY <3>5 DEF k
  <2>. QED  BY <1>4, <1>7, <1>11, <2>1, <2>2, <2>3, StopKeeps
<1>13. CASE end # 0 /\ more
  <2>1. /\ at' = "account" /\ field' = 1 /\ pos' = end + 1 /\ slot' = slot + 1
        /\ UNCHANGED <<saved, text, trip, trans_read, name, heap>>
    BY <1>13 DEF Closing, Goes, end, more
  <2>2. z + 1 <= Len(text) /\ pos' = z + 2
    BY <1>5, <1>9, <1>10, <1>13, <2>1
  <2>3. ReadsAccounts'
    <3>1. Base(saved, slot + 1) = z + 1
      BY <1>3 DEF Base
    <3>2. Base(saved, slot + 1) + 1 = z + 2 /\ z <= Len(text) /\ z + 2 <= Len(text) + 1
      BY <1>3, <1>5, <2>2, <3>1
    <3>3. HeaderRead'
      BY <1>2, <1>3, <1>4, <2>1, <3>2 DEF HeaderRead
    <3>. QED  BY <2>1, <2>2, <3>2, <3>3 DEF ReadsAccounts
  <2>4. Types'
    <3>1. pos' \in Nat /\ pos' <= Len(text) + 2 /\ slot' \in 0 .. MAX_ACCTS
      BY <1>3, <1>4, <1>5, <2>1, <2>2
    <3>. QED  BY <1>2, <2>1, <3>1 DEF Types
  <2>5. /\ Saveable(saved)' /\ Prefix'
        /\ (trip = 2 => \A j \in LiveSlots(saved) : Plain(saved.bank[j].name))'
    BY <1>2, <2>1 DEF Prefix, Saveable, LiveSlots
  <2>6. ASSUME NEW j \in Slots, j >= slot + 1
        PROVE  NoLast(heap.bank[j])
    <3>1. j >= slot /\ j # slot /\ at # "done"
      BY <1>1, <1>3, <2>6 DEF Slots
    <3>. QED  BY <3>1 DEF IInv
  <2>. QED  BY <1>7, <2>1, <2>3, <2>4, <2>5, <2>6 DEF IInv, Inside
<1>. QED  BY <1>8, <1>12, <1>13

-----------------------------------------------------------------------------
(* The beginning and the end of a file.                                    *)

\* The opening brace, or nothing.
LEMMA BraceKeeps == IInv /\ OpeningBrace => IInv'
<1> SUFFICES ASSUME IInv, OpeningBrace
             PROVE  IInv'
  OBVIOUS
<1>1. at = "brace" /\ Begins
  BY DEF IInv, OpeningBrace
<1>2. /\ Types /\ Saveable(saved) /\ Prefix
      /\ trip = 2 => \A j \in LiveSlots(saved) : Plain(saved.bank[j].name)
  BY DEF IInv
<1>3. HeaderTokens(save_data(saved), saved)
  BY <1>2, LayoutIs DEF Layout
<1>4. Is(pos, Char(Brace)) <=> text # << >>
  <2>1. pos = 1 /\ save_data(saved)[pos] = Char(Brace)
    BY <1>1, <1>3 DEF Begins, HeaderTokens
  <2>2. Is(pos, Char(Brace)) <=> pos <= Len(text)
    <3>1. pos \in Nat /\ pos # 0
      BY <2>1
    <3>. QED  BY <1>2, <2>1, <3>1, IsThere
  <2>3. text # << >> <=> 1 <= Len(text)
    BY <1>2, EmptySeq DEF Prefix
  <2>. QED  BY <2>1, <2>2, <2>3
<1>5. CASE Is(pos, Char(Brace))
  <2>1. /\ at' = "header" /\ field' = 1 /\ pos' = 2
        /\ UNCHANGED <<saved, text, trip, slot, trans_read, name, heap>>
    BY <1>5 DEF OpeningBrace, Goes
  <2>2. 16 <= Len(text) /\ Len(text) \in Nat
    BY <1>2, <1>4, <1>5, LenProperties DEF Prefix
  <2>3. ReadsHeader'
    BY <1>1, <2>1, <2>2 DEF ReadsHeader, Begins
  <2>4. Types' /\ Saveable(saved)' /\ Prefix'
        /\ (trip = 2 => \A j \in LiveSlots(saved) : Plain(saved.bank[j].name))'
    BY <1>2, <2>1, <2>2 DEF Types, Prefix, Saveable, LiveSlots
  <2>5. \A j \in Slots : (j < slot => AccountRead(heap.bank[j], saved.bank[j]))
                         /\ (j >= slot => NoLast(heap.bank[j]))
    BY <1>1 DEF IInv, Inside
  <2>. QED  BY <2>1, <2>3, <2>4, <2>5 DEF IInv, Inside
<1>6. CASE ~ Is(pos, Char(Brace))
  <2>1. Stop(0) /\ 0 \in 0 .. MAX_ACCTS /\ heap.next_number = FIRST_NUMBER
    BY <1>1, <1>6, BankAssumption DEF OpeningBrace, Begins
  <2>2. \A j \in Slots : ~ j < 0
    BY BankAssumption DEF Slots
  <2>. QED  BY <1>4, <1>6, <2>1, <2>2, StopKeeps
<1>. QED  BY <1>5, <1>6

\* A field of the header: all of it is there.
LEMMA HeaderKeeps == IInv /\ Header => IInv'
<1> SUFFICES ASSUME IInv, Header
             PROVE  IInv'
  OBVIOUS
<1> DEFINE q == save_data(saved)
           v == ValueAt(HeaderFields, field)
           f == IF field = 1 THEN pos - 1 ELSE pos
<1>1. at = "header" /\ ReadsHeader
  BY DEF IInv, Header
<1>2. /\ Types /\ Saveable(saved) /\ Prefix
      /\ trip = 2 => \A j \in LiveSlots(saved) : Plain(saved.bank[j].name)
  BY DEF IInv
<1>3. /\ field \in 1 .. 4 /\ pos = IF field = 1 THEN 2 ELSE 4 * field - 3
      /\ slot = 0 /\ 16 <= Len(text) /\ Len(text) \in Nat
      /\ field >= 3 => heap.accounts_in_use = saved.accounts_in_use
      /\ field >= 4 => heap.next_number = saved.next_number
  BY <1>1, <1>2, LenProperties DEF ReadsHeader, Prefix
<1>4. HeaderTokens(q, saved) /\ Off(saved, 0) = 16
  BY <1>2, LayoutIs DEF Layout
<1> HIDE DEF q
<1>5. /\ f \in Nat /\ f + 3 = 4 * field /\ (field # 1 => q[pos] = Char(Comma))
      /\ FieldTokens(q, f, HeaderFields[field])
      /\ field = 2 => q[f + 3] = Num(saved.accounts_in_use)
      /\ field = 3 => q[f + 3] = Num(saved.next_number)
  <2>1. CASE field = 1
    <3>1. f = 1 /\ HeaderFields[field] = "version"
      BY <1>3, <2>1 DEF HeaderFields
    <3>. QED  BY <1>4, <2>1, <3>1 DEF HeaderTokens
  <2>2. CASE field = 2
    <3>1. f = 5 /\ pos = 5 /\ HeaderFields[field] = "accounts_in_use"
      BY <1>3, <2>2 DEF HeaderFields
    <3>. QED  BY <1>4, <2>2, <3>1 DEF HeaderTokens
  <2>3. CASE field = 3
    <3>1. f = 9 /\ pos = 9 /\ HeaderFields[field] = "next_number"
      BY <1>3, <2>3 DEF HeaderFields
    <3>. QED  BY <1>4, <2>3, <3>1 DEF HeaderTokens
  <2>4. CASE field = 4
    <3>1. f = 13 /\ pos = 13 /\ HeaderFields[field] = "accounts"
      BY <1>3, <2>4 DEF HeaderFields
    <3>. QED  BY <1>4, <2>4, <3>1 DEF HeaderTokens
  <2>. QED  BY <1>3, <2>1, <2>2, <2>3, <2>4
<1>6. pos \in Nat \ {0} /\ pos = (IF field = 1 THEN f + 1 ELSE f) /\ field \in Nat \ {0}
  BY <1>3
<1> HIDE DEF f
<1>7. v = 4 * field /\ v \in Nat /\ v # 0 /\ v <= 16 /\ text[v] = q[v] /\ v = f + 3
  <2>1. v = IF f + 3 <= Len(text) THEN f + 3 ELSE 0
    BY <1>2, <1>5, <1>6, ValueIs DEF q
  <2>2. 4 * field <= 16 /\ 4 * field \in Nat /\ 4 * field # 0 /\ 4 * field <= Len(text)
    BY <1>3
  <2>3. v = 4 * field /\ v = f + 3
    BY <1>5, <2>1, <2>2
  <2>4. text[v] = q[v]
    BY <1>2, <2>2, <2>3, IsThere DEF q
  <2>. QED  BY <2>2, <2>3, <2>4
<1>8. /\ field = 2 => text[v][2] = saved.accounts_in_use
      /\ field = 3 => text[v][2] = saved.next_number
  BY <1>5, <1>7, TokenFacts
<1>9. /\ at' = (IF field = 4 THEN "account" ELSE "header") /\ field' = field + 1 /\ pos' = v + 1
      /\ UNCHANGED <<saved, text, trip, slot, trans_read, name>>
      /\ heap' = CASE field = 2 -> [heap EXCEPT !.accounts_in_use = text[v][2]]
                   [] field = 3 -> [heap EXCEPT !.next_number = text[v][2]]
                   [] OTHER -> heap
  BY <1>1, <1>7 DEF Header, Goes
<1> HIDE DEF v
<1>10. saved.accounts_in_use \in 0 .. MAX_ACCTS /\ saved.next_number \in Nat /\ heap \in LoadedHeap
  BY <1>2 DEF Saveable, Types
<1>11. /\ heap' \in LoadedHeap /\ heap'.bank = heap.bank
       /\ heap'.accounts_in_use = IF field = 2 THEN saved.accounts_in_use ELSE heap.accounts_in_use
       /\ heap'.next_number = IF field = 3 THEN saved.next_number ELSE heap.next_number
  <2>1. CASE field = 2
    <3>1. heap' = [heap EXCEPT !.accounts_in_use = saved.accounts_in_use]
      BY <1>8, <1>9, <2>1
    <3>. QED  BY <1>10, <2>1, <3>1 DEF LoadedHeap
  <2>2. CASE field = 3
    <3>1. heap' = [heap EXCEPT !.next_number = saved.next_number]
      BY <1>8, <1>9, <2>2
    <3>. QED  BY <1>10, <2>2, <3>1 DEF LoadedHeap
  <2>3. CASE field # 2 /\ field # 3
    <3>1. heap' = heap
      BY <1>9, <2>3
    <3>. QED  BY <1>10, <2>3, <3>1
  <2>. QED  BY <2>1, <2>2, <2>3
<1>12. Types' /\ Saveable(saved)' /\ Prefix'
       /\ (trip = 2 => \A j \in LiveSlots(saved) : Plain(saved.bank[j].name))'
  <2>1. pos' \in Nat /\ pos' <= Len(text') + 2
    BY <1>3, <1>7, <1>9
  <2>. QED  BY <1>2, <1>9, <1>11, <2>1 DEF Types, Prefix, Saveable, LiveSlots
<1>13. \A j \in Slots : (j < slot => AccountRead(heap.bank[j], saved.bank[j]))
                        /\ (j >= slot => NoLast(heap.bank[j]))
  BY <1>1 DEF IInv, Inside
<1>14. CASE field = 4
  <2>1. ReadsAccounts'
    <3>1. pos' = 17 /\ at' = "account"
      BY <1>7, <1>9, <1>14
    <3>2. Base(saved, 0) + 1 = 17
      BY DEF Base
    <3>3. 0 \in 0 .. saved.accounts_in_use /\ 17 <= Len(text) + 1
      BY <1>3, <1>10
    <3>. QED  BY <1>3, <1>4, <1>9, <1>11, <1>14, <3>1, <3>2, <3>3 DEF ReadsAccounts, HeaderRead
  <2>. QED  BY <1>9, <1>11, <1>12, <1>13, <1>14, <2>1 DEF IInv, Inside
<1>15. CASE field # 4
  <2>1. ReadsHeader'
    <3>1. /\ field' \in 1 .. 4 /\ field' # 1 /\ pos' = 4 * field' - 3 /\ slot' = 0
          /\ 16 <= Len(text')
      BY <1>3, <1>7, <1>9, <1>15
    <3>2. /\ field' >= 3 => field = 2 \/ field >= 3
          /\ field' >= 4 => field = 3
      BY <1>3, <1>9, <1>15
    <3>. QED  BY <1>3, <1>9, <1>11, <3>1, <3>2 DEF ReadsHeader
  <2>. QED  BY <1>9, <1>11, <1>12, <1>13, <1>15, <2>1 DEF IInv, Inside
<1>. QED  BY <1>14, <1>15

\* The globals of a new process.
LEMMA FreshLoaded ==
    /\ FreshHeap \in LoadedHeap /\ FreshHeap.accounts_in_use = 0
    /\ FreshHeap.next_number = FIRST_NUMBER
    /\ \A j \in Slots : NoLast(FreshHeap.bank[j])
<1>1. ZeroTran \in Tran
  BY BankAssumption DEF ZeroTran, Tran, CInt
<1>2. ZeroAccount \in LoadedAcc /\ NoLast(ZeroAccount)
  <2>1. [k \in Ring |-> ZeroTran] \in [Ring -> Tran]
    BY <1>1
  <2>2. 0 \in CInt
    BY BankAssumption DEF CInt
  <2>. QED  BY <2>1, <2>2 DEF ZeroAccount, LoadedAcc, NoLast
<1>3. [i \in Slots |-> ZeroAccount] \in [Slots -> LoadedAcc]
  BY <1>2
<1>. QED  BY <1>2, <1>3, BankAssumption DEF FreshHeap, LoadedHeap

\* The state in which load_data begins.
LEMMA Beginning ==
    ASSUME Saveable(saved), Prefix,
           trip \in {1, 2}, trip = 2 => \A j \in LiveSlots(saved) : Plain(saved.bank[j].name),
           heap = FreshHeap, pos = 1, at = "brace", slot = 0, trans_read = 0, name = << >>
    PROVE  IInv
<1>1. name \in LoadedName /\ Len(name) = 0
  BY EmptySeq DEF LoadedName
<1>2. Len(text) \in Nat /\ pos <= Len(text) + 2
  BY LenProperties DEF Prefix
<1>3. Types
  BY <1>1, <1>2, FreshLoaded, BankAssumption, JsonAssumption DEF Types
<1>4. Begins
  BY FreshLoaded DEF Begins
<1>5. \A j \in Slots : ~ j < slot
  BY BankAssumption DEF Slots
<1>. QED  BY <1>3, <1>4, <1>5, FreshLoaded DEF IInv, Inside

\* It is where the first load begins.
LEMMA InitIInv == Init => IInv
<1> SUFFICES ASSUME Init
             PROVE  IInv
  OBVIOUS
<1> DEFINE q == save_data(saved)
<1>1. Saveable(saved)
  BY JsonAssumption DEF Init
<1>2. /\ Layout(saved, q)
      /\ \A k \in 0 .. saved.accounts_in_use : Off(saved, k) \in Nat /\ 16 <= Off(saved, k)
  BY <1>1, LayoutIs
<1>3. q \in Seq(Token) /\ Len(q) \in Nat /\ Len(TextTo(saved, 0)) = 16
  BY <1>2, LenProperties DEF Layout, Off
<1>4. PICK n \in Cuts(saved) : text = SubSeq(q, 1, n)
  BY DEF Init
<1>5. n \in Nat /\ n <= Len(q) /\ (n = 0 \/ 16 <= n)
  <2>1. PICK m : m = Len(q) /\ m \in Nat
    BY <1>3
  <2>2. n \in {0} \cup 16 .. m
    BY <1>3, <1>4, <2>1 DEF Cuts
  <2>. QED  BY <2>1, <2>2
<1> HIDE DEF q
<1>6. /\ text \in Seq(Token) /\ Len(text) = n
      /\ \A i \in 1 .. n : text[i] = q[i]
  <2>1. \A i \in 1 .. n : q[i] \in Token
    BY <1>3, <1>5, ElementOfSeq
  <2>2. /\ SubSeq(q, 1, n) \in Seq(Token)
        /\ Len(SubSeq(q, 1, n)) = IF 1 <= n THEN n - 1 + 1 ELSE 0
        /\ \A i \in 1 .. n - 1 + 1 : SubSeq(q, 1, n)[i] = q[1 + i - 1]
    BY <1>5, <2>1, SubSeqProperties
  <2>. QED  BY <1>4, <1>5, <2>2
<1>7. Prefix
  <2>1. n = 0 => text = << >>
    BY <1>6, EmptySeq
  <2>. QED  BY <1>5, <1>6, <2>1 DEF Prefix, q
<1>. QED  BY <1>1, <1>7, Beginning DEF Init

\* What was loaded can be saved, and is loaded again.
LEMMA TripKeeps == IInv /\ NextTrip => IInv'
<1> SUFFICES ASSUME IInv, NextTrip
             PROVE  IInv'
  OBVIOUS
<1>1. at = "done" /\ Done /\ Types
  BY DEF IInv, NextTrip
<1>2. /\ heap.accounts_in_use \in 0 .. MAX_ACCTS /\ heap.next_number \in Nat
      /\ heap.bank \in [Slots -> LoadedAcc]
  BY <1>1 DEF Types, LoadedHeap
<1>3. ASSUME NEW j \in LiveSlots(heap)
      PROVE  heap.bank[j] \in NamedAccount /\ heap.bank[j].name \in LoadedName
  <2> DEFINE b == heap.bank[j]
  <2>1. j \in Slots /\ j < heap.accounts_in_use
    BY <1>2, BankAssumption DEF LiveSlots, Slots
  <2>2. AccountRead(b, saved.bank[j])
    BY <1>1, <2>1 DEF IInv
  <2>3. b.name \in LoadedName /\ Len(b.name) < NameSize
    BY <2>2 DEF AccountRead, FieldsRead
  <2>4. b \in LoadedAcc
    BY <1>2, <2>1
  <2>5. b.name \in Name
    <3>1. ASSUME NEW w \in LoadedName
          PROVE  w \in Seq(1 .. 255)
      <4>1. PICK S, R : S = 1 .. 127 /\ R = 1 .. 255
        OBVIOUS
      <4>2. S \subseteq R
        BY <4>1
      <4>3. w \in Seq(S)
        BY <4>1 DEF LoadedName
      <4>4. w \in Seq(R)
        BY <4>2, <4>3
      <4>. QED  BY <4>1, <4>4
    <3> HIDE DEF b
    <3>. QED  BY <2>3, <3>1 DEF Name
  <2> HIDE DEF b
  <2>6. b \in NamedAccount
    BY <2>4, <2>5 DEF LoadedAcc, NamedAccount
  <2>. QED  BY <2>3, <2>6 DEF b
<1>4. Saveable(heap)
  <2>1. \A j \in LiveSlots(heap) : heap.bank[j] \in NamedAccount
    BY <1>3
  <2>. QED  BY <1>2, <2>1 DEF Saveable
<1>5. \A j \in LiveSlots(heap) : Plain(heap.bank[j].name)
  <2>1. ASSUME NEW s \in LoadedName
        PROVE  Plain(s)
    <3>1. PICK S : s \in Seq(S) /\ \A c \in S : c < 128
      <4>1. PICK S : S = 1 .. 127
        OBVIOUS
      <4>2. s \in Seq(S)
        BY <4>1 DEF LoadedName
      <4>3. \A c \in S : c < 128
        BY <4>1
      <4>. QED  BY <4>2, <4>3
    <3>2. DOMAIN s = 1 .. Len(s)
      BY <3>1, LenProperties
    <3>3. \A k \in 1 .. Len(s) : s[k] \in S
      BY <3>1, ElementOfSeq
    <3>. QED  BY <3>1, <3>2, <3>3 DEF Plain
  <2>. QED  BY <1>3, <2>1
<1>6. /\ saved' = heap /\ text' = save_data(heap) /\ trip' = 2
      /\ heap' = FreshHeap /\ pos' = 1 /\ at' = "brace"
      /\ slot' = 0 /\ trans_read' = 0 /\ name' = << >>
  BY DEF NextTrip
<1> DEFINE q == save_data(heap)
<1>7. q \in Seq(Token) /\ Len(q) \in Nat /\ 16 <= Len(q)
  <2> DEFINE n == heap.accounts_in_use
  <2>1. /\ Layout(heap, q)
        /\ \A k \in 0 .. n : Off(heap, k) \in Nat /\ 16 <= Off(heap, k)
    BY <1>4, LayoutIs
  <2>2. n \in 0 .. n
    BY <1>2, BankAssumption
  <2>3. Len(q) = Off(heap, n) + 2
    BY <2>1 DEF Layout
  <2> HIDE DEF n
  <2>. QED  BY <2>1, <2>2, <2>3, LenProperties DEF Layout
<1>8. Prefix'
  BY <1>6, <1>7 DEF Prefix
<1>9. Saveable(saved)' /\ (\A j \in LiveSlots(saved) : Plain(saved.bank[j].name))'
  BY <1>4, <1>5, <1>6
<1>. QED
  <2> HIDE DEF q
  <2>1. Types' /\ Begins'
    <3>1. name' \in LoadedName /\ Len(name') = 0
      BY <1>6, EmptySeq DEF LoadedName
    <3>2. pos' \in Nat /\ pos' <= Len(text') + 2
      BY <1>6, <1>7 DEF q
    <3>3. Types'
      BY <1>6, <3>1, <3>2, FreshLoaded, BankAssumption, JsonAssumption DEF Types
    <3>4. Begins'
      BY <1>6, FreshLoaded DEF Begins
    <3>. QED  BY <3>3, <3>4
  <2>2. \A j \in Slots : ~ j < 0
    BY BankAssumption DEF Slots
  <2>. QED  BY <1>6, <1>8, <1>9, <2>1, <2>2, FreshLoaded DEF IInv, Inside

\* Nothing changes.
LEMMA StutterKeeps == IInv /\ UNCHANGED vars => IInv'
<1> SUFFICES ASSUME IInv, UNCHANGED vars
             PROVE  IInv'
  OBVIOUS
<1>1. UNCHANGED <<saved, text, pos, at, field, slot, trans_read, name, heap, trip>>
  BY DEF vars
<1>2. Types' = Types /\ Saveable(saved)' = Saveable(saved) /\ Prefix' = Prefix
  BY <1>1 DEF Types, Prefix
<1>3. Begins' = Begins /\ ReadsHeader' = ReadsHeader /\ HeaderRead' = HeaderRead /\ Done' = Done
  BY <1>1 DEF Begins, ReadsHeader, HeaderRead, Done
<1>4. ReadsAccounts' = ReadsAccounts
  BY <1>1, <1>3 DEF ReadsAccounts
<1>5. Reads' = Reads
  <2>1. \A u, v, w : ReadsField(u, v, w)' = ReadsField(u, v, w)
    BY <1>1 DEF ReadsField
  <2>2. \A u, v, w : ReadsName(u, v, w)' = ReadsName(u, v, w)
    BY <1>1 DEF ReadsName
  <2>3. \A u, v, w : ReadsArray(u, v, w)' = ReadsArray(u, v, w)
    BY <1>1 DEF ReadsArray
  <2>4. \A u, v, w : ReadsTran(u, v, w)' = ReadsTran(u, v, w)
    BY <1>1 DEF ReadsTran
  <2>5. \A u, v, w : ReadsClosing(u, v, w)' = ReadsClosing(u, v, w)
    BY <1>1 DEF ReadsClosing
  <2>. QED  BY <1>1, <2>1, <2>2, <2>3, <2>4, <2>5 DEF Reads
<1>6. ReadsAccount' = ReadsAccount
  BY <1>1, <1>3, <1>5 DEF ReadsAccount
<1>. QED  BY <1>1, <1>2, <1>3, <1>4, <1>6 DEF IInv

\* No step breaks the invariant.
LEMMA StepKeeps == IInv /\ [Next]_vars => IInv'
  BY BraceKeeps, HeaderKeeps, NextAccountKeeps, FieldKeeps, NameKeeps, ArrayKeeps, TranKeeps,
     ClosingKeeps, TripKeeps, StutterKeeps DEF Next

-----------------------------------------------------------------------------
(* The place of the reader.                                                *)

\* The value of a field begins after the first place of the text.
LEMMA ValueInside ==
    ASSUME NEW fields, NEW k, text \in Seq(Token), ValueAt(fields, k) # 0
    PROVE  ValueAt(fields, k) \in Nat
<1> DEFINE p == IF k = 1 THEN pos ELSE SkipTo(pos, Comma)
<1>1. p \in DOMAIN text /\ ValueAt(fields, k) = p + 2
  BY DEF ValueAt, Is
<1>2. DOMAIN text = 1 .. Len(text) /\ Len(text) \in Nat
  BY LenProperties
<1> HIDE DEF p
<1>. QED  BY <1>1, <1>2

\* No step goes to place 0, which is what skip_to_char's failure is here.
LEMMA PlaceKeeps == IInv /\ pos # 0 /\ [Next]_vars => pos' # 0
<1> SUFFICES ASSUME IInv, pos # 0, [Next]_vars
             PROVE  pos' # 0
  OBVIOUS
<1>1. text \in Seq(Token) /\ pos \in Nat
  BY DEF IInv, Prefix, Types
<1>2. \A p : p \in DOMAIN text => p \in Nat
  BY <1>1, LenProperties
<1>3. ASSUME NEW n, Stop(n)
      PROVE  pos' # 0
  BY <1>3 DEF Stop
<1>4. CASE OpeningBrace
  <2>1. CASE Is(pos, Char(Brace))
    BY <1>4, <2>1 DEF OpeningBrace, Goes
  <2>. QED  BY <1>3, <1>4, <2>1 DEF OpeningBrace
<1>5. CASE Header
  <2> DEFINE v == ValueAt(HeaderFields, field)
  <2>1. CASE v # 0
    <3>1. v \in Nat
      BY <1>1, <2>1, ValueInside
    <3>2. pos' = v + 1
      BY <1>5, <2>1 DEF Header, Goes
    <3>. QED  BY <3>1, <3>2
  <2>. QED  BY <1>3, <1>5, <2>1 DEF Header
<1>6. CASE NextAccount
  <2>1. Stop(slot) \/ pos' = pos + 1
    BY <1>6 DEF NextAccount, Goes
  <2>. QED  BY <1>1, <1>3, <2>1
<1>7. CASE Field
  <2> DEFINE v == ValueAt(AccountFields, field)
  <2>1. CASE v # 0
    <3>1. v \in Nat
      BY <1>1, <2>1, ValueInside
    <3>2. pos' = v + 1
      BY <1>7, <2>1 DEF Field, Goes
    <3>. QED  BY <3>1, <3>2
  <2>. QED  BY <1>3, <1>7, <2>1 DEF Field
<1>8. CASE NameChar
  <2>1. Stop(slot) \/ pos' = pos + 1 \/ pos' = pos + 2 \/ pos' = pos + 6
    BY <1>8 DEF NameChar, Goes
  <2>. QED  BY <1>1, <1>3, <2>1
<1>9. CASE Array
  <2>1. Stop(slot) \/ pos' = pos + 1
    BY <1>9 DEF Array, Goes
  <2>. QED  BY <1>1, <1>3, <2>1
<1>10. CASE Transaction
  <2> DEFINE v == ValueAt(TranFields, field)
             end == SkipTo(v + 1, EndBrace)
  <2>4. field \in 1 .. 3
    BY <1>10 DEF Transaction, IInv, Inside, ReadsAccount, Reads, ReadsTran
  <2>1. \/ Stop(slot)
        \/ v # 0 /\ pos' = v + 1
        \/ end # 0 /\ pos' = (IF Is(end, Char(Comma)) THEN end + 1 ELSE end) /\ v # 0
    <3>1. CASE v = 0 \/ (field = 3 /\ end = 0)
      BY <1>10, <3>1 DEF Transaction
    <3>2. CASE v # 0 /\ field < 3
      BY <1>10, <3>2 DEF Transaction, Goes
    <3>3. CASE v # 0 /\ field = 3 /\ end # 0
      BY <1>10, <3>3 DEF Transaction, Goes
    <3> HIDE DEF v, end
    <3>. QED  BY <2>4, <3>1, <3>2, <3>3
  <2>2. v # 0 => v \in Nat
    BY <1>1, ValueInside
  <2>3. Is(end, Char(Comma)) => end \in Nat
    BY <1>2 DEF Is
  <2> HIDE DEF v, end
  <2>. QED  BY <1>3, <2>1, <2>2, <2>3
<1>11. CASE Closing
  <2> DEFINE end == SkipTo(pos, EndBrace)
  <2>1. \/ Stop(slot) \/ Stop(slot + 1)
        \/ (Is(end, Char(Comma)) \/ Is(end, Char(EndBracket))) /\ pos' = end + 1
    BY <1>11 DEF Closing, Goes
  <2>2. Is(end, Char(Comma)) \/ Is(end, Char(EndBracket)) => end \in Nat
    BY <1>2 DEF Is
  <2> HIDE DEF end
  <2>. QED  BY <1>3, <2>1, <2>2
<1>12. CASE NextTrip
  BY <1>12 DEF NextTrip
<1>13. CASE UNCHANGED vars
  BY <1>13 DEF vars
<1>. QED  BY <1>4, <1>5, <1>6, <1>7, <1>8, <1>9, <1>10, <1>11, <1>12, <1>13 DEF Next

\* What the types of TypeOK say, once the reader is somewhere.
LEMMA InTypes == IInv /\ pos # 0 => TypeOK
<1> SUFFICES ASSUME IInv, pos # 0
             PROVE  TypeOK
  OBVIOUS
<1>1. Types /\ Len(text) \in Nat
  BY LenProperties DEF IInv, Prefix
<1>2. pos \in 1 .. Len(text) + 2
  BY <1>1 DEF Types
<1>. QED  BY <1>1, <1>2 DEF Types, TypeOK, LoadedHeap, Inside

-----------------------------------------------------------------------------
(* What is loaded.                                                         *)

\* The end of an account is after the end of the one before it.
LEMMA OffsGrow ==
    ASSUME Saveable(saved), NEW k \in LiveSlots(saved)
    PROVE  /\ k \in 0 .. saved.accounts_in_use /\ k + 1 \in 0 .. saved.accounts_in_use
           /\ Off(saved, k) < Off(saved, k + 1)
<1> DEFINE b == saved.bank[k]
<1>1. k \in Nat /\ k \in 0 .. saved.accounts_in_use /\ k + 1 \in 0 .. saved.accounts_in_use
  BY BankAssumption DEF LiveSlots, Saveable
<1>2. b \in NamedAccount
  BY DEF Saveable
<1>3. Layout(saved, save_data(saved)) /\ \A i \in 0 .. saved.accounts_in_use : Off(saved, i) \in Nat
  BY LayoutIs
<1>4. Off(saved, k + 1) = Base(saved, k) + AccountLen(b) /\ Off(saved, 0) = 16
  BY <1>3 DEF Layout
<1>5. Off(saved, k) \in Nat /\ Off(saved, k + 1) \in Nat
  BY <1>1, <1>3
<1> HIDE DEF b
<1>6. AccountLen(b) \in Nat /\ AccountLen(b) >= 25
  <2>1. AccountLen(b) \in Nat /\ NameLen(b) \in Nat /\ LastLen(b) \in Nat
    BY <1>2, NamedWritable
  <2>. QED  BY <2>1 DEF AccountLen
<1>7. Base(saved, k) \in Nat /\ Off(saved, k) <= Base(saved, k)
  BY <1>4, <1>5 DEF Base
<1>8. Off(saved, k) < Off(saved, k + 1)
  BY ONLY <1>4, <1>5, <1>6, <1>7
<1>. QED  BY <1>1, <1>8

\* So it is after the ends of all of them.
LEMMA OffsMonotone ==
    ASSUME Saveable(saved), NEW j \in 0 .. saved.accounts_in_use,
           NEW n \in 0 .. saved.accounts_in_use, j < n
    PROVE  Off(saved, j + 1) <= Off(saved, n)
<1> DEFINE T == {k \in j + 1 .. n : ~ (Off(saved, j + 1) <= Off(saved, k))}
<1>1. saved.accounts_in_use \in Nat /\ j \in Nat /\ n \in Nat /\ n <= saved.accounts_in_use
  BY BankAssumption DEF Saveable
<1>2. \A k \in 0 .. saved.accounts_in_use : Off(saved, k) \in Nat
  BY LayoutIs
<1>3. ASSUME T # {}
      PROVE  FALSE
  <2>1. PICK k \in T : \A i \in T : k <= i
    <3>1. T \subseteq Nat
      BY <1>1
    <3>. QED  BY <1>3, <3>1, LeastNat
  <2>2. k \in Nat /\ j + 1 <= k /\ k <= n /\ ~ (Off(saved, j + 1) <= Off(saved, k))
    BY <1>1
  <2>3. Off(saved, j + 1) \in Nat
    <3>1. j + 1 \in 0 .. saved.accounts_in_use
      BY <1>1
    <3>. QED  BY <1>2, <3>1
  <2>4. k # j + 1
    BY <2>2, <2>3
  <2> DEFINE i == k - 1
  <2>5. /\ i \in Nat /\ i + 1 = k /\ j + 1 <= i /\ i <= n /\ ~ (k <= i)
        /\ i \in j + 1 .. n /\ i \in 0 .. saved.accounts_in_use - 1
        /\ i \in 0 .. saved.accounts_in_use /\ k \in 0 .. saved.accounts_in_use
    BY <1>1, <2>2, <2>4
  <2>6. i \notin T
    BY <2>1, <2>5
  <2>7. Off(saved, j + 1) <= Off(saved, i)
    BY <2>5, <2>6
  <2>8. Off(saved, i) \in Nat /\ Off(saved, k) \in Nat
    BY <1>2, <2>5
  <2>9. Off(saved, i) < Off(saved, i + 1)
    BY <2>5, OffsGrow DEF LiveSlots
  <2>10. Off(saved, i) < Off(saved, k)
    BY <2>5, <2>9
  <2> HIDE DEF i
  <2>. QED  BY <2>2, <2>3, <2>7, <2>8, <2>10
<1>4. n \in j + 1 .. n
  BY <1>1
<1> HIDE DEF T
<1>5. n \notin T
  BY <1>3
<1>. QED  BY <1>4, <1>5 DEF T

\* The accounts all of whose text is there are those that were counted.
LEMMA WholeIs ==
    ASSUME IInv, at = "done", text # << >>
    PROVE  /\ WholeAccounts = heap.accounts_in_use
           /\ heap.accounts_in_use \in 0 .. saved.accounts_in_use
           /\ heap.next_number = saved.next_number
<1> DEFINE n == heap.accounts_in_use
           S == {k \in 0 .. saved.accounts_in_use : Len(TextTo(saved, k)) <= Len(text)}
<1>1. Saveable(saved) /\ Prefix /\ Done /\ Len(text) \in Nat
  BY LenProperties DEF IInv, Prefix
<1>2. /\ n \in 0 .. saved.accounts_in_use /\ heap.next_number = saved.next_number
      /\ Off(saved, n) <= Len(text)
      /\ n < saved.accounts_in_use => Len(text) < Off(saved, n + 1)
  BY <1>1 DEF Done
<1> HIDE DEF n
<1>3. saved.accounts_in_use \in Nat /\ n \in Nat
  BY <1>1, <1>2, BankAssumption DEF Saveable
<1>4. \A k \in 0 .. saved.accounts_in_use : Off(saved, k) \in Nat
  BY <1>1, LayoutIs
<1>5. n \in S
  BY <1>2 DEF Off
<1>6. ASSUME NEW k \in S, ~ (k <= n)
      PROVE  FALSE
  <2>1. k \in 0 .. saved.accounts_in_use /\ k \in Nat /\ Off(saved, k) <= Len(text)
    BY <1>3 DEF Off
  <2>2. n < k /\ n < saved.accounts_in_use /\ n + 1 \in 0 .. saved.accounts_in_use
    BY <1>3, <1>6, <2>1
  <2>3. Off(saved, n + 1) <= Off(saved, k)
    BY <1>1, <1>2, <2>1, <2>2, OffsMonotone
  <2>4. Off(saved, n + 1) \in Nat /\ Off(saved, k) \in Nat
    BY <1>4, <2>1, <2>2
  <2>5. Len(text) < Off(saved, n + 1)
    BY <1>2, <2>2
  <2>. QED  BY ONLY <1>1, <2>1, <2>3, <2>4, <2>5
<1>7. \A x \in S : (\A y \in S : x >= y) => x = n
  <2>1. ASSUME NEW x \in S, \A y \in S : x >= y
        PROVE  x = n
    <3>1. x \in Nat /\ x <= n
      BY <1>3, <1>6
    <3>2. n <= x
      BY <1>3, <1>5, <2>1, <3>1
    <3>. QED  BY <1>3, <3>1, <3>2
  <2>. QED  BY <2>1
<1>8. \A y \in S : n >= y
  BY <1>3, <1>6
<1>9. WholeAccounts = Max(S)
  BY DEF WholeAccounts
<1> HIDE DEF S
<1>10. Max(S) = n
  BY <1>5, <1>7, <1>8 DEF Max
<1>. QED  BY <1>2, <1>9, <1>10 DEF n

\* An account that was loaded is what BankPersistence makes of it, but for
\* the name.
LEMMA LoadedSame ==
    ASSUME NEW a \in NamedAccount, NEW b \in LoadedAcc, AccountRead(b, a)
    PROVE  Nameless(b) = Nameless(LoadedAccount(AccountJson(a)))
<1> DEFINE c == LoadedAccount(AccountJson(a))
           last == [k \in Ring |-> IF k < Len(Kept(a)) THEN Kept(a)[k + 1] ELSE ZeroTran]
<1>1. c = [number |-> a.number, pin |-> a.pin, name |-> a.name,
           balance |-> a.balance, ntran |-> a.ntran, last |-> last]
  BY DEF LoadedAccount, AccountJson
<1>2. b.last = last
  <2>1. b.last \in [Ring -> Tran]
    BY DEF LoadedAcc
  <2>2. \A k \in Ring : b.last[k] = last[k]
    BY DEF AccountRead, LastRead
  <2> HIDE DEF last
  <2>3. last = [k \in Ring |-> last[k]]
    BY DEF last
  <2>. QED  BY <2>1, <2>2, <2>3
<1>3. /\ b.number = a.number /\ b.pin = a.pin
      /\ b.balance = a.balance /\ b.ntran = a.ntran
  <2>1. FieldsRead(b, a, 5)
    BY DEF AccountRead
  <2>. QED  BY <2>1 DEF FieldsRead
<1> HIDE DEF last
<1>4. Nameless(c) = [number |-> a.number, pin |-> a.pin, name |-> << >>,
                     balance |-> a.balance, ntran |-> a.ntran, last |-> last]
  BY <1>1 DEF Nameless
<1>5. b = [number |-> b.number, pin |-> b.pin, name |-> b.name,
           balance |-> b.balance, ntran |-> b.ntran, last |-> b.last]
  BY DEF LoadedAcc
<1>6. Nameless(b) = [number |-> b.number, pin |-> b.pin, name |-> << >>,
                     balance |-> b.balance, ntran |-> b.ntran, last |-> b.last]
  BY <1>5 DEF Nameless
<1>. QED  BY <1>2, <1>3, <1>4, <1>6 DEF c

\* The slots in use are those that were read.
LEMMA LiveRead ==
    ASSUME IInv, at = "done", NEW j \in LiveSlots(heap)
    PROVE  /\ j \in Slots /\ j \in LiveSlots(saved) /\ text # << >>
           /\ heap.bank[j] \in LoadedAcc /\ saved.bank[j] \in NamedAccount
           /\ AccountRead(heap.bank[j], saved.bank[j])
<1>1. Types /\ Done /\ Saveable(saved)
  BY DEF IInv
<1>2. heap.accounts_in_use \in 0 .. MAX_ACCTS /\ heap.bank \in [Slots -> LoadedAcc]
  BY <1>1 DEF Types, LoadedHeap
<1>3. j \in Nat /\ j < heap.accounts_in_use
  BY <1>2, BankAssumption DEF LiveSlots
<1>4. text # << >> /\ heap.accounts_in_use \in 0 .. saved.accounts_in_use
  BY <1>1, <1>3 DEF Done
<1>5. saved.accounts_in_use \in Nat
  BY <1>1, BankAssumption DEF Saveable
<1>6. j \in Slots /\ j \in LiveSlots(saved)
  BY <1>2, <1>3, <1>4, <1>5, BankAssumption DEF Slots, LiveSlots
<1>7. saved.bank[j] \in NamedAccount
  BY <1>1, <1>6 DEF Saveable
<1>8. AccountRead(heap.bank[j], saved.bank[j])
  BY <1>3, <1>6 DEF IInv
<1>. QED  BY <1>2, <1>4, <1>6, <1>7, <1>8

\* What BankPersistence says of the file.
LEMMA FileLoaded ==
    ASSUME IInv, at = "done", text # << >>
    PROVE  /\ Loaded(FileOf).accounts_in_use = heap.accounts_in_use
           /\ Loaded(FileOf).next_number = heap.next_number
           /\ \A j \in LiveSlots(heap) :
                  Loaded(FileOf).bank[j] = LoadedAccount(AccountJson(saved.bank[j]))
<1> DEFINE n == heap.accounts_in_use
           m == saved.accounts_in_use
           objects == [k \in 1 .. m |-> AccountJson(saved.bank[k - 1])]
           f == FileOf
<1>1. /\ WholeAccounts = n /\ n \in 0 .. m
      /\ heap.next_number = saved.next_number
  BY WholeIs
<1>2. m \in Nat /\ n \in Nat /\ n <= m
  <2>1. m \in Nat
    BY BankAssumption DEF IInv, Saveable
  <2>. QED  BY <1>1, <2>1
<1>3. /\ f.kind \in {"whole", "cut"} /\ f.next_number = saved.next_number
      /\ f.accounts = SubSeq(objects, 1, n)
  BY <1>1 DEF FileOf, Image
<1> HIDE DEF n, m, f
<1>4. \A k \in 1 .. n : objects[k] = AccountJson(saved.bank[k - 1])
  BY <1>2
<1>5. PICK S : \A k \in 1 .. m : objects[k] \in S
  <2> DEFINE R == {objects[k] : k \in 1 .. m}
  <2>1. \A k \in 1 .. m : objects[k] \in R
    OBVIOUS
  <2> HIDE DEF R
  <2>. QED  BY <2>1
<1> HIDE DEF objects
<1>6. /\ Len(f.accounts) = n
      /\ \A k \in 1 .. n : f.accounts[k] = objects[k]
  <2>1. PICK l : l = 1
    OBVIOUS
  <2>2. \A k \in l .. n : objects[k] \in S
    BY <1>2, <1>5, <2>1
  <2>3. l \in Int /\ n \in Int
    BY <1>2, <2>1
  <2>4. /\ Len(SubSeq(objects, l, n)) = IF l <= n THEN n - l + 1 ELSE 0
        /\ \A k \in 1 .. n - l + 1 : SubSeq(objects, l, n)[k] = objects[l + k - 1]
    BY <2>2, <2>3, SubSeqProperties
  <2>5. Len(f.accounts) = n
    BY <1>2, <1>3, <2>1, <2>4
  <2>6. ASSUME NEW k \in 1 .. n
        PROVE  f.accounts[k] = objects[k]
    <3>1. k \in 1 .. n - l + 1 /\ l + k - 1 = k
      BY <1>2, <2>1
    <3>. QED  BY <1>3, <2>1, <2>4, <3>1
  <2>. QED  BY <2>5, <2>6
<1>7. Loaded(f) = [bank |-> [i \in Slots |-> IF i < Len(f.accounts)
                                             THEN LoadedAccount(f.accounts[i + 1])
                                             ELSE ZeroAccount],
                   accounts_in_use |-> Len(f.accounts),
                   next_number |-> f.next_number]
  BY <1>3 DEF Loaded
<1>8. ASSUME NEW j \in LiveSlots(heap)
      PROVE  Loaded(f).bank[j] = LoadedAccount(AccountJson(saved.bank[j]))
  <2>1. j \in Slots
    BY LiveRead
  <2>2. j \in Nat /\ j < n /\ j + 1 \in 1 .. n /\ j + 1 - 1 = j
    BY <1>2 DEF LiveSlots, n
  <2>3. f.accounts[j + 1] = AccountJson(saved.bank[j])
    BY <1>4, <1>6, <2>2
  <2>. QED  BY <1>6, <1>7, <2>1, <2>2, <2>3
<1>9. Loaded(f).accounts_in_use = n /\ Loaded(f).next_number = heap.next_number
  BY <1>1, <1>3, <1>6, <1>7
<1>. QED  BY <1>8, <1>9 DEF f, n

\* At the end of a load it has done what BankPersistence says.
LEMMA LoadsFileHolds == IInv => LoadsFile
<1> SUFFICES ASSUME IInv, at = "done"
             PROVE  /\ heap.accounts_in_use = Loaded(FileOf).accounts_in_use
                    /\ heap.next_number = Loaded(FileOf).next_number
                    /\ \A j \in LiveSlots(heap) :
                           Nameless(heap.bank[j]) = Nameless(Loaded(FileOf).bank[j])
  BY DEF LoadsFile
<1>1. CASE text = << >>
  <2>1. heap.accounts_in_use = 0 /\ heap.next_number = FIRST_NUMBER
    BY <1>1 DEF IInv, Done
  <2>2. Loaded(FileOf) = FreshHeap
    BY <1>1 DEF FileOf, Loaded, EmptyFile, NoFile
  <2>3. \A j : j \notin LiveSlots(heap)
    BY <1>1, LiveRead
  <2>. QED  BY <2>1, <2>2, <2>3 DEF FreshHeap
<1>2. CASE text # << >>
  <2>1. ASSUME NEW j \in LiveSlots(heap)
        PROVE  Nameless(heap.bank[j]) = Nameless(Loaded(FileOf).bank[j])
    <3> DEFINE a == saved.bank[j]
               b == heap.bank[j]
    <3>1. a \in NamedAccount /\ b \in LoadedAcc /\ AccountRead(b, a)
      BY LiveRead
    <3>2. Loaded(FileOf).bank[j] = LoadedAccount(AccountJson(a))
      BY <1>2, FileLoaded
    <3> HIDE DEF a
    <3>. QED  BY <3>1, <3>2, LoadedSame
  <2>. QED  BY <1>2, <2>1, FileLoaded
<1>. QED  BY <1>1, <1>2

\* A name of plain characters is what it was.
LEMMA NameRead ==
    ASSUME IInv, at = "done", NEW j \in LiveSlots(heap), Plain(saved.bank[j].name)
    PROVE  heap.bank[j].name = saved.bank[j].name
<1>1. AccountRead(heap.bank[j], saved.bank[j])
  BY LiveRead
<1>2. FieldsRead(heap.bank[j], saved.bank[j], 5)
  BY <1>1 DEF AccountRead
<1>. QED  BY <1>2 DEF FieldsRead

\* So NamesKept holds where the load ends.
LEMMA NamesKeptHolds == IInv => NamesKept
  BY NameRead DEF NamesKept, Plain

\* In the second round all names are plain.
LEMMA NamesSettleHolds == IInv => NamesSettle
<1> SUFFICES ASSUME IInv, at = "done", trip = 2, NEW j \in LiveSlots(heap)
             PROVE  heap.bank[j].name = saved.bank[j].name
  BY DEF NamesSettle
<1>1. j \in LiveSlots(saved)
  BY LiveRead
<1>2. Plain(saved.bank[j].name)
  BY <1>1 DEF IInv
<1>. QED  BY <1>2, NameRead

-----------------------------------------------------------------------------
(* The theorems.                                                           *)

\* The reader is where the fields it has read say, and what it has made of
\* them is what was saved: after every step of load_data, whatever the globals
\* and wherever the file ends.
THEOREM Invariance == Spec => []IInv
  BY InitIInv, StepKeeps, PTL DEF Spec

\* The reader never goes more than one place past the end of the text, into
\* no slot that bank[] does not have and no further into a name than its
\* field is long: read_json_string stops storing one byte before the end.
THEOREM TypeCorrect == Spec => []TypeOK
<1>1. Init => IInv /\ pos # 0
  <2>1. Init => pos # 0
    BY DEF Init
  <2>. QED  BY <2>1, InitIInv
<1>2. IInv /\ pos # 0 /\ [Next]_vars => (IInv /\ pos # 0)'
  BY PlaceKeeps, StepKeeps
<1>3. IInv /\ pos # 0 => TypeOK
  BY InTypes
<1>. QED  BY <1>1, <1>2, <1>3, PTL DEF Spec

\* Whatever globals a save wrote and wherever its file ends, load_data comes
\* to what BankPersistence says of that file: the accounts whose text is all
\* there, with their numbers, balances and transactions, and their count.
THEOREM LoadsWhatIsThere == Spec => []LoadsFile
  BY Invariance, LoadsFileHolds, PTL

\* A name of characters from 1 to 127 is loaded as it was saved, whatever
\* quotes, backslashes and control characters it has.
THEOREM PlainNamesKept == Spec => []NamesKept
  BY Invariance, NamesKeptHolds, PTL

\* What the first load made of a name is what the next save and load give.
THEOREM NamesSettleAtOnce == Spec => []NamesSettle
  BY Invariance, NamesSettleHolds, PTL

=============================================================================
