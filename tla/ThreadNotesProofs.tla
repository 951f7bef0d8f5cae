-------------------------- MODULE ThreadNotesProofs --------------------------
(***************************************************************************)
(* Proofs about the notes of chat threads, for any replicas, workers,      *)
(* roots and keys, any bounds, and any order of the handlers' steps with   *)
(* expiry, eviction, crashes, failed appends and a forge that fails.       *)
(***************************************************************************)
EXTENDS ThreadNotes, FiniteSetTheorems, SequenceTheorems, WellFoundedInduction, TLAPS

-----------------------------------------------------------------------------
(* Numbers.                                                                *)

\* A set of numbers that is not empty has a least one.
LEMMA NatMin ==
    ASSUME NEW S, S \subseteq Nat, S # {}
    PROVE  \E x \in S : \A y \in S : x <= y
<1> DEFINE below == {1..x : x \in S}
<1>1. below \subseteq FiniteSubsetsOf(Nat) /\ below # {}
  <2>1. ASSUME NEW x \in S PROVE 1..x \in SUBSET Nat /\ IsFiniteSet(1..x)
    BY FS_Interval
  <2> QED
    BY <2>1, Zenon DEF FiniteSubsetsOf
<1>2. \E u \in below : \A v \in below : <<v, u>> \notin StrictSubsetOrdering(Nat)
  <2> HIDE DEF below
  <2> QED
    BY <1>1, FS_StrictSubsetOrderingWellFounded, WFMin, Zenon
<1>3. PICK x \in S : \A v \in below : <<v, 1..x>> \notin StrictSubsetOrdering(Nat)
  BY <1>2
<1>4. ASSUME NEW y \in S PROVE x <= y
  <2>1. x \in Nat /\ y \in Nat
    OBVIOUS
  <2>2. SUFFICES ASSUME y < x PROVE FALSE
    BY <2>1
  <2>3. 1..y \subseteq 1..x /\ x \in 1..x /\ x \notin 1..y
    BY <2>1, <2>2
  <2>4. <<1..y, 1..x>> \in StrictSubsetOrdering(Nat)
    BY <2>3 DEF StrictSubsetOrdering
  <2> QED
    BY <1>3, <2>4, Zenon
<1> QED
  BY <1>4

\* A bounded one has a greatest, which is its Max.
LEMMA MaxIn ==
    ASSUME NEW n \in Nat, NEW S \in SUBSET (0..n), S # {}
    PROVE  Max(S) \in S /\ \A y \in S : y <= Max(S)
<1> DEFINE T == {n - x : x \in S}
<1>1. T \subseteq Nat /\ T # {}
  <2>1. \A x \in S : n - x \in Nat
    OBVIOUS
  <2> QED
    BY <2>1, Zenon
<1>2. PICK t \in T : \A u \in T : t <= u
  <2> HIDE DEF T
  <2> QED
    BY <1>1, NatMin, Zenon
<1>3. PICK x \in S : t = n - x
  OBVIOUS
<1>4. ASSUME NEW y \in S PROVE x >= y
  BY <1>2, <1>3
<1>5. \E z \in S : \A y \in S : z >= y
  BY <1>4, Zenon
<1>6. Max(S) \in S /\ \A y \in S : Max(S) >= y
  BY <1>5, Zenon DEF Max
<1> QED
  BY <1>6

\* Induction up to a bound.
LEMMA UpTo ==
    ASSUME NEW n \in Nat, NEW good, 0 \in good, \A k \in 0..n : k \in good /\ k < n => k + 1 \in good
    PROVE  \A k \in 0..n : k \in good
<1> DEFINE bad == {k \in 0..n : k \notin good}
<1>1. SUFFICES ASSUME bad # {} PROVE FALSE
  OBVIOUS
<1>2. bad \subseteq Nat
  OBVIOUS
<1>3. PICK k \in bad : \A j \in bad : k <= j
  <2> HIDE DEF bad
  <2> QED
    BY <1>1, <1>2, NatMin, Zenon
<1>4. k \in 0..n /\ k # 0 /\ k - 1 \in 0..n /\ k - 1 \notin bad
  BY <1>3
<1>5. k - 1 \in good /\ k - 1 < n
  BY <1>4
<1> QED
  BY <1>3, <1>4, <1>5

\* The first k rounds of a loop over 1..n, from one value of S to the next.
Loops(g, n, k, S, base, next) ==
    g \in [0..n -> S] /\ g[0] = base /\ \A i \in 1..k : g[i] = next[i][g[i - 1]]

\* Such a loop runs to its end.
LEMMA LoopExists ==
    ASSUME NEW n \in Nat, NEW S, NEW base \in S, NEW next \in [1..n -> [S -> S]]
    PROVE  \E g : Loops(g, n, n, S, base, next)
<1> USE DEF Loops
<1> DEFINE Run(g, k) == Loops(g, n, k, S, base, next)
           P(k) == \E g : Run(g, k)
           good == {k \in 0..n : P(k)}
<1>1. P(0)
  <2> DEFINE g == [i \in 0..n |-> base]
  <2>1. Run(g, 0)
    OBVIOUS
  <2> QED
    BY <2>1, Zenon
<1>2. ASSUME NEW k \in 0..n, P(k), k < n PROVE P(k + 1)
  <2>1. PICK g : Run(g, k)
    BY <1>2
  <2> DEFINE w == next[k + 1][g[k]]
             h == [i \in 0..n |-> IF i = k + 1 THEN w ELSE g[i]]
  <2>2. k \in Nat /\ k + 1 \in 1..n
    BY <1>2
  <2>3. w \in S
    BY <2>1, <2>2
  <2>4. h \in [0..n -> S] /\ h[k + 1] = w /\ \A i \in 0..k : h[i] = g[i]
    <3> HIDE DEF w
    <3> QED
      BY <2>1, <2>2, <2>3
  <2> HIDE DEF h
  <2>5. ASSUME NEW i \in 1..(k + 1) PROVE h[i] = next[i][h[i - 1]]
    <3>1. CASE i = k + 1
      BY <2>2, <2>4, <3>1
    <3>2. CASE i # k + 1
      BY <2>1, <2>2, <2>4, <3>2
    <3> QED
      BY <3>1, <3>2
  <2>6. h[0] = base
    BY <2>1, <2>2, <2>4
  <2> QED
    BY <2>4, <2>5, <2>6
<1>3. \A k \in 0..n : k \in good
  <2>1. 0 \in good /\ \A k \in 0..n : k \in good /\ k < n => k + 1 \in good
    <3> HIDE DEF P
    <3> QED
      BY <1>1, <1>2
  <2> HIDE DEF good
  <2> QED
    BY <2>1, UpTo, Zenon
<1>4. P(n)
  <2>1. n \in good
    <3> HIDE DEF good
    <3> QED
      BY <1>3
  <2> HIDE DEF P
  <2> QED
    BY <2>1
<1> QED
  BY <1>4

-----------------------------------------------------------------------------
(* Kept.                                                                   *)

\* The sequences kept so far.
KeptLoop(f, seq, set) ==
    f = [i \in 0..Len(seq) |->
            IF i = 0 THEN <<>>
            ELSE IF seq[i] \in set THEN Append(f[i - 1], seq[i]) ELSE f[i - 1]]

\* The loop of Kept runs to its end.
LEMMA KeptExists ==
    ASSUME NEW X, NEW seq \in Seq(X), NEW set
    PROVE  \E f \in [0..Len(seq) -> Seq(X)] :
              /\ KeptLoop(f, seq, set) /\ Kept(seq, set) = f[Len(seq)]
<1> DEFINE n == Len(seq)
           S == Seq(X)
           next == [i \in 1..n |-> [s \in S |-> IF seq[i] \in set THEN Append(s, seq[i]) ELSE s]]
<1>1. n \in Nat /\ <<>> \in S
  OBVIOUS
<1>2. next \in [1..n -> [S -> S]]
  <2>1. ASSUME NEW s \in S, NEW i \in 1..n PROVE Append(s, seq[i]) \in S
    OBVIOUS
  <2> QED
    BY <2>1
<1>3. PICK g : g \in [0..n -> S] /\ g[0] = <<>> /\ \A i \in 1..n : g[i] = next[i][g[i - 1]]
  <2> HIDE DEF next, S, n
  <2>1. \E g : Loops(g, n, n, S, <<>>, next)
    BY <1>1, <1>2, LoopExists
  <2> QED
    BY <2>1, Zenon DEF Loops
<1>4. ASSUME NEW i \in 1..n
      PROVE  g[i] = IF seq[i] \in set THEN Append(g[i - 1], seq[i]) ELSE g[i - 1]
  <2>1. PICK s \in S : s = g[i - 1]
    BY <1>1, <1>3
  <2>2. g[i] = next[i][s]
    <3> HIDE DEF next
    <3> QED
      BY <1>3, <2>1
  <2>3. next[i][s] = IF seq[i] \in set THEN Append(s, seq[i]) ELSE s
    OBVIOUS
  <2> HIDE DEF next, S
  <2> QED
    BY <2>1, <2>2, <2>3
<1>5. KeptLoop(g, seq, set)
  <2>1. g = [i \in 0..n |-> g[i]]
    BY <1>3
  <2>2. ASSUME NEW i \in 0..n
        PROVE  g[i] = IF i = 0 THEN <<>>
                      ELSE IF seq[i] \in set THEN Append(g[i - 1], seq[i]) ELSE g[i - 1]
    <3>1. i = 0 \/ i \in 1..n
      BY <1>1
    <3> QED
      BY <1>3, <1>4, <3>1, Zenon
  <2>3. [i \in 0..n |-> g[i]] = [i \in 0..n |->
            IF i = 0 THEN <<>> ELSE IF seq[i] \in set THEN Append(g[i - 1], seq[i]) ELSE g[i - 1]]
    BY <2>2
  <2> QED
    BY <2>1, <2>3 DEF KeptLoop
<1>6. PICK f : f = CHOOSE h : KeptLoop(h, seq, set)
  OBVIOUS
<1>7. KeptLoop(f, seq, set)
  BY <1>5, <1>6
<1>8. Kept(seq, set) = f[n]
  BY <1>6 DEF Kept, KeptLoop
<1>9. \A k \in 0..n : f[k] = g[k]
  <2> DEFINE good == {k \in 0..n : f[k] = g[k]}
  <2>1. 0 \in good
    BY <1>1, <1>5, <1>7 DEF KeptLoop
  <2>2. ASSUME NEW k \in 0..n, k \in good, k < n PROVE k + 1 \in good
    <3>1. k + 1 \in 0..n /\ k + 1 # 0 /\ k + 1 - 1 = k /\ f[k] = g[k]
      BY <1>1, <2>2
    <3>2. \A i \in 0..n : f[i] = IF i = 0 THEN <<>>
                                 ELSE IF seq[i] \in set THEN Append(f[i - 1], seq[i]) ELSE f[i - 1]
      BY <1>7, Zenon DEF KeptLoop
    <3>4. f[k + 1] = IF seq[k + 1] \in set THEN Append(f[k], seq[k + 1]) ELSE f[k]
      BY <3>1, <3>2
    <3>3. g[k + 1] = IF seq[k + 1] \in set THEN Append(g[k], seq[k + 1]) ELSE g[k]
      BY <1>4, <3>1
    <3> QED
      BY <3>1, <3>3, <3>4
  <2>3. \A k \in 0..n : k \in good
    <3> HIDE DEF good, n
    <3> QED
      BY <1>1, <2>1, <2>2, UpTo
  <2> QED
    BY <2>3
<1>10. n \in 0..n
  BY <1>1
<1> QED
  BY <1>3, <1>5, <1>8, <1>9, <1>10, Zenon

\* What has been kept of the first k elements.
KeptOf(s, seq, set, k) ==
    /\ Len(s) <= k
    /\ \A x : (\E j \in 1..Len(s) : s[j] = x) <=> x \in set /\ \E i \in 1..k : seq[i] = x
    /\ IsInjective(seq) => IsInjective(s)
    /\ (\A i \in 1..k : seq[i] \in set) => Len(s) = k /\ \A j \in 1..k : s[j] = seq[j]
    /\ (\E i \in 1..k : seq[i] \notin set) => Len(s) < k

\* One more element.
LEMMA KeptOneMore ==
    ASSUME NEW X, NEW seq \in Seq(X), NEW set, NEW k \in Nat, k + 1 <= Len(seq),
           NEW s \in Seq(X), KeptOf(s, seq, set, k)
    PROVE  KeptOf(IF seq[k + 1] \in set THEN Append(s, seq[k + 1]) ELSE s, seq, set, k + 1)
<1> PICK e \in X : e = seq[k + 1]
  OBVIOUS
<1>0. k + 1 \in Nat /\ Len(s) \in Nat /\ Len(s) <= k
  BY DEF KeptOf
<1>1. CASE e \notin set
  <2>1. \A x : (\E i \in 1..k + 1 : seq[i] = x) <=> x = e \/ \E i \in 1..k : seq[i] = x
    BY <1>0
  <2>2. \A x : (\E j \in 1..Len(s) : s[j] = x) <=> x \in set /\ \E i \in 1..k + 1 : seq[i] = x
    BY <1>1, <2>1, Zenon DEF KeptOf
  <2>3. k + 1 \in 1..k + 1 /\ Len(s) < k + 1 /\ Len(s) <= k + 1
    BY <1>0
  <2> QED
    BY <1>1, <2>2, <2>3 DEF KeptOf
<1>2. CASE e \in set
  <2> DEFINE t == Append(s, e)
             m == Len(s)
  <2>1. t \in Seq(X) /\ Len(t) = m + 1 /\ t[m + 1] = e /\ \A j \in 1..m : t[j] = s[j]
    OBVIOUS
  <2> HIDE DEF t
  <2>2. Len(t) <= k + 1
    BY <1>0, <2>1
  <2>3. \A x : (\E j \in 1..Len(t) : t[j] = x) <=> x \in set /\ \E i \in 1..k + 1 : seq[i] = x
    <3>1. \A x : (\E j \in 1..Len(t) : t[j] = x) <=> x = e \/ \E j \in 1..m : s[j] = x
      <4>1. m + 1 \in 1..Len(t) /\ \A j \in 1..m : j \in 1..Len(t)
        BY <1>0, <2>1
      <4>2. \A j \in 1..Len(t) : j = m + 1 \/ j \in 1..m
        BY <1>0, <2>1
      <4> QED
        BY <2>1, <4>1, <4>2, Zenon
    <3>2. \A x : (\E i \in 1..k + 1 : seq[i] = x) <=> x = e \/ \E i \in 1..k : seq[i] = x
      BY <1>0
    <3> QED
      BY <1>2, <3>1, <3>2, Zenon DEF KeptOf
  <2>4. ASSUME IsInjective(seq) PROVE IsInjective(t)
    <3>1. \A j \in 1..m : s[j] # e
      <4> SUFFICES ASSUME NEW j \in 1..m, s[j] = e PROVE FALSE
        OBVIOUS
      <4>1. PICK i \in 1..k : seq[i] = e
        BY Zenon DEF KeptOf
      <4>2. i \in DOMAIN seq /\ k + 1 \in DOMAIN seq /\ i # k + 1
        BY <1>0
      <4> QED
        BY <2>4, <4>1, <4>2 DEF IsInjective
    <3>2. IsInjective(s) /\ DOMAIN s = 1..m
      BY <2>4 DEF KeptOf
    <3>3. DOMAIN t = 1..m + 1
      BY <2>1
    <3> SUFFICES ASSUME NEW a \in 1..m + 1, NEW b \in 1..m + 1, t[a] = t[b] PROVE a = b
      BY <3>3 DEF IsInjective
    <3>4. (a = m + 1 \/ a \in 1..m) /\ (b = m + 1 \/ b \in 1..m)
      BY <1>0
    <3> QED
      BY <2>1, <3>1, <3>2, <3>4, Zenon DEF IsInjective
  <2>5. ASSUME \A i \in 1..k + 1 : seq[i] \in set
        PROVE  Len(t) = k + 1 /\ \A j \in 1..k + 1 : t[j] = seq[j]
    BY <1>0, <2>1, <2>5 DEF KeptOf
  <2>6. ASSUME NEW i \in 1..k + 1, seq[i] \notin set PROVE Len(t) < k + 1
    BY <1>0, <1>2, <2>1, <2>6 DEF KeptOf
  <2> QED
    BY <1>2, <2>2, <2>3, <2>4, <2>5, <2>6, Zenon DEF KeptOf, t
<1> QED
  BY <1>1, <1>2

\* Kept keeps the elements in the set, each once if they were there once, and all of
\* them if they are all in it.
LEMMA KeptFacts ==
    ASSUME NEW X, NEW seq \in Seq(X), NEW set
    PROVE  /\ Kept(seq, set) \in Seq(X) /\ Len(Kept(seq, set)) <= Len(seq)
           /\ Range(Kept(seq, set)) = Range(seq) \cap set
           /\ IsInjective(seq) => IsInjective(Kept(seq, set))
           /\ Range(seq) \subseteq set => Kept(seq, set) = seq
           /\ ~ Range(seq) \subseteq set => Len(Kept(seq, set)) < Len(seq)
<1> DEFINE n == Len(seq)
<1>1. PICK f \in [0..n -> Seq(X)] : KeptLoop(f, seq, set) /\ Kept(seq, set) = f[n]
  BY KeptExists
<1> DEFINE good == {k \in 0..n : KeptOf(f[k], seq, set, k)}
<1>2. n \in Nat
  OBVIOUS
<1>3. \A i \in 0..n : f[i] = IF i = 0 THEN <<>>
                             ELSE IF seq[i] \in set THEN Append(f[i - 1], seq[i]) ELSE f[i - 1]
  BY <1>1, Zenon DEF KeptLoop
<1>4. 0 \in good
  BY <1>2, <1>3 DEF KeptOf, IsInjective
<1>5. ASSUME NEW k \in 0..n, k \in good, k < n PROVE k + 1 \in good
  <2>1. k \in Nat /\ k + 1 \in 0..n /\ k + 1 # 0 /\ k + 1 - 1 = k /\ k + 1 <= Len(seq)
    BY <1>2, <1>5
  <2>2. f[k + 1] = IF seq[k + 1] \in set THEN Append(f[k], seq[k + 1]) ELSE f[k]
    <3> PICK j \in 0..n : j = k + 1 /\ j # 0 /\ j - 1 = k
      BY <2>1
    <3>1. f[j] = IF j = 0 THEN <<>>
                 ELSE IF seq[j] \in set THEN Append(f[j - 1], seq[j]) ELSE f[j - 1]
      BY <1>3, Zenon
    <3> HIDE DEF n
    <3> QED
      BY <3>1
  <2>3. PICK s \in Seq(X) : s = f[k]
    BY <1>1
  <2>4. KeptOf(s, seq, set, k)
    BY <1>5, <2>3
  <2>5. KeptOf(IF seq[k + 1] \in set THEN Append(s, seq[k + 1]) ELSE s, seq, set, k + 1)
    BY <2>1, <2>4, KeptOneMore
  <2> QED
    BY <2>1, <2>2, <2>3, <2>5
<1>6. n \in good
  <2>1. \A k \in 0..n : k \in good
    <3> HIDE DEF good, n
    <3> QED
      BY <1>2, <1>4, <1>5, UpTo, Zenon
  <2> QED
    BY <1>2, <2>1
<1>7. PICK s \in Seq(X) : s = Kept(seq, set) /\ KeptOf(s, seq, set, n)
  BY <1>1, <1>2, <1>6
<1>8. DOMAIN s = 1..Len(s) /\ DOMAIN seq = 1..n
  OBVIOUS
<1>9. Range(s) = Range(seq) \cap set
  <2>1. \A x : x \in Range(s) <=> \E j \in 1..Len(s) : s[j] = x
    BY <1>8, Zenon DEF Range
  <2>2. \A x : x \in Range(seq) <=> \E i \in 1..n : seq[i] = x
    BY <1>8, Zenon DEF Range
  <2>3. \A x : (\E j \in 1..Len(s) : s[j] = x) <=> x \in set /\ \E i \in 1..n : seq[i] = x
    BY <1>7, Zenon DEF KeptOf
  <2> QED
    BY <2>1, <2>2, <2>3, Zenon
<1>10. ASSUME Range(seq) \subseteq set PROVE s = seq
  <2>1. \A i \in 1..n : seq[i] \in set
    BY <1>8, <1>10 DEF Range
  <2>2. Len(s) = n /\ \A j \in 1..n : s[j] = seq[j]
    BY <1>7, <2>1 DEF KeptOf
  <2> QED
    BY <2>2, SeqEqual
<1>11. ASSUME ~ Range(seq) \subseteq set PROVE Len(s) < n
  <2>1. \E i \in 1..n : seq[i] \notin set
    BY <1>8, <1>11 DEF Range
  <2> QED
    BY <1>7, <2>1 DEF KeptOf
<1> QED
  BY <1>7, <1>9, <1>10, <1>11 DEF KeptOf

-----------------------------------------------------------------------------
(* The registry in memory.                                                 *)

\* What the memory of a process always is.
RegistryOK(mem, max) ==
    /\ mem = [byId |-> mem.byId, order |-> mem.order]
    /\ mem.order \in Seq(Roots) /\ IsInjective(mem.order) /\ Len(mem.order) <= max
    /\ mem.byId \in [Range(mem.order) -> Context]
    /\ \A r \in Range(mem.order) : mem.byId[r].root = r

\* putLocked and Replay with maxLive as a parameter.
Put(mem, c, max) ==
    LET queue == IF c.root \in Tracked(mem) THEN mem.order ELSE Append(mem.order, c.root)
        put == [byId |-> [r \in Tracked(mem) \cup {c.root} |-> IF r = c.root THEN c ELSE mem.byId[r]],
                order |-> queue]
    IN IF Len(queue) > max THEN Forget(put, {Head(queue)}) ELSE put

\* What is tracked is what is in the queue.
LEMMA TrackedIs ==
    ASSUME NEW mem, NEW max, RegistryOK(mem, max)
    PROVE  /\ Tracked(mem) = Range(mem.order) /\ Tracked(mem) \subseteq Roots
           /\ \A r \in Tracked(mem) : mem.byId[r] \in Context /\ mem.byId[r].root = r
<1>1. Tracked(mem) = Range(mem.order)
  BY DEF RegistryOK, Tracked
<1>2. Range(mem.order) \subseteq Roots
  BY DEF RegistryOK, Range
<1> QED
  BY <1>1, <1>2 DEF RegistryOK

\* A memory from its parts.
LEMMA RegistryFrom ==
    ASSUME NEW max, NEW q \in Seq(Roots), IsInjective(q), Len(q) <= max,
           NEW f \in [Range(q) -> Context], \A r \in Range(q) : f[r].root = r
    PROVE  RegistryOK([byId |-> f, order |-> q], max)
BY DEF RegistryOK

\* Two memories with the same parts are the same.
LEMMA SameRegistry ==
    ASSUME NEW max, NEW m, NEW n, RegistryOK(m, max), RegistryOK(n, max),
           m.order = n.order, \A r \in Tracked(m) : m.byId[r] = n.byId[r]
    PROVE  m = n
<1>1. Tracked(m) = Tracked(n)
  BY TrackedIs
<1>2. m.byId \in [Tracked(m) -> Context] /\ n.byId \in [Tracked(m) -> Context]
  BY <1>1, TrackedIs DEF RegistryOK
<1>3. m.byId = n.byId
  BY <1>2
<1>4. m = [byId |-> m.byId, order |-> m.order] /\ n = [byId |-> n.byId, order |-> n.order]
  BY DEF RegistryOK
<1> QED
  BY <1>3, <1>4

\* Forgetting roots keeps the others as they are.
LEMMA ForgetOK ==
    ASSUME NEW mem, NEW max \in Nat, RegistryOK(mem, max), NEW gone
    PROVE  /\ RegistryOK(Forget(mem, gone), max)
           /\ Tracked(Forget(mem, gone)) = Tracked(mem) \ gone
           /\ \A r \in Tracked(mem) \ gone : Forget(mem, gone).byId[r] = mem.byId[r]
           /\ Len(Forget(mem, gone).order) <= Len(mem.order)
           /\ Tracked(mem) \cap gone = {} => Forget(mem, gone) = mem
<1> DEFINE T == Tracked(mem) \ gone
<1> PICK q \in Seq(Roots) : q = mem.order
  BY DEF RegistryOK
<1> PICK k : k = Kept(q, T)
  OBVIOUS
<1> PICK f : f = [r \in T |-> mem.byId[r]]
  BY Zenon
<1>1. k \in Seq(Roots) /\ Len(k) <= Len(q) /\ Range(k) = Range(q) \cap T /\ (IsInjective(q) => IsInjective(k))
  BY KeptFacts
<1>2. Tracked(mem) = Range(q) /\ \A r \in Tracked(mem) : mem.byId[r] \in Context /\ mem.byId[r].root = r
  BY TrackedIs
<1>3. Range(k) = T /\ IsInjective(k) /\ Len(k) <= max
  <2>1. IsInjective(q) /\ Len(q) <= max
    BY DEF RegistryOK
  <2>2. Range(k) = T
    BY <1>1, <1>2, Zenon
  <2>3. Len(k) \in Nat /\ Len(q) \in Nat
    BY <1>1
  <2> HIDE DEF T
  <2> QED
    BY <1>1, <2>1, <2>2, <2>3
<1>4. f \in [Range(k) -> Context] /\ \A r \in Range(k) : f[r].root = r /\ f[r] = mem.byId[r]
  BY <1>2, <1>3, Zenon
<1>5. Forget(mem, gone) = [byId |-> f, order |-> k]
  BY DEF Forget
<1>6. RegistryOK(Forget(mem, gone), max)
  <2>1. RegistryOK([byId |-> f, order |-> k], max)
    BY <1>1, <1>3, <1>4, Zenon DEF RegistryOK
  <2> QED
    BY <1>5, <2>1
<1>7. Tracked(Forget(mem, gone)) = T
  BY <1>5 DEF Tracked
<1>8. \A r \in T : Forget(mem, gone).byId[r] = mem.byId[r]
  BY <1>3, <1>4, <1>5
<1>9. Len(Forget(mem, gone).order) <= Len(mem.order)
  BY <1>1, <1>5
<1>10. ASSUME Tracked(mem) \cap gone = {} PROVE Forget(mem, gone) = mem
  <2>1. T = Tracked(mem)
    BY <1>10
  <2>2. Range(q) \subseteq T
    BY <1>2, <2>1
  <2>3. k = q
    BY <2>2, KeptFacts
  <2>4. Forget(mem, gone).order = mem.order
    BY <1>5, <2>3
  <2> HIDE DEF T
  <2> QED
    BY <1>6, <1>7, <1>8, <2>1, <2>4, SameRegistry
<1> QED
  BY <1>6, <1>7, <1>8, <1>9, <1>10

\* Putting a context tracks it, and evicts at most one other root.
LEMMA PutOK ==
    ASSUME NEW mem, NEW max \in Nat \ {0}, RegistryOK(mem, max), NEW c \in Context
    PROVE  LET new == Put(mem, c, max)
           IN /\ RegistryOK(new, max)
              /\ c.root \in Tracked(new) /\ new.byId[c.root] = c
              /\ Tracked(new) \subseteq Tracked(mem) \cup {c.root}
              /\ \A r \in Tracked(new) \ {c.root} : new.byId[r] = mem.byId[r]
              /\ c.root \in Tracked(mem) => new.order = mem.order /\ Tracked(new) = Tracked(mem)
              /\ c.root \notin Tracked(mem) /\ Len(mem.order) < max =>
                    new.order = Append(mem.order, c.root) /\ Tracked(new) = Tracked(mem) \cup {c.root}
<1> PICK q \in Seq(Roots) : q = mem.order
  BY DEF RegistryOK
<1> DEFINE T == Tracked(mem) \cup {c.root}
           queue == IF c.root \in Tracked(mem) THEN q ELSE Append(q, c.root)
<1> PICK f : f = [r \in T |-> IF r = c.root THEN c ELSE mem.byId[r]]
  BY Zenon
<1> PICK root \in Roots : root = c.root
  BY DEF Context
<1>1. Tracked(mem) = Range(q) /\ \A r \in Tracked(mem) : mem.byId[r] \in Context /\ mem.byId[r].root = r
  BY TrackedIs
<1>2. Len(q) \in Nat /\ Len(q) <= max /\ IsInjective(q)
  BY DEF RegistryOK
<1>3. PICK full \in Seq(Roots) : full = queue
  <2>1. c.root \in Roots /\ q \in Seq(Roots)
    BY DEF Context
  <2>2. Append(q, c.root) \in Seq(Roots)
    BY <2>1
  <2> QED
    BY <2>2, Zenon
<1>4. /\ Range(full) = T /\ IsInjective(full) /\ Len(full) <= max + 1
      /\ Len(full) > max => root \notin Tracked(mem) /\ full = Append(q, root) /\ Len(q) = max
      /\ Len(full) <= max => root \in Tracked(mem) \/ Len(q) < max
  <2>1. CASE root \in Tracked(mem)
    BY <1>1, <1>2, <1>3, <2>1
  <2>2. CASE root \notin Tracked(mem)
    <3> DEFINE n == Len(q)
    <3>1. full = Append(q, root) /\ Len(full) = n + 1 /\ full[n + 1] = root /\ \A i \in 1..n : full[i] = q[i]
      BY <1>3, <2>2
    <3>2. DOMAIN full = 1..n + 1 /\ DOMAIN q = 1..n /\ \A i \in 1..n + 1 : i \in 1..n \/ i = n + 1
      BY <1>2, <3>1
    <3>3. ASSUME NEW x PROVE x \in Range(full) <=> x \in Range(q) \/ x = root
      <4>1. x \in Range(full) <=> \E i \in 1..n + 1 : full[i] = x
        BY <3>2, Zenon DEF Range
      <4>2. x \in Range(q) <=> \E i \in 1..n : q[i] = x
        BY <3>2, Zenon DEF Range
      <4>3. \A i \in 1..n : i \in 1..n + 1
        BY <1>2
      <4>4. n + 1 \in 1..n + 1
        BY <1>2
      <4> HIDE DEF n
      <4> QED
        BY <3>1, <3>2, <4>1, <4>2, <4>3, <4>4
    <3>4. \A i \in 1..n : q[i] # root
      BY <1>1, <2>2, <3>2 DEF Range
    <3>5. IsInjective(full)
      <4> SUFFICES ASSUME NEW a \in 1..n + 1, NEW b \in 1..n + 1, full[a] = full[b] PROVE a = b
        BY <3>2 DEF IsInjective
      <4>1. (a \in 1..n \/ a = n + 1) /\ (b \in 1..n \/ b = n + 1)
        BY <3>2
      <4>2. \A i, j \in 1..n : q[i] = q[j] => i = j
        BY <1>2, <3>2, Zenon DEF IsInjective
      <4> QED
        BY <3>1, <3>4, <4>1, <4>2
    <3> QED
      BY <1>1, <1>2, <2>2, <3>1, <3>3, <3>5
  <2> QED
    BY <2>1, <2>2
<1>5. f \in [Range(full) -> Context] /\ \A r \in Range(full) : f[r].root = r
  BY <1>1, <1>4
<1> DEFINE put == [byId |-> f, order |-> full]
           new == Put(mem, c, max)
<1>6. new = IF Len(full) > max THEN Forget(put, {Head(full)}) ELSE put
  BY <1>3 DEF Put
<1>7. RegistryOK(put, max + 1) /\ Tracked(put) = T /\ max + 1 \in Nat
  <2>1. RegistryOK(put, max + 1)
    BY <1>4, <1>5, RegistryFrom, Zenon
  <2> QED
    BY <2>1 DEF Tracked
<1>8. CASE Len(full) <= max
  <2>1. new = put
    <3> HIDE DEF new, put
    <3>1. Len(full) \in Nat
      OBVIOUS
    <3> QED
      BY <1>6, <1>8, <3>1
  <2>2. RegistryOK(put, max)
    BY <1>4, <1>5, <1>8, RegistryFrom, Zenon
  <2>3. put.byId[root] = c /\ \A r \in T \ {root} : put.byId[r] = mem.byId[r]
    OBVIOUS
  <2>4. root \in Tracked(mem) => full = q /\ T = Tracked(mem)
    BY <1>3
  <2>5. root \notin Tracked(mem) => full = Append(q, root)
    BY <1>3
  <2>6. Len(mem.order) = Len(q) /\ put.order = full /\ put.byId = f
    OBVIOUS
  <2>7. new.order = full /\ Tracked(new) = T
    <3> HIDE DEF new, put, T
    <3> QED
      BY <1>7, <2>1, <2>6
  <2>8. RegistryOK(new, max) /\ new.byId[root] = c /\ \A r \in T \ {root} : new.byId[r] = mem.byId[r]
    <3> HIDE DEF new, put, T
    <3> QED
      BY <2>1, <2>2, <2>3
  <2> HIDE DEF new
  <2>9. root \in Tracked(new) /\ Tracked(new) \subseteq Tracked(mem) \cup {root}
    BY <2>7
  <2>10. root \in Tracked(mem) => new.order = mem.order /\ Tracked(new) = Tracked(mem)
    BY <2>4, <2>7
  <2>11. root \notin Tracked(mem) => new.order = Append(mem.order, root) /\ Tracked(new) = Tracked(mem) \cup {root}
    BY <2>5, <2>7
  <2> QED
    BY <2>7, <2>8, <2>9, <2>10, <2>11 DEF new
<1>9. CASE Len(full) > max
  <2> PICK h : h = Head(full)
    OBVIOUS
  <2>1. h # root /\ h \in Range(q)
    BY <1>1, <1>2, <1>4, <1>9 DEF Range
  <2>2. new = Forget(put, {h})
    BY <1>6, <1>9
  <2>3. /\ RegistryOK(new, max + 1) /\ Tracked(new) = T \ {h}
        /\ \A r \in T \ {h} : new.byId[r] = put.byId[r]
    <3> HIDE DEF put, new, T
    <3> QED
      BY <1>7, <2>2, ForgetOK
  <2>4. Len(new.order) <= max
    <3>1. new.order = Kept(full, T \ {h})
      <4>1. put.order = full
        OBVIOUS
      <4> HIDE DEF put, new, T
      <4> QED
        BY <1>7, <2>2, <4>1 DEF Forget
    <3>2. h \in Range(full)
      BY <1>1, <1>4, <2>1
    <3>3. ~ Range(full) \subseteq T \ {h}
      BY <3>2
    <3>4. Len(new.order) < Len(full) /\ new.order \in Seq(Roots)
      BY <3>1, <3>3, KeptFacts
    <3>5. Len(full) \in Nat /\ Len(new.order) \in Nat
      BY <3>4
    <3> HIDE DEF new, T
    <3> QED
      BY <1>4, <3>4, <3>5
  <2>5. RegistryOK(new, max)
    <3> HIDE DEF new
    <3> QED
      BY <2>3, <2>4 DEF RegistryOK
  <2>6. root \in Tracked(new) /\ new.byId[root] = c /\ \A r \in Tracked(new) \ {root} : new.byId[r] = mem.byId[r]
    <3>1. put.byId[root] = c /\ \A r \in T \ {root} : put.byId[r] = mem.byId[r]
      OBVIOUS
    <3> HIDE DEF new, put
    <3> QED
      BY <2>1, <2>3, <3>1
  <2>7. Tracked(new) \subseteq T
    BY <2>3
  <2>8. root \notin Tracked(mem) /\ ~ Len(mem.order) < max
    BY <1>2, <1>4, <1>9
  <2>9. Tracked(new) \subseteq Tracked(mem) \cup {root}
    BY <2>7
  <2> HIDE DEF new, put, T
  <2> QED
    BY <2>5, <2>6, <2>8, <2>9 DEF new
<1> QED
  BY <1>8, <1>9
-----------------------------------------------------------------------------
(* What everything is.                                                     *)

Slots == Cardinality(Workers)
Holding == {"wait", "drop"} \cup Guarded
Writing == {"isOpen", "append", "comment", "openPR"}
Landed == {"writeBack", "count"}
Pcs == {"idle", "chat", "complete", "lockRoot"} \cup Holding
Kinds == UNION {s.faults : s \in Scenes}

Work == [pc : Pcs, at : Processes \cup {None}, key : Keys \cup {None},
         tc : Context \cup {NoWork.tc}, lock : 0..Slots, target : Nat, token : Nat, chat : Nat]

Birth == [root : Roots, landed : Nat, lost : Nat]
Pull(n) == [inc : 0..n, open : BOOLEAN, entry : Seq(Keys), comments : Seq(Keys), orphan : BOOLEAN]

Call == [at : Processes, estimate : Nat, cost : Nat, state : {"flying", "recorded", "abandoned", "forgotten"}]

\* A context of a thread that was born, and that names pull requests there are.
ContextOK(c, bn, ps) ==
    /\ c \in Context
    /\ c.inc \in 1..Len(bn) /\ bn[c.inc].root = c.root
    /\ c.noteUrl <= Len(ps) /\ c.curated <= Len(ps)

MemoryOK(mem, max, bn, ps) ==
    /\ RegistryOK(mem, max)
    /\ \A r \in Tracked(mem) : ContextOK(mem.byId[r], bn, ps)

FileOK(lines, bn, ps) ==
    /\ lines \in Seq(Context)
    /\ \A i \in DOMAIN lines : ContextOK(lines[i], bn, ps)

\* A job holds a guard or waits for it from LockRoot to Drop, and a token while it writes.
JobOK(x, bn, ps) ==
    /\ x \in Work
    /\ x.pc = "idle" => x = NoWork
    /\ x.pc # "idle" => x.at \in Processes /\ x.key \in Keys /\ ContextOK(x.tc, bn, ps) /\ x.target <= Len(ps)
    /\ x.pc \in Writing => x.tc.notes < MaxNotes
    /\ x.lock # 0 <=> x.pc \in Holding
    /\ x.token # 0 => x.pc \in Writing

ForgeTyped == born \in Seq(Birth) /\ prs \in Seq(Pull(Len(born)))

RegistriesTyped ==
    /\ DOMAIN memory = Processes
    /\ \A p \in Processes : MemoryOK(memory[p], scene.maxLive, born, prs)

FileTyped == FileOK(file, born, prs) /\ torn \in BOOLEAN /\ failures \in Seq(Kinds)

JobsTyped == work \in [Workers -> Work] /\ \A w \in Workers : JobOK(work[w], born, prs)

LocksTyped ==
    /\ writeLocks \in [Processes -> [Roots -> 0..Slots]]
    /\ locks \in [1..Slots -> [refs : Nat, held : BOOLEAN]]

Typed ==
    /\ scene \in Scenes /\ clock \in Nat /\ active \in Processes /\ chats \in Seq(Call)
    /\ ForgeTyped /\ RegistriesTyped /\ FileTyped /\ JobsTyped /\ LocksTyped

\* What no step takes back: the births, and the pull requests.
Grown(bn, bn2, ps, ps2) ==
    /\ Len(bn) <= Len(bn2) /\ \A i \in 1..Len(bn) : bn2[i].root = bn[i].root
    /\ Len(ps) <= Len(ps2)

\* A job that goes on.
Jobs(x, pc, tc, lock, target, token, chat) ==
    [pc : {pc}, at : {x.at}, key : {x.key}, tc : {tc}, lock : {lock}, target : {target},
     token : {token}, chat : {chat}]

\* The bounds are numbers, and the registry keeps one context at least.
LEMMA Bounds ==
    /\ MaxNotes \in Nat \ {0} /\ MaxWrites \in Nat \ {0} /\ TTL \in Nat
    /\ \A s \in Scenes : s.maxLive \in Nat \ {0} /\ s.roots \subseteq Roots
    /\ IsFiniteSet(Workers) /\ Slots \in Nat
BY BoundsAssumption, FS_CardinalityType DEF Slots

\* A context stays one.
LEMMA GrownContext ==
    ASSUME NEW bn \in Seq(Birth), NEW bn2 \in Seq(Birth), NEW X, NEW ps \in Seq(X), NEW Y, NEW ps2 \in Seq(Y),
           Grown(bn, bn2, ps, ps2), NEW c, ContextOK(c, bn, ps)
    PROVE  ContextOK(c, bn2, ps2)
<1>1. c.inc \in Nat /\ c.noteUrl \in Nat /\ c.curated \in Nat
  BY DEF ContextOK, Context
<1>2. Len(bn) \in Nat /\ Len(bn2) \in Nat /\ Len(ps) \in Nat /\ Len(ps2) \in Nat
  OBVIOUS
<1> QED
  BY <1>1, <1>2 DEF ContextOK, Grown

\* So does the context of a job.
LEMMA GrownJob ==
    ASSUME NEW bn \in Seq(Birth), NEW bn2 \in Seq(Birth), NEW X, NEW ps \in Seq(X), NEW Y, NEW ps2 \in Seq(Y),
           Grown(bn, bn2, ps, ps2), NEW x, JobOK(x, bn, ps)
    PROVE  JobOK(x, bn2, ps2)
<1>1. x.target \in Nat /\ Len(ps) \in Nat /\ Len(ps2) \in Nat
  BY DEF JobOK, Work
<1>2. x.pc # "idle" => ContextOK(x.tc, bn2, ps2) /\ x.target <= Len(ps2)
  BY <1>1, GrownContext DEF JobOK, Grown
<1> QED
  BY <1>2 DEF JobOK

\* A job that goes on is one.
LEMMA JobGoesOn ==
    ASSUME NEW bn, NEW ps, NEW bn2, NEW ps2, NEW x, JobOK(x, bn, ps), x.pc # "idle",
           NEW pc \in Pcs \ {"idle"}, NEW tc, ContextOK(tc, bn2, ps2), NEW lock \in 0..Slots,
           NEW target \in Nat, target <= Len(ps2), NEW token \in Nat, NEW chat \in Nat,
           pc \in Writing => tc.notes < MaxNotes,
           lock # 0 <=> pc \in Holding, token # 0 => pc \in Writing,
           NEW y \in Jobs(x, pc, tc, lock, target, token, chat)
    PROVE  JobOK(y, bn2, ps2)
<1>1. /\ y.pc = pc /\ y.at = x.at /\ y.key = x.key /\ y.tc = tc /\ y.lock = lock /\ y.target = target
      /\ y.token = token /\ y.chat = chat
  BY DEF Jobs
<1>2. x.at \in Processes /\ x.key \in Keys /\ tc \in Context
  BY DEF JobOK, ContextOK
<1>3. y \in Work
  BY <1>2 DEF Work, Jobs
<1> QED
  BY <1>1, <1>2, <1>3 DEF JobOK

\* An idle goroutine has no job.
LEMMA NoJob ==
    ASSUME NEW bn, NEW ps
    PROVE  JobOK(NoWork, bn, ps) /\ NoWork.pc = "idle" /\ NoWork.lock = 0 /\ NoWork.token = 0
<1>1. NoWork \in Work
  BY Bounds DEF NoWork, Work, Pcs, NoPR
<1> QED
  BY <1>1 DEF JobOK, NoWork, Holding, Guarded, Writing

\* The job of one goroutine changes.
LEMMA JobsChange ==
    ASSUME Typed, ForgeTyped', Grown(born, born', prs, prs'), NEW w \in Workers, NEW y,
           work' = [work EXCEPT ![w] = y], JobOK(y, born', prs')
    PROVE  JobsTyped' /\ work'[w] = y /\ \A v \in Workers \ {w} : work'[v] = work[v]
<1>1. work \in [Workers -> Work] /\ y \in Work
  BY DEF Typed, JobsTyped, JobOK
<1>2. work' \in [Workers -> Work] /\ work'[w] = y /\ \A v \in Workers \ {w} : work'[v] = work[v]
  BY <1>1
<1>3. ASSUME NEW v \in Workers PROVE JobOK(work'[v], born', prs')
  <2>1. CASE v = w
    BY <1>2, <2>1
  <2>2. CASE v # w
    BY <1>2, <2>2, GrownJob DEF Typed, JobsTyped, ForgeTyped
  <2> QED
    BY <2>1, <2>2
<1> QED
  BY <1>2, <1>3 DEF JobsTyped

\* No job changes.
LEMMA JobsStay ==
    ASSUME Typed, ForgeTyped', Grown(born, born', prs, prs'), work' = work
    PROVE  JobsTyped'
<1>1. ASSUME NEW v \in Workers PROVE JobOK(work[v], born', prs')
  BY GrownJob DEF Typed, JobsTyped, ForgeTyped
<1> QED
  BY <1>1 DEF Typed, JobsTyped

\* A memory stays one.
LEMMA GrownMemory ==
    ASSUME Typed, ForgeTyped', Grown(born, born', prs, prs'), NEW mem, NEW max, MemoryOK(mem, max, born, prs)
    PROVE  MemoryOK(mem, max, born', prs')
BY GrownContext DEF Typed, ForgeTyped, MemoryOK

\* So does the file.
LEMMA GrownFile ==
    ASSUME Typed, ForgeTyped', Grown(born, born', prs, prs'), NEW lines, FileOK(lines, born, prs)
    PROVE  FileOK(lines, born', prs')
BY GrownContext DEF Typed, ForgeTyped, FileOK

\* The memory of no process changes.
LEMMA RegistriesStay ==
    ASSUME Typed, ForgeTyped', Grown(born, born', prs, prs'), scene' = scene, memory' = memory
    PROVE  RegistriesTyped'
<1>1. ASSUME NEW p \in Processes PROVE MemoryOK(memory[p], scene.maxLive, born', prs')
  BY GrownMemory DEF Typed, RegistriesTyped
<1> QED
  BY <1>1 DEF Typed, RegistriesTyped

\* The memory of one process changes.
LEMMA RegistriesChange ==
    ASSUME Typed, ForgeTyped', Grown(born, born', prs, prs'), scene' = scene, NEW p, NEW m,
           memory' = [memory EXCEPT ![p] = m], MemoryOK(m, scene.maxLive, born', prs')
    PROVE  RegistriesTyped'
<1>1. ASSUME NEW q \in Processes PROVE MemoryOK(memory[q], scene.maxLive, born', prs')
  BY GrownMemory DEF Typed, RegistriesTyped
<1>2. DOMAIN memory = Processes /\ DOMAIN memory' = Processes
  BY DEF Typed, RegistriesTyped
<1>3. ASSUME NEW q \in Processes PROVE memory'[q] = IF q = p THEN m ELSE memory[q]
  BY <1>2
<1> QED
  BY <1>1, <1>2, <1>3 DEF RegistriesTyped

\* The file does not change.
LEMMA FileStays ==
    ASSUME Typed, ForgeTyped', Grown(born, born', prs, prs'), file' = file, torn' \in BOOLEAN,
           failures' \in Seq(Kinds)
    PROVE  FileTyped'
<1>1. FileOK(file, born', prs')
  BY GrownFile DEF Typed, FileTyped
<1> QED
  BY <1>1 DEF FileTyped

\* A fault is one of those that a scene has.
LEMMA FaultTyped ==
    ASSUME Typed, NEW kind, Fault(kind)
    PROVE  failures' \in Seq(Kinds) /\ failures' = Append(failures, kind)
<1>1. kind \in Kinds
  BY DEF Typed, Fault, Kinds
<1>2. failures \in Seq(Kinds) /\ failures' = Append(failures, kind)
  BY DEF Typed, FileTyped, Fault
<1> QED
  BY <1>1, <1>2
-----------------------------------------------------------------------------
(* What the registry does keeps its shape.                                 *)

\* putLocked, without the scene it reads its bound from.
LEMMA PutIs == ASSUME NEW mem, NEW c PROVE putLocked(mem, c) = Put(mem, c, scene.maxLive)
BY DEF putLocked, Put

\* A context of the system put into a memory of it.
LEMMA PutMemory ==
    ASSUME NEW max \in Nat \ {0}, NEW bn, NEW ps, NEW mem, MemoryOK(mem, max, bn, ps), NEW c, ContextOK(c, bn, ps)
    PROVE  MemoryOK(Put(mem, c, max), max, bn, ps)
<1>1. RegistryOK(mem, max) /\ c \in Context
  BY DEF MemoryOK, ContextOK
<1> PICK new : new = Put(mem, c, max)
  OBVIOUS
<1>2. /\ RegistryOK(new, max) /\ new.byId[c.root] = c
      /\ Tracked(new) \subseteq Tracked(mem) \cup {c.root}
      /\ \A r \in Tracked(new) \ {c.root} : new.byId[r] = mem.byId[r]
  BY <1>1, PutOK
<1> QED
  BY <1>2 DEF MemoryOK

\* Expiry forgets what is too old and nothing else.
LEMMA Expired ==
    ASSUME NEW max \in Nat, NEW mem, RegistryOK(mem, max)
    PROVE  /\ RegistryOK(expireLocked(mem), max)
           /\ Tracked(expireLocked(mem)) = {r \in Tracked(mem) : ~ clock - mem.byId[r].at > TTL}
           /\ \A r \in Tracked(expireLocked(mem)) : expireLocked(mem).byId[r] = mem.byId[r]
           /\ Len(expireLocked(mem).order) <= Len(mem.order)
           /\ (\A r \in Tracked(mem) : ~ clock - mem.byId[r].at > TTL) => expireLocked(mem) = mem
<1> DEFINE gone == {r \in Tracked(mem) : clock - mem.byId[r].at > TTL}
<1>1. expireLocked(mem) = Forget(mem, gone)
  BY DEF expireLocked
<1>2. Tracked(mem) \ gone = {r \in Tracked(mem) : ~ clock - mem.byId[r].at > TTL}
  OBVIOUS
<1>3. (\A r \in Tracked(mem) : ~ clock - mem.byId[r].at > TTL) => Tracked(mem) \cap gone = {}
  OBVIOUS
<1> HIDE DEF gone
<1> QED
  BY <1>1, <1>2, <1>3, ForgetOK

\* It leaves a memory of the system.
LEMMA ExpiredMemory ==
    ASSUME NEW max \in Nat, NEW bn, NEW ps, NEW mem, MemoryOK(mem, max, bn, ps)
    PROVE  MemoryOK(expireLocked(mem), max, bn, ps)
BY Expired DEF MemoryOK

\* The memory before any line.
LEMMA EmptyMemory == ASSUME NEW max \in Nat PROVE RegistryOK(NoMemory, max) /\ Tracked(NoMemory) = {}
<1> PICK q \in Seq(Roots) : q = <<>>
  BY EmptySeq
<1>1. Len(q) = 0 /\ DOMAIN q = {}
  BY EmptySeq
<1>2. Range(q) = {} /\ IsInjective(q)
  BY <1>1 DEF Range, IsInjective
<1>3. <<>> \in [{} -> Context] /\ DOMAIN <<>> = {}
  OBVIOUS
<1>4. RegistryOK([byId |-> <<>>, order |-> q], max)
  BY <1>1, <1>2, <1>3 DEF RegistryOK
<1> QED
  BY <1>3, <1>4 DEF NoMemory, Tracked

\* Replay, without the scene.
ReplayLoop(f, lines, max) ==
    f = [i \in 0..Len(lines) |-> IF i = 0 THEN NoMemory ELSE Put(f[i - 1], lines[i], max)]

Replays(lines, max) ==
    LET mem[i \in 0..Len(lines)] == IF i = 0 THEN NoMemory ELSE Put(mem[i - 1], lines[i], max)
    IN mem[Len(lines)]

\* They are the same.
LEMMA ReplayIs == ASSUME NEW lines PROVE Replay(lines) = Replays(lines, scene.maxLive)
BY DEF Replay, Replays, putLocked, Put

\* What the first k lines put together.
ReplayFirst(f, lines, max, k) ==
    /\ \A i \in 0..k : RegistryOK(f[i], max)
    /\ f[0] = NoMemory /\ \A i \in 1..k : f[i] = Put(f[i - 1], lines[i], max)

\* The replay of a file runs to its end.
LEMMA ReplayExists ==
    ASSUME NEW lines \in Seq(Context), NEW max \in Nat \ {0}
    PROVE  \E f : ReplayFirst(f, lines, max, Len(lines)) /\ Replays(lines, max) = f[Len(lines)]
<1> DEFINE n == Len(lines)
           All == [byId : UNION {[D -> Context] : D \in SUBSET Roots}, order : Seq(Roots)]
           S == {m \in All : RegistryOK(m, max)}
           next == [i \in 1..n |-> [m \in S |-> Put(m, lines[i], max)]]
<1>1. n \in Nat
  OBVIOUS
<1>2. ASSUME NEW m, RegistryOK(m, max) PROVE m \in S
  <2>1. m = [byId |-> m.byId, order |-> m.order] /\ m.order \in Seq(Roots) /\ m.byId \in [Range(m.order) -> Context]
    BY <1>2 DEF RegistryOK
  <2>2. Range(m.order) \in SUBSET Roots
    BY <2>1 DEF Range
  <2>3. m.byId \in UNION {[D -> Context] : D \in SUBSET Roots}
    BY <2>1, <2>2
  <2> QED
    BY <1>2, <2>1, <2>3
<1>3. NoMemory \in S
  BY <1>2, EmptyMemory
<1>4. next \in [1..n -> [S -> S]]
  <2>1. ASSUME NEW m \in S, NEW i \in 1..n PROVE Put(m, lines[i], max) \in S
    <3>1. RegistryOK(m, max) /\ lines[i] \in Context
      OBVIOUS
    <3>2. RegistryOK(Put(m, lines[i], max), max)
      BY <3>1, PutOK
    <3> HIDE DEF S
    <3> QED
      BY <1>2, <3>2
  <2> HIDE DEF S
  <2> QED
    BY <2>1
<1>5. PICK g : Loops(g, n, n, S, NoMemory, next)
  <2> HIDE DEF next, S, n
  <2> QED
    BY <1>1, <1>3, <1>4, LoopExists
<1>6. g \in [0..n -> S] /\ g[0] = NoMemory
  BY <1>5 DEF Loops
<1>7. ASSUME NEW i \in 1..n PROVE g[i] = Put(g[i - 1], lines[i], max)
  <2>1. i - 1 \in 0..n
    BY <1>1
  <2>2. PICK m \in S : m = g[i - 1]
    <3> HIDE DEF S
    <3> QED
      BY <1>6, <2>1
  <2>3. g[i] = next[i][m]
    <3> HIDE DEF S, next
    <3> QED
      BY <1>5, <2>2 DEF Loops
  <2>4. next[i][m] = Put(m, lines[i], max)
    <3> HIDE DEF S
    <3> QED
      OBVIOUS
  <2> QED
    BY <2>2, <2>3, <2>4
<1>8. ReplayLoop(g, lines, max)
  <2>1. g = [i \in 0..n |-> g[i]]
    <3> HIDE DEF S
    <3> QED
      BY <1>6
  <2>2. ASSUME NEW i \in 0..n
        PROVE  g[i] = IF i = 0 THEN NoMemory ELSE Put(g[i - 1], lines[i], max)
    BY <1>1, <1>6, <1>7
  <2>3. [i \in 0..n |-> g[i]] = [i \in 0..n |-> IF i = 0 THEN NoMemory ELSE Put(g[i - 1], lines[i], max)]
    BY <2>2
  <2> QED
    BY <2>1, <2>3, Zenon DEF ReplayLoop
<1>9. PICK f : f = CHOOSE h : ReplayLoop(h, lines, max)
  OBVIOUS
<1>10. ReplayLoop(f, lines, max)
  BY <1>8, <1>9
<1>11. Replays(lines, max) = f[n]
  BY <1>9 DEF Replays, ReplayLoop
<1>12. \A k \in 0..n : f[k] = g[k]
  <2> DEFINE good == {k \in 0..n : f[k] = g[k]}
  <2>1. \A i \in 0..n : f[i] = IF i = 0 THEN NoMemory ELSE Put(f[i - 1], lines[i], max)
    BY <1>10, Zenon DEF ReplayLoop
  <2>2. 0 \in good
    BY <1>1, <1>6, <2>1
  <2>3. ASSUME NEW k \in 0..n, k \in good, k < n PROVE k + 1 \in good
    <3> PICK j \in 1..n : j = k + 1 /\ j # 0 /\ j - 1 = k /\ j \in 0..n
      BY <1>1, <2>3
    <3>1. f[j] = IF j = 0 THEN NoMemory ELSE Put(f[j - 1], lines[j], max)
      BY <2>1, Zenon
    <3>2. g[j] = Put(g[j - 1], lines[j], max)
      BY <1>7
    <3>3. f[k] = g[k]
      BY <2>3
    <3> HIDE DEF n
    <3> QED
      BY <3>1, <3>2, <3>3
  <2>4. \A k \in 0..n : k \in good
    <3> HIDE DEF good, n
    <3> QED
      BY <1>1, <2>2, <2>3, UpTo
  <2> QED
    BY <2>4
<1>13. n \in 0..n
  BY <1>1
<1>14. ReplayFirst(g, lines, max, n)
  <2>1. \A i \in 0..n : RegistryOK(g[i], max)
    BY <1>6
  <2> HIDE DEF n, S
  <2> QED
    BY <1>6, <1>7, <2>1 DEF ReplayFirst
<1> QED
  BY <1>11, <1>12, <1>13, <1>14

\* The last of the first k lines that is about a root.
LastOf(lines, k, r, j) ==
    j \in 1..k /\ lines[j].root = r /\ \A i \in 1..k : lines[i].root = r => i <= j

\* What a replay tracks it has from the last line of the root.
LEMMA ReplayValue ==
    ASSUME NEW lines \in Seq(Context), NEW max \in Nat \ {0}, NEW f,
           ReplayFirst(f, lines, max, Len(lines))
    PROVE  \A k \in 0..Len(lines) : \A r \in Tracked(f[k]) :
              \E j \in 1..k : LastOf(lines, k, r, j) /\ f[k].byId[r] = lines[j]
<1> DEFINE n == Len(lines)
           good == {k \in 0..n : \A r \in Tracked(f[k]) :
                      \E j \in 1..k : LastOf(lines, k, r, j) /\ f[k].byId[r] = lines[j]}
<1>1. n \in Nat
  OBVIOUS
<1>2. 0 \in good
  BY <1>1, EmptyMemory DEF ReplayFirst
<1>3. ASSUME NEW k \in 0..n, k \in good, k < n PROVE k + 1 \in good
  <2> PICK e \in 1..n : e = k + 1 /\ e - 1 = k /\ k \in 0..n
    BY <1>1, <1>3
  <2> PICK m : m = f[k]
    OBVIOUS
  <2> PICK c \in Context : c = lines[e]
    OBVIOUS
  <2> PICK new : new = f[e]
    OBVIOUS
  <2>1. RegistryOK(m, max) /\ new = Put(m, c, max)
    BY <1>1 DEF ReplayFirst
  <2>2. /\ c.root \in Tracked(new) /\ new.byId[c.root] = c
        /\ Tracked(new) \subseteq Tracked(m) \cup {c.root}
        /\ \A r \in Tracked(new) \ {c.root} : new.byId[r] = m.byId[r]
    BY <2>1, PutOK
  <2>3. ASSUME NEW r \in Tracked(new)
        PROVE  \E j \in 1..e : LastOf(lines, e, r, j) /\ new.byId[r] = lines[j]
    <3>1. CASE r = c.root
      BY <1>1, <2>2, <3>1 DEF LastOf
    <3>2. CASE r # c.root
      <4>1. r \in Tracked(m) /\ new.byId[r] = m.byId[r]
        BY <2>2, <3>2
      <4>2. PICK j \in 1..k : LastOf(lines, k, r, j) /\ m.byId[r] = lines[j]
        BY <1>3, <4>1
      <4>3. j \in 1..e /\ \A i \in 1..e : i \in 1..k \/ i = e
        BY <1>1
      <4>4. LastOf(lines, e, r, j)
        BY <3>2, <4>2, <4>3 DEF LastOf
      <4> QED
        BY <4>1, <4>2, <4>3, <4>4
    <3> QED
      BY <3>1, <3>2, Zenon
  <2>4. k + 1 \in 0..n
    BY <1>1, <1>3
  <2> QED
    BY <2>3, <2>4
<1> HIDE DEF n
<1>4. \A k \in 0..n : k \in good
  <2> HIDE DEF good
  <2> QED
    BY <1>1, <1>2, <1>3, UpTo, Zenon
<1> QED
  BY <1>4 DEF n

\* So a replay of a file of the system is a memory of it.
LEMMA ReplayMemory ==
    ASSUME NEW max \in Nat \ {0}, NEW bn, NEW ps, NEW lines, FileOK(lines, bn, ps)
    PROVE  MemoryOK(Replays(lines, max), max, bn, ps)
<1>1. lines \in Seq(Context) /\ Len(lines) \in Nat /\ Len(lines) \in 0..Len(lines)
  BY DEF FileOK
<1>2. PICK f : ReplayFirst(f, lines, max, Len(lines)) /\ Replays(lines, max) = f[Len(lines)]
  BY <1>1, ReplayExists
<1> PICK m : m = f[Len(lines)]
  OBVIOUS
<1>3. RegistryOK(m, max)
  BY <1>1, <1>2 DEF ReplayFirst
<1>4. ASSUME NEW r \in Tracked(m) PROVE ContextOK(m.byId[r], bn, ps)
  BY <1>1, <1>2, ReplayValue DEF FileOK
<1> QED
  BY <1>2, <1>3, <1>4 DEF MemoryOK

\* A memory written out is a file of the system.
LEMMA CompactedFile ==
    ASSUME NEW max, NEW bn, NEW ps, NEW mem, MemoryOK(mem, max, bn, ps)
    PROVE  FileOK(Compacted(mem), bn, ps)
<1> PICK q \in Seq(Roots) : q = mem.order
  BY DEF MemoryOK, RegistryOK
<1>1. DOMAIN q = 1..Len(q) /\ Len(q) \in Nat
  OBVIOUS
<1>2. ASSUME NEW i \in 1..Len(q) PROVE mem.byId[q[i]] \in Context /\ ContextOK(mem.byId[q[i]], bn, ps)
  BY <1>1, TrackedIs DEF MemoryOK, Range
<1>3. Compacted(mem) = [i \in 1..Len(q) |-> mem.byId[q[i]]]
  BY <1>1 DEF Compacted
<1>4. Compacted(mem) \in Seq(Context) /\ DOMAIN Compacted(mem) = 1..Len(q)
  BY <1>1, <1>2, <1>3
<1> QED
  BY <1>2, <1>3, <1>4 DEF FileOK
-----------------------------------------------------------------------------
(* Every step keeps the types.                                             *)

\* What the other goroutines do is as it was.
Others(w) == \A v \in Workers \ {w} : work'[v] = work[v]

\* Neither the births nor the pull requests change.
LEMMA ForgeStays ==
    ASSUME Typed, UNCHANGED <<born, prs>>
    PROVE  ForgeTyped' /\ Grown(born, born', prs, prs')
<1>1. born \in Seq(Birth) /\ prs \in Seq(Pull(Len(born)))
  BY DEF Typed, ForgeTyped
<1>2. Len(born) \in Nat /\ Len(prs) \in Nat
  BY <1>1
<1> QED
  BY <1>1, <1>2 DEF ForgeTyped, Grown

\* A birth changes.
LEMMA BirthChanges ==
    ASSUME Typed, NEW i \in 1..Len(born), NEW b \in Birth, b.root = born[i].root, born' = [born EXCEPT ![i] = b],
           prs' \in Seq(Pull(Len(born))), Len(prs) <= Len(prs')
    PROVE  /\ ForgeTyped' /\ Grown(born, born', prs, prs') /\ Len(born') = Len(born)
           /\ born'[i] = b /\ \A j \in 1..Len(born) : j # i => born'[j] = born[j]
<1>1. born \in Seq(Birth) /\ Len(born) \in Nat /\ DOMAIN born = 1..Len(born)
  BY DEF Typed, ForgeTyped
<1>2. /\ born' \in Seq(Birth) /\ Len(born') = Len(born) /\ born'[i] = b
      /\ \A j \in 1..Len(born) : j # i => born'[j] = born[j]
  BY <1>1
<1> QED
  BY <1>1, <1>2 DEF ForgeTyped, Grown

\* The pull requests change and the births do not.
LEMMA PullsChange ==
    ASSUME Typed, born' = born, prs' \in Seq(Pull(Len(born))), Len(prs) <= Len(prs')
    PROVE  ForgeTyped' /\ Grown(born, born', prs, prs')
<1>1. born \in Seq(Birth) /\ Len(born) \in Nat
  BY DEF Typed, ForgeTyped
<1> QED
  BY <1>1 DEF ForgeTyped, Grown

\* A thread is born.
LEMMA Births ==
    ASSUME Typed, NEW root \in Roots, born' = Born(root), NEW ps \in Seq(Pull(Len(born))), prs' = ps, Len(prs) <= Len(ps)
    PROVE  /\ ForgeTyped' /\ Grown(born, born', prs, prs')
           /\ Len(born') = Len(born) + 1 /\ born'[Len(born) + 1] = [root |-> root, landed |-> 0, lost |-> 0]
           /\ \A i \in 1..Len(born) : born'[i] = born[i]
           /\ \A curated \in 0..Len(ps) :
                 NewContext(root, curated) \in Context /\ ContextOK(NewContext(root, curated), born', prs')
<1> DEFINE b == [root |-> root, landed |-> 0, lost |-> 0]
           n == Len(born)
<1>1. born \in Seq(Birth) /\ n \in Nat /\ b \in Birth /\ prs \in Seq(Pull(n))
  BY DEF Typed, ForgeTyped, Birth
<1>2. born' \in Seq(Birth) /\ Len(born') = n + 1 /\ born'[n + 1] = b /\ \A i \in 1..n : born'[i] = born[i]
  BY <1>1 DEF Born
<1>3. ps \in Seq(Pull(n + 1))
  <2>1. Pull(n) \subseteq Pull(n + 1)
    BY <1>1 DEF Pull
  <2> QED
    BY <2>1
<1>4. ForgeTyped'
  BY <1>2, <1>3 DEF ForgeTyped
<1>5. Grown(born, born', prs, prs')
  <2> HIDE DEF b
  <2> QED
    BY <1>1, <1>2 DEF Grown
<1>6. ASSUME NEW curated \in 0..Len(ps)
      PROVE  NewContext(root, curated) \in Context /\ ContextOK(NewContext(root, curated), born', prs')
  <2> DEFINE c == NewContext(root, curated)
  <2>1. Len(ps) \in Nat /\ clock \in Nat /\ curated \in Nat
    BY DEF Typed
  <2>2. c.root = root /\ c.inc = n + 1 /\ c.noteUrl = 0 /\ c.curated = curated /\ c \in Context
    BY <1>1, <2>1 DEF NewContext, Context, NoPR
  <2>3. born'[n + 1].root = root
    BY <1>2
  <2> HIDE DEF c, b
  <2> QED
    BY <1>1, <1>2, <2>1, <2>2, <2>3 DEF ContextOK, c
<1> QED
  BY <1>2, <1>4, <1>5, <1>6

\* A store that the file takes, or does not.
LEMMA Stored ==
    ASSUME Typed, ForgeTyped', Grown(born, born', prs, prs'), scene' = scene, NEW p, NEW mem, NEW c,
           Store(p, mem, c), MemoryOK(mem, scene.maxLive, born, prs), ContextOK(c, born', prs')
    PROVE  RegistriesTyped' /\ FileTyped'
<1>1. scene.maxLive \in Nat \ {0}
  BY Bounds DEF Typed
<1>2. MemoryOK(putLocked(mem, c), scene.maxLive, born', prs')
  BY <1>1, GrownMemory, PutMemory, PutIs
<1>3. RegistriesTyped'
  BY <1>2, RegistriesChange, Zenon DEF Store
<1>4. torn' \in BOOLEAN /\ failures' \in Seq(Kinds)
  BY FaultTyped, Zenon DEF Store, appendLocked, NoFault, Typed, FileTyped
<1>5. FileTyped'
  <2>1. CASE file' = file
    BY <1>4, <2>1, FileStays
  <2>2. CASE file' = Append(file, c)
    <3>1. FileOK(file, born', prs') /\ c \in Context
      BY GrownFile DEF Typed, FileTyped, ContextOK
    <3>2. file \in Seq(Context) /\ Len(file) \in Nat
      BY <3>1 DEF FileOK
    <3>3. file' \in Seq(Context) /\ \A i \in DOMAIN file' : (i \in DOMAIN file /\ file'[i] = file[i]) \/ file'[i] = c
      BY <2>2, <3>1, <3>2
    <3>4. FileOK(file', born', prs')
      BY <3>1, <3>3 DEF FileOK
    <3> QED
      BY <1>4, <3>4 DEF FileTyped
  <2> QED
    BY <2>1, <2>2 DEF Store, appendLocked
<1> QED
  BY <1>3, <1>5

\* Nothing is stored.
LEMMA NotStored ==
    ASSUME Typed, ForgeTyped', Grown(born, born', prs, prs'), scene' = scene, memory' = memory,
           UNCHANGED <<file, torn>>, failures' \in Seq(Kinds)
    PROVE  RegistriesTyped' /\ FileTyped'
BY RegistriesStay, FileStays DEF Typed, FileTyped

\* The failures, if there is none.
LEMMA NoFaultTyped == ASSUME Typed, NoFault PROVE failures' \in Seq(Kinds)
BY DEF NoFault, Typed, FileTyped
\* A goroutine turns to one of the things it may do next, and the types hold.
Turns(w, next) ==
    Typed' /\ Grown(born, born', prs, prs') /\ work'[w] \in next /\ Others(w)

\* The parts make it.
LEMMA TurnsFrom ==
    ASSUME Typed, scene' = scene, clock' = clock, active' = active, chats' \in Seq(Call),
           ForgeTyped', Grown(born, born', prs, prs'), RegistriesTyped', FileTyped', LocksTyped',
           NEW w \in Workers, NEW next, NEW y \in next,
           work' = [work EXCEPT ![w] = y], JobOK(y, born', prs')
    PROVE  Turns(w, next)
<1>1. JobsTyped' /\ work'[w] = y /\ Others(w)
  BY JobsChange, Zenon DEF Others
<1>2. scene' \in Scenes /\ clock' \in Nat /\ active' \in Processes
  BY DEF Typed
<1> QED
  BY <1>1, <1>2 DEF Typed, Turns

\* The forms a job is changed in.
LEMMA JobForms ==
    ASSUME NEW x \in Work, NEW pc, NEW tc, NEW lock, NEW target, NEW token, NEW chat
    PROVE  /\ [x EXCEPT !.pc = pc] \in Jobs(x, pc, x.tc, x.lock, x.target, x.token, x.chat)
           /\ [x EXCEPT !.pc = pc, !.chat = chat] \in Jobs(x, pc, x.tc, x.lock, x.target, x.token, chat)
           /\ [x EXCEPT !.pc = pc, !.lock = lock] \in Jobs(x, pc, x.tc, lock, x.target, x.token, x.chat)
           /\ [x EXCEPT !.pc = pc, !.tc = tc] \in Jobs(x, pc, tc, x.lock, x.target, x.token, x.chat)
           /\ [x EXCEPT !.pc = pc, !.token = token] \in Jobs(x, pc, x.tc, x.lock, x.target, token, x.chat)
           /\ [x EXCEPT !.pc = pc, !.target = target, !.token = token] \in Jobs(x, pc, x.tc, x.lock, target, token, x.chat)
           /\ [x EXCEPT !.target = target, !.pc = pc] \in Jobs(x, pc, x.tc, x.lock, target, x.token, x.chat)
           /\ [[x EXCEPT !.tc = tc, !.token = token] EXCEPT !.target = target, !.pc = pc] \in Jobs(x, pc, tc, x.lock, target, token, x.chat)
BY Zenon DEF Work, Jobs

\* It does so without a word to the registry, the file or the forge.
LEMMA TurnsAlone ==
    ASSUME Typed, scene' = scene, clock' = clock, active' = active, chats' \in Seq(Call), memory' = memory, file' = file,
           torn' = torn, born' = born, prs' = prs, failures' \in Seq(Kinds), LocksTyped',
           NEW w \in Workers, NEW next, NEW y \in next,
           work' = [work EXCEPT ![w] = y], JobOK(y, born, prs)
    PROVE  Turns(w, next)
<1>1. ForgeTyped' /\ Grown(born, born', prs, prs')
  BY ForgeStays
<1>2. RegistriesTyped' /\ FileTyped'
  BY <1>1, NotStored
<1> QED
  BY <1>1, <1>2, TurnsFrom, Zenon

\* What a goroutine at work has.
LEMMA AtWork ==
    ASSUME Typed, NEW w \in Workers
    PROVE  /\ JobOK(work[w], born, prs) /\ work[w] \in Work /\ work \in [Workers -> Work]
           /\ work[w].lock \in 0..Slots /\ work[w].target \in Nat /\ work[w].token \in Nat /\ work[w].chat \in Nat
           /\ work[w].pc # "idle" =>
                 /\ work[w].at \in Processes /\ work[w].key \in Keys /\ work[w].target <= Len(prs)
                 /\ ContextOK(work[w].tc, born, prs) /\ work[w].tc \in Context /\ work[w].tc.root \in Roots
<1>1. JobOK(work[w], born, prs) /\ work \in [Workers -> Work]
  BY DEF Typed, JobsTyped
<1>2. work[w] \in Work
  BY <1>1
<1>3. ASSUME work[w].pc # "idle" PROVE ContextOK(work[w].tc, born, prs) /\ work[w].tc \in Context /\ work[w].tc.root \in Roots
  BY <1>1, <1>3 DEF JobOK, ContextOK, Context
<1> QED
  BY <1>1, <1>2, <1>3 DEF JobOK, Work

\* What LockRoot to Drop leave of the guards.
LEMMA LocksStay == ASSUME Typed, writeLocks' = writeLocks, locks' = locks PROVE LocksTyped'
BY DEF Typed, LocksTyped

-----------------------------------------------------------------------------
(* The handlers, one after the other.                                      *)

\* Budget.Allow.
LEMMA AllowTurns ==
    ASSUME Typed, NEW w \in Workers, NEW e \in Estimates, Allow(w, e)
    PROVE  Turns(w, {NoWork} \cup Jobs(work[w], "complete", work[w].tc, work[w].lock, work[w].target, work[w].token, Now))
<1> DEFINE x == work[w]
           jobs == Jobs(x, "complete", x.tc, x.lock, x.target, x.token, Now)
<1>1. /\ scene' = scene /\ clock' = clock /\ active' = active /\ memory' = memory /\ file' = file
      /\ torn' = torn /\ born' = born /\ prs' = prs /\ failures' = failures /\ writeLocks' = writeLocks /\ locks' = locks
  BY DEF Allow, ChatUnchanged
<1>2. LocksTyped' /\ failures' \in Seq(Kinds)
  BY <1>1, LocksStay DEF Typed, FileTyped
<1>3. x.pc = "chat" /\ x \in Work /\ work \in [Workers -> Work] /\ chats \in Seq(Call)
  BY AtWork DEF Allow, Typed
<1>4. CASE work' = [work EXCEPT ![w] = NoWork] /\ chats' = chats
  BY <1>1, <1>2, <1>3, <1>4, NoJob, TurnsAlone, Zenon
<1>5. CASE /\ work' = [work EXCEPT ![w].pc = "complete", ![w].chat = Now]
           /\ chats' = Append(chats, [at |-> x.at, estimate |-> e, cost |-> 0, state |-> "flying"])
  <2> PICK y : y = [x EXCEPT !.pc = "complete", !.chat = Now]
    OBVIOUS
  <2>1. work' = [work EXCEPT ![w] = y] /\ y \in jobs
    BY <1>3, <1>5, JobForms, Zenon
  <2>2. Now \in Nat /\ "complete" \in Pcs \ {"idle"} /\ "complete" \notin Writing
    BY <1>3 DEF Now, Pcs, Writing
  <2>3. JobOK(y, born, prs)
    <3>1. x.lock # 0 <=> "complete" \in Holding
      BY <1>3, AtWork, Zenon DEF JobOK, Holding, Guarded
    <3>2. x.token = 0
      BY <1>3, AtWork, Zenon DEF JobOK, Writing
    <3> QED
      BY <1>3, <2>1, <2>2, <3>1, <3>2, AtWork, JobGoesOn
  <2>4. [at |-> x.at, estimate |-> e, cost |-> 0, state |-> "flying"] \in Call
    BY <1>3, AtWork, BoundsAssumption DEF Call
  <2>5. chats' \in Seq(Call)
    BY <1>3, <1>5, <2>4
  <2> QED
    BY <1>1, <1>2, <2>1, <2>3, <2>5, TurnsAlone, Zenon
<1> QED
  BY <1>4, <1>5 DEF Allow

\* Chat.Answer's return.
LEMMA AnswerTurns ==
    ASSUME Typed, NEW w \in Workers, NEW cost \in Estimates, NEW noted, Answer(w, cost, noted)
    PROVE  Turns(w, {NoWork} \cup Jobs(work[w], "lockRoot", work[w].tc, work[w].lock, work[w].target, work[w].token, work[w].chat))
<1> DEFINE x == work[w]
           jobs == Jobs(x, "lockRoot", x.tc, x.lock, x.target, x.token, x.chat)
<1>1. /\ scene' = scene /\ clock' = clock /\ active' = active /\ memory' = memory /\ file' = file
      /\ torn' = torn /\ born' = born /\ prs' = prs /\ failures' = failures /\ writeLocks' = writeLocks /\ locks' = locks
  BY DEF Answer, ChatUnchanged
<1>2. LocksTyped' /\ failures' \in Seq(Kinds)
  BY <1>1, LocksStay DEF Typed, FileTyped
<1>3. x.pc = "complete" /\ x \in Work /\ work \in [Workers -> Work] /\ chats \in Seq(Call)
  BY AtWork DEF Answer, Typed
<1>4. chats' \in Seq(Call)
  <2>1. chats' = [chats EXCEPT ![x.chat].cost = cost, ![x.chat].state = "recorded"]
    BY DEF Answer
  <2>2. cost \in Nat
    BY BoundsAssumption
  <2>3. ASSUME NEW i \in 1..Len(chats) PROVE chats'[i] \in Call
    <3>1. chats[i] \in Call /\ DOMAIN chats = 1..Len(chats)
      BY <1>3
    <3>2. chats'[i] = chats[i] \/ chats'[i] = [chats[i] EXCEPT !.cost = cost, !.state = "recorded"]
      BY <2>1, <3>1, Zenon
    <3>3. [chats[i] EXCEPT !.cost = cost, !.state = "recorded"] \in Call
      BY <2>2, <3>1, Zenon DEF Call
    <3> QED
      BY <3>1, <3>2, <3>3
  <2>4. DOMAIN chats' = DOMAIN chats /\ DOMAIN chats = 1..Len(chats) /\ Len(chats) \in Nat
    BY <1>3, <2>1
  <2>5. chats' = [i \in DOMAIN chats' |-> chats'[i]]
    BY <2>1, Zenon
  <2>6. chats' \in [1..Len(chats) -> Call]
    BY <2>3, <2>4, <2>5
  <2> QED
    BY <2>4, <2>6
<1>5. CASE work' = [work EXCEPT ![w] = NoWork]
  <2>1. JobOK(NoWork, born, prs) /\ NoWork \in {NoWork} \cup jobs
    BY NoJob
  <2> HIDE DEF jobs
  <2> QED
    BY <1>1, <1>2, <1>4, <1>5, <2>1, TurnsAlone, Zenon
<1>6. CASE work' = [work EXCEPT ![w] = [x EXCEPT !.pc = "lockRoot"]]
  <2> PICK y : y = [x EXCEPT !.pc = "lockRoot"]
    BY Zenon
  <2>1. work' = [work EXCEPT ![w] = y] /\ y \in jobs
    BY <1>3, <1>6, JobForms, Zenon
  <2>2. "lockRoot" \in Pcs \ {"idle"} /\ "lockRoot" \notin Writing
    BY DEF Pcs, Writing
  <2>3. JobOK(y, born, prs)
    <3>1. x.lock # 0 <=> "lockRoot" \in Holding
      BY <1>3, AtWork DEF JobOK, Holding, Guarded
    <3>2. x.token = 0
      BY <1>3, AtWork DEF JobOK, Writing
    <3> QED
      BY <1>3, <2>1, <2>2, <3>1, <3>2, AtWork, JobGoesOn
  <2> QED
    BY <1>1, <1>2, <1>4, <2>1, <2>3, TurnsAlone, Zenon
<1> QED
  BY <1>5, <1>6, Zenon DEF Answer

\* A call that never returns.
LEMMA PanicTurns ==
    ASSUME Typed, NEW w \in Workers, Panic(w)
    PROVE  Turns(w, {NoWork})
<1> DEFINE x == work[w]
<1>1. /\ scene' = scene /\ clock' = clock /\ active' = active /\ memory' = memory /\ file' = file
      /\ torn' = torn /\ born' = born /\ prs' = prs /\ failures' = failures /\ writeLocks' = writeLocks /\ locks' = locks
  BY DEF Panic, ChatUnchanged
<1>2. LocksTyped' /\ failures' \in Seq(Kinds)
  BY <1>1, LocksStay DEF Typed, FileTyped
<1>3. chats \in Seq(Call) /\ chats' = [chats EXCEPT ![x.chat].state = "abandoned"]
  BY DEF Panic, Typed
<1>4. chats' \in Seq(Call)
  <2>1. ASSUME NEW i \in 1..Len(chats) PROVE chats'[i] \in Call
    <3>1. chats[i] \in Call /\ DOMAIN chats = 1..Len(chats)
      BY <1>3
    <3>2. chats'[i] = chats[i] \/ chats'[i] = [chats[i] EXCEPT !.state = "abandoned"]
      BY <1>3, <3>1
    <3>3. [chats[i] EXCEPT !.state = "abandoned"] \in Call
      BY <3>1 DEF Call
    <3> QED
      BY <3>1, <3>2, <3>3
  <2>2. DOMAIN chats' = DOMAIN chats /\ DOMAIN chats = 1..Len(chats) /\ Len(chats) \in Nat
    BY <1>3
  <2>3. chats' = [i \in DOMAIN chats' |-> chats'[i]]
    BY <1>3, Zenon
  <2>4. chats' \in [1..Len(chats) -> Call]
    BY <2>1, <2>2, <2>3
  <2> QED
    BY <2>2, <2>4
<1>5. work' = [work EXCEPT ![w] = NoWork]
  BY DEF Panic
<1> QED
  BY <1>1, <1>2, <1>4, <1>5, NoJob, TurnsAlone, Zenon

-----------------------------------------------------------------------------
(* The guards.                                                             *)

Users(l) == {w \in Workers : work[w].lock = l}

\* A guard in use is found under its root, is referenced once by every user, and is held
\* when one of them is past Enter, who is the only one.
LocksOK ==
    /\ \A w \in Workers : work[w].lock # 0 => writeLocks[work[w].at][work[w].tc.root] = work[w].lock
    /\ \A p, q \in Processes, r, s \in Roots :
          writeLocks[p][r] # 0 /\ writeLocks[p][r] = writeLocks[q][s] => p = q /\ r = s
    /\ \A p \in Processes, r \in Roots : writeLocks[p][r] # 0 => Users(writeLocks[p][r]) # {}
    /\ \A l \in 1..Slots :
          /\ locks[l].refs = Cardinality(Users(l))
          /\ locks[l].held <=> \E w \in Users(l) : work[w].pc \in Guarded
          /\ \A v, w \in Users(l) : work[v].pc \in Guarded /\ work[w].pc \in Guarded => v = w

\* Some users of a guard.
LEMMA UsersFinite ==
    ASSUME NEW l
    PROVE  IsFiniteSet(Users(l)) /\ Cardinality(Users(l)) \in Nat /\ (Cardinality(Users(l)) = 0 <=> Users(l) = {})
<1>1. Users(l) \subseteq Workers
  BY DEF Users
<1> QED
  BY <1>1, Bounds, FS_Subset, FS_CardinalityType, FS_EmptySet

\* A goroutine that waits for a guard finds one that is free: each guard in use is
\* used by another goroutine.
LEMMA GuardIsFree ==
    ASSUME Typed, LocksOK, NEW w \in Workers, work[w].lock = 0
    PROVE  \E l \in 1..Slots : locks[l] = NoLock /\ Users(l) = {}
<1> DEFINE used == {l \in 1..Slots : Users(l) # {}}
           others == Workers \ {w}
<1>1. IsFiniteSet(others) /\ Cardinality(others) = Slots - 1 /\ Slots \in Nat
  BY Bounds, FS_RemoveElement, Zenon DEF Slots
<1>2. PICK l \in 1..Slots : Users(l) = {}
  <2> SUFFICES ASSUME \A l \in 1..Slots : Users(l) # {} PROVE FALSE
    OBVIOUS
  <2> DEFINE user == [l \in 1..Slots |-> CHOOSE v \in Workers : work[v].lock = l]
  <2>1. ASSUME NEW l \in 1..Slots PROVE user[l] \in others /\ work[user[l]].lock = l
    <3>1. \E v \in Workers : work[v].lock = l
      BY DEF Users
    <3>2. user[l] \in Workers /\ work[user[l]].lock = l
      BY <3>1
    <3>3. user[l] # w
      BY <3>2, <1>1
    <3> QED
      BY <3>2, <3>3
  <2>2. user \in [1..Slots -> others]
    BY <2>1
  <2>3. IsFiniteSet(1..Slots) /\ Cardinality(1..Slots) = Slots
    BY <1>1, FS_Interval
  <2>4. Cardinality(others) < Cardinality(1..Slots)
    BY <1>1, <2>3
  <2>5. \E a, b \in 1..Slots : a # b /\ user[a] = user[b]
    <3> HIDE DEF user, others
    <3> QED
      BY <1>1, <2>2, <2>3, <2>4, FS_PigeonHole
  <2> HIDE DEF user
  <2> QED
    BY <2>1, <2>5
<1>3. locks[l] \in [refs : Nat, held : BOOLEAN]
  BY Zenon DEF Typed, LocksTyped
<1>4. locks[l].refs = 0 /\ locks[l].held = FALSE
  <2>1. locks[l].refs = Cardinality(Users(l))
    BY DEF LocksOK
  <2>2. ~ \E v \in Users(l) : work[v].pc \in Guarded
    BY <1>2
  <2>3. ~ locks[l].held
    BY <2>2 DEF LocksOK
  <2> QED
    BY <1>2, <1>3, <2>1, <2>3, UsersFinite
<1>5. locks[l] = NoLock
  BY <1>3, <1>4, Zenon DEF NoLock
<1> QED
  BY <1>2, <1>5

\* A step that leaves the guards, and who uses them for what, as they were.
LEMMA QuietLocks ==
    ASSUME Typed, LocksOK, NEW w \in Workers, Others(w), writeLocks' = writeLocks, locks' = locks,
           work'[w].lock = work[w].lock, work'[w].pc \in Guarded <=> work[w].pc \in Guarded,
           work'[w].lock # 0 => work'[w].at = work[w].at /\ work'[w].tc.root = work[w].tc.root
    PROVE  LocksOK'
<1>1. ASSUME NEW v \in Workers
      PROVE  /\ work'[v].lock = work[v].lock /\ (work'[v].pc \in Guarded <=> work[v].pc \in Guarded)
             /\ work'[v].lock # 0 => work'[v].at = work[v].at /\ work'[v].tc.root = work[v].tc.root
  BY DEF Others
<1>2. ASSUME NEW l PROVE {v \in Workers : work'[v].lock = l} = Users(l)
  BY <1>1 DEF Users
<1>3. \A v \in Workers : work'[v].lock # 0 => writeLocks'[work'[v].at][work'[v].tc.root] = work'[v].lock
  BY <1>1 DEF LocksOK
<1>4. \A p, q \in Processes, r, s \in Roots :
          writeLocks'[p][r] # 0 /\ writeLocks'[p][r] = writeLocks'[q][s] => p = q /\ r = s
  BY DEF LocksOK
<1>5. \A p \in Processes, r \in Roots :
          writeLocks'[p][r] # 0 => {v \in Workers : work'[v].lock = writeLocks'[p][r]} # {}
  BY <1>2 DEF LocksOK
<1>6. ASSUME NEW l \in 1..Slots
      PROVE  LET us == {v \in Workers : work'[v].lock = l}
             IN /\ locks'[l].refs = Cardinality(us)
                /\ locks'[l].held <=> \E v \in us : work'[v].pc \in Guarded
                /\ \A u, v \in us : work'[u].pc \in Guarded /\ work'[v].pc \in Guarded => u = v
  <2>1. /\ locks[l].refs = Cardinality(Users(l))
        /\ locks[l].held <=> \E v \in Users(l) : work[v].pc \in Guarded
        /\ \A u, v \in Users(l) : work[u].pc \in Guarded /\ work[v].pc \in Guarded => u = v
    BY DEF LocksOK
  <2>2. Users(l) \subseteq Workers
    BY DEF Users
  <2> QED
    BY <1>1, <1>2, <2>1, <2>2, Zenon
<1> QED
  BY <1>3, <1>4, <1>5, <1>6, Zenon DEF LocksOK, Users

\* Who uses a guard when one goroutine changes what it does.
LEMMA UsersAfter ==
    ASSUME NEW w \in Workers, Others(w), NEW l
    PROVE  {v \in Workers : work'[v].lock = l} =
              IF work'[w].lock = l THEN Users(l) \cup {w} ELSE Users(l) \ {w}
BY DEF Others, Users

\* lockRoot up to the wait.
LEMMA LockRootTurns ==
    ASSUME Typed, LocksOK, NEW w \in Workers, LockRoot(w)
    PROVE  \E l \in 1..Slots :
              LET x == work[w]
              IN /\ Turns(w, Jobs(x, "wait", x.tc, l, x.target, x.token, x.chat))
                 /\ writeLocks[x.at][x.tc.root] # 0 => l = writeLocks[x.at][x.tc.root]
                 /\ writeLocks[x.at][x.tc.root] = 0 => locks[l] = NoLock /\ Users(l) = {}
                 /\ locks' = [locks EXCEPT ![l].refs = @ + 1]
                 /\ writeLocks' = [writeLocks EXCEPT ![x.at][x.tc.root] = l]
<1> DEFINE x == work[w]
           p == x.at
           root == x.tc.root
<1>1. /\ scene' = scene /\ clock' = clock /\ active' = active /\ memory' = memory /\ file' = file
      /\ torn' = torn /\ born' = born /\ prs' = prs /\ failures' = failures /\ chats' = chats
  BY Zenon DEF LockRoot, chatting
<1>2. x.pc = "lockRoot" /\ x \in Work /\ work \in [Workers -> Work] /\ p \in Processes /\ root \in Roots
  BY AtWork, Zenon DEF LockRoot
<1>3. x.lock = 0 /\ x.token = 0
  BY <1>2, AtWork DEF JobOK, Holding, Guarded, Writing
<1>4. writeLocks \in [Processes -> [Roots -> 0..Slots]] /\ locks \in [1..Slots -> [refs : Nat, held : BOOLEAN]]
  BY DEF Typed, LocksTyped
<1>5. PICK l : l = IF writeLocks[p][root] = 0 THEN FreeLock ELSE writeLocks[p][root]
  OBVIOUS
<1>6. /\ locks' = [locks EXCEPT ![l].refs = @ + 1]
      /\ writeLocks' = [writeLocks EXCEPT ![p][root] = l]
  BY <1>5, Zenon DEF LockRoot
<1>7. work' = [work EXCEPT ![w].pc = "wait", ![w].lock = l]
  BY <1>5, Zenon DEF LockRoot
<1>8. /\ l \in 1..Slots
      /\ writeLocks[p][root] # 0 => l = writeLocks[p][root]
      /\ writeLocks[p][root] = 0 => locks[l] = NoLock /\ Users(l) = {}
  <2>1. CASE writeLocks[p][root] # 0
    BY <1>2, <1>4, <1>5, <2>1, Bounds
  <2>2. CASE writeLocks[p][root] = 0
    <3>1. \E i : i \in DOMAIN locks /\ locks[i] = NoLock
      BY <1>3, <1>4, GuardIsFree
    <3>2. FreeLock \in DOMAIN locks /\ locks[FreeLock] = NoLock
      BY <3>1 DEF FreeLock
    <3>3. l \in DOMAIN locks /\ locks[l] = NoLock
      BY <1>5, <2>2, <3>2
    <3>4. Cardinality(Users(l)) = 0
      BY <1>4, <3>3 DEF LocksOK, NoLock
    <3> QED
      BY <1>4, <2>2, <3>3, <3>4, UsersFinite
  <2> QED
    BY <2>1, <2>2
<1> DEFINE jobs == Jobs(x, "wait", x.tc, l, x.target, x.token, x.chat)
<1> PICK y : y = [x EXCEPT !.pc = "wait", !.lock = l]
  OBVIOUS
<1>9. work' = [work EXCEPT ![w] = y] /\ y \in jobs
  BY <1>2, <1>7, JobForms, Zenon
<1>10. JobOK(y, born, prs)
  <2>1. "wait" \in Pcs \ {"idle"} /\ "wait" \in Holding /\ "wait" \notin Writing
    BY DEF Pcs, Holding, Writing
  <2>2. l # 0 /\ l \in 0..Slots
    BY <1>8, Bounds
  <2> QED
    BY <1>2, <1>3, <1>9, <2>1, <2>2, AtWork, JobGoesOn
<1>11. LocksTyped'
  <2>1. writeLocks' \in [Processes -> [Roots -> 0..Slots]]
    <3>1. l \in 0..Slots
      BY <1>8, Bounds
    <3>2. [writeLocks[p] EXCEPT ![root] = l] \in [Roots -> 0..Slots]
      BY <1>2, <1>4, <3>1
    <3>3. writeLocks' = [writeLocks EXCEPT ![p] = [writeLocks[p] EXCEPT ![root] = l]]
      BY <1>6
    <3> QED
      BY <1>4, <3>2, <3>3, Zenon
  <2>2. locks' \in [1..Slots -> [refs : Nat, held : BOOLEAN]]
    <3>1. [locks[l] EXCEPT !.refs = @ + 1] \in [refs : Nat, held : BOOLEAN]
      BY <1>4, <1>8
    <3>2. locks' = [locks EXCEPT ![l] = [locks[l] EXCEPT !.refs = @ + 1]]
      BY <1>6
    <3> QED
      BY <1>4, <3>1, <3>2, Zenon
  <2> QED
    BY <2>1, <2>2 DEF LocksTyped
<1>12. Turns(w, jobs)
  <2>1. failures' \in Seq(Kinds) /\ chats' \in Seq(Call)
    BY <1>1 DEF Typed, FileTyped
  <2> HIDE DEF jobs
  <2> QED
    BY <1>1, <1>9, <1>10, <1>11, <2>1, TurnsAlone, Zenon
<1> QED
  BY <1>6, <1>8, <1>12, Zenon

\* After it the guards are as they should be.
LEMMA LockRootLocks ==
    ASSUME Typed, LocksOK, NEW w \in Workers, LockRoot(w)
    PROVE  LocksOK'
<1> DEFINE x == work[w]
           p == x.at
           root == x.tc.root
<1>1. PICK l \in 1..Slots :
         /\ Turns(w, Jobs(x, "wait", x.tc, l, x.target, x.token, x.chat))
         /\ writeLocks[p][root] # 0 => l = writeLocks[p][root]
         /\ writeLocks[p][root] = 0 => locks[l] = NoLock /\ Users(l) = {}
         /\ locks' = [locks EXCEPT ![l].refs = @ + 1]
         /\ writeLocks' = [writeLocks EXCEPT ![p][root] = l]
  BY LockRootTurns, Zenon
<1>2. x.pc = "lockRoot" /\ x.lock = 0 /\ p \in Processes /\ root \in Roots
  BY AtWork, Zenon DEF LockRoot, JobOK, Holding, Guarded
<1>3. /\ Others(w) /\ work'[w].lock = l /\ work'[w].pc = "wait" /\ work'[w].at = p
      /\ work'[w].tc.root = root /\ "wait" \notin Guarded /\ l # 0
  BY <1>1, Bounds DEF Turns, Jobs, Guarded
<1>4. writeLocks \in [Processes -> [Roots -> 0..Slots]] /\ locks \in [1..Slots -> [refs : Nat, held : BOOLEAN]]
  BY DEF Typed, LocksTyped
<1>5. ASSUME NEW q \in Processes, NEW s \in Roots
      PROVE  writeLocks'[q][s] = IF q = p /\ s = root THEN l ELSE writeLocks[q][s]
  BY <1>1, <1>2, <1>4
<1>6. w \notin Users(l) /\ \A k \in 1..Slots : w \notin Users(k)
  BY <1>2 DEF Users
<1>7. ASSUME NEW k \in 1..Slots
      PROVE  {v \in Workers : work'[v].lock = k} = IF k = l THEN Users(l) \cup {w} ELSE Users(k)
  BY <1>3, <1>6, UsersAfter
<1>8. \A u \in Workers : work[u].lock = l => work[u].at = p /\ work[u].tc.root = root
  <2> SUFFICES ASSUME NEW u \in Workers, work[u].lock = l PROVE work[u].at = p /\ work[u].tc.root = root
    OBVIOUS
  <2>1. writeLocks[work[u].at][work[u].tc.root] = l /\ Users(l) # {} /\ work[u].pc # "idle"
    BY <1>3, AtWork DEF LocksOK, Users, JobOK, NoWork
  <2>2. writeLocks[p][root] = l
    BY <1>1, <2>1
  <2> QED
    BY <1>2, <1>3, <2>1, <2>2, AtWork DEF LocksOK
<1>9. \A v \in Workers : work'[v].lock # 0 => writeLocks'[work'[v].at][work'[v].tc.root] = work'[v].lock
  <2> SUFFICES ASSUME NEW v \in Workers, work'[v].lock # 0
               PROVE  writeLocks'[work'[v].at][work'[v].tc.root] = work'[v].lock
    OBVIOUS
  <2>1. CASE v = w
    BY <1>2, <1>3, <1>5, <2>1
  <2>2. CASE v # w
    <3>1. work'[v] = work[v] /\ work[v].lock # 0
      BY <1>3, <2>2 DEF Others
    <3>2. writeLocks[work[v].at][work[v].tc.root] = work[v].lock
      BY <3>1 DEF LocksOK
    <3>3. work[v].at \in Processes /\ work[v].tc.root \in Roots
      BY <3>1, AtWork DEF JobOK, NoWork
    <3>4. work[v].at = p /\ work[v].tc.root = root => work[v].lock = l
      BY <1>1, <3>1, <3>2
    <3> QED
      BY <1>5, <3>1, <3>2, <3>3, <3>4
  <2> QED
    BY <2>1, <2>2
<1>10. \A q, t \in Processes, r, s \in Roots :
          writeLocks'[q][r] # 0 /\ writeLocks'[q][r] = writeLocks'[t][s] => q = t /\ r = s
  <2>1. \A q \in Processes, r \in Roots : writeLocks[q][r] = l => q = p /\ r = root
    <3> SUFFICES ASSUME NEW q \in Processes, NEW r \in Roots, writeLocks[q][r] = l PROVE q = p /\ r = root
      OBVIOUS
    <3>1. Users(l) # {}
      BY <1>3 DEF LocksOK
    <3>2. writeLocks[p][root] = l
      BY <1>1, <3>1
    <3> QED
      BY <1>2, <1>3, <3>2 DEF LocksOK
  <2> QED
    BY <1>5, <2>1 DEF LocksOK
<1>11. ASSUME NEW q \in Processes, NEW r \in Roots, writeLocks'[q][r] # 0
       PROVE  {v \in Workers : work'[v].lock = writeLocks'[q][r]} # {}
  <2>1. CASE q = p /\ r = root
    BY <1>3, <1>5, <2>1
  <2>2. CASE ~ (q = p /\ r = root)
    <3>1. writeLocks'[q][r] = writeLocks[q][r] /\ writeLocks[q][r] \in 1..Slots
      BY <1>4, <1>5, <1>11, <2>2, Bounds
    <3>2. Users(writeLocks[q][r]) # {}
      BY <1>11, <3>1 DEF LocksOK
    <3> QED
      BY <1>7, <3>1, <3>2
  <2> QED
    BY <2>1, <2>2
<1>12. ASSUME NEW k \in 1..Slots
       PROVE  LET us == {v \in Workers : work'[v].lock = k}
              IN /\ locks'[k].refs = Cardinality(us)
                 /\ locks'[k].held <=> \E v \in us : work'[v].pc \in Guarded
                 /\ \A u, v \in us : work'[u].pc \in Guarded /\ work'[v].pc \in Guarded => u = v
  <2> DEFINE us == {v \in Workers : work'[v].lock = k}
  <2>1. /\ locks[k].refs = Cardinality(Users(k))
        /\ locks[k].held <=> \E v \in Users(k) : work[v].pc \in Guarded
        /\ \A u, v \in Users(k) : work[u].pc \in Guarded /\ work[v].pc \in Guarded => u = v
    BY DEF LocksOK
  <2>2. locks'[k].held = locks[k].held /\ locks'[k].refs = IF k = l THEN locks[k].refs + 1 ELSE locks[k].refs
    BY <1>1, <1>4
  <2>3. us = IF k = l THEN Users(k) \cup {w} ELSE Users(k)
    BY <1>7
  <2>4. locks'[k].refs = Cardinality(us)
    <3>1. IsFiniteSet(Users(k)) /\ w \notin Users(k)
      BY <1>6, UsersFinite
    <3>2. Cardinality(Users(k) \cup {w}) = Cardinality(Users(k)) + 1
      BY <3>1, FS_AddElement, Zenon
    <3> QED
      BY <2>1, <2>2, <2>3, <3>2, Zenon
  <2>5. \A v \in us : work'[v].pc \in Guarded => v \in Users(k) /\ work'[v] = work[v]
    BY <1>3, <2>3 DEF Others
  <2>6. \A v \in Users(k) : v \in us /\ work'[v] = work[v]
    BY <1>3, <1>6, <2>3 DEF Others, Users
  <2> HIDE DEF us
  <2>7. locks'[k].held <=> \E v \in us : work'[v].pc \in Guarded
    BY <2>1, <2>2, <2>5, <2>6
  <2>8. \A u, v \in us : work'[u].pc \in Guarded /\ work'[v].pc \in Guarded => u = v
    BY <2>1, <2>5
  <2> QED
    BY <2>4, <2>7, <2>8 DEF us
<1> QED
  BY <1>9, <1>10, <1>11, <1>12, Zenon DEF LocksOK, Users

\* Where a note goes is a pull request there is, or none.
LEMMA AfterOK ==
    ASSUME NEW bn, NEW ps, Len(ps) \in Nat, NEW c, ContextOK(c, bn, ps), NEW n
    PROVE  /\ After(c, n) \in Nat /\ After(c, n) <= Len(ps)
           /\ After(c, n) # NoPR => After(c, n) \in {c.curated, c.noteUrl}
<1>1. c.curated \in Nat /\ c.noteUrl \in Nat /\ c.curated <= Len(ps) /\ c.noteUrl <= Len(ps)
  BY DEF ContextOK, Context
<1>2. After(c, n) \in {c.curated, c.noteUrl, 0} /\ (After(c, n) # 0 => After(c, n) \in {c.curated, c.noteUrl})
  BY DEF After, NoPR
<1> QED
  BY <1>1, <1>2 DEF NoPR

Routed(n) == IF n = NoPR THEN "openPR" ELSE "isOpen"

\* The context a handler goes on with: the registry's, or its own.
Fresh(x) ==
    LET mem == expireLocked(memory[x.at])
    IN IF x.tc.root \in Tracked(mem) THEN mem.byId[x.tc.root] ELSE x.tc

\* It is one of the same thread root.
LEMMA FreshOK ==
    ASSUME Typed, NEW w \in Workers, work[w].pc # "idle"
    PROVE  ContextOK(Fresh(work[w]), born, prs) /\ Fresh(work[w]).root = work[w].tc.root
<1> DEFINE x == work[w]
<1> PICK mem : mem = expireLocked(memory[x.at])
  OBVIOUS
<1>1. MemoryOK(mem, scene.maxLive, born, prs)
  BY AtWork, Bounds, ExpiredMemory DEF Typed, RegistriesTyped
<1>2. \A r \in Tracked(mem) : ContextOK(mem.byId[r], born, prs) /\ mem.byId[r].root = r
  BY <1>1, TrackedIs DEF MemoryOK
<1>3. Fresh(x) = IF x.tc.root \in Tracked(mem) THEN mem.byId[x.tc.root] ELSE x.tc
  BY DEF Fresh
<1>4. ContextOK(x.tc, born, prs)
  BY AtWork
<1> QED
  BY <1>2, <1>3, <1>4

\* The tokens that a process has in the window.
Window(p) == {i \in recent[p] : i > slid}

\* record with the guard.
LEMMA EnterTurns ==
    ASSUME Typed, reserved \in Nat, NEW w \in Workers, Enter(w)
    PROVE  LET x == work[w]
               c == Fresh(x)
               n == After(c, NoPR)
           IN /\ memory' = [memory EXCEPT ![x.at] = expireLocked(memory[x.at])]
              /\ locks' = [locks EXCEPT ![x.lock].held = TRUE]
              /\ \/ /\ Turns(w, Jobs(x, "unlock", c, x.lock, x.target, x.token, x.chat))
                    /\ reserved' = reserved
                    /\ recent' = [recent EXCEPT ![x.at] = IF c.notes >= MaxNotes THEN @ ELSE Window(x.at)]
                 \/ /\ Turns(w, Jobs(x, Routed(n), c, x.lock, n, reserved + 1, x.chat))
                    /\ c.notes < MaxNotes
                    /\ reserved' = reserved + 1
                    /\ recent' = [recent EXCEPT ![x.at] = Window(x.at) \cup {reserved + 1}]
<1> DEFINE x == work[w]
           p == x.at
<1> PICK mem : mem = expireLocked(memory[p])
  OBVIOUS
<1> PICK c : c = Fresh(x)
  OBVIOUS
<1> PICK n : n = After(c, NoPR)
  BY Zenon
<1> DEFINE capped == c.notes >= MaxNotes
           throttled == Cardinality(Window(p)) >= MaxWrites
<1>1. /\ scene' = scene /\ clock' = clock /\ active' = active /\ file' = file /\ writeLocks' = writeLocks
      /\ torn' = torn /\ born' = born /\ prs' = prs /\ failures' = failures /\ chats' = chats
  BY DEF Enter, chatting
<1>2. /\ x.pc = "wait" /\ x \in Work /\ work \in [Workers -> Work] /\ p \in Processes
      /\ x.lock \in 0..Slots /\ x.target \in Nat /\ x.target <= Len(prs) /\ x.token \in Nat /\ x.chat \in Nat
      /\ JobOK(x, born, prs)
  BY AtWork, Zenon DEF Enter
<1>3. x.token = 0 /\ x.lock # 0
  BY <1>2 DEF JobOK, Holding, Writing
<1>4. c = IF x.tc.root \in Tracked(mem) THEN mem.byId[x.tc.root] ELSE x.tc
  BY DEF Fresh
<1>5. ContextOK(c, born, prs) /\ c.root = x.tc.root /\ c.notes \in Nat
  BY <1>2, FreshOK, Zenon DEF ContextOK, Context
<1>6. n \in Nat /\ n <= Len(prs)
  BY <1>5, AfterOK DEF Typed, ForgeTyped
<1>7. memory' = [memory EXCEPT ![p] = mem] /\ locks' = [locks EXCEPT ![x.lock].held = TRUE]
  BY Zenon DEF Enter
<1>8. ForgeTyped' /\ Grown(born, born', prs, prs')
  BY <1>1, ForgeStays
<1>9. RegistriesTyped' /\ FileTyped'
  <2>1. MemoryOK(mem, scene.maxLive, born, prs)
    BY <1>2, Bounds, ExpiredMemory, Zenon DEF Typed, RegistriesTyped
  <2>2. MemoryOK(mem, scene.maxLive, born', prs')
    BY <1>1, <2>1
  <2>3. torn' \in BOOLEAN /\ failures' \in Seq(Kinds)
    BY <1>1 DEF Typed, FileTyped
  <2> QED
    BY <1>1, <1>7, <1>8, <2>2, <2>3, RegistriesChange, FileStays, Zenon
<1>10. LocksTyped' /\ chats' \in Seq(Call)
  <2>1. locks \in [1..Slots -> [refs : Nat, held : BOOLEAN]] /\ x.lock \in 1..Slots
    BY <1>2, <1>3, Bounds DEF Typed, LocksTyped
  <2>2. locks' \in [1..Slots -> [refs : Nat, held : BOOLEAN]]
    BY <1>7, <2>1
  <2> QED
    BY <1>1, <2>2 DEF Typed, LocksTyped
<1>11. CASE capped \/ throttled
  <2> PICK y : y = [x EXCEPT !.pc = "unlock", !.tc = c]
    OBVIOUS
  <2> DEFINE jobs == Jobs(x, "unlock", c, x.lock, x.target, x.token, x.chat)
  <2>1. work' = [work EXCEPT ![w] = [x EXCEPT !.pc = "unlock", !.tc = c]] /\ reserved' = reserved
    BY <1>4, <1>11, Zenon DEF Enter, Window
  <2>2. recent' = [recent EXCEPT ![p] = IF capped THEN @ ELSE Window(p)]
    BY <1>4, <1>11, Zenon DEF Enter, Window
  <2>3. work' = [work EXCEPT ![w] = y] /\ y \in jobs
    BY <1>2, <2>1, JobForms, Zenon
  <2>4. JobOK(y, born', prs')
    BY <1>1, <1>2, <1>3, <1>5, <2>3, JobGoesOn DEF Pcs, Holding, Guarded, Writing
  <2>5. Turns(w, jobs)
    <3> HIDE DEF jobs
    <3> QED
      BY <1>1, <1>8, <1>9, <1>10, <2>3, <2>4, TurnsFrom, Zenon
  <2> QED
    BY <1>7, <2>1, <2>2, <2>5
<1>12. CASE ~ (capped \/ throttled)
  <2> DEFINE jobs == Jobs(x, Routed(n), c, x.lock, n, reserved + 1, x.chat)
  <2> PICK y : y = [[x EXCEPT !.tc = c, !.token = reserved + 1] EXCEPT !.target = n, !.pc = Routed(n)]
    OBVIOUS
  <2>1. reserved' = reserved + 1 /\ recent' = [recent EXCEPT ![p] = Window(p) \cup {reserved + 1}]
    BY <1>4, <1>12, Zenon DEF Enter, Window
  <2>2. work' = [work EXCEPT ![w] = Route([x EXCEPT !.tc = c, !.token = reserved'], After(c, NoPR))]
    BY <1>4, <1>12, Zenon DEF Enter, Window
  <2>3. work' = [work EXCEPT ![w] = y]
    BY <2>1, <2>2 DEF Route, Routed
  <2>4. y \in jobs
    BY <1>2, JobForms, Zenon
  <2>5. JobOK(y, born', prs')
    <3>1. Routed(n) \in Pcs \ {"idle"} /\ Routed(n) \in Holding /\ Routed(n) \in Writing
      BY DEF Pcs, Holding, Guarded, Writing, Routed
    <3>2. reserved + 1 \in Nat /\ reserved + 1 # 0 /\ c.notes < MaxNotes
      BY <1>5, <1>12, Bounds
    <3> QED
      BY <1>1, <1>2, <1>3, <1>5, <1>6, <2>4, <3>1, <3>2, JobGoesOn
  <2>6. Turns(w, jobs)
    <3> HIDE DEF jobs
    <3> QED
      BY <1>1, <1>8, <1>9, <1>10, <2>3, <2>4, <2>5, TurnsFrom, Zenon
  <2>7. c.notes < MaxNotes
    BY <1>5, <1>12, Bounds
  <2> QED
    BY <1>7, <2>1, <2>6, <2>7
<1> QED
  BY <1>11, <1>12

\* The guard is taken by one that waited for it, or released by the one that held it.
LEMMA HeldLocks ==
    ASSUME Typed, LocksOK, NEW w \in Workers, Others(w), writeLocks' = writeLocks,
           NEW l \in 1..Slots, work[w].lock = l, work'[w].lock = l,
           work'[w].at = work[w].at, work'[w].tc.root = work[w].tc.root,
           NEW h \in BOOLEAN, locks' = [locks EXCEPT ![l].held = h],
           h <=> work'[w].pc \in Guarded, h => ~ locks[l].held, ~ h => work[w].pc \in Guarded
    PROVE  LocksOK'
<1>1. ASSUME NEW v \in Workers
      PROVE  /\ work'[v].lock = work[v].lock
             /\ work'[v].lock # 0 => work'[v].at = work[v].at /\ work'[v].tc.root = work[v].tc.root
  BY DEF Others
<1>2. ASSUME NEW k PROVE {v \in Workers : work'[v].lock = k} = Users(k)
  BY <1>1 DEF Users
<1>3. \A v \in Workers : work'[v].lock # 0 => writeLocks'[work'[v].at][work'[v].tc.root] = work'[v].lock
  BY <1>1 DEF LocksOK
<1>4. \A p, q \in Processes, r, s \in Roots :
          writeLocks'[p][r] # 0 /\ writeLocks'[p][r] = writeLocks'[q][s] => p = q /\ r = s
  BY DEF LocksOK
<1>5. \A p \in Processes, r \in Roots :
          writeLocks'[p][r] # 0 => {v \in Workers : work'[v].lock = writeLocks'[p][r]} # {}
  BY <1>2 DEF LocksOK
<1>6. ASSUME NEW k \in 1..Slots
      PROVE  LET us == {v \in Workers : work'[v].lock = k}
             IN /\ locks'[k].refs = Cardinality(us)
                /\ locks'[k].held <=> \E v \in us : work'[v].pc \in Guarded
                /\ \A u, v \in us : work'[u].pc \in Guarded /\ work'[v].pc \in Guarded => u = v
  <2>1. /\ locks[k].refs = Cardinality(Users(k))
        /\ locks[k].held <=> \E v \in Users(k) : work[v].pc \in Guarded
        /\ \A u, v \in Users(k) : work[u].pc \in Guarded /\ work[v].pc \in Guarded => u = v
    BY DEF LocksOK
  <2>2. locks \in [1..Slots -> [refs : Nat, held : BOOLEAN]]
    BY DEF Typed, LocksTyped
  <2>3. locks'[k].refs = locks[k].refs /\ locks'[k].held = IF k = l THEN h ELSE locks[k].held
    BY <2>2
  <2>4. Users(k) \subseteq Workers /\ w \in Users(l) /\ (k # l => w \notin Users(k))
    BY DEF Users
  <2>5. \A v \in Users(k) \ {w} : work'[v] = work[v]
    BY <2>4 DEF Others
  <2>6. CASE k # l
    BY <1>2, <2>1, <2>3, <2>4, <2>5, <2>6, Zenon
  <2>7. CASE k = l /\ h
    <3>1. \A v \in Users(k) : work[v].pc \notin Guarded
      BY <2>1, <2>7
    <3>2. \A v \in Users(k) : work'[v].pc \in Guarded <=> v = w
      BY <2>4, <2>5, <2>7, <3>1
    <3> QED
      BY <1>2, <2>1, <2>3, <2>4, <2>7, <3>2, Zenon
  <2>8. CASE k = l /\ ~ h
    <3>1. \A v \in Users(k) : work[v].pc \in Guarded => v = w
      BY <2>1, <2>4, <2>8
    <3>2. \A v \in Users(k) : work'[v].pc \notin Guarded
      BY <2>4, <2>5, <2>8, <3>1
    <3> QED
      BY <1>2, <2>1, <2>3, <2>4, <2>8, <3>2, Zenon
  <2> QED
    BY <2>6, <2>7, <2>8
<1> QED
  BY <1>3, <1>4, <1>5, <1>6, Zenon DEF LocksOK, Users

\* record takes a guard nobody holds.
LEMMA EnterLocks ==
    ASSUME Typed, LocksOK, reserved \in Nat, NEW w \in Workers, Enter(w)
    PROVE  LocksOK'
<1> DEFINE x == work[w]
           c == Fresh(x)
<1>1. /\ writeLocks' = writeLocks /\ ~ locks[x.lock].held /\ locks' = [locks EXCEPT ![x.lock].held = TRUE]
      /\ x.pc = "wait"
  BY DEF Enter
<1>2. x.lock \in 1..Slots
  BY <1>1, AtWork, Bounds DEF JobOK, Holding
<1>3. c.root = x.tc.root
  BY <1>1, FreshOK
<1>4. \E pc, n, token : /\ Turns(w, Jobs(x, pc, c, x.lock, n, token, x.chat)) /\ pc \in Guarded
  <2>1. "unlock" \in Guarded /\ Routed(After(c, NoPR)) \in Guarded
    BY DEF Guarded, Routed
  <2> HIDE DEF c
  <2> QED
    BY <2>1, EnterTurns, Zenon DEF c
<1>5. /\ Others(w) /\ work'[w].lock = x.lock /\ work'[w].at = x.at /\ work'[w].tc.root = x.tc.root
      /\ work'[w].pc \in Guarded
  BY <1>3, <1>4 DEF Turns, Jobs
<1> HIDE DEF c
<1> QED
  BY <1>1, <1>2, <1>5, HeldLocks, Zenon

\* The release.
LEMMA UnlockTurns ==
    ASSUME Typed, NEW w \in Workers, Unlock(w)
    PROVE  LET x == work[w]
           IN Turns(w, Jobs(x, "drop", x.tc, x.lock, x.target, x.token, x.chat))
<1> DEFINE x == work[w]
           jobs == Jobs(x, "drop", x.tc, x.lock, x.target, x.token, x.chat)
<1>1. /\ scene' = scene /\ clock' = clock /\ active' = active /\ memory' = memory /\ file' = file
      /\ torn' = torn /\ born' = born /\ prs' = prs /\ failures' = failures /\ chats' = chats /\ writeLocks' = writeLocks
  BY DEF Unlock, chatting
<1>2. /\ x.pc = "unlock" /\ x \in Work /\ work \in [Workers -> Work] /\ JobOK(x, born, prs)
      /\ locks' = [locks EXCEPT ![x.lock].held = FALSE] /\ work' = [work EXCEPT ![w].pc = "drop"]
  BY AtWork DEF Unlock
<1>3. x.lock \in 1..Slots /\ x.token = 0
  BY <1>2, AtWork, Bounds DEF JobOK, Holding, Guarded, Writing
<1>4. locks \in [1..Slots -> [refs : Nat, held : BOOLEAN]]
  BY DEF Typed, LocksTyped
<1>5. LocksTyped' /\ failures' \in Seq(Kinds) /\ chats' \in Seq(Call)
  <2>1. [locks[x.lock] EXCEPT !.held = FALSE] \in [refs : Nat, held : BOOLEAN]
    BY <1>3, <1>4, Zenon
  <2>2. locks' = [locks EXCEPT ![x.lock] = [locks[x.lock] EXCEPT !.held = FALSE]]
    BY <1>2
  <2>3. locks' \in [1..Slots -> [refs : Nat, held : BOOLEAN]]
    BY <1>4, <2>1, <2>2, Zenon
  <2> QED
    BY <1>1, <2>3 DEF Typed, LocksTyped, FileTyped
<1> PICK y : y = [x EXCEPT !.pc = "drop"]
  BY Zenon
<1>6. work' = [work EXCEPT ![w] = y] /\ y \in jobs
  BY <1>2, JobForms, Zenon
<1>7. JobOK(y, born, prs)
  <2>1. "drop" \in Pcs \ {"idle"} /\ "drop" \in Holding /\ "drop" \notin Writing
    BY DEF Pcs, Holding, Writing
  <2> QED
    BY <1>2, <1>3, <1>6, <2>1, AtWork, JobGoesOn
<1> HIDE DEF jobs
<1> QED
  BY <1>1, <1>5, <1>6, <1>7, TurnsAlone, Zenon DEF jobs

\* After it.
LEMMA UnlockLocks ==
    ASSUME Typed, LocksOK, NEW w \in Workers, Unlock(w)
    PROVE  LocksOK'
<1> DEFINE x == work[w]
<1>1. /\ writeLocks' = writeLocks /\ locks' = [locks EXCEPT ![x.lock].held = FALSE] /\ x.pc = "unlock"
  BY DEF Unlock
<1>2. x.lock \in 1..Slots /\ x.pc \in Guarded
  BY <1>1, AtWork, Bounds DEF JobOK, Holding, Guarded
<1>3. /\ Others(w) /\ work'[w].lock = x.lock /\ work'[w].at = x.at /\ work'[w].tc.root = x.tc.root
      /\ work'[w].pc \notin Guarded
  BY UnlockTurns DEF Turns, Jobs, Guarded
<1> QED
  BY <1>1, <1>2, <1>3, HeldLocks, Zenon

\* The last one to leave deletes the guard.
LEMMA DropTurns ==
    ASSUME Typed, LocksOK, NEW w \in Workers, Drop(w)
    PROVE  Turns(w, {NoWork})
<1> DEFINE x == work[w]
<1>1. /\ scene' = scene /\ clock' = clock /\ active' = active /\ memory' = memory /\ file' = file
      /\ torn' = torn /\ born' = born /\ prs' = prs /\ failures' = failures /\ chats' = chats
  BY DEF Drop, chatting
<1>2. /\ x.pc = "drop" /\ work' = [work EXCEPT ![w] = NoWork]
      /\ locks' = [locks EXCEPT ![x.lock].refs = @ - 1]
      /\ writeLocks' = writeLocks \/ writeLocks' = [writeLocks EXCEPT ![x.at][x.tc.root] = 0]
  BY DEF Drop
<1>3. x.lock \in 1..Slots /\ x.at \in Processes /\ x.tc.root \in Roots
  BY <1>2, AtWork, Bounds DEF JobOK, Holding
<1>4. locks \in [1..Slots -> [refs : Nat, held : BOOLEAN]] /\ writeLocks \in [Processes -> [Roots -> 0..Slots]]
  BY DEF Typed, LocksTyped
<1>5. locks[x.lock].refs - 1 \in Nat
  <2>1. locks[x.lock].refs = Cardinality(Users(x.lock)) /\ Users(x.lock) # {}
    BY <1>3 DEF LocksOK, Users
  <2> QED
    BY <2>1, UsersFinite
<1>6. LocksTyped'
  <2>1. locks' \in [1..Slots -> [refs : Nat, held : BOOLEAN]]
    <3>1. [locks[x.lock] EXCEPT !.refs = @ - 1] \in [refs : Nat, held : BOOLEAN]
      BY <1>3, <1>4, <1>5, Zenon
    <3>2. locks' = [locks EXCEPT ![x.lock] = [locks[x.lock] EXCEPT !.refs = @ - 1]]
      BY <1>2
    <3> QED
      BY <1>4, <3>1, <3>2, Zenon
  <2>2. writeLocks' \in [Processes -> [Roots -> 0..Slots]]
    <3>1. [writeLocks[x.at] EXCEPT ![x.tc.root] = 0] \in [Roots -> 0..Slots]
      BY <1>3, <1>4, Bounds
    <3>2. writeLocks' = writeLocks \/ writeLocks' = [writeLocks EXCEPT ![x.at] = [writeLocks[x.at] EXCEPT ![x.tc.root] = 0]]
      BY <1>2
    <3> QED
      BY <1>4, <3>1, <3>2, Zenon
  <2> QED
    BY <2>1, <2>2 DEF LocksTyped
<1>7. failures' \in Seq(Kinds) /\ chats' \in Seq(Call)
  BY <1>1 DEF Typed, FileTyped
<1> QED
  BY <1>1, <1>2, <1>6, <1>7, NoJob, TurnsAlone, Zenon

\* After it.
LEMMA DropLocks ==
    ASSUME Typed, LocksOK, NEW w \in Workers, Drop(w)
    PROVE  LocksOK'
<1> DEFINE x == work[w]
           p == x.at
           root == x.tc.root
<1> PICK l : l = x.lock
  OBVIOUS
<1>1. /\ x.pc = "drop" /\ locks' = [locks EXCEPT ![l].refs = @ - 1]
      /\ locks[l].refs = 1 => writeLocks' = [writeLocks EXCEPT ![p][root] = 0]
      /\ locks[l].refs # 1 => writeLocks' = writeLocks
  BY DEF Drop
<1>2. l \in 1..Slots /\ l # 0 /\ p \in Processes /\ root \in Roots
  BY <1>1, AtWork, Bounds DEF JobOK, Holding
<1>3. Others(w) /\ work'[w] = NoWork
  BY DropTurns DEF Turns
<1>4. writeLocks \in [Processes -> [Roots -> 0..Slots]] /\ locks \in [1..Slots -> [refs : Nat, held : BOOLEAN]]
  BY DEF Typed, LocksTyped
<1>5. writeLocks[p][root] = l /\ locks[l].refs = Cardinality(Users(l)) /\ w \in Users(l)
  BY <1>2 DEF LocksOK, Users
<1>6. ASSUME NEW k \in 1..Slots PROVE {v \in Workers : work'[v].lock = k} = Users(k) \ {w}
  BY <1>3, NoJob, UsersAfter
<1>7. \A k \in 1..Slots : k # l => Users(k) \ {w} = Users(k)
  BY DEF Users
<1>8. locks[l].refs = 1 => Users(l) \ {w} = {}
  <2> SUFFICES ASSUME locks[l].refs = 1, NEW v \in Users(l), v # w PROVE FALSE
    BY <1>5
  <2>1. IsFiniteSet({v, w}) /\ Cardinality({v, w}) = 2
    <3>1. {v, w} = {w} \cup {v} /\ IsFiniteSet({w}) /\ Cardinality({w}) = 1 /\ v \notin {w}
      BY FS_Singleton, Zenon
    <3>2. IsFiniteSet({w} \cup {v}) /\ Cardinality({w} \cup {v}) = Cardinality({w}) + 1
      BY <3>1, FS_AddElement, Zenon
    <3> QED
      BY <3>1, <3>2
  <2>2. {v, w} \subseteq Users(l)
    BY <1>5
  <2>3. 2 <= Cardinality(Users(l))
    BY <2>1, <2>2, UsersFinite, FS_Subset
  <2> QED
    BY <1>5, <2>3
<1>9. locks[l].refs # 1 => Users(l) \ {w} # {}
  <2> SUFFICES ASSUME Users(l) \ {w} = {} PROVE locks[l].refs = 1
    OBVIOUS
  <2>1. Users(l) = {w}
    BY <1>5
  <2> QED
    BY <1>5, <2>1, FS_Singleton, Zenon
<1>10. ASSUME NEW q \in Processes, NEW s \in Roots
       PROVE  writeLocks'[q][s] = IF locks[l].refs = 1 /\ q = p /\ s = root THEN 0 ELSE writeLocks[q][s]
  BY <1>1, <1>2, <1>4
<1>11. \A v \in Workers : work'[v].lock # 0 => writeLocks'[work'[v].at][work'[v].tc.root] = work'[v].lock
  <2> SUFFICES ASSUME NEW v \in Workers, work'[v].lock # 0
               PROVE  writeLocks'[work'[v].at][work'[v].tc.root] = work'[v].lock
    OBVIOUS
  <2>1. v # w /\ work'[v] = work[v]
    BY <1>3, NoJob DEF Others
  <2>2. writeLocks[work[v].at][work[v].tc.root] = work[v].lock /\ work[v].at \in Processes /\ work[v].tc.root \in Roots
    BY <2>1, AtWork DEF LocksOK, JobOK, NoWork
  <2>3. locks[l].refs = 1 => ~ (work[v].at = p /\ work[v].tc.root = root)
    <3> SUFFICES ASSUME locks[l].refs = 1, work[v].at = p, work[v].tc.root = root PROVE FALSE
      OBVIOUS
    <3>1. work[v].lock = l
      BY <1>5, <2>2
    <3> QED
      BY <1>8, <2>1, <3>1 DEF Users
  <2> QED
    BY <1>10, <2>1, <2>2, <2>3
<1>12. \A q, t \in Processes, r, s \in Roots :
          writeLocks'[q][r] # 0 /\ writeLocks'[q][r] = writeLocks'[t][s] => q = t /\ r = s
  BY <1>10 DEF LocksOK
<1>13. ASSUME NEW q \in Processes, NEW r \in Roots, writeLocks'[q][r] # 0
       PROVE  {v \in Workers : work'[v].lock = writeLocks'[q][r]} # {}
  <2>1. writeLocks'[q][r] = writeLocks[q][r] /\ writeLocks[q][r] \in 1..Slots
    BY <1>4, <1>10, <1>13, Bounds
  <2>2. Users(writeLocks[q][r]) # {}
    BY <1>13, <2>1 DEF LocksOK
  <2>3. CASE writeLocks[q][r] = l
    BY <1>2, <1>5, <1>6, <1>9, <1>10, <1>13, <2>1, <2>3 DEF LocksOK
  <2>4. CASE writeLocks[q][r] # l
    BY <1>6, <1>7, <2>1, <2>2, <2>4
  <2> QED
    BY <2>3, <2>4
<1>14. ASSUME NEW k \in 1..Slots
       PROVE  LET us == {v \in Workers : work'[v].lock = k}
              IN /\ locks'[k].refs = Cardinality(us)
                 /\ locks'[k].held <=> \E v \in us : work'[v].pc \in Guarded
                 /\ \A u, v \in us : work'[u].pc \in Guarded /\ work'[v].pc \in Guarded => u = v
  <2> DEFINE us == {v \in Workers : work'[v].lock = k}
  <2>1. /\ locks[k].refs = Cardinality(Users(k))
        /\ locks[k].held <=> \E v \in Users(k) : work[v].pc \in Guarded
        /\ \A u, v \in Users(k) : work[u].pc \in Guarded /\ work[v].pc \in Guarded => u = v
    BY DEF LocksOK
  <2>2. locks'[k].held = locks[k].held /\ locks'[k].refs = IF k = l THEN locks[k].refs - 1 ELSE locks[k].refs
    BY <1>1, <1>4
  <2>3. us = Users(k) \ {w} /\ IsFiniteSet(Users(k))
    BY <1>6, UsersFinite
  <2>4. locks'[k].refs = Cardinality(us)
    <3>1. CASE k = l
      <4>1. Cardinality(Users(k) \ {w}) = Cardinality(Users(k)) - 1
        BY <1>5, <2>3, <3>1, FS_RemoveElement, Zenon
      <4> QED
        BY <2>1, <2>2, <2>3, <3>1, <4>1, Zenon
    <3>2. CASE k # l
      BY <1>7, <2>1, <2>2, <2>3, <3>2, Zenon
    <3> QED
      BY <3>1, <3>2
  <2>5. \A v \in us : v \in Users(k) /\ work'[v] = work[v]
    BY <1>3, <2>3 DEF Others
  <2>6. \A v \in Users(k) : work[v].pc \in Guarded => v \in us
    BY <1>1, <2>3 DEF Guarded
  <2> HIDE DEF us
  <2>7. locks'[k].held <=> \E v \in us : work'[v].pc \in Guarded
    BY <2>1, <2>2, <2>5, <2>6
  <2>8. \A u, v \in us : work'[u].pc \in Guarded /\ work'[v].pc \in Guarded => u = v
    BY <2>1, <2>5
  <2> QED
    BY <2>4, <2>7, <2>8 DEF us
<1> QED
  BY <1>11, <1>12, <1>13, <1>14, Zenon DEF LocksOK, Users

-----------------------------------------------------------------------------
(* The calls of the forge.                                                 *)

\* A note has landed for the i-th birth, and d more are not counted.
LandedAt(i, d) ==
    /\ Len(born') = Len(born)
    /\ \A j \in 1..Len(born) :
          born'[j] \in [root : {born[j].root}, landed : {IF j = i THEN born[j].landed + 1 ELSE born[j].landed},
                        lost : {IF j = i THEN born[j].lost + d ELSE born[j].lost}]

\* The pull requests are those there were, as far as a thread knows of them.
PullsKept ==
    /\ Len(prs') = Len(prs)
    /\ \A n \in 1..Len(prs) : prs'[n].inc = prs[n].inc /\ prs'[n].open = prs[n].open /\ prs'[n].orphan = prs[n].orphan

\* A new one, that RunLore may not have heard of.
PullOpened(i, heard) ==
    /\ Len(prs') = Len(prs) + 1 /\ prs'[Len(prs) + 1].inc = i
    /\ prs'[Len(prs) + 1].open /\ (prs'[Len(prs) + 1].orphan <=> ~ heard)
    /\ \A n \in 1..Len(prs) : prs'[n] = prs[n]

\* The allowance after a write that landed.
Spent(w) == charged' = charged \cup {work[w].token} /\ recent' = recent

\* After one that did not, or may not have.
GivenBack(w) == charged' = charged /\ Refund(work[w].at)

\* Land counts a note for its thread.
LEMMA LandBorn ==
    ASSUME Typed, NEW i \in 1..Len(born), NEW d \in 0..1,
           NEW lost, lost = born[i].lost + d, born' = [born EXCEPT ![i].landed = @ + 1, ![i].lost = lost],
           prs' \in Seq(Pull(Len(born))), Len(prs) <= Len(prs')
    PROVE  ForgeTyped' /\ Grown(born, born', prs, prs') /\ LandedAt(i, d)
<1>1. born \in Seq(Birth) /\ Len(born) \in Nat /\ DOMAIN born = 1..Len(born) /\ born[i] \in Birth
  BY DEF Typed, ForgeTyped
<1> PICK b : b = [born[i] EXCEPT !.landed = @ + 1, !.lost = lost]
  OBVIOUS
<1>2. b \in [root : {born[i].root}, landed : {born[i].landed + 1}, lost : {born[i].lost + d}]
  BY <1>1, Zenon DEF Birth
<1>3. b \in Birth /\ b.root = born[i].root
  BY <1>1, <1>2 DEF Birth
<1>4. born' = [born EXCEPT ![i] = b]
  BY <1>1, Zenon
<1>5. /\ ForgeTyped' /\ Grown(born, born', prs, prs') /\ Len(born') = Len(born)
      /\ born'[i] = b /\ \A j \in 1..Len(born) : j # i => born'[j] = born[j]
  BY <1>3, <1>4, BirthChanges, Zenon
<1>6. ASSUME NEW j \in 1..Len(born)
      PROVE  born[j] \in [root : {born[j].root}, landed : {born[j].landed}, lost : {born[j].lost}]
  <2> PICK e \in Birth : e = born[j]
    BY <1>1
  <2>1. e \in [root : {e.root}, landed : {e.landed}, lost : {e.lost}]
    BY Zenon DEF Birth
  <2> QED
    BY <2>1
<1> QED
  BY <1>2, <1>5, <1>6 DEF LandedAt

\* Whether RunLore has heard of it or not.
LEMMA LandBirth ==
    ASSUME Typed, NEW w \in Workers, work[w].pc # "idle", NEW pc, NEW target, NEW heard \in BOOLEAN,
           Land(w, pc, target, heard), prs' \in Seq(Pull(Len(born))), Len(prs) <= Len(prs')
    PROVE  ForgeTyped' /\ Grown(born, born', prs, prs') /\ LandedAt(work[w].tc.inc, IF heard THEN 0 ELSE 1)
<1> PICK i \in 1..Len(born) : i = work[w].tc.inc
  BY AtWork DEF ContextOK
<1> PICK lost : lost = IF heard THEN born[i].lost ELSE born[i].lost + 1
  OBVIOUS
<1> PICK d \in 0..1 : d = IF heard THEN 0 ELSE 1
  OBVIOUS
<1>1. born \in Seq(Birth) /\ born[i] \in Birth
  BY DEF Typed, ForgeTyped
<1>2. lost = born[i].lost + d
  <2>1. born[i].lost \in Nat
    BY <1>1 DEF Birth
  <2> QED
    BY <2>1
<1>3. born' = [born EXCEPT ![i].landed = @ + 1, ![i].lost = IF heard THEN @ ELSE @ + 1]
  BY DEF Land
<1>4. born' = [born EXCEPT ![i].landed = @ + 1, ![i].lost = lost]
  BY <1>1, <1>3
<1> QED
  BY <1>2, <1>4, LandBorn, Zenon

\* Land.
LEMMA LandTurns ==
    ASSUME Typed, scene' = scene, clock' = clock, active' = active, chats' \in Seq(Call),
           RegistriesTyped', FileTyped', LocksTyped', ForgeTyped', Grown(born, born', prs, prs'),
           NEW w \in Workers, work[w].pc \in Writing,
           NEW pc, NEW target \in Nat, target <= Len(prs'),
           NEW heard \in BOOLEAN, heard => pc \in Landed, Land(w, pc, target, heard)
    PROVE  LET x == work[w]
           IN IF heard THEN Spent(w) /\ Turns(w, Jobs(x, pc, x.tc, x.lock, target, 0, x.chat))
                       ELSE GivenBack(w) /\ Turns(w, Jobs(x, "unlock", x.tc, x.lock, x.target, 0, x.chat))
<1> DEFINE x == work[w]
<1>1. /\ x \in Work /\ work \in [Workers -> Work] /\ JobOK(x, born, prs) /\ x.pc # "idle"
      /\ x.lock \in 0..Slots /\ x.target \in Nat /\ x.chat \in Nat
  BY AtWork DEF Writing
<1>2. x.lock # 0 /\ "unlock" \in Pcs \ {"idle"} /\ "unlock" \in Holding /\ "unlock" \notin Writing
  BY <1>1 DEF JobOK, Holding, Guarded, Writing, Pcs
<1>3. heard => pc \in Pcs \ {"idle"} /\ pc \in Holding /\ pc \notin Writing
  BY DEF Landed, Pcs, Holding, Guarded, Writing
<1>4. ContextOK(x.tc, born', prs') /\ x.target <= Len(prs')
  BY <1>1, GrownJob, SMTT(20) DEF Typed, ForgeTyped, JobOK
<1>5. CASE heard
  <2> PICK y : y = [x EXCEPT !.pc = pc, !.target = target, !.token = 0]
    OBVIOUS
  <2> DEFINE jobs == Jobs(x, pc, x.tc, x.lock, target, 0, x.chat)
  <2>1. work' = [work EXCEPT ![w].pc = pc, ![w].target = target, ![w].token = 0] /\ Spent(w)
    BY <1>5 DEF Land, Spent
  <2>2. work' = [work EXCEPT ![w] = y] /\ y \in jobs
    BY <1>1, <2>1, JobForms, Zenon
  <2>3. JobOK(y, born', prs')
    BY <1>1, <1>2, <1>3, <1>4, <1>5, <2>2, JobGoesOn
  <2> HIDE DEF jobs
  <2>4. Turns(w, jobs)
    BY <2>2, <2>3, TurnsFrom, Zenon
  <2> QED
    BY <1>5, <2>1, <2>4 DEF jobs
<1>6. CASE ~ heard
  <2> PICK y : y = [x EXCEPT !.pc = "unlock", !.token = 0]
    BY Zenon
  <2> DEFINE jobs == Jobs(x, "unlock", x.tc, x.lock, x.target, 0, x.chat)
  <2>1. work' = [work EXCEPT ![w].pc = "unlock", ![w].token = 0] /\ GivenBack(w)
    BY <1>6 DEF Land, GiveUp, GivenBack
  <2>2. work' = [work EXCEPT ![w] = y] /\ y \in jobs
    BY <1>1, <2>1, JobForms, Zenon
  <2>3. JobOK(y, born', prs')
    BY <1>1, <1>2, <1>4, <2>2, JobGoesOn
  <2> HIDE DEF jobs
  <2>4. Turns(w, jobs)
    BY <2>2, <2>3, TurnsFrom, Zenon
  <2> QED
    BY <1>6, <2>1, <2>4 DEF jobs
<1> QED
  BY <1>5, <1>6

\* GiveUp.
LEMMA GiveUpTurns ==
    ASSUME Typed, scene' = scene, clock' = clock, active' = active, chats' \in Seq(Call),
           RegistriesTyped', FileTyped', LocksTyped', ForgeTyped', Grown(born, born', prs, prs'),
           NEW w \in Workers, work[w].pc \in Writing, GiveUp(w), charged' = charged
    PROVE  LET x == work[w]
           IN GivenBack(w) /\ Turns(w, Jobs(x, "unlock", x.tc, x.lock, x.target, 0, x.chat))
<1> DEFINE x == work[w]
<1>1. /\ x \in Work /\ work \in [Workers -> Work] /\ JobOK(x, born, prs) /\ x.pc # "idle"
      /\ x.lock \in 0..Slots /\ x.target \in Nat /\ x.chat \in Nat
  BY AtWork DEF Writing
<1>2. x.lock # 0 /\ "unlock" \in Pcs \ {"idle"} /\ "unlock" \in Holding /\ "unlock" \notin Writing
  BY <1>1 DEF JobOK, Holding, Guarded, Writing, Pcs
<1>4. ContextOK(x.tc, born', prs') /\ x.target <= Len(prs')
  BY <1>1, GrownJob DEF Typed, ForgeTyped, JobOK
<1> PICK y : y = [x EXCEPT !.pc = "unlock", !.token = 0]
  OBVIOUS
<1> DEFINE jobs == Jobs(x, "unlock", x.tc, x.lock, x.target, 0, x.chat)
<1>5. work' = [work EXCEPT ![w].pc = "unlock", ![w].token = 0] /\ GivenBack(w)
  BY DEF GiveUp, GivenBack
<1>6. work' = [work EXCEPT ![w] = y] /\ y \in jobs
  BY <1>1, <1>5, JobForms, Zenon
<1>7. JobOK(y, born', prs')
  BY <1>1, <1>2, <1>4, <1>6, JobGoesOn
<1> HIDE DEF jobs
<1>8. Turns(w, jobs)
  BY <1>6, <1>7, TurnsFrom, Zenon
<1> QED
  BY <1>5, <1>8 DEF jobs

\* The write goes on to its next step, with its token.
LEMMA WriteTurns ==
    ASSUME Typed, scene' = scene, clock' = clock, active' = active, chats' \in Seq(Call),
           RegistriesTyped', FileTyped', LocksTyped', ForgeTyped', Grown(born, born', prs, prs'),
           NEW w \in Workers, work[w].pc \in Writing, NEW pc \in Writing, NEW target \in Nat, target <= Len(prs'),
           NEW y \in Jobs(work[w], pc, work[w].tc, work[w].lock, target, work[w].token, work[w].chat),
           work' = [work EXCEPT ![w] = y]
    PROVE  Turns(w, Jobs(work[w], pc, work[w].tc, work[w].lock, target, work[w].token, work[w].chat))
<1> DEFINE x == work[w]
           jobs == Jobs(x, pc, x.tc, x.lock, target, x.token, x.chat)
<1>1. /\ x \in Work /\ JobOK(x, born, prs) /\ x.pc # "idle"
      /\ x.lock \in 0..Slots /\ x.token \in Nat /\ x.chat \in Nat
  BY AtWork DEF Writing
<1>2. x.lock # 0 /\ pc \in Pcs \ {"idle"} /\ pc \in Holding /\ x.tc.notes < MaxNotes
  BY <1>1 DEF JobOK, Holding, Guarded, Writing, Pcs
<1>3. ContextOK(x.tc, born', prs')
  BY <1>1, GrownJob DEF Typed, ForgeTyped, JobOK
<1>4. JobOK(y, born', prs')
  <2>1. pc \in Writing => x.tc.notes < MaxNotes
    BY <1>2
  <2> QED
    BY <1>1, <1>2, <1>3, <2>1, JobGoesOn
<1> HIDE DEF jobs
<1> QED
  BY <1>4, TurnsFrom, Zenon DEF jobs

\* A call of the forge that changes neither the registry nor the file.
LEMMA ForgeOnly ==
    ASSUME Typed, scene' = scene, chats' = chats, memory' = memory, file' = file, torn' = torn,
           writeLocks' = writeLocks, locks' = locks, failures' \in Seq(Kinds),
           ForgeTyped', Grown(born, born', prs, prs')
    PROVE  RegistriesTyped' /\ FileTyped' /\ LocksTyped' /\ chats' \in Seq(Call)
BY NotStored, LocksStay DEF Typed

\* Whether a pull request is open.
LEMMA IsOpenTurns ==
    ASSUME Typed, NEW w \in Workers, IsOpen(w)
    PROVE  LET x == work[w]
               n == After(x.tc, x.target)
           IN /\ charged' = charged
              /\ \/ /\ ~ prs[x.target].open /\ recent' = recent
                    /\ Turns(w, Jobs(x, Routed(n), x.tc, x.lock, n, x.token, x.chat))
                 \/ /\ prs[x.target].open /\ recent' = recent
                    /\ Turns(w, Jobs(x, IF x.target = x.tc.noteUrl THEN "append" ELSE "comment",
                                     x.tc, x.lock, x.target, x.token, x.chat))
                 \/ GivenBack(w) /\ Turns(w, Jobs(x, "unlock", x.tc, x.lock, x.target, 0, x.chat))
<1> DEFINE x == work[w]
<1> PICK n : n = After(x.tc, x.target)
  OBVIOUS
<1> PICK pc : pc = IF x.target = x.tc.noteUrl THEN "append" ELSE "comment"
  OBVIOUS
<1>1. /\ scene' = scene /\ clock' = clock /\ active' = active /\ memory' = memory /\ file' = file
      /\ torn' = torn /\ born' = born /\ prs' = prs /\ chats' = chats /\ writeLocks' = writeLocks
      /\ locks' = locks /\ charged' = charged
  BY DEF IsOpen, chatting
<1>2. /\ x.pc \in Writing /\ x \in Work /\ work \in [Workers -> Work] /\ x.target \in Nat /\ x.target <= Len(prs)
      /\ ContextOK(x.tc, born, prs) /\ Len(prs) \in Nat
  BY AtWork DEF IsOpen, Writing, Typed, ForgeTyped
<1>3. ForgeTyped' /\ Grown(born, born', prs, prs')
  BY <1>1, ForgeStays
<1>4. failures' \in Seq(Kinds)
  BY FaultTyped, NoFaultTyped DEF IsOpen
<1>5. RegistriesTyped' /\ FileTyped' /\ LocksTyped' /\ chats' \in Seq(Call)
  BY <1>1, <1>3, <1>4, ForgeOnly
<1>6. CASE recent' = recent /\ ~ prs[x.target].open /\ work' = [work EXCEPT ![w] = Route(x, n)]
  <2>1. n \in Nat /\ n <= Len(prs)
    BY <1>2, AfterOK
  <2> PICK y : y = [x EXCEPT !.target = n, !.pc = Routed(n)]
    OBVIOUS
  <2>2. work' = [work EXCEPT ![w] = y]
    BY <1>6 DEF Route, Routed
  <2>3. y \in Jobs(x, Routed(n), x.tc, x.lock, n, x.token, x.chat) /\ Routed(n) \in Writing
    BY <1>2, JobForms, Zenon DEF Routed, Writing
  <2>4. Turns(w, Jobs(x, Routed(n), x.tc, x.lock, n, x.token, x.chat))
    BY <1>1, <1>2, <1>3, <1>5, <2>1, <2>2, <2>3, WriteTurns, Zenon
  <2> QED
    BY <1>1, <1>6, <2>4
<1>7. CASE recent' = recent /\ prs[x.target].open /\ work' = [work EXCEPT ![w] = [x EXCEPT !.pc = pc]]
  <2> PICK y : y = [x EXCEPT !.pc = pc]
    BY Zenon
  <2>1. work' = [work EXCEPT ![w] = y] /\ y \in Jobs(x, pc, x.tc, x.lock, x.target, x.token, x.chat)
    BY <1>2, <1>7, JobForms, Zenon
  <2>2. pc \in Writing
    BY DEF Writing
  <2>3. Turns(w, Jobs(x, pc, x.tc, x.lock, x.target, x.token, x.chat))
    BY <1>1, <1>2, <1>3, <1>5, <2>1, <2>2, WriteTurns, Zenon
  <2> QED
    BY <1>1, <1>7, <2>3
<1>8. CASE GiveUp(w)
  BY <1>1, <1>2, <1>3, <1>5, <1>8, GiveUpTurns
<1> QED
  BY <1>6, <1>7, <1>8 DEF IsOpen

\* What an edit or a comment leaves of a pull request.
LEMMA PullEdited ==
    ASSUME Typed, NEW n \in 1..Len(prs), NEW pr \in Pull(Len(born)),
           pr.inc = prs[n].inc, pr.open = prs[n].open, pr.orphan = prs[n].orphan,
           prs' = [prs EXCEPT ![n] = pr]
    PROVE  prs' \in Seq(Pull(Len(born))) /\ PullsKept /\ Len(prs) <= Len(prs')
<1>1. prs' \in Seq(Pull(Len(born))) /\ Len(prs') = Len(prs) /\ prs'[n] = pr /\ \A m \in 1..Len(prs) : m # n => prs'[m] = prs[m]
  BY DEF Typed, ForgeTyped
<1>2. Len(prs) \in Nat
  BY DEF Typed, ForgeTyped
<1> QED
  BY <1>1, <1>2 DEF PullsKept

\* The note goes into the entry of the thread's own pull request.
LEMMA AppendTurns ==
    ASSUME Typed, NEW w \in Workers, AppendToEntry(w), work[w].target # NoPR
    PROVE  LET x == work[w]
               n == After(x.tc, x.target)
           IN /\ PullsKept
              /\ \/ /\ prs[x.target].open /\ LandedAt(x.tc.inc, 0) /\ Spent(w)
                    /\ Turns(w, Jobs(x, "count", x.tc, x.lock, x.target, 0, x.chat))
                 \/ /\ born' = born /\ charged' = charged /\ recent' = recent /\ ~ prs[x.target].open
                    /\ Turns(w, Jobs(x, Routed(n), x.tc, x.lock, n, x.token, x.chat))
                 \/ /\ born' = born /\ charged' = charged /\ recent' = recent
                    /\ Turns(w, Jobs(x, "comment", x.tc, x.lock, x.target, x.token, x.chat))
<1> DEFINE x == work[w]
           pr == prs[x.target]
<1> PICK n : n = After(x.tc, x.target)
  OBVIOUS
<1>1. /\ scene' = scene /\ clock' = clock /\ active' = active /\ memory' = memory /\ file' = file
      /\ torn' = torn /\ chats' = chats /\ writeLocks' = writeLocks /\ locks' = locks
  BY DEF AppendToEntry, chatting
<1>2. /\ x.pc \in Writing /\ x \in Work /\ work \in [Workers -> Work] /\ x.target \in Nat /\ x.target <= Len(prs)
      /\ ContextOK(x.tc, born, prs) /\ Len(prs) \in Nat /\ x.key \in Keys /\ prs \in Seq(Pull(Len(born)))
  BY AtWork DEF AppendToEntry, Writing, Typed, ForgeTyped
<1>3. x.target \in 1..Len(prs) /\ pr \in Pull(Len(born)) /\ x.tc.inc \in 1..Len(born)
  BY <1>2 DEF NoPR, ContextOK
<1>4. failures' \in Seq(Kinds)
  BY FaultTyped, NoFaultTyped, Zenon DEF AppendToEntry
<1> PICK noted : noted = WithNote(pr, x.key)
  OBVIOUS
<1>5. noted \in Pull(Len(born)) /\ noted.inc = pr.inc /\ noted.open = pr.open /\ noted.orphan = pr.orphan
  <2>4. pr.entry \in Seq(Keys)
    BY <1>3 DEF Pull
  <2> PICK seq \in Seq(Keys) : seq = pr.entry
    BY <2>4
  <2> PICK key \in Keys : key = x.key
    BY <1>2
  <2> PICK entry \in Seq(Keys) : entry = Append(seq, key)
    BY AppendProperties, Zenon
  <2>1. [pr EXCEPT !.entry = entry] \in [inc : {pr.inc}, open : {pr.open}, entry : Seq(Keys),
                                                     comments : Seq(Keys), orphan : {pr.orphan}]
    BY <1>3, Zenon DEF Pull
  <2> PICK e : e = [pr EXCEPT !.entry = entry]
    BY Zenon
  <2>2. e \in Pull(Len(born)) /\ e.inc = pr.inc /\ e.open = pr.open /\ e.orphan = pr.orphan
    BY <1>3, <2>1, Zenon DEF Pull
  <2>3. noted = pr \/ noted = e
    BY DEF WithNote
  <2> QED
    BY <1>3, <2>2, <2>3, Zenon
<1>6. CASE prs' = [prs EXCEPT ![x.target] = noted] /\ pr.open /\ Land(w, "count", x.target, TRUE)
  <2>1. prs' \in Seq(Pull(Len(born))) /\ PullsKept /\ Len(prs) <= Len(prs')
    BY <1>3, <1>5, <1>6, PullEdited, Zenon
  <2>3. ForgeTyped' /\ Grown(born, born', prs, prs') /\ LandedAt(x.tc.inc, 0)
    BY <1>2, <1>6, <2>1, LandBirth DEF Writing
  <2>4. RegistriesTyped' /\ FileTyped' /\ LocksTyped' /\ chats' \in Seq(Call)
    BY <1>1, <1>4, <2>3, ForgeOnly
  <2>5. x.target <= Len(prs') /\ "count" \in Landed
    BY <1>2, <2>1 DEF PullsKept, Landed
  <2>6. Spent(w) /\ Turns(w, Jobs(x, "count", x.tc, x.lock, x.target, 0, x.chat))
    BY <1>1, <1>2, <1>6, <2>3, <2>4, <2>5, LandTurns, Zenon
  <2> QED
    BY <1>6, <2>1, <2>3, <2>6
<1>7. CASE /\ born' = born /\ charged' = charged /\ recent' = recent /\ prs' = prs
           /\ \/ ~ pr.open /\ work' = [work EXCEPT ![w] = Route(x, n)]
              \/ work' = [work EXCEPT ![w].pc = "comment"]
  <2>1. ForgeTyped' /\ Grown(born, born', prs, prs')
    BY <1>7, ForgeStays
  <2>2. RegistriesTyped' /\ FileTyped' /\ LocksTyped' /\ chats' \in Seq(Call)
    BY <1>1, <1>4, <2>1, ForgeOnly
  <2>3. PullsKept
    BY <1>7 DEF PullsKept
  <2>4. CASE ~ pr.open /\ work' = [work EXCEPT ![w] = Route(x, n)]
    <3>1. n \in Nat /\ n <= Len(prs')
      BY <1>2, <1>7, AfterOK
    <3> PICK y : y = [x EXCEPT !.target = n, !.pc = Routed(n)]
      OBVIOUS
    <3>2. work' = [work EXCEPT ![w] = y]
      BY <2>4 DEF Route, Routed
    <3>3. y \in Jobs(x, Routed(n), x.tc, x.lock, n, x.token, x.chat) /\ Routed(n) \in Writing
      BY <1>2, JobForms, Zenon DEF Routed, Writing
    <3>4. Turns(w, Jobs(x, Routed(n), x.tc, x.lock, n, x.token, x.chat))
      BY <1>1, <1>2, <2>1, <2>2, <3>1, <3>2, <3>3, WriteTurns, Zenon
    <3> QED
      BY <1>7, <2>3, <2>4, <3>4
  <2>5. CASE work' = [work EXCEPT ![w].pc = "comment"]
    <3> PICK y : y = [x EXCEPT !.pc = "comment"]
      BY Zenon
    <3>1. work' = [work EXCEPT ![w] = y] /\ y \in Jobs(x, "comment", x.tc, x.lock, x.target, x.token, x.chat)
      BY <1>2, <2>5, JobForms, Zenon
    <3>2. "comment" \in Writing /\ x.target <= Len(prs')
      BY <1>2, <1>7 DEF Writing
    <3>3. Turns(w, Jobs(x, "comment", x.tc, x.lock, x.target, x.token, x.chat))
      BY <1>1, <1>2, <2>1, <2>2, <3>1, <3>2, WriteTurns, Zenon
    <3> QED
      BY <1>7, <2>3, <3>3
  <2> QED
    BY <1>7, <2>4, <2>5
<1>8. CASE /\ prs' = [prs EXCEPT ![x.target] = noted] /\ work' = [work EXCEPT ![w].pc = "comment"]
           /\ born' = born /\ charged' = charged /\ recent' = recent
  <2>1. prs' \in Seq(Pull(Len(born))) /\ PullsKept /\ Len(prs) <= Len(prs')
    BY <1>3, <1>5, <1>8, PullEdited, Zenon
  <2>2. ForgeTyped' /\ Grown(born, born', prs, prs')
    BY <1>8, <2>1, PullsChange
  <2>3. RegistriesTyped' /\ FileTyped' /\ LocksTyped' /\ chats' \in Seq(Call)
    BY <1>1, <1>4, <2>2, ForgeOnly
  <2> PICK y : y = [x EXCEPT !.pc = "comment"]
    BY Zenon
  <2>4. work' = [work EXCEPT ![w] = y] /\ y \in Jobs(x, "comment", x.tc, x.lock, x.target, x.token, x.chat)
    BY <1>2, <1>8, JobForms, Zenon
  <2>5. "comment" \in Writing /\ x.target <= Len(prs')
    BY <1>2, <2>1 DEF Writing, PullsKept
  <2>6. Turns(w, Jobs(x, "comment", x.tc, x.lock, x.target, x.token, x.chat))
    BY <1>1, <1>2, <2>2, <2>3, <2>4, <2>5, WriteTurns, Zenon
  <2> QED
    BY <1>8, <2>1, <2>6
<1> QED
  BY <1>6, <1>7, <1>8, Zenon DEF AppendToEntry, NoLand

\* The note becomes a comment.
LEMMA CommentTurns ==
    ASSUME Typed, NEW w \in Workers, CommentOnPR(w), work[w].target # NoPR
    PROVE  LET x == work[w]
           IN /\ PullsKept
              /\ \/ /\ LandedAt(x.tc.inc, 0) /\ Spent(w)
                    /\ Turns(w, Jobs(x, "count", x.tc, x.lock, x.target, 0, x.chat))
                 \/ /\ born' = born /\ GivenBack(w)
                    /\ Turns(w, Jobs(x, "unlock", x.tc, x.lock, x.target, 0, x.chat))
                 \/ /\ LandedAt(x.tc.inc, 1) /\ GivenBack(w)
                    /\ Turns(w, Jobs(x, "unlock", x.tc, x.lock, x.target, 0, x.chat))
<1> DEFINE x == work[w]
           pr == prs[x.target]
<1>1. /\ scene' = scene /\ clock' = clock /\ active' = active /\ memory' = memory /\ file' = file
      /\ torn' = torn /\ chats' = chats /\ writeLocks' = writeLocks /\ locks' = locks
  BY DEF CommentOnPR, chatting
<1>2. /\ x.pc \in Writing /\ x.pc # "idle" /\ x.target \in Nat /\ x.target <= Len(prs)
      /\ Len(prs) \in Nat /\ x.key \in Keys /\ prs \in Seq(Pull(Len(born)))
  BY AtWork DEF CommentOnPR, Writing, Typed, ForgeTyped
<1>3. x.target \in 1..Len(prs) /\ pr \in Pull(Len(born))
  BY <1>2 DEF NoPR
<1>4. failures' \in Seq(Kinds)
  BY FaultTyped, NoFaultTyped, Zenon DEF CommentOnPR
<1>5. pr.comments \in Seq(Keys)
  BY <1>3 DEF Pull
<1> PICK seq \in Seq(Keys) : seq = pr.comments
  BY <1>5
<1> PICK key \in Keys : key = x.key
  BY <1>2
<1> PICK comments \in Seq(Keys) : comments = Append(seq, key)
  BY AppendProperties, Zenon
<1> PICK e : e = [pr EXCEPT !.comments = comments]
  BY Zenon
<1>6. [pr EXCEPT !.comments = comments] \in [inc : {pr.inc}, open : {pr.open}, entry : Seq(Keys),
                                             comments : Seq(Keys), orphan : {pr.orphan}]
  BY <1>3, Zenon DEF Pull
<1>7. e \in Pull(Len(born)) /\ e.inc = pr.inc /\ e.open = pr.open /\ e.orphan = pr.orphan
  BY <1>3, <1>6 DEF Pull
<1> DEFINE posted == prs' = [prs EXCEPT ![x.target].comments = Append(@, x.key)]
<1>8. posted => prs' = [prs EXCEPT ![x.target] = e]
  BY <1>2, <1>3
<1>9. posted => prs' \in Seq(Pull(Len(born))) /\ PullsKept /\ Len(prs) <= Len(prs')
  <2> HIDE DEF posted
  <2> QED
    BY <1>3, <1>7, <1>8, PullEdited, Zenon
<1>10. CASE posted /\ Land(w, "count", x.target, TRUE)
  <2> HIDE DEF posted
  <2>1. ForgeTyped' /\ Grown(born, born', prs, prs') /\ LandedAt(x.tc.inc, IF TRUE THEN 0 ELSE 1)
    BY <1>2, <1>9, <1>10, LandBirth, Zenon
  <2>2. RegistriesTyped' /\ FileTyped' /\ LocksTyped' /\ chats' \in Seq(Call)
    BY <1>1, <1>4, <2>1, ForgeOnly
  <2>3. x.target <= Len(prs') /\ "count" \in Landed
    BY <1>2, <1>9, <1>10 DEF Landed
  <2>4. Spent(w) /\ Turns(w, Jobs(x, "count", x.tc, x.lock, x.target, 0, x.chat))
    BY <1>1, <1>2, <1>10, <2>1, <2>2, <2>3, LandTurns, Zenon
  <2> QED
    BY <1>9, <1>10, <2>1, <2>4
<1>11. CASE GiveUp(w) /\ born' = born /\ charged' = charged /\ prs' = prs
  <2>1. ForgeTyped' /\ Grown(born, born', prs, prs')
    BY <1>11, ForgeStays
  <2>2. RegistriesTyped' /\ FileTyped' /\ LocksTyped' /\ chats' \in Seq(Call)
    BY <1>1, <1>4, <2>1, ForgeOnly
  <2>3. PullsKept
    BY <1>11 DEF PullsKept
  <2>4. GivenBack(w) /\ Turns(w, Jobs(x, "unlock", x.tc, x.lock, x.target, 0, x.chat))
    BY <1>1, <1>2, <1>11, <2>1, <2>2, GiveUpTurns
  <2> QED
    BY <1>11, <2>3, <2>4
<1>12. CASE posted /\ Land(w, "unlock", NoPR, FALSE)
  <2> HIDE DEF posted
  <2>1. ForgeTyped' /\ Grown(born, born', prs, prs') /\ LandedAt(x.tc.inc, IF FALSE THEN 0 ELSE 1)
    BY <1>2, <1>9, <1>12, LandBirth, Zenon
  <2>2. RegistriesTyped' /\ FileTyped' /\ LocksTyped' /\ chats' \in Seq(Call)
    BY <1>1, <1>4, <2>1, ForgeOnly
  <2>3. NoPR \in Nat /\ NoPR <= Len(prs')
    BY <1>2, <1>9, <1>12 DEF NoPR
  <2>4. GivenBack(w) /\ Turns(w, Jobs(x, "unlock", x.tc, x.lock, x.target, 0, x.chat))
    BY <1>1, <1>2, <1>12, <2>1, <2>2, <2>3, LandTurns, Zenon
  <2> QED
    BY <1>9, <1>12, <2>1, <2>4
<1> QED
  BY <1>10, <1>11, <1>12, Zenon DEF CommentOnPR, NoLand

\* A pull request for the note.
LEMMA OpenTurns ==
    ASSUME Typed, NEW w \in Workers, OpenPR(w)
    PROVE  LET x == work[w]
           IN \/ /\ LandedAt(x.tc.inc, 0) /\ Spent(w) /\ PullOpened(x.tc.inc, TRUE)
                 /\ Turns(w, Jobs(x, "writeBack", x.tc, x.lock, Len(prs) + 1, 0, x.chat))
              \/ /\ born' = born /\ prs' = prs /\ GivenBack(w)
                 /\ Turns(w, Jobs(x, "unlock", x.tc, x.lock, x.target, 0, x.chat))
              \/ /\ LandedAt(x.tc.inc, 1) /\ GivenBack(w) /\ PullOpened(x.tc.inc, FALSE)
                 /\ Turns(w, Jobs(x, "unlock", x.tc, x.lock, x.target, 0, x.chat))
<1> DEFINE x == work[w]
           new(heard) == [inc |-> x.tc.inc, open |-> TRUE, entry |-> <<x.key>>, comments |-> <<>>, orphan |-> ~ heard]
<1>1. /\ scene' = scene /\ clock' = clock /\ active' = active /\ memory' = memory /\ file' = file
      /\ torn' = torn /\ chats' = chats /\ writeLocks' = writeLocks /\ locks' = locks
  BY DEF OpenPR, chatting
<1>2. /\ x.pc \in Writing /\ x.pc # "idle" /\ x.target \in Nat /\ x.target <= Len(prs)
      /\ Len(prs) \in Nat /\ x.key \in Keys /\ prs \in Seq(Pull(Len(born))) /\ x.tc.inc \in 1..Len(born)
      /\ Len(born) \in Nat
  BY AtWork DEF OpenPR, Writing, Typed, ForgeTyped, ContextOK
<1>3. failures' \in Seq(Kinds)
  BY FaultTyped, NoFaultTyped, Zenon DEF OpenPR
<1>4. ASSUME NEW heard \in BOOLEAN, prs' = Append(prs, new(heard))
      PROVE  /\ prs' \in Seq(Pull(Len(born))) /\ Len(prs) <= Len(prs') /\ Len(prs') = Len(prs) + 1
             /\ PullOpened(x.tc.inc, heard)
  <2> PICK pr : pr = new(heard)
    BY Zenon
  <2>1. pr \in Pull(Len(born)) /\ pr.inc = x.tc.inc /\ pr.open /\ (pr.orphan <=> ~ heard)
    <3>1. <<x.key>> \in Seq(Keys) /\ <<>> \in Seq(Keys) /\ x.tc.inc \in 0..Len(born)
      BY <1>2
    <3> QED
      BY <3>1, Zenon DEF Pull
  <2>2. /\ prs' \in Seq(Pull(Len(born))) /\ Len(prs') = Len(prs) + 1 /\ prs'[Len(prs) + 1] = pr
        /\ \A n \in 1..Len(prs) : prs'[n] = prs[n]
    BY <1>2, <1>4, <2>1
  <2> QED
    BY <1>2, <2>1, <2>2 DEF PullOpened
<1>5. CASE prs' = Append(prs, new(TRUE)) /\ Land(w, "writeBack", Len(prs'), TRUE)
  <2>1. /\ prs' \in Seq(Pull(Len(born))) /\ Len(prs) <= Len(prs') /\ Len(prs') = Len(prs) + 1
        /\ PullOpened(x.tc.inc, TRUE)
    BY <1>4, <1>5, Zenon
  <2>2. Land(w, "writeBack", Len(prs) + 1, TRUE)
    BY <1>5, <2>1, Zenon
  <2>3. ForgeTyped' /\ Grown(born, born', prs, prs') /\ LandedAt(x.tc.inc, IF TRUE THEN 0 ELSE 1)
    BY <1>2, <2>1, <2>2, LandBirth, Zenon
  <2>4. RegistriesTyped' /\ FileTyped' /\ LocksTyped' /\ chats' \in Seq(Call)
    BY <1>1, <1>3, <2>3, ForgeOnly
  <2>5. Len(prs) + 1 \in Nat /\ Len(prs) + 1 <= Len(prs') /\ "writeBack" \in Landed
    BY <1>2, <2>1 DEF Landed
  <2>6. Spent(w) /\ Turns(w, Jobs(x, "writeBack", x.tc, x.lock, Len(prs) + 1, 0, x.chat))
    BY <1>1, <1>2, <2>2, <2>3, <2>4, <2>5, LandTurns, Zenon
  <2> QED
    BY <2>1, <2>3, <2>6, Zenon
<1>6. CASE GiveUp(w) /\ born' = born /\ charged' = charged /\ prs' = prs
  <2>1. ForgeTyped' /\ Grown(born, born', prs, prs')
    BY <1>6, ForgeStays
  <2>2. RegistriesTyped' /\ FileTyped' /\ LocksTyped' /\ chats' \in Seq(Call)
    BY <1>1, <1>3, <2>1, ForgeOnly
  <2>3. GivenBack(w) /\ Turns(w, Jobs(x, "unlock", x.tc, x.lock, x.target, 0, x.chat))
    BY <1>1, <1>2, <1>6, <2>1, <2>2, GiveUpTurns
  <2> QED
    BY <1>6, <2>3, Zenon
<1>7. CASE prs' = Append(prs, new(FALSE)) /\ Land(w, "unlock", NoPR, FALSE)
  <2>1. /\ prs' \in Seq(Pull(Len(born))) /\ Len(prs) <= Len(prs') /\ Len(prs') = Len(prs) + 1
        /\ PullOpened(x.tc.inc, FALSE)
    BY <1>4, <1>7, Zenon
  <2>2. ForgeTyped' /\ Grown(born, born', prs, prs') /\ LandedAt(x.tc.inc, IF FALSE THEN 0 ELSE 1)
    BY <1>2, <1>7, <2>1, LandBirth, Zenon
  <2>3. RegistriesTyped' /\ FileTyped' /\ LocksTyped' /\ chats' \in Seq(Call)
    BY <1>1, <1>3, <2>2, ForgeOnly
  <2>4. NoPR \in Nat /\ NoPR <= Len(prs')
    BY <1>2, <2>1 DEF NoPR
  <2>5. GivenBack(w) /\ Turns(w, Jobs(x, "unlock", x.tc, x.lock, x.target, 0, x.chat))
    BY <1>1, <1>2, <1>7, <2>2, <2>3, <2>4, LandTurns, Zenon
  <2> QED
    BY <2>1, <2>2, <2>5, Zenon
<1> QED
  BY <1>5, <1>6, <1>7, Zenon DEF OpenPR, NoLand

-----------------------------------------------------------------------------
(* What the registry is told.                                              *)

\* A pull request is replaced.
LEMMA PullReplaced ==
    ASSUME Typed, NEW n \in 1..Len(prs), NEW pr \in Pull(Len(born)), prs' = [prs EXCEPT ![n] = pr]
    PROVE  /\ prs' \in Seq(Pull(Len(born))) /\ Len(prs') = Len(prs) /\ Len(prs) <= Len(prs')
           /\ prs'[n] = pr /\ \A m \in 1..Len(prs) : m # n => prs'[m] = prs[m]
<1>1. prs \in Seq(Pull(Len(born))) /\ Len(prs) \in Nat /\ DOMAIN prs = 1..Len(prs)
  BY DEF Typed, ForgeTyped
<1> QED
  BY <1>1

\* One is marked as unknown to RunLore.
PullOrphaned(n) ==
    /\ Len(prs') = Len(prs) /\ prs'[n].orphan
    /\ \A m \in 1..Len(prs) : /\ prs'[m].inc = prs[m].inc /\ prs'[m].open = prs[m].open
                              /\ m # n => prs'[m].orphan = prs[m].orphan

\* The record of an update: the thread's own pull request.
LEMMA WriteBackTurns ==
    ASSUME Typed, NEW w \in Workers, WriteBack(w), work[w].target # NoPR
    PROVE  LET x == work[w]
               mem == memory[x.at]
               root == x.tc.root
           IN /\ Turns(w, Jobs(x, "count", x.tc, x.lock, x.target, x.token, x.chat))
              /\ born' = born
              /\ \/ /\ root \in Tracked(mem) /\ prs' = prs
                    /\ \E c \in Context : /\ c.root = root /\ c.inc = mem.byId[root].inc /\ c.notes = mem.byId[root].notes
                                          /\ c.noteUrl = x.target /\ c.at = mem.byId[root].at
                                          /\ Store(x.at, mem, c)
                 \/ root \notin Tracked(mem) /\ NoStore /\ PullOrphaned(x.target)
<1> DEFINE x == work[w]
           mem == memory[x.at]
           root == x.tc.root
           jobs == Jobs(x, "count", x.tc, x.lock, x.target, x.token, x.chat)
<1>1. /\ scene' = scene /\ clock' = clock /\ active' = active /\ born' = born /\ chats' = chats
      /\ writeLocks' = writeLocks /\ locks' = locks
  BY DEF WriteBack, chatting
<1>2. /\ x.pc = "writeBack" /\ x \in Work /\ work \in [Workers -> Work] /\ x.at \in Processes
      /\ x.target \in 1..Len(prs) /\ JobOK(x, born, prs) /\ x.lock \in 0..Slots /\ x.token \in Nat /\ x.chat \in Nat
      /\ x.lock # 0 /\ x.token = 0 /\ work' = [work EXCEPT ![w].pc = "count"] /\ Len(prs) \in Nat
  <2>1. x.pc = "writeBack" /\ Len(prs) \in Nat /\ work' = [work EXCEPT ![w].pc = "count"]
    BY DEF WriteBack, Typed, ForgeTyped
  <2> QED
    BY <2>1, AtWork, SMTT(20) DEF JobOK, Holding, Guarded, Writing, NoPR
<1>3. MemoryOK(mem, scene.maxLive, born, prs) /\ LocksTyped' /\ chats' \in Seq(Call)
  BY <1>1, <1>2, LocksStay DEF Typed, RegistriesTyped
<1>2a. \A t \in 1..Len(prs) : t \in Nat /\ t <= Len(prs)
  BY <1>2
<1> PICK y : y = [x EXCEPT !.pc = "count"]
  BY Zenon
<1>4. work' = [work EXCEPT ![w] = y] /\ y \in jobs
  BY <1>2, JobForms, Zenon
<1>5. ASSUME ForgeTyped', Grown(born, born', prs, prs') PROVE JobOK(y, born', prs')
  <2>1. JobOK(x, born', prs')
    BY <1>2, <1>5, GrownJob DEF Typed, ForgeTyped
  <2>2. "count" \in Pcs \ {"idle"} /\ "count" \in Holding /\ "count" \notin Writing
    BY DEF Pcs, Holding, Guarded, Writing
  <2>3. ContextOK(x.tc, born', prs') /\ x.target <= Len(prs') /\ x.target \in Nat
    BY <1>2, <2>1 DEF JobOK
  <2> HIDE DEF jobs
  <2> QED
    BY <1>2, <1>4, <2>1, <2>2, <2>3, JobGoesOn DEF jobs
<1>6. CASE root \in Tracked(mem)
  <2> PICK old : old = mem.byId[root]
    OBVIOUS
  <2>1. ContextOK(old, born, prs) /\ old.root = root /\ old \in Context
    BY <1>3, <1>6, TrackedIs DEF MemoryOK
  <2> PICK target \in 1..Len(prs) : target = x.target
    BY <1>2
  <2> PICK c : c = [old EXCEPT !.noteUrl = target]
    BY Zenon
  <2>2. c \in [root : {old.root}, notes : {old.notes}, noteUrl : {target}, curated : {old.curated},
               at : {old.at}, inc : {old.inc}]
    BY <2>1, Zenon DEF Context
  <2>3. /\ c.root = root /\ c.inc = old.inc /\ c.notes = old.notes /\ c.noteUrl = x.target
        /\ c.at = old.at /\ c.curated = old.curated /\ c \in Context
    <3>1. c.root = old.root
      BY <2>2, Zenon
    <3>2. c.root = root
      BY <2>1, <3>1, Zenon
    <3>3. c.inc = old.inc /\ c.notes = old.notes /\ c.noteUrl = target /\ c.at = old.at /\ c.curated = old.curated
      BY <2>2, Zenon
    <3>4. target \in Nat
      BY <1>2a, Zenon
    <3>5. c \in Context
      BY <2>1, <2>2, <3>4, Zenon DEF Context
    <3> QED
      BY <3>2, <3>3, <3>5, Zenon
  <2>4. Store(x.at, mem, c) /\ prs' = prs
    BY <1>6, Zenon DEF WriteBack
  <2>5. ForgeTyped' /\ Grown(born, born', prs, prs')
    BY <1>1, <2>4, ForgeStays, Zenon
  <2>6. ContextOK(c, born, prs)
    <3>1. old.inc \in 1..Len(born) /\ born[old.inc].root = old.root /\ old.curated <= Len(prs)
      BY <2>1, Zenon DEF ContextOK
    <3>2. c.noteUrl <= Len(prs)
      BY <1>2a, <2>3, Zenon
    <3> QED
      BY <2>1, <2>3, <3>1, <3>2, Zenon DEF ContextOK
  <2>7. RegistriesTyped' /\ FileTyped'
    BY <1>1, <1>3, <2>4, <2>5, <2>6, Stored, Zenon
  <2>8. Turns(w, jobs)
    <3> HIDE DEF jobs
    <3> QED
      BY <1>1, <1>3, <1>4, <1>5, <2>5, <2>7, TurnsFrom, Zenon
  <2> HIDE DEF jobs, mem
  <2> QED
    BY <1>1, <1>6, <2>3, <2>4, <2>8, Zenon DEF jobs, mem
<1>7. CASE root \notin Tracked(mem)
  <2> PICK pr : pr = [prs[x.target] EXCEPT !.orphan = TRUE]
    BY Zenon
  <2>1. prs[x.target] \in Pull(Len(born)) /\ prs \in Seq(Pull(Len(born)))
    BY <1>2 DEF Typed, ForgeTyped
  <2>2. pr \in Pull(Len(born)) /\ pr.inc = prs[x.target].inc /\ pr.open = prs[x.target].open /\ pr.orphan
    BY <2>1, Zenon DEF Pull
  <2>3. prs' = [prs EXCEPT ![x.target] = pr] /\ NoStore
    BY <1>7 DEF WriteBack
  <2>4. /\ prs' \in Seq(Pull(Len(born))) /\ Len(prs') = Len(prs) /\ Len(prs) <= Len(prs')
        /\ prs'[x.target] = pr /\ \A m \in 1..Len(prs) : m # x.target => prs'[m] = prs[m]
    BY <1>2, <2>2, <2>3, PullReplaced, Zenon
  <2>5. PullOrphaned(x.target)
    BY <2>2, <2>4, Zenon DEF PullOrphaned
  <2>6. ForgeTyped' /\ Grown(born, born', prs, prs')
    BY <1>1, <2>4, PullsChange
  <2>7. RegistriesTyped' /\ FileTyped'
    BY <1>1, <2>3, <2>6, NotStored, NoFaultTyped DEF NoStore
  <2>8. Turns(w, jobs)
    <3> HIDE DEF jobs
    <3> QED
      BY <1>1, <1>3, <1>4, <1>5, <2>6, <2>7, TurnsFrom, Zenon
  <2> QED
    BY <1>1, <1>7, <2>3, <2>5, <2>8, Zenon
<1> QED
  BY <1>6, <1>7, Zenon

\* A note on the forge is not counted for the i-th birth, and never will be.
CountLost(i) ==
    /\ Len(born') = Len(born)
    /\ \A j \in 1..Len(born) :
          born'[j] \in [root : {born[j].root}, landed : {born[j].landed},
                        lost : {IF j = i THEN born[j].lost + 1 ELSE born[j].lost}]

\* The record of an update: one note more.
LEMMA CountTurns ==
    ASSUME Typed, NEW w \in Workers, Count(w)
    PROVE  LET x == work[w]
               mem == memory[x.at]
               root == x.tc.root
           IN /\ Turns(w, Jobs(x, "unlock", x.tc, x.lock, x.target, x.token, x.chat))
              /\ prs' = prs
              /\ \/ /\ root \in Tracked(mem) /\ born' = born
                    /\ \E c \in Context : /\ c.root = root /\ c.inc = mem.byId[root].inc /\ c.notes = mem.byId[root].notes + 1
                                          /\ c.noteUrl = mem.byId[root].noteUrl /\ c.at = mem.byId[root].at
                                          /\ Store(x.at, mem, c)
                 \/ root \notin Tracked(mem) /\ NoStore /\ CountLost(x.tc.inc)
<1> DEFINE x == work[w]
           mem == memory[x.at]
           root == x.tc.root
           jobs == Jobs(x, "unlock", x.tc, x.lock, x.target, x.token, x.chat)
<1>1. /\ scene' = scene /\ clock' = clock /\ active' = active /\ prs' = prs /\ chats' = chats
      /\ writeLocks' = writeLocks /\ locks' = locks
  BY Zenon DEF Count, chatting
<1>2. /\ x.pc = "count" /\ x \in Work /\ work \in [Workers -> Work] /\ x.at \in Processes /\ x.tc.inc \in 1..Len(born)
      /\ JobOK(x, born, prs) /\ x.lock \in 0..Slots /\ x.token \in Nat /\ x.chat \in Nat
      /\ x.lock # 0 /\ x.token = 0 /\ work' = [work EXCEPT ![w].pc = "unlock"]
  BY AtWork, Zenon DEF Count, JobOK, Holding, Guarded, Writing, ContextOK
<1>3. MemoryOK(mem, scene.maxLive, born, prs) /\ LocksTyped' /\ chats' \in Seq(Call)
  BY <1>1, <1>2, LocksStay DEF Typed, RegistriesTyped
<1> PICK y : y = [x EXCEPT !.pc = "unlock"]
  BY Zenon
<1>4. work' = [work EXCEPT ![w] = y] /\ y \in jobs
  BY <1>2, JobForms, Zenon
<1>5. ASSUME ForgeTyped', Grown(born, born', prs, prs') PROVE JobOK(y, born', prs')
  <2>1. JobOK(x, born', prs')
    BY <1>2, <1>5, GrownJob DEF Typed, ForgeTyped
  <2>2. "unlock" \in Pcs \ {"idle"} /\ "unlock" \in Holding /\ "unlock" \notin Writing
    BY DEF Pcs, Holding, Guarded, Writing
  <2>3. ContextOK(x.tc, born', prs') /\ x.target <= Len(prs') /\ x.target \in Nat
    BY <1>2, <2>1 DEF JobOK, Work
  <2> HIDE DEF jobs
  <2> QED
    BY <1>2, <1>4, <2>1, <2>2, <2>3, JobGoesOn DEF jobs
<1>6. CASE root \in Tracked(mem)
  <2> PICK old : old = mem.byId[root]
    OBVIOUS
  <2>1. ContextOK(old, born, prs) /\ old.root = root /\ old \in Context
    BY <1>3, <1>6, TrackedIs DEF MemoryOK
  <2>9. old.notes \in Nat
    BY <2>1, Zenon DEF Context
  <2> PICK notes \in Nat : notes = old.notes + 1
    BY <2>9
  <2> PICK c : c = [old EXCEPT !.notes = notes]
    BY Zenon
  <2>2. c \in [root : {old.root}, notes : {notes}, noteUrl : {old.noteUrl}, curated : {old.curated},
               at : {old.at}, inc : {old.inc}]
    BY <2>1, Zenon DEF Context
  <2>3. /\ c.root = root /\ c.inc = old.inc /\ c.notes = old.notes + 1 /\ c.noteUrl = old.noteUrl
        /\ c.at = old.at /\ c.curated = old.curated /\ c \in Context
    <3>1. c.root = old.root
      BY <2>2, Zenon
    <3>2. c.root = root
      BY <2>1, <3>1, Zenon
    <3>3. c.inc = old.inc /\ c.notes = notes /\ c.noteUrl = old.noteUrl /\ c.at = old.at /\ c.curated = old.curated
      BY <2>2, Zenon
    <3>4. c \in Context
      BY <2>1, <2>2, Zenon DEF Context
    <3> QED
      BY <3>2, <3>3, <3>4, Zenon
  <2>4. Store(x.at, mem, c) /\ born' = born
    BY <1>6, Zenon DEF Count
  <2>5. ForgeTyped' /\ Grown(born, born', prs, prs')
    BY <1>1, <2>4, ForgeStays, Zenon
  <2>6. ContextOK(c, born, prs)
    BY <2>1, <2>3, Zenon DEF ContextOK
  <2>7. RegistriesTyped' /\ FileTyped'
    <3>1. ContextOK(c, born', prs')
      BY <1>1, <2>4, <2>6, Zenon
    <3> HIDE DEF mem
    <3> QED
      BY <1>1, <1>3, <2>4, <2>5, <3>1, Stored, Zenon
  <2>8. Turns(w, jobs)
    <3> HIDE DEF jobs
    <3> QED
      BY <1>1, <1>3, <1>4, <1>5, <2>5, <2>7, TurnsFrom, Zenon
  <2> HIDE DEF jobs, mem
  <2> QED
    BY <1>1, <1>6, <2>3, <2>4, <2>8, Zenon DEF jobs, mem
<1>7. CASE root \notin Tracked(mem)
  <2> PICK i \in 1..Len(born) : i = x.tc.inc
    BY <1>2
  <2>1. born \in Seq(Birth) /\ born[i] \in Birth /\ DOMAIN born = 1..Len(born) /\ Len(born) \in Nat
    BY DEF Typed, ForgeTyped
  <2> PICK lost : lost = born[i].lost + 1
    OBVIOUS
  <2>9. PICK b : b = [born[i] EXCEPT !.lost = lost]
    BY Zenon
  <2>2. b \in [root : {born[i].root}, landed : {born[i].landed}, lost : {lost}]
    BY <2>1, <2>9, Zenon DEF Birth
  <2>3. b \in Birth /\ b.root = born[i].root
    BY <2>1, <2>2 DEF Birth
  <2>4. born' = [born EXCEPT ![i] = b] /\ NoStore
    BY <1>7, <2>1, <2>9 DEF Count
  <2>5. /\ ForgeTyped' /\ Grown(born, born', prs, prs') /\ Len(born') = Len(born)
        /\ born'[i] = b /\ \A j \in 1..Len(born) : j # i => born'[j] = born[j]
    <3>1. prs' \in Seq(Pull(Len(born))) /\ Len(prs) <= Len(prs')
      BY <1>1 DEF Typed, ForgeTyped
    <3> HIDE DEF x, mem, jobs
    <3> QED
      BY <2>3, <2>4, <3>1, BirthChanges, Zenon
  <2>6. CountLost(x.tc.inc)
    <3>1. ASSUME NEW j \in 1..Len(born)
          PROVE  born[j] \in [root : {born[j].root}, landed : {born[j].landed}, lost : {born[j].lost}]
      <4> PICK e \in Birth : e = born[j]
        BY <2>1
      <4>1. e \in [root : {e.root}, landed : {e.landed}, lost : {e.lost}]
        BY DEF Birth
      <4> QED
        BY <4>1
    <3> QED
      BY <2>2, <2>5, <3>1 DEF CountLost
  <2>7. RegistriesTyped' /\ FileTyped'
    BY <1>1, <2>4, <2>5, NotStored, NoFaultTyped DEF NoStore
  <2>8. Turns(w, jobs)
    <3> HIDE DEF jobs
    <3> QED
      BY <1>1, <1>3, <1>4, <1>5, <2>5, <2>7, TurnsFrom, Zenon
  <2> QED
    BY <1>1, <1>7, <2>4, <2>6, <2>8, Zenon
<1> QED
  BY <1>6, <1>7, Zenon

-----------------------------------------------------------------------------
(* A message arrives.                                                      *)

\* What a goroutine may begin with, for a context.
Starts(c, key) ==
    [pc : {"chat", "lockRoot"}, at : {active}, key : {key}, tc : {c}, lock : {0}, target : {NoPR},
     token : {0}, chat : {0}]

\* It is a job.
LEMMA StartsOK ==
    ASSUME Typed, NEW c, NEW bn, NEW ps, ContextOK(c, bn, ps), Len(ps) \in Nat, NEW key \in Keys, NEW y \in Starts(c, key)
    PROVE  JobOK(y, bn, ps)
<1>1. /\ y.pc \in {"chat", "lockRoot"} /\ y.at = active /\ y.key = key /\ y.tc = c /\ y.lock = 0 /\ y.target = NoPR
      /\ y.token = 0 /\ y.chat = 0
  BY DEF Starts
<1>2. c \in Context /\ active \in Processes /\ 0 \in 0..Slots /\ {"chat", "lockRoot"} \subseteq Pcs
  BY Bounds DEF ContextOK, Typed, Pcs
<1>3. y \in Work
  BY <1>2 DEF Starts, Work, NoPR
<1>4. y.pc # "idle" /\ y.pc \notin Writing /\ y.pc \notin Holding /\ y.target <= Len(ps)
  BY <1>1 DEF Writing, Holding, Guarded, NoPR
<1> QED
  BY <1>1, <1>2, <1>3, <1>4 DEF JobOK

\* Where a message goes.
LEMMA HandleIs == ASSUME NEW m PROVE Handle(m) \in {"chat", "silence", "lockRoot", "reply"}
BY DEF Handle

\* A goroutine that begins.
LEMMA StartForm ==
    ASSUME NEW c, NEW key, NEW pc \in {"chat", "lockRoot"}
    PROVE  [NoWork EXCEPT !.pc = pc, !.at = active, !.key = key, !.tc = c] \in Starts(c, key)
BY Zenon DEF NoWork, Starts

\* The three ways a message is taken.
LEMMA MentionTurns ==
    ASSUME Typed, NEW w \in Workers, NEW root \in scene.roots, NEW m, NEW key \in Keys, HandleMention(w, root, m, key)
    PROVE  LET mem == expireLocked(memory[active])
           IN /\ work[w].pc = "idle" /\ prs' = prs
              /\ \/ /\ root \in Tracked(mem) /\ memory' = [memory EXCEPT ![active] = mem]
                    /\ born' = born /\ file' = file /\ torn' = torn /\ failures' = failures
                    /\ Turns(w, {NoWork} \cup Starts(mem.byId[root], key))
                 \/ /\ root \notin Tracked(mem) /\ Store(active, mem, NewContext(root, NoPR)) /\ born' = Born(root)
                    /\ Turns(w, {NoWork} \cup Starts(NewContext(root, NoPR), key))
                 \/ /\ memory' = [memory EXCEPT ![active] = mem]
                    /\ born' = born /\ file' = file /\ torn' = torn /\ failures' = failures
                    /\ Turns(w, {NoWork})
<1> PICK mem : mem = expireLocked(memory[active])
  OBVIOUS
<1> PICK pc : pc = Handle(m)
  OBVIOUS
<1> DEFINE start(c) == IF pc \in {"reply", "silence"} THEN NoWork
                       ELSE [NoWork EXCEPT !.pc = pc, !.at = active, !.key = key, !.tc = c]
<1>1. /\ scene' = scene /\ clock' = clock /\ active' = active /\ prs' = prs /\ chats' = chats
      /\ writeLocks' = writeLocks /\ locks' = locks
  BY DEF HandleMention
<1>2. /\ work[w].pc = "idle" /\ root \in Roots /\ work \in [Workers -> Work] /\ active \in Processes
      /\ Len(prs) \in Nat /\ prs \in Seq(Pull(Len(born))) /\ scene.maxLive \in Nat
  <2>1. scene \in Scenes /\ active \in Processes /\ ForgeTyped
    BY DEF Typed
  <2>2. scene.roots \subseteq Roots /\ scene.maxLive \in Nat
    BY <2>1, Bounds
  <2>3. work[w].pc = "idle"
    BY DEF HandleMention
  <2>4. Len(prs) \in Nat /\ prs \in Seq(Pull(Len(born)))
    BY <2>1 DEF ForgeTyped
  <2> QED
    BY <2>1, <2>2, <2>3, <2>4, AtWork
<1>3. MemoryOK(mem, scene.maxLive, born, prs) /\ LocksTyped' /\ chats' \in Seq(Call)
  BY <1>1, <1>2, LocksStay, ExpiredMemory DEF Typed, RegistriesTyped
<1>4. ASSUME NEW c PROVE start(c) \in {NoWork} \cup Starts(c, key)
  <2>1. pc \notin {"reply", "silence"} => pc \in {"chat", "lockRoot"}
    BY HandleIs
  <2> QED
    BY <2>1, StartForm, Zenon
<1>5. ASSUME NEW c, ContextOK(c, born', prs'), NEW y \in {NoWork} \cup Starts(c, key) PROVE JobOK(y, born', prs')
  BY <1>1, <1>2, <1>5, NoJob, StartsOK
<1>6. ASSUME memory' = [memory EXCEPT ![active] = mem], born' = born, file' = file, torn' = torn, failures' = failures
      PROVE  ForgeTyped' /\ Grown(born, born', prs, prs') /\ RegistriesTyped' /\ FileTyped'
  <2>1. ForgeTyped' /\ Grown(born, born', prs, prs')
    BY <1>1, <1>6, ForgeStays
  <2>2. MemoryOK(mem, scene.maxLive, born', prs')
    BY <1>1, <1>3, <1>6
  <2>3. torn' \in BOOLEAN /\ failures' \in Seq(Kinds)
    BY <1>6 DEF Typed, FileTyped
  <2> QED
    BY <1>1, <1>6, <2>1, <2>2, <2>3, RegistriesChange, FileStays, Zenon
<1>7. CASE /\ root \in Tracked(mem) /\ memory' = [memory EXCEPT ![active] = mem]
           /\ born' = born /\ file' = file /\ torn' = torn /\ failures' = failures
           /\ work' = [work EXCEPT ![w] = start(mem.byId[root])]
  <2> PICK c : c = mem.byId[root]
    OBVIOUS
  <2> PICK y : y = start(c)
    OBVIOUS
  <2>1. ContextOK(c, born', prs')
    BY <1>1, <1>3, <1>7 DEF MemoryOK
  <2>2. y \in {NoWork} \cup Starts(c, key) /\ work' = [work EXCEPT ![w] = y]
    BY <1>4, <1>7, Zenon
  <2> DEFINE next == {NoWork} \cup Starts(c, key)
  <2>3. Turns(w, next)
    <3>1. JobOK(y, born', prs')
      BY <1>5, <2>1, <2>2
    <3>2. ForgeTyped' /\ Grown(born, born', prs, prs') /\ RegistriesTyped' /\ FileTyped'
      BY <1>6, <1>7
    <3>3. y \in next
      BY <2>2
    <3> HIDE DEF next, start
    <3> QED
      BY <1>1, <1>3, <2>2, <3>1, <3>2, <3>3, TurnsFrom, Zenon
  <2> QED
    BY <1>1, <1>2, <1>7, <2>3
<1>8. CASE /\ root \notin Tracked(mem) /\ Store(active, mem, NewContext(root, NoPR)) /\ born' = Born(root)
           /\ work' = [work EXCEPT ![w] = start(NewContext(root, NoPR))]
  <2> PICK c : c = NewContext(root, NoPR)
    OBVIOUS
  <2> PICK y : y = start(c)
    OBVIOUS
  <2>1. ForgeTyped' /\ Grown(born, born', prs, prs') /\ ContextOK(c, born', prs')
    <3>1. NoPR \in 0..Len(prs) /\ Len(prs) <= Len(prs)
      BY <1>2 DEF NoPR
    <3> QED
      BY <1>1, <1>2, <1>8, <3>1, Births, Zenon
  <2>2. y \in {NoWork} \cup Starts(c, key) /\ work' = [work EXCEPT ![w] = y]
    BY <1>4, <1>8, Zenon
  <2> DEFINE next == {NoWork} \cup Starts(c, key)
  <2>3. Turns(w, next)
    <3>1. JobOK(y, born', prs')
      BY <1>5, <2>1, <2>2
    <3>2. RegistriesTyped' /\ FileTyped'
      BY <1>1, <1>3, <1>8, <2>1, Stored
    <3>3. y \in next
      BY <2>2
    <3> HIDE DEF next, start
    <3> QED
      BY <1>1, <1>3, <2>1, <2>2, <3>1, <3>2, <3>3, TurnsFrom, Zenon
  <2> QED
    BY <1>1, <1>2, <1>8, <2>3
<1>9. CASE /\ memory' = [memory EXCEPT ![active] = mem] /\ work' = work
           /\ born' = born /\ file' = file /\ torn' = torn /\ failures' = failures
  <2>1. work[w] = NoWork
    BY <1>2, AtWork DEF JobOK
  <2>2. work' = [work EXCEPT ![w] = NoWork]
    BY <1>2, <1>9, <2>1
  <2>3. ForgeTyped' /\ Grown(born, born', prs, prs') /\ RegistriesTyped' /\ FileTyped'
    BY <1>6, <1>9
  <2>4. Turns(w, {NoWork})
    BY <1>1, <1>3, <2>2, <2>3, NoJob, TurnsFrom, Zenon
  <2> QED
    BY <1>1, <1>2, <1>9, <2>4
<1> QED
  <2> HIDE DEF start
  <2> QED
    BY <1>7, <1>8, <1>9 DEF HandleMention, NoFault, start

-----------------------------------------------------------------------------
(* The environment.                                                        *)

\* Every goroutine goes on with what it was doing.
LEMMA IdleTyped ==
    ASSUME Typed, scene' = scene, clock' \in Nat, active' \in Processes, chats' \in Seq(Call), work' = work,
           writeLocks' = writeLocks, locks' = locks,
           ForgeTyped', Grown(born, born', prs, prs'), RegistriesTyped', FileTyped'
    PROVE  Typed'
BY JobsStay, LocksStay DEF Typed

\* A finding is delivered.
LEMMA RegisterTyped ==
    ASSUME Typed, NEW root \in Roots, NEW curated \in BOOLEAN, Register(root, curated)
    PROVE  /\ Typed' /\ Grown(born, born', prs, prs') /\ work' = work
           /\ \E url \in 0..Len(prs') : Store(active, memory[active], NewContext(root, url))
           /\ born' = Born(root)
           /\ \A n \in 1..Len(prs) : prs'[n] = prs[n]
           /\ \A n \in 1..Len(prs') : n \notin 1..Len(prs) => prs'[n].inc = 0
<1> DEFINE pr == [inc |-> 0, open |-> TRUE, entry |-> <<>>, comments |-> <<>>, orphan |-> FALSE]
<1>1. /\ scene' = scene /\ clock' = clock /\ active' = active /\ chats' = chats /\ work' = work
      /\ writeLocks' = writeLocks /\ locks' = locks /\ born' = Born(root)
  BY DEF Register, chatting
<1>2. prs \in Seq(Pull(Len(born))) /\ Len(prs) \in Nat /\ born \in Seq(Birth) /\ Len(born) \in Nat
  BY DEF Typed, ForgeTyped
<1>3. /\ prs' \in Seq(Pull(Len(born))) /\ Len(prs') \in Nat /\ Len(prs) <= Len(prs')
      /\ \A n \in 1..Len(prs) : prs'[n] = prs[n]
      /\ \A n \in 1..Len(prs') : n \notin 1..Len(prs) => prs'[n].inc = 0
  <2>1. CASE prs' = prs
    BY <1>2, <2>1
  <2>2. CASE prs' = Append(prs, pr)
    <3>1. <<>> \in Seq(Keys) /\ 0 \in 0..Len(born)
      BY <1>2
    <3>2. pr \in Pull(Len(born)) /\ pr.inc = 0
      BY <3>1 DEF Pull
    <3> HIDE DEF pr
    <3>3. /\ prs' \in Seq(Pull(Len(born))) /\ Len(prs') = Len(prs) + 1 /\ prs'[Len(prs) + 1] = pr
          /\ \A n \in 1..Len(prs) : prs'[n] = prs[n]
      BY <1>2, <2>2, <3>2
    <3>4. \A n \in 1..Len(prs') : n \notin 1..Len(prs) => n = Len(prs) + 1
      BY <1>2, <3>3
    <3> QED
      BY <1>2, <3>2, <3>3, <3>4
  <2> QED
    BY <2>1, <2>2 DEF Register
<1>4. PICK url : url = IF curated THEN Len(prs') ELSE NoPR
  BY Zenon
<1>5. url \in 0..Len(prs') /\ Store(active, memory[active], NewContext(root, url))
  BY <1>3, <1>4 DEF Register, NoPR
<1>6. PICK ps \in Seq(Pull(Len(born))) : ps = prs'
  BY <1>3
<1>7. ForgeTyped' /\ Grown(born, born', prs, prs') /\ ContextOK(NewContext(root, url), born', prs')
  BY <1>1, <1>3, <1>5, <1>6, Births
<1>8. MemoryOK(memory[active], scene.maxLive, born, prs)
  BY DEF Typed, RegistriesTyped
<1>9. RegistriesTyped' /\ FileTyped'
  BY <1>1, <1>5, <1>7, <1>8, Stored
<1>10. Typed'
  BY <1>1, <1>7, <1>9, IdleTyped DEF Typed
<1> QED
  BY <1>1, <1>3, <1>5, <1>7, <1>10

\* A pull request is merged or closed.
LEMMA CloseTyped ==
    ASSUME Typed, NEW n \in DOMAIN prs, Close(n)
    PROVE  /\ Typed' /\ Grown(born, born', prs, prs') /\ Len(prs') = Len(prs) /\ ~ prs'[n].open
           /\ \A m \in 1..Len(prs) : /\ prs'[m].inc = prs[m].inc /\ prs'[m].orphan = prs[m].orphan
                                     /\ m # n => prs'[m].open = prs[m].open
<1>1. /\ scene' = scene /\ clock' = clock /\ active' = active /\ chats' = chats /\ work' = work
      /\ writeLocks' = writeLocks /\ locks' = locks /\ born' = born /\ memory' = memory /\ file' = file /\ torn' = torn
      /\ failures' = failures
  BY DEF Close, chatting
<1>2. prs \in Seq(Pull(Len(born))) /\ n \in 1..Len(prs) /\ prs[n] \in Pull(Len(born))
  BY DEF Typed, ForgeTyped
<1> PICK pr : pr = [prs[n] EXCEPT !.open = FALSE]
  BY Zenon
<1>3. pr \in Pull(Len(born)) /\ pr.inc = prs[n].inc /\ pr.orphan = prs[n].orphan /\ ~ pr.open
  BY <1>2, Zenon DEF Pull
<1>4. prs' = [prs EXCEPT ![n] = pr]
  BY DEF Close
<1>5. /\ prs' \in Seq(Pull(Len(born))) /\ Len(prs') = Len(prs) /\ Len(prs) <= Len(prs')
      /\ prs'[n] = pr /\ \A m \in 1..Len(prs) : m # n => prs'[m] = prs[m]
  BY <1>2, <1>3, <1>4, PullReplaced
<1>6. ForgeTyped' /\ Grown(born, born', prs, prs')
  BY <1>1, <1>5, PullsChange
<1>7. failures \in Seq(Kinds) /\ clock \in Nat /\ active \in Processes /\ chats \in Seq(Call)
  BY DEF Typed, FileTyped
<1>8. Typed'
  BY <1>1, <1>6, <1>7, NotStored, IdleTyped
<1> QED
  BY <1>3, <1>5, <1>6, <1>8, Zenon

\* Time passes, the budget and the window slide, the Lease moves.
LEMMA TimeTyped ==
    ASSUME Typed, Tick \/ Slide \/ ChatSlide \/ \E p \in Processes : Failover(p)
    PROVE  /\ Typed' /\ work' = work /\ born' = born /\ prs' = prs /\ memory' = memory /\ file' = file /\ torn' = torn
           /\ writeLocks' = writeLocks /\ locks' = locks /\ scene' = scene
<1>1. /\ scene' = scene /\ chats' = chats /\ work' = work
      /\ writeLocks' = writeLocks /\ locks' = locks /\ born' = born /\ memory' = memory /\ file' = file /\ torn' = torn
      /\ prs' = prs
  BY DEF Tick, Slide, ChatSlide, Failover, chatting, ChatUnchanged
<1>2. clock \in Nat /\ active \in Processes /\ chats \in Seq(Call) /\ failures \in Seq(Kinds)
  BY DEF Typed, FileTyped
<1>3. clock' \in Nat
  BY <1>2 DEF Tick, Slide, ChatSlide, Failover, ChatUnchanged
<1>4. active' \in Processes
  BY <1>2 DEF Tick, Slide, ChatSlide, Failover, ChatUnchanged
<1>5. failures' \in Seq(Kinds)
  <2>1. CASE failures' = failures
    BY <1>2, <2>1
  <2>2. CASE Fault("failover")
    BY <2>2, FaultTyped
  <2> QED
    BY <2>1, <2>2 DEF Tick, Slide, ChatSlide, Failover, ChatUnchanged
<1>6. ForgeTyped' /\ Grown(born, born', prs, prs')
  BY <1>1, ForgeStays
<1>7. Typed'
  BY <1>1, <1>2, <1>3, <1>4, <1>5, <1>6, NotStored, IdleTyped
<1> QED
  BY <1>1, <1>7

\* What the goroutines of a process are doing.
Mine(p) == {w \in Workers : work[w].pc # "idle" /\ work[w].at = p}

\* What a restart leaves of the births and the pull requests.
BirthsSurvive(p) ==
    /\ Len(born') = Len(born)
    /\ \A i \in 1..Len(born) :
          /\ born'[i].root = born[i].root /\ born'[i].landed = born[i].landed
          /\ born'[i].lost = IF \E c \in {Replayed.byId[r] : r \in Tracked(Replayed)} : c.inc = i
                             THEN born[i].lost + Cardinality({w \in Mine(p) : work[w].tc.inc = i /\ work[w].pc \in Landed})
                             ELSE born[i].lost

PullsSurvive(p) ==
    /\ Len(prs') = Len(prs)
    /\ \A n \in 1..Len(prs) :
          /\ prs'[n].inc = prs[n].inc /\ prs'[n].open = prs[n].open
          /\ prs'[n].orphan = (prs[n].orphan \/ \E w \in Mine(p) : work[w].pc = "writeBack" /\ work[w].target = n)

\* They are births and pull requests.
LEMMA RestartForge ==
    ASSUME Typed, NEW p \in Processes, NEW tear \in BOOLEAN, Restart(p, tear)
    PROVE  BirthsSurvive(p) /\ PullsSurvive(p) /\ ForgeTyped' /\ Grown(born, born', prs, prs')
<1>1. born \in Seq(Birth) /\ Len(born) \in Nat /\ prs \in Seq(Pull(Len(born))) /\ Len(prs) \in Nat
  BY DEF Typed, ForgeTyped
<1> DEFINE known(i) == \E c \in {Replayed.byId[r] : r \in Tracked(Replayed)} : c.inc = i
           left(i) == Cardinality({w \in Mine(p) : work[w].tc.inc = i /\ work[w].pc \in Landed})
           lost(n) == \E w \in Mine(p) : work[w].pc = "writeBack" /\ work[w].target = n
<1>2. born' = [i \in DOMAIN born |-> [born[i] EXCEPT !.lost = IF known(i) THEN @ + left(i) ELSE @]]
  BY DEF Restart, Mine, Landed
<1>3. prs' = [n \in DOMAIN prs |-> [prs[n] EXCEPT !.orphan = @ \/ lost(n)]]
  BY DEF Restart, Mine
<1>4. ASSUME NEW i PROVE left(i) \in Nat
  BY Bounds, FS_Subset, FS_CardinalityType DEF Mine
<1> HIDE DEF known, left, lost
<1>5. ASSUME NEW i \in 1..Len(born)
      PROVE  /\ born'[i] \in Birth /\ born'[i].root = born[i].root /\ born'[i].landed = born[i].landed
             /\ born'[i].lost = IF known(i) THEN born[i].lost + left(i) ELSE born[i].lost
  <2> PICK b \in Birth : b = born[i]
    BY <1>1
  <2>1. b.lost \in Nat /\ left(i) \in Nat
    BY <1>4 DEF Birth
  <2> PICK l \in Nat : l = IF known(i) THEN b.lost + left(i) ELSE b.lost
    BY <2>1
  <2>2. i \in DOMAIN born
    BY <1>1
  <2>3. born'[i] = [b EXCEPT !.lost = l]
    BY <1>2, <2>2
  <2>4. [b EXCEPT !.lost = l] \in [root : {b.root}, landed : {b.landed}, lost : {l}]
    BY DEF Birth
  <2> PICK e : e = born'[i]
    OBVIOUS
  <2>5. e \in [root : {b.root}, landed : {b.landed}, lost : {l}]
    BY <2>3, <2>4
  <2>6. e \in Birth /\ e.root = b.root /\ e.landed = b.landed /\ e.lost = l
    BY <2>5 DEF Birth
  <2> QED
    BY <2>6
<1>6. ASSUME NEW n \in 1..Len(prs)
      PROVE  /\ prs'[n] \in Pull(Len(born)) /\ prs'[n].inc = prs[n].inc /\ prs'[n].open = prs[n].open
             /\ prs'[n].orphan = (prs[n].orphan \/ lost(n))
  <2> PICK pr \in Pull(Len(born)) : pr = prs[n]
    BY <1>1
  <2> PICK o \in BOOLEAN : o = (pr.orphan \/ lost(n))
    BY Zenon DEF Pull
  <2>1. n \in DOMAIN prs
    BY <1>1
  <2>2. prs'[n] = [pr EXCEPT !.orphan = o]
    BY <1>3, <2>1
  <2>3. [pr EXCEPT !.orphan = o] \in Pull(Len(born)) /\ [pr EXCEPT !.orphan = o].inc = pr.inc
        /\ [pr EXCEPT !.orphan = o].open = pr.open /\ [pr EXCEPT !.orphan = o].orphan = o
    BY Zenon DEF Pull
  <2> QED
    BY <2>2, <2>3
<1>7. born' \in Seq(Birth) /\ Len(born') = Len(born)
  <2>1. DOMAIN born' = 1..Len(born) /\ born' = [i \in 1..Len(born) |-> born'[i]]
    BY <1>1, <1>2
  <2>2. born' \in [1..Len(born) -> Birth]
    BY <1>5, <2>1
  <2> QED
    BY <1>1, <2>1, <2>2
<1>8. prs' \in Seq(Pull(Len(born))) /\ Len(prs') = Len(prs)
  <2>1. DOMAIN prs' = 1..Len(prs) /\ prs' = [n \in 1..Len(prs) |-> prs'[n]]
    BY <1>1, <1>3
  <2>2. prs' \in [1..Len(prs) -> Pull(Len(born))]
    BY <1>6, <2>1
  <2> QED
    BY <1>1, <2>1, <2>2
<1>9. BirthsSurvive(p)
  BY <1>5, <1>7, Zenon DEF BirthsSurvive, known, left
<1>10. PullsSurvive(p)
  BY <1>6, <1>8 DEF PullsSurvive, lost
<1>11. ForgeTyped'
  BY <1>7, <1>8 DEF ForgeTyped
<1>12. Grown(born, born', prs, prs')
  BY <1>1, <1>5, <1>7, <1>8 DEF Grown
<1> QED
  BY <1>9, <1>10, <1>11, <1>12

\* Who uses a guard works for the process and the root it was made for.
LEMMA GuardOf ==
    ASSUME Typed, LocksOK, NEW v \in Workers, NEW w \in Workers, work[v].lock # 0, work[v].lock = work[w].lock
    PROVE  /\ work[v].at = work[w].at /\ work[v].tc.root = work[w].tc.root
           /\ work[v].pc # "idle" /\ work[w].pc # "idle" /\ work[v].at \in Processes
<1>1. work[v].pc # "idle" /\ work[w].pc # "idle"
  BY AtWork DEF JobOK, NoWork
<1>2. /\ work[v].at \in Processes /\ work[w].at \in Processes
      /\ work[v].tc.root \in Roots /\ work[w].tc.root \in Roots
  BY <1>1, AtWork
<1>3. /\ writeLocks[work[v].at][work[v].tc.root] = work[v].lock
      /\ writeLocks[work[w].at][work[w].tc.root] = work[v].lock
  BY DEF LocksOK
<1> QED
  BY <1>1, <1>2, <1>3 DEF LocksOK

\* What a restart leaves of the registry: what the file says.
RegistrySurvives(p) ==
    /\ memory' = [memory EXCEPT ![p] = Replayed]
    /\ file' = file \/ file' = Compacted(Replayed)

\* What it leaves of the goroutines.
WorkSurvives(p) ==
    \A w \in Workers : work'[w] = IF w \in Mine(p) THEN NoWork ELSE work[w]

\* A process dies and starts again.
LEMMA RestartTyped ==
    ASSUME Typed, NEW p \in Processes, NEW tear \in BOOLEAN, Restart(p, tear)
    PROVE  /\ Typed' /\ Grown(born, born', prs, prs') /\ BirthsSurvive(p) /\ PullsSurvive(p)
           /\ RegistrySurvives(p) /\ WorkSurvives(p) /\ MemoryOK(Replayed, scene.maxLive, born, prs)
<1>1. scene' = scene /\ clock' = clock /\ active' = active
  BY DEF Restart
<1>2. BirthsSurvive(p) /\ PullsSurvive(p) /\ ForgeTyped' /\ Grown(born, born', prs, prs')
  BY RestartForge
<1>3. RegistrySurvives(p) /\ WorkSurvives(p)
  BY DEF Restart, RegistrySurvives, WorkSurvives, Mine
<1>4. scene.maxLive \in Nat \ {0}
  BY Bounds DEF Typed
<1>5. MemoryOK(Replayed, scene.maxLive, born, prs)
  BY <1>4, ReplayMemory, ReplayIs, ExpiredMemory DEF Typed, FileTyped, Replayed
<1>6. RegistriesTyped'
  BY <1>1, <1>2, <1>3, <1>5, GrownMemory, RegistriesChange DEF RegistrySurvives
<1>7. FileTyped'
  <2>1. failures' \in Seq(Kinds)
    BY FaultTyped DEF Restart
  <2>2. torn' \in BOOLEAN
    BY DEF Restart, Typed, FileTyped
  <2>3. FileOK(file', born, prs)
    BY <1>3, <1>5, CompactedFile DEF RegistrySurvives, Typed, FileTyped
  <2>4. FileOK(file', born', prs')
    BY <1>2, <2>3, GrownFile
  <2> QED
    BY <2>1, <2>2, <2>4 DEF FileTyped
<1>8. JobsTyped'
  <2>1. work' = [w \in Workers |-> work'[w]]
    BY DEF Restart
  <2>2. ASSUME NEW w \in Workers PROVE JobOK(work'[w], born', prs')
    BY <1>2, <1>3, AtWork, GrownJob, NoJob DEF Typed, ForgeTyped, WorkSurvives
  <2>3. work' \in [Workers -> Work]
    BY <2>1, <2>2 DEF JobOK
  <2> QED
    BY <2>2, <2>3 DEF JobsTyped
<1>9. LocksTyped'
  <2>1. writeLocks \in [Processes -> [Roots -> 0..Slots]] /\ locks \in [1..Slots -> [refs : Nat, held : BOOLEAN]]
    BY DEF Typed, LocksTyped
  <2>2. writeLocks' \in [Processes -> [Roots -> 0..Slots]]
    BY <2>1, Bounds DEF Restart
  <2>3. locks' \in [1..Slots -> [refs : Nat, held : BOOLEAN]]
    BY <2>1 DEF NoLock, Restart, Mine
  <2> QED
    BY <2>2, <2>3 DEF LocksTyped
<1>10. chats' \in Seq(Call)
  <2>1. chats \in Seq(Call) /\ Len(chats) \in Nat /\ DOMAIN chats = 1..Len(chats)
    BY DEF Typed
  <2>2. chats' = [i \in DOMAIN chats |-> IF chats[i].at = p THEN [chats[i] EXCEPT !.state = "forgotten"] ELSE chats[i]]
    BY DEF Restart
  <2>3. ASSUME NEW i \in 1..Len(chats) PROVE chats'[i] \in Call
    <3> PICK c \in Call : c = chats[i]
      BY <2>1
    <3>1. [c EXCEPT !.state = "forgotten"] \in Call
      BY DEF Call
    <3>2. chats'[i] = IF c.at = p THEN [c EXCEPT !.state = "forgotten"] ELSE c
      BY <2>1, <2>2
    <3> QED
      BY <3>1, <3>2
  <2>4. DOMAIN chats' = 1..Len(chats) /\ chats' = [i \in 1..Len(chats) |-> chats'[i]]
    BY <2>1, <2>2
  <2>5. chats' \in [1..Len(chats) -> Call]
    BY <2>3, <2>4
  <2> QED
    BY <2>1, <2>4, <2>5
<1>11. Typed'
  BY <1>1, <1>2, <1>6, <1>7, <1>8, <1>9, <1>10 DEF Typed
<1> QED
  BY <1>2, <1>3, <1>5, <1>11

\* The guards of the process are gone with their users, those of the others are not.
LEMMA RestartLocks ==
    ASSUME Typed, LocksOK, NEW p \in Processes, NEW tear \in BOOLEAN, Restart(p, tear)
    PROVE  LocksOK'
<1>1. writeLocks \in [Processes -> [Roots -> 0..Slots]] /\ locks \in [1..Slots -> [refs : Nat, held : BOOLEAN]]
  BY DEF Typed, LocksTyped
<1>2. ASSUME NEW w \in Workers PROVE work'[w] = IF w \in Mine(p) THEN NoWork ELSE work[w]
  BY RestartTyped DEF WorkSurvives
<1>3. ASSUME NEW q \in Processes, NEW r \in Roots PROVE writeLocks'[q][r] = IF q = p THEN 0 ELSE writeLocks[q][r]
  BY <1>1 DEF Restart
<1>4. ASSUME NEW l \in 1..Slots
      PROVE  locks'[l] = IF \E w \in Mine(p) : work[w].lock = l THEN NoLock ELSE locks[l]
  BY <1>1 DEF Restart, Mine
<1>5. ASSUME NEW l \in 1..Slots PROVE {v \in Workers : work'[v].lock = l} = Users(l) \ Mine(p)
  BY <1>2, Bounds, NoJob DEF Users
<1>6. ASSUME NEW l \in 1..Slots, NEW w \in Mine(p), work[w].lock = l PROVE Users(l) \ Mine(p) = {}
  <2> SUFFICES ASSUME NEW v \in Users(l) PROVE v \in Mine(p)
    OBVIOUS
  <2>1. v \in Workers /\ w \in Workers /\ work[v].lock = l /\ l # 0 /\ work[w].at = p
    BY <1>6, Bounds DEF Users, Mine
  <2> QED
    BY <1>6, <2>1, GuardOf DEF Mine
<1>7. ASSUME NEW l \in 1..Slots, ~ \E w \in Mine(p) : work[w].lock = l PROVE Users(l) \ Mine(p) = Users(l)
  BY <1>7 DEF Users
<1>8. \A v \in Workers : work'[v].lock # 0 => writeLocks'[work'[v].at][work'[v].tc.root] = work'[v].lock
  <2> SUFFICES ASSUME NEW v \in Workers, work'[v].lock # 0
               PROVE  writeLocks'[work'[v].at][work'[v].tc.root] = work'[v].lock
    OBVIOUS
  <2>1. v \notin Mine(p) /\ work'[v] = work[v]
    BY <1>2, NoJob
  <2>2. work[v].lock # 0 /\ writeLocks[work[v].at][work[v].tc.root] = work[v].lock
    BY <2>1 DEF LocksOK
  <2>3. work[v].pc # "idle"
    BY <2>2, GuardOf
  <2>4. work[v].at \in Processes /\ work[v].tc.root \in Roots /\ work[v].at # p
    BY <2>1, <2>3, AtWork DEF Mine
  <2> QED
    BY <1>3, <2>1, <2>2, <2>4
<1>9. \A q, t \in Processes, r, s \in Roots :
          writeLocks'[q][r] # 0 /\ writeLocks'[q][r] = writeLocks'[t][s] => q = t /\ r = s
  BY <1>3 DEF LocksOK
<1>10. ASSUME NEW q \in Processes, NEW r \in Roots, writeLocks'[q][r] # 0
       PROVE  {v \in Workers : work'[v].lock = writeLocks'[q][r]} # {}
  <2> PICK l : l = writeLocks[q][r]
    OBVIOUS
  <2>1. q # p /\ writeLocks'[q][r] = l /\ l # 0 /\ l \in 1..Slots
    BY <1>1, <1>3, <1>10, Bounds
  <2>2. PICK u \in Workers : work[u].lock = l
    BY <2>1 DEF LocksOK, Users
  <2>3. work[u].at = q
    BY <2>1, <2>2, GuardOf, AtWork DEF LocksOK
  <2>4. u \in Users(l) \ Mine(p)
    BY <2>1, <2>2, <2>3 DEF Users, Mine
  <2> QED
    BY <1>5, <2>1, <2>4
<1>11. ASSUME NEW l \in 1..Slots
       PROVE  LET us == {v \in Workers : work'[v].lock = l}
              IN /\ locks'[l].refs = Cardinality(us)
                 /\ locks'[l].held <=> \E v \in us : work'[v].pc \in Guarded
                 /\ \A u, v \in us : work'[u].pc \in Guarded /\ work'[v].pc \in Guarded => u = v
  <2> DEFINE us == {v \in Workers : work'[v].lock = l}
  <2>1. us = Users(l) \ Mine(p)
    BY <1>5
  <2>2. CASE \E w \in Mine(p) : work[w].lock = l
    <3>1. us = {} /\ locks'[l] = NoLock
      BY <1>4, <1>6, <2>1, <2>2
    <3> HIDE DEF us
    <3>2. Cardinality(us) = 0
      BY <3>1, FS_EmptySet
    <3>3. locks'[l].refs = 0 /\ locks'[l].held = FALSE
      BY <3>1 DEF NoLock
    <3> QED
      BY <3>1, <3>2, <3>3 DEF us
  <2>3. CASE ~ \E w \in Mine(p) : work[w].lock = l
    <3>1. us = Users(l) /\ locks'[l] = locks[l]
      BY <1>4, <1>7, <2>1, <2>3
    <3>2. \A v \in us : work'[v] = work[v]
      BY <1>2, <2>1, <3>1 DEF Users
    <3>3. /\ locks[l].refs = Cardinality(Users(l))
          /\ locks[l].held <=> \E v \in Users(l) : work[v].pc \in Guarded
          /\ \A u, v \in Users(l) : work[u].pc \in Guarded /\ work[v].pc \in Guarded => u = v
      BY DEF LocksOK
    <3> HIDE DEF us
    <3> QED
      BY <3>1, <3>2, <3>3 DEF us
  <2> QED
    BY <2>2, <2>3
<1> QED
  BY <1>8, <1>9, <1>10, <1>11, Zenon DEF LocksOK, Users

\* Nothing about the guards changes.
LEMMA SameLocks ==
    ASSUME LocksOK, work' = work, writeLocks' = writeLocks, locks' = locks
    PROVE  LocksOK'
<1>1. \A l : {v \in Workers : work'[v].lock = l} = {v \in Workers : work[v].lock = l}
  OBVIOUS
<1>2. \A v \in Workers : work'[v].lock # 0 => writeLocks'[work'[v].at][work'[v].tc.root] = work'[v].lock
  BY DEF LocksOK
<1>3. \A p, q \in Processes, r, s \in Roots :
          writeLocks'[p][r] # 0 /\ writeLocks'[p][r] = writeLocks'[q][s] => p = q /\ r = s
  BY DEF LocksOK
<1>4. \A p \in Processes, r \in Roots :
          writeLocks'[p][r] # 0 => {v \in Workers : work'[v].lock = writeLocks'[p][r]} # {}
  BY <1>1 DEF LocksOK, Users
<1>5. ASSUME NEW l \in 1..Slots
      PROVE  LET us == {v \in Workers : work'[v].lock = l}
             IN /\ locks'[l].refs = Cardinality(us)
                /\ locks'[l].held <=> \E v \in us : work'[v].pc \in Guarded
                /\ \A u, v \in us : work'[u].pc \in Guarded /\ work'[v].pc \in Guarded => u = v
  BY <1>1 DEF LocksOK, Users
<1> QED
  BY <1>2, <1>3, <1>4, <1>5 DEF LocksOK, Users

\* What the system begins with.
LEMMA InitTyped ==
    ASSUME Init
    PROVE  Typed /\ LocksOK
<1>1. scene \in Scenes /\ scene.maxLive \in Nat /\ Slots \in Nat
  BY Bounds DEF Init
<1>2. ForgeTyped
  BY DEF Init, ForgeTyped
<1>3. RegistriesTyped
  BY <1>1, EmptyMemory DEF MemoryOK, Init, RegistriesTyped
<1>4. FileTyped
  <2>1. \A S : <<>> \in Seq(S)
    OBVIOUS
  <2>2. file = <<>> /\ failures = <<>> /\ torn = FALSE
    BY DEF Init
  <2>3. DOMAIN <<>> = {}
    OBVIOUS
  <2> QED
    BY <2>1, <2>2, <2>3, Zenon DEF FileTyped, FileOK
<1>5. work = [w \in Workers |-> NoWork]
  BY DEF Init
<1>6. JobsTyped
  BY <1>5, NoJob DEF JobOK, JobsTyped
<1>7. /\ \A p \in Processes, r \in Roots : writeLocks[p][r] = 0
      /\ \A l \in 1..Slots : locks[l] = NoLock
      /\ writeLocks = [p \in Processes |-> [r \in Roots |-> 0]]
      /\ locks = [l \in 1..Slots |-> NoLock]
  BY DEF Init, Slots
<1>8. LocksTyped
  BY <1>1, <1>7 DEF LocksTyped, NoLock
<1>9. Typed
  BY <1>1, <1>2, <1>3, <1>4, <1>6, <1>8 DEF Init, Typed
<1>10. LocksOK
  <2>1. ASSUME NEW l \in 1..Slots PROVE Users(l) = {} /\ Cardinality(Users(l)) = 0
    <3>1. l # 0
      BY <1>1
    <3>2. Users(l) = {}
      BY <1>5, <3>1, NoJob DEF Users
    <3> QED
      BY <3>2, FS_EmptySet
  <2>2. \A l \in 1..Slots : locks[l].refs = 0 /\ locks[l].held = FALSE
    BY <1>7 DEF NoLock
  <2>3. \A w \in Workers : work[w].lock = 0
    BY <1>5, NoJob
  <2> QED
    BY <1>7, <2>1, <2>2, <2>3 DEF LocksOK
<1> QED
  BY <1>9, <1>10

-----------------------------------------------------------------------------
(* What a write is about.                                                  *)

\* The target of a write fits the step it is at: what is opened anew is for a thread that
\* names no open pull request of its own, and what is written back is the thread's own.
TargetFits(pc, tc, target, ps) ==
    /\ pc = "isOpen" => target # NoPR /\ target \in {tc.curated, tc.noteUrl}
    /\ pc = "append" => target # NoPR /\ target = tc.noteUrl
    /\ pc = "comment" => target # NoPR
    /\ pc = "openPR" => tc.noteUrl = NoPR \/ ~ ps[tc.noteUrl].open
    /\ pc = "writeBack" => target # NoPR /\ ps[target].inc = tc.inc

TargetsOK == \A w \in Workers : TargetFits(work[w].pc, work[w].tc, work[w].target, prs)

\* A pull request stays for the thread it was opened for, closed, and unknown.
PullsGrow ==
    /\ Len(prs) <= Len(prs')
    /\ \A n \in 1..Len(prs) : /\ prs'[n].inc = prs[n].inc
                              /\ prs'[n].open => prs[n].open
                              /\ prs[n].orphan => prs'[n].orphan

\* When there is nowhere to go, the thread's own pull request is none or the one just tried.
LEMMA AfterNone ==
    ASSUME NEW c, NEW n, n # NoPR => n \in {c.curated, c.noteUrl}, After(c, n) = NoPR
    PROVE  c.noteUrl # NoPR => n # NoPR /\ c.noteUrl = n
BY DEF After, NoPR

\* A note that is routed fits.
LEMMA RoutedFits ==
    ASSUME NEW bn, NEW ps, Len(ps) \in Nat, NEW c, ContextOK(c, bn, ps), NEW n,
           n # NoPR => n \in {c.curated, c.noteUrl} /\ ~ ps[n].open
    PROVE  TargetFits(Routed(After(c, n)), c, After(c, n), ps)
<1>1. After(c, n) # NoPR => After(c, n) \in {c.curated, c.noteUrl}
  BY AfterOK
<1>2. After(c, n) = NoPR => c.noteUrl = NoPR \/ ~ ps[c.noteUrl].open
  BY AfterNone
<1> QED
  BY <1>1, <1>2 DEF TargetFits, Routed

\* What fits goes on to fit.
LEMMA FitsOn ==
    ASSUME Typed, PullsGrow, NEW w \in Workers, TargetFits(work[w].pc, work[w].tc, work[w].target, prs)
    PROVE  TargetFits(work[w].pc, work[w].tc, work[w].target, prs')
<1> DEFINE x == work[w]
<1>1. Len(prs) \in Nat
  BY DEF Typed, ForgeTyped
<1>2. CASE x.pc = "openPR"
  <2>1. x.tc.noteUrl \in Nat /\ x.tc.noteUrl <= Len(prs)
    BY <1>2, AtWork DEF ContextOK, Context
  <2>2. x.tc.noteUrl # NoPR => x.tc.noteUrl \in 1..Len(prs)
    BY <1>1, <2>1 DEF NoPR
  <2>3. x.tc.noteUrl = NoPR \/ ~ prs'[x.tc.noteUrl].open
    BY <1>2, <2>2 DEF TargetFits, PullsGrow
  <2> QED
    BY <1>2, <2>3 DEF TargetFits
<1>3. CASE x.pc = "writeBack"
  BY <1>1, <1>3, AtWork DEF TargetFits, NoPR, PullsGrow
<1>4. CASE x.pc \notin {"openPR", "writeBack"}
  BY <1>4 DEF TargetFits
<1> QED
  BY <1>2, <1>3, <1>4

\* One goroutine changes what it does.
LEMMA TargetsFrom ==
    ASSUME Typed, TargetsOK, PullsGrow, NEW w \in Workers, Others(w),
           TargetFits(work'[w].pc, work'[w].tc, work'[w].target, prs')
    PROVE  TargetsOK'
<1>1. ASSUME NEW v \in Workers PROVE TargetFits(work'[v].pc, work'[v].tc, work'[v].target, prs')
  BY FitsOn DEF TargetsOK, Others
<1> QED
  BY <1>1 DEF TargetsOK

\* None does.
LEMMA TargetsStay ==
    ASSUME Typed, TargetsOK, PullsGrow, work' = work
    PROVE  TargetsOK'
<1>1. ASSUME NEW v \in Workers PROVE TargetFits(work'[v].pc, work'[v].tc, work'[v].target, prs')
  BY FitsOn DEF TargetsOK
<1> QED
  BY <1>1 DEF TargetsOK

\* An idle goroutine writes nothing.
LEMMA IdleFits == ASSUME NEW ps PROVE TargetFits(NoWork.pc, NoWork.tc, NoWork.target, ps)
BY DEF TargetFits, NoWork

\* The invariant of the guards, and what a step does to it.
Orderly == Typed /\ LocksOK /\ TargetsOK

\* A handler that goes on, and does not touch the guards.
LEMMA QuietTurn ==
    ASSUME Orderly, NEW w \in Workers, NEW pc, NEW tc, NEW target, NEW token, NEW chat,
           Turns(w, Jobs(work[w], pc, tc, work[w].lock, target, token, chat)),
           tc.root = work[w].tc.root, pc \in Guarded <=> work[w].pc \in Guarded,
           writeLocks' = writeLocks, locks' = locks, PullsGrow, TargetFits(pc, tc, target, prs')
    PROVE  Orderly'
<1>1. /\ work'[w].pc = pc /\ work'[w].at = work[w].at /\ work'[w].tc = tc /\ work'[w].lock = work[w].lock
      /\ work'[w].target = target /\ Typed' /\ Others(w)
  BY DEF Turns, Jobs
<1>2. LocksOK'
  BY <1>1, QuietLocks DEF Orderly
<1>3. TargetsOK'
  BY <1>1, TargetsFrom DEF Orderly
<1> QED
  BY <1>1, <1>2, <1>3 DEF Orderly

\* A handler that ends, or begins, without a guard.
LEMMA FreeTurn ==
    ASSUME Orderly, NEW w \in Workers, NEW next, Turns(w, next), work[w].lock = 0, work[w].pc \notin Guarded,
           \A y \in next : y.lock = 0 /\ y.pc \notin Guarded,
           writeLocks' = writeLocks, locks' = locks, PullsGrow
    PROVE  Orderly'
<1>1. work'[w].lock = 0 /\ work'[w].pc \notin Guarded /\ Typed' /\ Others(w)
  BY DEF Turns
<1>2. LocksOK'
  BY <1>1, QuietLocks DEF Orderly
<1>3. TargetFits(work'[w].pc, work'[w].tc, work'[w].target, prs')
  BY <1>1 DEF TargetFits, Guarded
<1>4. TargetsOK'
  BY <1>1, <1>3, TargetsFrom DEF Orderly
<1> QED
  BY <1>1, <1>2, <1>4 DEF Orderly

\* The pull requests do not change.
LEMMA PullsSame == ASSUME Typed, prs' = prs PROVE PullsGrow
<1>1. Len(prs) \in Nat
  BY DEF Typed, ForgeTyped
<1> QED
  BY <1>1 DEF PullsGrow

\* Nothing that a thread knows of them changes, or a new one is opened, or one is unknown.
LEMMA PullsChanged ==
    ASSUME Typed, PullsKept \/ (\E i, h : PullOpened(i, h)) \/ \E n \in 1..Len(prs) : PullOrphaned(n)
    PROVE  PullsGrow
<1>1. Len(prs) \in Nat
  BY DEF Typed, ForgeTyped
<1> QED
  BY <1>1 DEF PullsGrow, PullsKept, PullOpened, PullOrphaned

\* Every step of a handler.
LEMMA HandlerOrderly ==
    ASSUME Orderly, reserved \in Nat, NEW w \in Workers, Handler(w)
    PROVE  Orderly' /\ PullsGrow
<1> DEFINE x == work[w]
<1>1. Typed /\ LocksOK /\ TargetsOK /\ scene \in Scenes /\ scene.roots \subseteq Roots /\ Len(prs) \in Nat
  BY Bounds DEF Orderly, Typed, ForgeTyped
<1>2. JobOK(x, born, prs) /\ TargetFits(x.pc, x.tc, x.target, prs)
  BY <1>1, AtWork DEF TargetsOK
<1>3. x.pc \in Writing \cup Landed \cup {"unlock"} <=> x.pc \in Guarded
  BY DEF Writing, Landed, Guarded
<1>4. ASSUME x.pc \notin Holding PROVE x.lock = 0 /\ x.pc \notin Guarded
  BY <1>2, <1>4 DEF JobOK, Holding
<1>5. /\ NoWork.lock = 0 /\ NoWork.pc \notin Guarded
      /\ \A c, key : \A y \in Starts(c, key) : y.lock = 0 /\ y.pc \notin Guarded
  BY NoJob DEF Guarded, Starts
<1>6. ASSUME NEW root \in scene.roots, NEW m, NEW key \in Keys, HandleMention(w, root, m, key)
      PROVE  Orderly' /\ PullsGrow
  <2>1. x.pc = "idle" /\ prs' = prs /\ PullsGrow
    BY <1>1, <1>6, MentionTurns, PullsSame, Zenon
  <2>2. \E c : Turns(w, {NoWork} \cup Starts(c, key)) \/ Turns(w, {NoWork})
    BY <1>1, <1>6, MentionTurns, Zenon
  <2>3. writeLocks' = writeLocks /\ locks' = locks
    BY <1>6 DEF HandleMention
  <2>4. x.lock = 0 /\ x.pc \notin Guarded
    BY <1>4, <2>1 DEF Holding, Guarded
  <2> QED
    BY <1>5, <2>1, <2>2, <2>3, <2>4, FreeTurn
<1>7. ASSUME NEW e \in Estimates, Allow(w, e)
      PROVE  Orderly' /\ PullsGrow
  <2> DEFINE jobs == Jobs(x, "complete", x.tc, x.lock, x.target, x.token, Now)
  <2>1. Turns(w, {NoWork} \cup jobs)
    BY <1>1, <1>7, AllowTurns
  <2>2. x.pc = "chat" /\ prs' = prs /\ writeLocks' = writeLocks /\ locks' = locks
    BY <1>7 DEF Allow, ChatUnchanged
  <2>3. x.lock = 0 /\ x.pc \notin Guarded
    BY <1>4, <2>2 DEF Holding, Guarded
  <2>4. \A y \in jobs : y.lock = 0 /\ y.pc \notin Guarded
    BY <2>3 DEF Jobs, Guarded
  <2> HIDE DEF jobs
  <2> QED
    BY <1>1, <1>5, <2>1, <2>2, <2>3, <2>4, FreeTurn, PullsSame
<1>8. ASSUME Panic(w)
      PROVE  Orderly' /\ PullsGrow
  <2>1. Turns(w, {NoWork})
    BY <1>1, <1>8, PanicTurns, Zenon
  <2>2. x.pc = "complete" /\ prs' = prs /\ writeLocks' = writeLocks /\ locks' = locks
    BY <1>8 DEF Panic, ChatUnchanged
  <2>3. x.lock = 0 /\ x.pc \notin Guarded
    BY <1>4, <2>2 DEF Holding, Guarded
  <2> QED
    BY <1>1, <1>5, <2>1, <2>2, <2>3, FreeTurn, PullsSame
<1>9. ASSUME NEW e \in Estimates, NEW noted, Answer(w, e, noted)
      PROVE  Orderly' /\ PullsGrow
  <2> DEFINE jobs == Jobs(x, "lockRoot", x.tc, x.lock, x.target, x.token, x.chat)
  <2>1. Turns(w, {NoWork} \cup jobs)
    BY <1>1, <1>9, AnswerTurns
  <2>2. x.pc = "complete" /\ prs' = prs /\ writeLocks' = writeLocks /\ locks' = locks
    BY <1>9 DEF Answer, ChatUnchanged
  <2>3. x.lock = 0 /\ x.pc \notin Guarded
    BY <1>4, <2>2 DEF Holding, Guarded
  <2>4. \A y \in jobs : y.lock = 0 /\ y.pc \notin Guarded
    BY <2>3 DEF Jobs, Guarded
  <2> HIDE DEF jobs
  <2> QED
    BY <1>1, <1>5, <2>1, <2>2, <2>3, <2>4, FreeTurn, PullsSame
<1>10. ASSUME LockRoot(w)
       PROVE  Orderly' /\ PullsGrow
  <2>1. LocksOK'
    BY <1>1, <1>10, LockRootLocks
  <2>2. PICK l : Turns(w, Jobs(x, "wait", x.tc, l, x.target, x.token, x.chat))
    BY <1>1, <1>10, LockRootTurns, Zenon
  <2>3. Typed' /\ Others(w) /\ work'[w].pc = "wait"
    BY <2>2 DEF Turns, Jobs
  <2>4. PullsGrow
    BY <1>1, <1>10, PullsSame, Zenon DEF LockRoot
  <2>5. TargetFits(work'[w].pc, work'[w].tc, work'[w].target, prs')
    BY <2>3 DEF TargetFits
  <2> QED
    BY <1>1, <2>1, <2>3, <2>4, <2>5, TargetsFrom DEF Orderly
<1>11. ASSUME Enter(w)
       PROVE  Orderly' /\ PullsGrow
  <2> DEFINE c == Fresh(x)
             n == After(c, NoPR)
  <2>1. LocksOK'
    BY <1>1, <1>11, EnterLocks
  <2>2. PullsGrow /\ prs' = prs /\ x.pc = "wait"
    BY <1>1, <1>11, PullsSame, Zenon DEF Enter
  <2>3. TargetFits(Routed(n), c, n, prs)
    BY <1>1, <2>2, FreshOK, RoutedFits DEF NoPR
  <2>4. \/ Turns(w, Jobs(x, "unlock", c, x.lock, x.target, x.token, x.chat))
        \/ Turns(w, Jobs(x, Routed(n), c, x.lock, n, reserved + 1, x.chat))
    BY <1>1, <1>11, EnterTurns, Zenon
  <2> HIDE DEF c, n
  <2>5. Typed' /\ Others(w) /\ TargetFits(work'[w].pc, work'[w].tc, work'[w].target, prs')
    <3>1. CASE Turns(w, Jobs(x, "unlock", c, x.lock, x.target, x.token, x.chat))
      BY <3>1 DEF Turns, Jobs, TargetFits
    <3>2. CASE Turns(w, Jobs(x, Routed(n), c, x.lock, n, reserved + 1, x.chat))
      BY <2>2, <2>3, <3>2 DEF Turns, Jobs
    <3> QED
      BY <2>4, <3>1, <3>2
  <2> QED
    BY <1>1, <2>1, <2>2, <2>5, TargetsFrom DEF Orderly
<1>12. ASSUME Unlock(w)
       PROVE  Orderly' /\ PullsGrow
  <2>1. LocksOK'
    BY <1>1, <1>12, UnlockLocks
  <2>2. Typed' /\ Others(w) /\ work'[w].pc = "drop"
    BY <1>1, <1>12, UnlockTurns DEF Turns, Jobs
  <2>3. PullsGrow
    BY <1>1, <1>12, PullsSame DEF Unlock
  <2>4. TargetFits(work'[w].pc, work'[w].tc, work'[w].target, prs')
    BY <2>2 DEF TargetFits
  <2> QED
    BY <1>1, <2>1, <2>2, <2>3, <2>4, TargetsFrom DEF Orderly
<1>13. ASSUME Drop(w)
       PROVE  Orderly' /\ PullsGrow
  <2>1. LocksOK'
    BY <1>1, <1>13, DropLocks
  <2>2. Typed' /\ Others(w) /\ work'[w] = NoWork
    BY <1>1, <1>13, DropTurns DEF Turns
  <2>3. PullsGrow
    BY <1>1, <1>13, PullsSame DEF Drop
  <2>4. TargetFits(work'[w].pc, work'[w].tc, work'[w].target, prs')
    BY <2>2, IdleFits
  <2> QED
    BY <1>1, <2>1, <2>2, <2>3, <2>4, TargetsFrom DEF Orderly
<1>14. ASSUME IsOpen(w)
       PROVE  Orderly' /\ PullsGrow
  <2> PICK n : n = After(x.tc, x.target)
    OBVIOUS
  <2> PICK pc : pc = IF x.target = x.tc.noteUrl THEN "append" ELSE "comment"
    OBVIOUS
  <2>1. x.pc = "isOpen" /\ prs' = prs /\ writeLocks' = writeLocks /\ locks' = locks
    BY <1>14 DEF IsOpen
  <2>2. x.target # NoPR /\ x.target \in {x.tc.curated, x.tc.noteUrl} /\ ContextOK(x.tc, born, prs)
    BY <1>1, <1>2, <2>1, AtWork DEF TargetFits
  <2>3. PullsGrow
    BY <1>1, <2>1, PullsSame
  <2>4. /\ x.pc \in Guarded /\ "append" \in Guarded /\ "comment" \in Guarded /\ "unlock" \in Guarded
        /\ Routed(n) \in Guarded
    BY <2>1 DEF Guarded, Routed
  <2>5. CASE ~ prs[x.target].open /\ Turns(w, Jobs(x, Routed(n), x.tc, x.lock, n, x.token, x.chat))
    <3>1. TargetFits(Routed(n), x.tc, n, prs)
      BY <1>1, <2>2, <2>5, RoutedFits
    <3> QED
      BY <2>1, <2>3, <2>4, <2>5, <3>1, QuietTurn
  <2>6. CASE Turns(w, Jobs(x, pc, x.tc, x.lock, x.target, x.token, x.chat))
    <3>1. TargetFits(pc, x.tc, x.target, prs)
      BY <2>2 DEF TargetFits
    <3> QED
      BY <2>1, <2>3, <2>4, <2>6, <3>1, QuietTurn
  <2>7. CASE Turns(w, Jobs(x, "unlock", x.tc, x.lock, x.target, 0, x.chat))
    <3>1. TargetFits("unlock", x.tc, x.target, prs)
      BY DEF TargetFits
    <3> QED
      BY <2>1, <2>3, <2>4, <2>7, <3>1, QuietTurn
  <2> QED
    BY <1>1, <1>14, <2>5, <2>6, <2>7, IsOpenTurns
<1>15. ASSUME AppendToEntry(w)
       PROVE  Orderly' /\ PullsGrow
  <2> PICK n : n = After(x.tc, x.target)
    OBVIOUS
  <2>1. x.pc = "append" /\ writeLocks' = writeLocks /\ locks' = locks
    BY <1>15 DEF AppendToEntry
  <2>2. x.target # NoPR /\ x.target = x.tc.noteUrl /\ ContextOK(x.tc, born, prs)
    BY <1>1, <1>2, <2>1, AtWork DEF TargetFits
  <2>3. PullsKept /\ PullsGrow
    BY <1>1, <1>15, <2>2, AppendTurns, PullsChanged
  <2>4. x.pc \in Guarded /\ "comment" \in Guarded /\ "count" \in Guarded /\ Routed(n) \in Guarded
    BY <2>1 DEF Guarded, Routed
  <2>5. CASE Turns(w, Jobs(x, "count", x.tc, x.lock, x.target, 0, x.chat))
    <3>1. TargetFits("count", x.tc, x.target, prs')
      BY DEF TargetFits
    <3> QED
      BY <2>1, <2>3, <2>4, <2>5, <3>1, QuietTurn
  <2>6. CASE ~ prs[x.target].open /\ Turns(w, Jobs(x, Routed(n), x.tc, x.lock, n, x.token, x.chat))
    <3>1. Len(prs') \in Nat /\ ~ prs'[x.target].open /\ ContextOK(x.tc, born', prs') /\ x.target \in 1..Len(prs)
      <4>1. x.target \in 1..Len(prs) /\ x.pc # "idle"
        BY <1>1, <2>1, <2>2, AtWork DEF NoPR
      <4>2. Typed' /\ Grown(born, born', prs, prs')
        BY <2>6 DEF Turns
      <4>3. ContextOK(x.tc, born', prs')
        BY <1>1, <2>2, <4>2, GrownContext DEF Typed, ForgeTyped
      <4> QED
        BY <2>3, <2>6, <1>1, <4>1, <4>3 DEF PullsKept
    <3>2. TargetFits(Routed(n), x.tc, n, prs')
      BY <2>2, <3>1, RoutedFits
    <3> QED
      BY <2>1, <2>3, <2>4, <2>6, <3>2, QuietTurn
  <2>7. CASE Turns(w, Jobs(x, "comment", x.tc, x.lock, x.target, x.token, x.chat))
    <3>1. TargetFits("comment", x.tc, x.target, prs')
      BY <2>2 DEF TargetFits
    <3> QED
      BY <2>1, <2>3, <2>4, <2>7, <3>1, QuietTurn
  <2> QED
    BY <1>1, <1>15, <2>2, <2>5, <2>6, <2>7, AppendTurns
<1>16. ASSUME CommentOnPR(w)
       PROVE  Orderly' /\ PullsGrow
  <2>1. x.pc = "comment" /\ writeLocks' = writeLocks /\ locks' = locks
    BY <1>16 DEF CommentOnPR
  <2>2. x.target # NoPR
    BY <1>1, <1>2, <2>1 DEF TargetFits
  <2>3. PullsKept /\ PullsGrow
    BY <1>1, <1>16, <2>2, CommentTurns, PullsChanged
  <2>4. x.pc \in Guarded /\ "count" \in Guarded /\ "unlock" \in Guarded
    BY <2>1 DEF Guarded
  <2>5. CASE Turns(w, Jobs(x, "count", x.tc, x.lock, x.target, 0, x.chat))
    <3>1. TargetFits("count", x.tc, x.target, prs')
      BY DEF TargetFits
    <3> QED
      BY <2>1, <2>3, <2>4, <2>5, <3>1, QuietTurn
  <2>6. CASE Turns(w, Jobs(x, "unlock", x.tc, x.lock, x.target, 0, x.chat))
    <3>1. TargetFits("unlock", x.tc, x.target, prs')
      BY DEF TargetFits
    <3> QED
      BY <2>1, <2>3, <2>4, <2>6, <3>1, QuietTurn, Zenon
  <2> QED
    BY <1>1, <1>16, <2>2, <2>5, <2>6, CommentTurns
<1>17. ASSUME OpenPR(w)
       PROVE  Orderly' /\ PullsGrow
  <2> PICK n : n = Len(prs) + 1
    OBVIOUS
  <2>1. x.pc = "openPR" /\ writeLocks' = writeLocks /\ locks' = locks
    BY <1>17 DEF OpenPR
  <2>2. x.pc \in Guarded /\ "writeBack" \in Guarded /\ "unlock" \in Guarded
    BY <2>1 DEF Guarded
  <2>3. CASE PullOpened(x.tc.inc, TRUE) /\ Turns(w, Jobs(x, "writeBack", x.tc, x.lock, n, 0, x.chat))
    <3>1. TargetFits("writeBack", x.tc, n, prs')
      BY <1>1, <2>3 DEF TargetFits, PullOpened, NoPR
    <3>2. PullsGrow
      BY <1>1, <2>3, PullsChanged, Zenon
    <3> QED
      BY <2>1, <2>2, <2>3, <3>1, <3>2, QuietTurn, Zenon
  <2>4. CASE (prs' = prs \/ PullOpened(x.tc.inc, FALSE)) /\ Turns(w, Jobs(x, "unlock", x.tc, x.lock, x.target, 0, x.chat))
    <3>1. TargetFits("unlock", x.tc, x.target, prs')
      BY DEF TargetFits
    <3>2. PullsGrow
      BY <1>1, <2>4, PullsChanged, PullsSame, Zenon
    <3> QED
      BY <2>1, <2>2, <2>4, <3>1, <3>2, QuietTurn, Zenon
  <2> QED
    BY <1>1, <1>17, <2>3, <2>4, OpenTurns, Zenon
<1>18. ASSUME WriteBack(w)
       PROVE  Orderly' /\ PullsGrow
  <2>1. x.pc = "writeBack" /\ writeLocks' = writeLocks /\ locks' = locks
    BY <1>18, Zenon DEF WriteBack
  <2>2. x.target # NoPR /\ x.target \in 1..Len(prs)
    BY <1>1, <1>2, <2>1, AtWork DEF TargetFits, NoPR
  <2>3. Turns(w, Jobs(x, "count", x.tc, x.lock, x.target, x.token, x.chat)) /\ (prs' = prs \/ PullOrphaned(x.target))
    BY <1>1, <1>18, <2>2, WriteBackTurns
  <2>4. PullsGrow
    BY <1>1, <2>2, <2>3, PullsChanged, PullsSame
  <2>5. x.pc \in Guarded /\ "count" \in Guarded
    BY <2>1 DEF Guarded
  <2>6. TargetFits("count", x.tc, x.target, prs')
    BY DEF TargetFits
  <2> QED
    BY <2>1, <2>3, <2>4, <2>5, <2>6, QuietTurn
<1>19. ASSUME Count(w)
       PROVE  Orderly' /\ PullsGrow
  <2>1. x.pc = "count" /\ writeLocks' = writeLocks /\ locks' = locks
    BY <1>19, Zenon DEF Count
  <2>2. Turns(w, Jobs(x, "unlock", x.tc, x.lock, x.target, x.token, x.chat)) /\ prs' = prs
    BY <1>1, <1>19, CountTurns
  <2>3. x.pc \in Guarded /\ "unlock" \in Guarded
    BY <2>1 DEF Guarded
  <2>4. TargetFits("unlock", x.tc, x.target, prs')
    BY DEF TargetFits
  <2> QED
    BY <1>1, <2>1, <2>2, <2>3, <2>4, QuietTurn, PullsSame, Zenon
<1> QED
  BY <1>6, <1>7, <1>8, <1>9, <1>10, <1>11, <1>12, <1>13, <1>14, <1>15, <1>16, <1>17, <1>18, <1>19 DEF Handler

\* Nothing happens.
LEMMA StutterOrderly ==
    ASSUME Orderly, UNCHANGED vars
    PROVE  Orderly' /\ PullsGrow
<1>1. /\ scene' = scene /\ clock' = clock /\ memory' = memory /\ file' = file /\ torn' = torn /\ born' = born
      /\ active' = active /\ writeLocks' = writeLocks /\ locks' = locks /\ chats' = chats /\ work' = work
      /\ prs' = prs /\ failures' = failures
  BY DEF vars, chatting
<1>2. /\ Typed /\ LocksOK /\ TargetsOK /\ clock \in Nat /\ active \in Processes /\ chats \in Seq(Call)
      /\ failures \in Seq(Kinds)
  BY DEF Orderly, Typed, FileTyped
<1>3. ForgeTyped' /\ Grown(born, born', prs, prs')
  BY <1>1, <1>2, ForgeStays
<1>4. Typed'
  BY <1>1, <1>2, <1>3, NotStored, IdleTyped
<1>5. PullsGrow
  BY <1>1, <1>2, PullsSame
<1> QED
  BY <1>1, <1>2, <1>4, <1>5, SameLocks, TargetsStay DEF Orderly

\* Every step.
LEMMA NextOrderly ==
    ASSUME Orderly, reserved \in Nat, [Next]_vars
    PROVE  Orderly' /\ PullsGrow
<1>1. Typed /\ LocksOK /\ TargetsOK /\ scene \in Scenes /\ scene.roots \subseteq Roots /\ Len(prs) \in Nat
  BY Bounds DEF Orderly, Typed, ForgeTyped
<1>2. ASSUME NEW root \in scene.roots, NEW c \in BOOLEAN, Register(root, c)
      PROVE  Orderly' /\ PullsGrow
  <2>1. /\ Typed' /\ Grown(born, born', prs, prs') /\ work' = work
        /\ \A n \in 1..Len(prs) : prs'[n] = prs[n]
    BY <1>1, <1>2, RegisterTyped
  <2>2. writeLocks' = writeLocks /\ locks' = locks
    BY <1>2 DEF Register
  <2>3. PullsGrow
    BY <2>1 DEF PullsGrow, Grown
  <2> QED
    BY <1>1, <2>1, <2>2, <2>3, SameLocks, TargetsStay DEF Orderly
<1>3. ASSUME NEW n \in DOMAIN prs, Close(n)
      PROVE  Orderly' /\ PullsGrow
  <2>1. /\ Typed' /\ Len(prs') = Len(prs) /\ ~ prs'[n].open
        /\ \A m \in 1..Len(prs) : /\ prs'[m].inc = prs[m].inc /\ prs'[m].orphan = prs[m].orphan
                                  /\ m # n => prs'[m].open = prs[m].open
    BY <1>1, <1>3, CloseTyped
  <2>2. writeLocks' = writeLocks /\ locks' = locks /\ work' = work
    BY <1>3 DEF Close
  <2>3. PullsGrow
    BY <1>1, <2>1 DEF PullsGrow
  <2> QED
    BY <1>1, <2>1, <2>2, <2>3, SameLocks, TargetsStay DEF Orderly
<1>4. ASSUME Tick \/ Slide \/ ChatSlide \/ \E p \in Processes : Failover(p)
      PROVE  Orderly' /\ PullsGrow
  BY <1>1, <1>4, TimeTyped, PullsSame, SameLocks, TargetsStay DEF Orderly
<1>5. ASSUME NEW p \in Processes, NEW tear \in BOOLEAN, Restart(p, tear)
      PROVE  Orderly' /\ PullsGrow
  <2>1. Typed' /\ PullsSurvive(p) /\ WorkSurvives(p)
    BY <1>1, <1>5, RestartTyped
  <2>2. LocksOK'
    BY <1>1, <1>5, RestartLocks
  <2>3. PullsGrow
    <3>1. \A n \in 1..Len(prs) : prs[n].orphan \in BOOLEAN
      <4>1. prs \in Seq(Pull(Len(born)))
        BY <1>1 DEF Typed, ForgeTyped
      <4> SUFFICES ASSUME NEW n \in 1..Len(prs) PROVE prs[n].orphan \in BOOLEAN
        OBVIOUS
      <4>2. prs[n] \in Pull(Len(born))
        BY <4>1
      <4> QED
        BY <4>2 DEF Pull
    <3>2. \A n \in 1..Len(prs) : prs[n].orphan => prs'[n].orphan
      BY <2>1, <3>1 DEF PullsSurvive
    <3> QED
      BY <1>1, <2>1, <3>2 DEF PullsGrow, PullsSurvive
  <2>4. ASSUME NEW v \in Workers PROVE TargetFits(work'[v].pc, work'[v].tc, work'[v].target, prs')
    BY <1>1, <2>1, <2>3, FitsOn, IdleFits DEF TargetsOK, WorkSurvives
  <2> QED
    BY <2>1, <2>2, <2>3, <2>4 DEF Orderly, TargetsOK
<1> QED
  BY <1>2, <1>3, <1>4, <1>5, HandlerOrderly, StutterOrderly DEF Next

\* The reservations are counted.
LEMMA ReservedCounts ==
    ASSUME reserved \in Nat, [Next]_vars
    PROVE  reserved' \in Nat /\ reserved <= reserved'
<1>1. reserved' = reserved \/ reserved' = reserved + 1
  <2>1. ASSUME NEW w \in Workers, Handler(w) PROVE reserved' = reserved \/ reserved' = reserved + 1
    <3>1. CASE Enter(w)
      BY <3>1 DEF Enter
    <3>2. CASE ~ Enter(w)
      BY <2>1, <3>2, Zenon DEF Handler, HandleMention, Allow, Answer, Panic, ChatUnchanged, LockRoot, Unlock, Drop,
            IsOpen, AppendToEntry, CommentOnPR, OpenPR, WriteBack, Count
    <3> QED
      BY <3>1, <3>2, SMTT(20)
  <2>2. ASSUME ~ \E w \in Workers : Handler(w) PROVE reserved' = reserved
    BY <2>2 DEF Next, Register, Close, Tick, Slide, ChatSlide, ChatUnchanged, Restart, Failover, vars
  <2> QED
    BY <2>1, <2>2
<1> QED
  BY <1>1

\* The system begins in order.
LEMMA InitOrderly ==
    ASSUME Init
    PROVE  Orderly /\ reserved \in Nat
<1>1. Typed /\ LocksOK
  BY InitTyped
<1>2. TargetsOK
  BY IdleFits DEF Init, TargetsOK
<1> QED
  BY <1>1, <1>2 DEF Orderly, Init

\* In order, one note at a time is written for a thread, and a guard is there only
\* while it is used.
LEMMA OrderlyWriters ==
    ASSUME Orderly
    PROVE  OneWriterPerRoot
<1>1. Typed /\ LocksOK
  BY DEF Orderly
<1>2. ASSUME NEW v \in Workers, NEW w \in Workers, work[v].pc \in Guarded, work[w].pc \in Guarded,
             work[v].at = work[w].at, work[v].tc.root = work[w].tc.root
      PROVE  v = w
  <2>1. work[v].lock # 0 /\ work[w].lock # 0 /\ work[v].lock \in 1..Slots
    BY <1>1, <1>2, AtWork, Bounds DEF JobOK, Holding
  <2>2. work[v].lock = work[w].lock
    BY <1>1, <1>2, <2>1 DEF LocksOK
  <2> QED
    BY <1>1, <1>2, <2>1, <2>2, Zenon DEF LocksOK, Users
<1>3. ASSUME NEW p \in Processes, NEW r \in Roots
      PROVE  LET l == writeLocks[p][r]
                 users == {w \in Workers : work[w].lock = l}
             IN l # 0 => /\ users # {} /\ locks[l].refs = Cardinality(users)
                         /\ locks[l].held => \E w \in users : work[w].pc \in Guarded
  <2>1. writeLocks[p][r] \in 0..Slots
    BY <1>1 DEF Typed, LocksTyped
  <2>2. writeLocks[p][r] # 0 => writeLocks[p][r] \in 1..Slots
    BY <2>1, Bounds
  <2> SUFFICES ASSUME writeLocks[p][r] # 0
               PROVE  LET l == writeLocks[p][r]
                      IN /\ Users(l) # {} /\ locks[l].refs = Cardinality(Users(l))
                         /\ locks[l].held => \E w \in Users(l) : work[w].pc \in Guarded
    BY DEF Users
  <2>3. Users(writeLocks[p][r]) # {}
    BY <1>1 DEF LocksOK
  <2> QED
    BY <1>1, <2>2, <2>3 DEF LocksOK
<1> QED
  BY <1>2, <1>3 DEF OneWriterPerRoot

\* One note at a time is decided and written for a thread, in every process, however the
\* guard of an earlier one is being deleted (registry.go:91-147).
THEOREM OneWriter == Spec => []OneWriterPerRoot
<1>1. Init => Orderly /\ reserved \in Nat
  BY InitOrderly
<1>2. Orderly /\ reserved \in Nat /\ [Next]_vars => (Orderly /\ reserved \in Nat)'
  BY NextOrderly, ReservedCounts
<1>3. Orderly => OneWriterPerRoot
  BY OrderlyWriters
<1> QED
  BY <1>1, <1>2, <1>3, PTL DEF Spec

-----------------------------------------------------------------------------
(* The allowance.                                                          *)

\* The tokens of a process after a time, who of its handlers still has one of after that,
\* and the ones that paid for a write.
Taken(p, s) == {i \in recent[p] : i > s}
Spenders(p, s) == {w \in Workers : work[w].token > s /\ work[w].at = p}
Paid(s) == {t \in charged : t > s}

\* No token is used twice, and whatever end of the window is looked at, no more are taken
\* than are with a handler or have paid: a refund gives back the newest token, which may be
\* another handler's, and so the bound has to hold from every time on.
Allowance ==
    /\ reserved \in Nat /\ slid \in 0..reserved
    /\ recent \in [Processes -> SUBSET (1..reserved)] /\ charged \subseteq 1..reserved
    /\ \A w \in Workers : work[w].token \in 0..reserved \ charged
    /\ \A v, w \in Workers : work[v].token # 0 /\ work[v].token = work[w].token => v = w
    /\ \A p \in Processes, s \in slid..reserved :
          Cardinality(Taken(p, s)) <= Cardinality(Spenders(p, s)) + Cardinality(Paid(s))

\* All of them are finite.
LEMMA TokensFinite ==
    ASSUME Allowance, NEW p \in Processes, NEW s
    PROVE  /\ IsFiniteSet(Taken(p, s)) /\ IsFiniteSet(Spenders(p, s)) /\ IsFiniteSet(Paid(s))
           /\ Cardinality(Taken(p, s)) \in Nat /\ Cardinality(Spenders(p, s)) \in Nat /\ Cardinality(Paid(s)) \in Nat
<1>1. IsFiniteSet(1..reserved)
  BY FS_Interval DEF Allowance
<1>2. Taken(p, s) \subseteq 1..reserved /\ Paid(s) \subseteq 1..reserved
  BY Zenon DEF Allowance, Taken, Paid
<1>3. Spenders(p, s) \subseteq Workers
  BY DEF Spenders
<1> QED
  BY <1>1, <1>2, <1>3, Bounds, FS_Subset, FS_CardinalityType, Zenon

\* A step that takes no token and pays with none, and forgets only those of handlers that
\* have gone with all that their process has taken.
LEMMA QuietAllowance ==
    ASSUME Allowance, reserved' = reserved, charged' = charged, slid' \in slid..reserved,
           recent' \in [Processes -> SUBSET (1..reserved)],
           \A w \in Workers : work'[w].token \in {0, work[w].token},
           \A p \in Processes :
              \/ recent'[p] = {}
              \/ /\ \A i \in recent'[p] : i > slid' => i \in recent[p]
                 /\ \A w \in Workers : work[w].token # 0 /\ work[w].at = p =>
                       work'[w].token = work[w].token /\ work'[w].at = p
    PROVE  Allowance'
<1>1. reserved \in Nat /\ slid \in 0..reserved /\ charged \subseteq 1..reserved
  BY DEF Allowance
<1>2. \A w \in Workers : work'[w].token \in 0..reserved \ charged
  BY <1>1 DEF Allowance
<1>3. \A v, w \in Workers : work'[v].token # 0 /\ work'[v].token = work'[w].token => v = w
  BY DEF Allowance
<1>4. ASSUME NEW p \in Processes, NEW s \in slid'..reserved
      PROVE  LET taken == {i \in recent'[p] : i > s}
                 with == {w \in Workers : work'[w].token > s /\ work'[w].at = p}
             IN Cardinality(taken) <= Cardinality(with) + Cardinality(Paid(s))
  <2> DEFINE taken == {i \in recent'[p] : i > s}
             with == {w \in Workers : work'[w].token > s /\ work'[w].at = p}
  <2>1. IsFiniteSet(with) /\ Cardinality(with) \in Nat
    <3>1. with \subseteq Workers
      OBVIOUS
    <3> HIDE DEF with
    <3> QED
      BY <3>1, Bounds, FS_Subset, FS_CardinalityType
  <2>2. Cardinality(Paid(s)) \in Nat
    BY TokensFinite
  <2>3. CASE recent'[p] = {}
    <3>1. taken = {}
      BY <2>3
    <3> HIDE DEF taken, with
    <3> QED
      BY <2>1, <2>2, <3>1, FS_EmptySet DEF taken, with
  <2>4. CASE /\ \A i \in recent'[p] : i > slid' => i \in recent[p]
             /\ \A w \in Workers : work[w].token # 0 /\ work[w].at = p =>
                   work'[w].token = work[w].token /\ work'[w].at = p
    <3>1. s \in slid..reserved /\ slid' \in Nat /\ s >= slid'
      BY <1>1
    <3>2. taken \subseteq Taken(p, s)
      <4> SUFFICES ASSUME NEW i \in recent'[p], i > s PROVE i \in recent[p]
        BY DEF Taken
      <4>1. i \in Nat
        BY <1>1
      <4> QED
        BY <2>4, <3>1, <4>1
    <3>3. Spenders(p, s) \subseteq with
      <4> SUFFICES ASSUME NEW w \in Workers, work[w].token > s, work[w].at = p PROVE w \in with
        BY DEF Spenders
      <4>1. work[w].token # 0
        BY <3>1, <1>1 DEF Allowance
      <4> QED
        BY <2>4, <4>1
    <3>4. Cardinality(Taken(p, s)) <= Cardinality(Spenders(p, s)) + Cardinality(Paid(s))
      BY <3>1 DEF Allowance
    <3> HIDE DEF taken, with
    <3>5. Cardinality(taken) <= Cardinality(Taken(p, s)) /\ Cardinality(taken) \in Nat
      BY <3>2, TokensFinite, FS_Subset, FS_CardinalityType
    <3>6. Cardinality(Spenders(p, s)) <= Cardinality(with)
      BY <2>1, <3>3, FS_Subset
    <3> QED
      BY <2>1, <2>2, <3>4, <3>5, <3>6, TokensFinite DEF taken, with
  <2> QED
    BY <2>3, <2>4
<1> QED
  BY <1>1, <1>2, <1>3, <1>4 DEF Paid, Allowance, Taken, Spenders

\* A token is taken.
LEMMA TakeAllowance ==
    ASSUME Allowance, charged' = charged, slid' = slid, reserved' = reserved + 1, NEW w \in Workers, Others(w),
           work[w].token = 0, work'[w].token = reserved + 1, work'[w].at = work[w].at, work[w].at \in Processes,
           recent' = [recent EXCEPT ![work[w].at] = Window(work[w].at) \cup {reserved + 1}]
    PROVE  Allowance'
<1> DEFINE a == work[w].at
           new == reserved + 1
<1>1. /\ reserved \in Nat /\ slid \in 0..reserved /\ charged \subseteq 1..reserved
      /\ recent \in [Processes -> SUBSET (1..reserved)]
  BY DEF Allowance
<1>2. recent' \in [Processes -> SUBSET (1..new)] /\ recent'[a] = Window(a) \cup {new}
      /\ \A p \in Processes : p # a => recent'[p] = recent[p]
  BY <1>1 DEF Window
<1>3. ASSUME NEW v \in Workers PROVE work'[v].token = IF v = w THEN new ELSE work[v].token
  BY DEF Others
<1>4. \A v \in Workers : work'[v].token \in 0..new \ charged
  BY <1>1, <1>3 DEF Allowance
<1>5. \A u, v \in Workers : work'[u].token # 0 /\ work'[u].token = work'[v].token => u = v
  BY <1>1, <1>3 DEF Allowance
<1>6. ASSUME NEW p \in Processes, NEW s \in slid..new
      PROVE  LET taken == {i \in recent'[p] : i > s}
                 with == {v \in Workers : work'[v].token > s /\ work'[v].at = p}
             IN Cardinality(taken) <= Cardinality(with) + Cardinality(Paid(s))
  <2> DEFINE taken == {i \in recent'[p] : i > s}
             with == {v \in Workers : work'[v].token > s /\ work'[v].at = p}
  <2>1. /\ IsFiniteSet(Taken(p, s)) /\ IsFiniteSet(Spenders(p, s))
        /\ Cardinality(Taken(p, s)) \in Nat /\ Cardinality(Spenders(p, s)) \in Nat /\ Cardinality(Paid(s)) \in Nat
    BY TokensFinite
  <2>2. w \notin Spenders(p, s)
    BY <1>1 DEF Spenders
  <2>3. with = IF p = a /\ s # new THEN Spenders(p, s) \cup {w} ELSE Spenders(p, s)
    BY <1>1, <1>3, <2>2 DEF Allowance, Spenders, Others
  <2>4. CASE s = new
    <3>1. taken = {}
      BY <1>1, <1>2, <2>4
    <3>2. with = Spenders(p, s)
      BY <2>3, <2>4
    <3> HIDE DEF taken, with
    <3>3. Cardinality(taken) = 0
      BY <3>1, FS_EmptySet
    <3>4. Cardinality(taken) <= Cardinality(with) + Cardinality(Paid(s))
      BY <2>1, <3>2, <3>3
    <3> QED
      BY <3>4 DEF taken, with
  <2>5. CASE s # new /\ p # a
    <3>1. taken = Taken(p, s) /\ s \in slid..reserved
      BY <1>1, <1>2, <2>5 DEF Taken
    <3> QED
      BY <2>3, <2>5, <3>1, Zenon DEF Allowance
  <2>6. CASE s # new /\ p = a
    <3>1. taken = Taken(p, s) \cup {new} /\ s \in slid..reserved
      BY <1>1, <1>2, <2>6 DEF Taken, Window
    <3>2. new \notin Taken(p, s)
      BY <1>1 DEF Taken
    <3>3. Cardinality(Taken(p, s)) <= Cardinality(Spenders(p, s)) + Cardinality(Paid(s))
      BY <3>1 DEF Allowance
    <3> HIDE DEF taken, with
    <3>4. Cardinality(taken) = Cardinality(Taken(p, s)) + 1
      BY <2>1, <3>1, <3>2, FS_AddElement, Zenon
    <3>5. Cardinality(with) = Cardinality(Spenders(p, s)) + 1
      BY <2>1, <2>2, <2>3, <2>6, FS_AddElement, Zenon
    <3> QED
      BY <2>1, <3>3, <3>4, <3>5 DEF taken, with
  <2> QED
    BY <2>4, <2>5, <2>6
<1> QED
  BY <1>1, <1>2, <1>4, <1>5, <1>6 DEF Allowance, Taken, Spenders, Paid

\* A token pays for a write.
LEMMA SpendAllowance ==
    ASSUME Allowance, reserved' = reserved, slid' = slid, NEW w \in Workers, Others(w), Spent(w),
           work[w].token # 0, work'[w].token = 0
    PROVE  Allowance'
<1> DEFINE t == work[w].token
<1>1. /\ reserved \in Nat /\ slid \in 0..reserved /\ charged \subseteq 1..reserved
      /\ recent \in [Processes -> SUBSET (1..reserved)] /\ recent' = recent /\ charged' = charged \cup {t}
      /\ t \in 1..reserved /\ t \notin charged
  BY DEF Allowance, Spent
<1>2. ASSUME NEW v \in Workers PROVE work'[v].token = IF v = w THEN 0 ELSE work[v].token
  BY DEF Others
<1>3. \A v \in Workers : work'[v].token \in 0..reserved \ charged'
  BY <1>1, <1>2 DEF Allowance
<1>4. \A u, v \in Workers : work'[u].token # 0 /\ work'[u].token = work'[v].token => u = v
  BY <1>2 DEF Allowance
<1>5. ASSUME NEW p \in Processes, NEW s \in slid..reserved
      PROVE  LET with == {v \in Workers : work'[v].token > s /\ work'[v].at = p}
                 paid == {i \in charged' : i > s}
             IN Cardinality(Taken(p, s)) <= Cardinality(with) + Cardinality(paid)
  <2> DEFINE with == {v \in Workers : work'[v].token > s /\ work'[v].at = p}
             paid == {i \in charged' : i > s}
  <2>1. /\ IsFiniteSet(Paid(s)) /\ IsFiniteSet(Spenders(p, s)) /\ Cardinality(Taken(p, s)) \in Nat
        /\ Cardinality(Spenders(p, s)) \in Nat /\ Cardinality(Paid(s)) \in Nat
    BY TokensFinite
  <2>2. Cardinality(Taken(p, s)) <= Cardinality(Spenders(p, s)) + Cardinality(Paid(s))
    BY DEF Allowance
  <2>3. with = Spenders(p, s) \ {w}
    BY <1>1, <1>2 DEF Spenders, Others
  <2>4. CASE t > s
    <3>1. paid = Paid(s) \cup {t} /\ t \notin Paid(s)
      BY <1>1, <2>4 DEF Paid
    <3> HIDE DEF paid, with
    <3>2. Cardinality(paid) = Cardinality(Paid(s)) + 1
      BY <2>1, <3>1, FS_AddElement, Zenon
    <3>3. Cardinality(with) \in Nat /\ Cardinality(Spenders(p, s)) <= Cardinality(with) + 1
      <4>1. CASE w \in Spenders(p, s)
        BY <2>1, <2>3, <4>1, FS_Subset, FS_CardinalityType, FS_RemoveElement
      <4>2. CASE w \notin Spenders(p, s)
        BY <2>1, <2>3, <4>2
      <4> QED
        BY <4>1, <4>2
    <3>4. Cardinality(Taken(p, s)) <= Cardinality(with) + Cardinality(paid)
      BY <2>1, <2>2, <3>2, <3>3
    <3> QED
      BY <3>4 DEF paid, with
  <2>5. CASE ~ t > s
    <3>1. paid = Paid(s) /\ w \notin Spenders(p, s)
      BY <1>1, <2>5 DEF Paid, Spenders
    <3>2. with = Spenders(p, s)
      BY <2>3, <3>1
    <3> HIDE DEF paid, with
    <3> QED
      BY <2>2, <3>1, <3>2, Zenon DEF paid, with
  <2> QED
    BY <2>4, <2>5
<1> QED
  BY <1>1, <1>3, <1>4, <1>5, Zenon DEF Allowance, Taken, Spenders, Paid

\* A token is given back: the newest of the process is forgotten, whoever took it.
LEMMA RefundAllowance ==
    ASSUME Allowance, reserved' = reserved, slid' = slid, NEW w \in Workers, Others(w), GivenBack(w),
           work[w].at \in Processes, work'[w].token = 0
    PROVE  Allowance'
<1> DEFINE t == work[w].token
           a == work[w].at
<1>1. /\ reserved \in Nat /\ slid \in 0..reserved /\ charged \subseteq 1..reserved
      /\ recent \in [Processes -> SUBSET (1..reserved)] /\ charged' = charged /\ t \in 0..reserved
  BY DEF Allowance, GivenBack
<1>2. recent' = [recent EXCEPT ![a] = IF recent[a] = {} THEN recent[a] ELSE recent[a] \ {Max(recent[a])}]
  BY DEF GivenBack, Refund
<1>3. recent' \in [Processes -> SUBSET (1..reserved)]
  BY <1>1, <1>2
<1>4. ASSUME NEW v \in Workers PROVE work'[v].token = IF v = w THEN 0 ELSE work[v].token
  BY DEF Others
<1>5. \A v \in Workers : work'[v].token \in 0..reserved \ charged
  BY <1>1, <1>4 DEF Allowance
<1>6. \A u, v \in Workers : work'[u].token # 0 /\ work'[u].token = work'[v].token => u = v
  BY <1>4 DEF Allowance
<1>7. ASSUME NEW p \in Processes, NEW s \in slid..reserved
      PROVE  LET taken == {i \in recent'[p] : i > s}
                 with == {v \in Workers : work'[v].token > s /\ work'[v].at = p}
             IN Cardinality(taken) <= Cardinality(with) + Cardinality(Paid(s))
  <2> DEFINE taken == {i \in recent'[p] : i > s}
             with == {v \in Workers : work'[v].token > s /\ work'[v].at = p}
  <2>1. /\ IsFiniteSet(Taken(p, s)) /\ IsFiniteSet(Spenders(p, s)) /\ Cardinality(Taken(p, s)) \in Nat
        /\ Cardinality(Spenders(p, s)) \in Nat /\ Cardinality(Paid(s)) \in Nat
    BY TokensFinite
  <2>2. Cardinality(Taken(p, s)) <= Cardinality(Spenders(p, s)) + Cardinality(Paid(s))
    BY DEF Allowance
  <2>3. with = Spenders(p, s) \ {w}
    BY <1>1, <1>4 DEF Spenders, Others
  <2>4. CASE p # a
    <3>1. taken = Taken(p, s) /\ w \notin Spenders(p, s)
      BY <1>1, <1>2, <2>4 DEF Taken, Spenders
    <3>2. with = Spenders(p, s)
      BY <2>3, <3>1
    <3> HIDE DEF taken, with
    <3> QED
      BY <2>2, <3>1, <3>2, Zenon DEF taken, with
  <2>5. CASE p = a /\ Taken(p, s) = {}
    <3>1. taken = {}
      BY <1>1, <1>2, <2>5 DEF Taken
    <3> HIDE DEF taken, with
    <3>2. Cardinality(taken) = 0
      BY <3>1, FS_EmptySet
    <3>3. Cardinality(with) \in Nat
      BY <2>1, <2>3, FS_Subset, FS_CardinalityType
    <3>4. Cardinality(taken) <= Cardinality(with) + Cardinality(Paid(s))
      BY <2>1, <3>2, <3>3
    <3> QED
      BY <3>4 DEF taken, with
  <2>6. CASE p = a /\ Taken(p, s) # {}
    <3> PICK m : m = Max(recent[a])
      OBVIOUS
    <3>1. recent[a] # {} /\ recent[a] \subseteq 1..reserved
      BY <1>1, <2>6 DEF Taken
    <3>2. m \in recent[a] /\ \A i \in recent[a] : i <= m
      <4>1. recent[a] \in SUBSET (0..reserved)
        BY <1>1, <3>1
      <4> QED
        BY <1>1, <3>1, <4>1, MaxIn, Zenon
    <3>3. m \in Taken(p, s)
      <4> PICK i \in recent[a] : i > s
        BY <2>6 DEF Taken
      <4> QED
        BY <1>1, <2>6, <3>1, <3>2 DEF Taken
    <3>4. recent'[a] = recent[a] \ {m}
      BY <1>1, <1>2, <2>6, <3>1
    <3>5. taken = Taken(p, s) \ {m}
      BY <2>6, <3>4 DEF Taken
    <3> HIDE DEF taken, with
    <3>6. Cardinality(taken) = Cardinality(Taken(p, s)) - 1
      BY <2>1, <3>3, <3>5, FS_RemoveElement, Zenon
    <3>7. Cardinality(with) \in Nat /\ Cardinality(Spenders(p, s)) <= Cardinality(with) + 1
      <4>1. CASE w \in Spenders(p, s)
        BY <2>1, <2>3, <4>1, FS_Subset, FS_CardinalityType, FS_RemoveElement
      <4>2. CASE w \notin Spenders(p, s)
        <5>1. with = Spenders(p, s)
          BY <2>3, <4>2
        <5> QED
          BY <2>1, <5>1
      <4> QED
        BY <4>1, <4>2
    <3>8. Cardinality(taken) <= Cardinality(with) + Cardinality(Paid(s))
      BY <2>1, <2>2, <3>6, <3>7
    <3> QED
      BY <3>8 DEF taken, with
  <2> QED
    BY <2>4, <2>5, <2>6
<1> QED
  BY <1>1, <1>3, <1>5, <1>6, <1>7 DEF Paid, Allowance, Taken, Spenders

\* Whoever writes to the forge holds a token.
Paying == \A w \in Workers : work[w].pc \in Writing => work[w].token # 0

\* A handler that does not write neither takes a token nor pays with one.
LEMMA UnpaidTurn ==
    ASSUME Typed, Allowance, Paying, NEW w \in Workers, NEW next, Turns(w, next), work[w].pc \notin Writing,
           \A y \in next : y.token \in {0, work[w].token} /\ y.pc \notin Writing,
           reserved' = reserved, charged' = charged, slid' = slid,
           recent' \in [Processes -> SUBSET (1..reserved)], \A p \in Processes : recent'[p] \subseteq recent[p]
    PROVE  Allowance' /\ Paying'
<1>1. work[w].token = 0
  BY AtWork DEF JobOK
<1>2. work'[w].token = 0 /\ work'[w].pc \notin Writing /\ Others(w)
  BY <1>1 DEF Turns
<1>3. \A v \in Workers : work[v].token # 0 => work'[v] = work[v]
  BY <1>1, <1>2 DEF Others
<1>4. \A v \in Workers : work'[v].token \in {0, work[v].token}
  BY <1>1, <1>2 DEF Others
<1>5. slid' \in slid..reserved
  BY DEF Allowance
<1>6. Allowance'
  BY <1>3, <1>4, <1>5, QuietAllowance
<1>7. Paying'
  BY <1>2 DEF Paying, Others
<1> QED
  BY <1>6, <1>7

\* A handler that writes keeps its token, pays with it, or gives one back.
LEMMA PaidTurn ==
    ASSUME Typed, Allowance, Paying, NEW w \in Workers, work[w].pc \in Writing,
           reserved' = reserved, slid' = slid, NEW pc, NEW target,
           LET x == work[w]
           IN \/ /\ charged' = charged /\ recent' = recent /\ pc \in Writing
                 /\ Turns(w, Jobs(x, pc, x.tc, x.lock, target, x.token, x.chat))
              \/ Spent(w) /\ pc \notin Writing /\ Turns(w, Jobs(x, pc, x.tc, x.lock, target, 0, x.chat))
              \/ GivenBack(w) /\ pc \notin Writing /\ Turns(w, Jobs(x, pc, x.tc, x.lock, target, 0, x.chat))
    PROVE  Allowance' /\ Paying'
<1> DEFINE x == work[w]
<1>1. x.token # 0 /\ x.at \in Processes
  BY AtWork DEF Writing, Paying
<1>2. Others(w) /\ work'[w].pc = pc /\ work'[w].at = x.at
  BY DEF Turns, Jobs
<1>3. CASE /\ charged' = charged /\ recent' = recent /\ pc \in Writing
           /\ Turns(w, Jobs(x, pc, x.tc, x.lock, target, x.token, x.chat))
  <2>1. work'[w].token = x.token
    BY <1>3 DEF Turns, Jobs
  <2>2. \A v \in Workers : work'[v].token = work[v].token /\ work'[v].at = work[v].at
    BY <1>2, <2>1 DEF Others
  <2>3. slid' \in slid..reserved /\ recent' \in [Processes -> SUBSET (1..reserved)]
    BY <1>3 DEF Allowance
  <2>4. Allowance'
    BY <1>3, <2>2, <2>3, QuietAllowance
  <2>5. Paying'
    BY <1>1, <1>2, <2>1 DEF Paying, Others
  <2> QED
    BY <2>4, <2>5
<1>4. CASE Spent(w) /\ pc \notin Writing /\ Turns(w, Jobs(x, pc, x.tc, x.lock, target, 0, x.chat))
  <2>1. work'[w].token = 0
    BY <1>4 DEF Turns, Jobs
  <2>2. Allowance'
    BY <1>1, <1>2, <1>4, <2>1, SpendAllowance
  <2>3. Paying'
    BY <1>2, <1>4 DEF Paying, Others
  <2> QED
    BY <2>2, <2>3
<1>5. CASE GivenBack(w) /\ pc \notin Writing /\ Turns(w, Jobs(x, pc, x.tc, x.lock, target, 0, x.chat))
  <2>1. work'[w].token = 0
    BY <1>5 DEF Turns, Jobs
  <2>2. Allowance'
    BY <1>1, <1>2, <1>5, <2>1, RefundAllowance
  <2>3. Paying'
    BY <1>2, <1>5 DEF Paying, Others
  <2> QED
    BY <2>2, <2>3
<1> QED
  BY <1>3, <1>4, <1>5

\* Every step of a handler.
LEMMA HandlerAllowance ==
    ASSUME Orderly, Allowance, Paying, NEW w \in Workers, Handler(w)
    PROVE  Allowance' /\ Paying'
<1> DEFINE x == work[w]
<1>1. /\ Typed /\ LocksOK /\ TargetFits(x.pc, x.tc, x.target, prs) /\ scene.roots \subseteq Roots /\ reserved \in Nat
      /\ recent \in [Processes -> SUBSET (1..reserved)] /\ JobOK(x, born, prs)
  BY Bounds, AtWork DEF Orderly, Typed, TargetsOK, Allowance
<1>2. NoWork.token = 0 /\ NoWork.pc \notin Writing
  BY NoJob DEF Writing
<1>3. ASSUME NEW root \in scene.roots, NEW m, NEW key \in Keys, HandleMention(w, root, m, key)
      PROVE  Allowance' /\ Paying'
  <2>1. x.pc = "idle" /\ \E c : Turns(w, {NoWork} \cup Starts(c, key)) \/ Turns(w, {NoWork})
    BY <1>1, <1>3, MentionTurns, Zenon
  <2>2. x.pc \notin Writing /\ \A c : \A y \in {NoWork} \cup Starts(c, key) : y.token = 0 /\ y.pc \notin Writing
    BY <1>2, <2>1 DEF Starts, Writing
  <2>3. reserved' = reserved /\ charged' = charged /\ slid' = slid /\ recent' = recent
    BY <1>3 DEF HandleMention
  <2> QED
    BY <1>1, <1>2, <2>1, <2>2, <2>3, UnpaidTurn
<1>4. ASSUME (\E e \in Estimates : Allow(w, e)) \/ Panic(w) \/ \E e \in Estimates, noted \in scene.drafts : Answer(w, e, noted)
      PROVE  Allowance' /\ Paying'
  <2> DEFINE asked == Jobs(x, "complete", x.tc, x.lock, x.target, x.token, Now)
             told == Jobs(x, "lockRoot", x.tc, x.lock, x.target, x.token, x.chat)
  <2>1. Turns(w, {NoWork} \cup asked) \/ Turns(w, {NoWork} \cup told) \/ Turns(w, {NoWork})
    BY <1>1, <1>4, AllowTurns, PanicTurns, AnswerTurns, Zenon
  <2>2. /\ x.pc \notin Writing
        /\ \A y \in {NoWork} \cup asked \cup told : y.token \in {0, x.token} /\ y.pc \notin Writing
    BY <1>2, <1>4, Zenon DEF Allow, Panic, Answer, Jobs, Writing
  <2>3. reserved' = reserved /\ charged' = charged /\ slid' = slid /\ recent' = recent
    BY <1>4, Zenon DEF Allow, Panic, Answer, ChatUnchanged
  <2> HIDE DEF asked, told
  <2> QED
    BY <1>1, <2>1, <2>2, <2>3, UnpaidTurn
<1>5. ASSUME LockRoot(w) \/ Unlock(w) \/ Drop(w) \/ WriteBack(w) \/ Count(w)
      PROVE  Allowance' /\ Paying'
  <2>1. \E y \in {NoWork, work'[w]} : Turns(w, {y}) /\ y.token \in {0, x.token} /\ y.pc \notin Writing
    <3>1. ASSUME NEW pc, pc \notin Writing, NEW lock, Turns(w, Jobs(x, pc, x.tc, lock, x.target, x.token, x.chat))
          PROVE  Turns(w, {work'[w]}) /\ work'[w].token = x.token /\ work'[w].pc \notin Writing
      BY <3>1 DEF Turns, Jobs
    <3>2. "wait" \notin Writing /\ "drop" \notin Writing /\ "count" \notin Writing /\ "unlock" \notin Writing
      BY DEF Writing
    <3>3. CASE LockRoot(w)
      BY <1>1, <3>1, <3>2, <3>3, LockRootTurns, Zenon
    <3>4. CASE Unlock(w)
      BY <1>1, <3>1, <3>2, <3>4, UnlockTurns, Zenon
    <3>5. CASE Drop(w)
      BY <1>1, <1>2, <3>5, DropTurns, Zenon
    <3>6. CASE WriteBack(w)
      BY <1>1, <3>1, <3>2, <3>6, WriteBackTurns, Zenon DEF WriteBack, TargetFits
    <3>7. CASE Count(w)
      BY <1>1, <3>1, <3>2, <3>7, CountTurns, Zenon
    <3> QED
      BY <1>5, <3>3, <3>4, <3>5, <3>6, <3>7
  <2>2. x.pc \notin Writing
    BY <1>5, Zenon DEF LockRoot, Unlock, Drop, WriteBack, Count, Writing
  <2>3. reserved' = reserved /\ charged' = charged /\ slid' = slid /\ recent' = recent
    BY <1>5, Zenon DEF LockRoot, Unlock, Drop, WriteBack, Count
  <2> QED
    BY <1>1, <2>1, <2>2, <2>3, UnpaidTurn
<1>6. ASSUME Enter(w)
      PROVE  Allowance' /\ Paying'
  <2> PICK c : c = Fresh(x)
    OBVIOUS
  <2> PICK n : n = After(c, NoPR)
    OBVIOUS
  <2>1. x.pc = "wait" /\ x.pc \notin Writing /\ charged' = charged /\ slid' = slid
    BY <1>6, Zenon DEF Enter, Writing
  <2>2. x.token = 0 /\ x.at \in Processes
    BY <1>1, <2>1, AtWork DEF JobOK
  <2>3. CASE /\ Turns(w, Jobs(x, "unlock", c, x.lock, x.target, x.token, x.chat))
             /\ reserved' = reserved
             /\ recent' = [recent EXCEPT ![x.at] = IF c.notes >= MaxNotes THEN @ ELSE Window(x.at)]
    <3>1. recent' \in [Processes -> SUBSET (1..reserved)] /\ \A p \in Processes : recent'[p] \subseteq recent[p]
      BY <1>1, <2>2, <2>3 DEF Window
    <3>2. \A y \in Jobs(x, "unlock", c, x.lock, x.target, x.token, x.chat) : y.token = x.token /\ y.pc \notin Writing
      BY DEF Jobs, Writing
    <3> QED
      BY <1>1, <2>1, <2>3, <3>1, <3>2, UnpaidTurn
  <2>4. CASE /\ Turns(w, Jobs(x, Routed(n), c, x.lock, n, reserved + 1, x.chat))
             /\ reserved' = reserved + 1
             /\ recent' = [recent EXCEPT ![x.at] = Window(x.at) \cup {reserved + 1}]
    <3>1. Others(w) /\ work'[w].token = reserved + 1 /\ work'[w].at = x.at
      BY <2>4 DEF Turns, Jobs
    <3>2. Allowance'
      BY <2>1, <2>2, <2>4, <3>1, TakeAllowance, Zenon
    <3>3. Paying'
      BY <1>1, <3>1 DEF Paying, Others
    <3> QED
      BY <3>2, <3>3
  <2> QED
    BY <1>1, <1>6, <2>3, <2>4, EnterTurns, Zenon
<1>7. ASSUME IsOpen(w) \/ AppendToEntry(w) \/ CommentOnPR(w) \/ OpenPR(w)
      PROVE  Allowance' /\ Paying'
  <2>1. x.pc \in Writing /\ reserved' = reserved /\ slid' = slid
    BY <1>7, Zenon DEF IsOpen, AppendToEntry, CommentOnPR, OpenPR, Writing
  <2>2. x.pc \in {"append", "comment"} => x.target # NoPR
    BY <1>1 DEF TargetFits
  <2>3. \A n : Routed(n) \in Writing
    BY DEF Routed, Writing
  <2>4. /\ "append" \in Writing /\ "comment" \in Writing
        /\ "count" \notin Writing /\ "unlock" \notin Writing /\ "writeBack" \notin Writing
    BY DEF Writing
  <2> PICK n : n = After(x.tc, x.target)
    OBVIOUS
  <2> PICK pc : pc = IF x.target = x.tc.noteUrl THEN "append" ELSE "comment"
    OBVIOUS
  <2>5. CASE IsOpen(w)
    BY <1>1, <2>1, <2>3, <2>4, <2>5, IsOpenTurns, PaidTurn
  <2>6. CASE AppendToEntry(w)
    <3>1. \/ Spent(w) /\ Turns(w, Jobs(x, "count", x.tc, x.lock, x.target, 0, x.chat))
          \/ /\ charged' = charged /\ recent' = recent
             /\ Turns(w, Jobs(x, Routed(n), x.tc, x.lock, n, x.token, x.chat))
          \/ /\ charged' = charged /\ recent' = recent
             /\ Turns(w, Jobs(x, "comment", x.tc, x.lock, x.target, x.token, x.chat))
      <4>1. x.target # NoPR
        BY <2>2, <2>6 DEF AppendToEntry
      <4> QED
        BY <1>1, <2>6, <4>1, AppendTurns
    <3> QED
      BY <1>1, <2>1, <2>3, <2>4, <3>1, PaidTurn, Zenon
  <2>7. CASE CommentOnPR(w)
    <3>1. \/ Spent(w) /\ Turns(w, Jobs(x, "count", x.tc, x.lock, x.target, 0, x.chat))
          \/ GivenBack(w) /\ Turns(w, Jobs(x, "unlock", x.tc, x.lock, x.target, 0, x.chat))
      <4>1. x.target # NoPR
        BY <2>2, <2>7 DEF CommentOnPR
      <4> QED
        BY <1>1, <2>7, <4>1, CommentTurns
    <3> QED
      BY <1>1, <2>1, <2>4, <3>1, PaidTurn
  <2>8. CASE OpenPR(w)
    BY <1>1, <2>1, <2>4, <2>8, OpenTurns, PaidTurn, Zenon
  <2> QED
    BY <1>7, <2>5, <2>6, <2>7, <2>8
<1> QED
  BY <1>3, <1>4, <1>5, <1>6, <1>7 DEF Handler

\* Every step.
LEMMA NextAllowance ==
    ASSUME Orderly, Allowance, Paying, [Next]_vars
    PROVE  Allowance' /\ Paying'
<1>1. /\ Typed /\ LocksOK /\ reserved \in Nat /\ slid \in 0..reserved
      /\ recent \in [Processes -> SUBSET (1..reserved)]
  BY DEF Orderly, Allowance
<1>2. ASSUME work' = work, recent' = recent, reserved' = reserved, charged' = charged, slid' \in slid..reserved
      PROVE  Allowance' /\ Paying'
  BY <1>1, <1>2, QuietAllowance DEF Paying
<1>3. ASSUME \/ \E root \in scene.roots, c \in BOOLEAN : Register(root, c)
             \/ \E n \in DOMAIN prs : Close(n)
             \/ Tick \/ ChatSlide \/ (\E p \in Processes : Failover(p)) \/ UNCHANGED vars
      PROVE  Allowance' /\ Paying'
  BY <1>1, <1>2, <1>3 DEF Register, Close, Tick, ChatSlide, ChatUnchanged, Failover, vars
<1>4. ASSUME Slide
      PROVE  Allowance' /\ Paying'
  BY <1>1, <1>2, <1>4 DEF Slide
<1>5. ASSUME NEW p \in Processes, NEW tear \in BOOLEAN, Restart(p, tear)
      PROVE  Allowance' /\ Paying'
  <2>1. WorkSurvives(p)
    BY <1>1, <1>5, RestartTyped
  <2>2. /\ reserved' = reserved /\ charged' = charged /\ slid' \in slid..reserved
        /\ recent' = [recent EXCEPT ![p] = {}]
    BY <1>1, <1>5 DEF Restart
  <2>3. \A w \in Workers : work'[w].token \in {0, work[w].token}
    BY <2>1, NoJob DEF WorkSurvives
  <2>4. ASSUME NEW q \in Processes
        PROVE  \/ recent'[q] = {}
               \/ /\ \A i \in recent'[q] : i > slid' => i \in recent[q]
                  /\ \A w \in Workers : work[w].token # 0 /\ work[w].at = q =>
                        work'[w].token = work[w].token /\ work'[w].at = q
    BY <1>1, <2>1, <2>2 DEF WorkSurvives, Mine
  <2>5. Allowance'
    BY <1>1, <2>2, <2>3, <2>4, QuietAllowance
  <2>6. Paying'
    BY <2>1, NoJob DEF Writing, Paying, WorkSurvives
  <2> QED
    BY <2>5, <2>6
<1> QED
  BY <1>3, <1>4, <1>5, HandlerAllowance DEF Next

\* Nothing is taken in the beginning.
LEMMA InitAllowance ==
    ASSUME Init
    PROVE  Allowance /\ Paying
<1>1. /\ reserved = 0 /\ slid = 0 /\ charged = {} /\ \A w \in Workers : work[w] = NoWork
      /\ recent = [p \in Processes |-> {}]
  BY DEF Init
<1>2. ASSUME NEW p \in Processes, NEW s
      PROVE  Cardinality(Taken(p, s)) <= Cardinality(Spenders(p, s)) + Cardinality(Paid(s))
  <2>1. Taken(p, s) = {} /\ Paid(s) = {}
    BY <1>1 DEF Taken, Paid
  <2>2. Spenders(p, s) \subseteq Workers
    BY DEF Spenders
  <2>3. Cardinality(Spenders(p, s)) \in Nat
    BY <2>2, Bounds, FS_Subset, FS_CardinalityType
  <2> QED
    BY <2>1, <2>3, FS_EmptySet
<1>3. \A w \in Workers : work[w].token = 0 /\ work[w].pc \notin Writing
  BY <1>1, NoJob DEF Writing
<1> QED
  BY <1>1, <1>2, <1>3 DEF Allowance, Paying

\* The tokens in the window are those of handlers still at it and of writes that landed.
LEMMA AllowanceIsFree ==
    ASSUME Orderly, Allowance
    PROVE  OutageIsFree
<1> SUFFICES ASSUME NEW p \in Processes
             PROVE  Cardinality(Taken(p, slid))
                    <= Cardinality({w \in Workers : work[w].token # 0 /\ work[w].at = p}) + Cardinality(Paid(slid))
  BY DEF OutageIsFree, Taken, Paid
<1> DEFINE spenders == {w \in Workers : work[w].token # 0 /\ work[w].at = p}
<1>1. Cardinality(Taken(p, slid)) <= Cardinality(Spenders(p, slid)) + Cardinality(Paid(slid))
  BY DEF Allowance
<1>2. Spenders(p, slid) \subseteq spenders /\ spenders \subseteq Workers
  BY DEF Allowance, Spenders
<1> HIDE DEF spenders
<1>3. IsFiniteSet(spenders) /\ Cardinality(spenders) \in Nat
  BY <1>2, Bounds, FS_Subset, FS_CardinalityType
<1>4. Cardinality(Spenders(p, slid)) <= Cardinality(spenders)
  BY <1>2, <1>3, FS_Subset
<1>5. Cardinality(Taken(p, slid)) <= Cardinality(spenders) + Cardinality(Paid(slid))
  BY <1>1, <1>3, <1>4, TokensFinite
<1> QED
  BY <1>5 DEF spenders

\* An outage of the forge costs no allowance: what a process has taken in the window is
\* with its handlers or has paid for a note that landed (window.go:56).
THEOREM OutagesAreFree == Spec => []OutageIsFree
<1>1. Init => Orderly /\ Allowance /\ Paying
  BY InitOrderly, InitAllowance
<1>2. Orderly /\ Allowance /\ Paying /\ [Next]_vars => (Orderly /\ Allowance /\ Paying)'
  BY NextOrderly, NextAllowance DEF Allowance
<1>3. Orderly /\ Allowance => OutageIsFree
  BY AllowanceIsFree
<1> QED
  BY <1>1, <1>2, <1>3, PTL DEF Spec

-----------------------------------------------------------------------------
(* Sums.                                                                   *)

\* The loop of Total.
SumLoop(s, f, n) == s = [i \in 0..n |-> IF i = 0 THEN 0 ELSE s[i - 1] + f[i]]

\* It runs to its end.
LEMMA SumExists ==
    ASSUME NEW n \in Nat, NEW f, \A i \in 1..n : f[i] \in Nat
    PROVE  \E s \in [0..n -> Nat] :
              s[0] = 0 /\ (\A i \in 1..n : s[i] = s[i - 1] + f[i]) /\ Total(f, n) = s[n]
<1> DEFINE next == [i \in 1..n |-> [x \in Nat |-> x + f[i]]]
<1>1. next \in [1..n -> [Nat -> Nat]]
  OBVIOUS
<1>2. PICK g : g \in [0..n -> Nat] /\ g[0] = 0 /\ \A i \in 1..n : g[i] = next[i][g[i - 1]]
  <2> HIDE DEF next
  <2>1. \E g : Loops(g, n, n, Nat, 0, next)
    BY <1>1, LoopExists, Zenon
  <2> QED
    BY <2>1, Zenon DEF Loops
<1>3. ASSUME NEW i \in 1..n PROVE g[i] = g[i - 1] + f[i]
  <2>1. PICK x \in Nat : x = g[i - 1]
    BY <1>2
  <2>2. g[i] = next[i][x]
    <3> HIDE DEF next
    <3> QED
      BY <1>2, <2>1
  <2> QED
    BY <2>1, <2>2
<1>4. SumLoop(g, f, n)
  <2>1. g = [i \in 0..n |-> g[i]]
    BY <1>2
  <2>2. ASSUME NEW i \in 0..n PROVE g[i] = IF i = 0 THEN 0 ELSE g[i - 1] + f[i]
    BY <1>2, <1>3
  <2>3. [i \in 0..n |-> g[i]] = [i \in 0..n |-> IF i = 0 THEN 0 ELSE g[i - 1] + f[i]]
    BY <2>2
  <2> QED
    BY <2>1, <2>3 DEF SumLoop
<1>5. PICK s : s = CHOOSE h : SumLoop(h, f, n)
  OBVIOUS
<1>6. SumLoop(s, f, n)
  BY <1>4, <1>5
<1>7. Total(f, n) = s[n]
  BY <1>5 DEF Total, SumLoop
<1>8. \A k \in 0..n : s[k] = g[k]
  <2> DEFINE good == {k \in 0..n : s[k] = g[k]}
  <2>1. \A i \in 0..n : s[i] = IF i = 0 THEN 0 ELSE s[i - 1] + f[i]
    BY <1>6, Zenon DEF SumLoop
  <2>2. 0 \in good
    BY <1>2, <2>1
  <2>3. ASSUME NEW k \in 0..n, k \in good, k < n PROVE k + 1 \in good
    <3>1. PICK j \in 1..n : j = k + 1 /\ j - 1 = k /\ j # 0 /\ j \in 0..n
      BY <2>3
    <3>2. s[j] = IF j = 0 THEN 0 ELSE s[j - 1] + f[j]
      BY <2>1, <3>1, Zenon
    <3>3. g[j] = g[j - 1] + f[j]
      BY <1>3, Zenon
    <3> QED
      BY <2>3, <3>1, <3>2, <3>3
  <2>4. \A k \in 0..n : k \in good
    <3> HIDE DEF good
    <3> QED
      BY <2>2, <2>3, UpTo
  <2> QED
    BY <2>4
<1> QED
  BY <1>2, <1>3, <1>7, <1>8

\* It is a number.
LEMMA TotalType ==
    ASSUME NEW n \in Nat, NEW f, \A i \in 1..n : f[i] \in Nat
    PROVE  Total(f, n) \in Nat
<1>1. PICK s \in [0..n -> Nat] : Total(f, n) = s[n]
  BY SumExists, Zenon
<1> QED
  BY <1>1

\* A function has the numbers of another, and more of one of them.
Raised(g, f, n, k, d) == \A i \in 1..n : g[i] = IF i = k THEN f[i] + d ELSE f[i]

\* Two sums differ by what the functions do, at one place if there is one.
LEMMA TotalDiffers ==
    ASSUME NEW n \in Nat, NEW f, \A i \in 1..n : f[i] \in Nat, NEW g, NEW k \in Int, NEW d \in Nat, Raised(g, f, n, k, d)
    PROVE  /\ Total(f, n) \in Nat
           /\ Total(g, n) = IF k \in 1..n THEN Total(f, n) + d ELSE Total(f, n)
<1>0. \A i \in 1..n : g[i] = IF i = k THEN f[i] + d ELSE f[i]
  BY DEF Raised
<1>1. \A i \in 1..n : g[i] \in Nat
  BY <1>0
<1>2. PICK s \in [0..n -> Nat] : s[0] = 0 /\ (\A i \in 1..n : s[i] = s[i - 1] + f[i]) /\ Total(f, n) = s[n]
  BY SumExists, Zenon
<1>3. PICK t \in [0..n -> Nat] : t[0] = 0 /\ (\A i \in 1..n : t[i] = t[i - 1] + g[i]) /\ Total(g, n) = t[n]
  BY <1>1, SumExists, Zenon
<1> DEFINE good == {i \in 0..n : t[i] = IF k \in 1..i THEN s[i] + d ELSE s[i]}
<1>4. 0 \in good
  BY <1>2, <1>3
<1>5. ASSUME NEW i \in 0..n, i \in good, i < n PROVE i + 1 \in good
  <2>1. PICK j \in 1..n : j = i + 1 /\ j - 1 = i /\ j \in 0..n
    BY <1>5
  <2>2. s[j] = s[i] + f[j] /\ t[j] = t[i] + g[j]
    BY <1>2, <1>3, <2>1, Zenon
  <2>3. s[i] \in Nat /\ s[j] \in Nat /\ f[j] \in Nat /\ t[i] \in Nat /\ t[j] \in Nat /\ g[j] \in Nat
    BY <1>1, <1>2, <1>3, <2>1
  <2>4. k \in 1..j <=> k \in 1..i \/ k = j
    BY <2>1
  <2>5. k = j => k \notin 1..i
    BY <2>1
  <2>6. t[j] = IF k \in 1..j THEN s[j] + d ELSE s[j]
    <3>1. t[i] = IF k \in 1..i THEN s[i] + d ELSE s[i]
      BY <1>5
    <3>2. CASE k = j
      <4>1. t[i] = s[i] /\ g[j] = f[j] + d /\ k \in 1..j
        BY <1>0, <2>4, <2>5, <3>1, <3>2
      <4>2. t[j] = s[i] + (f[j] + d)
        BY <2>2, <4>1, Zenon
      <4>3. s[i] + (f[j] + d) = (s[i] + f[j]) + d
        BY <2>3
      <4>4. t[j] = s[j] + d
        BY <2>2, <4>2, <4>3, Zenon
      <4> QED
        BY <4>1, <4>4
    <3>3. CASE k # j /\ k \in 1..i
      <4>1. t[i] = s[i] + d /\ g[j] = f[j] /\ k \in 1..j
        BY <1>0, <2>4, <3>1, <3>3
      <4>2. t[j] = (s[i] + d) + f[j]
        BY <2>2, <4>1, Zenon
      <4>3. (s[i] + d) + f[j] = (s[i] + f[j]) + d
        BY <2>3
      <4>4. t[j] = s[j] + d
        BY <2>2, <4>2, <4>3, Zenon
      <4> QED
        BY <4>1, <4>4
    <3>4. CASE k # j /\ k \notin 1..i
      BY <1>0, <2>2, <2>3, <2>4, <3>1, <3>4
    <3> QED
      BY <3>2, <3>3, <3>4
  <2> QED
    BY <2>1, <2>6
<1>6. \A i \in 0..n : i \in good
  <2> HIDE DEF good
  <2> QED
    BY <1>4, <1>5, UpTo, Zenon
<1>7. n \in good
  BY <1>6
<1> QED
  BY <1>2, <1>3, <1>7

\* One more number is added.
LEMMA TotalMore ==
    ASSUME NEW n \in Nat, NEW f, \A i \in 1..n : f[i] \in Nat,
           NEW g, \A i \in 1..n : g[i] = f[i], g[n + 1] \in Nat
    PROVE  Total(g, n + 1) = Total(f, n) + g[n + 1] /\ Total(f, n) \in Nat
<1>1. Total(f, n) \in Nat /\ Total(g, n) = Total(f, n)
  <2>0. PICK z \in Nat : z = 0
    OBVIOUS
  <2>1. z \in Int /\ z \in Nat /\ z \notin 1..n /\ \A i \in 1..n : f[i] \in Nat
    BY <2>0
  <2>2. Raised(g, f, n, z, z)
    BY <2>0 DEF Raised
  <2>3. /\ Total(f, n) \in Nat
        /\ Total(g, n) = IF z \in 1..n THEN Total(f, n) + z ELSE Total(f, n)
    BY <2>0, <2>1, <2>2, TotalDiffers
  <2> QED
    BY <2>0, <2>1, <2>3
<1>2. \A i \in 1..(n + 1) : g[i] \in Nat
  <2> SUFFICES ASSUME NEW i \in 1..(n + 1) PROVE g[i] \in Nat
    OBVIOUS
  <2>1. i \in 1..n \/ i = n + 1
    OBVIOUS
  <2> QED
    BY <2>1
<1>3. PICK s \in [0..(n + 1) -> Nat] :
         s[0] = 0 /\ (\A i \in 1..(n + 1) : s[i] = s[i - 1] + g[i]) /\ Total(g, n + 1) = s[n + 1]
  <2>1. n + 1 \in Nat
    OBVIOUS
  <2> QED
    BY <1>2, <2>1, SumExists, Zenon
<1>4. PICK t \in [0..n -> Nat] : t[0] = 0 /\ (\A i \in 1..n : t[i] = t[i - 1] + g[i]) /\ Total(g, n) = t[n]
  BY SumExists
<1> DEFINE good == {i \in 0..n : s[i] = t[i]}
<1>5. 0 \in good
  BY <1>3, <1>4
<1>6. ASSUME NEW i \in 0..n, i \in good, i < n PROVE i + 1 \in good
  <2>1. PICK j \in 1..n : j = i + 1 /\ j - 1 = i /\ j \in 0..n /\ j \in 1..(n + 1)
    BY <1>6
  <2>2. s[j] = s[i] + g[j] /\ t[j] = t[i] + g[j]
    BY <1>3, <1>4, <2>1, Zenon
  <2> QED
    BY <1>6, <2>1, <2>2, Zenon
<1>7. \A i \in 0..n : i \in good
  <2> HIDE DEF good
  <2> QED
    BY <1>5, <1>6, UpTo, Zenon
<1>8. s[n] = t[n]
  <2>1. n \in good
    <3> HIDE DEF good
    <3> QED
      BY <1>7
  <2> QED
    BY <2>1
<1>9. PICK j \in 1..(n + 1) : j = n + 1 /\ j - 1 = n
  OBVIOUS
<1>10. s[j] = s[j - 1] + g[j]
  BY <1>3, Zenon
<1> QED
  BY <1>1, <1>3, <1>4, <1>8, <1>9, <1>10

\* Nothing adds up to nothing.
LEMMA TotalNone ==
    ASSUME NEW n \in Nat, NEW f, \A i \in 1..n : f[i] = 0
    PROVE  Total(f, n) = 0
<1>1. PICK s \in [0..n -> Nat] : s[0] = 0 /\ (\A i \in 1..n : s[i] = s[i - 1] + f[i]) /\ Total(f, n) = s[n]
  <2>1. \A i \in 1..n : f[i] \in Nat
    OBVIOUS
  <2> QED
    BY <2>1, SumExists, Zenon
<1> DEFINE good == {i \in 0..n : s[i] = 0}
<1>2. 0 \in good
  BY <1>1
<1>3. ASSUME NEW i \in 0..n, i \in good, i < n PROVE i + 1 \in good
  <2>1. PICK j \in 1..n : j = i + 1 /\ j - 1 = i /\ j \in 0..n
    BY <1>3
  <2>2. s[j] = s[i] + f[j]
    BY <1>1, <2>1, Zenon
  <2> QED
    BY <1>3, <2>1, <2>2
<1>4. \A i \in 0..n : i \in good
  <2> HIDE DEF good
  <2> QED
    BY <1>2, <1>3, UpTo, Zenon
<1>5. n \in good
  BY <1>4
<1> QED
  BY <1>1, <1>5

\* What is kept of a sequence keeps its order: e gives the places it had.
LEMMA KeptInOrder ==
    ASSUME NEW X, NEW seq \in Seq(X), NEW set
    PROVE  \E e \in [1..Len(Kept(seq, set)) -> 1..Len(seq)] :
              /\ \A j \in 1..Len(Kept(seq, set)) : Kept(seq, set)[j] = seq[e[j]]
              /\ \A i, j \in 1..Len(Kept(seq, set)) : i < j => e[i] < e[j]
<1> DEFINE n == Len(seq)
           Places(s, k, e) ==
              /\ e \in [1..Len(s) -> 1..k]
              /\ \A j \in 1..Len(s) : s[j] = seq[e[j]]
              /\ \A i, j \in 1..Len(s) : i < j => e[i] < e[j]
           Placed(s, k) == \E e : Places(s, k, e)
<1>1. PICK f \in [0..n -> Seq(X)] : KeptLoop(f, seq, set) /\ Kept(seq, set) = f[n]
  BY KeptExists
<1>2. n \in Nat
  OBVIOUS
<1>3. \A i \in 0..n : f[i] = IF i = 0 THEN <<>>
                             ELSE IF seq[i] \in set THEN Append(f[i - 1], seq[i]) ELSE f[i - 1]
  BY <1>1, Zenon DEF KeptLoop
<1> DEFINE good == {k \in 0..n : Placed(f[k], k)}
<1>4. 0 \in good
  <2>1. f[0] = <<>>
    BY <1>2, <1>3
  <2>2. Places(<<>>, 0, [i \in 1..0 |-> 0])
    OBVIOUS
  <2>3. Placed(<<>>, 0)
    <3> HIDE DEF Places
    <3> QED
      BY <2>2
  <2> HIDE DEF Placed
  <2> QED
    BY <1>2, <2>1, <2>3
<1>5. ASSUME NEW k \in Nat, k + 1 <= n, NEW s \in Seq(X), NEW e, Places(s, k, e)
      PROVE  Placed(s, k + 1) /\ Placed(Append(s, seq[k + 1]), k + 1)
  <2>1. Places(s, k + 1, e)
    BY <1>2, <1>5
  <2>2. PICK m \in Nat : m = Len(s)
    OBVIOUS
  <2>3. PICK d \in [1..m + 1 -> 1..k + 1] : d[m + 1] = k + 1 /\ \A j \in 1..m : d[j] = e[j]
    <3> DEFINE d == [j \in 1..m + 1 |-> IF j = m + 1 THEN k + 1 ELSE e[j]]
    <3>1. \A j \in 1..m + 1 : (IF j = m + 1 THEN k + 1 ELSE e[j]) \in 1..k + 1
      <4>1. e \in [1..m -> 1..k]
        BY <1>5, <2>2
      <4>2. ASSUME NEW j \in 1..m + 1, j # m + 1 PROVE j \in 1..m
        BY <4>2
      <4> HIDE DEF Places
      <4> QED
        BY <4>1, <4>2
    <3>2. d \in [1..m + 1 -> 1..k + 1]
      BY <3>1
    <3>3. d[m + 1] = k + 1 /\ \A j \in 1..m : d[j] = e[j]
      BY <2>2
    <3> HIDE DEF d
    <3> QED
      BY <3>2, <3>3, Zenon
  <2>4. PICK t \in Seq(X) : /\ t = Append(s, seq[k + 1]) /\ Len(t) = m + 1 /\ t[m + 1] = seq[k + 1]
                            /\ \A j \in 1..m : t[j] = s[j]
    <3>1. seq[k + 1] \in X
      BY <1>2, <1>5
    <3> DEFINE x == seq[k + 1]
    <3> HIDE DEF x
    <3>2. x \in X
      BY <3>1 DEF x
    <3>3. /\ Append(s, x) \in Seq(X) /\ Len(Append(s, x)) = m + 1 /\ Append(s, x)[m + 1] = x
          /\ \A j \in 1..m : Append(s, x)[j] = s[j]
      BY <2>2, <3>2
    <3> QED
      BY <3>3, Zenon DEF x
  <2>5. \A j \in 1..m + 1 : j \in 1..m \/ j = m + 1
    BY <2>2
  <2>6. \A j \in 1..m + 1 : t[j] = seq[d[j]]
    BY <1>5, <2>2, <2>3, <2>4, <2>5
  <2>7. ASSUME NEW i \in 1..m + 1, NEW j \in 1..m + 1, i < j PROVE d[i] < d[j]
    <3>1. i \in 1..m /\ d[i] = e[i] /\ e[i] \in 1..k
      <4>1. i # m + 1
        BY <2>2, <2>7
      <4>2. e \in [1..m -> 1..k]
        BY <1>5, <2>2
      <4> HIDE DEF Places
      <4> QED
        BY <2>3, <2>5, <4>1, <4>2, Zenon
    <3>2. CASE j = m + 1
      BY <2>3, <3>1, <3>2
    <3>3. CASE j \in 1..m
      BY <1>5, <2>2, <2>3, <2>7, <3>1, <3>3
    <3> QED
      BY <2>5, <3>2, <3>3
  <2>8. Places(t, k + 1, d)
    BY <2>3, <2>4, <2>6, <2>7, Zenon
  <2> HIDE DEF Places
  <2> QED
    BY <2>1, <2>4, <2>8, Zenon
<1>6. ASSUME NEW k \in 0..n, k \in good, k < n PROVE k + 1 \in good
  <2>1. PICK j \in 0..n : j = k + 1 /\ j # 0 /\ j - 1 = k /\ j \in Nat
    BY <1>2, <1>6
  <2>2. f[j] = IF j = 0 THEN <<>> ELSE IF seq[j] \in set THEN Append(f[j - 1], seq[j]) ELSE f[j - 1]
    BY <1>3, Zenon
  <2>3. PICK s \in Seq(X) : s = f[k]
    BY <1>1
  <2>4. \E e : Places(s, k, e)
    <3> HIDE DEF Places
    <3> QED
      BY <1>6, <2>3
  <2>5. Placed(s, k + 1) /\ Placed(Append(s, seq[k + 1]), k + 1)
    <3>1. k \in Nat /\ k + 1 <= n
      BY <1>2, <1>6
    <3> HIDE DEF Places, Placed, n
    <3> QED
      BY <1>5, <2>4, <3>1
  <2>6. f[j] = s \/ f[j] = Append(s, seq[k + 1])
    <3> HIDE DEF n
    <3> QED
      BY <2>1, <2>2, <2>3
  <2> HIDE DEF Placed
  <2> QED
    BY <2>1, <2>5, <2>6, Zenon
<1>7. n \in good
  <2>1. \A k \in 0..n : k \in good
    <3> HIDE DEF good, n
    <3> QED
      BY <1>2, <1>4, <1>6, UpTo, Zenon
  <2> HIDE DEF good
  <2> QED
    BY <1>2, <2>1
<1>8. Placed(f[n], n)
  <2> HIDE DEF Placed
  <2> QED
    BY <1>7
<1> QED
  BY <1>1, <1>8, Zenon

-----------------------------------------------------------------------------
(* The budget of the chat.                                                 *)

Entry == [at : Nat, tokens : Nat, pending : BOOLEAN]
Budget == [calls : SUBSET Nat, spent : Seq(Entry)]

\* Entries are in the order of their times, and a reservation has a time of its own.
Ordered(s) ==
    \A i, j \in 1..Len(s) : i < j => s[i].at <= s[j].at /\ (s[j].pending => s[i].at < s[j].at)

\* The times of the reservations after one, the calls they may stand for, the calls a
\* process remembers, what those cost that have come back, and what a budget has for them.
Reservations(b, t) == {b.spent[i].at : i \in {j \in 1..Len(b.spent) : b.spent[j].pending /\ b.spent[j].at > t}}
Owing(cs, p, t) == {i \in 1..Len(cs) : i > t /\ cs[i].at = p /\ cs[i].state \in {"flying", "abandoned"}}
CallsOf(cs, p) == {i \in 1..Len(cs) : cs[i].at = p /\ cs[i].state # "forgotten"}
Costs(cs, p) == [i \in 1..Len(cs) |-> IF cs[i].at = p /\ cs[i].state = "recorded" THEN cs[i].cost ELSE 0]
Settlements(b) == [i \in 1..Len(b.spent) |-> IF b.spent[i].pending THEN 0 ELSE b.spent[i].tokens]
Settled(b) == Total(Settlements(b), Len(b.spent))

\* A budget of a process: no entry is older than its calls, reservations are never more than
\* the calls that may be owing from whatever time on, and while no call has left the window
\* what is settled is what the calls cost.
BudgetOK(b, cs, p, cut) ==
    /\ b \in Budget /\ Ordered(b.spent)
    /\ MaxTokens = 0 => b.spent = <<>>
    /\ \A i \in 1..Len(b.spent) :
          b.spent[i].at <= Len(cs) /\ \E m \in CallsOf(cs, p) : m <= b.spent[i].at
    /\ \A t \in cut..Len(cs) : Cardinality(Reservations(b, t)) <= Cardinality(Owing(cs, p, t))
    /\ MaxTokens > 0 /\ (\A m \in CallsOf(cs, p) : m > cut) => Settled(b) = Total(Costs(cs, p), Len(cs))

\* The sets are finite, and the numbers that are summed up are numbers.
LEMMA BudgetFinite ==
    ASSUME NEW b \in Budget, NEW cs \in Seq(Call), NEW p, NEW t
    PROVE  /\ IsFiniteSet(Reservations(b, t)) /\ Cardinality(Reservations(b, t)) \in Nat
           /\ IsFiniteSet(Owing(cs, p, t)) /\ Cardinality(Owing(cs, p, t)) \in Nat
           /\ \A i \in 1..Len(b.spent) : Settlements(b)[i] \in Nat
           /\ \A i \in 1..Len(cs) : Costs(cs, p)[i] \in Nat
           /\ Settled(b) \in Nat /\ Total(Costs(cs, p), Len(cs)) \in Nat
<1>1. b.spent \in Seq(Entry) /\ Len(b.spent) \in Nat /\ \A i \in 1..Len(b.spent) : b.spent[i] \in Entry
  BY DEF Budget
<1>2. Len(cs) \in Nat /\ \A i \in 1..Len(cs) : cs[i] \in Call
  OBVIOUS
<1>3. IsFiniteSet(Reservations(b, t))
  <2> DEFINE places == {j \in 1..Len(b.spent) : b.spent[j].pending /\ b.spent[j].at > t}
  <2>1. IsFiniteSet(places)
    <3>1. places \subseteq 1..Len(b.spent)
      OBVIOUS
    <3> HIDE DEF places
    <3>2. IsFiniteSet(1..Len(b.spent))
      BY <1>1, FS_Interval
    <3> QED
      BY <3>1, <3>2, FS_Subset, Zenon
  <2>2. Reservations(b, t) = {b.spent[i].at : i \in places}
    BY DEF Reservations
  <2>3. PICK f : f \in Surjection(places, Reservations(b, t))
    <3>1. [i \in places |-> b.spent[i].at] \in Surjection(places, {b.spent[i].at : i \in places})
      <4> HIDE DEF places
      <4> QED
        BY DEF Surjection
    <3> HIDE DEF places
    <3> QED
      BY <2>2, <3>1, Zenon
  <2> HIDE DEF places
  <2> QED
    BY <2>1, <2>3, FS_Surjection
<1>4. IsFiniteSet(Owing(cs, p, t))
  <2>1. IsFiniteSet(1..Len(cs)) /\ Owing(cs, p, t) \subseteq 1..Len(cs)
    BY <1>2, FS_Interval DEF Owing
  <2> QED
    BY <2>1, FS_Subset
<1>5. \A i \in 1..Len(b.spent) : Settlements(b)[i] \in Nat
  BY <1>1, Zenon DEF Settlements, Entry
<1>6. \A i \in 1..Len(cs) : Costs(cs, p)[i] \in Nat
  BY <1>2 DEF Costs, Call
<1>7. Settled(b) \in Nat /\ Total(Costs(cs, p), Len(cs)) \in Nat
  BY <1>1, <1>2, <1>5, <1>6, TotalType DEF Settled
<1> QED
  BY <1>3, <1>4, <1>5, <1>6, <1>7, FS_CardinalityType

\* Sliding a budget: what is left is what is later than the cut, in its order.
LEMMA SlideIs ==
    ASSUME NEW b \in Budget, Ordered(b.spent), NEW cut
    PROVE  LET s == slideLocked(b, cut)
           IN /\ s \in Budget /\ Ordered(s.spent)
              /\ \A i \in 1..Len(s.spent) : s.spent[i].at > cut /\ \E j \in 1..Len(b.spent) : s.spent[i] = b.spent[j]
              /\ \A t \in Nat : cut <= t /\ cut \in Nat => Reservations(s, t) = Reservations(b, t)
              /\ (\A i \in 1..Len(b.spent) : b.spent[i].at > cut) => s.spent = b.spent
<1> DEFINE q == b.spent
           set == {q[i] : i \in {j \in DOMAIN q : q[j].at > cut}}
           k == Kept(q, set)
<1>1. q \in Seq(Entry) /\ b.calls \in SUBSET Nat
  BY DEF Budget
<1>2. slideLocked(b, cut) = [calls |-> {t \in b.calls : t > cut}, spent |-> k]
  BY DEF slideLocked
<1>3. set = {q[i] : i \in {j \in 1..Len(q) : q[j].at > cut}}
  BY <1>1
<1>4. k \in Seq(Entry) /\ Range(k) = Range(q) \cap set /\ (Range(q) \subseteq set => k = q)
  <2> HIDE DEF set, q
  <2> QED
    BY <1>1, KeptFacts
<1>5. PICK e \in [1..Len(k) -> 1..Len(q)] :
         /\ \A j \in 1..Len(k) : k[j] = q[e[j]]
         /\ \A i, j \in 1..Len(k) : i < j => e[i] < e[j]
  <2> HIDE DEF set, q
  <2> QED
    BY <1>1, KeptInOrder, Zenon
<1> HIDE DEF k
<1>6. \A x : (\E i \in 1..Len(k) : k[i] = x) <=> \E i \in 1..Len(q) : q[i] = x /\ x.at > cut
  <2>1. \A x : x \in Range(k) <=> \E i \in 1..Len(k) : k[i] = x
    BY <1>4 DEF Range
  <2>2. \A x : x \in Range(q) <=> \E i \in 1..Len(q) : q[i] = x
    BY <1>1 DEF Range
  <2>3. \A x : x \in set <=> \E i \in 1..Len(q) : q[i] = x /\ x.at > cut
    BY <1>3, Zenon
  <2> HIDE DEF set
  <2> QED
    BY <1>4, <2>1, <2>2, <2>3, Zenon
<1>7. Ordered(k)
  <2> SUFFICES ASSUME NEW i \in 1..Len(k), NEW j \in 1..Len(k), i < j
               PROVE  k[i].at <= k[j].at /\ (k[j].pending => k[i].at < k[j].at)
    BY DEF Ordered
  <2>1. e[i] \in 1..Len(q) /\ e[j] \in 1..Len(q) /\ e[i] < e[j] /\ k[i] = q[e[i]] /\ k[j] = q[e[j]]
    BY <1>5, Zenon
  <2> HIDE DEF q
  <2> QED
    BY <2>1, Zenon DEF Ordered, q
<1>8. ASSUME NEW t \in Nat, cut <= t, cut \in Nat
      PROVE  {k[i].at : i \in {j \in 1..Len(k) : k[j].pending /\ k[j].at > t}}
             = {q[i].at : i \in {j \in 1..Len(q) : q[j].pending /\ q[j].at > t}}
  <2>1. ASSUME NEW i \in 1..Len(k), k[i].pending, k[i].at > t
        PROVE  \E j \in 1..Len(q) : q[j].pending /\ q[j].at > t /\ q[j].at = k[i].at
    BY <1>6, <2>1, Zenon
  <2>2. ASSUME NEW i \in 1..Len(q), q[i].pending, q[i].at > t
        PROVE  \E j \in 1..Len(k) : k[j].pending /\ k[j].at > t /\ k[j].at = q[i].at
    <3>1. q[i] \in Entry
      BY <1>1
    <3>2. q[i].at \in Nat
      BY <3>1 DEF Entry
    <3>3. q[i].at > cut
      BY <1>8, <2>2, <3>2
    <3>4. \E j \in 1..Len(k) : k[j] = q[i]
      BY <1>6, <3>3, Zenon
    <3> QED
      BY <2>2, <3>4, Zenon
  <2> HIDE DEF q
  <2>3. \A x : x \in {k[i].at : i \in {j \in 1..Len(k) : k[j].pending /\ k[j].at > t}}
              => x \in {q[i].at : i \in {j \in 1..Len(q) : q[j].pending /\ q[j].at > t}}
    BY <2>1
  <2>4. \A x : x \in {q[i].at : i \in {j \in 1..Len(q) : q[j].pending /\ q[j].at > t}}
              => x \in {k[i].at : i \in {j \in 1..Len(k) : k[j].pending /\ k[j].at > t}}
    BY <2>2
  <2> QED
    BY <2>3, <2>4, Zenon
<1>9. (\A i \in 1..Len(q) : q[i].at > cut) => k = q
  <2>1. (\A i \in 1..Len(q) : q[i].at > cut) => Range(q) \subseteq set
    BY <1>1, <1>3 DEF Range
  <2> HIDE DEF set
  <2> QED
    BY <1>4, <2>1
<1>10. slideLocked(b, cut) \in Budget
  BY <1>1, <1>2, <1>4 DEF Budget
<1>11. slideLocked(b, cut).spent = k
  BY <1>2
<1>12. \A i \in 1..Len(k) : k[i].at > cut /\ \E j \in 1..Len(q) : k[i] = q[j]
  BY <1>6, Zenon
<1>13. PICK s : s = slideLocked(b, cut)
  OBVIOUS
<1>14. s \in Budget /\ s.spent = k
  BY <1>10, <1>11, <1>13
<1>15. \A t \in Nat : cut <= t /\ cut \in Nat => Reservations(s, t) = Reservations(b, t)
  <2> SUFFICES ASSUME NEW t \in Nat, cut <= t, cut \in Nat PROVE Reservations(s, t) = Reservations(b, t)
    OBVIOUS
  <2>1. Reservations(s, t) = {k[i].at : i \in {j \in 1..Len(k) : k[j].pending /\ k[j].at > t}}
    BY <1>14 DEF Reservations
  <2>2. Reservations(b, t) = {q[i].at : i \in {j \in 1..Len(q) : q[j].pending /\ q[j].at > t}}
    BY DEF Reservations
  <2> HIDE DEF q
  <2> QED
    BY <1>8, <2>1, <2>2, Zenon
<1>16. /\ s \in Budget /\ Ordered(s.spent)
       /\ \A i \in 1..Len(s.spent) : s.spent[i].at > cut /\ \E j \in 1..Len(b.spent) : s.spent[i] = b.spent[j]
       /\ (\A i \in 1..Len(b.spent) : b.spent[i].at > cut) => s.spent = b.spent
  <2> HIDE DEF q
  <2> QED
    BY <1>7, <1>9, <1>12, <1>14 DEF q
<1> HIDE DEF q
<1> QED
  BY <1>13, <1>15, <1>16

\* Sliding keeps a budget in order.
LEMMA SlideBudget ==
    ASSUME NEW b, NEW cs \in Seq(Call), NEW p, NEW cut \in 0..Len(cs), BudgetOK(b, cs, p, cut)
    PROVE  BudgetOK(slideLocked(b, cut), cs, p, cut)
<1>1. PICK s : s = slideLocked(b, cut)
  OBVIOUS
<1>2. b \in Budget /\ Ordered(b.spent) /\ cut \in Nat /\ Len(cs) \in Nat /\ \A i \in 1..Len(b.spent) : b.spent[i].at \in Nat
  <2>1. b \in Budget /\ Ordered(b.spent)
    BY DEF BudgetOK
  <2>2. cut \in Nat /\ Len(cs) \in Nat
    OBVIOUS
  <2>3. b.spent \in Seq(Entry)
    BY <2>1 DEF Budget
  <2>4. \A i \in 1..Len(b.spent) : b.spent[i] \in Entry
    BY <2>3
  <2> QED
    BY <2>1, <2>2, <2>4 DEF Entry
<1>3. /\ s \in Budget /\ Ordered(s.spent)
      /\ \A i \in 1..Len(s.spent) : s.spent[i].at > cut /\ \E j \in 1..Len(b.spent) : s.spent[i] = b.spent[j]
      /\ \A t \in Nat : cut <= t => Reservations(s, t) = Reservations(b, t)
      /\ (\A i \in 1..Len(b.spent) : b.spent[i].at > cut) => s.spent = b.spent
  BY <1>1, <1>2, SlideIs, Zenon
<1>4. \A i \in 1..Len(s.spent) : s.spent[i].at <= Len(cs) /\ \E m \in CallsOf(cs, p) : m <= s.spent[i].at
  BY <1>3, Zenon DEF BudgetOK
<1>5. MaxTokens = 0 => s.spent = <<>>
  <2> SUFFICES ASSUME MaxTokens = 0 PROVE s.spent = <<>>
    OBVIOUS
  <2>1. \A i \in 1..Len(b.spent) : b.spent[i].at > cut
    BY DEF BudgetOK
  <2> QED
    BY <1>3, <2>1 DEF BudgetOK
<1>6. \A t \in cut..Len(cs) : Cardinality(Reservations(s, t)) <= Cardinality(Owing(cs, p, t))
  BY <1>2, <1>3 DEF BudgetOK
<1>7. ASSUME MaxTokens > 0, \A m \in CallsOf(cs, p) : m > cut
      PROVE  Settled(s) = Total(Costs(cs, p), Len(cs))
  <2>1. \A i \in 1..Len(b.spent) : b.spent[i].at > cut
    <3> SUFFICES ASSUME NEW i \in 1..Len(b.spent) PROVE b.spent[i].at > cut
      OBVIOUS
    <3>1. PICK m \in CallsOf(cs, p) : m <= b.spent[i].at
      BY DEF BudgetOK
    <3>2. m \in Nat /\ m > cut
      BY <1>7 DEF CallsOf
    <3> QED
      BY <1>2, <3>1, <3>2
  <2>2. s.spent = b.spent
    BY <1>3, <2>1
  <2>3. Settled(s) = Settled(b)
    BY <2>2 DEF Settled, Settlements
  <2> QED
    BY <1>7, <2>3 DEF BudgetOK
<1> QED
  BY <1>1, <1>3, <1>4, <1>5, <1>6, <1>7 DEF BudgetOK

\* Time passes.
LEMMA LaterBudget ==
    ASSUME NEW b, NEW cs \in Seq(Call), NEW p, NEW cut \in Nat, NEW later \in Nat, cut <= later, BudgetOK(b, cs, p, cut)
    PROVE  BudgetOK(b, cs, p, later)
<1>1. \A t \in later..Len(cs) : t \in cut..Len(cs)
  OBVIOUS
<1>2. (\A m \in CallsOf(cs, p) : m > later) => \A m \in CallsOf(cs, p) : m > cut
  BY DEF CallsOf
<1> QED
  BY <1>1, <1>2 DEF BudgetOK

\* A budget depends on its own process' calls only, and on what came of them.
LEMMA SameBudget ==
    ASSUME NEW b, NEW cs \in Seq(Call), NEW ds \in Seq(Call), Len(ds) = Len(cs), NEW p, NEW cut,
           \A i \in 1..Len(cs) :
              /\ ds[i].at = cs[i].at
              /\ cs[i].at = p =>
                    /\ ds[i].cost = cs[i].cost
                    /\ \/ ds[i].state = cs[i].state
                       \/ ds[i].state \in {"flying", "abandoned"} /\ cs[i].state \in {"flying", "abandoned"},
           BudgetOK(b, cs, p, cut)
    PROVE  BudgetOK(b, ds, p, cut)
<1>1. \A t : Owing(ds, p, t) = Owing(cs, p, t)
  BY DEF Owing
<1>2. CallsOf(ds, p) = CallsOf(cs, p)
  BY DEF CallsOf
<1>3. Costs(ds, p) = Costs(cs, p)
  BY DEF Costs
<1> QED
  BY <1>1, <1>2, <1>3 DEF BudgetOK

\* What a budget of process p becomes when call c is admitted.
Attempted(d, b, p, c, estimate, now) ==
    (c.at = p => d = attempt(b, estimate, now)) /\ (c.at # p => d = b)

\* A call is admitted.
LEMMA AttemptBudget ==
    ASSUME NEW b, NEW cs \in Seq(Call), NEW p, NEW cut \in 0..Len(cs), BudgetOK(b, cs, p, cut),
           NEW estimate \in Nat \ {0}, NEW c \in Call, c.state = "flying",
           NEW d, Attempted(d, b, p, c, estimate, Len(cs) + 1)
    PROVE  BudgetOK(d, Append(cs, c), p, cut)
<1> DEFINE now == Len(cs) + 1
           new == [at |-> now, tokens |-> estimate, pending |-> TRUE]
<1>1. PICK n \in Nat : n = Len(b.spent) /\ b.spent \in Seq(Entry) /\ b.calls \in SUBSET Nat
  BY DEF BudgetOK, Budget
<1>2. /\ b \in Budget /\ Ordered(b.spent) /\ Len(cs) \in Nat /\ now \in Nat
      /\ \A i \in 1..n : b.spent[i] \in Entry /\ b.spent[i].at \in Nat /\ b.spent[i].at <= Len(cs)
  <2>1. \A i \in 1..n : b.spent[i] \in Entry /\ b.spent[i].at <= Len(cs)
    BY <1>1 DEF BudgetOK
  <2>2. b \in Budget /\ Ordered(b.spent) /\ Len(cs) \in Nat /\ now \in Nat
    BY DEF BudgetOK
  <2> QED
    BY <2>1, <2>2 DEF Entry
<1>3. PICK ds \in Seq(Call) : /\ ds = Append(cs, c) /\ Len(ds) = now /\ ds[now] = c
                              /\ \A i \in 1..Len(cs) : ds[i] = cs[i]
  <2>1. /\ Append(cs, c) \in Seq(Call) /\ Len(Append(cs, c)) = Len(cs) + 1 /\ Append(cs, c)[Len(cs) + 1] = c
        /\ \A i \in 1..Len(cs) : Append(cs, c)[i] = cs[i]
    OBVIOUS
  <2> QED
    BY <2>1, Zenon
<1>4. \A i \in 1..now : i \in 1..Len(cs) \/ i = now
  BY <1>2
<1>5. /\ CallsOf(cs, p) \subseteq CallsOf(ds, p)
      /\ c.at = p => now \in CallsOf(ds, p)
  BY <1>2, <1>3 DEF CallsOf
<1>6. ASSUME NEW t \in cut..Len(cs)
      PROVE  Owing(ds, p, t) = IF c.at = p THEN Owing(cs, p, t) \cup {now} ELSE Owing(cs, p, t)
  BY <1>2, <1>3, <1>4 DEF Owing
<1>7. Total(Costs(ds, p), Len(ds)) = Total(Costs(cs, p), Len(cs))
  <2>1. \A i \in 1..Len(cs) : Costs(cs, p)[i] \in Nat /\ Costs(ds, p)[i] = Costs(cs, p)[i]
    <3>1. \A i \in 1..Len(cs) : Costs(cs, p)[i] \in Nat
      BY <1>2, BudgetFinite, Zenon
    <3>2. \A i \in 1..Len(cs) : Costs(ds, p)[i] = Costs(cs, p)[i]
      BY <1>2, <1>3 DEF Costs
    <3> QED
      BY <3>1, <3>2
  <2>2. Costs(ds, p)[now] = 0
    BY <1>2, <1>3 DEF Costs
  <2>3. /\ Total(Costs(ds, p), Len(cs) + 1) = Total(Costs(cs, p), Len(cs)) + Costs(ds, p)[Len(cs) + 1]
        /\ Total(Costs(cs, p), Len(cs)) \in Nat
    <3>1. Costs(ds, p)[Len(cs) + 1] \in Nat
      BY <2>2
    <3>2. /\ \A i \in 1..Len(cs) : Costs(cs, p)[i] \in Nat
          /\ \A i \in 1..Len(cs) : Costs(ds, p)[i] = Costs(cs, p)[i]
      BY <2>1
    <3> QED
      BY <1>2, <3>1, <3>2, TotalMore, Zenon
  <2> QED
    BY <1>3, <2>2, <2>3
<1>8. (\A m \in CallsOf(ds, p) : m > cut) => \A m \in CallsOf(cs, p) : m > cut
  BY <1>5
<1>9. CASE d = b /\ (c.at = p => MaxTokens = 0)
  <2>1. ASSUME NEW t \in cut..Len(ds) PROVE Cardinality(Reservations(d, t)) <= Cardinality(Owing(ds, p, t))
    <3>1. CASE Reservations(b, t) = {}
      BY <1>2, <1>9, <3>1, BudgetFinite, FS_EmptySet
    <3>2. CASE Reservations(b, t) # {}
      <4>1. t \in cut..Len(cs)
        BY <1>1, <1>2, <1>3, <3>2 DEF Reservations
      <4>2. c.at # p
        BY <1>9, <3>2 DEF BudgetOK, Reservations
      <4> QED
        BY <1>6, <1>9, <4>1, <4>2 DEF BudgetOK
    <3> QED
      BY <3>1, <3>2
  <2>2. \A i \in 1..Len(d.spent) : d.spent[i].at <= Len(ds) /\ \E m \in CallsOf(ds, p) : m <= d.spent[i].at
    BY <1>1, <1>2, <1>3, <1>5, <1>9 DEF BudgetOK
  <2>3. MaxTokens > 0 /\ (\A m \in CallsOf(ds, p) : m > cut) => Settled(d) = Total(Costs(ds, p), Len(ds))
    BY <1>7, <1>8, <1>9 DEF BudgetOK
  <2> QED
    BY <1>2, <1>3, <1>9, <2>1, <2>2, <2>3 DEF BudgetOK
<1>10. ASSUME c.at = p
       PROVE  /\ d.calls \in SUBSET Nat /\ d = [calls |-> d.calls, spent |-> d.spent]
              /\ d.spent = IF MaxTokens = 0 THEN b.spent ELSE Append(b.spent, new)
  BY <1>1, <1>2, <1>10 DEF attempt, Attempted
<1>11. CASE c.at = p /\ MaxTokens = 0
  <2>1. d.spent = b.spent /\ d \in Budget
    BY <1>1, <1>10, <1>11 DEF Budget
  <2>2. d.spent = <<>>
    BY <1>11, <2>1 DEF BudgetOK
  <2>3. \A t : Reservations(d, t) = Reservations(b, t) /\ Reservations(d, t) = {}
    BY <2>1, <2>2 DEF Reservations
  <2>4. ASSUME NEW t \in cut..Len(ds) PROVE Cardinality(Reservations(d, t)) <= Cardinality(Owing(ds, p, t))
    <3>1. Cardinality(Owing(ds, p, t)) \in Nat
      BY <1>2, BudgetFinite
    <3>2. Cardinality({}) = 0
      BY FS_EmptySet
    <3> QED
      <4>1. Reservations(d, t) = {}
        BY <2>3
      <4>2. Cardinality(Reservations(d, t)) = 0
        BY <3>2, <4>1, Zenon
      <4> QED
        BY <3>1, <4>2
  <2> QED
    BY <1>2, <1>3, <1>11, <2>1, <2>2, <2>4 DEF BudgetOK, Ordered
<1>12. CASE c.at = p /\ MaxTokens # 0
  <2>1. PICK s \in Seq(Entry) : /\ s = d.spent /\ Len(s) = n + 1
                                /\ s[n + 1].at = now /\ s[n + 1].pending = TRUE
                                /\ \A i \in 1..n : s[i] = b.spent[i]
    <3>1. new \in Entry
      BY <1>2 DEF Entry
    <3>2. new.at = now /\ new.pending = TRUE
      OBVIOUS
    <3> HIDE DEF new, now
    <3>3. d.spent = Append(b.spent, new)
      BY <1>10, <1>12
    <3>4. /\ Append(b.spent, new) \in Seq(Entry) /\ Len(Append(b.spent, new)) = n + 1
          /\ Append(b.spent, new)[n + 1] = new /\ \A i \in 1..n : Append(b.spent, new)[i] = b.spent[i]
      BY <1>1, <3>1
    <3> QED
      BY <3>2, <3>3, <3>4, Zenon
  <2>2. \A i \in 1..n + 1 : i \in 1..n \/ i = n + 1
    OBVIOUS
  <2>3. d \in Budget
    BY <1>10, <1>12, <2>1 DEF Budget
  <2>4. Ordered(s)
    <3> SUFFICES ASSUME NEW i \in 1..n + 1, NEW j \in 1..n + 1, i < j
                 PROVE  s[i].at <= s[j].at /\ (s[j].pending => s[i].at < s[j].at)
      BY <2>1 DEF Ordered
    <3>1. i \in 1..n /\ s[i] = b.spent[i] /\ s[i].at <= Len(cs) /\ s[i].at \in Nat
      <4>1. i \in 1..n
        BY <2>2
      <4> QED
        BY <1>2, <2>1, <4>1, Zenon
    <3>2. CASE j = n + 1
      <4>1. s[j].at = Len(cs) + 1
        BY <2>1, <3>2
      <4> QED
        BY <1>2, <3>1, <4>1
    <3>3. CASE j \in 1..n
      BY <1>1, <1>2, <2>1, <3>1, <3>3, Zenon DEF Ordered
    <3> QED
      BY <2>2, <3>2, <3>3
  <2>5. ASSUME NEW i \in 1..n + 1 PROVE s[i].at <= Len(ds) /\ \E m \in CallsOf(ds, p) : m <= s[i].at
    <3>1. CASE i = n + 1
      BY <1>2, <1>3, <1>5, <1>12, <2>1, <3>1
    <3>2. CASE i \in 1..n
      <4>1. s[i].at = b.spent[i].at /\ b.spent[i].at <= Len(cs) /\ b.spent[i].at \in Nat
        BY <1>2, <2>1, <3>2, Zenon
      <4>2. \E m \in CallsOf(cs, p) : m <= b.spent[i].at
        BY <1>1, <3>2, Zenon DEF BudgetOK
      <4> QED
        BY <1>2, <1>3, <1>5, <4>1, <4>2
    <3> QED
      BY <2>2, <3>1, <3>2
  <2>6. ASSUME NEW t \in cut..Len(ds) PROVE Cardinality(Reservations(d, t)) <= Cardinality(Owing(ds, p, t))
    <3>1. CASE t = now
      <4>1. Reservations(d, t) = {}
        <5>1. \A i \in 1..n + 1 : ~ s[i].at > now
          <6> SUFFICES ASSUME NEW i \in 1..n + 1 PROVE ~ s[i].at > now
            OBVIOUS
          <6>1. CASE i = n + 1
            BY <1>2, <2>1, <6>1
          <6>2. CASE i \in 1..n
            <7>1. s[i].at \in Nat /\ s[i].at <= Len(cs)
              BY <1>2, <2>1, <6>2, Zenon
            <7> QED
              BY <1>2, <7>1
          <6> QED
            BY <2>2, <6>1, <6>2
        <5> QED
          BY <2>1, <3>1, <5>1 DEF Reservations
      <4> QED
        BY <1>2, <4>1, BudgetFinite, FS_EmptySet
    <3>2. CASE t # now
      <4>1. t \in cut..Len(cs) /\ t < now
        BY <1>2, <1>3, <3>2
      <4>2. Reservations(d, t) = Reservations(b, t) \cup {now} /\ now \notin Reservations(b, t)
        <5>1. ASSUME NEW y, y \in Reservations(d, t) PROVE y \in Reservations(b, t) \cup {now}
          <6>1. PICK i \in 1..n + 1 : s[i].pending /\ s[i].at > t /\ y = s[i].at
            BY <2>1, <5>1 DEF Reservations
          <6>2. CASE i = n + 1
            BY <2>1, <6>1, <6>2
          <6>3. CASE i \in 1..n
            BY <1>1, <2>1, <6>1, <6>3, Zenon DEF Reservations
          <6> QED
            BY <2>2, <6>2, <6>3
        <5>2. now \in Reservations(d, t)
          <6>1. n + 1 \in 1..Len(d.spent) /\ d.spent[n + 1].pending /\ d.spent[n + 1].at = now
            BY <1>1, <2>1
          <6> QED
            BY <4>1, <6>1, Zenon DEF Reservations
        <5>3. ASSUME NEW y, y \in Reservations(b, t) PROVE y \in Reservations(d, t) /\ y # now
          <6>1. PICK i \in 1..n : b.spent[i].pending /\ b.spent[i].at > t /\ y = b.spent[i].at
            BY <1>1, <5>3 DEF Reservations
          <6>2. i \in 1..n + 1 /\ s[i] = b.spent[i] /\ b.spent[i].at <= Len(cs)
            BY <1>1, <1>2, <2>1
          <6> QED
            BY <1>2, <2>1, <6>1, <6>2, SMTT(20) DEF Reservations
        <5> QED
          BY <5>1, <5>2, <5>3
      <4>3. Owing(ds, p, t) = Owing(cs, p, t) \cup {now} /\ now \notin Owing(cs, p, t)
        BY <1>2, <1>6, <1>12, <4>1 DEF Owing
      <4>4. Cardinality(Reservations(b, t)) <= Cardinality(Owing(cs, p, t))
        BY <4>1 DEF BudgetOK
      <4>5. /\ Cardinality(Reservations(d, t)) = Cardinality(Reservations(b, t)) + 1
            /\ Cardinality(Owing(ds, p, t)) = Cardinality(Owing(cs, p, t)) + 1
            /\ Cardinality(Reservations(b, t)) \in Nat /\ Cardinality(Owing(cs, p, t)) \in Nat
        <5>1. /\ IsFiniteSet(Reservations(b, t)) /\ IsFiniteSet(Owing(cs, p, t))
              /\ Cardinality(Reservations(b, t)) \in Nat /\ Cardinality(Owing(cs, p, t)) \in Nat
          BY <1>2, BudgetFinite
        <5> HIDE DEF now
        <5> QED
          BY <4>2, <4>3, <5>1, FS_AddElement, Zenon
      <4> QED
        BY <4>4, <4>5
    <3> QED
      BY <3>1, <3>2
  <2>7. Settled(d) = Settled(b)
    <3>1. \A i \in 1..n : Settlements(b)[i] \in Nat
      BY <1>1, <1>2, BudgetFinite, Zenon
    <3>2. \A i \in 1..n : Settlements(d)[i] = Settlements(b)[i]
      <4>1. \A i \in 1..n : i \in 1..n + 1
        BY <1>1
      <4> QED
        BY <1>1, <2>1, <4>1, Zenon DEF Settlements
    <3>3. Settlements(d)[n + 1] = 0
      <4>1. n + 1 \in 1..n + 1
        BY <1>1
      <4> QED
        BY <2>1, <4>1 DEF Settlements
    <3>4. /\ Total(Settlements(d), n + 1) = Total(Settlements(b), n) + Settlements(d)[n + 1]
          /\ Total(Settlements(b), n) \in Nat
      <4>1. Settlements(d)[n + 1] \in Nat
        BY <3>3
      <4> QED
        BY <3>1, <3>2, <4>1, TotalMore, Zenon
    <3> QED
      BY <1>1, <2>1, <3>3, <3>4 DEF Settled
  <2>8. MaxTokens > 0 /\ (\A m \in CallsOf(ds, p) : m > cut) => Settled(d) = Total(Costs(ds, p), Len(ds))
    BY <1>7, <1>8, <2>7 DEF BudgetOK
  <2> QED
    BY <1>3, <1>12, <2>1, <2>3, <2>4, <2>5, <2>6, <2>8 DEF BudgetOK
<1> QED
  BY <1>9, <1>11, <1>12 DEF Attempted

\* A set without elements has no more than another.
LEMMA NoMore ==
    ASSUME NEW S, NEW T, S = {}, Cardinality(T) \in Nat
    PROVE  Cardinality(S) <= Cardinality(T)
<1>1. Cardinality({}) = 0
  BY FS_EmptySet
<1>2. Cardinality(S) = 0
  BY <1>1, Zenon
<1> QED
  BY <1>2

\* A process that has just started owes nothing.
LEMMA EmptyBudget ==
    ASSUME NEW cs \in Seq(Call), NEW p, \A i \in 1..Len(cs) : cs[i].at = p => cs[i].state = "forgotten", NEW cut
    PROVE  BudgetOK(NoBudget, cs, p, cut)
<1>1. NoBudget \in Budget /\ NoBudget.spent = <<>> /\ Ordered(<<>>) /\ Len(<<>>) = 0
  BY DEF NoBudget, Budget, Ordered
<1>2. \A t : Reservations(NoBudget, t) = {} /\ Cardinality(Owing(cs, p, t)) \in Nat
  <2>1. \A t : Reservations(NoBudget, t) = {}
    BY <1>1 DEF Reservations
  <2>2. \A t : Cardinality(Owing(cs, p, t)) \in Nat
    BY <1>1, BudgetFinite
  <2> QED
    BY <2>1, <2>2
<1>3. Settled(NoBudget) = 0
  BY <1>1, TotalNone DEF Settled
<1>4. Total(Costs(cs, p), Len(cs)) = 0
  BY TotalNone DEF Costs
<1>5. \A t : Cardinality(Reservations(NoBudget, t)) <= Cardinality(Owing(cs, p, t))
  BY <1>2, NoMore
<1> QED
  BY <1>1, <1>3, <1>4, <1>5 DEF BudgetOK

\* Call k of process p has come back.
Returned(ds, cs, p, k, cost) ==
    /\ Len(ds) = Len(cs) /\ \A i \in 1..Len(cs) : i # k => ds[i] = cs[i]
    /\ cs[k].at = p /\ cs[k].state = "flying"
    /\ ds[k].at = p /\ ds[k].state = "recorded" /\ ds[k].cost = cost

\* What a call cost is recorded: the newest reservation is settled, whoever made it.
LEMMA RecordBudget ==
    ASSUME NEW b, NEW cs \in Seq(Call), NEW p, NEW cut \in 0..Len(cs), BudgetOK(b, cs, p, cut),
           NEW k \in 1..Len(cs), NEW cost \in Nat, NEW ds \in Seq(Call), Returned(ds, cs, p, k, cost)
    PROVE  BudgetOK(Record(b, cost, Len(cs)), ds, p, cut)
<1>0. /\ Len(ds) = Len(cs) /\ \A i \in 1..Len(cs) : i # k => ds[i] = cs[i]
      /\ cs[k].at = p /\ cs[k].state = "flying"
      /\ ds[k].at = p /\ ds[k].state = "recorded" /\ ds[k].cost = cost
  BY DEF Returned
<1>1. PICK n \in Nat : n = Len(b.spent) /\ b.spent \in Seq(Entry) /\ b.calls \in SUBSET Nat
  BY DEF BudgetOK, Budget
<1>2. /\ b \in Budget /\ Ordered(b.spent) /\ Len(cs) \in Nat
      /\ \A i \in 1..n : /\ b.spent[i] \in Entry /\ b.spent[i].at \in Nat /\ b.spent[i].at <= Len(cs)
                         /\ b.spent[i].tokens \in Nat /\ b.spent[i].pending \in BOOLEAN
  <2>1. \A i \in 1..n : b.spent[i] \in Entry /\ b.spent[i].at <= Len(cs)
    BY <1>1 DEF BudgetOK
  <2>2. b \in Budget /\ Ordered(b.spent) /\ Len(cs) \in Nat
    BY DEF BudgetOK
  <2> QED
    BY <2>1, <2>2, Zenon DEF Entry
<1>3. PICK d : d = Record(b, cost, Len(cs))
  OBVIOUS
<1>4. CallsOf(ds, p) = CallsOf(cs, p)
  BY <1>0, Zenon DEF CallsOf
<1>5. \A t : Owing(ds, p, t) = Owing(cs, p, t) \ {k}
  BY <1>0 DEF Owing
<1>6. ASSUME NEW t
      PROVE  /\ Cardinality(Owing(ds, p, t)) \in Nat /\ Cardinality(Owing(cs, p, t)) \in Nat
             /\ Cardinality(Owing(cs, p, t)) <= Cardinality(Owing(ds, p, t)) + 1
  <2>1. /\ IsFiniteSet(Owing(cs, p, t)) /\ Cardinality(Owing(ds, p, t)) \in Nat
        /\ Cardinality(Owing(cs, p, t)) \in Nat
    BY <1>2, BudgetFinite
  <2>2. CASE k \in Owing(cs, p, t)
    <3>1. Cardinality(Owing(cs, p, t) \ {k}) = Cardinality(Owing(cs, p, t)) - 1
      BY <2>1, <2>2, FS_RemoveElement, Zenon
    <3>2. Cardinality(Owing(ds, p, t)) = Cardinality(Owing(cs, p, t)) - 1
      BY <1>5, <3>1, Zenon
    <3> QED
      BY <2>1, <3>2
  <2>3. CASE k \notin Owing(cs, p, t)
    <3>1. Owing(ds, p, t) = Owing(cs, p, t)
      BY <1>5, <2>3, Zenon
    <3> QED
      BY <2>1, <3>1
  <2> QED
    BY <2>2, <2>3
<1>7. Total(Costs(ds, p), Len(ds)) = Total(Costs(cs, p), Len(cs)) + cost
  <2>1. \A i \in 1..Len(cs) : Costs(cs, p)[i] \in Nat
    BY <1>2, BudgetFinite, Zenon
  <2>2. Raised(Costs(ds, p), Costs(cs, p), Len(cs), k, cost)
    <3> SUFFICES ASSUME NEW i \in 1..Len(cs)
                 PROVE Costs(ds, p)[i] = IF i = k THEN Costs(cs, p)[i] + cost ELSE Costs(cs, p)[i]
      BY DEF Raised
    <3>1. CASE i = k
      BY <1>0, <3>1 DEF Costs
    <3>2. CASE i # k
      BY <1>0, <3>2 DEF Costs
    <3> QED
      BY <3>1, <3>2
  <2>3. k \in Int /\ k \in 1..Len(cs)
    BY <1>2
  <2>4. Total(Costs(ds, p), Len(cs)) = Total(Costs(cs, p), Len(cs)) + cost
    BY <1>2, <2>1, <2>2, <2>3, TotalDiffers
  <2> QED
    BY <1>0, <2>4
<1>8. k \in CallsOf(cs, p) /\ k <= Len(cs)
  BY <1>0 DEF CallsOf
<1>9. CASE MaxTokens = 0
  <2>1. d = b /\ b.spent = <<>>
    BY <1>0, <1>3, <1>9 DEF Record, BudgetOK
  <2>2. \A t : Reservations(d, t) = {}
    BY <2>1 DEF Reservations
  <2>3. \A t : Cardinality(Reservations(d, t)) <= Cardinality(Owing(ds, p, t))
    BY <1>6, <2>2, NoMore
  <2>4. BudgetOK(d, ds, p, cut)
    BY <1>0, <1>2, <1>9, <2>1, <2>3 DEF BudgetOK
  <2> QED
    BY <1>3, <2>4
<1>10. CASE MaxTokens # 0 /\ Pending(b) = {}
  <2> DEFINE new == [at |-> Len(cs), tokens |-> cost, pending |-> FALSE]
  <2>1. d = [b EXCEPT !.spent = Append(@, new)]
    BY <1>3, <1>10 DEF Record
  <2>2. new \in Entry
    BY <1>2 DEF Entry
  <2>3. d \in Budget /\ d.spent = Append(b.spent, new)
    <3>1. PICK q : q = Append(b.spent, new)
      BY Zenon
    <3>2. q \in Seq(Entry)
      <4> HIDE DEF new
      <4> QED
        BY <1>1, <2>2, <3>1
    <3>3. d = [b EXCEPT !.spent = q]
      <4> HIDE DEF new
      <4> QED
        BY <2>1, <3>1, Zenon
    <3>4. d \in Budget /\ d.spent = q
      BY <1>2, <3>2, <3>3, Zenon DEF Budget
    <3> QED
      BY <3>1, <3>4
  <2>4. PICK s \in Seq(Entry) : /\ s = d.spent /\ Len(s) = n + 1
                                /\ s[n + 1].at = Len(cs) /\ s[n + 1].tokens = cost /\ s[n + 1].pending = FALSE
                                /\ \A i \in 1..n : s[i] = b.spent[i]
    <3>1. new.at = Len(cs) /\ new.tokens = cost /\ new.pending = FALSE
      OBVIOUS
    <3> HIDE DEF new
    <3>2. /\ Append(b.spent, new) \in Seq(Entry) /\ Len(Append(b.spent, new)) = n + 1
          /\ Append(b.spent, new)[n + 1] = new /\ \A i \in 1..n : Append(b.spent, new)[i] = b.spent[i]
      BY <1>1, <2>2
    <3> QED
      BY <2>3, <3>1, <3>2, Zenon
  <2>5. \A i \in 1..n + 1 : i \in 1..n \/ i = n + 1
    OBVIOUS
  <2>6. \A i \in 1..n + 1 : ~ s[i].pending
    <3>1. \A i \in 1..n : ~ b.spent[i].pending
      BY <1>1, <1>10 DEF Pending
    <3> QED
      <4> SUFFICES ASSUME NEW i \in 1..n + 1 PROVE ~ s[i].pending
        OBVIOUS
      <4>1. CASE i = n + 1
        BY <2>4, <4>1
      <4>2. CASE i \in 1..n
        BY <2>4, <3>1, <4>2, Zenon
      <4> QED
        BY <2>5, <4>1, <4>2
  <2>7. \A t : Reservations(d, t) = {}
    BY <2>4, <2>6, Zenon DEF Reservations
  <2>8. \A t : Cardinality(Reservations(d, t)) <= Cardinality(Owing(ds, p, t))
    BY <1>6, <2>7, NoMore
  <2>9. Ordered(s)
    <3> SUFFICES ASSUME NEW i \in 1..n + 1, NEW j \in 1..n + 1, i < j PROVE s[i].at <= s[j].at
      BY <2>4, <2>6, Zenon DEF Ordered
    <3>1. i \in 1..n /\ s[i] = b.spent[i] /\ s[i].at <= Len(cs)
      <4>1. i \in 1..n
        BY <1>1, <2>5
      <4> QED
        BY <1>2, <2>4, <4>1, Zenon
    <3>2. CASE j = n + 1
      BY <2>4, <3>1, <3>2, Zenon
    <3>3. CASE j \in 1..n
      BY <1>1, <1>2, <2>4, <3>1, <3>3, Zenon DEF Ordered
    <3> QED
      BY <2>5, <3>2, <3>3
  <2>10. ASSUME NEW i \in 1..n + 1 PROVE s[i].at <= Len(ds) /\ \E m \in CallsOf(ds, p) : m <= s[i].at
    <3>1. CASE i = n + 1
      BY <1>0, <1>2, <1>4, <1>8, <2>4, <3>1
    <3>2. CASE i \in 1..n
      BY <1>0, <1>1, <1>4, <2>4, <3>2, Zenon DEF BudgetOK
    <3> QED
      BY <2>5, <3>1, <3>2
  <2>11. Settled(d) = Settled(b) + cost
    <3>1. \A i \in 1..n : Settlements(b)[i] \in Nat
      BY <1>1, <1>2, BudgetFinite, Zenon
    <3>2. \A i \in 1..n : Settlements(d)[i] = Settlements(b)[i]
      <4>1. \A i \in 1..n : i \in 1..n + 1
        BY <1>1
      <4> QED
        BY <1>1, <2>4, <4>1, Zenon DEF Settlements
    <3>3. Settlements(d)[n + 1] = cost
      BY <1>1, <2>4 DEF Settlements
    <3>4. Total(Settlements(d), n + 1) = Total(Settlements(b), n) + Settlements(d)[n + 1]
      BY <3>1, <3>2, <3>3, TotalMore
    <3> QED
      BY <1>1, <2>4, <3>3, <3>4 DEF Settled
  <2>12. MaxTokens > 0 /\ (\A m \in CallsOf(ds, p) : m > cut) => Settled(d) = Total(Costs(ds, p), Len(ds))
    BY <1>0, <1>4, <1>7, <2>11 DEF BudgetOK
  <2>13. BudgetOK(d, ds, p, cut)
    BY <1>0, <1>10, <2>3, <2>4, <2>8, <2>9, <2>10, <2>12, Zenon DEF BudgetOK
  <2> QED
    BY <1>3, <2>13
<1>11. CASE MaxTokens # 0 /\ Pending(b) # {}
  <2>1. PICK m : m = Max(Pending(b))
    OBVIOUS
  <2>2. m \in Pending(b) /\ \A i \in Pending(b) : i <= m
    <3>1. Pending(b) \in SUBSET (0..n)
      BY <1>1 DEF Pending
    <3> QED
      BY <1>1, <1>11, <2>1, <3>1, MaxIn, Zenon
  <2>3. m \in 1..n /\ b.spent[m].pending /\ \A i \in 1..n : b.spent[i].pending => i <= m
    BY <1>1, <2>2 DEF Pending
  <2>4. d = [b EXCEPT !.spent[m].tokens = cost, !.spent[m].pending = FALSE]
    BY <1>3, <1>11, <2>1 DEF Record
  <2>5. PICK e : e = [b.spent[m] EXCEPT !.tokens = cost, !.pending = FALSE]
    OBVIOUS
  <2>6. e \in Entry /\ e.at = b.spent[m].at /\ e.tokens = cost /\ ~ e.pending
    BY <1>2, <2>3, <2>5 DEF Entry
  <2>7. PICK s : s = [b.spent EXCEPT ![m] = e]
    BY Zenon
  <2>8. s \in Seq(Entry) /\ Len(s) = n /\ s[m] = e /\ \A i \in 1..n : i # m => s[i] = b.spent[i]
    BY <1>1, <2>3, <2>6, <2>7
  <2>9. d \in Budget /\ d.spent = s
    <3>1. d = [b EXCEPT !.spent = s]
      BY <1>1, <1>2, <2>3, <2>4, <2>5, <2>7, Zenon DEF Budget
    <3> QED
      BY <1>2, <2>8, <3>1, Zenon DEF Budget
  <2>10. \A i \in 1..n : s[i].at = b.spent[i].at /\ (s[i].pending <=> b.spent[i].pending /\ i # m)
    BY <2>6, <2>8
  <2>11. Ordered(s)
    BY <1>1, <1>2, <2>8, <2>10 DEF Ordered
  <2>12. ASSUME NEW t \in cut..Len(ds) PROVE Cardinality(Reservations(d, t)) <= Cardinality(Owing(ds, p, t))
    <3>1. Reservations(d, t) = Reservations(b, t) \ {b.spent[m].at}
      <4>1. ASSUME NEW y, y \in Reservations(d, t) PROVE y \in Reservations(b, t) \ {b.spent[m].at}
        <5>1. PICK i \in 1..n : s[i].pending /\ s[i].at > t /\ y = s[i].at
          BY <2>8, <2>9, <4>1 DEF Reservations
        <5>2. i # m /\ b.spent[i].pending /\ b.spent[i].at = y /\ i < m
          BY <1>1, <2>3, <2>10, <5>1
        <5>3. b.spent[i].at < b.spent[m].at
          BY <1>1, <1>2, <2>3, <5>2, Zenon DEF Ordered
        <5>4. b.spent[i].at \in Nat /\ b.spent[m].at \in Nat
          BY <1>2, <2>3, Zenon
        <5>5. y # b.spent[m].at
          BY <5>2, <5>3, <5>4
        <5>6. b.spent[i].at > t
          BY <5>1, <5>2
        <5>7. y \in Reservations(b, t)
          BY <1>1, <5>2, <5>6, Zenon DEF Reservations
        <5> QED
          BY <5>5, <5>7
      <4>2. ASSUME NEW y, y \in Reservations(b, t), y # b.spent[m].at PROVE y \in Reservations(d, t)
        <5>1. PICK i \in 1..n : b.spent[i].pending /\ b.spent[i].at > t /\ y = b.spent[i].at
          BY <1>1, <4>2, Zenon DEF Reservations
        <5>2. i \in 1..Len(d.spent) /\ d.spent[i].pending /\ d.spent[i].at = y
          BY <2>8, <2>9, <2>10, <4>2, <5>1
        <5> QED
          BY <5>1, <5>2, Zenon DEF Reservations
      <4> QED
        BY <4>1, <4>2
    <3>2. /\ IsFiniteSet(Reservations(b, t)) /\ Cardinality(Reservations(b, t)) \in Nat
          /\ Cardinality(Reservations(b, t)) <= Cardinality(Owing(cs, p, t))
      BY <1>0, <1>2, BudgetFinite DEF BudgetOK
    <3>3. CASE Reservations(b, t) = {}
      BY <1>6, <3>1, <3>3, NoMore
    <3>4. CASE Reservations(b, t) # {}
      <4>1. b.spent[m].at \in Reservations(b, t)
        <5>1. PICK i \in 1..n : b.spent[i].pending /\ b.spent[i].at > t
          BY <1>1, <3>4, Zenon DEF Reservations
        <5>2. i <= m /\ b.spent[i].at <= b.spent[m].at
          <6>1. i <= m
            BY <2>3, <5>1, Zenon
          <6>2. CASE i = m
            BY <1>2, <5>1, <6>2
          <6>3. CASE i # m
            BY <1>1, <1>2, <2>3, <5>1, <6>1, <6>3 DEF Ordered
          <6> QED
            BY <6>2, <6>3
        <5>3. b.spent[m].at > t
          BY <1>2, <2>3, <5>1, <5>2, SMTT(20)
        <5> QED
          BY <1>1, <2>3, <5>3, Zenon DEF Reservations
      <4>2. Cardinality(Reservations(d, t)) = Cardinality(Reservations(b, t)) - 1
        <5> DEFINE S == Reservations(b, t)
                   z == b.spent[m].at
        <5>1. IsFiniteSet(S) /\ z \in S
          BY <3>2, <4>1
        <5>2. Cardinality(S \ {z}) = Cardinality(S) - 1
          <6> HIDE DEF S, z
          <6> QED
            BY <5>1, FS_RemoveElement, Zenon
        <5> QED
          BY <3>1, <5>2, Zenon
      <4> QED
        BY <1>6, <3>2, <4>2
    <3> QED
      BY <3>3, <3>4
  <2>13. Settled(d) = Settled(b) + cost
    <3>1. \A i \in 1..n : Settlements(b)[i] \in Nat
      BY <1>1, <1>2, BudgetFinite, Zenon
    <3>2. Raised(Settlements(d), Settlements(b), n, m, cost)
      <4> SUFFICES ASSUME NEW i \in 1..n
                   PROVE Settlements(d)[i] = IF i = m THEN Settlements(b)[i] + cost ELSE Settlements(b)[i]
        BY DEF Raised
      <4>1. /\ Settlements(d)[i] = IF s[i].pending THEN 0 ELSE s[i].tokens
            /\ Settlements(b)[i] = IF b.spent[i].pending THEN 0 ELSE b.spent[i].tokens
        BY <1>1, <2>8, <2>9, Zenon DEF Settlements
      <4>2. CASE i = m
        BY <2>3, <2>6, <2>8, <4>1, <4>2
      <4>3. CASE i # m
        BY <2>8, <4>1, <4>3
      <4> QED
        BY <4>2, <4>3
    <3>3. Total(Settlements(d), n) = Total(Settlements(b), n) + cost
      <4>1. m \in Int
        BY <2>3
      <4> QED
        BY <2>3, <3>1, <3>2, <4>1, TotalDiffers
    <3> QED
      BY <1>1, <2>8, <2>9, <3>3 DEF Settled
  <2>14. MaxTokens > 0 /\ (\A i \in CallsOf(ds, p) : i > cut) => Settled(d) = Total(Costs(ds, p), Len(ds))
    BY <1>0, <1>4, <1>7, <2>13 DEF BudgetOK
  <2>15. \A i \in 1..n : s[i].at <= Len(ds) /\ \E j \in CallsOf(ds, p) : j <= s[i].at
    BY <1>0, <1>1, <1>4, <2>10, Zenon DEF BudgetOK
  <2>16. BudgetOK(d, ds, p, cut)
    BY <1>0, <1>11, <2>8, <2>9, <2>11, <2>12, <2>14, <2>15 DEF BudgetOK
  <2> QED
    BY <1>3, <2>16
<1> QED
  BY <1>9, <1>10, <1>11

\* The budgets are in order, and a call in flight is that of one handler, and in the window.
Budgeted ==
    /\ chatCut \in 0..Len(chats) /\ DOMAIN budget = Processes
    /\ \A p \in Processes : BudgetOK(budget[p], chats, p, chatCut)
    /\ \A w \in Workers : work[w].pc = "complete" =>
          /\ work[w].chat \in 1..Len(chats) /\ chats[work[w].chat].state = "flying"
          /\ chats[work[w].chat].at = work[w].at
    /\ \A v, w \in Workers : work[v].pc = "complete" /\ work[w].pc = "complete" /\ work[v].chat = work[w].chat => v = w
    /\ \A i \in 1..Len(chats) : chats[i].state = "flying" => i > chatCut

\* Only Allow puts a handler to a call.
LEMMA HandlerCalls ==
    ASSUME Orderly, reserved \in Nat, NEW w \in Workers, Handler(w), ~ \E e \in Estimates : Allow(w, e)
    PROVE  work'[w].pc # "complete" /\ Others(w)
<1> DEFINE x == work[w]
<1>1. Typed /\ LocksOK /\ TargetFits(x.pc, x.tc, x.target, prs) /\ scene.roots \subseteq Roots
  BY Bounds DEF Orderly, Typed, TargetsOK
<1>2. ASSUME NEW pc, pc # "complete", NEW tc, NEW lock, NEW target, NEW token, NEW chat,
             Turns(w, Jobs(x, pc, tc, lock, target, token, chat))
      PROVE  work'[w].pc # "complete" /\ Others(w)
  BY <1>2 DEF Turns, Jobs
<1>3. ASSUME Turns(w, {NoWork})
      PROVE  work'[w].pc # "complete" /\ Others(w)
  BY <1>3, NoJob DEF Turns
<1>4. ASSUME NEW root \in scene.roots, NEW m, NEW key \in Keys, HandleMention(w, root, m, key)
      PROVE  work'[w].pc # "complete" /\ Others(w)
  BY <1>1, <1>4, MentionTurns, NoJob DEF Starts, Turns
<1>5. ASSUME NEW e \in Estimates, NEW noted, Answer(w, e, noted)
      PROVE  work'[w].pc # "complete" /\ Others(w)
  BY <1>1, <1>5, AnswerTurns, NoJob DEF Jobs, Turns
<1>6. ASSUME Panic(w) \/ Drop(w)
      PROVE  work'[w].pc # "complete" /\ Others(w)
  BY <1>1, <1>3, <1>6, PanicTurns, DropTurns
<1>7. ASSUME LockRoot(w) \/ Unlock(w) \/ Count(w)
      PROVE  work'[w].pc # "complete" /\ Others(w)
  BY <1>1, <1>2, <1>7, LockRootTurns, UnlockTurns, CountTurns, Zenon
<1>8. ASSUME Enter(w)
      PROVE  work'[w].pc # "complete" /\ Others(w)
  <2> PICK c : c = Fresh(x)
    OBVIOUS
  <2> PICK n : n = After(c, NoPR)
    OBVIOUS
  <2>1. \/ Turns(w, Jobs(x, "unlock", c, x.lock, x.target, x.token, x.chat))
        \/ Turns(w, Jobs(x, Routed(n), c, x.lock, n, reserved + 1, x.chat))
    BY <1>1, <1>8, EnterTurns, Zenon
  <2>2. Routed(n) # "complete"
    BY DEF Routed
  <2> QED
    BY <1>2, <2>1, <2>2
<1>9. ASSUME IsOpen(w) \/ AppendToEntry(w) \/ CommentOnPR(w) \/ OpenPR(w) \/ WriteBack(w)
      PROVE  work'[w].pc # "complete" /\ Others(w)
  <2> PICK n : n = After(x.tc, x.target)
    OBVIOUS
  <2> PICK pc : pc = IF x.target = x.tc.noteUrl THEN "append" ELSE "comment"
    OBVIOUS
  <2>1. Routed(n) # "complete" /\ pc # "complete"
    BY DEF Routed
  <2>2. CASE IsOpen(w)
    <3>1. \/ Turns(w, Jobs(x, Routed(n), x.tc, x.lock, n, x.token, x.chat))
          \/ Turns(w, Jobs(x, pc, x.tc, x.lock, x.target, x.token, x.chat))
          \/ Turns(w, Jobs(x, "unlock", x.tc, x.lock, x.target, 0, x.chat))
      BY <1>1, <2>2, IsOpenTurns
    <3> QED
      BY <1>2, <2>1, <3>1
  <2>3. CASE AppendToEntry(w)
    <3>1. x.target # NoPR
      BY <1>1, <2>3 DEF AppendToEntry, TargetFits
    <3>2. \/ Turns(w, Jobs(x, "count", x.tc, x.lock, x.target, 0, x.chat))
          \/ Turns(w, Jobs(x, Routed(n), x.tc, x.lock, n, x.token, x.chat))
          \/ Turns(w, Jobs(x, "comment", x.tc, x.lock, x.target, x.token, x.chat))
      BY <1>1, <2>3, <3>1, AppendTurns
    <3> QED
      BY <1>2, <2>1, <3>2
  <2>4. CASE CommentOnPR(w)
    BY <1>1, <1>2, <2>4, CommentTurns DEF CommentOnPR, TargetFits
  <2>5. CASE OpenPR(w)
    BY <1>1, <1>2, <2>5, OpenTurns
  <2>6. CASE WriteBack(w)
    <3>1. x.target # NoPR
      BY <1>1, <2>6 DEF WriteBack, TargetFits
    <3>2. Turns(w, Jobs(x, "count", x.tc, x.lock, x.target, x.token, x.chat))
      BY <1>1, <2>6, <3>1, WriteBackTurns
    <3> QED
      BY <1>2, <3>2
  <2> QED
    BY <1>9, <2>2, <2>3, <2>4, <2>5, <2>6
<1> QED
  BY <1>4, <1>5, <1>6, <1>7, <1>8, <1>9 DEF Handler

\* A step without a call.
LEMMA QuietBudgeted ==
    ASSUME Budgeted, budget' = budget, chats' = chats, chatCut' = chatCut,
           \A w \in Workers : work'[w].pc = "complete" => work'[w] = work[w]
    PROVE  Budgeted'
  BY DEF Budgeted

\* A call is asked for.
LEMMA AllowBudgeted ==
    ASSUME Orderly, Budgeted, NEW w \in Workers, NEW estimate \in Estimates, Allow(w, estimate)
    PROVE  Budgeted'
<1> DEFINE x == work[w]
           p == x.at
<1>1. Typed /\ x.pc = "chat" /\ p \in Processes /\ chats \in Seq(Call) /\ estimate \in Nat \ {0} /\ work \in [Workers -> Work]
  BY AtWork, BoundsAssumption DEF Orderly, Typed, Allow, BoundsAssumption
<1>2. /\ chatCut \in 0..Len(chats) /\ Len(chats) \in Nat /\ chatCut' = chatCut /\ DOMAIN budget = Processes
      /\ \A q \in Processes : BudgetOK(budget[q], chats, q, chatCut)
  BY <1>1 DEF Budgeted, Allow
<1>0. PICK b : b = slideLocked(budget[p], chatCut)
  OBVIOUS
<1>3. BudgetOK(b, chats, p, chatCut)
  BY <1>0, <1>1, <1>2, SlideBudget
<1>4. CASE Admits(b)
  <2>0. PICK d : d = attempt(b, estimate, Now)
    OBVIOUS
  <2>1. PICK c \in Call : /\ c = [at |-> p, estimate |-> estimate, cost |-> 0, state |-> "flying"]
                          /\ c.at = p /\ c.state = "flying"
    <3> DEFINE c == [at |-> p, estimate |-> estimate, cost |-> 0, state |-> "flying"]
    <3>1. c \in Call /\ c.at = p /\ c.state = "flying"
      BY <1>1 DEF Call
    <3> HIDE DEF c
    <3>2. c = [at |-> p, estimate |-> estimate, cost |-> 0, state |-> "flying"]
      BY DEF c
    <3> QED
      BY <3>1, <3>2, Zenon
  <2>2. /\ budget' = [budget EXCEPT ![p] = d] /\ chats' = Append(chats, c)
        /\ work' = [work EXCEPT ![w].pc = "complete", ![w].chat = Now]
    BY <1>0, <1>4, <2>0, <2>1, Zenon DEF Allow
  <2>3. Others(w) /\ work'[w].pc = "complete" /\ work'[w].chat = Now /\ work'[w].at = p
    BY <1>1, <2>2 DEF Others, Work
  <2>4. /\ chats' \in Seq(Call) /\ Len(chats') = Now /\ chats'[Now] = c
        /\ \A i \in 1..Len(chats) : chats'[i] = chats[i]
    BY <1>2, <1>1, <2>1, <2>2 DEF Now
  <2>5. ASSUME NEW q \in Processes PROVE BudgetOK(budget'[q], chats', q, chatCut')
    <3>1. CASE q = p
      <4>1. budget'[q] = d /\ d = attempt(b, estimate, Len(chats) + 1)
        BY <1>2, <2>0, <2>2, <3>1 DEF Now
      <4>2. Attempted(d, b, q, c, estimate, Len(chats) + 1)
        BY <2>1, <3>1, <4>1 DEF Attempted
      <4>3. BudgetOK(d, Append(chats, c), q, chatCut)
        BY <1>1, <1>2, <1>3, <2>1, <3>1, <4>2, AttemptBudget
      <4> QED
        BY <1>2, <2>2, <4>1, <4>3
    <3>2. CASE q # p
      <4>1. budget'[q] = budget[q]
        BY <1>2, <2>2, <3>2
      <4>2. Attempted(budget[q], budget[q], q, c, estimate, Len(chats) + 1)
        BY <2>1, <3>2 DEF Attempted
      <4>3. BudgetOK(budget[q], Append(chats, c), q, chatCut)
        BY <1>1, <1>2, <2>1, <4>2, AttemptBudget
      <4> QED
        BY <1>2, <2>2, <4>1, <4>3
    <3> QED
      BY <3>1, <3>2
  <2>6. /\ chatCut' \in 0..Len(chats') /\ DOMAIN budget' = Processes /\ Now \in 1..Len(chats') /\ Now > chatCut'
        /\ Now \notin 1..Len(chats) /\ \A i \in 1..Len(chats') : i \in 1..Len(chats) \/ i = Now
    BY <1>2, <2>2, <2>4 DEF Now
  <2>7. ASSUME NEW v \in Workers, work'[v].pc = "complete"
        PROVE  /\ work'[v].chat \in 1..Len(chats') /\ chats'[work'[v].chat].state = "flying"
               /\ chats'[work'[v].chat].at = work'[v].at /\ (v # w => work'[v].chat \in 1..Len(chats))
    <3>1. CASE v = w
      BY <2>1, <2>3, <2>4, <2>6, <3>1
    <3>2. CASE v # w
      BY <1>2, <2>3, <2>4, <2>7, <3>2 DEF Others, Budgeted, Now
    <3> QED
      BY <3>1, <3>2
  <2>8. ASSUME NEW u \in Workers, NEW v \in Workers, work'[u].pc = "complete", work'[v].pc = "complete",
               work'[u].chat = work'[v].chat
        PROVE  u = v
    <3>1. CASE u # w /\ v # w
      BY <2>3, <2>8, <3>1 DEF Others, Budgeted
    <3>2. CASE u = w \/ v = w
      BY <2>3, <2>6, <2>7, <2>8, <3>2
    <3> QED
      BY <3>1, <3>2
  <2>9. \A i \in 1..Len(chats') : chats'[i].state = "flying" => i > chatCut'
    BY <1>2, <2>4, <2>6 DEF Budgeted
  <2> QED
    BY <2>5, <2>6, <2>7, <2>8, <2>9 DEF Budgeted
<1>5. CASE ~ Admits(b)
  <2>1. /\ budget' = [budget EXCEPT ![p] = b] /\ chats' = chats /\ work' = [work EXCEPT ![w] = NoWork]
    BY <1>0, <1>5 DEF Allow
  <2>2. \A q \in Processes : BudgetOK(budget'[q], chats', q, chatCut')
    BY <1>2, <1>3, <2>1
  <2>3. \A v \in Workers : work'[v].pc = "complete" => work'[v] = work[v]
    BY <1>1, <2>1, NoJob
  <2> QED
    BY <1>2, <2>1, <2>2, <2>3 DEF Budgeted
<1> QED
  BY <1>4, <1>5

\* A call comes back.
LEMMA AnswerBudgeted ==
    ASSUME Orderly, Budgeted, NEW w \in Workers, NEW cost \in Estimates, NEW noted, Answer(w, cost, noted),
           work'[w].pc # "complete", Others(w)
    PROVE  Budgeted'
<1> DEFINE x == work[w]
           p == x.at
<1>1. Typed /\ x.pc = "complete" /\ p \in Processes /\ chats \in Seq(Call) /\ cost \in Nat
  BY AtWork, BoundsAssumption DEF Orderly, Typed, Answer, BoundsAssumption
<1>2. /\ chatCut \in 0..Len(chats) /\ Len(chats) \in Nat /\ chatCut' = chatCut /\ DOMAIN budget = Processes
      /\ \A q \in Processes : BudgetOK(budget[q], chats, q, chatCut)
  BY <1>1 DEF Budgeted, Answer
<1>0. PICK k : k = x.chat
  OBVIOUS
<1>3. k \in 1..Len(chats) /\ chats[k].state = "flying" /\ chats[k].at = p
  BY <1>0, <1>1 DEF Budgeted
<1>0b. PICK b : b = slideLocked(budget[p], chatCut)
  OBVIOUS
<1>4. BudgetOK(b, chats, p, chatCut)
  BY <1>0b, <1>1, <1>2, SlideBudget
<1>5. PICK c : c = [chats[k] EXCEPT !.cost = cost, !.state = "recorded"]
  OBVIOUS
<1>6. c \in Call /\ c.at = p /\ c.cost = cost /\ c.state = "recorded"
  <2>1. chats[k] \in Call
    BY <1>1, <1>3
  <2> QED
    BY <1>1, <1>3, <1>5, <2>1, Zenon DEF Call
<1>7. PICK ds : ds = [chats EXCEPT ![k] = c]
  BY Zenon
<1>8. ds \in Seq(Call) /\ Len(ds) = Len(chats) /\ ds[k] = c /\ \A i \in 1..Len(chats) : i # k => ds[i] = chats[i]
  BY <1>1, <1>3, <1>6, <1>7
<1>9. PICK d : d = Record(b, cost, Len(chats))
  OBVIOUS
<1>10. chats' = ds /\ budget' = [budget EXCEPT ![p] = d]
  BY <1>0, <1>0b, <1>1, <1>3, <1>5, <1>7, <1>9, Zenon DEF Answer
<1>11. ASSUME NEW q \in Processes PROVE BudgetOK(budget'[q], chats', q, chatCut')
  <2>1. CASE q = p
    <3>1. BudgetOK(d, ds, p, chatCut)
      BY <1>1, <1>2, <1>3, <1>4, <1>6, <1>8, <1>9, RecordBudget DEF Returned
    <3> QED
      BY <1>2, <1>10, <2>1, <3>1
  <2>2. CASE q # p
    <3>1. \A i \in 1..Len(chats) : ds[i].at = chats[i].at /\ (chats[i].at = q => ds[i] = chats[i])
      BY <1>3, <1>6, <1>8, <2>2
    <3>2. BudgetOK(budget[q], ds, q, chatCut)
      BY <1>1, <1>2, <1>8, <3>1, SameBudget
    <3> QED
      BY <1>2, <1>10, <2>2, <3>2
  <2> QED
    BY <2>1, <2>2
<1>12. ASSUME NEW v \in Workers, work'[v].pc = "complete"
       PROVE  v # w /\ work'[v] = work[v] /\ work[v].chat \in 1..Len(chats) /\ work[v].chat # k
  BY <1>0, <1>1, <1>12 DEF Others, Budgeted
<1>13. \A v \in Workers : work'[v].pc = "complete" =>
          /\ work'[v].chat \in 1..Len(chats') /\ chats'[work'[v].chat].state = "flying"
          /\ chats'[work'[v].chat].at = work'[v].at
  BY <1>8, <1>10, <1>12 DEF Budgeted
<1>14. \A u, v \in Workers : work'[u].pc = "complete" /\ work'[v].pc = "complete" /\ work'[u].chat = work'[v].chat => u = v
  BY <1>12 DEF Budgeted
<1>15. \A i \in 1..Len(chats') : chats'[i].state = "flying" => i > chatCut'
  BY <1>2, <1>6, <1>8, <1>10 DEF Budgeted
<1> QED
  BY <1>2, <1>8, <1>10, <1>11, <1>13, <1>14, <1>15 DEF Budgeted

\* A handler dies on a call: what was set aside for it stays.
LEMMA PanicBudgeted ==
    ASSUME Orderly, Budgeted, NEW w \in Workers, Panic(w), work'[w].pc # "complete", Others(w)
    PROVE  Budgeted'
<1> PICK k : k = work[w].chat
  OBVIOUS
<1>1. Typed /\ work[w].pc = "complete" /\ chats \in Seq(Call) /\ budget' = budget /\ chatCut' = chatCut
  BY DEF Orderly, Typed, Panic
<1>2. /\ chatCut \in 0..Len(chats) /\ DOMAIN budget = Processes /\ k \in 1..Len(chats) /\ chats[k].state = "flying"
      /\ \A q \in Processes : BudgetOK(budget[q], chats, q, chatCut)
  BY <1>1 DEF Budgeted
<1>3. PICK c : c = [chats[k] EXCEPT !.state = "abandoned"]
  BY Zenon
<1>4. c \in Call /\ c.at = chats[k].at /\ c.cost = chats[k].cost /\ c.state = "abandoned"
  <2>1. chats[k] \in Call
    BY <1>1, <1>2
  <2> QED
    BY <1>3, <2>1 DEF Call
<1>5. PICK ds : ds = [chats EXCEPT ![k] = c]
  BY Zenon
<1>6. ds \in Seq(Call) /\ Len(ds) = Len(chats) /\ ds[k] = c /\ \A i \in 1..Len(chats) : i # k => ds[i] = chats[i]
  BY <1>1, <1>2, <1>4, <1>5
<1>7. chats' = ds
  BY <1>1, <1>2, <1>3, <1>5 DEF Panic
<1>8. \A q \in Processes : BudgetOK(budget[q], ds, q, chatCut)
  BY <1>1, <1>2, <1>4, <1>6, SameBudget
<1>9. ASSUME NEW v \in Workers, work'[v].pc = "complete"
      PROVE  v # w /\ work'[v] = work[v] /\ work[v].chat \in 1..Len(chats) /\ work[v].chat # k
  BY <1>1, <1>9 DEF Others, Budgeted
<1>10. \A v \in Workers : work'[v].pc = "complete" =>
          /\ work'[v].chat \in 1..Len(chats') /\ chats'[work'[v].chat].state = "flying"
          /\ chats'[work'[v].chat].at = work'[v].at
  BY <1>6, <1>7, <1>9 DEF Budgeted
<1>11. \A u, v \in Workers : work'[u].pc = "complete" /\ work'[v].pc = "complete" /\ work'[u].chat = work'[v].chat => u = v
  BY <1>9 DEF Budgeted
<1>12. \A i \in 1..Len(chats') : chats'[i].state = "flying" => i > chatCut'
  BY <1>1, <1>2, <1>4, <1>6, <1>7 DEF Budgeted
<1> QED
  BY <1>1, <1>2, <1>6, <1>7, <1>8, <1>10, <1>11, <1>12 DEF Budgeted

\* A process dies with its budget and its calls.
LEMMA RestartBudgeted ==
    ASSUME Orderly, Budgeted, NEW p \in Processes, NEW tear \in BOOLEAN, Restart(p, tear)
    PROVE  Budgeted'
<1>1. Typed /\ chats \in Seq(Call) /\ WorkSurvives(p)
  BY RestartTyped DEF Orderly, Typed
<1>2. /\ chatCut \in 0..Len(chats) /\ DOMAIN budget = Processes
      /\ \A q \in Processes : BudgetOK(budget[q], chats, q, chatCut)
  BY DEF Budgeted
<1>3. PICK ds : ds = [i \in DOMAIN chats |->
                         IF chats[i].at = p THEN [chats[i] EXCEPT !.state = "forgotten"] ELSE chats[i]]
  BY Zenon
<1>4. chats' = ds /\ budget' = [budget EXCEPT ![p] = NoBudget] /\ chatCut' = chatCut
  BY <1>3 DEF Restart
<1>5. /\ ds \in Seq(Call) /\ Len(ds) = Len(chats)
      /\ \A i \in 1..Len(chats) : /\ ds[i].at = chats[i].at
                                  /\ chats[i].at = p => ds[i].state = "forgotten"
                                  /\ chats[i].at # p => ds[i] = chats[i]
  <2>1. DOMAIN chats = 1..Len(chats) /\ Len(chats) \in Nat /\ \A i \in 1..Len(chats) : chats[i] \in Call
    BY <1>1
  <2>2. ASSUME NEW i \in 1..Len(chats)
        PROVE  /\ ds[i] \in Call /\ ds[i].at = chats[i].at
               /\ chats[i].at = p => ds[i].state = "forgotten"
               /\ chats[i].at # p => ds[i] = chats[i]
    <3>1. CASE chats[i].at = p
      BY <1>3, <2>1, <3>1 DEF Call
    <3>2. CASE chats[i].at # p
      BY <1>3, <2>1, <3>2
    <3> QED
      BY <3>1, <3>2
  <2>3. ds = [i \in 1..Len(chats) |-> ds[i]]
    BY <1>3, <2>1
  <2>4. ds \in [1..Len(chats) -> Call]
    BY <2>2, <2>3
  <2>5. ds \in Seq(Call) /\ Len(ds) = Len(chats)
    BY <2>1, <2>4
  <2> QED
    BY <2>2, <2>5
<1>6. ASSUME NEW q \in Processes PROVE BudgetOK(budget'[q], chats', q, chatCut')
  <2>1. CASE q = p
    BY <1>2, <1>4, <1>5, <2>1, EmptyBudget
  <2>2. CASE q # p
    BY <1>1, <1>2, <1>4, <1>5, <2>2, SameBudget
  <2> QED
    BY <2>1, <2>2
<1>7. ASSUME NEW w \in Workers, work'[w].pc = "complete"
      PROVE  work'[w] = work[w] /\ work[w].chat \in 1..Len(chats) /\ ds[work[w].chat] = chats[work[w].chat]
  <2>1. work'[w] = work[w] /\ work[w].at # p
    BY <1>1, <1>7, NoJob DEF WorkSurvives, Mine
  <2>2. work[w].chat \in 1..Len(chats) /\ chats[work[w].chat].at = work[w].at
    BY <1>7, <2>1 DEF Budgeted
  <2> QED
    BY <1>5, <2>1, <2>2
<1>8. \A w \in Workers : work'[w].pc = "complete" =>
         /\ work'[w].chat \in 1..Len(chats') /\ chats'[work'[w].chat].state = "flying"
         /\ chats'[work'[w].chat].at = work'[w].at
  BY <1>4, <1>5, <1>7 DEF Budgeted
<1>9. \A v, w \in Workers : work'[v].pc = "complete" /\ work'[w].pc = "complete" /\ work'[v].chat = work'[w].chat => v = w
  BY <1>7 DEF Budgeted
<1>10. \A i \in 1..Len(chats') : chats'[i].state = "flying" => i > chatCut'
  BY <1>4, <1>5 DEF Budgeted
<1> QED
  BY <1>2, <1>4, <1>5, <1>6, <1>8, <1>9, <1>10 DEF Budgeted

\* Every step.
LEMMA NextBudgeted ==
    ASSUME Orderly, reserved \in Nat, Budgeted, [Next]_vars
    PROVE  Budgeted'
<1>1. Typed /\ chats \in Seq(Call) /\ chatCut \in 0..Len(chats)
  BY DEF Orderly, Typed, Budgeted
<1>2. ASSUME NEW w \in Workers, Handler(w)
      PROVE  Budgeted'
  <2>1. CASE \E e \in Estimates : Allow(w, e)
    BY <2>1, AllowBudgeted
  <2>2. CASE ~ \E e \in Estimates : Allow(w, e)
    <3>1. work'[w].pc # "complete" /\ Others(w)
      BY <1>2, <2>2, HandlerCalls
    <3>2. CASE \E e \in Estimates, noted \in scene.drafts : Answer(w, e, noted)
      BY <3>1, <3>2, AnswerBudgeted
    <3>3. CASE Panic(w)
      BY <3>1, <3>3, PanicBudgeted
    <3>4. CASE ~ (\E e \in Estimates, noted \in scene.drafts : Answer(w, e, noted)) /\ ~ Panic(w)
      <4>1. budget' = budget /\ chats' = chats /\ chatCut' = chatCut
        BY <1>2, <2>2, <3>4, Zenon DEF Handler, HandleMention, LockRoot, Enter, Unlock, Drop,
              IsOpen, AppendToEntry, CommentOnPR, OpenPR, WriteBack, Count, chatting
      <4>2. \A v \in Workers : work'[v].pc = "complete" => work'[v] = work[v]
        BY <3>1 DEF Others
      <4> QED
        BY <4>1, <4>2, QuietBudgeted
    <3> QED
      BY <3>2, <3>3, <3>4
  <2> QED
    BY <2>1, <2>2
<1>3. ASSUME \/ \E root \in scene.roots, c \in BOOLEAN : Register(root, c)
             \/ \E n \in DOMAIN prs : Close(n)
             \/ Tick \/ Slide \/ (\E p \in Processes : Failover(p)) \/ UNCHANGED vars
      PROVE  Budgeted'
  BY <1>3, QuietBudgeted DEF Register, Close, Tick, Slide, Failover, vars, chatting
<1>4. ASSUME ChatSlide
      PROVE  Budgeted'
  <2>1. PICK t \in chatCut + 1 .. Len(chats) :
           (\A i \in chatCut + 1 .. t : chats[i].state # "flying") /\ chatCut' = t
    BY <1>4 DEF ChatSlide
  <2>2. budget' = budget /\ chats' = chats /\ work' = work
    BY <1>4 DEF ChatSlide
  <2>3. t \in Nat /\ chatCut \in Nat /\ chatCut <= t /\ t \in 0..Len(chats) /\ Len(chats) \in Nat
    BY <1>1, <2>1
  <2>4. \A p \in Processes : BudgetOK(budget[p], chats, p, t)
    BY <1>1, <2>3, LaterBudget DEF Budgeted
  <2>5. \A i \in 1..Len(chats) : chats[i].state = "flying" => i > t
    <3> SUFFICES ASSUME NEW i \in 1..Len(chats), chats[i].state = "flying" PROVE i > t
      OBVIOUS
    <3>1. i > chatCut
      BY DEF Budgeted
    <3> QED
      BY <2>1, <2>3, <3>1
  <2> QED
    BY <2>1, <2>2, <2>3, <2>4, <2>5 DEF Budgeted
<1> QED
  BY <1>2, <1>3, <1>4, RestartBudgeted DEF Next

\* No call has been made in the beginning.
LEMMA InitBudgeted ==
    ASSUME Init
    PROVE  Budgeted
<1>1. /\ chats = <<>> /\ chatCut = 0 /\ budget = [p \in Processes |-> NoBudget]
      /\ \A w \in Workers : work[w] = NoWork
  BY DEF Init
<1>2. \A p \in Processes : BudgetOK(NoBudget, <<>>, p, 0)
  <2>1. <<>> \in Seq(Call) /\ \A p \in Processes : \A i \in 1..Len(<<>>) : <<>>[i].at = p => <<>>[i].state = "forgotten"
    OBVIOUS
  <2> PICK cs : cs = <<>>
    OBVIOUS
  <2> QED
    BY <2>1, EmptyBudget, Zenon
<1> QED
  BY <1>1, <1>2, NoJob DEF Budgeted

\* A budget in order settles: it holds no more than is owing, and what the calls cost.
LEMMA BudgetedSettles ==
    ASSUME Orderly, Budgeted
    PROVE  BudgetSettles
<1>1. chats \in Seq(Call) /\ chatCut \in 0..Len(chats) /\ Len(chats) \in Nat /\ DOMAIN chats = 1..Len(chats)
  BY DEF Orderly, Typed, Budgeted
<1> SUFFICES ASSUME NEW p \in Processes
             PROVE  LET b == slideLocked(budget[p], chatCut)
                        mine == {i \in DOMAIN chats : chats[i].at = p /\ chats[i].state # "forgotten"}
                        inWindow(st) == {i \in mine : i > chatCut /\ chats[i].state = st}
                        cost == [i \in DOMAIN chats |-> IF i \in inWindow("recorded") THEN chats[i].cost ELSE 0]
                    IN /\ Cardinality(Pending(b)) <= Cardinality(inWindow("flying")) + Cardinality(inWindow("abandoned"))
                       /\ MaxTokens > 0 /\ inWindow("recorded") = mine =>
                              spentLocked(b) = Total(cost, Len(chats))
  BY Zenon DEF BudgetSettles
<1> DEFINE mine == {i \in DOMAIN chats : chats[i].at = p /\ chats[i].state # "forgotten"}
           inWindow(st) == {i \in mine : i > chatCut /\ chats[i].state = st}
           cost == [i \in DOMAIN chats |-> IF i \in inWindow("recorded") THEN chats[i].cost ELSE 0]
<1>2. PICK b : b = slideLocked(budget[p], chatCut)
  OBVIOUS
<1>3. BudgetOK(b, chats, p, chatCut) /\ BudgetOK(budget[p], chats, p, chatCut)
  BY <1>1, <1>2, SlideBudget DEF Budgeted
<1>4. b \in Budget /\ Ordered(b.spent) /\ b.spent \in Seq(Entry) /\ DOMAIN b.spent = 1..Len(b.spent) /\ Len(b.spent) \in Nat
  BY <1>3 DEF BudgetOK, Budget
<1>5. \A i \in 1..Len(b.spent) : b.spent[i].at > chatCut
  BY <1>2, <1>3, SlideIs DEF BudgetOK
<1>6. IsFiniteSet(Pending(b)) /\ Cardinality(Pending(b)) \in Nat
  <2>1. IsFiniteSet(1..Len(b.spent)) /\ Pending(b) \subseteq 1..Len(b.spent)
    BY <1>4, FS_Interval DEF Pending
  <2> QED
    BY <2>1, FS_Subset, FS_CardinalityType
<1>7. Cardinality(Pending(b)) = Cardinality(Reservations(b, chatCut))
  <2> DEFINE f == [i \in Pending(b) |-> b.spent[i].at]
  <2>1. Reservations(b, chatCut) = {b.spent[i].at : i \in Pending(b)}
    BY <1>4, <1>5 DEF Reservations, Pending
  <2>2. f \in [Pending(b) -> Reservations(b, chatCut)]
    BY <2>1
  <2>3. \A y \in Reservations(b, chatCut) : \E i \in Pending(b) : f[i] = y
    BY <2>1
  <2>4. \A i, j \in Pending(b) : f[i] = f[j] => i = j
    <3> SUFFICES ASSUME NEW i \in Pending(b), NEW j \in Pending(b), i # j PROVE b.spent[i].at # b.spent[j].at
      OBVIOUS
    <3>1. /\ i \in 1..Len(b.spent) /\ j \in 1..Len(b.spent) /\ b.spent[i].pending /\ b.spent[j].pending
          /\ b.spent[i].at \in Nat /\ b.spent[j].at \in Nat
      <4>1. \A k \in 1..Len(b.spent) : b.spent[k] \in Entry
        BY <1>4
      <4>2. i \in 1..Len(b.spent) /\ j \in 1..Len(b.spent) /\ b.spent[i].pending /\ b.spent[j].pending
        BY <1>4 DEF Pending
      <4> QED
        BY <4>1, <4>2 DEF Entry
    <3>2. i < j \/ j < i
      BY <3>1
    <3> QED
      BY <1>4, <3>1, <3>2 DEF Ordered
  <2> HIDE DEF f
  <2>5. f \in Bijection(Pending(b), Reservations(b, chatCut))
    BY <2>2, <2>3, <2>4 DEF Bijection, Injection, Surjection, IsInjective
  <2>6. ExistsBijection(Pending(b), Reservations(b, chatCut))
    BY <2>5 DEF ExistsBijection
  <2> QED
    BY <1>6, <2>6, FS_Bijection
<1>8. Cardinality(Reservations(b, chatCut)) <= Cardinality(Owing(chats, p, chatCut))
  BY <1>1, <1>3 DEF BudgetOK
<1>9. Owing(chats, p, chatCut) = inWindow("flying") \cup inWindow("abandoned")
  BY <1>1 DEF Owing
<1>10. \A st : IsFiniteSet(inWindow(st)) /\ Cardinality(inWindow(st)) \in Nat
  <2> SUFFICES ASSUME NEW st PROVE IsFiniteSet(inWindow(st)) /\ Cardinality(inWindow(st)) \in Nat
    BY Zenon
  <2>1. IsFiniteSet(1..Len(chats)) /\ inWindow(st) \subseteq 1..Len(chats)
    BY <1>1, FS_Interval
  <2> HIDE DEF inWindow
  <2> QED
    BY <2>1, FS_Subset, FS_CardinalityType
<1>11. Cardinality(Pending(b)) <= Cardinality(inWindow("flying")) + Cardinality(inWindow("abandoned"))
  <2>1. PICK F : F = inWindow("flying")
    BY Zenon
  <2>2. PICK A : A = inWindow("abandoned")
    BY Zenon
  <2>3. IsFiniteSet(F) /\ IsFiniteSet(A) /\ Cardinality(F) \in Nat /\ Cardinality(A) \in Nat
    BY <1>10, <2>1, <2>2, Zenon
  <2>4. Cardinality(F \cup A) <= Cardinality(F) + Cardinality(A)
    <3>1. IsFiniteSet(F \cap A)
      BY <2>3, FS_Intersection
    <3>2. Cardinality(F \cap A) \in Nat
      BY <3>1, FS_CardinalityType
    <3>3. Cardinality(F \cup A) = Cardinality(F) + Cardinality(A) - Cardinality(F \cap A)
      BY <2>3, FS_Union
    <3> QED
      BY <2>3, <3>2, <3>3
  <2>5. Owing(chats, p, chatCut) = F \cup A
    BY <1>9, <2>1, <2>2
  <2>6. Cardinality(F \cup A) \in Nat
    BY <2>3, FS_Union, FS_CardinalityType, Zenon
  <2> HIDE DEF inWindow
  <2> QED
    BY <1>6, <1>7, <1>8, <2>1, <2>2, <2>3, <2>4, <2>5, <2>6
<1>12. ASSUME MaxTokens > 0, inWindow("recorded") = mine
       PROVE  spentLocked(b) = Total(cost, Len(chats))
  <2>1. \A i \in mine : i > chatCut /\ chats[i].state = "recorded"
    BY <1>12
  <2>2. CallsOf(chats, p) = mine
    BY <1>1 DEF CallsOf
  <2>3. Settled(b) = Total(Costs(chats, p), Len(chats))
    BY <1>3, <1>12, <2>1, <2>2 DEF BudgetOK
  <2>4. Owing(chats, p, chatCut) = {}
    BY <1>1, <2>1 DEF Owing
  <2>5. Pending(b) = {}
    BY <1>6, <1>7, <1>8, <2>4, FS_EmptySet
  <2>6. Settlements(b) = [i \in DOMAIN b.spent |-> b.spent[i].tokens]
    BY <1>4, <2>5 DEF Settlements, Pending
  <2>7. Costs(chats, p) = cost
    BY <1>1, <2>1 DEF Costs
  <2> HIDE DEF cost
  <2> QED
    BY <2>3, <2>6, <2>7 DEF Settled, spentLocked
<1> HIDE DEF inWindow, cost
<1> QED
  BY <1>2, <1>11, <1>12 DEF inWindow, cost

\* A budget holds no more reservations than there are calls in flight or never come back, and
\* when all have come back what they cost (budget.go:361-380).
THEOREM BudgetsSettle == Spec => []BudgetSettles
<1>1. Init => Orderly /\ reserved \in Nat /\ Budgeted
  BY InitOrderly, InitBudgeted
<1>2. Orderly /\ reserved \in Nat /\ Budgeted /\ [Next]_vars => (Orderly /\ reserved \in Nat /\ Budgeted)'
  BY NextOrderly, ReservedCounts, NextBudgeted
<1>3. Orderly /\ Budgeted => BudgetSettles
  BY BudgetedSettles
<1> QED
  BY <1>1, <1>2, <1>3, PTL DEF Spec
-----------------------------------------------------------------------------
(* What the lines of a file say last.                                      *)

\* The last line of every root.
Lasts(lines) == {lines[j] : j \in {i \in 1..Len(lines) : LastOf(lines, Len(lines), lines[i].root, i)}}

\* A root has one last line.
LEMMA OneLast ==
    ASSUME NEW lines \in Seq(Context), NEW c \in Lasts(lines), NEW d \in Lasts(lines), c.root = d.root
    PROVE  c = d
<1>1. PICK i \in 1..Len(lines) : LastOf(lines, Len(lines), lines[i].root, i) /\ c = lines[i]
  BY DEF Lasts
<1>2. PICK j \in 1..Len(lines) : LastOf(lines, Len(lines), lines[j].root, j) /\ d = lines[j]
  BY DEF Lasts
<1>3. i <= j /\ j <= i
  BY <1>1, <1>2 DEF LastOf
<1> QED
  BY <1>1, <1>2, <1>3

\* A line put at the end is the last of its root, and no other is.
LEMMA AppendedLasts ==
    ASSUME NEW lines \in Seq(Context), NEW c \in Context
    PROVE  Lasts(Append(lines, c)) \subseteq {d \in Lasts(lines) : d.root # c.root} \cup {c}
<1> DEFINE n == Len(lines)
<1>1. PICK new : new = Append(lines, c)
  BY Zenon
<1>2. n \in Nat /\ Len(new) = n + 1 /\ new[n + 1] = c /\ \A i \in 1..n : new[i] = lines[i]
  BY <1>1
<1> HIDE DEF n
<1>3. ASSUME NEW d \in Lasts(new), d # c PROVE d \in Lasts(lines) /\ d.root # c.root
  <2>1. PICK i \in 1..n + 1 : LastOf(new, n + 1, new[i].root, i) /\ d = new[i]
    BY <1>2, <1>3 DEF Lasts
  <2>2. i \in 1..n /\ d = lines[i]
    BY <1>2, <1>3, <2>1
  <2>3. d.root # c.root
    BY <1>2, <2>1, <2>2 DEF LastOf
  <2>4. LastOf(lines, n, lines[i].root, i)
    BY <1>2, <2>1, <2>2 DEF LastOf
  <2> QED
    BY <2>2, <2>3, <2>4 DEF Lasts, n
<1> QED
  BY <1>1, <1>3

\* A memory written out has no line but for its contexts.
LEMMA CompactedLasts ==
    ASSUME NEW mem, NEW max, RegistryOK(mem, max)
    PROVE  Lasts(Compacted(mem)) \subseteq {mem.byId[r] : r \in Tracked(mem)}
<1> PICK q \in Seq(Roots) : q = mem.order
  BY DEF RegistryOK
<1>1. DOMAIN q = 1..Len(q) /\ Len(q) \in Nat
  OBVIOUS
<1>2. ASSUME NEW i \in 1..Len(q) PROVE q[i] \in Tracked(mem)
  BY <1>1, TrackedIs DEF Range
<1>3. PICK lines : lines = Compacted(mem)
  OBVIOUS
<1>4. lines = [i \in 1..Len(q) |-> mem.byId[q[i]]]
  BY <1>1, <1>3 DEF Compacted
<1>5. Len(lines) = Len(q) /\ \A i \in 1..Len(q) : lines[i] = mem.byId[q[i]]
  BY <1>1, <1>4
<1> QED
  BY <1>2, <1>3, <1>5 DEF Lasts

\* What a replay tracks is what the file says last.
LEMMA ReplayedLasts ==
    ASSUME NEW lines \in Seq(Context), NEW max \in Nat \ {0}
    PROVE  \A r \in Tracked(Replays(lines, max)) : Replays(lines, max).byId[r] \in Lasts(lines)
<1>1. PICK f : ReplayFirst(f, lines, max, Len(lines)) /\ Replays(lines, max) = f[Len(lines)]
  BY ReplayExists
<1>2. ASSUME NEW r \in Tracked(f[Len(lines)]) PROVE f[Len(lines)].byId[r] \in Lasts(lines)
  <2>1. Len(lines) \in 0..Len(lines)
    OBVIOUS
  <2>2. PICK j \in 1..Len(lines) : LastOf(lines, Len(lines), r, j) /\ f[Len(lines)].byId[r] = lines[j]
    BY <1>1, <1>2, <2>1, ReplayValue
  <2>3. lines[j].root = r
    BY <2>2 DEF LastOf
  <2> QED
    BY <2>2, <2>3 DEF Lasts
<1> QED
  BY <1>1, <1>2

\* A file with no more lines than a memory of its last lines has roots says nothing else.
LEMMA NothingElse ==
    ASSUME NEW lines \in Seq(Context), NEW mem, NEW max, RegistryOK(mem, max),
           \A r \in Tracked(mem) : mem.byId[r] \in Lasts(lines),
           Len(lines) <= Cardinality(Tracked(mem))
    PROVE  Lasts(lines) \subseteq {mem.byId[r] : r \in Tracked(mem)}
<1> DEFINE n == Len(lines)
           T == Tracked(mem)
<1>1. n \in Nat /\ \A r \in T : mem.byId[r].root = r
  BY TrackedIs
<1>2. ASSUME NEW j \in 1..n, LastOf(lines, n, lines[j].root, j), lines[j].root \notin T PROVE FALSE
  <2> DEFINE S == 1..n \ {j}
             good(r, i) == i \in S /\ lines[i].root = r
             g == [r \in T |-> CHOOSE i : good(r, i)]
  <2>1. ASSUME NEW r \in T PROVE \E i : good(r, i)
    <3>1. PICK i \in 1..n : mem.byId[r] = lines[i]
      BY DEF Lasts
    <3>2. lines[i].root = r /\ i # j
      BY <1>1, <1>2, <3>1
    <3> QED
      BY <3>2
  <2>2. \A r \in T : good(r, g[r])
    <3>1. ASSUME NEW r \in T PROVE good(r, CHOOSE i : good(r, i))
      <4> HIDE DEF good
      <4> QED
        BY <2>1
    <3> QED
      BY <3>1
  <2> HIDE DEF g
  <2>3. g \in Injection(T, S)
    BY <2>2 DEF g, Injection, IsInjective
  <2>4. IsFiniteSet(1..n) /\ Cardinality(1..n) = n
    BY <1>1, FS_Interval
  <2>5. IsFiniteSet(S) /\ Cardinality(S) = n - 1
    BY <2>4, FS_RemoveElement, Zenon
  <2>6. IsFiniteSet(T) /\ Cardinality(T) <= Cardinality(S)
    BY <2>3, <2>5, FS_Injection
  <2>7. Cardinality(T) \in Nat
    BY <2>6, FS_CardinalityType
  <2> QED
    BY <1>1, <2>5, <2>6, <2>7
<1>3. ASSUME NEW c \in Lasts(lines) PROVE c \in {mem.byId[r] : r \in T}
  <2>1. PICK j \in 1..n : LastOf(lines, n, lines[j].root, j) /\ c = lines[j]
    BY DEF Lasts
  <2>2. c.root \in T
    BY <1>2, <2>1
  <2>3. mem.byId[c.root] = c
    BY <1>1, <2>2, OneLast
  <2> QED
    BY <2>2, <2>3
<1> QED
  BY <1>3

-----------------------------------------------------------------------------
(* What the leader knows of the threads.                                   *)

\* The contexts it tracks, and with them those that a restart would give it.
Live == {memory[active].byId[r] : r \in Tracked(memory[active])}
Lore == Live \cup Lasts(file)

\* Nothing new is known, or a context takes the place of the one of its root.
Keeps == Live' \subseteq Live /\ Lore' \subseteq Lore

Learns(c) ==
    /\ Live' \subseteq {d \in Live : d.root # c.root} \cup {c}
    /\ Lore' \subseteq {d \in Lore : d.root # c.root} \cup {c}

\* They are contexts of threads that were born.
LEMMA LoreOK ==
    ASSUME Typed
    PROVE  /\ Live \subseteq Lore /\ file \in Seq(Context)
           /\ \A c \in Lore : ContextOK(c, born, prs)
           /\ MemoryOK(memory[active], scene.maxLive, born, prs)
           /\ \A c, d \in Live : c.root = d.root => c = d
           /\ \A c \in Live : c.root \in Tracked(memory[active]) /\ memory[active].byId[c.root] = c
           /\ \A r \in Tracked(memory[active]) : memory[active].byId[r] \in Live /\ memory[active].byId[r].root = r
<1>1. active \in Processes /\ MemoryOK(memory[active], scene.maxLive, born, prs)
  BY DEF Typed, RegistriesTyped
<1> PICK mem : mem = memory[active]
  OBVIOUS
<1>2. /\ \A r \in Tracked(mem) : mem.byId[r].root = r /\ ContextOK(mem.byId[r], born, prs)
  BY <1>1, TrackedIs DEF MemoryOK
<1>3. file \in Seq(Context) /\ \A i \in 1..Len(file) : ContextOK(file[i], born, prs)
  BY DEF Typed, FileTyped, FileOK
<1>4. ASSUME NEW c \in Lore PROVE ContextOK(c, born, prs)
  BY <1>2, <1>3, <1>4 DEF Lore, Live, Lasts
<1> QED
  BY <1>1, <1>2, <1>3, <1>4 DEF Lore, Live

\* A fault is in the list, and what was in the list stays there.
LEMMA FaultShows ==
    ASSUME Typed, NEW kind, Fault(kind)
    PROVE  /\ kind \in {"append", "torn", "failover"} => ~ Steady'
           /\ Steady' => Steady
<1>1. failures' = Append(failures, kind) /\ failures' \in Seq(Kinds) /\ failures \in Seq(Kinds)
  BY FaultTyped DEF Typed, FileTyped
<1> PICK n : n = Len(failures)
  BY Zenon
<1> PICK new : new = failures'
  OBVIOUS
<1>2. n \in Nat /\ DOMAIN failures = 1..n /\ DOMAIN new = 1..n + 1 /\ new[n + 1] = kind /\ \A i \in 1..n : new[i] = failures[i]
  BY <1>1
<1>3. kind \in Range(new) /\ Range(failures) \subseteq Range(new)
  BY <1>2 DEF Range
<1> QED
  BY <1>3 DEF Steady

\* Without a fault nothing is more or less steady.
LEMMA NoFaultShows == ASSUME failures' = failures PROVE Steady' <=> Steady
BY DEF Steady

\* Nothing is learnt where neither the registry nor the file changes.
LEMMA SameKeeps ==
    ASSUME active' = active, memory' = memory, file' = file
    PROVE  Keeps
BY DEF Keeps, Lore, Live

\* Expiry only forgets.
LEMMA ExpiryKeeps ==
    ASSUME Typed, NEW p \in Processes, memory' = [memory EXCEPT ![p] = expireLocked(memory[p])],
           active' = active, file' = file
    PROVE  Keeps
<1>1. active \in Processes /\ DOMAIN memory = Processes /\ RegistryOK(memory[p], scene.maxLive) /\ scene.maxLive \in Nat
  BY Bounds DEF Typed, RegistriesTyped, MemoryOK
<1> PICK mem : mem = memory[p]
  OBVIOUS
<1> PICK new : new = expireLocked(mem)
  OBVIOUS
<1>2. Tracked(new) \subseteq Tracked(mem) /\ \A r \in Tracked(new) : new.byId[r] = mem.byId[r]
  BY <1>1, Expired
<1>3. memory'[active] = IF active = p THEN new ELSE memory[active]
  BY <1>1
<1>4. Live' \subseteq Live
  BY <1>2, <1>3 DEF Live
<1> QED
  BY <1>4 DEF Keeps, Lore

\* What is stored while the appends succeed is learnt, and the file ends in a whole line.
LEMMA StoreLearns ==
    ASSUME Typed, NEW mem, RegistryOK(mem, scene.maxLive), Tracked(mem) \subseteq Tracked(memory[active]),
           \A r \in Tracked(mem) : mem.byId[r] = memory[active].byId[r],
           NEW c \in Context, Store(active, mem, c), active' = active, Steady', ~ torn
    PROVE  Learns(c) /\ ~ torn' /\ Steady
<1>1. active \in Processes /\ DOMAIN memory = Processes /\ scene.maxLive \in Nat \ {0} /\ file \in Seq(Context)
  BY Bounds DEF Typed, RegistriesTyped, FileTyped, FileOK
<1> PICK new : new = Put(mem, c, scene.maxLive)
  OBVIOUS
<1> PICK old : old = memory[active]
  OBVIOUS
<1>2. memory'[active] = new
  BY <1>1, PutIs DEF Store
<1>3. /\ c.root \in Tracked(new) /\ new.byId[c.root] = c
      /\ Tracked(new) \subseteq Tracked(mem) \cup {c.root}
      /\ \A r \in Tracked(new) \ {c.root} : new.byId[r] = mem.byId[r]
  BY <1>1, PutOK
<1>4. NoFault /\ file' = Append(file, c) /\ torn' = FALSE
  BY FaultShows DEF Store, appendLocked
<1>5. Live' = {new.byId[r] : r \in Tracked(new)}
  BY <1>2 DEF Live
<1>6. \A r \in Tracked(mem) : mem.byId[r] = old.byId[r] /\ old.byId[r].root = r /\ old.byId[r] \in Live
  BY LoreOK
<1>7. Live' \subseteq {d \in Live : d.root # c.root} \cup {c}
  BY <1>3, <1>5, <1>6
<1>8. Lasts(file') \subseteq {d \in Lasts(file) : d.root # c.root} \cup {c}
  BY <1>1, <1>4, AppendedLasts
<1> QED
  BY <1>4, <1>7, <1>8, NoFaultShows DEF Learns, Lore, NoFault

-----------------------------------------------------------------------------
(* What it knows of a thread is what happened to it.                       *)

\* Whether a handler has a note on the forge that is not counted yet.
Owes(i) == IF \E w \in Workers : work[w].pc \in Landed /\ work[w].tc.inc = i THEN 1 ELSE 0

\* An open pull request of the thread is the one of its context, or on its way there.
NotedIn(c) ==
    \A n \in 1..Len(prs) : prs[n].inc = c.inc /\ prs[n].open /\ ~ prs[n].orphan =>
        \/ c.noteUrl = n
        \/ \E w \in Workers : work[w].pc = "writeBack" /\ work[w].target = n

\* Every note that landed is counted, or owed, or lost.
CountedIn(c) ==
    /\ born[c.inc].landed <= c.notes + Owes(c.inc) + born[c.inc].lost
    /\ born[c.inc].landed <= MaxNotes + Owes(c.inc) + born[c.inc].lost

Covered(c) == born[c.inc].landed <= MaxNotes + born[c.inc].lost

\* A handler at the forge works with what is known of its thread, as long as the thread
\* is not born again meanwhile: then nothing has happened to it yet.
Abreast(x, c, bn, ps) ==
    c.root = x.tc.root =>
        /\ x.pc \in Writing /\ c.inc = x.tc.inc => c.noteUrl = x.tc.noteUrl /\ c.notes = x.tc.notes
        /\ x.pc = "writeBack" /\ c.inc = x.tc.inc => c.noteUrl = NoPR \/ ~ ps[c.noteUrl].open
        /\ x.pc \in Writing \cup Landed /\ c.inc # x.tc.inc =>
              bn[c.inc].landed = 0 /\ \A n \in 1..Len(ps) : ps[n].inc # c.inc

\* Every handler works for the process that leads.
AllLead == \A w \in Workers : work[w].pc # "idle" => work[w].at = active

\* A root has one context, in memory or in the file.
OneEach == \A c, d \in Lore : c.root = d.root => c = d

Known ==
    /\ ~ torn /\ AllLead /\ OneEach
    /\ \A c \in Lore : NotedIn(c) /\ CountedIn(c)
    /\ \A c \in Live : Covered(c) /\ \A w \in Workers : Abreast(work[w], c, born, prs)

\* A root still has one context.
LEMMA OneStill ==
    ASSUME OneEach, Keeps \/ \E c : Learns(c)
    PROVE  OneEach'
<1>1. CASE Keeps
  BY <1>1 DEF Keeps, OneEach
<1>2. ASSUME NEW c, Learns(c) PROVE OneEach'
  BY <1>2 DEF Learns, OneEach
<1> QED
  BY <1>1, <1>2

\* Everything counted is a number.
LEMMA Tallies ==
    ASSUME Typed, NEW c \in Lore
    PROVE  /\ c \in Context /\ c.notes \in Nat /\ c.inc \in 1..Len(born) /\ born[c.inc].root = c.root
           /\ born[c.inc].landed \in Nat /\ born[c.inc].lost \in Nat
           /\ c.noteUrl \in Nat /\ c.noteUrl <= Len(prs)
<1>1. ContextOK(c, born, prs) /\ born \in Seq(Birth)
  BY LoreOK DEF Typed, ForgeTyped
<1>2. born[c.inc] \in Birth
  BY <1>1 DEF ContextOK
<1> QED
  BY <1>1, <1>2, Zenon DEF ContextOK, Context, Birth

\* One count is owed, or none.
LEMMA OwesIs == ASSUME NEW i PROVE Owes(i) \in {0, 1} /\ Owes(i)' \in {0, 1}
BY DEF Owes

\* The handlers at work for the leader at a root are one.
LEMMA OneAtRoot ==
    ASSUME Orderly, AllLead, NEW v \in Workers, NEW w \in Workers, work[v].pc \in Guarded, work[w].pc \in Guarded,
           work[v].tc.root = work[w].tc.root \/ work[v].tc.inc = work[w].tc.inc
    PROVE  v = w
<1>1. work[v].pc # "idle" /\ work[w].pc # "idle"
  BY DEF Guarded
<1>2. work[v].at = work[w].at
  BY <1>1 DEF AllLead
<1>3. ContextOK(work[v].tc, born, prs) /\ ContextOK(work[w].tc, born, prs)
  BY <1>1, AtWork DEF Orderly
<1>4. work[v].tc.root = work[w].tc.root
  BY <1>3 DEF ContextOK
<1> QED
  BY <1>2, <1>4, OrderlyWriters DEF OneWriterPerRoot

\* Nothing happened on the forge to the thread born i-th.
Untouched(i) ==
    /\ born'[i].landed = born[i].landed
    /\ \A n \in 1..Len(prs') : prs'[n].inc = i => n \in 1..Len(prs) /\ prs[n].inc = i

\* A handler that goes on is as much abreast of a thread to which nothing happened.
LEMMA AbreastOn ==
    ASSUME Typed, PullsGrow, NEW x, NEW y, y.tc = x.tc,
           y.pc = x.pc \/ (x.pc \in Writing /\ y.pc \in Writing) \/ (x.pc = "writeBack" /\ y.pc = "count"),
           NEW c, ContextOK(c, born, prs), Abreast(x, c, born, prs),
           c.root = x.tc.root /\ x.pc \in Writing \cup Landed => Untouched(c.inc)
    PROVE  Abreast(y, c, born', prs')
<1>1. CASE c.root # x.tc.root \/ x.pc \notin Writing \cup Landed
  BY <1>1 DEF Writing, Landed, Abreast
<1>2. CASE c.root = x.tc.root /\ x.pc \in Writing \cup Landed
  <2>1. Untouched(c.inc)
    BY <1>2
  <2>2. y.pc \in Writing => x.pc \in Writing
    BY DEF Writing
  <2>3. y.pc = "writeBack" => x.pc = "writeBack"
    BY DEF Writing
  <2>4. y.pc = "writeBack" /\ c.inc = y.tc.inc => c.noteUrl = NoPR \/ ~ prs'[c.noteUrl].open
    BY <1>2, <2>3 DEF ContextOK, Context, NoPR, Abreast, PullsGrow
  <2>5. y.pc \in Writing \cup Landed /\ c.inc # y.tc.inc =>
           born'[c.inc].landed = 0 /\ \A n \in 1..Len(prs') : prs'[n].inc # c.inc
    BY <1>2, <2>1 DEF Abreast, Untouched
  <2> QED
    BY <1>2, <2>2, <2>4, <2>5 DEF Abreast
<1> QED
  BY <1>1, <1>2

\* One that is not at the forge is abreast of everything.
LEMMA AbreastFree ==
    ASSUME NEW y, NEW c, NEW bn, NEW ps, y.pc \notin Writing \cup Landed
    PROVE  Abreast(y, c, bn, ps)
BY DEF Abreast, Landed

\* What is owed stays so while no handler lands a note or counts it.
LEMMA OwesSame ==
    ASSUME NEW w \in Workers, Others(w), work[w].pc \in Landed <=> work'[w].pc \in Landed,
           work'[w].pc \in Landed => work'[w].tc = work[w].tc, NEW i
    PROVE  Owes(i)' = Owes(i)
<1>1. \A v \in Workers : work'[v].pc \in Landed /\ work'[v].tc.inc = i <=> work[v].pc \in Landed /\ work[v].tc.inc = i
  BY DEF Others
<1> QED
  BY <1>1 DEF Owes

\* A pull request stays noted.
LEMMA NotedOn ==
    ASSUME Typed, PullsGrow, Len(prs') = Len(prs), NEW w \in Workers, Others(w), work[w].pc # "writeBack",
           NEW c, NotedIn(c)
    PROVE  NotedIn(c)'
<1>1. ASSUME NEW n \in 1..Len(prs), NEW v \in Workers, work[v].pc = "writeBack", work[v].target = n
      PROVE  \E u \in Workers : work'[u].pc = "writeBack" /\ work'[u].target = n
  BY <1>1 DEF Others
<1>2. \A n \in 1..Len(prs) : /\ prs'[n].inc = prs[n].inc /\ (prs'[n].open => prs[n].open)
                             /\ (~ prs'[n].orphan => ~ prs[n].orphan)
  BY DEF PullsGrow
<1> QED
  BY <1>1, <1>2 DEF NotedIn

\* A step of a handler that lands nothing and counts nothing.
LEMMA QuietKnown ==
    ASSUME Orderly, Known, NEW w \in Workers, Others(w), Keeps, born' = born, PullsGrow, Len(prs') = Len(prs),
           torn' = torn, active' = active, work[w].pc \notin Landed, work'[w].pc \notin Landed,
           work'[w].pc # "idle" => work'[w].at = active,
           \A c \in Live' : Abreast(work'[w], c, born', prs')
    PROVE  Known'
<1>1. Typed /\ ~ torn' /\ OneEach'
  BY OneStill DEF Orderly, Known
<1>2. AllLead'
  BY DEF AllLead, Known, Others
<1>3. \A c \in Lore : ContextOK(c, born, prs) /\ Untouched(c.inc)
  BY <1>1, LoreOK DEF Untouched, PullsGrow
<1>4. ASSUME NEW c \in Lore' PROVE NotedIn(c)' /\ CountedIn(c)'
  <2>1. c \in Lore /\ NotedIn(c) /\ CountedIn(c)
    BY <1>4 DEF Known, Keeps
  <2>2. NotedIn(c)'
    BY <1>1, <2>1, NotedOn DEF Landed
  <2>3. Owes(c.inc)' = Owes(c.inc)
    BY OwesSame
  <2> QED
    BY <2>1, <2>2, <2>3 DEF CountedIn
<1>5. ASSUME NEW c \in Live' PROVE Covered(c)' /\ \A v \in Workers : Abreast(work'[v], c, born', prs')
  <2>1. c \in Live /\ c \in Lore
    BY <1>1, <1>5, LoreOK DEF Keeps
  <2>2. ASSUME NEW v \in Workers, v # w PROVE Abreast(work'[v], c, born', prs')
    BY <1>1, <1>3, <2>1, <2>2, AbreastOn DEF Others, Known
  <2> QED
    BY <2>1, <2>2, <1>5 DEF Known, Covered
<1> QED
  BY <1>1, <1>2, <1>4, <1>5 DEF Known

\* One note more, owed or lost.
LEMMA OneMore ==
    ASSUME NEW landed \in Nat, NEW notes \in Nat, NEW gone \in Nat, NEW lost \in {0, 1}, landed <= notes + 0 + gone
    PROVE  /\ landed + 1 <= notes + (1 - lost) + (gone + lost)
           /\ \A max \in Nat : notes < max => landed + 1 <= max + (gone + lost)
OBVIOUS

\* A note that lands, heard of or not, in its own pull request or in one there was.
LEMMA LandKnown ==
    ASSUME Orderly, Known, NEW w \in Workers, Others(w), work[w].pc \in Writing, Keeps, PullsGrow,
           torn' = torn, active' = active, work'[w].tc = work[w].tc, work'[w].at = work[w].at,
           NEW lost \in {0, 1}, LandedAt(work[w].tc.inc, lost),
           work'[w].pc \in Landed <=> lost = 0, work'[w].pc \notin Writing,
           \/ PullsKept /\ work'[w].pc # "writeBack"
           \/ /\ PullOpened(work[w].tc.inc, lost = 0)
              /\ lost = 0 => work'[w].pc = "writeBack" /\ work'[w].target = Len(prs) + 1
              /\ work[w].tc.noteUrl = NoPR \/ ~ prs[work[w].tc.noteUrl].open
    PROVE  Known'
<1> PICK i : i = work[w].tc.inc
  OBVIOUS
<1>1. Typed /\ ~ torn' /\ OneEach' /\ Len(prs) \in Nat
  BY OneStill DEF Orderly, Known, Typed, ForgeTyped
<1>2. /\ work[w].pc \in Guarded /\ work[w].pc # "idle" /\ work[w].pc # "writeBack" /\ work[w].pc \notin Landed
  BY DEF Writing, Guarded, Landed
<1>3. /\ ContextOK(work[w].tc, born, prs) /\ work[w].tc.notes \in Nat /\ work[w].tc.notes < MaxNotes
      /\ MaxNotes \in Nat /\ i \in 1..Len(born)
  BY <1>1, <1>2, AtWork, Bounds DEF JobOK, ContextOK, Context
<1>4. AllLead'
  BY <1>2 DEF AllLead, Known, Others
<1>5. \A v \in Workers : work[v].pc \in Landed => work[v].pc \in Guarded
  BY DEF Landed, Guarded
<1>6. Owes(i) = 0
  BY <1>2, <1>5, OneAtRoot DEF Owes, Known
<1>7. Owes(i)' = 1 - lost
  <2>1. CASE lost = 0
    BY <2>1 DEF Owes
  <2>2. CASE lost = 1
    BY <1>6, <2>2 DEF Others, Owes
  <2> QED
    BY <2>1, <2>2
<1>8. ASSUME NEW j, j # i PROVE Owes(j)' = Owes(j)
  BY <1>8 DEF Others, Owes
<1>9. ASSUME NEW j \in 1..Len(born), j # i
      PROVE  born'[j].landed = born[j].landed /\ born'[j].lost = born[j].lost
  BY <1>9 DEF LandedAt
<1>10. born'[i].landed = born[i].landed + 1 /\ born'[i].lost = born[i].lost + lost
  BY <1>3, Zenon DEF LandedAt
<1>11. ASSUME NEW j \in 1..Len(born), j # i PROVE Untouched(j)
  <2>1. CASE PullsKept
    BY <1>9, <1>11, <2>1 DEF Untouched, PullsKept
  <2>2. ASSUME NEW h, PullOpened(i, h) PROVE Untouched(j)
    BY <1>1, <1>9, <1>11, <2>2 DEF PullOpened, Untouched
  <2> QED
    BY <2>1, <2>2
<1>12. ASSUME NEW c \in Lore' PROVE NotedIn(c)'
  <2>1. c \in Lore /\ NotedIn(c)
    BY <1>12 DEF Known, Keeps
  <2>2. ASSUME NEW n \in 1..Len(prs), prs'[n].inc = c.inc, prs'[n].open, ~ prs'[n].orphan
        PROVE  c.noteUrl = n \/ \E u \in Workers : work'[u].pc = "writeBack" /\ work'[u].target = n
    <3>1. prs[n].inc = c.inc /\ prs[n].open /\ ~ prs[n].orphan
      BY <2>2 DEF PullsGrow
    <3>2. ASSUME NEW v \in Workers, work[v].pc = "writeBack", work[v].target = n
          PROVE  work'[v].pc = "writeBack" /\ work'[v].target = n
      BY <1>2, <3>2 DEF Others
    <3> QED
      BY <2>1, <3>1, <3>2 DEF NotedIn
  <2>3. ASSUME NEW n \in 1..Len(prs'), n \notin 1..Len(prs), ~ prs'[n].orphan
        PROVE  \E u \in Workers : work'[u].pc = "writeBack" /\ work'[u].target = n
    <3>1. ~ PullsKept
      BY <2>3 DEF PullsKept
    <3>2. PullOpened(i, lost = 0) /\ (lost = 0 => work'[w].pc = "writeBack" /\ work'[w].target = Len(prs) + 1)
      BY <3>1
    <3>3. n = Len(prs) + 1
      BY <1>1, <2>3, <3>2 DEF PullOpened
    <3>4. lost = 0
      BY <2>3, <3>2, <3>3 DEF PullOpened
    <3> QED
      BY <3>2, <3>3, <3>4
  <2> QED
    BY <2>2, <2>3 DEF NotedIn
<1>13. ASSUME NEW c \in Lore' PROVE CountedIn(c)'
  <2>1. c \in Lore /\ CountedIn(c) /\ c.notes \in Nat /\ c.inc \in 1..Len(born)
        /\ born[c.inc].landed \in Nat /\ born[c.inc].lost \in Nat
    BY <1>1, <1>13, Tallies DEF Known, Keeps
  <2>2. CASE c.inc = i
    <3>1. /\ born[i].landed <= c.notes + 0 + born[i].lost
          /\ born[i].landed <= MaxNotes + 0 + born[i].lost
      BY <1>6, <2>1, <2>2 DEF CountedIn
    <3>2. /\ born[i].landed + 1 <= c.notes + (1 - lost) + (born[i].lost + lost)
          /\ born[i].landed + 1 <= MaxNotes + (1 - lost) + (born[i].lost + lost)
      BY <1>3, <2>1, <2>2, <3>1, OneMore, Zenon
    <3> QED
      BY <1>7, <1>10, <2>2, <3>2 DEF CountedIn
  <2>3. CASE c.inc # i
    BY <1>8, <1>9, <2>1, <2>3 DEF CountedIn
  <2> QED
    BY <2>2, <2>3
<1>14. ASSUME NEW c \in Live' PROVE Covered(c)'
  <2>1. c \in Live /\ c \in Lore
    BY <1>1, <1>14, LoreOK DEF Keeps
  <2>2. /\ CountedIn(c) /\ c.notes \in Nat /\ c.inc \in 1..Len(born) /\ born[c.inc].root = c.root
        /\ born[c.inc].landed \in Nat /\ born[c.inc].lost \in Nat /\ Covered(c) /\ Abreast(work[w], c, born, prs)
    BY <1>1, <2>1, Tallies DEF Known
  <2>3. CASE c.inc = i
    <3>1. c.root = work[w].tc.root
      BY <1>3, <2>2, <2>3 DEF ContextOK
    <3>2. c.notes = work[w].tc.notes
      BY <2>2, <2>3, <3>1 DEF Abreast
    <3>3. born[i].landed <= c.notes + 0 + born[i].lost
      BY <1>6, <2>2, <2>3 DEF CountedIn
    <3>4. born[i].landed + 1 <= MaxNotes + (born[i].lost + lost)
      BY <1>3, <2>2, <2>3, <3>2, <3>3, OneMore, Zenon
    <3> QED
      BY <1>10, <2>3, <3>4 DEF Covered
  <2>4. CASE c.inc # i
    BY <1>9, <2>2, <2>4 DEF Covered
  <2> QED
    BY <2>3, <2>4
<1>15. ASSUME NEW c \in Live', NEW v \in Workers PROVE Abreast(work'[v], c, born', prs')
  <2>1. c \in Live /\ c \in Lore
    BY <1>1, <1>15, LoreOK DEF Keeps
  <2>2. /\ ContextOK(c, born, prs) /\ c.inc \in 1..Len(born) /\ born[c.inc].root = c.root
        /\ \A u \in Workers : Abreast(work[u], c, born, prs)
    BY <1>1, <2>1, LoreOK DEF Known, ContextOK
  <2>3. CASE v # w
    <3>1. ASSUME c.root = work[v].tc.root, work[v].pc \in Writing \cup Landed PROVE Untouched(c.inc)
      <4>1. work[v].pc \in Guarded
        BY <3>1 DEF Guarded, Writing, Landed
      <4>2. work[v].tc.root # work[w].tc.root
        BY <1>2, <2>3, <4>1, OneAtRoot DEF Known
      <4>3. c.inc # i
        BY <1>3, <2>2, <3>1, <4>2 DEF ContextOK
      <4> QED
        BY <1>11, <2>2, <4>3
    <3>2. work'[v] = work[v]
      BY <2>3 DEF Others
    <3> QED
      BY <1>1, <2>2, <3>1, <3>2, AbreastOn, Zenon
  <2>4. CASE v = w
    <3>1. work'[w].pc = "writeBack" /\ c.inc = i /\ c.root = work[w].tc.root => c.noteUrl = NoPR \/ ~ prs'[c.noteUrl].open
      <4>1. SUFFICES ASSUME work'[w].pc = "writeBack", c.inc = i, c.root = work[w].tc.root
                     PROVE  c.noteUrl = NoPR \/ ~ prs'[c.noteUrl].open
        OBVIOUS
      <4>2. work[w].tc.noteUrl = NoPR \/ ~ prs[work[w].tc.noteUrl].open
        BY <4>1
      <4>3. c.noteUrl = work[w].tc.noteUrl
        BY <2>2, <4>1 DEF Abreast
      <4>4. c.noteUrl = NoPR \/ c.noteUrl \in 1..Len(prs)
        BY <1>1, <2>2 DEF ContextOK, Context, NoPR
      <4> QED
        BY <4>2, <4>3, <4>4 DEF PullsGrow
    <3>2. ASSUME c.inc # i, c.root = work[w].tc.root
          PROVE  born'[c.inc].landed = 0 /\ \A n \in 1..Len(prs') : prs'[n].inc # c.inc
      BY <1>11, <2>2, <3>2 DEF Abreast, Untouched
    <3> QED
      BY <2>4, <3>1, <3>2 DEF Abreast
  <2> QED
    BY <2>3, <2>4
<1> QED
  BY <1>1, <1>4, <1>12, <1>13, <1>14, <1>15 DEF Known

\* A context stored by the handler at work at its root: every other handler at work is
\* at another root.
LEMMA AbreastOthers ==
    ASSUME Orderly, AllLead, NEW w \in Workers, work[w].pc \in Landed, NEW v \in Workers, v # w,
           NEW c, c.root = work[w].tc.root, NEW bn, NEW ps
    PROVE  Abreast(work[v], c, bn, ps)
<1>1. CASE work[v].pc \in Writing \cup Landed
  BY <1>1, OneAtRoot DEF Writing, Landed, Guarded, Abreast
<1>2. CASE work[v].pc \notin Writing \cup Landed
  BY <1>2, AbreastFree
<1> QED
  BY <1>1, <1>2

\* Update(NoteURL): the pull request is noted, or nobody's.
LEMMA WriteBackKnown ==
    ASSUME Orderly, Known, Steady', NEW w \in Workers, WriteBack(w), PullsGrow
    PROVE  Known'
<1> PICK x : x = work[w]
  OBVIOUS
<1> PICK i : i = x.tc.inc
  OBVIOUS
<1>1. Typed /\ AllLead /\ ~ torn /\ OneEach /\ active \in Processes
  BY SMTT(20) DEF Orderly, Known, Typed
<1>2. x.pc = "writeBack" /\ x.pc # "idle" /\ x.pc \in Landed /\ x.pc \in Guarded /\ active' = active
  BY DEF WriteBack, Landed, Guarded
<1>3. x.target # NoPR /\ prs[x.target].inc = i
  BY <1>2 DEF Orderly, TargetsOK, TargetFits
<1>4. x.at = active /\ x.target \in 1..Len(prs) /\ ContextOK(x.tc, born, prs)
  BY <1>1, <1>2, <1>3, AtWork DEF AllLead, NoPR
<1> PICK mem : mem = memory[active]
  OBVIOUS
<1> PICK root : root = x.tc.root
  BY Zenon
<1>5. /\ Turns(w, Jobs(x, "count", x.tc, x.lock, x.target, x.token, x.chat))
      /\ born' = born
      /\ \/ /\ root \in Tracked(mem) /\ prs' = prs
            /\ \E c \in Context : /\ c.root = root /\ c.inc = mem.byId[root].inc /\ c.notes = mem.byId[root].notes
                                  /\ c.noteUrl = x.target /\ Store(active, mem, c)
         \/ root \notin Tracked(mem) /\ NoStore /\ PullOrphaned(x.target)
  BY <1>1, <1>3, <1>4, WriteBackTurns, SMTT(20)
<1>6. Others(w) /\ work'[w].pc = "count" /\ work'[w].tc = x.tc /\ work'[w].at = x.at
  BY <1>5 DEF Turns, Jobs
<1>7. AllLead'
  BY <1>1, <1>2, <1>4, <1>6 DEF AllLead, Others
<1>8. ASSUME NEW j PROVE Owes(j)' = Owes(j)
  BY <1>2, <1>6, OwesSame DEF Landed
<1>9. \A j : Untouched(j)
  BY <1>5, Zenon DEF Untouched, PullOrphaned
<1>10. ASSUME NEW v \in Workers, work[v].pc = "writeBack", work[v].target \in 1..Len(prs), prs[work[v].target].inc = i
       PROVE  v = w
  BY <1>1, <1>2, <1>10, OneAtRoot DEF Orderly, TargetsOK, TargetFits, Guarded
<1>11. ASSUME NEW c \in Lore, c.root # root PROVE c.inc # i
  BY <1>1, <1>4, <1>11, Tallies DEF ContextOK
<1>12. ASSUME NEW c \in Live, NEW v \in Workers PROVE Abreast(work'[v], c, born', prs')
  <2>1. ContextOK(c, born, prs) /\ Abreast(work[v], c, born, prs)
    BY <1>1, LoreOK DEF Known
  <2>2. CASE v # w
    BY <1>1, <1>6, <1>9, <2>1, <2>2, AbreastOn DEF Others
  <2>3. CASE v = w
    BY <1>1, <1>2, <1>6, <1>9, <2>1, <2>3, AbreastOn
  <2> QED
    BY <2>2, <2>3
<1>13. ASSUME NEW v \in Workers, v # w PROVE work'[v] = work[v]
  BY <1>6, <1>13 DEF Others
<1>14. ASSUME NEW c \in Lore, c.root # root, prs' = prs PROVE NotedIn(c)'
  <2>1. NotedIn(c) /\ c.inc # i
    BY <1>11, <1>14 DEF Known
  <2>2. ASSUME NEW n \in 1..Len(prs), prs[n].inc = c.inc, NEW v \in Workers, work[v].pc = "writeBack", work[v].target = n
        PROVE  work'[v].pc = "writeBack" /\ work'[v].target = n
    BY <1>3, <1>13, <2>1, <2>2
  <2> QED
    BY <1>14, <2>1, <2>2 DEF NotedIn
<1>15. CASE root \in Tracked(mem)
  <2>1. PICK c \in Context : /\ c.root = root /\ c.inc = mem.byId[root].inc /\ c.notes = mem.byId[root].notes
                             /\ c.noteUrl = x.target /\ Store(active, mem, c)
    BY <1>5, <1>15, Zenon
  <2>2. prs' = prs
    BY <1>5, <1>15
  <2> PICK old : old = mem.byId[root]
    OBVIOUS
  <2>3. old \in Live /\ old \in Lore /\ old.root = root
    BY <1>1, <1>15, LoreOK
  <2>4. RegistryOK(mem, scene.maxLive)
    BY <1>1, LoreOK DEF MemoryOK
  <2>5. Learns(c) /\ ~ torn'
    BY <1>1, <1>2, <2>1, <2>4, StoreLearns
  <2>6. Abreast(x, old, born, prs) /\ NotedIn(old) /\ CountedIn(old) /\ Covered(old)
    BY <2>3 DEF Known
  <2>7. NotedIn(c)'
    <3>1. SUFFICES ASSUME NEW n \in 1..Len(prs), prs[n].inc = old.inc, prs[n].open, ~ prs[n].orphan
                   PROVE  n = x.target
      BY <2>1, <2>2 DEF NotedIn
    <3>2. old.inc = i
      BY <1>2, <2>3, <2>6, <3>1, Zenon DEF Abreast
    <3>3. old.noteUrl # n
      <4>1. n # NoPR
        BY DEF NoPR
      <4>2. old.noteUrl = NoPR \/ ~ prs[old.noteUrl].open
        BY <1>2, <2>3, <2>6, <3>2, Zenon DEF Abreast
      <4> QED
        BY <3>1, <4>1, <4>2, Zenon
    <3>4. PICK v \in Workers : work[v].pc = "writeBack" /\ work[v].target = n
      BY <2>6, <3>1, <3>3, Zenon DEF NotedIn
    <3> QED
      BY <1>10, <3>1, <3>2, <3>4, SMTT(20)
  <2>8. ASSUME NEW d \in Lore' PROVE NotedIn(d)' /\ CountedIn(d)'
    <3>1. CASE d = c
      BY <1>5, <1>8, <2>1, <2>6, <2>7, <3>1, Zenon DEF CountedIn
    <3>2. CASE d # c
      <4>1. d \in Lore /\ d.root # root /\ CountedIn(d)
        BY <2>1, <2>5, <2>8, <3>2 DEF Learns, Known
      <4> QED
        BY <1>5, <1>8, <1>14, <2>2, <4>1 DEF CountedIn
    <3> QED
      BY <3>1, <3>2
  <2>9. ASSUME NEW d \in Live' PROVE Covered(d)' /\ \A v \in Workers : Abreast(work'[v], d, born', prs')
    <3>1. CASE d = c
      <4>1. Covered(d)'
        BY <1>5, <2>1, <2>6, <3>1, Zenon DEF Covered
      <4>2. ASSUME NEW v \in Workers, v # w PROVE Abreast(work'[v], c, born', prs')
        BY <1>1, <1>2, <1>13, <2>1, <4>2, AbreastOthers
      <4>3. Abreast(work'[w], c, born', prs')
        <5>1. Abreast(work'[w], old, born', prs')
          BY <1>12, <2>3, SMTT(20)
        <5> QED
          BY <1>6, <2>1, <2>3, <5>1, Zenon DEF Abreast, Writing, Landed
      <4> QED
        BY <3>1, <4>1, <4>2, <4>3
    <3>2. CASE d # c
      BY <1>5, <1>12, <2>5, <2>9, <3>2 DEF Learns, Known, Covered
    <3> QED
      BY <3>1, <3>2
  <2> QED
    BY <1>1, <1>7, <2>5, <2>8, <2>9, OneStill DEF Known
<1>16. CASE root \notin Tracked(mem)
  <2>1. Keeps /\ torn' = torn /\ PullOrphaned(x.target)
    BY <1>2, <1>5, <1>16, SameKeeps DEF NoStore
  <2>2. ASSUME NEW d \in Lore' PROVE NotedIn(d)' /\ CountedIn(d)'
    <3>1. d \in Lore /\ NotedIn(d) /\ CountedIn(d)
      BY <2>1, <2>2 DEF Keeps, Known
    <3>2. ASSUME NEW n \in 1..Len(prs), prs'[n].inc = d.inc, prs'[n].open, ~ prs'[n].orphan
          PROVE  d.noteUrl = n \/ \E v \in Workers : work'[v].pc = "writeBack" /\ work'[v].target = n
      <4>1. n # x.target /\ prs[n].inc = d.inc /\ prs[n].open /\ ~ prs[n].orphan
        BY <2>1, <3>2 DEF PullOrphaned
      <4> QED
        BY <1>13, <3>1, <4>1 DEF NotedIn
    <3>3. Len(prs') = Len(prs)
      BY <2>1, SMTT(20) DEF PullOrphaned
    <3> QED
      BY <1>5, <1>8, <3>1, <3>2, <3>3, Zenon DEF NotedIn, CountedIn
  <2>3. ASSUME NEW d \in Live' PROVE Covered(d)' /\ \A v \in Workers : Abreast(work'[v], d, born', prs')
    <3>1. d \in Live /\ Covered(d)
      BY <2>1, <2>3 DEF Keeps, Known
    <3> QED
      BY <1>5, <1>12, <3>1 DEF Covered
  <2> QED
    BY <1>1, <1>7, <2>1, <2>2, <2>3, OneStill, SMTT(20) DEF Known
<1> QED
  BY <1>15, <1>16

\* What is owed is counted or lost.
LEMMA OneLess ==
    ASSUME NEW landed \in Nat, NEW notes \in Nat, NEW gone \in Nat
    PROVE  /\ landed <= notes + 1 + gone => landed <= (notes + 1) + 0 + gone /\ landed <= notes + 0 + (gone + 1)
           /\ landed <= notes + gone => landed <= notes + 0 + gone /\ landed <= notes + (gone + 1)
           /\ \A o \in Nat : 0 <= notes + o + gone
OBVIOUS

\* Update(Notes++): the note is counted, or lost with the thread.
LEMMA CountKnown ==
    ASSUME Orderly, Known, Steady', NEW w \in Workers, Count(w), PullsGrow
    PROVE  Known'
<1> PICK x : x = work[w]
  OBVIOUS
<1> PICK i : i = x.tc.inc
  OBVIOUS
<1>1. Typed /\ AllLead /\ ~ torn /\ OneEach /\ active \in Processes /\ MaxNotes \in Nat
  BY Bounds DEF Orderly, Known, Typed
<1>2. x.pc = "count" /\ x.pc # "idle" /\ x.pc \in Landed /\ x.pc \in Guarded /\ active' = active
  BY Zenon DEF Count, Landed, Guarded
<1>3. x.at = active /\ ContextOK(x.tc, born, prs) /\ i \in 1..Len(born) /\ born \in Seq(Birth)
  BY <1>1, <1>2, AtWork, SMTT(20) DEF AllLead, ContextOK, Typed, ForgeTyped
<1> PICK mem : mem = memory[active]
  OBVIOUS
<1> PICK root : root = x.tc.root
  OBVIOUS
<1>4. /\ Turns(w, Jobs(x, "unlock", x.tc, x.lock, x.target, x.token, x.chat))
      /\ prs' = prs
      /\ \/ /\ root \in Tracked(mem) /\ born' = born
            /\ \E c \in Context : /\ c.root = root /\ c.inc = mem.byId[root].inc /\ c.notes = mem.byId[root].notes + 1
                                  /\ c.noteUrl = mem.byId[root].noteUrl /\ Store(active, mem, c)
         \/ root \notin Tracked(mem) /\ NoStore /\ CountLost(i)
  BY <1>1, <1>3, CountTurns
<1>5. Others(w) /\ work'[w].pc = "unlock" /\ work'[w].tc = x.tc /\ work'[w].at = x.at
  BY <1>4, Zenon DEF Turns, Jobs
<1>6. AllLead'
  BY <1>1, <1>2, <1>3, <1>5 DEF AllLead, Others
<1>7. ASSUME NEW v \in Workers, v # w PROVE work'[v] = work[v]
  BY <1>5, <1>7 DEF Others
<1>8. Owes(i) = 1 /\ Owes(i)' = 0
  <2>1. Owes(i) = 1
    BY <1>2 DEF Owes
  <2>2. ASSUME NEW v \in Workers, work'[v].pc \in Landed, work'[v].tc.inc = i PROVE FALSE
    BY <1>1, <1>2, <1>5, <1>7, <2>2, OneAtRoot DEF Landed, Guarded
  <2> QED
    BY <2>1, <2>2 DEF Owes
<1>9. ASSUME NEW j, j # i PROVE Owes(j)' = Owes(j)
  BY <1>5, <1>7, <1>9 DEF Landed, Owes
<1>10. ASSUME NEW c \in Lore PROVE Untouched(c.inc)
  BY <1>1, <1>4, Tallies, Zenon DEF Untouched, CountLost
<1>11. ASSUME NEW c \in Live, NEW v \in Workers PROVE Abreast(work'[v], c, born', prs')
  <2>1. ContextOK(c, born, prs) /\ Abreast(work[v], c, born, prs) /\ Untouched(c.inc)
    BY <1>1, <1>10, LoreOK DEF Known
  <2>2. CASE v # w
    BY <1>1, <1>7, <2>1, <2>2, AbreastOn
  <2>3. CASE v = w
    BY <1>5, <2>3, AbreastFree DEF Writing, Landed
  <2> QED
    BY <2>2, <2>3
<1>12. ASSUME NEW c \in Lore PROVE NotedIn(c)'
  BY <1>1, <1>2, <1>4, <1>5, NotedOn, Zenon DEF Known
<1>13. CASE root \in Tracked(mem)
  <2>1. PICK c \in Context : /\ c.root = root /\ c.inc = mem.byId[root].inc /\ c.notes = mem.byId[root].notes + 1
                             /\ c.noteUrl = mem.byId[root].noteUrl /\ Store(active, mem, c)
    BY <1>4, <1>13, Zenon
  <2>2. born' = born
    BY <1>4, <1>13, Zenon
  <2> PICK old : old = mem.byId[root]
    OBVIOUS
  <2>3. old \in Live /\ old \in Lore /\ old.root = root
    BY <1>1, <1>13, LoreOK
  <2>4. RegistryOK(mem, scene.maxLive)
    BY <1>1, LoreOK DEF MemoryOK
  <2>5. Learns(c) /\ ~ torn'
    BY <1>1, <1>2, <2>1, <2>4, StoreLearns
  <2>6. Abreast(x, old, born, prs) /\ CountedIn(old) /\ Covered(old)
    BY <2>3 DEF Known
  <2>7. /\ old.notes \in Nat /\ old.inc \in 1..Len(born) /\ born[old.inc].root = root
        /\ born[old.inc].landed \in Nat /\ born[old.inc].lost \in Nat /\ old.inc = c.inc /\ c.notes = old.notes + 1
    BY <1>1, <2>1, <2>3, Tallies, Zenon
  <2>8. CountedIn(c)'
    <3>1. CASE old.inc = i
      <4>1. born[i].landed <= old.notes + 1 + born[i].lost /\ born[i].landed <= MaxNotes + born[i].lost
        BY <1>8, <2>6, <3>1 DEF CountedIn, Covered
      <4>2. born[i].landed <= c.notes + 0 + born[i].lost /\ born[i].landed <= MaxNotes + 0 + born[i].lost
        BY <1>1, <2>7, <3>1, <4>1, OneLess, Zenon
      <4> QED
        BY <1>8, <2>2, <2>7, <3>1, <4>2, SMTT(20) DEF CountedIn
    <3>2. CASE old.inc # i
      <4>1. born[old.inc].landed = 0
        BY <1>2, <2>3, <2>6, <3>2, Zenon DEF Abreast
      <4>2. Owes(c.inc)' \in Nat
        BY OwesIs
      <4>3. 0 <= c.notes + Owes(c.inc)' + born[c.inc].lost /\ 0 <= MaxNotes + Owes(c.inc)' + born[c.inc].lost
        <5>1. c.notes \in Nat
          BY <2>7
        <5> QED
          BY <1>1, <2>7, <4>2, <5>1, OneLess, Zenon
      <4> QED
        BY <2>2, <2>7, <4>1, <4>3 DEF CountedIn
    <3> QED
      BY <3>1, <3>2
  <2>9. NotedIn(c)'
    BY <1>12, <2>1, <2>3 DEF NotedIn
  <2>10. ASSUME NEW d \in Lore' PROVE NotedIn(d)' /\ CountedIn(d)'
    <3>1. CASE d = c
      BY <2>8, <2>9, <3>1
    <3>2. CASE d # c
      <4>1. d \in Lore /\ d.root # root /\ CountedIn(d)
        BY <2>1, <2>5, <2>10, <3>2 DEF Learns, Known
      <4>2. d.inc # i
        BY <1>1, <1>3, <4>1, Tallies DEF ContextOK
      <4> QED
        BY <1>9, <1>12, <2>2, <4>1, <4>2 DEF CountedIn
    <3> QED
      BY <3>1, <3>2
  <2>11. ASSUME NEW d \in Live' PROVE Covered(d)' /\ \A v \in Workers : Abreast(work'[v], d, born', prs')
    <3>1. CASE d = c
      <4>1. Covered(d)'
        BY <2>2, <2>6, <2>7, <3>1 DEF Covered
      <4>2. ASSUME NEW v \in Workers, v # w PROVE Abreast(work'[v], c, born', prs')
        BY <1>1, <1>2, <1>7, <2>1, <4>2, AbreastOthers
      <4>3. Abreast(work'[w], c, born', prs')
        BY <1>5, AbreastFree DEF Writing, Landed
      <4> QED
        BY <3>1, <4>1, <4>2, <4>3
    <3>2. CASE d # c
      BY <1>11, <2>2, <2>5, <2>11, <3>2 DEF Learns, Known, Covered
    <3> QED
      BY <3>1, <3>2
  <2> QED
    BY <1>1, <1>6, <2>5, <2>10, <2>11, OneStill DEF Known
<1>14. CASE root \notin Tracked(mem)
  <2>1. Keeps /\ torn' = torn /\ CountLost(i)
    BY <1>2, <1>4, <1>14, SameKeeps, Zenon DEF NoStore
  <2>2. ASSUME NEW j \in 1..Len(born) PROVE born'[j].landed = born[j].landed /\ born'[j].lost = IF j = i THEN born[j].lost + 1 ELSE born[j].lost
    BY <2>1 DEF CountLost
  <2>3. ASSUME NEW d \in Lore' PROVE NotedIn(d)' /\ CountedIn(d)'
    <3>1. d \in Lore /\ CountedIn(d)
      BY <2>1, <2>3 DEF Keeps, Known
    <3>2. d.notes \in Nat /\ d.inc \in 1..Len(born) /\ born[d.inc].landed \in Nat /\ born[d.inc].lost \in Nat
      BY <1>1, <3>1, Tallies
    <3>3. CASE d.inc = i
      <4>1. born[i].landed <= d.notes + 1 + born[i].lost /\ born[i].landed <= MaxNotes + 1 + born[i].lost
        BY <1>8, <3>1, <3>3 DEF CountedIn
      <4>2. /\ born[i].landed <= d.notes + 0 + (born[i].lost + 1)
            /\ born[i].landed <= MaxNotes + 0 + (born[i].lost + 1)
        BY <1>1, <3>2, <3>3, <4>1, OneLess, Zenon
      <4> QED
        BY <1>8, <1>12, <2>2, <3>1, <3>2, <3>3, <4>2, Zenon DEF CountedIn
    <3>4. CASE d.inc # i
      BY <1>9, <1>12, <2>2, <3>1, <3>2, <3>4 DEF CountedIn
    <3> QED
      BY <3>3, <3>4
  <2>4. ASSUME NEW d \in Live' PROVE Covered(d)' /\ \A v \in Workers : Abreast(work'[v], d, born', prs')
    <3>1. d \in Live /\ Covered(d) /\ d \in Lore
      BY <1>1, <2>1, <2>4, LoreOK DEF Keeps, Known
    <3>2. d.inc \in 1..Len(born) /\ born[d.inc].landed \in Nat /\ born[d.inc].lost \in Nat
      BY <1>1, <3>1, Tallies
    <3>3. Covered(d)'
      BY <1>1, <2>2, <3>1, <3>2, OneLess, Zenon DEF Covered
    <3> QED
      BY <1>11, <3>1, <3>3
  <2> QED
    BY <1>1, <1>6, <2>1, <2>3, <2>4, OneStill DEF Known
<1> QED
  BY <1>13, <1>14

\* A thread that is born: nothing has happened to it, and nobody works for it yet.
LEMMA BirthKnown ==
    ASSUME Orderly, Known, NEW root \in Roots, NEW c \in Context, c.root = root, c.inc = Len(born) + 1,
           Learns(c), ~ torn', born' = Born(root), active' = active,
           Len(prs) <= Len(prs'), Len(prs') \in Nat, \A n \in 1..Len(prs) : prs'[n] = prs[n],
           \A n \in 1..Len(prs') : n \notin 1..Len(prs) => prs'[n].inc = 0,
           \A v \in Workers : \/ work'[v] = work[v]
                              \/ /\ {work[v].pc, work'[v].pc} \cap (Writing \cup Landed) = {}
                                 /\ work'[v].pc # "idle" => work'[v].at = active
    PROVE  Known'
<1> PICK k : k = Len(born)
  BY Zenon
<1>1. Typed /\ AllLead /\ OneEach' /\ k \in Nat /\ Len(prs) \in Nat /\ MaxNotes \in Nat /\ born \in Seq(Birth)
  BY OneStill, Bounds DEF Orderly, Known, Typed, ForgeTyped
<1>2. \A n \in 1..Len(prs) : prs[n].inc \in 0..k
  <2>1. prs \in Seq(Pull(k))
    BY <1>1 DEF Typed, ForgeTyped
  <2>2. \A n \in 1..Len(prs) : prs[n] \in Pull(k)
    BY <2>1
  <2> QED
    BY <2>2 DEF Pull
<1>3. born'[k + 1].landed = 0 /\ born'[k + 1].lost = 0 /\ \A i \in 1..k : born'[i] = born[i]
  <2> PICK b : b = [root |-> root, landed |-> 0, lost |-> 0]
    BY Zenon
  <2>1. born' = Append(born, b) /\ b \in Birth /\ b.landed = 0 /\ b.lost = 0
    BY DEF Born, Birth
  <2> QED
    BY <1>1, <2>1
<1>4. \A n \in 1..Len(prs') : prs'[n].inc # k + 1
  <2>1. ASSUME NEW n \in 1..Len(prs'), n \in 1..Len(prs) PROVE prs'[n].inc # k + 1
    BY <1>1, <1>2, <2>1
  <2> QED
    BY <1>1, <2>1
<1>5. PullsGrow
  BY DEF PullsGrow
<1>6. ASSUME NEW i \in 1..k PROVE Untouched(i)
  BY <1>1, <1>3, <1>6 DEF Untouched
<1>7. AllLead'
  BY <1>1 DEF AllLead
<1>8. ASSUME NEW v \in Workers
      PROVE  /\ work'[v].pc \in Writing \cup Landed => work'[v] = work[v]
             /\ work[v].pc \in Writing \cup Landed => work'[v] = work[v]
  OBVIOUS
<1>9. ASSUME NEW j PROVE Owes(j)' = Owes(j)
  BY <1>8 DEF Owes
<1>10. ASSUME NEW d \in Lore' PROVE NotedIn(d)' /\ CountedIn(d)'
  <2>1. CASE d = c
    <3>1. NotedIn(d)'
      BY <1>4, <2>1 DEF NotedIn
    <3>2. c.notes \in Nat /\ Owes(c.inc)' \in Nat
      BY OwesIs DEF Context
    <3>3. 0 <= c.notes + Owes(c.inc)' + 0 /\ 0 <= MaxNotes + Owes(c.inc)' + 0
      BY <1>1, <3>2, OneLess, Zenon
    <3> QED
      BY <1>3, <2>1, <3>1, <3>3 DEF CountedIn
  <2>2. CASE d # c
    <3>1. d \in Lore /\ NotedIn(d) /\ CountedIn(d)
      BY <1>10, <2>2 DEF Learns, Known
    <3>2. d.inc \in 1..k
      BY <1>1, <3>1, Tallies
    <3>3. CountedIn(d)'
      BY <1>3, <1>9, <3>1, <3>2 DEF CountedIn
    <3>4. ASSUME NEW n \in 1..Len(prs'), prs'[n].inc = d.inc, prs'[n].open, ~ prs'[n].orphan
          PROVE  d.noteUrl = n \/ \E v \in Workers : work'[v].pc = "writeBack" /\ work'[v].target = n
      <4>1. n \in 1..Len(prs)
        BY <1>6, <3>2, <3>4 DEF Untouched
      <4>2. prs[n].inc = d.inc /\ prs[n].open /\ ~ prs[n].orphan
        BY <3>4, <4>1
      <4>3. \A v \in Workers : work[v].pc = "writeBack" => work'[v] = work[v]
        BY <1>8 DEF Landed
      <4> QED
        BY <3>1, <4>1, <4>2, <4>3 DEF NotedIn
    <3> QED
      BY <3>3, <3>4 DEF NotedIn
  <2> QED
    BY <2>1, <2>2
<1>11. ASSUME NEW d \in Live' PROVE Covered(d)' /\ \A v \in Workers : Abreast(work'[v], d, born', prs')
  <2>1. CASE d = c
    <3>1. Covered(d)'
      BY <1>1, <1>3, <2>1 DEF Covered
    <3>2. ASSUME NEW v \in Workers PROVE Abreast(work'[v], d, born', prs')
      <4>1. CASE work'[v].pc \in Writing \cup Landed
        BY <1>1, <1>3, <1>4, <1>8, <2>1, <4>1, AtWork DEF Writing, Landed, ContextOK, Abreast
      <4>2. CASE work'[v].pc \notin Writing \cup Landed
        BY <4>2, AbreastFree
      <4> QED
        BY <4>1, <4>2
    <3> QED
      BY <3>1, <3>2
  <2>2. CASE d # c
    <3>1. d \in Live /\ d \in Lore /\ Covered(d)
      BY <1>1, <1>11, <2>2, LoreOK DEF Learns, Known
    <3>2. d.inc \in 1..k /\ ContextOK(d, born, prs)
      BY <1>1, <3>1, Tallies, LoreOK
    <3>3. Covered(d)'
      BY <1>3, <3>1, <3>2 DEF Covered
    <3>4. ASSUME NEW v \in Workers PROVE Abreast(work'[v], d, born', prs')
      <4>1. CASE work'[v].pc \in Writing \cup Landed
        BY <1>1, <1>5, <1>6, <1>8, <3>1, <3>2, <4>1, AbreastOn DEF Known
      <4>2. CASE work'[v].pc \notin Writing \cup Landed
        BY <4>2, AbreastFree
      <4> QED
        BY <4>1, <4>2
    <3> QED
      BY <3>3, <3>4
  <2> QED
    BY <2>1, <2>2
<1> QED
  BY <1>1, <1>7, <1>10, <1>11 DEF Known

\* Register.
LEMMA RegisterKnown ==
    ASSUME Orderly, Known, Steady', NEW root \in Roots, NEW curated \in BOOLEAN, Register(root, curated)
    PROVE  Known'
<1>1. Typed /\ ~ torn /\ active' = active
  BY Zenon DEF Orderly, Known, Register
<1>2. /\ work' = work /\ born' = Born(root) /\ Len(prs) <= Len(prs') /\ Typed'
      /\ \A n \in 1..Len(prs) : prs'[n] = prs[n]
      /\ \A n \in 1..Len(prs') : n \notin 1..Len(prs) => prs'[n].inc = 0
      /\ \E url \in 0..Len(prs') : Store(active, memory[active], NewContext(root, url))
  BY <1>1, RegisterTyped DEF Grown
<1>3. Len(prs') \in Nat
  BY <1>2 DEF Typed, ForgeTyped
<1>4. PICK url \in 0..Len(prs') : Store(active, memory[active], NewContext(root, url))
  BY <1>2
<1>5. PICK c : c = NewContext(root, url)
  OBVIOUS
<1>6. c \in Context /\ c.root = root /\ c.inc = Len(born) + 1
  BY <1>1, <1>3, <1>5 DEF Typed, ForgeTyped, NewContext, Context, NoPR
<1>7. RegistryOK(memory[active], scene.maxLive)
  BY <1>1, LoreOK DEF MemoryOK
<1>8. Learns(c) /\ ~ torn'
  BY <1>1, <1>4, <1>5, <1>6, <1>7, StoreLearns
<1> QED
  BY <1>1, <1>2, <1>3, <1>6, <1>8, BirthKnown

\* Where only time passes, or reviewers close a pull request.
LEMMA TimeKnown ==
    ASSUME Orderly, Known, work' = work, PullsGrow, Len(prs') = Len(prs), Keeps,
           \A i \in 1..Len(born) : born'[i].landed = born[i].landed /\ born'[i].lost = born[i].lost,
           torn' => torn, active' = active
    PROVE  Known'
<1>1. Typed /\ OneEach' /\ AllLead' /\ ~ torn'
  BY OneStill DEF Orderly, Known, AllLead
<1>2. ASSUME NEW c \in Lore' PROVE NotedIn(c)' /\ CountedIn(c)'
  <2>1. c \in Lore /\ NotedIn(c) /\ CountedIn(c)
    BY <1>2 DEF Known, Keeps
  <2>2. c.inc \in 1..Len(born)
    BY <1>1, <2>1, Tallies
  <2>3. Owes(c.inc)' = Owes(c.inc)
    BY DEF Owes
  <2>4. CountedIn(c)'
    BY <2>1, <2>2, <2>3 DEF CountedIn
  <2> QED
    BY <2>1, <2>4 DEF NotedIn, PullsGrow
<1>3. ASSUME NEW c \in Live' PROVE Covered(c)' /\ \A v \in Workers : Abreast(work'[v], c, born', prs')
  <2>1. c \in Live /\ c \in Lore /\ Covered(c)
    BY <1>1, <1>3, LoreOK DEF Keeps, Known
  <2>2. ContextOK(c, born, prs) /\ c.inc \in 1..Len(born) /\ Untouched(c.inc)
    BY <1>1, <2>1, LoreOK, Tallies DEF Untouched, PullsGrow
  <2>3. \A v \in Workers : Abreast(work[v], c, born, prs)
    BY <2>1 DEF Known
  <2> QED
    BY <1>1, <2>1, <2>2, <2>3, AbreastOn, Zenon DEF Covered
<1> QED
  BY <1>1, <1>2, <1>3 DEF Known

\* A message that reaches a handler.
LEMMA MentionKnown ==
    ASSUME Orderly, Known, Steady', NEW w \in Workers, NEW root \in scene.roots, NEW m, NEW key \in Keys,
           HandleMention(w, root, m, key), PullsGrow
    PROVE  Known'
<1>1. Typed /\ ~ torn /\ active \in Processes /\ active' = active /\ root \in Roots
  BY Bounds, Zenon DEF Orderly, Known, HandleMention, Typed
<1> PICK mem : mem = expireLocked(memory[active])
  OBVIOUS
<1>2. /\ work[w].pc = "idle" /\ prs' = prs
      /\ \/ /\ memory' = [memory EXCEPT ![active] = mem] /\ born' = born /\ file' = file /\ torn' = torn
            /\ \E c : Turns(w, {NoWork} \cup Starts(c, key))
         \/ /\ Store(active, mem, NewContext(root, NoPR)) /\ born' = Born(root)
            /\ Turns(w, {NoWork} \cup Starts(NewContext(root, NoPR), key))
  BY <1>1, MentionTurns DEF Turns
<1>3. ASSUME NEW c, Turns(w, {NoWork} \cup Starts(c, key))
      PROVE  /\ Others(w) /\ Typed' /\ work'[w].pc \notin Writing \cup Landed
             /\ work'[w].pc # "idle" => work'[w].at = active
  BY <1>3, NoJob DEF Turns, Starts, Writing, Landed
<1>4. work[w].pc \notin Writing \cup Landed
  BY <1>2 DEF Writing, Landed
<1>5. CASE /\ memory' = [memory EXCEPT ![active] = mem] /\ born' = born /\ file' = file /\ torn' = torn
           /\ \E c : Turns(w, {NoWork} \cup Starts(c, key))
  <2>1. Keeps
    BY <1>1, <1>5, ExpiryKeeps, Zenon
  <2>2. /\ Others(w) /\ work'[w].pc \notin Writing \cup Landed
        /\ work'[w].pc # "idle" => work'[w].at = active'
    BY <1>1, <1>3, <1>5
  <2>3. \A c \in Live' : Abreast(work'[w], c, born', prs')
    BY <2>2, AbreastFree
  <2> QED
    BY <1>1, <1>2, <1>4, <1>5, <2>1, <2>2, <2>3, QuietKnown
<1>6. CASE /\ Store(active, mem, NewContext(root, NoPR)) /\ born' = Born(root)
           /\ Turns(w, {NoWork} \cup Starts(NewContext(root, NoPR), key))
  <2>1. PICK c : c = NewContext(root, NoPR)
    OBVIOUS
  <2>2. c \in Context /\ c.root = root /\ c.inc = Len(born) + 1
    BY <1>1, <2>1 DEF Typed, ForgeTyped, NewContext, Context, NoPR
  <2>3. /\ RegistryOK(mem, scene.maxLive) /\ Tracked(mem) \subseteq Tracked(memory[active])
        /\ \A r \in Tracked(mem) : mem.byId[r] = memory[active].byId[r]
    BY <1>1, LoreOK, Bounds, Expired DEF MemoryOK, Typed
  <2>4. Learns(c) /\ ~ torn'
    BY <1>1, <1>6, <2>1, <2>2, <2>3, StoreLearns
  <2>5. /\ Others(w) /\ work'[w].pc \notin Writing \cup Landed
        /\ work'[w].pc # "idle" => work'[w].at = active'
    BY <1>1, <1>3, <1>6
  <2>6. \A v \in Workers : \/ work'[v] = work[v]
                           \/ /\ {work[v].pc, work'[v].pc} \cap (Writing \cup Landed) = {}
                              /\ work'[v].pc # "idle" => work'[v].at = active
    BY <1>1, <1>4, <2>5 DEF Others
  <2>7. Len(prs) \in Nat
    BY <1>1 DEF Typed, ForgeTyped
  <2> QED
    BY <1>1, <1>2, <1>6, <2>2, <2>4, <2>6, <2>7, BirthKnown
<1> QED
  BY <1>2, <1>5, <1>6

\* A handler that goes on with its thread, to the forge or away from it.
LEMMA GoesOnKnown ==
    ASSUME Orderly, Known, NEW w \in Workers, work[w].pc # "idle", work[w].pc \notin Landed,
           NEW pc, NEW lock, NEW target, NEW token, NEW chat,
           Turns(w, Jobs(work[w], pc, work[w].tc, lock, target, token, chat)),
           pc \in Writing => work[w].pc \in Writing, pc \notin Landed, pc # "idle",
           Keeps, born' = born, PullsGrow, Len(prs') = Len(prs), torn' = torn, active' = active
    PROVE  Known'
<1>1. Typed /\ work[w].at = active
  BY DEF Orderly, Known, AllLead
<1>2. Others(w) /\ work'[w].pc = pc /\ work'[w].tc = work[w].tc /\ work'[w].at = work[w].at
  BY DEF Turns, Jobs
<1>3. ASSUME NEW c \in Live' PROVE Abreast(work'[w], c, born', prs')
  <2>1. CASE pc \notin Writing
    BY <1>2, <2>1, AbreastFree
  <2>2. CASE pc \in Writing
    <3>1. c \in Live /\ c \in Lore
      BY <1>1, <1>3, LoreOK DEF Keeps
    <3>2. ContextOK(c, born, prs) /\ Abreast(work[w], c, born, prs) /\ Untouched(c.inc)
      BY <1>1, <3>1, LoreOK DEF Known, Untouched, PullsGrow
    <3> QED
      BY <1>1, <1>2, <2>2, <3>2, AbreastOn, Zenon
  <2> QED
    BY <2>1, <2>2
<1> QED
  BY <1>1, <1>2, <1>3, QuietKnown

\* One that is done.
LEMMA DoneKnown ==
    ASSUME Orderly, Known, NEW w \in Workers, work[w].pc \notin Landed, Turns(w, {NoWork}),
           Keeps, born' = born, PullsGrow, Len(prs') = Len(prs), torn' = torn, active' = active
    PROVE  Known'
<1>1. Others(w) /\ work'[w] = NoWork
  BY DEF Turns
<1>2. work'[w].pc = "idle" /\ "idle" \notin Writing \cup Landed
  BY <1>1, NoJob DEF Writing, Landed
<1>3. \A c \in Live' : Abreast(work'[w], c, born', prs')
  BY <1>2, AbreastFree
<1> QED
  BY <1>1, <1>2, <1>3, QuietKnown

\* A note that a handler has not on the forge yet, or will not have there.
LEMMA WriteKnown ==
    ASSUME Orderly, Known, NEW w \in Workers, PullsGrow,
           IsOpen(w) \/ AppendToEntry(w) \/ CommentOnPR(w) \/ OpenPR(w)
    PROVE  Known'
<1> PICK x : x = work[w]
  OBVIOUS
<1> PICK n : n = After(x.tc, x.target)
  OBVIOUS
<1>1. /\ Typed /\ active' = active /\ memory' = memory /\ file' = file /\ torn' = torn
      /\ TargetFits(x.pc, x.tc, x.target, prs)
  BY Zenon DEF Orderly, TargetsOK, IsOpen, AppendToEntry, CommentOnPR, OpenPR
<1>2. x.pc \in Writing /\ x.pc # "idle" /\ x.pc \notin Landed
  BY DEF IsOpen, AppendToEntry, CommentOnPR, OpenPR, Writing, Landed
<1>3. Keeps /\ Len(prs) \in Nat
  BY <1>1, SameKeeps DEF Typed, ForgeTyped
<1>4. ASSUME NEW pc \in Writing \cup {"unlock"}, NEW target, NEW token,
             Turns(w, Jobs(x, pc, x.tc, x.lock, target, token, x.chat)),
             born' = born, Len(prs') = Len(prs)
      PROVE  Known'
  <2>1. pc \notin Landed /\ pc # "idle"
    BY DEF Writing, Landed
  <2> QED
    BY <1>1, <1>2, <1>3, <1>4, <2>1, GoesOnKnown
<1>5. ASSUME NEW pc, NEW target, NEW token, NEW lost \in {0, 1},
             Turns(w, Jobs(x, pc, x.tc, x.lock, target, token, x.chat)), LandedAt(x.tc.inc, lost),
             IF lost = 0 THEN pc \in Landed ELSE pc = "unlock",
             \/ PullsKept /\ pc # "writeBack"
             \/ /\ PullOpened(x.tc.inc, lost = 0) /\ (lost = 0 => pc = "writeBack" /\ target = Len(prs) + 1)
                /\ x.pc = "openPR"
      PROVE  Known'
  <2>1. Others(w) /\ work'[w].tc = x.tc /\ work'[w].at = x.at /\ work'[w].pc = pc /\ work'[w].target = target
    BY <1>5 DEF Turns, Jobs
  <2>2. pc \notin Writing /\ (pc \in Landed <=> lost = 0)
    BY <1>5 DEF Writing, Landed
  <2>3. x.pc = "openPR" => x.tc.noteUrl = NoPR \/ ~ prs[x.tc.noteUrl].open
    BY <1>1 DEF TargetFits
  <2> QED
    BY <1>1, <1>2, <1>3, <1>5, <2>1, <2>2, <2>3, LandKnown
<1>6. Routed(n) \in Writing /\ {"append", "comment"} \subseteq Writing /\ {"count", "writeBack"} \subseteq Landed
  BY DEF Routed, Writing, Landed
<1>7. CASE IsOpen(w)
  <2> PICK pc : pc = IF x.target = x.tc.noteUrl THEN "append" ELSE "comment"
    OBVIOUS
  <2>1. \/ Turns(w, Jobs(x, Routed(n), x.tc, x.lock, n, x.token, x.chat))
        \/ Turns(w, Jobs(x, pc, x.tc, x.lock, x.target, x.token, x.chat))
        \/ Turns(w, Jobs(x, "unlock", x.tc, x.lock, x.target, 0, x.chat))
    BY <1>1, <1>7, IsOpenTurns
  <2>2. born' = born /\ prs' = prs
    BY <1>7, Zenon DEF IsOpen
  <2>3. pc \in Writing
    BY <1>6
  <2> QED
    BY <1>4, <1>6, <2>1, <2>2, <2>3, Zenon
<1>8. CASE AppendToEntry(w)
  <2>1. x.target # NoPR
    BY <1>1, <1>8 DEF AppendToEntry, TargetFits
  <2>2. /\ PullsKept
        /\ \/ LandedAt(x.tc.inc, 0) /\ Turns(w, Jobs(x, "count", x.tc, x.lock, x.target, 0, x.chat))
           \/ born' = born /\ Turns(w, Jobs(x, Routed(n), x.tc, x.lock, n, x.token, x.chat))
           \/ born' = born /\ Turns(w, Jobs(x, "comment", x.tc, x.lock, x.target, x.token, x.chat))
    BY <1>1, <1>8, <2>1, AppendTurns
  <2>3. Len(prs') = Len(prs)
    BY <2>2 DEF PullsKept
  <2>4. CASE LandedAt(x.tc.inc, 0) /\ Turns(w, Jobs(x, "count", x.tc, x.lock, x.target, 0, x.chat))
    BY <1>5, <1>6, <2>2, <2>4
  <2> QED
    BY <1>4, <1>6, <2>2, <2>3, <2>4
<1>9. CASE CommentOnPR(w)
  <2>1. x.target # NoPR
    BY <1>1, <1>9 DEF CommentOnPR, TargetFits
  <2>2. /\ PullsKept
        /\ \/ LandedAt(x.tc.inc, 0) /\ Turns(w, Jobs(x, "count", x.tc, x.lock, x.target, 0, x.chat))
           \/ born' = born /\ Turns(w, Jobs(x, "unlock", x.tc, x.lock, x.target, 0, x.chat))
           \/ LandedAt(x.tc.inc, 1) /\ Turns(w, Jobs(x, "unlock", x.tc, x.lock, x.target, 0, x.chat))
    BY <1>1, <1>9, <2>1, CommentTurns
  <2>3. Len(prs') = Len(prs)
    BY <2>2 DEF PullsKept
  <2>4. CASE LandedAt(x.tc.inc, 0) /\ Turns(w, Jobs(x, "count", x.tc, x.lock, x.target, 0, x.chat))
    BY <1>5, <1>6, <2>2, <2>4
  <2>5. CASE LandedAt(x.tc.inc, 1) /\ Turns(w, Jobs(x, "unlock", x.tc, x.lock, x.target, 0, x.chat))
    BY <1>5, <2>2, <2>5
  <2> QED
    BY <1>4, <2>2, <2>3, <2>4, <2>5
<1>10. CASE OpenPR(w)
  <2>1. x.pc = "openPR"
    BY <1>10, Zenon DEF OpenPR
  <2>2. \/ /\ LandedAt(x.tc.inc, 0) /\ PullOpened(x.tc.inc, TRUE)
           /\ Turns(w, Jobs(x, "writeBack", x.tc, x.lock, Len(prs) + 1, 0, x.chat))
        \/ born' = born /\ prs' = prs /\ Turns(w, Jobs(x, "unlock", x.tc, x.lock, x.target, 0, x.chat))
        \/ /\ LandedAt(x.tc.inc, 1) /\ PullOpened(x.tc.inc, FALSE)
           /\ Turns(w, Jobs(x, "unlock", x.tc, x.lock, x.target, 0, x.chat))
    BY <1>1, <1>10, OpenTurns, Zenon
  <2>3. CASE /\ LandedAt(x.tc.inc, 0) /\ PullOpened(x.tc.inc, TRUE)
             /\ Turns(w, Jobs(x, "writeBack", x.tc, x.lock, Len(prs) + 1, 0, x.chat))
    BY <1>5, <1>6, <2>1, <2>3
  <2>4. CASE /\ LandedAt(x.tc.inc, 1) /\ PullOpened(x.tc.inc, FALSE)
             /\ Turns(w, Jobs(x, "unlock", x.tc, x.lock, x.target, 0, x.chat))
    BY <1>5, <2>1, <2>4 DEF PullOpened
  <2> QED
    BY <1>4, <2>2, <2>3, <2>4, Zenon
<1> QED
  BY <1>7, <1>8, <1>9, <1>10

\* Enter: the handler works with what is known at this moment.
LEMMA EnterKnown ==
    ASSUME Orderly, Known, reserved \in Nat, NEW w \in Workers, Enter(w), PullsGrow
    PROVE  Known'
<1> PICK x : x = work[w]
  OBVIOUS
<1> PICK c : c = Fresh(x)
  OBVIOUS
<1>1. /\ Typed /\ active' = active /\ file' = file /\ torn' = torn /\ born' = born /\ prs' = prs /\ x.pc = "wait"
      /\ active \in Processes
  BY Zenon DEF Orderly, Enter, Typed
<1>2. x.at = active /\ x.pc # "idle" /\ x.pc \notin Landed
  BY <1>1 DEF Landed, Known, AllLead
<1>3. /\ memory' = [memory EXCEPT ![active] = expireLocked(memory[active])]
      /\ \/ Turns(w, Jobs(x, "unlock", c, x.lock, x.target, x.token, x.chat))
         \/ Turns(w, Jobs(x, Routed(After(c, NoPR)), c, x.lock, After(c, NoPR), reserved + 1, x.chat))
  BY <1>1, <1>2, EnterTurns, Zenon
<1>4. /\ Typed' /\ Others(w) /\ work'[w].tc = c /\ work'[w].at = x.at
      /\ work'[w].pc \in {"unlock", "openPR", "isOpen"}
  <2>1. CASE Turns(w, Jobs(x, "unlock", c, x.lock, x.target, x.token, x.chat))
    BY <2>1 DEF Turns, Jobs
  <2>2. CASE Turns(w, Jobs(x, Routed(After(c, NoPR)), c, x.lock, After(c, NoPR), reserved + 1, x.chat))
    BY <2>2 DEF Routed, Turns, Jobs
  <2> QED
    BY <1>3, <2>1, <2>2
<1>5. Keeps
  BY <1>1, <1>3, ExpiryKeeps, Zenon
<1>6. ASSUME NEW d \in Live' PROVE Abreast(work'[w], d, born', prs')
  <2>1. ASSUME d.root = c.root PROVE d = c
    <3>1. c.root = x.tc.root
      BY <1>1, <1>2, FreshOK
    <3> PICK mem : mem = expireLocked(memory[x.at])
      OBVIOUS
    <3>2. memory'[active'] = mem
      BY <1>1, <1>2, <1>3 DEF Typed, RegistriesTyped
    <3>3. PICK r \in Tracked(mem) : d = mem.byId[r]
      BY <1>6, <3>2 DEF Live
    <3>4. RegistryOK(mem, scene.maxLive)
      BY <1>1, <1>2, LoreOK, Bounds, Expired DEF MemoryOK, Typed
    <3>5. d.root = r
      BY <3>3, <3>4, TrackedIs
    <3> QED
      BY <2>1, <3>1, <3>3, <3>5 DEF Fresh
  <2> QED
    BY <1>4, <2>1 DEF Abreast, Landed
<1>7. work'[w].pc \notin Landed
  BY <1>4 DEF Landed
<1> QED
  BY <1>1, <1>2, <1>4, <1>5, <1>6, <1>7, QuietKnown

\* A job that goes on or ends.
LEMMA TurnsEither ==
    ASSUME NEW w \in Workers, NEW a, NEW b, Turns(w, a \cup b)
    PROVE  Turns(w, a) \/ Turns(w, b)
BY DEF Turns

\* What a handler does keeps what is known true.
LEMMA HandlerKnown ==
    ASSUME Orderly, Known, Steady', reserved \in Nat, NEW w \in Workers, Handler(w)
    PROVE  Known'
<1> PICK x : x = work[w]
  OBVIOUS
<1>1. Typed /\ LocksOK /\ PullsGrow /\ scene.roots \subseteq Roots
  BY HandlerOrderly, Bounds DEF Orderly, Typed
<1>2. CASE \E root \in scene.roots, m \in scene.messages, key \in Keys : HandleMention(w, root, m, key)
  BY <1>1, <1>2, MentionKnown
<1>3. CASE IsOpen(w) \/ AppendToEntry(w) \/ CommentOnPR(w) \/ OpenPR(w)
  BY <1>1, <1>3, WriteKnown
<1>4. CASE Enter(w)
  BY <1>1, <1>4, EnterKnown
<1>5. CASE WriteBack(w)
  BY <1>1, <1>5, WriteBackKnown
<1>6. CASE Count(w)
  BY <1>1, <1>6, CountKnown
<1>7. ASSUME active' = active, memory' = memory, file' = file, torn' = torn, born' = born, prs' = prs,
             x.pc # "idle", x.pc \notin Landed,
             \/ Turns(w, {NoWork})
             \/ \E pc \in {"complete", "lockRoot", "wait", "drop"} :
                   \E lock, target, token, chat : Turns(w, Jobs(x, pc, x.tc, lock, target, token, chat))
      PROVE  Known'
  <2>1. Keeps /\ Len(prs') = Len(prs)
    BY <1>7, SameKeeps
  <2>2. CASE Turns(w, {NoWork})
    BY <1>1, <1>7, <2>1, <2>2, DoneKnown
  <2>3. ASSUME NEW pc \in {"complete", "lockRoot", "wait", "drop"}, NEW lock, NEW target, NEW token, NEW chat,
               Turns(w, Jobs(x, pc, x.tc, lock, target, token, chat))
        PROVE  Known'
    BY <1>1, <1>7, <2>1, <2>3, GoesOnKnown DEF Writing, Landed
  <2> QED
    BY <1>7, <2>2, <2>3
<1>8. ASSUME NEW e \in Estimates, Allow(w, e) PROVE Known'
  <2>1. /\ active' = active /\ memory' = memory /\ file' = file /\ torn' = torn /\ born' = born /\ prs' = prs
        /\ x.pc = "chat"
    BY <1>8, Zenon DEF Allow, ChatUnchanged
  <2>2. Turns(w, {NoWork} \cup Jobs(x, "complete", x.tc, x.lock, x.target, x.token, Now))
    BY <1>1, <1>8, AllowTurns
  <2>3. Turns(w, {NoWork}) \/ Turns(w, Jobs(x, "complete", x.tc, x.lock, x.target, x.token, Now))
    BY <2>2, TurnsEither
  <2> QED
    BY <1>7, <2>1, <2>3 DEF Landed
<1>9. CASE Panic(w)
  BY <1>1, <1>7, <1>9, PanicTurns DEF Panic, ChatUnchanged, Landed
<1>10. ASSUME NEW e \in Estimates, NEW noted, Answer(w, e, noted) PROVE Known'
  <2>1. /\ active' = active /\ memory' = memory /\ file' = file /\ torn' = torn /\ born' = born /\ prs' = prs
        /\ x.pc = "complete"
    BY <1>10, Zenon DEF Answer, ChatUnchanged
  <2>2. Turns(w, {NoWork} \cup Jobs(x, "lockRoot", x.tc, x.lock, x.target, x.token, x.chat))
    BY <1>1, <1>10, AnswerTurns
  <2>3. Turns(w, {NoWork}) \/ Turns(w, Jobs(x, "lockRoot", x.tc, x.lock, x.target, x.token, x.chat))
    BY <2>2, TurnsEither
  <2> QED
    BY <1>7, <2>1, <2>3 DEF Landed
<1>11. CASE LockRoot(w)
  <2>1. /\ active' = active /\ memory' = memory /\ file' = file /\ torn' = torn /\ born' = born /\ prs' = prs
        /\ x.pc = "lockRoot"
    BY <1>11, Zenon DEF LockRoot
  <2>2. \E l : Turns(w, Jobs(x, "wait", x.tc, l, x.target, x.token, x.chat))
    BY <1>1, <1>11, LockRootTurns, Zenon
  <2> QED
    BY <1>7, <2>1, <2>2 DEF Landed
<1>12. CASE Unlock(w)
  <2>1. /\ active' = active /\ memory' = memory /\ file' = file /\ torn' = torn /\ born' = born /\ prs' = prs
        /\ x.pc = "unlock"
    BY <1>12, Zenon DEF Unlock
  <2>2. Turns(w, Jobs(x, "drop", x.tc, x.lock, x.target, x.token, x.chat))
    BY <1>1, <1>12, UnlockTurns
  <2> QED
    BY <1>7, <2>1, <2>2 DEF Landed
<1>13. CASE Drop(w)
  BY <1>1, <1>7, <1>13, DropTurns DEF Drop, Landed
<1> QED
  BY <1>2, <1>3, <1>4, <1>5, <1>6, <1>8, <1>9, <1>10, <1>11, <1>12, <1>13, Zenon DEF Handler

\* Every step leaves the list of faults as it is, or adds the fault that happened.
LEMMA SteadyBefore ==
    ASSUME Typed, [Next]_vars, Steady'
    PROVE  Steady
<1>1. failures' = failures \/ \E kind : Fault(kind)
  <2>1. ASSUME NEW w \in Workers, Handler(w) PROVE failures' = failures \/ \E kind : Fault(kind)
    <3>1. ASSUME NEW c, appendLocked(c) PROVE failures' = failures \/ \E kind : Fault(kind)
      BY <3>1, Zenon DEF appendLocked, NoFault
    <3>2. ASSUME NEW root, NEW m, NEW key, HandleMention(w, root, m, key) PROVE failures' = failures \/ \E kind : Fault(kind)
      BY <3>1, <3>2, Zenon DEF HandleMention, Store, NoFault
    <3>3. ASSUME NEW e, NEW noted, Allow(w, e) \/ Answer(w, e, noted) \/ Panic(w) PROVE failures' = failures
      BY <3>3, Zenon DEF Allow, Answer, Panic, ChatUnchanged
    <3>4. ASSUME LockRoot(w) \/ Enter(w) \/ Unlock(w) \/ Drop(w) PROVE failures' = failures
      BY <3>4, Zenon DEF LockRoot, Enter, Unlock, Drop
    <3>5. CASE IsOpen(w) \/ AppendToEntry(w) \/ CommentOnPR(w) \/ OpenPR(w)
      BY <3>5, Zenon DEF IsOpen, AppendToEntry, CommentOnPR, OpenPR, NoFault
    <3>6. CASE WriteBack(w) \/ Count(w)
      BY <3>1, <3>6, Zenon DEF WriteBack, Count, Store, NoStore, NoFault
    <3> QED
      BY <2>1, <3>2, <3>3, <3>4, <3>5, <3>6, Zenon DEF Handler
  <2>2. ASSUME NEW root, NEW curated, Register(root, curated) PROVE failures' = failures \/ \E kind : Fault(kind)
    BY <2>2, Zenon DEF Register, Store, appendLocked, NoFault
  <2>3. ASSUME NEW n, Close(n) PROVE failures' = failures
    BY <2>3, Zenon DEF Close
  <2>4. ASSUME Tick \/ Slide \/ ChatSlide PROVE failures' = failures
    BY <2>4, Zenon DEF Tick, Slide, ChatSlide, ChatUnchanged
  <2>5. ASSUME NEW p, NEW tear, Restart(p, tear) \/ Failover(p) PROVE \E kind : Fault(kind)
    BY <2>5, Zenon DEF Restart, Failover
  <2>6. ASSUME UNCHANGED vars PROVE failures' = failures
    BY <2>6, Zenon DEF vars
  <2> QED
    BY <2>1, <2>2, <2>3, <2>4, <2>5, <2>6, Zenon DEF Next
<1> QED
  BY <1>1, FaultShows, NoFaultShows

\* The tracked roots are a finite set.
LEMMA TrackedFinite ==
    ASSUME NEW mem, NEW max, RegistryOK(mem, max)
    PROVE  IsFiniteSet(Tracked(mem)) /\ Cardinality(Tracked(mem)) \in Nat
<1> PICK q \in Seq(Roots) : q = mem.order
  BY DEF RegistryOK
<1> DEFINE f == [i \in 1..Len(q) |-> q[i]]
<1>1. Tracked(mem) = Range(q)
  BY TrackedIs
<1>2. f \in Surjection(1..Len(q), Range(q))
  BY DEF Surjection, Range
<1>3. IsFiniteSet(1..Len(q))
  BY FS_Interval
<1>4. IsFiniteSet(Range(q))
  BY <1>2, <1>3, FS_Surjection
<1> QED
  BY <1>1, <1>4, FS_CardinalityType

\* After a start the file has nothing else to say than what the process has replayed, and
\* that is what it said before.
LEMMA RestartLasts ==
    ASSUME Typed, NEW p \in Processes, NEW tear \in BOOLEAN, Restart(p, tear)
    PROVE  LET kept == {Replayed.byId[r] : r \in Tracked(Replayed)}
           IN kept \subseteq Lasts(file) /\ Lasts(file') \subseteq kept
<1> PICK max : max = scene.maxLive
  OBVIOUS
<1> PICK full : full = Replays(file, max)
  OBVIOUS
<1> PICK mem : mem = Replayed
  OBVIOUS
<1>1. max \in Nat \ {0} /\ file \in Seq(Context) /\ RegistryOK(full, max)
  BY Bounds, ReplayMemory, Zenon DEF Typed, FileTyped, FileOK, MemoryOK
<1>2. mem = expireLocked(full)
  BY ReplayIs DEF Replayed
<1>3. RegistryOK(mem, max) /\ Tracked(mem) \subseteq Tracked(full) /\ \A r \in Tracked(mem) : mem.byId[r] = full.byId[r]
  BY <1>1, <1>2, Expired
<1>4. \A r \in Tracked(mem) : mem.byId[r] \in Lasts(file)
  BY <1>1, <1>3, ReplayedLasts
<1>5. file' = IF Len(file) > Cardinality(Tracked(mem)) THEN Compacted(mem) ELSE file
  BY Zenon DEF Restart
<1>6. CASE Len(file) > Cardinality(Tracked(mem))
  BY <1>3, <1>4, <1>5, <1>6, CompactedLasts
<1>7. CASE ~ Len(file) > Cardinality(Tracked(mem))
  <2>1. Cardinality(Tracked(mem)) \in Nat /\ Len(file) \in Nat
    BY <1>1, <1>3, TrackedFinite
  <2>2. Len(file) <= Cardinality(Tracked(mem))
    BY <1>7, <2>1
  <2>3. Lasts(file) \subseteq {mem.byId[r] : r \in Tracked(mem)}
    BY <1>1, <1>3, <1>4, <2>2, NothingElse
  <2> QED
    BY <1>4, <1>5, <1>7, <2>3
<1> QED
  BY <1>6, <1>7

\* What was owed is lost, if no more is owed than is lost.
LEMMA OwedLost ==
    ASSUME NEW landed \in Nat, NEW notes \in Nat, NEW gone \in Nat, NEW owed \in Nat, NEW more \in Nat,
           owed <= more, landed <= notes + owed + gone
    PROVE  landed <= notes + 0 + (gone + more) /\ landed <= notes + (gone + more)
OBVIOUS

\* A crash: what the process knew and the file did not tell is lost with the handlers
\* that knew it.
LEMMA RestartKnown ==
    ASSUME Orderly, Known, Steady', NEW p \in Processes, NEW tear \in BOOLEAN, Restart(p, tear), PullsGrow
    PROVE  Known'
<1> PICK kept : kept = {Replayed.byId[r] : r \in Tracked(Replayed)}
  BY Zenon
<1>1. Typed /\ ~ torn /\ AllLead /\ OneEach /\ active \in Processes /\ active' = active /\ DOMAIN memory = Processes
      /\ MaxNotes \in Nat
  BY Bounds, Zenon DEF Orderly, Known, Typed, RegistriesTyped, Restart
<1>2. ~ torn'
  <2>1. Fault(IF tear THEN "torn" ELSE "crash")
    BY Zenon DEF Restart
  <2>2. ~ tear
    BY <1>1, <2>1, FaultShows
  <2>3. torn' => torn \/ tear
    BY Zenon DEF Restart
  <2> QED
    BY <1>1, <2>2, <2>3
<1>3. kept \subseteq Lasts(file) /\ Lasts(file') \subseteq kept
  BY <1>1, RestartLasts
<1>4. BirthsSurvive(p) /\ PullsSurvive(p) /\ RegistrySurvives(p) /\ WorkSurvives(p) /\ Typed'
  BY <1>1, RestartTyped
<1>5. work \in [Workers -> Work] /\ work' \in [Workers -> Work]
  BY <1>1, <1>4 DEF Typed, JobsTyped
<1>6. CASE p # active
  <2>1. Mine(p) = {}
    BY <1>1, <1>6 DEF Mine, AllLead
  <2>2. work' = work
    BY <1>4, <1>5, <2>1 DEF WorkSurvives
  <2>3. memory'[active] = memory[active]
    BY <1>1, <1>4, <1>6 DEF RegistrySurvives
  <2>4. Keeps
    BY <1>1, <1>3, <2>3 DEF Keeps, Lore, Live
  <2>5. Len(prs') = Len(prs)
    BY <1>4 DEF PullsSurvive
  <2>6. ASSUME NEW i \in 1..Len(born) PROVE born'[i].landed = born[i].landed /\ born'[i].lost = born[i].lost
    <3>1. {w \in Mine(p) : work[w].tc.inc = i /\ work[w].pc \in Landed} = {}
      BY <2>1
    <3>2. Cardinality({w \in Mine(p) : work[w].tc.inc = i /\ work[w].pc \in Landed}) = 0
      BY <3>1, FS_EmptySet
    <3>3. born[i].lost \in Nat
      <4>1. born[i] \in Birth
        BY <1>1 DEF Typed, ForgeTyped
      <4> QED
        BY <4>1 DEF Birth
    <3>4. born[i].lost + 0 = born[i].lost
      BY <3>3
    <3> QED
      BY <1>4, <3>2, <3>4 DEF BirthsSurvive
  <2> QED
    BY <1>1, <1>2, <2>2, <2>4, <2>5, <2>6, TimeKnown
<1>7. CASE p = active
  <2>1. \A w \in Workers : work[w].pc # "idle" => w \in Mine(p)
    BY <1>1, <1>7 DEF AllLead, Mine
  <2>2. \A w \in Workers : work'[w].pc = "idle"
    BY <1>4, <2>1, NoJob DEF WorkSurvives
  <2>3. \A w \in Workers : work'[w].pc \notin Writing \cup Landed
    BY <2>2 DEF Writing, Landed
  <2>4. Live' \subseteq kept
    BY <1>1, <1>4, <1>7 DEF Live, RegistrySurvives
  <2>5. Lore' \subseteq kept /\ kept \subseteq Lore
    BY <1>3, <2>4 DEF Lore
  <2>6. AllLead' /\ OneEach'
    BY <1>1, <2>2, <2>5 DEF AllLead, OneEach
  <2>7. ASSUME NEW c \in kept
        PROVE  /\ NotedIn(c)' /\ CountedIn(c)' /\ Covered(c)'
               /\ \A v \in Workers : Abreast(work'[v], c, born', prs')
    <3>1. c \in Lore /\ NotedIn(c) /\ CountedIn(c)
      BY <2>5, <2>7 DEF Known
    <3>2. c.notes \in Nat /\ c.inc \in 1..Len(born) /\ born[c.inc].landed \in Nat /\ born[c.inc].lost \in Nat
      BY <1>1, <3>1, Tallies
    <3>3. NotedIn(c)'
      <4>1. SUFFICES ASSUME NEW n \in 1..Len(prs), prs'[n].inc = c.inc, prs'[n].open, ~ prs'[n].orphan
                     PROVE  c.noteUrl = n
        BY <1>4 DEF NotedIn, PullsSurvive
      <4>2. prs[n].inc = c.inc /\ prs[n].open /\ ~ prs[n].orphan
        BY <4>1 DEF PullsGrow
      <4>3. ASSUME NEW w \in Workers, work[w].pc = "writeBack", work[w].target = n PROVE FALSE
        BY <1>4, <2>1, <4>1, <4>3 DEF PullsSurvive
      <4> QED
        BY <3>1, <4>2, <4>3 DEF NotedIn
    <3> DEFINE S == {w \in Mine(p) : work[w].tc.inc = c.inc /\ work[w].pc \in Landed}
    <3>4. Owes(c.inc)' = 0
      BY <2>3 DEF Owes
    <3>5. Cardinality(S) \in Nat /\ Owes(c.inc) <= Cardinality(S)
      <4>1. IsFiniteSet(Workers) /\ S \subseteq Workers
        BY Bounds DEF Mine
      <4>2. IsFiniteSet(S)
        BY <4>1, FS_Subset
      <4>3. Cardinality(S) \in Nat /\ (Cardinality(S) = 0 <=> S = {})
        BY <4>2, FS_CardinalityType, FS_EmptySet, Zenon
      <4>4. Owes(c.inc) = 1 => S # {}
        BY <2>1 DEF Owes, Landed
      <4> HIDE DEF S
      <4> QED
        BY <4>3, <4>4, OwesIs
    <3>6. born'[c.inc].landed = born[c.inc].landed /\ born'[c.inc].lost = born[c.inc].lost + Cardinality(S)
      BY <1>4, <2>7, <3>2, Zenon DEF BirthsSurvive
    <3> HIDE DEF S
    <3>7. Owes(c.inc) \in Nat
      BY OwesIs
    <3>8. /\ born[c.inc].landed <= c.notes + 0 + (born[c.inc].lost + Cardinality(S))
          /\ born[c.inc].landed <= MaxNotes + 0 + (born[c.inc].lost + Cardinality(S))
          /\ born[c.inc].landed <= MaxNotes + (born[c.inc].lost + Cardinality(S))
      BY <1>1, <3>1, <3>2, <3>5, <3>7, OwedLost DEF CountedIn
    <3>9. CountedIn(c)' /\ Covered(c)'
      BY <3>4, <3>6, <3>8 DEF CountedIn, Covered
    <3>10. \A v \in Workers : Abreast(work'[v], c, born', prs')
      BY <2>3, AbreastFree
    <3> QED
      BY <3>3, <3>9, <3>10
  <2> QED
    BY <1>2, <2>4, <2>5, <2>6, <2>7 DEF Known
<1> QED
  BY <1>6, <1>7

\* Every step keeps the contexts and the forge in line, while none of the named failures
\* has happened.
LEMMA NextKnown ==
    ASSUME Orderly, reserved \in Nat, Steady => Known, [Next]_vars
    PROVE  (Steady => Known)'
<1> SUFFICES ASSUME Steady'
             PROVE  Known'
  OBVIOUS
<1>1. Typed /\ Orderly' /\ PullsGrow
  BY NextOrderly DEF Orderly
<1>2. Steady /\ Known
  BY <1>1, SteadyBefore
<1>3. ASSUME NEW w \in Workers, Handler(w)
      PROVE  Known'
  BY <1>2, <1>3, HandlerKnown
<1>4. ASSUME NEW root \in scene.roots, NEW c \in BOOLEAN, Register(root, c)
      PROVE  Known'
  BY <1>1, <1>2, <1>4, Bounds, RegisterKnown DEF Typed
<1>5. ASSUME NEW n \in DOMAIN prs, Close(n)
      PROVE  Known'
  BY <1>1, <1>2, <1>5, CloseTyped, SameKeeps, TimeKnown DEF Close
<1>6. ASSUME Tick \/ Slide \/ ChatSlide \/ UNCHANGED vars
      PROVE  Known'
  <2>1. /\ work' = work /\ born' = born /\ torn' = torn /\ active' = active /\ memory' = memory /\ file' = file
        /\ prs' = prs
    BY <1>6, Zenon DEF Tick, Slide, ChatSlide, ChatUnchanged, vars
  <2> QED
    BY <1>1, <1>2, <2>1, SameKeeps, TimeKnown, Zenon
<1>7. ASSUME NEW p \in Processes, NEW tear \in BOOLEAN, Restart(p, tear)
      PROVE  Known'
  BY <1>1, <1>2, <1>7, RestartKnown
<1>8. ASSUME NEW p \in Processes, Failover(p)
      PROVE  FALSE
  BY <1>1, <1>8, FaultShows DEF Failover
<1> QED
  BY <1>3, <1>4, <1>5, <1>6, <1>7, <1>8, Zenon DEF Next

\* At first there is no context.
LEMMA InitKnown ==
    ASSUME Init
    PROVE  Known
<1>1. ~ torn /\ file = <<>> /\ active \in Processes /\ memory[active] = NoMemory
  BY DEF Init
<1>2. \A w \in Workers : work[w].pc = "idle"
  BY NoJob DEF Init
<1>3. Live = {}
  BY <1>1 DEF Tracked, NoMemory, Live
<1>4. Lasts(file) = {}
  BY <1>1 DEF Lasts
<1>5. Lore = {}
  BY <1>3, <1>4 DEF Lore
<1> QED
  BY <1>1, <1>2, <1>3, <1>5, Zenon DEF Known, AllLead, OneEach

\* A bound on what is owed is one on what may be.
LEMMA OwedMore ==
    ASSUME NEW landed \in Nat, NEW notes \in Nat, NEW gone \in Nat, NEW owed \in Nat, NEW more \in Nat,
           owed <= more, landed <= notes + owed + gone
    PROVE  landed <= notes + more + gone
OBVIOUS

\* What is known settles both: whose pull request is open, and what the cap counts.
LEMMA KnownSettles ==
    ASSUME Orderly, Steady => Known
    PROVE  OneOwnPR /\ CapBinds
<1> SUFFICES ASSUME Steady, NEW r \in Tracked(memory[active]), NEW c, c = memory[active].byId[r]
             PROVE  /\ \A n \in DOMAIN prs : prs[n].inc = c.inc /\ prs[n].open /\ ~ prs[n].orphan =>
                           \/ c.noteUrl = n
                           \/ \E w \in Workers : work[w].pc = "writeBack" /\ work[w].target = n
                    /\ born[c.inc].landed <= c.notes + Uncounted(c.inc) + born[c.inc].lost
                    /\ born[c.inc].landed <= MaxNotes + born[c.inc].lost
  BY Zenon DEF OneOwnPR, CapBinds
<1>1. Typed /\ Known /\ DOMAIN prs = 1..Len(prs)
  BY DEF Orderly, Typed, ForgeTyped
<1>2. c \in Live /\ c \in Lore
  BY <1>1, LoreOK
<1>3. NotedIn(c) /\ CountedIn(c) /\ Covered(c)
  BY <1>1, <1>2 DEF Known
<1>4. c.notes \in Nat /\ born[c.inc].landed \in Nat /\ born[c.inc].lost \in Nat
  BY <1>1, <1>2, Tallies
<1>5. Uncounted(c.inc) \in Nat /\ Owes(c.inc) <= Uncounted(c.inc)
  <2> DEFINE S == {w \in Workers : work[w].tc.inc = c.inc /\ work[w].pc \in {"writeBack", "count"}}
  <2>1. IsFiniteSet(S)
    BY Bounds, FS_Subset
  <2>2. Cardinality(S) \in Nat /\ (Cardinality(S) = 0 <=> S = {})
    BY <2>1, FS_CardinalityType, FS_EmptySet, Zenon
  <2>3. Owes(c.inc) = 1 => S # {}
    BY DEF Owes, Landed
  <2>4. Uncounted(c.inc) = Cardinality(S)
    BY DEF Uncounted
  <2> HIDE DEF S
  <2> QED
    BY <2>2, <2>3, <2>4, OwesIs
<1>6. born[c.inc].landed <= c.notes + Uncounted(c.inc) + born[c.inc].lost
  BY <1>3, <1>4, <1>5, OwesIs, OwedMore DEF CountedIn
<1> QED
  BY <1>1, <1>3, <1>6, Zenon DEF NotedIn, Covered

\* The guard makes the decision to open a pull request and its record one step: a second
\* one is never opened for a thread that knows the first (responder.go:1703).
THEOREM WritersOpenOne == Spec => []OneWriterOnePR
<1>1. Init => Orderly /\ reserved \in Nat /\ (Steady => Known)
  BY InitOrderly, InitKnown
<1>2. Orderly /\ reserved \in Nat /\ (Steady => Known) /\ [Next]_vars =>
          (Orderly /\ reserved \in Nat /\ (Steady => Known))'
  BY NextOrderly, ReservedCounts, NextKnown
<1>3. Orderly /\ (Steady => Known) => OneWriterOnePR
  BY OrderlyWriters, KnownSettles DEF OneWriterOnePR
<1> QED
  BY <1>1, <1>2, <1>3, PTL DEF Spec

\* The caps count what was written, all of it and nothing else: a note that landed is
\* counted for its thread, and an outage takes nothing (responder.go:1296-1345).
THEOREM CapsCount == Spec => []CapsCountWrites
<1>1. Init => Orderly /\ Allowance /\ Paying /\ (Steady => Known)
  BY InitOrderly, InitAllowance, InitKnown
<1>2. Orderly /\ Allowance /\ Paying /\ (Steady => Known) /\ [Next]_vars =>
          (Orderly /\ Allowance /\ Paying /\ (Steady => Known))'
  BY NextOrderly, NextAllowance, NextKnown DEF Allowance
<1>3. Orderly /\ Allowance /\ (Steady => Known) => CapsCountWrites
  BY AllowanceIsFree, KnownSettles DEF CapsCountWrites
<1> QED
  BY <1>1, <1>2, <1>3, PTL DEF Spec

-----------------------------------------------------------------------------
\* The first lines are the same.
SameLines(lines, more, n) == n <= Len(lines) /\ n <= Len(more) /\ \A i \in 1..n : lines[i] = more[i]

\* Two replays of the same first lines are in the same state after them.
LEMMA SameReplay ==
    ASSUME NEW lines \in Seq(Context), NEW more \in Seq(Context), NEW max \in Nat \ {0}, NEW n \in Nat, SameLines(lines, more, n),
           NEW f, ReplayFirst(f, lines, max, Len(lines)), NEW g, ReplayFirst(g, more, max, Len(more))
    PROVE  f[n] = g[n]
<1> DEFINE good == {k \in 0..n : f[k] = g[k]}
<1>1. 0 \in good
  BY DEF ReplayFirst
<1>2. ASSUME NEW k \in 0..n, k \in good, k < n PROVE k + 1 \in good
  <2>1. k + 1 \in 1..Len(lines) /\ k + 1 \in 1..Len(more) /\ k + 1 \in 1..n /\ (k + 1) - 1 = k
    BY <1>2 DEF SameLines
  <2>2. f[k + 1] = Put(f[(k + 1) - 1], lines[k + 1], max) /\ g[k + 1] = Put(g[(k + 1) - 1], more[k + 1], max)
    BY <2>1, Zenon DEF ReplayFirst
  <2>3. f[k + 1] = g[k + 1]
    BY <1>2, <2>1, <2>2, Zenon DEF SameLines
  <2> QED
    BY <2>1, <2>3
<1> HIDE DEF good
<1>3. \A k \in 0..n : k \in good
  BY <1>1, <1>2, UpTo
<1> QED
  BY <1>3 DEF good

\* A line more is a put more.
LEMMA AppendedReplay ==
    ASSUME NEW lines \in Seq(Context), NEW c \in Context, NEW max \in Nat \ {0}
    PROVE  Replays(Append(lines, c), max) = Put(Replays(lines, max), c, max)
<1>0. PICK n \in Nat, more \in Seq(Context) : n = Len(lines) /\ more = Append(lines, c)
  <2>1. Len(lines) \in Nat /\ Append(lines, c) \in Seq(Context)
    OBVIOUS
  <2> QED
    BY <2>1, Zenon
<1>1. more \in Seq(Context) /\ Len(more) = n + 1 /\ more[n + 1] = c /\ n \in Nat /\ \A i \in 1..n : lines[i] = more[i]
  BY <1>0
<1>2. PICK f : ReplayFirst(f, lines, max, Len(lines)) /\ Replays(lines, max) = f[Len(lines)]
  BY ReplayExists
<1>3. PICK g : ReplayFirst(g, more, max, Len(more)) /\ Replays(more, max) = g[Len(more)]
  BY <1>1, ReplayExists
<1>4. f[n] = g[n]
  <2>1. n \in Nat /\ more \in Seq(Context) /\ SameLines(lines, more, n)
    BY <1>0, <1>1 DEF SameLines
  <2>2. ReplayFirst(f, lines, max, Len(lines)) /\ ReplayFirst(g, more, max, Len(more))
    BY <1>2, <1>3
  <2> QED
    BY <2>1, <2>2, SameReplay
<1>5. g[n + 1] = Put(g[n], c, max)
  <2>1. n + 1 \in 1..Len(more) /\ (n + 1) - 1 = n
    BY <1>1
  <2>2. g[n + 1] = Put(g[(n + 1) - 1], more[n + 1], max)
    BY <1>3, <2>1, Zenon DEF ReplayFirst
  <2> QED
    BY <1>1, <2>1, <2>2, Zenon
<1> QED
  BY <1>0, <1>1, <1>2, <1>3, <1>4, <1>5, Zenon

\* A compacted file replays to the memory it was written from.
LEMMA CompactedReplay ==
    ASSUME NEW mem, NEW max \in Nat \ {0}, RegistryOK(mem, max)
    PROVE  Replays(Compacted(mem), max) = mem
<1> PICK q \in Seq(Roots) : q = mem.order
  BY DEF RegistryOK
<1> PICK n : n = Len(q)
  OBVIOUS
<1> PICK lines : lines = Compacted(mem)
  OBVIOUS
<1>1. IsInjective(q) /\ n \in Nat /\ n <= max /\ Tracked(mem) = Range(q)
      /\ \A r \in Range(q) : mem.byId[r] \in Context /\ mem.byId[r].root = r
  BY TrackedIs DEF RegistryOK
<1>2. \A i \in 1..n : q[i] \in Range(q) /\ q[i] \in Roots
  BY DEF Range
<1>3. lines \in Seq(Context) /\ Len(lines) = n /\ \A i \in 1..n : lines[i] = mem.byId[q[i]] /\ lines[i].root = q[i]
  BY <1>1, <1>2 DEF Compacted
<1>4. PICK f : ReplayFirst(f, lines, max, Len(lines)) /\ Replays(lines, max) = f[Len(lines)]
  BY <1>3, ReplayExists
<1>5. \A k \in 0..n : RegistryOK(f[k], max)
  BY <1>3, <1>4, Zenon DEF ReplayFirst
<1> DEFINE done(k) == /\ Len(f[k].order) = k
                      /\ \A j \in 1..k : f[k].order[j] = q[j]
                      /\ \A j \in 1..k : f[k].byId[q[j]] = mem.byId[q[j]]
           good == {k \in 0..n : done(k)}
<1>6. 0 \in good
  <2>1. f[0] = NoMemory
    BY <1>4, Zenon DEF ReplayFirst
  <2>2. Len(f[0].order) = 0
    BY <2>1 DEF NoMemory
  <2> QED
    BY <1>1, <2>2
<1>7. ASSUME NEW k \in 0..n, k \in good, k < n PROVE k + 1 \in good
  <2>0. PICK old, new : old = f[k] /\ new = f[k + 1]
    OBVIOUS
  <2>1. k \in Nat /\ k + 1 \in 1..n /\ k + 1 \in 0..n /\ (k + 1) - 1 = k /\ RegistryOK(old, max) /\ k < max
    BY <1>1, <1>5, <1>7, <2>0
  <2>2. /\ Len(old.order) = k /\ \A j \in 1..k : old.order[j] = q[j]
        /\ \A j \in 1..k : old.byId[q[j]] = mem.byId[q[j]]
    BY <1>7, <2>0
  <2>3. new = Put(old, lines[k + 1], max)
    BY <1>3, <1>4, <2>0, <2>1, Zenon DEF ReplayFirst
  <2>4. Tracked(old) = Range(old.order) /\ old.order \in Seq(Roots)
    BY <2>1, TrackedIs DEF RegistryOK
  <2>5. q[k + 1] \notin Tracked(old)
    <3>1. ASSUME NEW j \in 1..Len(old.order), old.order[j] = q[k + 1] PROVE FALSE
      <4>1. j \in 1..k /\ q[j] = q[k + 1] /\ j # k + 1
        <5>1. j \in 1..k
          BY <2>2, <3>1, Zenon
        <5>2. q[j] = q[k + 1]
          BY <2>2, <3>1, <5>1, Zenon
        <5> QED
          BY <2>1, <5>1, <5>2
      <4>2. j \in DOMAIN q /\ k + 1 \in DOMAIN q
        BY <1>1, <2>1, <4>1
      <4> QED
        BY <1>1, <4>1, <4>2 DEF IsInjective
    <3>2. \A x \in Range(old.order) : \E j \in 1..Len(old.order) : old.order[j] = x
      BY <2>4 DEF Range
    <3> QED
      BY <2>4, <3>1, <3>2
  <2>6. lines[k + 1] \in Context /\ lines[k + 1].root = q[k + 1] /\ lines[k + 1] = mem.byId[q[k + 1]]
    BY <1>1, <1>2, <1>3, <2>1
  <2>7. /\ new.order = Append(old.order, q[k + 1]) /\ new.byId[q[k + 1]] = mem.byId[q[k + 1]]
        /\ Tracked(new) = Tracked(old) \cup {q[k + 1]}
        /\ \A r \in Tracked(new) \ {q[k + 1]} : new.byId[r] = old.byId[r]
    <3>0. PICK c \in Context : c = lines[k + 1]
      BY <2>6
    <3>1. c.root = q[k + 1] /\ c = mem.byId[q[k + 1]] /\ c.root \notin Tracked(old) /\ Len(old.order) < max
      BY <2>1, <2>2, <2>5, <2>6, <3>0
    <3>2. new = Put(old, c, max)
      BY <2>3, <3>0
    <3>3. /\ new.order = Append(old.order, c.root) /\ new.byId[c.root] = c
          /\ Tracked(new) = Tracked(old) \cup {c.root}
          /\ \A r \in Tracked(new) \ {c.root} : new.byId[r] = old.byId[r]
      <4>1. RegistryOK(old, max) /\ Len(old.order) < max /\ c.root \notin Tracked(old)
        BY <2>1, <3>1
      <4>2. /\ Put(old, c, max).order = Append(old.order, c.root) /\ Put(old, c, max).byId[c.root] = c
            /\ Tracked(Put(old, c, max)) = Tracked(old) \cup {c.root}
            /\ \A r \in Tracked(Put(old, c, max)) \ {c.root} : Put(old, c, max).byId[r] = old.byId[r]
        BY <4>1, PutOK
      <4> QED
        BY <3>2, <4>2, Zenon
    <3> QED
      BY <3>1, <3>3, Zenon
  <2>8. Len(new.order) = k + 1 /\ \A j \in 1..k : new.order[j] = q[j]
    BY <1>2, <2>1, <2>2, <2>4, <2>7
  <2>9. new.order[k + 1] = q[k + 1]
    BY <2>1, <2>2, <2>4, <2>7
  <2>10. ASSUME NEW j \in 1..k PROVE new.byId[q[j]] = mem.byId[q[j]]
    <3>1. j \in 1..Len(old.order) /\ old.order[j] = q[j]
      BY <2>2
    <3>2. q[j] \in Tracked(old)
      BY <2>4, <3>1 DEF Range
    <3> QED
      BY <2>2, <2>5, <2>7, <3>2
  <2>11. \A j \in 1..k + 1 : j \in 1..k \/ j = k + 1
    BY <2>1
  <2> QED
    BY <2>0, <2>1, <2>7, <2>8, <2>9, <2>10, <2>11
<1> HIDE DEF good
<1>8. \A k \in 0..n : k \in good
  BY <1>1, <1>6, <1>7, UpTo
<1>9. done(n)
  BY <1>1, <1>8 DEF good
<1>10. RegistryOK(f[n], max)
  BY <1>1, <1>5
<1>11. f[n].order = q
  BY <1>9, <1>10 DEF RegistryOK
<1>12. \A r \in Tracked(f[n]) : f[n].byId[r] = mem.byId[r]
  BY <1>9, <1>10, <1>11, TrackedIs DEF Range
<1>13. f[n] = mem
  BY <1>10, <1>11, <1>12, SameRegistry
<1> QED
  BY <1>3, <1>4, <1>13, Zenon

-----------------------------------------------------------------------------
\* The roots that threads were started for.
Begun(bn) == {bn[i].root : i \in 1..Len(bn)}

\* There are no more of them than threads.
LEMMA FewRoots ==
    ASSUME NEW bn \in Seq(Birth)
    PROVE  IsFiniteSet(Begun(bn)) /\ Cardinality(Begun(bn)) \in Nat /\ Cardinality(Begun(bn)) <= Len(bn)
<1> DEFINE f == [i \in 1..Len(bn) |-> bn[i].root]
<1>1. f \in Surjection(1..Len(bn), Begun(bn))
  BY DEF Surjection, Begun
<1>2. IsFiniteSet(1..Len(bn)) /\ Cardinality(1..Len(bn)) = Len(bn)
  <2>1. Len(bn) \in Nat
    OBVIOUS
  <2> QED
    BY <2>1, FS_Interval
<1> HIDE DEF f
<1>3. IsFiniteSet(Begun(bn)) /\ Cardinality(Begun(bn)) <= Cardinality(1..Len(bn))
  BY <1>1, <1>2, FS_Surjection
<1> QED
  BY <1>2, <1>3, FS_CardinalityType

\* While there is room for every root, a put evicts none.
LEMMA RoomForAll ==
    ASSUME NEW max \in Nat \ {0}, NEW mem, RegistryOK(mem, max), NEW c \in Context,
           NEW bn \in Seq(Birth), Len(bn) <= max, Tracked(mem) \subseteq Begun(bn), c.root \in Begun(bn)
    PROVE  Tracked(Put(mem, c, max)) = Tracked(mem) \cup {c.root}
<1> PICK q \in Seq(Roots) : q = mem.order
  BY DEF RegistryOK
<1> PICK R : R = Begun(bn)
  OBVIOUS
<1>1. Tracked(mem) = Range(q) /\ IsInjective(q) /\ Len(q) \in Nat
  BY TrackedIs DEF RegistryOK
<1>2. IsFiniteSet(R) /\ Cardinality(R) \in Nat /\ Cardinality(R) <= max
  BY FewRoots
<1>3. CASE c.root \in Tracked(mem)
  BY <1>3, PutOK
<1>4. CASE c.root \notin Tracked(mem)
  <2>1. IsFiniteSet(R \ {c.root}) /\ Cardinality(R \ {c.root}) = Cardinality(R) - 1
    BY <1>2, FS_RemoveElement, Zenon
  <2>2. q \in Injection(1..Len(q), R \ {c.root})
    <3>1. \A i \in 1..Len(q) : q[i] \in R \ {c.root}
      BY <1>1, <1>4 DEF Range
    <3>2. q \in [1..Len(q) -> R \ {c.root}]
      BY <3>1
    <3>3. \A i, j \in 1..Len(q) : q[i] = q[j] => i = j
      BY <1>1 DEF IsInjective
    <3> QED
      BY <3>2, <3>3 DEF Injection, IsInjective
  <2>3. Cardinality(1..Len(q)) = Len(q)
    BY <1>1, FS_Interval
  <2>4. Len(q) <= Cardinality(R) - 1
    BY <2>1, <2>2, <2>3, FS_Injection
  <2>5. Len(mem.order) < max
    BY <1>1, <1>2, <2>4
  <2> QED
    BY <1>4, <2>5, PutOK
<1> QED
  BY <1>3, <1>4

\* Then a replay has every root of the file.
LEMMA ReplayKeepsAll ==
    ASSUME NEW max \in Nat \ {0}, NEW lines \in Seq(Context), NEW bn \in Seq(Birth), Len(bn) <= max,
           \A i \in 1..Len(lines) : lines[i].root \in Begun(bn)
    PROVE  \A c \in Lasts(lines) : c.root \in Tracked(Replays(lines, max)) /\ Replays(lines, max).byId[c.root] = c
<1> PICK n : n = Len(lines)
  OBVIOUS
<1>1. PICK f : ReplayFirst(f, lines, max, Len(lines)) /\ Replays(lines, max) = f[Len(lines)]
  BY ReplayExists
<1>2. n \in Nat /\ \A k \in 0..n : RegistryOK(f[k], max)
  BY <1>1 DEF ReplayFirst
<1> DEFINE good == {k \in 0..n : /\ Tracked(f[k]) \subseteq Begun(bn)
                                 /\ \A i \in 1..k : lines[i].root \in Tracked(f[k])}
<1>3. 0 \in good
  BY <1>1, <1>2, EmptyMemory DEF ReplayFirst
<1>4. ASSUME NEW k \in 0..n, k \in good, k < n PROVE k + 1 \in good
  <2>1. k + 1 \in 1..n /\ k + 1 \in 0..n /\ (k + 1) - 1 = k /\ RegistryOK(f[k], max)
    BY <1>2, <1>4
  <2>2. f[k + 1] = Put(f[k], lines[k + 1], max)
    BY <1>1, <2>1, Zenon DEF ReplayFirst
  <2>3. lines[k + 1] \in Context /\ lines[k + 1].root \in Begun(bn)
    BY <2>1
  <2>4. Tracked(f[k + 1]) = Tracked(f[k]) \cup {lines[k + 1].root}
    BY <1>4, <2>1, <2>2, <2>3, RoomForAll
  <2>5. \A i \in 1..k + 1 : i \in 1..k \/ i = k + 1
    BY <2>1
  <2> QED
    BY <1>4, <2>1, <2>3, <2>4, <2>5
<1> HIDE DEF good
<1>5. \A k \in 0..n : k \in good
  BY <1>2, <1>3, <1>4, UpTo
<1>6. \A i \in 1..n : lines[i].root \in Tracked(f[n])
  BY <1>2, <1>5 DEF good
<1>7. ASSUME NEW c \in Lasts(lines) PROVE c.root \in Tracked(f[n]) /\ f[n].byId[c.root] = c
  <2>1. c.root \in Tracked(f[n])
    BY <1>6 DEF Lasts
  <2>2. f[n].byId[c.root] \in Lasts(lines)
    BY <1>1, <2>1, ReplayedLasts
  <2>3. f[n].byId[c.root].root = c.root
    BY <1>2, <2>1, TrackedIs
  <2> QED
    BY <2>1, <2>2, <2>3, OneLast
<1> QED
  BY <1>1, <1>7

\* Not past its TTL.
Lasting(c) == ~ clock - c.at > TTL

\* What the leader knows and what its file says agree: to the eviction queue as long as
\* nothing can have expired, and on what has not expired as long as nothing can have been
\* evicted.
Survives ==
    /\ clock <= TTL => memory[active] = Replays(file, scene.maxLive)
    /\ Len(born) <= scene.maxLive => \A c \in Lore : Lasting(c) => c \in Live /\ c \in Lasts(file)

\* How a step changes the leader's registry and its file.
Moved ==
    \/ memory'[active] \in {memory[active], expireLocked(memory[active])} /\ file' = file
    \/ \E c \in Context, mem \in {memory[active], expireLocked(memory[active])} :
          /\ Store(active, mem, c)
          /\ born' = born \/ \E root : born' = Born(root)

\* In the first TTL nothing expires.
LEMMA NothingExpires ==
    ASSUME Typed, clock <= TTL, NEW mem, NEW max \in Nat, RegistryOK(mem, max)
    PROVE  expireLocked(mem) = mem
<1>1. ASSUME NEW r \in Tracked(mem) PROVE ~ clock - mem.byId[r].at > TTL
  <2>1. mem.byId[r] \in Context
    BY TrackedIs
  <2>2. mem.byId[r].at \in Nat /\ clock \in Nat /\ TTL \in Nat
    BY <2>1, Bounds DEF Context, Typed
  <2> QED
    BY <2>2
<1> QED
  BY <1>1, Expired

\* The roots that are known have been started for.
LEMMA KnownRoots ==
    ASSUME Typed
    PROVE  /\ born \in Seq(Birth) /\ Tracked(memory[active]) \subseteq Begun(born)
           /\ \A i \in 1..Len(file) : file[i].root \in Begun(born)
<1>1. born \in Seq(Birth) /\ MemoryOK(memory[active], scene.maxLive, born, prs) /\ FileOK(file, born, prs)
  BY DEF Typed, ForgeTyped, RegistriesTyped, FileTyped
<1>2. ASSUME NEW c, ContextOK(c, born, prs) PROVE c.root \in Begun(born)
  BY <1>2 DEF ContextOK, Begun
<1>3. ASSUME NEW r \in Tracked(memory[active]) PROVE r \in Begun(born)
  BY <1>1, <1>2, <1>3, TrackedIs DEF MemoryOK
<1>4. ASSUME NEW i \in 1..Len(file) PROVE file[i].root \in Begun(born)
  BY <1>1, <1>2, <1>4 DEF FileOK
<1> QED
  BY <1>1, <1>3, <1>4

\* What a last line is.
LEMMA LastLines ==
    ASSUME Typed
    PROVE  /\ file \in Seq(Context) /\ scene.maxLive \in Nat \ {0}
           /\ RegistryOK(Replays(file, scene.maxLive), scene.maxLive)
           /\ \A r \in Tracked(Replays(file, scene.maxLive)) : Replays(file, scene.maxLive).byId[r] \in Lasts(file)
           /\ Len(born) <= scene.maxLive =>
                 \A c \in Lasts(file) : /\ c.root \in Tracked(Replays(file, scene.maxLive))
                                        /\ Replays(file, scene.maxLive).byId[c.root] = c
<1>1. FileOK(file, born, prs) /\ file \in Seq(Context) /\ scene.maxLive \in Nat \ {0}
  BY Bounds DEF Typed, FileTyped, FileOK
<1>2. RegistryOK(Replays(file, scene.maxLive), scene.maxLive)
  BY <1>1, ReplayMemory DEF MemoryOK
<1>3. \A r \in Tracked(Replays(file, scene.maxLive)) : Replays(file, scene.maxLive).byId[r] \in Lasts(file)
  BY <1>1, ReplayedLasts
<1>4. Len(born) <= scene.maxLive =>
          \A c \in Lasts(file) : /\ c.root \in Tracked(Replays(file, scene.maxLive))
                                 /\ Replays(file, scene.maxLive).byId[c.root] = c
  BY <1>1, KnownRoots, ReplayKeepsAll
<1> QED
  BY <1>1, <1>2, <1>3, <1>4

\* When they agree, a restart of the leader brings its threads back.
LEMMA SurvivesRestart ==
    ASSUME Orderly, Steady => Known /\ Survives
    PROVE  RestartKeepsThreads
<1> SUFFICES ASSUME Steady, Len(born) <= scene.maxLive \/ clock <= TTL
             PROVE  ThreadsSurvive
  BY DEF RestartKeepsThreads
<1>1. Typed /\ Known /\ Survives
  BY DEF Orderly
<1> PICK M : M = memory[active]
  OBVIOUS
<1> PICK K : K = Replays(file, scene.maxLive)
  OBVIOUS
<1>2. Replayed = expireLocked(K)
  BY ReplayIs DEF Replayed
<1>3. CASE clock <= TTL
  BY <1>1, <1>2, <1>3 DEF Survives, ThreadsSurvive
<1>4. CASE Len(born) <= scene.maxLive
  <2>1. /\ scene.maxLive \in Nat \ {0} /\ RegistryOK(M, scene.maxLive) /\ RegistryOK(K, scene.maxLive)
        /\ \A r \in Tracked(K) : K.byId[r] \in Lasts(file) /\ K.byId[r].root = r
        /\ \A c \in Lasts(file) : c.root \in Tracked(K) /\ K.byId[c.root] = c
        /\ \A r \in Tracked(M) : M.byId[r] \in Live /\ M.byId[r].root = r
        /\ \A c \in Live : c.root \in Tracked(M) /\ M.byId[c.root] = c
    BY <1>1, <1>4, LastLines, LoreOK, TrackedIs DEF Typed, RegistriesTyped, MemoryOK
  <2>2. \A c \in Live \cup Lasts(file) : Lasting(c) => c \in Live /\ c \in Lasts(file)
    BY <1>1, <1>4 DEF Survives, Lore
  <2> PICK N : N = expireLocked(M)
    OBVIOUS
  <2> PICK L : L = expireLocked(K)
    OBVIOUS
  <2>3. /\ Tracked(N) = {r \in Tracked(M) : Lasting(M.byId[r])} /\ \A r \in Tracked(N) : N.byId[r] = M.byId[r]
        /\ Tracked(L) = {r \in Tracked(K) : Lasting(K.byId[r])} /\ \A r \in Tracked(L) : L.byId[r] = K.byId[r]
        /\ RegistryOK(N, scene.maxLive) /\ RegistryOK(L, scene.maxLive)
    BY <2>1, Expired DEF Lasting
  <2>4. ASSUME NEW r \in Tracked(N) PROVE r \in Tracked(L) /\ L.byId[r] = N.byId[r]
    BY <2>1, <2>2, <2>3
  <2>5. ASSUME NEW r \in Tracked(L) PROVE r \in Tracked(N)
    BY <2>1, <2>2, <2>3
  <2>6. /\ N.byId \in [Tracked(N) -> Context] /\ L.byId \in [Tracked(L) -> Context]
    BY <2>3, TrackedIs DEF RegistryOK
  <2>7. N.byId = L.byId
    BY <2>4, <2>5, <2>6
  <2> QED
    BY <1>2, <2>7 DEF ThreadsSurvive
<1> QED
  BY <1>3, <1>4

\* An appended line is the last of its root, and leaves the last lines of the others.
LEMMA AppendKeepsLasts ==
    ASSUME NEW lines \in Seq(Context), NEW c \in Context
    PROVE  /\ c \in Lasts(Append(lines, c))
           /\ \A d \in Lasts(lines) : d.root # c.root => d \in Lasts(Append(lines, c))
<1> PICK n : n = Len(lines)
  OBVIOUS
<1> PICK more : more = Append(lines, c)
  OBVIOUS
<1>1. n \in Nat /\ Len(more) = n + 1 /\ more[n + 1] = c /\ \A i \in 1..n : more[i] = lines[i]
  OBVIOUS
<1>2. LastOf(more, n + 1, c.root, n + 1)
  BY <1>1 DEF LastOf
<1>3. n + 1 \in 1..n + 1
  BY <1>1
<1>4. c \in Lasts(more)
  BY <1>1, <1>2, <1>3 DEF Lasts
<1>5. ASSUME NEW d \in Lasts(lines), d.root # c.root PROVE d \in Lasts(more)
  <2>1. PICK j \in 1..n : LastOf(lines, n, lines[j].root, j) /\ d = lines[j]
    BY DEF Lasts
  <2>2. j \in 1..n + 1 /\ more[j] = d /\ \A i \in 1..n + 1 : i \in 1..n \/ i = n + 1
    BY <1>1, <2>1
  <2>3. LastOf(more, n + 1, d.root, j)
    BY <1>1, <1>5, <2>1, <2>2 DEF LastOf
  <2> QED
    BY <1>1, <2>2, <2>3 DEF Lasts
<1> QED
  BY <1>4, <1>5

\* Births are never taken back.
LEMMA MoreBirths ==
    ASSUME Typed, Typed', [Next]_vars
    PROVE  Len(born) <= Len(born')
<1>1. born' = born \/ (\E root : born' = Born(root)) \/ DOMAIN born' = DOMAIN born
  <2>1. ASSUME NEW w, NEW pc, NEW target, NEW heard, Land(w, pc, target, heard) PROVE DOMAIN born' = DOMAIN born
    BY <2>1, Zenon DEF Land
  <2>2. ASSUME NEW w \in Workers, Handler(w)
        PROVE  born' = born \/ (\E root : born' = Born(root)) \/ DOMAIN born' = DOMAIN born
    <3>1. ASSUME NEW root, NEW m, NEW key, HandleMention(w, root, m, key) PROVE born' = born \/ \E r : born' = Born(r)
      BY <3>1, Zenon DEF HandleMention
    <3>2. ASSUME NEW e, NEW noted, Allow(w, e) \/ Answer(w, e, noted) \/ Panic(w) PROVE born' = born
      BY <3>2, Zenon DEF Allow, Answer, Panic, ChatUnchanged
    <3>3. ASSUME LockRoot(w) \/ Enter(w) \/ Unlock(w) \/ Drop(w) PROVE born' = born
      BY <3>3, Zenon DEF LockRoot, Enter, Unlock, Drop
    <3>4. CASE IsOpen(w) \/ AppendToEntry(w) \/ CommentOnPR(w) \/ OpenPR(w)
      BY <2>1, <3>4, Zenon DEF IsOpen, AppendToEntry, CommentOnPR, OpenPR, NoLand
    <3>5. CASE WriteBack(w) \/ Count(w)
      BY <3>5, Zenon DEF WriteBack, Count
    <3> QED
      BY <2>2, <3>1, <3>2, <3>3, <3>4, <3>5, Zenon DEF Handler
  <2>3. ASSUME NEW root, NEW curated, Register(root, curated) PROVE born' = Born(root)
    BY <2>3, Zenon DEF Register
  <2>4. ASSUME NEW n, Close(n) PROVE born' = born
    BY <2>4, Zenon DEF Close
  <2>5. ASSUME Tick \/ Slide \/ ChatSlide \/ UNCHANGED vars PROVE born' = born
    BY <2>5, Zenon DEF Tick, Slide, ChatSlide, ChatUnchanged, vars
  <2>6. ASSUME NEW p, NEW tear, Restart(p, tear) PROVE DOMAIN born' = DOMAIN born
    BY <2>6 DEF Restart
  <2>7. ASSUME NEW p, Failover(p) PROVE born' = born
    BY <2>7, Zenon DEF Failover
  <2> QED
    BY <2>2, <2>3, <2>4, <2>5, <2>6, <2>7, Zenon DEF Next
<1>2. born \in Seq(Birth) /\ born' \in Seq(Birth)
  BY DEF Typed, ForgeTyped
<1>3. ASSUME NEW root, born' = Born(root) PROVE Len(born') = Len(born) + 1
  BY <1>2, <1>3 DEF Born
<1>4. ASSUME DOMAIN born' = DOMAIN born PROVE Len(born') = Len(born)
  BY <1>2, <1>4
<1> QED
  BY <1>1, <1>2, <1>3, <1>4

\* A context that goes to memory and file goes to both.
LEMMA StoreSurvives ==
    ASSUME Typed, Typed', Survives, Steady', ~ torn, NEW c \in Context,
           NEW mem \in {memory[active], expireLocked(memory[active])}, Store(active, mem, c),
           Len(born) <= Len(born'), born' = born \/ \E root : born' = Born(root),
           active' = active, scene' = scene, clock' = clock
    PROVE  Survives'
<1> PICK max : max = scene.maxLive
  OBVIOUS
<1> PICK M : M = memory[active]
  OBVIOUS
<1> PICK N : N = memory'[active]
  OBVIOUS
<1>1. max \in Nat \ {0} /\ RegistryOK(M, max) /\ file \in Seq(Context) /\ active \in DOMAIN memory
  BY Bounds DEF Typed, RegistriesTyped, MemoryOK, FileTyped, FileOK
<1>2. /\ RegistryOK(mem, max) /\ Tracked(mem) \subseteq Tracked(M) /\ \A r \in Tracked(mem) : mem.byId[r] = M.byId[r]
      /\ \A r \in Tracked(M) : Lasting(M.byId[r]) => r \in Tracked(mem)
  <2>1. CASE mem = M
    BY <1>1, <2>1
  <2>2. CASE mem = expireLocked(M)
    BY <1>1, <2>2, Expired DEF Lasting
  <2> QED
    BY <2>1, <2>2
<1>3. N = Put(mem, c, max) /\ file' = Append(file, c)
  <2>1. memory' = [memory EXCEPT ![active] = putLocked(mem, c)] /\ appendLocked(c)
    BY DEF Store
  <2>2. ~ Fault("append")
    BY FaultShows
  <2>3. file' = Append(file, c)
    BY <2>1, <2>2, Zenon DEF appendLocked
  <2>4. N = putLocked(mem, c)
    BY <1>1, <2>1, Zenon
  <2> QED
    BY <2>3, <2>4, PutIs, Zenon
<1>4. clock' <= TTL => memory'[active'] = Replays(file', scene'.maxLive)
  <2> SUFFICES ASSUME clock <= TTL PROVE N = Replays(Append(file, c), max)
    BY <1>3, Zenon
  <2>1. mem = M
    BY <1>1, NothingExpires
  <2>2. M = Replays(file, max)
    BY DEF Survives
  <2> QED
    BY <1>1, <1>3, <2>1, <2>2, AppendedReplay, Zenon
<1>5. ASSUME Len(born') <= max, NEW d \in Lore', Lasting(d) PROVE d \in Live' /\ d \in Lasts(file')
  <2>1. /\ RegistryOK(N, max) /\ c.root \in Tracked(N) /\ N.byId[c.root] = c
        /\ Tracked(N) \subseteq Tracked(mem) \cup {c.root}
        /\ \A r \in Tracked(N) \ {c.root} : N.byId[r] = mem.byId[r]
    BY <1>1, <1>2, <1>3, PutOK
  <2>2. Tracked(N) = Tracked(mem) \cup {c.root}
    <3>1. born' \in Seq(Birth) /\ ContextOK(N.byId[c.root], born', prs')
      BY <2>1 DEF Typed, ForgeTyped, RegistriesTyped, MemoryOK
    <3>2. c.root \in Begun(born')
      BY <2>1, <3>1 DEF ContextOK, Begun
    <3>3. Begun(born) \subseteq Begun(born')
      <4>1. born \in Seq(Birth) /\ Len(born') \in Nat /\ Len(born) \in Nat
        BY DEF Typed, ForgeTyped
      <4>2. \A i \in 1..Len(born) : i \in 1..Len(born') /\ born'[i] = born[i]
        <5>1. CASE born' = born
          BY <4>1, <5>1
        <5>2. ASSUME NEW root, born' = Born(root) PROVE \A i \in 1..Len(born) : i \in 1..Len(born') /\ born'[i] = born[i]
          BY <4>1, <5>2 DEF Born
        <5> QED
          BY <5>1, <5>2
      <4> QED
        BY <4>2 DEF Begun
    <3>4. Tracked(mem) \subseteq Begun(born')
      BY <1>2, <3>3, KnownRoots
    <3> QED
      BY <1>1, <1>2, <1>3, <1>5, <3>1, <3>2, <3>4, RoomForAll
  <2>3. Live' = {N.byId[r] : r \in Tracked(N)} /\ Lore' = Live' \cup Lasts(file')
    BY DEF Live, Lore
  <2>4. Lasts(file') \subseteq {e \in Lasts(file) : e.root # c.root} \cup {c}
    BY <1>1, <1>3, AppendedLasts
  <2>5. /\ c \in Lasts(file') /\ \A e \in Lasts(file) : e.root # c.root => e \in Lasts(file')
    BY <1>1, <1>3, AppendKeepsLasts
  <2>6. c \in Live'
    BY <2>1, <2>3
  <2>7. CASE d = c
    BY <2>5, <2>6, <2>7
  <2>8. CASE d # c
    <3>1. d \in Lore /\ d.root # c.root
      <4>1. CASE d \in Lasts(file')
        BY <2>4, <2>8, <4>1 DEF Lore
      <4>2. CASE d \in Live'
        <5>1. PICK r \in Tracked(N) : d = N.byId[r]
          BY <2>3, <4>2
        <5>2. r # c.root /\ r \in Tracked(M) /\ d = M.byId[r]
          BY <1>2, <2>1, <2>8, <5>1
        <5>3. d \in Live /\ d.root = r
          BY <5>2, LoreOK
        <5> QED
          BY <5>2, <5>3 DEF Lore
      <4> QED
        BY <2>3, <4>1, <4>2
    <3>2. Len(born) <= max
      BY <1>1, <1>5 DEF Typed, ForgeTyped
    <3>3. d \in Live /\ d \in Lasts(file)
      BY <1>5, <3>1, <3>2 DEF Survives
    <3>4. d.root \in Tracked(M) /\ M.byId[d.root] = d
      BY <3>3, LoreOK
    <3>5. d.root \in Tracked(N) /\ N.byId[d.root] = d
      BY <1>2, <1>5, <2>1, <2>2, <3>1, <3>4
    <3> QED
      BY <2>3, <2>5, <3>1, <3>3, <3>5
  <2> QED
    BY <2>7, <2>8
<1> QED
  BY <1>4, <1>5 DEF Survives, Lasting

\* Nothing to write, and perhaps what has expired to forget.
LEMMA KeepSurvives ==
    ASSUME Typed, Survives, memory'[active] \in {memory[active], expireLocked(memory[active])}, file' = file,
           Len(born) <= Len(born'), Len(born') \in Nat, active' = active, scene' = scene, clock' = clock
    PROVE  Survives'
<1> PICK max : max = scene.maxLive
  OBVIOUS
<1> PICK M : M = memory[active]
  OBVIOUS
<1> PICK N : N = memory'[active]
  OBVIOUS
<1>1. max \in Nat \ {0} /\ RegistryOK(M, max) /\ Len(born) \in Nat
  BY Bounds DEF Typed, RegistriesTyped, MemoryOK, ForgeTyped
<1>2. /\ Tracked(N) \subseteq Tracked(M) /\ \A r \in Tracked(N) : N.byId[r] = M.byId[r]
      /\ \A r \in Tracked(M) : Lasting(M.byId[r]) => r \in Tracked(N)
  <2>1. CASE N = M
    BY <2>1
  <2>2. CASE N = expireLocked(M)
    BY <1>1, <2>2, Expired DEF Lasting
  <2> QED
    BY <2>1, <2>2
<1>3. clock <= TTL => N = Replays(file, max)
  BY <1>1, NothingExpires DEF Survives
<1>4. ASSUME Len(born') <= max, NEW d \in Lore', Lasting(d) PROVE d \in Live' /\ d \in Lasts(file')
  <2>1. Live' = {N.byId[r] : r \in Tracked(N)} /\ Lore' = Live' \cup Lasts(file)
    BY DEF Live, Lore
  <2>2. Live = {M.byId[r] : r \in Tracked(M)} /\ Lore = Live \cup Lasts(file)
    BY DEF Live, Lore
  <2>3. d \in Lore
    BY <1>2, <2>1, <2>2
  <2>4. d \in Live /\ d \in Lasts(file)
    BY <1>1, <1>4, <2>3 DEF Survives
  <2>5. d.root \in Tracked(M) /\ M.byId[d.root] = d
    BY <2>4, LoreOK
  <2>6. d.root \in Tracked(N) /\ N.byId[d.root] = d
    BY <1>2, <1>4, <2>5
  <2> QED
    BY <2>1, <2>4, <2>6
<1> QED
  BY <1>3, <1>4 DEF Survives, Lasting

\* Time passes: what is fresh was.
LEMMA TickSurvives ==
    ASSUME Typed, Survives, Tick
    PROVE  Survives'
<1>1. /\ clock' = clock + 1 /\ memory' = memory /\ file' = file /\ born' = born /\ active' = active /\ scene' = scene
      /\ clock \in Nat /\ TTL \in Nat
  BY Bounds DEF Tick, Typed
<1>2. clock' <= TTL => clock <= TTL
  BY <1>1
<1>3. Live' = Live /\ Lore' = Lore
  BY <1>1 DEF Live, Lore
<1>4. ASSUME NEW c \in Lore, ~ clock' - c.at > TTL PROVE ~ clock - c.at > TTL
  <2>1. ContextOK(c, born, prs)
    BY LoreOK
  <2>2. c.at \in Nat
    BY <2>1 DEF ContextOK, Context
  <2> QED
    BY <1>1, <1>4, <2>2
<1> QED
  BY <1>1, <1>2, <1>3, <1>4 DEF Survives, Lasting

\* A process starts again: the leader's memory is what the file says, and a compacted file
\* says what it said.
LEMMA RestartSurvives ==
    ASSUME Typed, Survives, NEW p \in Processes, NEW tear \in BOOLEAN, Restart(p, tear)
    PROVE  Survives'
<1> PICK max : max = scene.maxLive
  OBVIOUS
<1> PICK M : M = memory[active]
  OBVIOUS
<1> PICK K : K = Replays(file, max)
  OBVIOUS
<1> PICK R : R = Replayed
  OBVIOUS
<1> PICK N : N = memory'[active]
  OBVIOUS
<1>1. /\ max \in Nat \ {0} /\ RegistryOK(M, max) /\ RegistryOK(K, max) /\ file \in Seq(Context) /\ active \in DOMAIN memory
      /\ \A r \in Tracked(K) : K.byId[r] \in Lasts(file)
      /\ Len(born) <= max => \A c \in Lasts(file) : c.root \in Tracked(K) /\ K.byId[c.root] = c
  BY LastLines DEF Typed, RegistriesTyped, MemoryOK
<1>2. /\ clock' = clock /\ scene' = scene /\ active' = active /\ memory' = [memory EXCEPT ![p] = R]
      /\ file' = Compacted(R) \/ file' = file
  BY Zenon DEF Restart
<1>3. Len(born') = Len(born)
  BY RestartTyped DEF BirthsSurvive
<1>4. N = R \/ N = M
  BY <1>1, <1>2
<1>5. R = expireLocked(K)
  BY ReplayIs DEF Replayed
<1>6. /\ RegistryOK(R, max) /\ Tracked(R) = {r \in Tracked(K) : Lasting(K.byId[r])}
      /\ \A r \in Tracked(R) : R.byId[r] = K.byId[r]
  BY <1>1, <1>5, Expired DEF Lasting
<1>7. ASSUME clock <= TTL PROVE N = Replays(file', max)
  <2>1. R = K
    BY <1>1, <1>5, <1>7, NothingExpires
  <2>2. M = K
    BY <1>7 DEF Survives
  <2>3. Replays(Compacted(R), max) = K
    BY <1>1, <2>1, CompactedReplay
  <2> QED
    BY <1>2, <1>4, <2>1, <2>2, <2>3
<1>8. ASSUME Len(born) <= max, NEW d \in Lore', Lasting(d) PROVE d \in Live' /\ d \in Lasts(file')
  <2>1. Live' = {N.byId[r] : r \in Tracked(N)} /\ Lore' = Live' \cup Lasts(file')
    BY <1>2 DEF Live, Lore
  <2>2. Live = {M.byId[r] : r \in Tracked(M)} /\ Lore = Live \cup Lasts(file)
    BY DEF Live, Lore
  <2>3. {R.byId[r] : r \in Tracked(R)} \subseteq Lasts(file)
    BY <1>1, <1>6
  <2>4. Lasts(Compacted(R)) \subseteq {R.byId[r] : r \in Tracked(R)}
    BY <1>6, CompactedLasts
  <2>5. d \in Lore
    <3>1. Lasts(file') \subseteq Lasts(file)
      BY <1>2, <2>3, <2>4
    <3>2. {N.byId[r] : r \in Tracked(N)} \subseteq Lore
      BY <1>4, <2>2, <2>3
    <3> QED
      BY <2>1, <2>2, <3>1, <3>2
  <2>6. d \in Live /\ d \in Lasts(file)
    BY <1>8, <2>5 DEF Survives
  <2>7. d.root \in Tracked(M) /\ M.byId[d.root] = d
    BY <2>6, LoreOK
  <2>8. d.root \in Tracked(R) /\ R.byId[d.root] = d
    BY <1>1, <1>6, <1>8, <2>6
  <2>9. d \in Live'
    BY <1>4, <2>1, <2>7, <2>8
  <2>10. d \in Lasts(Compacted(R))
    <3>1. Compacted(R) \in Seq(Context)
      <4>1. MemoryOK(R, max, born, prs)
        BY <1>1, <1>5, ReplayMemory, ExpiredMemory DEF Typed, FileTyped
      <4> QED
        BY <4>1, CompactedFile DEF FileOK
    <3>2. Replays(Compacted(R), max) = R
      BY <1>1, <1>6, CompactedReplay
    <3>3. R.byId[d.root] \in Lasts(Compacted(R))
      BY <1>1, <2>8, <3>1, <3>2, ReplayedLasts
    <3> QED
      BY <2>8, <3>3
  <2> QED
    BY <1>2, <2>6, <2>9, <2>10
<1> QED
  BY <1>2, <1>3, <1>7, <1>8 DEF Survives, Lasting

\* Every other step leaves the leader's registry and its file, forgets what has expired, or
\* stores a context in both.
LEMMA NextMoved ==
    ASSUME Orderly, AllLead, Steady', [Next]_vars, ~ Tick, ~ \E p \in Processes, tear \in BOOLEAN : Restart(p, tear)
    PROVE  Moved /\ active' = active /\ scene' = scene /\ clock' = clock
<1>1. Typed /\ active \in DOMAIN memory /\ scene.roots \subseteq Roots
  BY Bounds DEF Orderly, Typed, RegistriesTyped
<1>2. ASSUME NEW root \in Roots, NEW url \in Nat PROVE NewContext(root, url) \in Context
  BY <1>1, <1>2 DEF Typed, ForgeTyped, NewContext, Context, NoPR
<1>3. ASSUME UNCHANGED <<memory, file>> PROVE Moved
  BY <1>3 DEF Moved
<1>4. ASSUME memory' = [memory EXCEPT ![active] = expireLocked(memory[active])], file' = file PROVE Moved
  BY <1>1, <1>4 DEF Moved
<1>5. ASSUME NEW root \in scene.roots, NEW c \in BOOLEAN, Register(root, c)
      PROVE  Moved /\ active' = active /\ scene' = scene /\ clock' = clock
  <2>1. active' = active /\ scene' = scene /\ clock' = clock
    BY <1>5, Zenon DEF Register
  <2>2. root \in Roots
    BY <1>1
  <2>3. PICK url \in 0..Len(prs') : Store(active, memory[active], NewContext(root, url))
    BY <1>1, <1>5, <2>2, RegisterTyped
  <2>4. born' = Born(root)
    BY <1>1, <1>5, <2>2, RegisterTyped
  <2>5. NewContext(root, url) \in Context
    BY <1>2, <2>2
  <2> QED
    BY <2>1, <2>3, <2>4, <2>5, Zenon DEF Moved
<1>6. ASSUME NEW w \in Workers, Handler(w)
      PROVE  Moved /\ active' = active /\ scene' = scene /\ clock' = clock
  <2>1. active' = active /\ scene' = scene /\ clock' = clock
    <3>1. ASSUME NEW root, NEW m, NEW key, HandleMention(w, root, m, key)
          PROVE  active' = active /\ scene' = scene /\ clock' = clock
      BY <3>1, Zenon DEF HandleMention
    <3>2. ASSUME NEW e, NEW noted, Allow(w, e) \/ Answer(w, e, noted) \/ Panic(w)
          PROVE  active' = active /\ scene' = scene /\ clock' = clock
      BY <3>2, Zenon DEF Allow, Answer, Panic, ChatUnchanged
    <3>3. ASSUME LockRoot(w) \/ Enter(w) \/ Unlock(w) \/ Drop(w)
          PROVE  active' = active /\ scene' = scene /\ clock' = clock
      BY <3>3, Zenon DEF LockRoot, Enter, Unlock, Drop
    <3>4. ASSUME IsOpen(w) \/ AppendToEntry(w) \/ CommentOnPR(w) \/ OpenPR(w)
          PROVE  active' = active /\ scene' = scene /\ clock' = clock
      BY <3>4, Zenon DEF IsOpen, AppendToEntry, CommentOnPR, OpenPR
    <3>5. ASSUME WriteBack(w) \/ Count(w)
          PROVE  active' = active /\ scene' = scene /\ clock' = clock
      BY <3>5, Zenon DEF WriteBack, Count
    <3> QED
      BY <1>6, <3>1, <3>2, <3>3, <3>4, <3>5, Zenon DEF Handler
  <2>2. Moved
    <3>1. ASSUME NEW root \in scene.roots, NEW m \in scene.messages, NEW key \in Keys, HandleMention(w, root, m, key)
          PROVE  Moved
      <4> DEFINE mem == expireLocked(memory[active])
      <4>1. CASE memory' = [memory EXCEPT ![active] = mem] /\ file' = file
        BY <1>4, <4>1
      <4>2. CASE Store(active, mem, NewContext(root, NoPR)) /\ born' = Born(root)
        BY <1>1, <1>2, <4>2 DEF NoPR, Moved
      <4> HIDE DEF mem
      <4> QED
        BY <1>1, <3>1, <4>1, <4>2, MentionTurns DEF mem
    <3>2. ASSUME NEW e, NEW noted, Allow(w, e) \/ Answer(w, e, noted) \/ Panic(w)
          PROVE  Moved
      BY <1>3, <3>2, Zenon DEF Allow, Answer, Panic, ChatUnchanged
    <3>3. ASSUME LockRoot(w) \/ Unlock(w) \/ Drop(w)
          PROVE  Moved
      BY <1>3, <3>3, Zenon DEF LockRoot, Unlock, Drop
    <3>4. ASSUME Enter(w)
          PROVE  Moved
      <4>1. work[w].at = active
        BY <3>4 DEF Enter, AllLead
      <4>2. \/ UNCHANGED <<memory, file>>
            \/ memory' = [memory EXCEPT ![active] = expireLocked(memory[active])] /\ file' = file
        BY <3>4, <4>1, Zenon DEF Enter
      <4> QED
        BY <1>3, <1>4, <4>2, SMTT(20)
    <3>5. ASSUME IsOpen(w) \/ AppendToEntry(w) \/ CommentOnPR(w) \/ OpenPR(w)
          PROVE  Moved
      BY <1>3, <3>5, Zenon DEF IsOpen, AppendToEntry, CommentOnPR, OpenPR
    <3>6. ASSUME WriteBack(w) \/ Count(w)
          PROVE  Moved
      <4>1. work[w].at = active
        BY <3>6, Zenon DEF WriteBack, Count, AllLead
      <4>2. work[w].pc = "writeBack" => work[w].target # NoPR
        BY DEF Orderly, TargetsOK, TargetFits
      <4>3. CASE \E c \in Context : Store(active, memory[active], c) /\ born' = born
        BY <4>3, Zenon DEF Moved
      <4>4. CASE NoStore
        BY <1>3, <4>4 DEF NoStore
      <4>5. CASE WriteBack(w)
        <5>1. work[w].target # NoPR
          BY <4>2, <4>5, Zenon DEF WriteBack
        <5> QED
          BY <1>1, <4>1, <4>3, <4>4, <4>5, <5>1, WriteBackTurns, SMTT(20)
      <4>6. CASE Count(w)
        BY <1>1, <4>1, <4>3, <4>4, <4>6, CountTurns
      <4> QED
        BY <3>6, <4>5, <4>6, SMTT(20)
    <3> QED
      BY <1>6, <3>1, <3>2, <3>3, <3>4, <3>5, <3>6, Zenon DEF Handler
  <2> QED
    BY <2>1, <2>2
<1>7. ASSUME (\E n \in DOMAIN prs : Close(n)) \/ Slide \/ ChatSlide \/ UNCHANGED vars
      PROVE  Moved /\ active' = active /\ scene' = scene /\ clock' = clock
  BY <1>3, <1>7 DEF Close, Slide, ChatSlide, ChatUnchanged, vars
<1>8. ASSUME NEW p \in Processes, Failover(p) PROVE FALSE
  BY <1>1, <1>8, FaultShows DEF Failover
<1> QED
  BY <1>5, <1>6, <1>7, <1>8, Zenon DEF Next

\* So every step keeps them in agreement.
LEMMA NextSurvives ==
    ASSUME Orderly, reserved \in Nat, Steady => Known /\ Survives, [Next]_vars
    PROVE  (Steady => Survives)'
<1> SUFFICES ASSUME Steady'
             PROVE  Survives'
  OBVIOUS
<1>1. Typed /\ Typed'
  BY NextOrderly DEF Orderly
<1>2. Known /\ Survives /\ ~ torn /\ AllLead
  BY <1>1, SteadyBefore DEF Known
<1>3. CASE Tick
  BY <1>1, <1>2, <1>3, TickSurvives
<1>4. CASE \E p \in Processes, tear \in BOOLEAN : Restart(p, tear)
  BY <1>1, <1>2, <1>4, RestartSurvives
<1>5. CASE ~ Tick /\ ~ \E p \in Processes, tear \in BOOLEAN : Restart(p, tear)
  <2>1. Moved /\ active' = active /\ scene' = scene /\ clock' = clock
    BY <1>2, <1>5, NextMoved
  <2>2. Len(born) <= Len(born')
    BY <1>1, MoreBirths
  <2>3. Len(born') \in Nat
    BY <1>1 DEF Typed, ForgeTyped
  <2>4. CASE memory'[active] \in {memory[active], expireLocked(memory[active])} /\ file' = file
    BY <1>1, <1>2, <2>1, <2>2, <2>3, <2>4, KeepSurvives, Zenon
  <2>5. ASSUME NEW c \in Context, NEW mem \in {memory[active], expireLocked(memory[active])},
               Store(active, mem, c), born' = born \/ \E root : born' = Born(root)
        PROVE  Survives'
    BY <1>1, <1>2, <2>1, <2>2, <2>5, StoreSurvives, Zenon
  <2> QED
    BY <2>1, <2>4, <2>5, Zenon DEF Moved
<1> QED
  BY <1>3, <1>4, <1>5

\* At first there is nothing to agree on.
LEMMA InitSurvives ==
    ASSUME Init
    PROVE  Survives
<1>1. memory[active] = NoMemory /\ file = <<>>
  BY DEF Init
<1>2. Typed /\ scene.maxLive \in Nat \ {0}
  BY InitTyped, Bounds DEF Typed
<1>3. Replays(<<>>, scene.maxLive) = NoMemory
  <2>1. PICK f : ReplayFirst(f, <<>>, scene.maxLive, Len(<<>>)) /\ Replays(<<>>, scene.maxLive) = f[Len(<<>>)]
    <3>1. <<>> \in Seq(Context)
      OBVIOUS
    <3> QED
      BY <1>2, <3>1, ReplayExists, Zenon
  <2>2. Len(<<>>) = 0
    OBVIOUS
  <2> QED
    BY <2>1, <2>2 DEF ReplayFirst
<1>4. Lore = {}
  BY <1>1 DEF Tracked, NoMemory, Lore, Live, Lasts
<1> QED
  BY <1>1, <1>3, <1>4 DEF Survives

\* A restart forgets no thread, no count and no pull request, while every append succeeds
\* and the Lease stays, unless threads have been both evicted and expired (registry.go:48-52).
THEOREM RestartsKeepThreads == Spec => []RestartKeepsThreads
<1>1. Init => Orderly /\ reserved \in Nat /\ (Steady => Known /\ Survives)
  BY InitOrderly, InitKnown, InitSurvives
<1>2. Orderly /\ reserved \in Nat /\ (Steady => Known /\ Survives) /\ [Next]_vars =>
          (Orderly /\ reserved \in Nat /\ (Steady => Known /\ Survives))'
  BY NextOrderly, ReservedCounts, NextKnown, NextSurvives
<1>3. Orderly /\ (Steady => Known /\ Survives) => RestartKeepsThreads
  BY SurvivesRestart
<1> QED
  BY <1>1, <1>2, <1>3, PTL DEF Spec
=============================================================================
