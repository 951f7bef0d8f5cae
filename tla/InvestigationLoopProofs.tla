---------------------- MODULE InvestigationLoopProofs ----------------------
(***************************************************************************)
(* Proofs about InvestigationLoop, for every set of calls, every ceiling   *)
(* and any provider: the history pairs calls and results, one request at   *)
(* most is conceded to the ceilings, a firing completes once, and the gate *)
(* is quiet only about what was answered.                                  *)
(***************************************************************************)
EXTENDS InvestigationLoop, FiniteSetTheorems, SequenceTheorems, WellFoundedInduction, TLAPS

-----------------------------------------------------------------------------
(* The types.                                                              *)

Called == Calls \cup {Submit, Malformed}

Message == [role : {"user", "assistant", "tool"}, calls : Seq(Called), of : Nat \X Nat, call : Called,
            size : Nat]

History == Seq(Message)

TriggerRec == [count : Nat, last : Nat, concluded : BOOLEAN, downAt : Nat, silencedAt : Nat,
               silencedUntil : Nat]

Decisions == {"silenced", "off", "first_look", "lapsed", "no_answer", "contested", "suppressed"}

FiringRec == [decision : Decisions, critical : BOOLEAN, end : {"running", "nil", "error", "crash"}]

CompletionRec == [firing : Nat, at : Nat, conclusive : BOOLEAN, told : {"no", "yes", "failed"}]

InLoop == {"recall", "budget", "request", "verify"}

Results == {"recall", "timeout", "refused", "inconclusive", "max_steps", "max_steps_degraded", "resolved",
            "budget_exceeded"}

RunRec == [pc : InLoop \cup {"idle", "complete", "open", "failed"}, step : Nat, messages : History,
           toolChoice : {"auto", Submit}, budgetStop : {"none", "tokens_request", "tokens_total", "cost"},
           nudged : BOOLEAN, truncationNudged : BOOLEAN, forcedFinal : BOOLEAN, spent : Nat,
           ratio : Nat, expired : BOOLEAN,
           result : Results \cup {"none"}, conclusive : BOOLEAN, conceded : Nat, opens : Nat]

TypeOK ==
    /\ scene \in Scenes
    /\ now \in Nat \ {0}
    /\ trigger \in TriggerRec
    /\ firings \in Seq(FiringRec)
    /\ run \in RunRec
    /\ completions \in Seq(CompletionRec)
    /\ attempts \in Nat

-----------------------------------------------------------------------------
(* The inductive invariant.                                                *)

\* HistoryPaired of one history.
Paired(ms) ==
    /\ \A i \in DOMAIN ms : \A k \in DOMAIN ms[i].calls :
          i + k \in DOMAIN ms /\ ms[i + k].of = <<i, k>> /\ ms[i + k].call = ms[i].calls[k]
    /\ \A j \in ToolPositions(ms) :
          ms[j].of[1] \in DOMAIN ms /\ ms[j].of[2] \in DOMAIN ms[ms[j].of[1]].calls
          /\ j = ms[j].of[1] + ms[j].of[2]

\* A request that crosses a ceiling is the one the ladder nudged for, and the first.
Conceding(r) ==
    /\ r.conceded <= 1
    /\ r.conceded = 1 /\ r.pc \in InLoop => r.budgetStop # "none"
    /\ r.pc = "request" /\ Crosses(r) => r.conceded = 0 /\ r.budgetStop # "none"

RunOK(r) == r \in RunRec /\ Paired(r.messages) /\ Conceding(r)

\* What a firing's end says of the run, and the run of the firing.
FiringsOK ==
    /\ run.pc \in InLoop \cup {"complete", "open"} =>
          firings # <<>> /\ Last(firings).end = "running" /\ ~suppressed(Last(firings).decision)
    /\ run.pc = "failed" => firings # <<>>
    /\ \A i \in DOMAIN firings : firings[i].end = "running" => i = Len(firings) /\ run.pc \notin {"idle", "failed"}

\* A completion belongs to one firing, which is over, or at its delivery.
CompletionsOK ==
    /\ \A j \in DOMAIN completions : completions[j].firing \in DOMAIN firings
    /\ \A i, j \in DOMAIN completions : completions[i].firing = completions[j].firing => i = j
    /\ \A j \in DOMAIN completions :
          LET f == firings[completions[j].firing]
          IN f.end # "error" /\ ~suppressed(f.decision) /\ (f.end = "running" => run.pc = "open")
    /\ \A i \in DOMAIN firings : firings[i].end = "nil" /\ ~suppressed(firings[i].decision) =>
          \E j \in DOMAIN completions : completions[j].firing = i /\ completions[j].told # "no"
    /\ run.pc = "open" => completions # <<>> /\ Last(completions).firing = Len(firings)
    /\ trigger.count + (IF run.pc = "open" /\ run.opens = 0 THEN 1 ELSE 0) <= Len(completions)

\* What the ledger says of the trigger comes from a completion, or from a human.
TriggerOK ==
    /\ trigger.concluded => \E i \in DOMAIN completions : completions[i].conclusive
    /\ run.pc = "open" => completions # <<>> /\ Last(completions).conclusive = run.conclusive
    /\ trigger.count > 0 => \E i \in DOMAIN completions : completions[i].at = trigger.last
    /\ trigger.silencedAt = 0 => trigger.silencedUntil = 0

IInv == TypeOK /\ RunOK(run) /\ FiringsOK /\ CompletionsOK /\ TriggerOK

-----------------------------------------------------------------------------
(* What a history weighs.                                                  *)

\* A set of numbers that is not empty has a least one.
LEMMA NatMin ==
    ASSUME NEW S, S \subseteq Nat, S # {}
    PROVE  \E x \in S : \A y \in S : x <= y
<1> DEFINE below == {1..x : x \in S}
<1>1. below \subseteq FiniteSubsetsOf(Nat) /\ below # {}
  <2>1. ASSUME NEW x \in S PROVE 1..x \in SUBSET Nat /\ IsFiniteSet(1..x)
    <3>1. 1 \in Int /\ x \in Int
      OBVIOUS
    <3>2. QED  BY <3>1, FS_Interval
  <2>2. QED  BY <2>1 DEF FiniteSubsetsOf
<1>2. \E u \in below : \A v \in below : <<v, u>> \notin StrictSubsetOrdering(Nat)
  <2> HIDE DEF below
  <2> QED  BY <1>1, FS_StrictSubsetOrderingWellFounded, WFMin, Zenon
<1>3. PICK x \in S : \A v \in below : <<v, 1..x>> \notin StrictSubsetOrdering(Nat)
  BY <1>2
<1>4. ASSUME NEW y \in S PROVE x <= y
  <2>1. x \in Nat /\ y \in Nat
    OBVIOUS
  <2>2. SUFFICES ASSUME y < x PROVE FALSE
    BY <2>1
  <2>3. 1..y \subseteq 1..x /\ x \in 1..x /\ x \notin 1..y
    BY <2>1, <2>2
  <2>4. <<1..y, 1..x>> \in StrictSubsetOrdering(Nat)
    BY <2>3 DEF StrictSubsetOrdering
  <2>5. QED  BY <1>3, <2>4
<1>5. QED  BY <1>4

\* What holds for zero and passes from a number to the next holds up to n.
LEMMA UpTo ==
    ASSUME NEW n \in Nat, NEW good, 0 \in good, \A k \in 0..n : k \in good /\ k < n => k + 1 \in good
    PROVE  \A k \in 0..n : k \in good
<1> DEFINE bad == {k \in 0..n : k \notin good}
<1>1. SUFFICES ASSUME bad # {} PROVE FALSE
  OBVIOUS
<1>0. bad \subseteq Nat
  OBVIOUS
<1>2. PICK k \in bad : \A j \in bad : k <= j
  <2> HIDE DEF bad
  <2> QED  BY <1>0, <1>1, NatMin
<1>3. k \in 0..n /\ k # 0 /\ k - 1 \in 0..n /\ k - 1 \notin bad
  BY <1>2
<1>4. k - 1 \in good /\ k - 1 < n
  BY <1>3
<1>5. QED  BY <1>2, <1>3, <1>4

\* Max of a set of numbers up to n.
LEMMA MaxIn ==
    ASSUME NEW n \in Nat, NEW S, S \subseteq 1..n, S # {}
    PROVE  Max(S) \in S /\ \A y \in S : y <= Max(S)
<1> DEFINE bounds == {k \in 0..n : \A y \in S : y <= k}
<1>1. bounds \subseteq Nat /\ n \in bounds
  OBVIOUS
<1>2. PICK k \in bounds : \A j \in bounds : k <= j
  BY <1>1, NatMin
<1>3. k \in S
  <2>1. SUFFICES ASSUME k \notin S PROVE FALSE
    OBVIOUS
  <2>2. k \in Nat /\ \A y \in S : y \in Nat /\ y >= 1 /\ y <= k /\ y # k
    BY <2>1
  <2>3. k - 1 \in bounds
    <3>1. PICK y \in S : TRUE
      OBVIOUS
    <3>2. k - 1 \in 0..n
      BY <2>2, <3>1
    <3>3. \A z \in S : z <= k - 1
      BY <2>2
    <3>4. QED  BY <3>2, <3>3
  <2>4. QED  BY <1>2, <2>2, <2>3
<1>4. \E x \in S : \A y \in S : x >= y
  BY <1>3
<1>5. Max(S) \in S /\ \A y \in S : Max(S) >= y
  BY <1>4 DEF Max
<1>6. QED  BY <1>5

\* The fold's table: what every set of positions weighs.
Sums(f, ms) ==
    f = [s \in SUBSET DOMAIN ms |-> IF s = {} THEN 0 ELSE f[s \ {Max(s)}] + ms[Max(s)].size]

\* The table exists: what weighs a set is determined by what weighs smaller ones.
LEMMA SumsExist ==
    ASSUME NEW ms \in History
    PROVE  \E f : Sums(f, ms)
<1> DEFINE n == Len(ms)
           Right(g, s) == g[s] = IF s = {} THEN 0 ELSE g[s \ {Max(s)}] + ms[Max(s)].size
           P(k) == \E g : /\ g = [s \in SUBSET (1..n) |-> g[s]]
                          /\ \A s \in SUBSET (1..k) : Right(g, s)
           good == {k \in 0..n : P(k)}
<1>1. n \in Nat /\ DOMAIN ms = 1..n
  BY DEF History
<1>2. P(0)
  <2>1. PICK g : g = [s \in SUBSET (1..n) |-> 0]
    OBVIOUS
  <2>2. 1..0 = {} /\ {} \in SUBSET (1..n)
    OBVIOUS
  <2>3. g[{}] = 0 /\ SUBSET (1..0) = {{}} /\ g = [s \in SUBSET (1..n) |-> g[s]]
    BY <2>1, <2>2
  <2>4. \A s \in SUBSET (1..0) : Right(g, s)
    BY <2>3
  <2>5. QED  BY <2>3, <2>4
<1>3. ASSUME NEW k \in 0..n, P(k), k < n PROVE P(k + 1)
  <2>1. PICK g : /\ g = [s \in SUBSET (1..n) |-> g[s]]
                 /\ \A s \in SUBSET (1..k) : Right(g, s)
    BY <1>3
  <2>2. PICK h : h = [s \in SUBSET (1..n) |-> IF k + 1 \in s THEN g[s \ {k + 1}] + ms[k + 1].size ELSE g[s]]
    OBVIOUS
  <2>3. k \in Nat /\ k + 1 \in Nat /\ k + 1 <= n /\ k + 1 \notin 1..k /\ 1..(k + 1) = 1..k \cup {k + 1}
        /\ 1..(k + 1) \subseteq 1..n
    BY <1>1, <1>3
  <2>4. ASSUME NEW s \in SUBSET (1..(k + 1)) PROVE Right(h, s)
    <3>0. s \in SUBSET (1..n)
      BY <2>3
    <3>1. CASE k + 1 \notin s
      <4>1. s \in SUBSET (1..k) /\ s \ {Max(s)} \in SUBSET (1..n) /\ k + 1 \notin s \ {Max(s)}
        BY <2>3, <3>0, <3>1
      <4>2. h[s] = g[s] /\ h[s \ {Max(s)}] = g[s \ {Max(s)}]
        BY <2>2, <3>0, <3>1, <4>1
      <4>3. Right(g, s)
        BY <2>1, <4>1
      <4>4. QED  BY <4>2, <4>3
    <3>2. CASE k + 1 \in s
      <4>1. Max(s) = k + 1
        <5>1. Max(s) \in s /\ \A y \in s : y <= Max(s)
          BY <1>1, <3>0, <3>2, MaxIn
        <5>2. \A y \in s : y \in Nat /\ y <= k + 1
          BY <2>3
        <5>3. PICK m : m = Max(s)
          OBVIOUS
        <5>4. m \in Nat /\ m <= k + 1 /\ k + 1 <= m
          BY <3>2, <5>1, <5>2, <5>3
        <5>5. QED  BY <2>3, <5>3, <5>4
      <4>2. s \ {k + 1} \in SUBSET (1..n) /\ k + 1 \notin s \ {k + 1} /\ s # {}
        BY <3>0, <3>2
      <4>3. h[s] = g[s \ {k + 1}] + ms[k + 1].size /\ h[s \ {k + 1}] = g[s \ {k + 1}]
        BY <2>2, <3>0, <3>2, <4>2
      <4>4. QED  BY <4>1, <4>2, <4>3
    <3>3. QED  BY <3>1, <3>2
  <2>5. h = [s \in SUBSET (1..n) |-> h[s]]
    BY <2>2
  <2>6. QED  BY <2>4, <2>5
<1>4. \A k \in 0..n : k \in good
  <2>1. 0 \in good /\ \A k \in 0..n : k \in good /\ k < n => k + 1 \in good
    <3> HIDE DEF P
    <3>1. 0 \in 0..n /\ \A k \in 0..n : k < n => k + 1 \in 0..n
      BY <1>1
    <3>2. QED  BY <1>2, <1>3, <3>1
  <2> HIDE DEF good
  <2>2. QED  BY <1>1, <2>1, UpTo
<1>5. P(n)
  <2>1. n \in 0..n
    BY <1>1
  <2>2. n \in good
    <3> HIDE DEF good
    <3> QED  BY <1>4, <2>1
  <2> HIDE DEF P
  <2>3. QED  BY <2>2
<1>6. PICK g : /\ g = [s \in SUBSET (1..n) |-> g[s]]
               /\ \A s \in SUBSET (1..n) : Right(g, s)
  BY <1>5
<1>7. [s \in SUBSET (1..n) |-> g[s]] =
          [s \in SUBSET (1..n) |-> IF s = {} THEN 0 ELSE g[s \ {Max(s)}] + ms[Max(s)].size]
  BY <1>6
<1>8. QED  BY <1>1, <1>6, <1>7 DEF Sums

\* What a history is made of.
LEMMA HistoryFacts ==
    ASSUME NEW ms \in History
    PROVE  /\ Len(ms) \in Nat /\ DOMAIN ms = 1..Len(ms)
           /\ \A k \in 1..Len(ms) : ms[k] \in Message /\ ms[k].size \in Nat
<1>1. ms \in Seq(Message)
  BY DEF History
<1>2. Len(ms) \in Nat /\ DOMAIN ms = 1..Len(ms) /\ \A k \in 1..Len(ms) : ms[k] \in Message
  BY <1>1
<1>3. \A m \in Message : m.size \in Nat
  BY DEF Message
<1>4. QED  BY <1>2, <1>3

\* The estimate is the last of the partial sums.
LEMMA Totals ==
    ASSUME NEW ms \in History
    PROVE  \E t \in [0..Len(ms) -> Nat] :
              /\ t[0] = 0 /\ \A k \in 1..Len(ms) : t[k] = t[k - 1] + ms[k].size
              /\ estimateTokens(ms) = t[Len(ms)]
<1> DEFINE n == Len(ms)
<1>1. n \in Nat /\ DOMAIN ms = 1..n /\ \A k \in 1..n : ms[k].size \in Nat
  BY HistoryFacts
<1>2. PICK f : Sums(f, ms) /\ estimateTokens(ms) = f[1..n]
  <2>1. estimateTokens(ms) = (CHOOSE f : Sums(f, ms))[DOMAIN ms]
    BY DEF estimateTokens, FoldLeft, MapThenFoldSet, Sums
  <2>2. Sums(CHOOSE f : Sums(f, ms), ms)
    BY SumsExist
  <2>3. QED  BY <1>1, <2>1, <2>2
<1>3. f[{}] = 0 /\ \A s \in SUBSET (1..n) : s # {} => f[s] = f[s \ {Max(s)}] + ms[Max(s)].size
  <2>1. f = [s \in SUBSET (1..n) |-> IF s = {} THEN 0 ELSE f[s \ {Max(s)}] + ms[Max(s)].size]
    BY <1>1, <1>2 DEF Sums
  <2>2. QED  BY <2>1
<1>4. ASSUME NEW k \in 1..n PROVE f[1..k] = f[1..(k - 1)] + ms[k].size
  <2>1. 1..k \in SUBSET (1..n) /\ k \in 1..k /\ (1..k) \ {k} = 1..(k - 1)
    BY <1>1
  <2>2. Max(1..k) \in 1..k /\ k <= Max(1..k)
    BY <1>1, <2>1, MaxIn
  <2>3. Max(1..k) = k
    <3>1. PICK m : m = Max(1..k)
      OBVIOUS
    <3>2. QED  BY <1>1, <2>2, <3>1
  <2>4. QED  BY <1>3, <2>1, <2>3
<1>5. PICK t : t = [k \in 0..n |-> f[1..k]]
  OBVIOUS
<1>6. t[0] = 0 /\ \A k \in 1..n : t[k] = t[k - 1] + ms[k].size
  <2>1. 0 \in 0..n /\ 1..0 = {} /\ \A k \in 1..n : k \in 0..n /\ k - 1 \in 0..n
    BY <1>1
  <2>2. t[0] = 0
    BY <1>3, <1>5, <2>1
  <2>3. \A k \in 1..n : t[k] = f[1..k] /\ t[k - 1] = f[1..(k - 1)]
    BY <1>5, <2>1
  <2>4. QED  BY <1>4, <2>2, <2>3
<1>7. \A k \in 0..n : t[k] \in Nat
  <2> DEFINE good == {k \in 0..n : t[k] \in Nat}
  <2>1. 0 \in good
    BY <1>1, <1>6
  <2>2. ASSUME NEW k \in 0..n, k \in good, k < n PROVE k + 1 \in good
    <3>1. k + 1 \in 1..n /\ k + 1 - 1 = k /\ k + 1 \in 0..n
      BY <1>1, <2>2
    <3>2. t[k + 1] = t[k] + ms[k + 1].size
      BY <1>6, <3>1
    <3>3. QED  BY <1>1, <2>2, <3>1, <3>2
  <2>3. \A k \in 0..n : k \in good
    <3> HIDE DEF good
    <3> QED  BY <1>1, <2>1, <2>2, UpTo
  <2>4. QED  BY <2>3
<1>8. t \in [0..n -> Nat] /\ estimateTokens(ms) = t[n]
  BY <1>1, <1>2, <1>5, <1>7
<1>9. QED  BY <1>6, <1>8

\* A history of messages that weigh no more weighs no more.
LEMMA LessTotals ==
    ASSUME NEW n \in Nat, NEW a, NEW b, NEW t \in [0..n -> Nat], NEW u \in [0..n -> Nat],
           t[0] = 0, \A k \in 1..n : t[k] = t[k - 1] + a[k].size,
           u[0] = 0, \A k \in 1..n : u[k] = u[k - 1] + b[k].size,
           \A k \in 1..n : a[k].size \in Nat /\ b[k].size \in Nat /\ b[k].size <= a[k].size
    PROVE  u[n] <= t[n]
<1> DEFINE good == {k \in 0..n : u[k] <= t[k]}
<1>1. 0 \in good
  OBVIOUS
<1>2. ASSUME NEW k \in 0..n, k \in good, k < n PROVE k + 1 \in good
  <2>1. k + 1 \in 1..n /\ k + 1 - 1 = k /\ k + 1 \in 0..n
    BY <1>2
  <2>2. t[k + 1] = t[k] + a[k + 1].size /\ u[k + 1] = u[k] + b[k + 1].size
    BY <2>1
  <2>3. u[k] \in Nat /\ t[k] \in Nat /\ a[k + 1].size \in Nat /\ b[k + 1].size \in Nat
        /\ b[k + 1].size <= a[k + 1].size /\ u[k] <= t[k]
    BY <1>2, <2>1
  <2>4. u[k + 1] <= t[k + 1]
    <3>1. \A p, q, r, s \in Nat : p <= q /\ r <= s => p + r <= q + s
      OBVIOUS
    <3>2. u[k] + b[k + 1].size <= t[k] + a[k + 1].size
      BY <2>3, <3>1
    <3>3. QED  BY <2>2, <3>2
  <2>5. QED  BY <2>1, <2>4
<1>3. n \in good
  <2>1. n \in 0..n
    OBVIOUS
  <2> HIDE DEF good
  <2>2. QED  BY <1>1, <1>2, <2>1, UpTo
<1>4. QED  BY <1>3

\* The estimate is a number; a nudge adds nothing to it.
LEMMA EstimateType ==
    ASSUME NEW ms \in History
    PROVE  estimateTokens(ms) \in Nat
<1>1. Len(ms) \in Nat
  BY DEF History
<1>2. QED  BY <1>1, Totals

\* What User weighs.
LEMMA UserType == User \in Message /\ User.size = 0 /\ User.calls = <<>> /\ User.role = "user"
<1>1. Prompt \in Nat /\ Malformed \in Called /\ <<>> \in Seq(Called) /\ <<0, 0>> \in Nat \X Nat
  BY LoopAssumption DEF Called
<1>2. Seed \in Message
  BY <1>1 DEF Seed, Message
<1>3. QED  BY <1>1, <1>2 DEF User, Seed, Message

\* A message more weighs its size more.
LEMMA EstimateAppend ==
    ASSUME NEW ms \in History
    PROVE  Append(ms, User) \in History /\ estimateTokens(Append(ms, User)) = estimateTokens(ms)
<1> DEFINE n == Len(ms)
           ns == Append(ms, User)
<1>1. /\ n \in Nat /\ ns \in History /\ Len(ns) = n + 1 /\ ns[n + 1] = User
      /\ \A k \in 1..n : ns[k] = ms[k] /\ ms[k].size \in Nat
  <2>1. ms \in Seq(Message) /\ User \in Message
    BY UserType DEF History
  <2>2. ns \in Seq(Message) /\ Len(ns) = n + 1 /\ ns[n + 1] = User /\ \A k \in 1..n : ns[k] = ms[k]
    BY <2>1
  <2>3. QED  BY <2>2, HistoryFacts DEF History
<1>2. PICK t \in [0..n -> Nat] :
              /\ t[0] = 0 /\ \A k \in 1..n : t[k] = t[k - 1] + ms[k].size
              /\ estimateTokens(ms) = t[n]
  BY Totals
<1>3. PICK u \in [0..(n + 1) -> Nat] :
              /\ u[0] = 0 /\ \A k \in 1..(n + 1) : u[k] = u[k - 1] + ns[k].size
              /\ estimateTokens(ns) = u[n + 1]
  <2> HIDE DEF ns
  <2> QED  BY <1>1, Totals
<1>4. u[n + 1] = u[n]
  <2>1. u[n + 1] = u[n] + 0
    BY <1>1, <1>3, UserType
  <2>2. u[n] \in Nat
    BY <1>1
  <2>3. QED  BY <2>1, <2>2
<1>5. PICK v : v = [k \in 0..n |-> u[k]]
  OBVIOUS
<1>6. /\ v \in [0..n -> Nat] /\ v[0] = 0 /\ v[n] = u[n]
      /\ \A k \in 1..n : v[k] = v[k - 1] + ns[k].size
  <2>1. \A k \in 0..n : v[k] = u[k] /\ k \in 0..(n + 1)
    BY <1>1, <1>5
  <2>2. \A k \in 1..n : k \in 0..n /\ k - 1 \in 0..n /\ k \in 1..(n + 1)
    BY <1>1
  <2>3. 0 \in 0..n /\ n \in 0..n
    BY <1>1
  <2>4. QED  BY <1>3, <1>5, <2>1, <2>2, <2>3
<1>7. v[n] = t[n]
  <2> HIDE DEF n, ns
  <2>1. \A k \in 1..n : ms[k].size \in Nat /\ ns[k].size \in Nat /\ ns[k].size <= ms[k].size
    BY <1>1
  <2>2. \A k \in 1..n : ns[k].size \in Nat /\ ms[k].size \in Nat /\ ms[k].size <= ns[k].size
    BY <1>1
  <2>3. \A k \in 1..n : t[k] = t[k - 1] + ms[k].size
    BY <1>2
  <2>4. \A k \in 1..n : v[k] = v[k - 1] + ns[k].size
    BY <1>6
  <2>5. n \in Nat /\ t[0] = 0 /\ v[0] = 0 /\ v \in [0..n -> Nat]
    BY <1>1, <1>2, <1>6
  <2>6. v[n] <= t[n]
    BY <2>1, <2>3, <2>4, <2>5, LessTotals
  <2>7. t[n] <= v[n]
    BY <2>2, <2>3, <2>4, <2>5, LessTotals
  <2>8. n \in 0..n
    BY <2>5
  <2>9. v[n] \in Nat /\ t[n] \in Nat
    BY <2>5, <2>8
  <2>10. QED  BY <2>6, <2>7, <2>9
<1>8. estimateTokens(ns) = estimateTokens(ms)
  BY <1>2, <1>3, <1>4, <1>6, <1>7
<1>9. QED  BY <1>1, <1>8

\* Eliding outputs keeps everything else, and adds nothing.
LEMMA EstimateElide ==
    ASSUME NEW ms \in History, NEW gone
    PROVE  /\ Elide(ms, gone) \in History /\ DOMAIN Elide(ms, gone) = DOMAIN ms
           /\ \A i \in DOMAIN ms : Elide(ms, gone)[i] \in {ms[i], [ms[i] EXCEPT !.size = 0]}
           /\ estimateTokens(Elide(ms, gone)) <= estimateTokens(ms)
<1> DEFINE n == Len(ms)
<1>0. PICK ns : ns = Elide(ms, gone)
  OBVIOUS
<1>1. n \in Nat /\ DOMAIN ms = 1..n /\ \A k \in 1..n : ms[k] \in Message /\ ms[k].size \in Nat
  BY HistoryFacts
<1>2. /\ DOMAIN ns = 1..n
      /\ \A k \in 1..n : ns[k] = IF k \in gone THEN [ms[k] EXCEPT !.size = 0] ELSE ms[k]
  BY <1>0, <1>1 DEF Elide
<1>3. \A k \in 1..n : ns[k] \in Message /\ ns[k].size \in Nat /\ ns[k].size <= ms[k].size
                      /\ ns[k] \in {ms[k], [ms[k] EXCEPT !.size = 0]}
  BY SMTT(30), <1>1, <1>2 DEF Message
<1>4. ns \in History /\ Len(ns) = n
  <2>1. ns = [k \in 1..n |-> ns[k]]
    BY <1>0, <1>1, <1>2 DEF Elide
  <2>2. ns \in [1..n -> Message]
    BY <1>3, <2>1
  <2>3. QED  BY <1>1, <2>2 DEF History
<1>5. PICK t \in [0..n -> Nat] :
              /\ t[0] = 0 /\ \A k \in 1..n : t[k] = t[k - 1] + ms[k].size
              /\ estimateTokens(ms) = t[n]
  BY Totals
<1>6. PICK u \in [0..n -> Nat] :
              /\ u[0] = 0 /\ \A k \in 1..n : u[k] = u[k - 1] + ns[k].size
              /\ estimateTokens(ns) = u[n]
  BY <1>4, Totals
<1>7. u[n] <= t[n]
  <2> HIDE DEF n
  <2> QED  BY <1>1, <1>3, <1>5, <1>6, LessTotals
<1>8. QED  BY <1>0, <1>1, <1>2, <1>3, <1>4, <1>5, <1>6, <1>7

-----------------------------------------------------------------------------
(* The history keeps its pairs.                                            *)

\* The same messages but for what they weigh.
SameShape(ms, ns) ==
    /\ DOMAIN ns = DOMAIN ms
    /\ \A i \in DOMAIN ms : /\ ns[i].role = ms[i].role /\ ns[i].calls = ms[i].calls
                            /\ ns[i].of = ms[i].of /\ ns[i].call = ms[i].call

\* Weights do not matter to the pairs.
LEMMA PairedShape ==
    ASSUME NEW ms, NEW ns, Paired(ms), SameShape(ms, ns)
    PROVE  Paired(ns)
<1>1. ToolPositions(ns) = ToolPositions(ms) /\ ToolPositions(ms) \subseteq DOMAIN ms
  BY DEF ToolPositions, SameShape
<1>2. ASSUME NEW i \in DOMAIN ns, NEW k \in DOMAIN ns[i].calls
      PROVE  i + k \in DOMAIN ns /\ ns[i + k].of = <<i, k>> /\ ns[i + k].call = ns[i].calls[k]
  BY <1>2 DEF Paired, SameShape
<1>3. ASSUME NEW j \in ToolPositions(ns)
      PROVE  ns[j].of[1] \in DOMAIN ns /\ ns[j].of[2] \in DOMAIN ns[ns[j].of[1]].calls
             /\ j = ns[j].of[1] + ns[j].of[2]
  BY <1>1, <1>3 DEF Paired, SameShape
<1>4. QED  BY <1>2, <1>3 DEF Paired

\* A message without calls that answers none leaves the pairs alone.
LEMMA PairedAppend ==
    ASSUME NEW ms \in History, Paired(ms), NEW m \in Message, m.role # "tool", m.calls = <<>>
    PROVE  Append(ms, m) \in History /\ Paired(Append(ms, m))
<1> DEFINE n == Len(ms)
<1>0. PICK ns : ns = Append(ms, m)
  OBVIOUS
<1>1. /\ n \in Nat /\ ns \in History /\ DOMAIN ms = 1..n /\ DOMAIN ns = 1..(n + 1) /\ ns[n + 1] = m
      /\ \A k \in 1..n : ns[k] = ms[k]
  <2>1. ms \in Seq(Message)
    BY DEF History
  <2>2. ns \in Seq(Message) /\ n \in Nat /\ DOMAIN ms = 1..n /\ DOMAIN ns = 1..(n + 1) /\ ns[n + 1] = m
    BY <1>0, <2>1
  <2>3. \A k \in 1..n : ns[k] = ms[k]
    BY <1>0, <2>1
  <2>4. QED  BY <2>2, <2>3 DEF History
<1>2. DOMAIN m.calls = {}
  OBVIOUS
<1>3. ASSUME NEW i \in DOMAIN ns, NEW k \in DOMAIN ns[i].calls
      PROVE  i + k \in DOMAIN ns /\ ns[i + k].of = <<i, k>> /\ ns[i + k].call = ns[i].calls[k]
  <2>1. i \in 1..n
    BY <1>1, <1>2, <1>3
  <2>2. i + k \in 1..n /\ ms[i + k].of = <<i, k>> /\ ms[i + k].call = ms[i].calls[k]
    BY <1>1, <1>3, <2>1 DEF Paired
  <2>3. QED  BY <1>1, <2>1, <2>2
<1>4. ToolPositions(ns) = ToolPositions(ms) /\ ToolPositions(ms) \subseteq 1..n
  BY <1>1 DEF ToolPositions
<1>5. ASSUME NEW j \in ToolPositions(ns)
      PROVE  ns[j].of[1] \in DOMAIN ns /\ ns[j].of[2] \in DOMAIN ns[ns[j].of[1]].calls
             /\ j = ns[j].of[1] + ns[j].of[2]
  <2>1. ns[j] = ms[j]
    BY <1>1, <1>4, <1>5
  <2>2. ms[j].of[1] \in 1..n /\ ms[j].of[2] \in DOMAIN ms[ms[j].of[1]].calls
             /\ j = ms[j].of[1] + ms[j].of[2]
    BY <1>1, <1>4, <1>5 DEF Paired
  <2>3. QED  BY <1>1, <2>1, <2>2
<1>6. QED  BY <1>0, <1>1, <1>3, <1>5 DEF Paired

\* The length of a history and what follows it.
LEMMA ConcatLen ==
    ASSUME NEW s \in Seq(Message), NEW t \in Seq(Message)
    PROVE  Len(s \o t) = Len(s) + Len(t)
    OBVIOUS

\* A turn followed by its results, one for every call and in its order, is paired.
LEMMA PairedTurn ==
    ASSUME NEW ms \in History, Paired(ms), NEW turn \in Seq(Called),
           NEW a \in Message, a.role = "assistant", a.calls = turn,
           NEW results \in Seq(Message), Len(results) = Len(turn),
           \A k \in 1..Len(turn) : results[k].of = <<Len(ms) + 1, k>> /\ results[k].call = turn[k]
                                   /\ results[k].calls = <<>>
    PROVE  ms \o <<a>> \o results \in History /\ Paired(ms \o <<a>> \o results)
<1> DEFINE n == Len(ms)
           l == Len(turn)
<1>0. PICK ns : ns = ms \o <<a>> \o results
  OBVIOUS
<1>1. n \in Nat /\ l \in Nat /\ DOMAIN ms = 1..n /\ DOMAIN turn = 1..l
  BY HistoryFacts
<1>2. /\ ns \in History /\ DOMAIN ns = 1..(n + 1 + l) /\ ns[n + 1] = a
      /\ \A k \in 1..n : ns[k] = ms[k]
      /\ \A k \in 1..l : ns[n + 1 + k] = results[k]
  <2>1. ms \in Seq(Message) /\ <<a>> \in Seq(Message)
    BY DEF History
  <2>2. PICK ps : ps = ms \o <<a>>
    OBVIOUS
  <2>3. ps \in Seq(Message) /\ Len(ps) = n + 1 /\ ps[n + 1] = a /\ \A k \in 1..n : ps[k] = ms[k]
    BY <1>1, <2>1, <2>2
  <2>4. ns = ps \o results /\ Len(results) = l
    BY <1>0, <2>2
  <2>5. ns \in Seq(Message) /\ Len(ns) = n + 1 + l
    <3>1. ns \in Seq(Message)
      BY <2>3, <2>4
    <3>2. Len(ns) = Len(ps) + Len(results)
      BY <2>3, <2>4, ConcatLen
    <3>3. QED  BY <2>3, <2>4, <3>1, <3>2
  <2>6. \A k \in 1..(n + 1) : ns[k] = ps[k]
    BY <1>1, <2>3, <2>4
  <2>7. \A k \in 1..l : ns[n + 1 + k] = results[k]
    BY <1>1, <2>3, <2>4
  <2>8. n + 1 \in 1..(n + 1) /\ \A k \in 1..n : k \in 1..(n + 1)
    BY <1>1
  <2>9. QED  BY <2>3, <2>5, <2>6, <2>7, <2>8 DEF History
<1>3. \A i \in DOMAIN ns : \/ i \in 1..n \/ i = n + 1 \/ \E k \in 1..l : i = n + 1 + k
  <2>1. ASSUME NEW i \in 1..(n + 1 + l), i \notin 1..n, i # n + 1 PROVE i - n - 1 \in 1..l /\ i = n + 1 + (i - n - 1)
    BY <1>1, <2>1
  <2>2. QED  BY <1>2, <2>1
<1>4. ASSUME NEW i \in DOMAIN ns, NEW k \in DOMAIN ns[i].calls
      PROVE  i + k \in DOMAIN ns /\ ns[i + k].of = <<i, k>> /\ ns[i + k].call = ns[i].calls[k]
  <2>1. CASE i \in 1..n
    <3>1. i + k \in 1..n /\ ms[i + k].of = <<i, k>> /\ ms[i + k].call = ms[i].calls[k]
      BY <1>1, <1>2, <1>4, <2>1 DEF Paired
    <3>2. i + k \in DOMAIN ns
      BY <1>1, <1>2, <3>1
    <3>3. QED  BY <1>2, <2>1, <3>1, <3>2
  <2>2. CASE i = n + 1
    <3>1. ns[i].calls = turn /\ k \in 1..l
      BY <1>1, <1>2, <1>4, <2>2
    <3>2. ns[i + k] = results[k] /\ i + k \in DOMAIN ns
      <4>1. ns[n + 1 + k] = results[k]
        BY <1>2, <3>1
      <4>2. i + k = n + 1 + k /\ i + k \in 1..(n + 1 + l)
        BY <1>1, <2>2, <3>1
      <4>3. QED  BY <1>2, <4>1, <4>2
    <3>3. QED  BY <2>2, <3>1, <3>2
  <2>3. CASE \E j \in 1..l : i = n + 1 + j
    <3>1. ns[i].calls = <<>>
      BY <1>2, <2>3
    <3>2. QED  BY <1>4, <3>1
  <2>4. QED  BY <1>3, <2>1, <2>2, <2>3
<1>5. ASSUME NEW j \in ToolPositions(ns)
      PROVE  ns[j].of[1] \in DOMAIN ns /\ ns[j].of[2] \in DOMAIN ns[ns[j].of[1]].calls
             /\ j = ns[j].of[1] + ns[j].of[2]
  <2>0. j \in DOMAIN ns /\ ns[j].role = "tool"
    BY <1>5 DEF ToolPositions
  <2>1. CASE j \in 1..n
    <3>1. j \in ToolPositions(ms) /\ ns[j] = ms[j]
      BY <1>1, <1>2, <2>0, <2>1 DEF ToolPositions
    <3>2. ms[j].of[1] \in 1..n /\ ms[j].of[2] \in DOMAIN ms[ms[j].of[1]].calls
             /\ j = ms[j].of[1] + ms[j].of[2]
      BY <1>1, <3>1 DEF Paired
    <3>3. ms[j].of[1] \in DOMAIN ns
      BY <1>1, <1>2, <3>2
    <3>4. QED  BY <1>2, <3>1, <3>2, <3>3
  <2>2. CASE j = n + 1
    BY <1>2, <2>0, <2>2
  <2>3. ASSUME NEW k \in 1..l, j = n + 1 + k
        PROVE  ns[j].of[1] \in DOMAIN ns /\ ns[j].of[2] \in DOMAIN ns[ns[j].of[1]].calls
               /\ j = ns[j].of[1] + ns[j].of[2]
    <3>1. ns[j].of = <<n + 1, k>>
      BY <1>2, <2>3
    <3>2. n + 1 \in DOMAIN ns /\ ns[n + 1].calls = turn /\ k \in DOMAIN turn
      BY <1>1, <1>2, <2>3
    <3>3. ns[j].of[1] = n + 1 /\ ns[j].of[2] = k
      BY <3>1
    <3>4. QED  BY <2>3, <3>2, <3>3
  <2>4. QED  BY <1>3, <2>0, <2>1, <2>2, <2>3
<1>6. QED  BY <1>0, <1>2, <1>4, <1>5 DEF Paired

-----------------------------------------------------------------------------
(* The run's record, operator by operator.                                 *)

\* The fields of a run.
LEMMA RunFields ==
    ASSUME NEW r \in RunRec
    PROVE  /\ r.pc \in InLoop \cup {"idle", "complete", "open", "failed"} /\ r.step \in Nat
           /\ r.messages \in History /\ r.spent \in Nat /\ r.ratio \in Nat /\ r.conceded \in Nat
           /\ r.opens \in Nat /\ r.expired \in BOOLEAN /\ r.conclusive \in BOOLEAN
BY DEF RunRec

\* The messages.
LEMMA MessageTypes ==
    /\ Seed \in Message /\ Seed.calls = <<>> /\ Seed.role = "user"
    /\ \A turn \in Seq(Called) : /\ Assistant(turn) \in Message /\ Assistant(turn).role = "assistant"
                                 /\ Assistant(turn).calls = turn
    /\ \A of \in Nat, i \in Nat, call \in Called, size \in Nat :
          /\ Tool(of, i, call, size) \in Message /\ Tool(of, i, call, size).of = <<of, i>>
          /\ Tool(of, i, call, size).call = call /\ Tool(of, i, call, size).calls = <<>>
<1>1. Prompt \in Nat /\ Reply \in Nat /\ Malformed \in Called /\ <<>> \in Seq(Called) /\ <<0, 0>> \in Nat \X Nat
  BY LoopAssumption DEF Called
<1>2. Seed \in Message /\ Seed.calls = <<>> /\ Seed.role = "user"
  BY <1>1 DEF Seed, Message
<1>3. ASSUME NEW turn \in Seq(Called)
      PROVE  /\ Assistant(turn) \in Message /\ Assistant(turn).role = "assistant" /\ Assistant(turn).calls = turn
  BY <1>1 DEF Assistant, Seed, Message
<1>4. ASSUME NEW of \in Nat, NEW i \in Nat, NEW call \in Called, NEW size \in Nat
      PROVE  /\ Tool(of, i, call, size) \in Message /\ Tool(of, i, call, size).of = <<of, i>>
             /\ Tool(of, i, call, size).call = call /\ Tool(of, i, call, size).calls = <<>>
  BY <1>1 DEF Tool, Message
<1>5. QED  BY <1>2, <1>3, <1>4

\* A history begins paired.
LEMMA NoMessages == <<>> \in History /\ Paired(<<>>) /\ <<Seed>> \in History /\ Paired(<<Seed>>)
<1>1. <<>> \in History /\ Paired(<<>>)
  BY DEF History, Paired, ToolPositions
<1>2. <<Seed>> = Append(<<>>, Seed)
  OBVIOUS
<1>3. QED  BY <1>1, <1>2, MessageTypes, PairedAppend

\* Between two investigations.
LEMMA IdleOK == RunOK(Idle) /\ Idle.pc = "idle"
<1>1. Idle \in RunRec /\ Idle.pc = "idle" /\ Idle.messages = <<>> /\ Idle.conceded = 0
  BY NoMessages DEF Idle, RunRec, InLoop
<1>2. QED  BY <1>1, NoMessages DEF RunOK, Conceding

\* An investigation that is over.
LEMMA FinishOK ==
    ASSUME NEW r \in RunRec, r.conceded <= 1, NEW result \in Results
    PROVE  RunOK(Finish(r, result)) /\ Finish(r, result).pc = "complete"
<1> PICK f : f = Finish(r, result)
  OBVIOUS
<1>1. r.conceded \in Nat
  BY DEF RunRec
<1>2. f \in RunRec /\ f.pc = "complete" /\ f.messages = <<>> /\ f.conceded = r.conceded
  BY <1>1, NoMessages DEF Finish, Idle, RunRec, InLoop
<1>3. QED  BY <1>2, NoMessages DEF RunOK, Conceding, InLoop

\* What a request in flight leaves behind once it is paid for.
Settled(r, a) ==
    /\ a \in RunRec
    /\ a.messages = r.messages /\ a.pc = r.pc
    /\ a.conceded <= 1 /\ (a.conceded = 1 => a.budgetStop # "none")

\* A request that was conceded counts, and only one ever is.
LEMMA PaidOK ==
    ASSUME NEW r, RunOK(r), r.pc = "request", NEW usage \in Nat
    PROVE  Settled(r, Paid(r, usage))
<1>1. r \in RunRec /\ r.spent \in Nat /\ r.conceded \in Nat /\ "request" \in InLoop
  BY DEF RunOK, RunRec, InLoop
<1>2. PICK p, c : p = r.spent + usage /\ c = IF Crosses(r) THEN r.conceded + 1 ELSE r.conceded
  OBVIOUS
<1>3. PICK a : a = [r EXCEPT !.spent = p, !.conceded = c]
  OBVIOUS
<1>4. Paid(r, usage) = a
  BY <1>1, <1>2, <1>3 DEF Paid
<1>5. p \in Nat /\ c \in Nat
  BY <1>1, <1>2
<1>6. [r EXCEPT !.spent = p] \in RunRec
  BY <1>1, <1>5 DEF RunRec
<1>7. a = [[r EXCEPT !.spent = p] EXCEPT !.conceded = c]
  BY <1>1, <1>3 DEF RunRec
<1>8. a \in RunRec
  <2> PICK q \in RunRec : q = [r EXCEPT !.spent = p]
    BY <1>6
  <2> QED  BY <1>5, <1>7 DEF RunRec
<1>9. a.messages = r.messages /\ a.pc = r.pc /\ a.conceded = c /\ a.budgetStop = r.budgetStop
  BY <1>1, <1>3 DEF RunRec
<1>10. c <= 1 /\ (c = 1 => r.budgetStop # "none")
  <2>1. /\ r.conceded <= 1 /\ (r.conceded = 1 => r.budgetStop # "none")
        /\ Crosses(r) => r.conceded = 0 /\ r.budgetStop # "none"
    BY <1>1 DEF RunOK, Conceding
  <2>2. CASE Crosses(r)
    <3>1. c = r.conceded + 1 /\ r.conceded = 0 /\ r.budgetStop # "none"
      BY <1>2, <2>1, <2>2
    <3>2. c = 1
      BY <3>1
    <3>3. QED  BY <3>1, <3>2
  <2>3. CASE ~Crosses(r)
    BY <1>2, <2>1, <2>3
  <2>4. QED  BY <2>2, <2>3
<1>11. QED  BY <1>4, <1>8, <1>9, <1>10 DEF Settled

\* A scene's numbers and turns.
LEMMA SceneFacts ==
    ASSUME scene \in Scenes
    PROVE  scene.density \in Nat /\ scene.turns \subseteq Seq(Called)
BY LoopAssumption DEF Called

\* The answer is paid for, and teaches a ratio.
LEMMA AnsweredOK ==
    ASSUME RunOK(run), run.pc = "request", scene \in Scenes
    PROVE  Settled(run, Answered)
<1> DEFINE raw == estimateTokens(run.messages)
           paid == Paid(run, raw * scene.density + Reply)
<1>1. raw \in Nat /\ Reply \in Nat /\ scene.density \in Nat
  BY EstimateType, LoopAssumption, SceneFacts DEF RunOK, RunRec
<1>2. raw * scene.density + Reply \in Nat
  BY <1>1
<1>3. Settled(run, paid)
  BY <1>2, PaidOK
<1>4. Answered = IF raw > 0 THEN [paid EXCEPT !.ratio = scene.density] ELSE paid
  BY DEF Answered
<1>5. Settled(run, [paid EXCEPT !.ratio = scene.density])
  <2> HIDE DEF paid
  <2>1. paid \in RunRec
    BY <1>3 DEF Settled
  <2>2. PICK b : b = [paid EXCEPT !.ratio = scene.density]
    OBVIOUS
  <2>3. b \in RunRec
    BY <1>1, <2>1, <2>2 DEF RunRec
  <2>4. b.messages = paid.messages /\ b.pc = paid.pc /\ b.conceded = paid.conceded /\ b.budgetStop = paid.budgetStop
    BY <2>1, <2>2 DEF RunRec
  <2>5. QED  BY <1>3, <2>2, <2>3, <2>4 DEF Settled
<1>6. QED  BY <1>3, <1>4, <1>5

\* To the next step, or past the last.
LEMMA NextStepOK ==
    ASSUME NEW r \in RunRec, Paired(r.messages), r.conceded <= 1, r.conceded = 1 => r.budgetStop # "none"
    PROVE  RunOK(NextStep(r)) /\ NextStep(r).pc \in {"budget", "complete"}
<1>1. CASE r.step + 1 < scene.steps
  <2>0. PICK k \in Nat : k = r.step + 1
    <3>1. r.step \in Nat
      BY RunFields
    <3>2. r.step + 1 \in Nat
      BY <3>1
    <3>3. QED  BY <3>2
  <2>1. PICK b : b = [r EXCEPT !.step = k, !.pc = "budget"]
    OBVIOUS
  <2>2. b \in RunRec
    BY <2>1 DEF RunRec, InLoop
  <2>3. b.messages = r.messages /\ b.pc = "budget" /\ b.conceded = r.conceded /\ b.budgetStop = r.budgetStop
    BY <2>1 DEF RunRec
  <2>4. NextStep(r) = b
    BY <1>1, <2>0, <2>1 DEF NextStep
  <2>5. QED  BY <2>2, <2>3, <2>4 DEF RunOK, Conceding
<1>2. CASE ~(r.step + 1 < scene.steps)
  <2>1. NextStep(r) = Finish(r, "max_steps") /\ "max_steps" \in Results
    BY <1>2 DEF NextStep, Results
  <2>2. QED  BY <2>1, FinishOK
<1>3. QED  BY <1>1, <1>2

\* The ladder sends a request that crosses no ceiling, or the first that does.
LEMMA LadderOK ==
    ASSUME NEW r \in RunRec, Paired(r.messages), r.pc = "budget", Conceding(r)
    PROVE  RunOK(ladder(r)) /\ ladder(r).pc \in {"request", "complete"}
<1> DEFINE reason == budgetTrip(estimate(r), r.spent)
<1>0. r.conceded <= 1 /\ (r.conceded = 1 => r.budgetStop # "none")
  BY DEF Conceding, InLoop
<1>1. CASE reason = "none"
  <2>1. PICK b : b = [r EXCEPT !.pc = "request"]
    OBVIOUS
  <2>2. b \in RunRec
    BY <2>1 DEF RunRec, InLoop
  <2>3. b.messages = r.messages /\ b.pc = "request" /\ b.conceded = r.conceded /\ b.budgetStop = r.budgetStop
        /\ b.ratio = r.ratio /\ b.spent = r.spent
    BY <2>1 DEF RunRec
  <2>4. ~Crosses(b)
    BY <1>1, <2>3 DEF Crosses, budgetTrip, estimate
  <2>5. ladder(r) = b
    BY <1>1, <2>1 DEF ladder
  <2>6. QED  BY <1>0, <2>2, <2>3, <2>4, <2>5 DEF RunOK, Conceding
<1>2. CASE reason # "none" /\ r.budgetStop = "none"
  <2>1. PICK b : b = Nudge(r, reason)
    OBVIOUS
  <2>2. reason \in {"tokens_request", "tokens_total", "cost"}
    BY <1>2 DEF budgetTrip
  <2>3. r.messages \in History
    BY DEF RunRec
  <2>4. Append(r.messages, User) \in History /\ Paired(Append(r.messages, User))
    BY <2>3, UserType, PairedAppend
  <2>5. b \in RunRec
    BY <2>1, <2>2, <2>4 DEF Nudge, RunRec, InLoop
  <2>6. b.messages = Append(r.messages, User) /\ b.pc = "request" /\ b.conceded = r.conceded
        /\ b.budgetStop = reason
    BY <2>1 DEF Nudge, RunRec
  <2>7. r.conceded = 0
    <3>1. r.conceded \in Nat
      BY RunFields
    <3>2. r.conceded <= 1 /\ r.conceded # 1
      BY <1>0, <1>2
    <3>3. \A k \in Nat : k <= 1 /\ k # 1 => k = 0
      OBVIOUS
    <3>4. QED  BY <3>1, <3>2, <3>3
  <2>8. ladder(r) = b
    BY <1>2, <2>1 DEF ladder
  <2>9. QED  BY <1>2, <2>4, <2>5, <2>6, <2>7, <2>8 DEF RunOK, Conceding
<1>3. CASE reason # "none" /\ r.budgetStop # "none"
  <2>1. ladder(r) = Finish(r, "budget_exceeded") /\ "budget_exceeded" \in Results
    BY <1>3 DEF ladder, Kill, Results
  <2>2. QED  BY <1>0, <2>1, FinishOK
<1>4. QED  BY <1>1, <1>2, <1>3

\* The nudge of the last step weighs nothing.
LEMMA FinalStepOK ==
    ASSUME NEW r, RunOK(r)
    PROVE  RunOK(FinalStep(r)) /\ FinalStep(r).pc = r.pc
<1>1. CASE r.pc = "request" /\ r.step = scene.steps - 1 /\ r.toolChoice # Submit
  <2>1. PICK b : b = [r EXCEPT !.messages = Append(@, User), !.toolChoice = Submit, !.forcedFinal = TRUE]
    OBVIOUS
  <2>2. r \in RunRec /\ r.messages \in History /\ Paired(r.messages)
    BY DEF RunOK, RunRec
  <2>3. Append(r.messages, User) \in History /\ Paired(Append(r.messages, User))
        /\ estimateTokens(Append(r.messages, User)) = estimateTokens(r.messages)
    BY <2>2, UserType, PairedAppend, EstimateAppend
  <2>4. b \in RunRec
    BY <2>1, <2>2, <2>3 DEF RunRec
  <2>5. b.messages = Append(r.messages, User) /\ b.pc = r.pc /\ b.conceded = r.conceded
        /\ b.budgetStop = r.budgetStop /\ b.ratio = r.ratio /\ b.spent = r.spent
    BY <2>1, <2>2 DEF RunRec
  <2>6. Crosses(b) = Crosses(r)
    BY <2>3, <2>5 DEF Crosses, estimate
  <2>7. FinalStep(r) = b
    BY <1>1, <2>1 DEF FinalStep
  <2>8. QED  BY <2>3, <2>4, <2>5, <2>6, <2>7 DEF RunOK, Conceding
<1>2. CASE ~(r.pc = "request" /\ r.step = scene.steps - 1 /\ r.toolChoice # Submit)
  BY <1>2 DEF FinalStep
<1>3. QED  BY <1>1, <1>2

-----------------------------------------------------------------------------
(* The steps of Investigate.                                               *)

\* A step that only the run's locals see.
LoopStep ==
    /\ UNCHANGED <<scene, now, trigger, firings, completions, attempts>>
    /\ run.pc \in InLoop /\ run'.pc \in InLoop \cup {"complete"} /\ RunOK(run')

\* What keeps the history and what was conceded keeps the run.
LEMMA MoveOK ==
    ASSUME NEW r, RunOK(r), r.pc \in InLoop, NEW b \in RunRec, b.messages = r.messages,
           b.conceded = r.conceded, b.budgetStop = r.budgetStop, b.pc \in InLoop \ {"request"}
    PROVE  RunOK(b)
BY DEF RunOK, Conceding

\* Recall.
LEMMA RecallStep ==
    ASSUME TypeOK, RunOK(run), NEW outcome, tryRecall(outcome)
    PROVE  LoopStep
<1>0. run \in RunRec /\ run.pc = "recall" /\ run.pc \in InLoop /\ run.spent \in Nat /\ run.conceded <= 1
  BY RunFields DEF tryRecall, RunOK, InLoop, Conceding
<1>1. UNCHANGED <<scene, now, trigger, firings, completions, attempts>>
  BY DEF tryRecall, RunUnchanged
<1>2. PICK rerank, verify : /\ rerank = IF budgetTrip(Prompt, run.spent) = "none" THEN Prompt ELSE 0
                            /\ verify = run.spent + Reply
  OBVIOUS
<1>3. run.spent + rerank \in Nat /\ verify \in Nat
  BY SMTT(30), <1>0, <1>2, LoopAssumption
<1>4. \/ run' = Finish(run, "recall")
      \/ \E s \in Nat : run' = [run EXCEPT !.spent = s, !.pc = "budget"]
  <2>1. run' = CASE outcome \in {"off", "none"} -> [run EXCEPT !.pc = "budget"]
                 [] outcome = "reranked" -> [run EXCEPT !.spent = run.spent + rerank, !.pc = "budget"]
                 [] outcome = "kept"     -> Finish(run, "recall")
                 [] OTHER                -> [run EXCEPT !.spent = verify, !.pc = "budget"]
    BY <1>2 DEF tryRecall
  <2>2. CASE outcome \in {"off", "none"}
    <3>1. run' = [run EXCEPT !.pc = "budget"]
      BY <2>1, <2>2
    <3>2. run' = [run EXCEPT !.spent = run.spent, !.pc = "budget"]
      BY <1>0, <3>1 DEF RunRec
    <3>3. QED  BY <1>0, <3>2
  <2>3. CASE outcome = "reranked"
    BY <1>3, <2>1, <2>3
  <2>4. CASE outcome = "kept"
    BY <2>1, <2>4
  <2>5. CASE outcome \notin {"off", "none", "reranked", "kept"}
    BY <1>3, <2>1, <2>5
  <2>6. QED  BY <2>2, <2>3, <2>4, <2>5
<1>5. CASE run' = Finish(run, "recall")
  <2>1. "recall" \in Results
    BY DEF Results
  <2>2. QED  BY <1>0, <1>1, <1>5, <2>1, FinishOK DEF LoopStep
<1>6. ASSUME NEW s \in Nat, run' = [run EXCEPT !.spent = s, !.pc = "budget"] PROVE LoopStep
  <2>1. run' \in RunRec
    BY <1>0, <1>6 DEF RunRec, InLoop
  <2>2. run'.messages = run.messages /\ run'.conceded = run.conceded /\ run'.budgetStop = run.budgetStop
        /\ run'.pc = "budget"
    BY <1>0, <1>6 DEF RunRec
  <2>3. QED  BY <1>0, <1>1, <2>1, <2>2, MoveOK DEF LoopStep, InLoop
<1>7. QED  BY <1>4, <1>5, <1>6

\* Investigate's deadline.
LEMMA ExpireStep ==
    ASSUME TypeOK, RunOK(run), Expire
    PROVE  LoopStep
<1>1. UNCHANGED <<scene, now, trigger, firings, completions, attempts>>
  BY DEF Expire, RunUnchanged
<1>2. run \in RunRec /\ run.pc \in InLoop /\ run' = [run EXCEPT !.expired = TRUE]
  BY DEF Expire, RunOK, InLoop
<1>3. run' \in RunRec
  BY <1>2 DEF RunRec
<1>4. run'.messages = run.messages /\ run'.conceded = run.conceded /\ run'.budgetStop = run.budgetStop
      /\ run'.pc = run.pc /\ run'.ratio = run.ratio /\ run'.spent = run.spent
  BY <1>2 DEF RunRec
<1>5. Crosses(run') = Crosses(run)
  BY <1>4 DEF Crosses, estimate
<1>6. QED  BY <1>1, <1>2, <1>3, <1>4, <1>5 DEF LoopStep, RunOK, Conceding

\* The completion fails at the deadline.
LEMMA TimeoutStep ==
    ASSUME TypeOK, RunOK(run), NEW usage \in Nat, CompleteFails(usage), run.expired
    PROVE  LoopStep
<1>1. UNCHANGED <<scene, now, trigger, firings, completions, attempts>> /\ run.pc = "request"
      /\ run' = Finish(Paid(run, usage), "timeout")
  BY DEF CompleteFails, RunUnchanged
<1>2. Paid(run, usage) \in RunRec /\ Paid(run, usage).conceded <= 1
  BY <1>1, PaidOK DEF Settled
<1>3. "timeout" \in Results
  BY DEF Results
<1>4. RunOK(run') /\ run'.pc = "complete"
  BY <1>1, <1>2, <1>3, FinishOK
<1>5. QED  BY <1>1, <1>4 DEF LoopStep, InLoop

\* A refusal ends the investigation.
LEMMA RefusedStep ==
    ASSUME TypeOK, RunOK(run), Refused
    PROVE  LoopStep
<1>1. UNCHANGED <<scene, now, trigger, firings, completions, attempts>> /\ run.pc = "request"
      /\ run' = Finish(Answered, "refused")
  BY DEF Refused, RunUnchanged
<1>2. Answered \in RunRec /\ Answered.conceded <= 1
  BY <1>1, AnsweredOK DEF Settled, TypeOK
<1>3. "refused" \in Results
  BY DEF Results
<1>4. RunOK(run') /\ run'.pc = "complete"
  BY <1>1, <1>2, <1>3, FinishOK
<1>5. QED  BY <1>1, <1>4 DEF LoopStep, InLoop

\* A turn without calls and the nudge after it.
LEMMA NudgedOK ==
    ASSUME NEW ms \in History, Paired(ms)
    PROVE  ms \o <<Assistant(<<>>), User>> \in History /\ Paired(ms \o <<Assistant(<<>>), User>>)
<1>1. <<>> \in Seq(Called)
  OBVIOUS
<1>2. PICK a \in Message : a = Assistant(<<>>) /\ a.role = "assistant" /\ a.calls = <<>>
  BY <1>1, MessageTypes
<1>3. PICK ps : ps = Append(ms, a)
  OBVIOUS
<1>4. ps \in History /\ Paired(ps)
  BY <1>2, <1>3, PairedAppend
<1>5. Append(ps, User) \in History /\ Paired(Append(ps, User))
  BY <1>4, UserType, PairedAppend
<1>6. ms \o <<a, User>> = Append(ps, User)
  BY <1>2, <1>3, UserType DEF History
<1>7. QED  BY <1>2, <1>5, <1>6

\* A turn that was cut off, or one without calls, is answered with a nudge.
LEMMA NudgedStep ==
    ASSUME TypeOK, RunOK(run), run.pc = "request", NEW b, NEW c \in BOOLEAN, NEW d \in BOOLEAN,
           b = [Answered EXCEPT !.truncationNudged = c, !.nudged = d,
                                !.messages = @ \o <<Assistant(<<>>), User>>]
    PROVE  RunOK(NextStep(b)) /\ NextStep(b).pc \in {"budget", "complete"}
<1>1. PICK a : a = Answered
  OBVIOUS
<1>2. a \in RunRec /\ a.messages = run.messages /\ a.conceded <= 1 /\ (a.conceded = 1 => a.budgetStop # "none")
  BY <1>1, AnsweredOK DEF Settled, TypeOK
<1>3. a.messages \in History /\ Paired(a.messages)
  BY <1>2, RunFields DEF RunOK
<1>4. PICK ns \in History : ns = a.messages \o <<Assistant(<<>>), User>> /\ Paired(ns)
  BY <1>3, NudgedOK
<1>5. b = [a EXCEPT !.truncationNudged = c, !.nudged = d, !.messages = ns]
  BY <1>1, <1>4
<1>6. b \in RunRec
  <2>1. PICK b1 : b1 = [a EXCEPT !.truncationNudged = c]
    OBVIOUS
  <2>2. PICK b2 : b2 = [b1 EXCEPT !.nudged = d]
    OBVIOUS
  <2>3. b1 \in RunRec
    BY <1>2, <2>1 DEF RunRec
  <2>4. b2 \in RunRec
    BY <2>2, <2>3 DEF RunRec
  <2>5. b = [b2 EXCEPT !.messages = ns]
    BY <1>2, <1>5, <2>1, <2>2 DEF RunRec
  <2>6. QED  BY <1>4, <2>4, <2>5 DEF RunRec
<1>7. b.messages = ns /\ b.conceded = a.conceded /\ b.budgetStop = a.budgetStop
  BY <1>2, <1>5 DEF RunRec
<1>8. QED  BY <1>2, <1>4, <1>6, <1>7, NextStepOK

\* Both.
LEMMA TruncatedStep ==
    ASSUME TypeOK, RunOK(run), NEW turn, Truncated(turn)
    PROVE  LoopStep
<1>1. UNCHANGED <<scene, now, trigger, firings, completions, attempts>> /\ run.pc = "request"
      /\ run' = NextStep([Answered EXCEPT !.truncationNudged = TRUE,
                                          !.messages = @ \o <<Assistant(<<>>), User>>])
  BY DEF Truncated, RunUnchanged
<1>2. Answered \in RunRec
  BY <1>1, AnsweredOK DEF Settled, TypeOK
<1>3. PICK d \in BOOLEAN : d = Answered.nudged
  BY <1>2 DEF RunRec
<1>4. [Answered EXCEPT !.truncationNudged = TRUE, !.messages = @ \o <<Assistant(<<>>), User>>]
        = [Answered EXCEPT !.truncationNudged = TRUE, !.nudged = d, !.messages = @ \o <<Assistant(<<>>), User>>]
  BY <1>2, <1>3 DEF RunRec
<1>5. RunOK(run') /\ run'.pc \in {"budget", "complete"}
  BY <1>1, <1>4, NudgedStep
<1>6. QED  BY <1>1, <1>5 DEF LoopStep, InLoop

\* A turn without a call, nudged for or taken as the end.
LEMMA ProseStep ==
    ASSUME TypeOK, RunOK(run), Prose
    PROVE  LoopStep
<1>1. UNCHANGED <<scene, now, trigger, firings, completions, attempts>> /\ run.pc = "request"
      /\ run' = IF run.nudged
              THEN Finish(Answered, "inconclusive")
              ELSE NextStep([Answered EXCEPT !.nudged = TRUE,
                                !.messages = @ \o <<Assistant(<<>>), User>>])
  BY DEF Prose, RunUnchanged
<1>2. Answered \in RunRec /\ Answered.conceded <= 1
  BY <1>1, AnsweredOK DEF Settled, TypeOK
<1>3. PICK c \in BOOLEAN : c = Answered.truncationNudged
  BY <1>2 DEF RunRec
<1>4. [Answered EXCEPT !.nudged = TRUE, !.messages = @ \o <<Assistant(<<>>), User>>]
        = [Answered EXCEPT !.truncationNudged = c, !.nudged = TRUE, !.messages = @ \o <<Assistant(<<>>), User>>]
  BY <1>2, <1>3 DEF RunRec
<1>5. RunOK(run') /\ run'.pc \in {"budget", "complete"}
  <2>1. CASE run.nudged
    <3>1. "inconclusive" \in Results
      BY DEF Results
    <3>2. QED  BY <1>1, <1>2, <2>1, <3>1, FinishOK
  <2>2. CASE ~run.nudged
    BY <1>1, <1>4, <2>2, NudgedStep
  <2>3. QED  BY <2>1, <2>2
<1>6. QED  BY <1>1, <1>5 DEF LoopStep, InLoop

\* The review.
LEMMA VerifyStep ==
    ASSUME TypeOK, RunOK(run), NEW c \in BOOLEAN, verifyFindings(c)
    PROVE  LoopStep
<1>1. PICK result \in Results : result = IF run.forcedFinal THEN "max_steps_degraded" ELSE "resolved"
  BY DEF Results
<1>2. UNCHANGED <<scene, now, trigger, firings, completions, attempts>> /\ run.pc = "verify"
      /\ run' = [Finish(run, result) EXCEPT !.conclusive = c]
  BY <1>1 DEF verifyFindings, RunUnchanged
<1>3. run \in RunRec /\ run.conceded <= 1
  BY DEF RunOK, Conceding
<1>4. PICK f : f = Finish(run, result)
  OBVIOUS
<1>5. RunOK(f) /\ f.pc = "complete"
  BY <1>3, <1>4, FinishOK
<1>6. f \in RunRec /\ run' = [f EXCEPT !.conclusive = c]
  BY <1>2, <1>4, <1>5 DEF RunOK
<1>7. run' \in RunRec
  BY <1>6 DEF RunRec
<1>8. run'.messages = f.messages /\ run'.conceded = f.conceded /\ run'.pc = f.pc
  BY <1>6 DEF RunRec
<1>9. QED  BY <1>2, <1>5, <1>7, <1>8 DEF LoopStep, RunOK, Conceding, InLoop

\* A digest in the place of an output.
LEMMA DigestOK ==
    ASSUME NEW ms \in History, NEW j, NEW digest \in Nat
    PROVE  [ms EXCEPT ![j].size = digest] \in History /\ SameShape(ms, [ms EXCEPT ![j].size = digest])
<1>1. PICK ns : ns = [ms EXCEPT ![j].size = digest]
  OBVIOUS
<1>2. Len(ms) \in Nat /\ DOMAIN ms = 1..Len(ms) /\ \A k \in 1..Len(ms) : ms[k] \in Message
  BY HistoryFacts
<1>3. DOMAIN ns = DOMAIN ms /\ \A k \in DOMAIN ms : ns[k] = IF k = j THEN [ms[j] EXCEPT !.size = digest] ELSE ms[k]
  BY <1>1
<1>4. \A k \in DOMAIN ms : /\ ns[k] \in Message /\ ns[k].role = ms[k].role /\ ns[k].calls = ms[k].calls
                           /\ ns[k].of = ms[k].of /\ ns[k].call = ms[k].call
  BY <1>2, <1>3 DEF Message
<1>5. ns \in History
  <2>1. ns = [k \in 1..Len(ms) |-> ns[k]]
    BY <1>1, <1>2
  <2>2. ns \in [1..Len(ms) -> Message]
    BY <1>2, <1>4, <2>1
  <2>3. QED  BY <1>2, <2>2 DEF History
<1>6. QED  BY <1>1, <1>3, <1>4, <1>5 DEF SameShape

\* The compaction and the ladder.
LEMMA BudgetStep ==
    ASSUME TypeOK, RunOK(run), NEW digest \in Nat, enforceBudget(digest)
    PROVE  LoopStep
<1>0. run \in RunRec /\ run.pc = "budget" /\ run.messages \in History /\ Paired(run.messages) /\ run.spent \in Nat
  BY RunFields DEF enforceBudget, RunOK
<1>1. UNCHANGED <<scene, now, trigger, firings, completions, attempts>>
  BY DEF enforceBudget, RunUnchanged
<1>2. PICK gone : gone = IF compactionTarget > 0 /\ estimate(run) > compactionTarget
                         THEN Elided(run.messages, compactionTarget \div run.ratio) ELSE {}
  OBVIOUS
<1>3. PICK plain : plain = Elide(run.messages, gone)
  OBVIOUS
<1>4. PICK bodies : bodies = estimateTokens(run.messages) - estimateTokens(plain)
  OBVIOUS
<1>5. PICK ms : ms = [plain EXCEPT ![Min(gone)].size = digest]
  OBVIOUS
<1>6. PICK c : c = IF gone = {} \/ ~scene.summarize THEN [run EXCEPT !.messages = plain]
                   ELSE [run EXCEPT !.messages = ms, !.spent = @ + bodies + digest]
  OBVIOUS
<1>7. run' = FinalStep(ladder(c))
  BY <1>2, <1>3, <1>4, <1>5, <1>6 DEF enforceBudget
<1>8. plain \in History /\ SameShape(run.messages, plain)
  <2>1. plain \in History /\ DOMAIN plain = DOMAIN run.messages
        /\ \A i \in DOMAIN run.messages : plain[i] \in {run.messages[i], [run.messages[i] EXCEPT !.size = 0]}
    BY <1>0, <1>3, EstimateElide
  <2>2. \A i \in DOMAIN run.messages : run.messages[i] \in Message
    BY <1>0, HistoryFacts
  <2>3. ASSUME NEW i \in DOMAIN run.messages
        PROVE  /\ plain[i].role = run.messages[i].role /\ plain[i].calls = run.messages[i].calls
               /\ plain[i].of = run.messages[i].of /\ plain[i].call = run.messages[i].call
    <3>1. PICK m \in Message : m = run.messages[i] /\ plain[i] \in {m, [m EXCEPT !.size = 0]}
      BY <2>1, <2>2
    <3>2. CASE plain[i] = m
      BY <3>1, <3>2
    <3>3. CASE plain[i] = [m EXCEPT !.size = 0]
      BY <3>1, <3>3 DEF Message
    <3>4. QED  BY <3>1, <3>2, <3>3
  <2>4. QED  BY <2>1, <2>3 DEF SameShape
<1>9. ms \in History /\ SameShape(plain, ms)
  BY <1>5, <1>8, DigestOK
<1>10. bodies \in Nat
  <2>1. estimateTokens(run.messages) \in Nat /\ estimateTokens(plain) \in Nat
    BY <1>0, <1>8, EstimateType
  <2>2. estimateTokens(plain) <= estimateTokens(run.messages)
    BY <1>0, <1>3, EstimateElide
  <2>3. QED  BY <1>4, <2>1, <2>2
<1>11. Paired(plain) /\ Paired(ms)
  BY <1>0, <1>8, <1>9, PairedShape
<1>12. PICK spent \in Nat, x \in History : c = [run EXCEPT !.messages = x, !.spent = spent] /\ Paired(x)
  <2>1. CASE gone = {} \/ ~scene.summarize
    <3>1. c = [run EXCEPT !.messages = plain]
      BY <1>6, <2>1
    <3>2. c = [run EXCEPT !.messages = plain, !.spent = run.spent]
      BY <1>0, <3>1 DEF RunRec
    <3>3. QED  BY <1>0, <1>8, <1>11, <3>2
  <2>2. CASE ~(gone = {} \/ ~scene.summarize)
    <3>1. c = [run EXCEPT !.messages = ms, !.spent = run.spent + bodies + digest]
      BY <1>6, <2>2
    <3>2. run.spent + bodies + digest \in Nat
      BY <1>0, <1>10
    <3>3. QED  BY <1>9, <1>11, <3>1, <3>2
  <2>3. QED  BY <2>1, <2>2
<1>13. c \in RunRec
  BY <1>0, <1>12 DEF RunRec
<1>14. c.messages = x /\ c.pc = "budget" /\ c.conceded = run.conceded /\ c.budgetStop = run.budgetStop
  BY <1>0, <1>12 DEF RunRec
<1>15. Conceding(c)
  BY <1>0, <1>14 DEF RunOK, Conceding
<1>16. RunOK(ladder(c)) /\ ladder(c).pc \in {"request", "complete"}
  BY <1>12, <1>13, <1>14, <1>15, LadderOK
<1>17. RunOK(run') /\ run'.pc \in {"request", "complete"}
  BY <1>7, <1>16, FinalStepOK
<1>18. QED  BY <1>0, <1>1, <1>17 DEF LoopStep, InLoop

\* A turn of calls and its results.
LEMMA TurnStep ==
    ASSUME TypeOK, RunOK(run), NEW turn \in scene.turns, NEW sizes \in [DOMAIN turn -> Outputs],
           Turn(turn, sizes)
    PROVE  LoopStep
<1>0. run.pc = "request" /\ run.messages \in History /\ Paired(run.messages) /\ turn \in Seq(Called)
  BY RunFields, SceneFacts DEF Turn, RunOK, TypeOK
<1>1. UNCHANGED <<scene, now, trigger, firings, completions, attempts>>
  BY DEF Turn, RunUnchanged
<1>2. PICK a : a = Answered
  OBVIOUS
<1>3. a \in RunRec /\ a.messages = run.messages /\ a.conceded <= 1 /\ (a.conceded = 1 => a.budgetStop # "none")
  BY <1>0, <1>2, AnsweredOK DEF Settled, TypeOK
<1>4. PICK terminal : terminal = {i \in DOMAIN turn : turn[i] = Submit}
  OBVIOUS
<1>5. PICK runs : runs = IF terminal = {} THEN turn ELSE SubSeq(turn, 1, Min(terminal) - 1)
  OBVIOUS
<1>6. PICK results : results = [i \in DOMAIN runs |->
                       Tool(Len(run.messages) + 1, i, runs[i], IF runs[i] \in Calls THEN sizes[i] ELSE 0)]
  OBVIOUS
<1>7. PICK ns : ns = run.messages \o <<Assistant(turn)>> \o results
  OBVIOUS
<1>8. PICK r : r = [a EXCEPT !.nudged = FALSE, !.messages = ns]
  OBVIOUS
<1>9. run' = IF terminal = {} THEN NextStep(r) ELSE [r EXCEPT !.pc = "verify", !.messages = <<>>]
  BY <1>2, <1>3, <1>4, <1>5, <1>6, <1>7, <1>8 DEF Turn
<1>10. CASE terminal = {}
  <2>1. runs = turn
    BY <1>5, <1>10
  <2>2. Len(run.messages) \in Nat /\ Len(turn) \in Nat /\ DOMAIN turn = 1..Len(turn)
        /\ \A k \in 1..Len(turn) : turn[k] \in Called
    BY <1>0, HistoryFacts
  <2>3. Len(run.messages) + 1 \in Nat
    BY <2>2
  <2>4. PICK at \in Nat : at = Len(run.messages) + 1
    BY <2>3
  <2>5. ASSUME NEW k \in 1..Len(turn)
        PROVE  /\ results[k] \in Message /\ results[k].of = <<at, k>> /\ results[k].call = turn[k]
               /\ results[k].calls = <<>>
    <3>1. PICK size \in Nat : size = IF turn[k] \in Calls THEN sizes[k] ELSE 0
      BY <2>2, LoopAssumption
    <3>2. results[k] = Tool(at, k, turn[k], size)
      BY <1>6, <2>1, <2>2, <2>4, <3>1
    <3>3. k \in Nat /\ turn[k] \in Called
      BY <2>2
    <3>4. QED  BY SMTT(30), <3>2, <3>3, MessageTypes
  <2>6. results \in Seq(Message) /\ Len(results) = Len(turn)
    <3>1. results = [k \in 1..Len(turn) |-> results[k]]
      BY <1>6, <2>1, <2>2
    <3>2. results \in [1..Len(turn) -> Message]
      BY <2>5, <3>1
    <3>3. QED  BY <2>2, <3>2
  <2>7. PICK m \in Message : m = Assistant(turn) /\ m.role = "assistant" /\ m.calls = turn
    BY <1>0, MessageTypes
  <2>8. ns \in History /\ Paired(ns)
    <3>1. \A k \in 1..Len(turn) : results[k].of = <<Len(run.messages) + 1, k>> /\ results[k].call = turn[k]
                                   /\ results[k].calls = <<>>
      BY <2>4, <2>5
    <3>2. ns = run.messages \o <<m>> \o results
      BY <1>7, <2>7
    <3>3. QED  BY <1>0, <2>6, <2>7, <3>1, <3>2, PairedTurn
  <2>9. r \in RunRec
    BY <1>3, <1>8, <2>8 DEF RunRec
  <2>10. r.messages = ns /\ r.conceded = a.conceded /\ r.budgetStop = a.budgetStop
    BY <1>3, <1>8 DEF RunRec
  <2>11. RunOK(NextStep(r)) /\ NextStep(r).pc \in {"budget", "complete"}
    BY <1>3, <2>8, <2>9, <2>10, NextStepOK
  <2>12. QED  BY <1>0, <1>1, <1>9, <1>10, <2>11 DEF LoopStep, InLoop
<1>11. CASE terminal # {}
  <2>1. run' = [r EXCEPT !.pc = "verify", !.messages = <<>>]
    BY <1>9, <1>11
  <2>2. run' = [a EXCEPT !.nudged = FALSE, !.pc = "verify", !.messages = <<>>]
    BY <1>3, <1>8, <2>1 DEF RunRec
  <2>3. run' \in RunRec
    BY <1>3, <2>2, NoMessages DEF RunRec, InLoop
  <2>4. run'.messages = <<>> /\ run'.conceded = a.conceded /\ run'.budgetStop = a.budgetStop /\ run'.pc = "verify"
    BY <1>3, <2>2 DEF RunRec
  <2>5. QED  BY <1>0, <1>1, <1>3, <2>3, <2>4, NoMessages DEF LoopStep, RunOK, Conceding, InLoop
<1>12. QED  BY <1>10, <1>11

-----------------------------------------------------------------------------
(* The gate, and the completion pipeline.                                  *)

Ends == {"running", "nil", "error", "crash"}

\* A firing's end is written.
LEMMA EndFacts ==
    ASSUME NEW fs \in Seq(FiringRec), fs # <<>>, NEW e \in Ends, NEW gs, gs = [fs EXCEPT ![Len(fs)].end = e]
    PROVE  /\ gs \in Seq(FiringRec) /\ Len(gs) = Len(fs) /\ DOMAIN gs = DOMAIN fs
           /\ Len(fs) \in DOMAIN fs /\ gs # <<>>
           /\ gs[Len(fs)].end = e
           /\ \A i \in DOMAIN fs : gs[i].decision = fs[i].decision
           /\ \A i \in DOMAIN fs : i # Len(fs) => gs[i] = fs[i]
<1>1. Len(fs) \in Nat /\ DOMAIN fs = 1..Len(fs) /\ Len(fs) \in DOMAIN fs
  BY EmptySeq
<1>2. \A i \in DOMAIN fs : fs[i] \in FiringRec
  OBVIOUS
<1>3. DOMAIN gs = DOMAIN fs /\ \A i \in DOMAIN fs : gs[i] = IF i = Len(fs) THEN [fs[i] EXCEPT !.end = e] ELSE fs[i]
  BY <1>1
<1>4. \A i \in DOMAIN fs : gs[i] \in FiringRec /\ gs[i].decision = fs[i].decision /\ (i = Len(fs) => gs[i].end = e)
  BY <1>2, <1>3 DEF FiringRec, Ends
<1>5. gs \in Seq(FiringRec) /\ Len(gs) = Len(fs)
  <2>1. gs = [i \in 1..Len(fs) |-> gs[i]]
    BY <1>1
  <2>2. gs \in [1..Len(fs) -> FiringRec]
    BY <1>1, <1>4, <2>1
  <2>3. QED  BY <1>1, <2>2
<1>6. QED  BY <1>1, <1>3, <1>4, <1>5

\* A completion's delivery, or its time.
LEMMA CompletionFacts ==
    ASSUME NEW cs \in Seq(CompletionRec), cs # <<>>, NEW ds, NEW m \in CompletionRec,
           ds = [cs EXCEPT ![Len(cs)] = m]
    PROVE  /\ ds \in Seq(CompletionRec) /\ Len(ds) = Len(cs) /\ DOMAIN ds = DOMAIN cs
           /\ Len(cs) \in DOMAIN cs /\ ds # <<>> /\ ds[Len(cs)] = m
           /\ \A i \in DOMAIN cs : i # Len(cs) => ds[i] = cs[i]
<1>1. Len(cs) \in Nat /\ DOMAIN cs = 1..Len(cs) /\ Len(cs) \in DOMAIN cs
  BY EmptySeq
<1>2. QED  BY <1>1

\* A sequence of one more.
LEMMA AppendFacts ==
    ASSUME NEW S, NEW s \in Seq(S), NEW e \in S, NEW t, t = Append(s, e)
    PROVE  /\ t \in Seq(S) /\ Len(t) = Len(s) + 1 /\ Len(s) \in Nat /\ t # <<>>
           /\ DOMAIN s = 1..Len(s) /\ DOMAIN t = 1..(Len(s) + 1) /\ t[Len(s) + 1] = e
           /\ \A i \in DOMAIN s : i \in DOMAIN t /\ t[i] = s[i] /\ i # Len(s) + 1
           /\ \A i \in DOMAIN t : i \in DOMAIN s \/ i = Len(s) + 1
<1>1. Len(s) \in Nat /\ DOMAIN s = 1..Len(s)
  OBVIOUS
<1>2. t \in Seq(S) /\ Len(t) = Len(s) + 1 /\ t[Len(s) + 1] = e /\ \A i \in 1..Len(s) : t[i] = s[i]
  OBVIOUS
<1>3. QED  BY <1>1, <1>2

\* What a run of Investigate leaves of the others' state.
LEMMA LoopStepInv ==
    ASSUME IInv, LoopStep
    PROVE  IInv'
<1>1. run'.pc # "idle" /\ run'.pc # "failed" /\ run'.pc # "open" /\ run.pc # "open"
  BY DEF LoopStep, InLoop
<1>2. TypeOK'
  BY DEF IInv, LoopStep, TypeOK, RunOK
<1>3. FiringsOK'
  BY <1>1 DEF IInv, LoopStep, FiringsOK
<1>4. CompletionsOK'
  BY <1>1 DEF IInv, LoopStep, CompletionsOK
<1>5. TriggerOK'
  BY <1>1 DEF IInv, LoopStep, TriggerOK
<1>6. QED  BY <1>2, <1>3, <1>4, <1>5 DEF IInv, LoopStep

\* A firing is taken up.
Enters(critical) == Enter(critical) /\ run.pc \in {"idle", "failed"} /\ attempts' \in Nat

\* A call of Investigate, suppressed at the gate or let in with the seed.
LEMMA EnterInv ==
    ASSUME IInv, NEW critical \in BOOLEAN, Enters(critical)
    PROVE  IInv'
<1> DEFINE d == decide(trigger, critical)
           n == Len(firings)
<1>1. d \in Decisions
  BY DEF decide, Decisions
<1>2. PICK f \in FiringRec : /\ firings' = Append(firings, f) /\ f.decision = d
                             /\ f.end = IF suppressed(d) THEN "nil" ELSE "running"
  <2>1. PICK f : f = [decision |-> d, critical |-> critical, end |-> IF suppressed(d) THEN "nil" ELSE "running"]
    OBVIOUS
  <2>2. f \in FiringRec /\ f.decision = d /\ f.end = IF suppressed(d) THEN "nil" ELSE "running"
    BY <1>1, <2>1 DEF FiringRec
  <2>3. firings' = Append(firings, f)
    BY <2>1 DEF Enters, Enter
  <2>4. QED  BY <2>2, <2>3
<1>3. run' = IF suppressed(d) THEN Idle ELSE [Idle EXCEPT !.pc = "recall", !.messages = <<Seed>>]
  BY DEF Enters, Enter
<1>4. RunOK(run') /\ run'.pc = IF suppressed(d) THEN "idle" ELSE "recall"
  <2>1. CASE suppressed(d)
    BY <1>3, <2>1, IdleOK
  <2>2. CASE ~suppressed(d)
    <3>1. run' = [Idle EXCEPT !.pc = "recall", !.messages = <<Seed>>] /\ Idle \in RunRec
      BY <1>3, <2>2, IdleOK DEF RunOK
    <3>2. run' \in RunRec
      BY <3>1, NoMessages DEF RunRec, InLoop
    <3>3. run'.pc = "recall" /\ run'.messages = <<Seed>> /\ run'.conceded = 0
      BY <3>1 DEF Idle
    <3>4. QED  BY <2>2, <3>2, <3>3, NoMessages DEF RunOK, Conceding
  <2>3. QED  BY <2>1, <2>2
<1>5. UNCHANGED <<scene, now, trigger, completions>> /\ attempts' \in Nat
  BY DEF Enters, Enter
<1>6. TypeOK /\ firings \in Seq(FiringRec) /\ run.pc \in {"idle", "failed"}
  BY DEF IInv, TypeOK, Enters
<1>7. /\ firings' \in Seq(FiringRec) /\ Len(firings') = n + 1 /\ n \in Nat /\ firings' # <<>>
      /\ DOMAIN firings = 1..n /\ DOMAIN firings' = 1..(n + 1) /\ firings'[n + 1] = f
      /\ \A i \in DOMAIN firings : i \in DOMAIN firings' /\ firings'[i] = firings[i] /\ i # n + 1
      /\ \A i \in DOMAIN firings' : i \in DOMAIN firings \/ i = n + 1
  BY <1>2, <1>6, AppendFacts
<1>8. TypeOK'
  BY <1>4, <1>5, <1>6, <1>7 DEF TypeOK, RunOK
<1>9. \A i \in DOMAIN firings : firings[i].end # "running"
  BY <1>6 DEF IInv, FiringsOK
<1>10. Last(firings') = f
  BY <1>7 DEF Last
<1>11. FiringsOK'
  BY <1>2, <1>4, <1>7, <1>9, <1>10 DEF FiringsOK, InLoop
<1>12. CompletionsOK'
  <2>1. \A j \in DOMAIN completions : completions[j].firing \in DOMAIN firings
    BY DEF IInv, CompletionsOK
  <2>2. \A j \in DOMAIN completions : /\ completions[j].firing \in DOMAIN firings'
                                      /\ firings'[completions[j].firing] = firings[completions[j].firing]
    BY <1>7, <2>1
  <2>3. \A j \in DOMAIN completions :
          LET g == firings[completions[j].firing]
          IN g.end # "error" /\ ~suppressed(g.decision) /\ g.end # "running"
    BY <1>9, <2>1 DEF IInv, CompletionsOK
  <2>4. ASSUME NEW i \in DOMAIN firings', firings'[i].end = "nil", ~suppressed(firings'[i].decision)
        PROVE  \E j \in DOMAIN completions : completions[j].firing = i /\ completions[j].told # "no"
    <3>1. i # n + 1
      BY <1>2, <1>7, <2>4
    <3>2. i \in DOMAIN firings /\ firings'[i] = firings[i]
      BY <1>7, <3>1
    <3>3. QED  BY <2>4, <3>2 DEF IInv, CompletionsOK
  <2>5. run'.pc # "open" /\ run.pc # "open"
    BY <1>4, <1>6
  <2>6. trigger.count <= Len(completions)
    BY <2>5, <1>6 DEF IInv, CompletionsOK, TypeOK, TriggerRec
  <2>7. trigger'.count + (IF run'.pc = "open" /\ run'.opens = 0 THEN 1 ELSE 0) <= Len(completions')
    BY <1>5, <1>6, <2>5, <2>6 DEF TypeOK, TriggerRec
  <2>8. \A i, j \in DOMAIN completions : completions[i].firing = completions[j].firing => i = j
    BY DEF IInv, CompletionsOK
  <2>9. QED  BY <1>5, <2>2, <2>3, <2>4, <2>5, <2>7, <2>8 DEF CompletionsOK
<1>13. TriggerOK'
  BY <1>4, <1>5 DEF IInv, TriggerOK
<1>14. QED  BY <1>4, <1>8, <1>11, <1>12, <1>13 DEF IInv

\* The call returns without a completion, or dies: an error before its completion, a
\* crash at any time.
LEMMA ReturnInv ==
    ASSUME IInv, UNCHANGED <<scene, now, trigger, completions, attempts>>,
           RunOK(run'), run'.pc \in {"idle", "failed"},
           NEW e \in {"error", "crash"}, e = "error" => run.pc # "open",
           firings # <<>>, Last(firings).end = "running",
           firings' = [firings EXCEPT ![Len(firings)].end = e]
    PROVE  IInv'
<1>1. TypeOK /\ firings \in Seq(FiringRec) /\ e \in Ends
  BY DEF IInv, TypeOK, Ends
<1>2. \A i \in DOMAIN firings : firings[i].end = "running" => i = Len(firings)
  BY DEF IInv, FiringsOK
<1>3. /\ firings' \in Seq(FiringRec) /\ DOMAIN firings' = DOMAIN firings
      /\ Len(firings) \in DOMAIN firings /\ firings' # <<>> /\ Len(firings') = Len(firings)
      /\ firings'[Len(firings)].end = e
      /\ \A i \in DOMAIN firings : firings'[i].decision = firings[i].decision
      /\ \A i \in DOMAIN firings : i # Len(firings) => firings'[i] = firings[i]
  <2>1. PICK fs : fs = firings
    OBVIOUS
  <2>2. PICK gs : gs = firings'
    OBVIOUS
  <2>3. fs \in Seq(FiringRec) /\ fs # <<>> /\ gs = [fs EXCEPT ![Len(fs)].end = e]
    BY <1>1, <2>1, <2>2
  <2>4. /\ gs \in Seq(FiringRec) /\ Len(gs) = Len(fs) /\ DOMAIN gs = DOMAIN fs
        /\ Len(fs) \in DOMAIN fs /\ gs # <<>>
        /\ gs[Len(fs)].end = e
        /\ \A i \in DOMAIN fs : gs[i].decision = fs[i].decision
        /\ \A i \in DOMAIN fs : i # Len(fs) => gs[i] = fs[i]
    <3>1. e \in Ends
      BY <1>1
    <3>2. gs \in Seq(FiringRec)
      BY <2>3, <3>1, EndFacts
    <3>7. Len(gs) = Len(fs)
      BY <2>3, <3>1, EndFacts
    <3>8. DOMAIN gs = DOMAIN fs
      BY <2>3, <3>1, EndFacts
    <3>3. Len(fs) \in DOMAIN fs /\ gs # <<>> /\ gs[Len(fs)].end = e
      BY <2>3, <3>1, EndFacts
    <3>4. \A i \in DOMAIN fs : gs[i].decision = fs[i].decision
      BY <2>3, <3>1, EndFacts
    <3>5. \A i \in DOMAIN fs : i # Len(fs) => gs[i] = fs[i]
      BY <2>3, <3>1, EndFacts
    <3>6. QED  BY <3>2, <3>3, <3>4, <3>5, <3>7, <3>8
  <2>5. QED  BY <2>1, <2>2, <2>4
<1>4. TypeOK'
  BY <1>1, <1>3 DEF TypeOK, RunOK
<1>5. FiringsOK'
  <2>1. ASSUME NEW i \in DOMAIN firings' PROVE firings'[i].end # "running"
    BY <1>2, <1>3
  <2>2. QED  BY <1>3, <2>1 DEF FiringsOK, InLoop
<1>6. CompletionsOK'
  <2>1. firings[Len(firings)].end = "running"
    BY DEF Last
  <2>2. \A j \in DOMAIN completions : completions[j].firing \in DOMAIN firings
    BY DEF IInv, CompletionsOK
  <2>3. ASSUME NEW j \in DOMAIN completions
        PROVE  LET f == firings'[completions[j].firing]
               IN f.end # "error" /\ ~suppressed(f.decision) /\ f.end # "running"
    <3>1. PICK i \in DOMAIN firings : i = completions[j].firing
      BY <2>2
    <3>2. /\ firings[i].end # "error" /\ ~suppressed(firings[i].decision)
          /\ firings[i].end = "running" => run.pc = "open"
      BY <3>1 DEF IInv, CompletionsOK
    <3>3. firings'[i].decision = firings[i].decision
      BY <1>3
    <3>4. CASE i = Len(firings)
      BY <1>3, <2>1, <3>1, <3>2, <3>3, <3>4
    <3>5. CASE i # Len(firings)
      BY <1>2, <1>3, <3>1, <3>2, <3>5
    <3>6. QED  BY <3>4, <3>5
  <2>4. ASSUME NEW i \in DOMAIN firings', firings'[i].end = "nil", ~suppressed(firings'[i].decision)
        PROVE  \E j \in DOMAIN completions : completions[j].firing = i /\ completions[j].told # "no"
    <3>1. firings'[i] = firings[i] /\ i \in DOMAIN firings
      BY <1>3, <2>4
    <3>2. QED  BY <2>4, <3>1 DEF IInv, CompletionsOK
  <2>5. trigger.count <= Len(completions) /\ run'.pc # "open"
    BY DEF IInv, CompletionsOK, TypeOK, TriggerRec
  <2>6. trigger'.count + (IF run'.pc = "open" /\ run'.opens = 0 THEN 1 ELSE 0) <= Len(completions')
    BY <2>5 DEF IInv, TypeOK, TriggerRec
  <2>7. \A i, j \in DOMAIN completions : completions[i].firing = completions[j].firing => i = j
    BY DEF IInv, CompletionsOK
  <2>8. QED  BY <1>3, <2>2, <2>3, <2>4, <2>5, <2>6, <2>7 DEF CompletionsOK
<1>7. TriggerOK'
  BY DEF IInv, TriggerOK
<1>8. QED  BY <1>4, <1>5, <1>6, <1>7 DEF IInv

\* The completion fails before the deadline: the queue may call again.
LEMMA ErrorInv ==
    ASSUME IInv, NEW usage, CompleteFails(usage), ~run.expired
    PROVE  IInv'
<1>1. UNCHANGED <<scene, now, trigger, completions, attempts>> /\ run.pc = "request"
      /\ run' = [Idle EXCEPT !.pc = "failed"] /\ firings' = [firings EXCEPT ![Len(firings)].end = "error"]
  BY DEF CompleteFails, RunUnchanged, Return
<1>2. firings # <<>> /\ Last(firings).end = "running"
  BY <1>1 DEF IInv, FiringsOK, InLoop
<1>3. RunOK(run') /\ run'.pc = "failed"
  <2>1. Idle \in RunRec
    BY IdleOK DEF RunOK
  <2>2. run' \in RunRec
    BY <1>1, <2>1 DEF RunRec
  <2>3. run'.pc = "failed" /\ run'.messages = <<>> /\ run'.conceded = 0
    BY <1>1 DEF Idle
  <2>4. QED  BY <2>2, <2>3, NoMessages DEF RunOK, Conceding, InLoop
<1>4. PICK e \in {"error", "crash"} : e = "error"
  OBVIOUS
<1>5. QED  BY <1>1, <1>2, <1>3, <1>4, ReturnInv

\* The run is over, however; nothing else changes.
LEMMA IdleInv ==
    ASSUME IInv, UNCHANGED <<scene, now, trigger, firings, completions, attempts>>, run' = Idle,
           \A i \in DOMAIN firings : firings[i].end # "running"
    PROVE  IInv'
<1>1. RunOK(run') /\ run'.pc = "idle"
  BY IdleOK
<1>2. TypeOK'
  BY <1>1 DEF IInv, TypeOK, RunOK
<1>3. FiringsOK'
  BY <1>1 DEF FiringsOK, InLoop
<1>4. CompletionsOK'
  <2>1. trigger.count \in Nat /\ Len(completions) \in Nat
    BY DEF IInv, TypeOK, TriggerRec
  <2>2. trigger.count <= Len(completions)
    BY <2>1 DEF IInv, CompletionsOK
  <2>3. trigger'.count + (IF run'.pc = "open" /\ run'.opens = 0 THEN 1 ELSE 0) <= Len(completions')
    BY <1>1, <2>1, <2>2
  <2>4. QED  BY <1>1, <2>3 DEF IInv, CompletionsOK
<1>5. TriggerOK'
  BY <1>1 DEF IInv, TriggerOK
<1>6. QED  BY <1>1, <1>2, <1>3, <1>4, <1>5 DEF IInv

\* The queue gives an investigation that failed up.
LEMMA DropInv ==
    ASSUME IInv, Drop
    PROVE  IInv'
<1>1. UNCHANGED <<scene, now, trigger, firings, completions, attempts>> /\ run' = Idle /\ run.pc = "failed"
  BY DEF Drop, RunUnchanged
<1>2. \A i \in DOMAIN firings : firings[i].end # "running"
  BY <1>1 DEF IInv, FiringsOK
<1>3. QED  BY <1>1, <1>2, IdleInv

\* The process dies, before or after an error.
LEMMA CrashInv ==
    ASSUME IInv, Crash
    PROVE  IInv'
<1>1. UNCHANGED <<scene, now, trigger, completions, attempts>> /\ run' = Idle /\ run.pc # "idle"
  BY DEF Crash, RunUnchanged
<1>2. RunOK(run') /\ run'.pc = "idle"
  BY <1>1, IdleOK
<1>3. firings # <<>>
  <2>1. run.pc \in InLoop \cup {"idle", "complete", "open", "failed"}
    BY DEF IInv, TypeOK, RunRec
  <2>2. QED  BY <1>1, <2>1 DEF IInv, FiringsOK
<1>4. CASE Last(firings).end = "running"
  <2>1. firings' = [firings EXCEPT ![Len(firings)].end = "crash"]
    BY <1>4 DEF Crash, Return
  <2>2. PICK e \in {"error", "crash"} : e = "crash"
    OBVIOUS
  <2>3. QED  BY <1>1, <1>2, <1>3, <1>4, <2>1, <2>2, ReturnInv
<1>5. CASE Last(firings).end # "running"
  <2>1. UNCHANGED firings
    BY <1>5 DEF Crash
  <2>2. \A i \in DOMAIN firings : firings[i].end # "running"
    BY <1>5 DEF IInv, FiringsOK, Last
  <2>3. QED  BY <1>1, <2>1, <2>2, IdleInv
<1>6. QED  BY <1>4, <1>5

\* Time passes.
LEMMA TickInv ==
    ASSUME IInv, Tick
    PROVE  IInv'
<1>1. UNCHANGED <<scene, trigger, firings, run, completions, attempts>> /\ now' = now + 1
  BY DEF Tick
<1>2. TypeOK'
  BY <1>1 DEF IInv, TypeOK
<1>3. FiringsOK' /\ CompletionsOK' /\ TriggerOK' /\ RunOK(run')
  BY <1>1 DEF IInv, FiringsOK, CompletionsOK, TriggerOK
<1>4. QED  BY <1>2, <1>3 DEF IInv

\* A human's word changes neither the occurrences nor their answers; a silence has a
\* time.
LEMMA HumanInv ==
    ASSUME IInv, Human
    PROVE  IInv'
<1>1. UNCHANGED <<scene, now, firings, run, completions, attempts>>
  BY DEF Human
<1>2. trigger \in TriggerRec /\ now \in Nat \ {0} /\ Window \in Nat /\ now + Window \in Nat /\ 0 \in Nat
  BY LoopAssumption DEF IInv, TypeOK
<1>3. /\ trigger' \in TriggerRec /\ trigger'.count = trigger.count /\ trigger'.last = trigger.last
      /\ trigger'.concluded = trigger.concluded
      /\ trigger'.silencedAt = 0 => trigger.silencedAt = 0 /\ trigger'.silencedUntil = trigger.silencedUntil
  <2>1. CASE trigger' = [trigger EXCEPT !.downAt = now]
    BY <1>2, <2>1 DEF TriggerRec
  <2>2. CASE trigger' = [trigger EXCEPT !.downAt = 0]
    BY <1>2, <2>2 DEF TriggerRec
  <2>3. CASE trigger' = [trigger EXCEPT !.silencedAt = now, !.silencedUntil = now + Window]
    <3>1. PICK until \in Nat : until = now + Window
      BY <1>2
    <3>2. trigger' = [trigger EXCEPT !.silencedAt = now, !.silencedUntil = until]
      BY <2>3, <3>1
    <3>3. QED  BY <1>2, <3>2 DEF TriggerRec
  <2>4. QED  BY <2>1, <2>2, <2>3 DEF Human
<1>4. TypeOK'
  BY <1>1, <1>3 DEF IInv, TypeOK
<1>5. FiringsOK' /\ CompletionsOK' /\ RunOK(run')
  BY <1>1, <1>3 DEF IInv, FiringsOK, CompletionsOK
<1>6. TriggerOK'
  BY <1>1, <1>3 DEF IInv, TriggerOK
<1>7. QED  BY <1>4, <1>5, <1>6 DEF IInv

\* The investigation is completed: the firing's only completion.
LEMMA CurateInv ==
    ASSUME IInv, Curate
    PROVE  IInv'
<1> DEFINE n == Len(completions)
<1>1. /\ UNCHANGED <<scene, now, trigger, firings, attempts>> /\ run.pc = "complete"
      /\ run' = [run EXCEPT !.pc = "open"]
  BY DEF Curate
<1>2. /\ TypeOK /\ firings \in Seq(FiringRec) /\ completions \in Seq(CompletionRec) /\ run \in RunRec
      /\ now \in Nat /\ trigger \in TriggerRec
  BY DEF IInv, TypeOK
<1>3. /\ firings # <<>> /\ Last(firings).end = "running" /\ ~suppressed(Last(firings).decision)
      /\ \A i \in DOMAIN firings : firings[i].end = "running" => i = Len(firings)
  BY <1>1 DEF IInv, FiringsOK
<1>4. Len(firings) \in DOMAIN firings /\ Len(firings) \in Nat /\ Last(firings) = firings[Len(firings)]
  BY <1>2, <1>3, EmptySeq DEF Last
<1>5. PICK c \in CompletionRec : completions' = Append(completions, c) /\ c.firing = Len(firings)
                                 /\ c.conclusive = run.conclusive
  <2>1. PICK c : c = [firing |-> Len(firings), at |-> now, conclusive |-> run.conclusive, told |-> "no"]
    OBVIOUS
  <2>2. run.conclusive \in BOOLEAN
    BY <1>2 DEF RunRec
  <2>3. c \in CompletionRec /\ c.firing = Len(firings) /\ c.conclusive = run.conclusive
    BY <1>2, <1>4, <2>1, <2>2 DEF CompletionRec
  <2>4. completions' = Append(completions, c)
    BY <2>1 DEF Curate
  <2>5. QED  BY <2>3, <2>4
<1>6. /\ completions' \in Seq(CompletionRec) /\ Len(completions') = n + 1 /\ n \in Nat /\ completions' # <<>>
      /\ DOMAIN completions = 1..n /\ DOMAIN completions' = 1..(n + 1) /\ completions'[n + 1] = c
      /\ \A i \in DOMAIN completions : i \in DOMAIN completions' /\ completions'[i] = completions[i] /\ i # n + 1
      /\ \A i \in DOMAIN completions' : i \in DOMAIN completions \/ i = n + 1
  BY <1>2, <1>5, AppendFacts
<1>7. RunOK(run') /\ run'.pc = "open" /\ run'.conclusive = run.conclusive
  <2>1. /\ run' \in RunRec /\ run'.pc = "open" /\ run'.messages = run.messages
        /\ run'.conceded = run.conceded /\ run'.conclusive = run.conclusive
    BY <1>1, <1>2 DEF RunRec
  <2>2. QED  BY <2>1 DEF IInv, RunOK, Conceding, InLoop
<1>8. TypeOK'
  BY <1>1, <1>2, <1>6, <1>7 DEF TypeOK, RunOK
<1>9. FiringsOK'
  BY <1>1, <1>3, <1>7 DEF FiringsOK
<1>10. Last(completions') = c
  BY <1>6 DEF Last
<1>11. CompletionsOK'
  <2>1. \A j \in DOMAIN completions : completions[j].firing \in DOMAIN firings /\ completions[j].firing # Len(firings)
    BY <1>1, <1>3, <1>4 DEF IInv, CompletionsOK
  <2>2. \A j \in DOMAIN completions' : completions'[j].firing \in DOMAIN firings
    BY <1>4, <1>5, <1>6, <2>1
  <2>3. \A i, j \in DOMAIN completions' : completions'[i].firing = completions'[j].firing => i = j
    <3>1. \A i, j \in DOMAIN completions : completions[i].firing = completions[j].firing => i = j
      BY DEF IInv, CompletionsOK
    <3>2. QED  BY <1>5, <1>6, <2>1, <3>1
  <2>4. ASSUME NEW j \in DOMAIN completions'
        PROVE  LET f == firings[completions'[j].firing] IN f.end # "error" /\ ~suppressed(f.decision)
    <3>1. CASE j \in DOMAIN completions
      BY <1>6, <3>1 DEF IInv, CompletionsOK
    <3>2. CASE j = n + 1
      BY <1>3, <1>4, <1>5, <1>6, <3>2
    <3>3. QED  BY <1>6, <3>1, <3>2
  <2>5. ASSUME NEW i \in DOMAIN firings, firings[i].end = "nil", ~suppressed(firings[i].decision)
        PROVE  \E j \in DOMAIN completions' : completions'[j].firing = i /\ completions'[j].told # "no"
    <3>1. PICK j \in DOMAIN completions : completions[j].firing = i /\ completions[j].told # "no"
      BY <2>5 DEF IInv, CompletionsOK
    <3>2. QED  BY <1>6, <3>1
  <2>6. trigger.count <= n /\ trigger.count \in Nat
    BY <1>1, <1>2, <1>6 DEF IInv, CompletionsOK, TriggerRec
  <2>7. trigger'.count + (IF run'.pc = "open" /\ run'.opens = 0 THEN 1 ELSE 0) <= Len(completions')
    BY <1>1, <1>6, <2>6
  <2>8. QED  BY <1>1, <1>5, <1>6, <1>7, <1>10, <2>2, <2>3, <2>4, <2>5, <2>7 DEF CompletionsOK
<1>12. TriggerOK'
  <2>1. trigger.concluded => \E i \in DOMAIN completions' : completions'[i].conclusive
    <3>1. SUFFICES ASSUME trigger.concluded PROVE \E i \in DOMAIN completions' : completions'[i].conclusive
      OBVIOUS
    <3>2. PICK i \in DOMAIN completions : completions[i].conclusive
      BY <3>1 DEF IInv, TriggerOK
    <3>3. QED  BY <1>6, <3>2
  <2>2. trigger.count > 0 => \E i \in DOMAIN completions' : completions'[i].at = trigger.last
    <3>1. SUFFICES ASSUME trigger.count > 0 PROVE \E i \in DOMAIN completions' : completions'[i].at = trigger.last
      OBVIOUS
    <3>2. PICK i \in DOMAIN completions : completions[i].at = trigger.last
      BY <3>1 DEF IInv, TriggerOK
    <3>3. QED  BY <1>6, <3>2
  <2>3. QED  BY <1>1, <1>5, <1>6, <1>7, <1>10, <2>1, <2>2 DEF IInv, TriggerOK
<1>13. QED  BY <1>7, <1>8, <1>9, <1>11, <1>12 DEF IInv

\* A completion is amended: neither whose it is nor what it concluded.
LEMMA AmendFacts ==
    ASSUME NEW cs \in Seq(CompletionRec), cs # <<>>, NEW ds, NEW m \in CompletionRec,
           ds = [cs EXCEPT ![Len(cs)] = m],
           m.firing = cs[Len(cs)].firing, m.conclusive = cs[Len(cs)].conclusive
    PROVE  /\ ds \in Seq(CompletionRec) /\ Len(ds) = Len(cs) /\ DOMAIN ds = DOMAIN cs
           /\ Len(cs) \in DOMAIN cs /\ ds # <<>> /\ ds[Len(cs)] = m
           /\ \A i \in DOMAIN cs : ds[i].firing = cs[i].firing /\ ds[i].conclusive = cs[i].conclusive
           /\ \A i \in DOMAIN cs : i # Len(cs) => ds[i] = cs[i]
<1>1. /\ ds \in Seq(CompletionRec) /\ Len(ds) = Len(cs) /\ DOMAIN ds = DOMAIN cs
      /\ Len(cs) \in DOMAIN cs /\ ds # <<>> /\ ds[Len(cs)] = m
      /\ \A i \in DOMAIN cs : i # Len(cs) => ds[i] = cs[i]
  BY CompletionFacts
<1>2. \A i \in DOMAIN cs : ds[i].firing = cs[i].firing /\ ds[i].conclusive = cs[i].conclusive
  BY <1>1
<1>3. QED  BY <1>1, <1>2

\* One occurrence of the trigger for a completion, with its answer and its time.
LEMMA RecordOpenInv ==
    ASSUME IInv, NEW written \in BOOLEAN, RecordOpen(written)
    PROVE  IInv'
<1>1. /\ UNCHANGED <<scene, now, firings, attempts>> /\ run.pc = "open"
      /\ run' = [run EXCEPT !.opens = run.opens + 1]
  BY DEF RecordOpen
<1>2. /\ TypeOK /\ completions \in Seq(CompletionRec) /\ run \in RunRec /\ run.opens \in Nat
      /\ now \in Nat /\ trigger \in TriggerRec /\ trigger.count \in Nat /\ run.conclusive \in BOOLEAN
  BY DEF IInv, TypeOK, RunRec, TriggerRec
<1>3. RunOK(run') /\ run'.pc = "open" /\ run'.conclusive = run.conclusive /\ run'.opens = run.opens + 1
  <2>1. PICK opens \in Nat : opens = run.opens + 1
    BY <1>2
  <2>2. /\ run' \in RunRec /\ run'.pc = run.pc /\ run'.messages = run.messages /\ run'.opens = opens
        /\ run'.conceded = run.conceded /\ run'.conclusive = run.conclusive
    BY <1>1, <1>2, <2>1 DEF RunRec
  <2>3. QED  BY <1>1, <2>1, <2>2 DEF IInv, RunOK, Conceding, InLoop
<1>4. FiringsOK'
  BY <1>1, <1>3 DEF IInv, FiringsOK
<1>5. completions # <<>> /\ Last(completions).firing = Len(firings) /\ Last(completions).conclusive = run.conclusive
      /\ Last(completions) = completions[Len(completions)]
  BY <1>1 DEF IInv, CompletionsOK, TriggerOK, Last
<1>6. /\ trigger.count + (IF run.opens = 0 THEN 1 ELSE 0) <= Len(completions) /\ Len(completions) \in Nat
      /\ run'.opens # 0
  BY <1>1, <1>2, <1>3 DEF IInv, CompletionsOK
<1>7. CASE ~(written /\ run.opens = 0)
  <2>1. UNCHANGED <<trigger, completions>>
    BY <1>7 DEF RecordOpen
  <2>2. TypeOK'
    BY <1>1, <1>2, <1>3, <2>1 DEF TypeOK, RunOK
  <2>3. trigger'.count + (IF run'.pc = "open" /\ run'.opens = 0 THEN 1 ELSE 0) <= Len(completions')
    BY <1>2, <1>6, <2>1
  <2>4. CompletionsOK'
    BY <1>1, <1>3, <2>1, <2>3 DEF IInv, CompletionsOK
  <2>5. TriggerOK'
    BY <1>1, <1>3, <2>1 DEF IInv, TriggerOK
  <2>6. QED  BY <1>3, <1>4, <2>2, <2>4, <2>5 DEF IInv
<1>8. CASE written /\ run.opens = 0
  <2>1. /\ trigger' = [trigger EXCEPT !.count = @ + 1, !.last = now, !.concluded = @ \/ run.conclusive]
        /\ completions' = [completions EXCEPT ![Len(completions)].at = now]
    BY <1>8 DEF RecordOpen
  <2>2. PICK l : l = completions[Len(completions)]
    OBVIOUS
  <2>3. l \in CompletionRec
    BY <1>2, <1>5, <2>2, EmptySeq
  <2>4. PICK m \in CompletionRec : m = [l EXCEPT !.at = now] /\ m.firing = l.firing
                                   /\ m.conclusive = l.conclusive /\ m.told = l.told /\ m.at = now
    <3>1. PICK m : m = [l EXCEPT !.at = now]
      OBVIOUS
    <3>2. m \in CompletionRec
      BY <1>2, <2>3, <3>1 DEF CompletionRec
    <3>3. m.firing = l.firing /\ m.conclusive = l.conclusive /\ m.told = l.told /\ m.at = now
      BY <2>3, <3>1 DEF CompletionRec
    <3>4. QED  BY <3>1, <3>2, <3>3
  <2>5. PICK cs \in Seq(CompletionRec) : cs = completions
    BY <1>2
  <2>6. PICK ds : ds = completions'
    OBVIOUS
  <2>7. ds = [cs EXCEPT ![Len(cs)] = m]
    BY <2>1, <2>2, <2>4, <2>5, <2>6
  <2>8. cs # <<>> /\ m.firing = cs[Len(cs)].firing /\ m.conclusive = cs[Len(cs)].conclusive
    BY <1>5, <2>2, <2>4, <2>5
  <2>9. /\ ds \in Seq(CompletionRec) /\ Len(ds) = Len(cs) /\ DOMAIN ds = DOMAIN cs
        /\ Len(cs) \in DOMAIN cs /\ ds # <<>> /\ ds[Len(cs)] = m
        /\ \A i \in DOMAIN cs : ds[i].firing = cs[i].firing /\ ds[i].conclusive = cs[i].conclusive
        /\ \A i \in DOMAIN cs : i # Len(cs) => ds[i] = cs[i]
    BY <2>7, <2>8, AmendFacts, Zenon
  <2>10. \A i \in DOMAIN cs : ds[i].told = cs[i].told
    BY <2>2, <2>4, <2>5, <2>9
  <2>11. /\ trigger' \in TriggerRec /\ trigger'.count = trigger.count + 1 /\ trigger'.last = now
         /\ trigger'.concluded = (trigger.concluded \/ run.conclusive)
         /\ trigger'.silencedAt = trigger.silencedAt /\ trigger'.silencedUntil = trigger.silencedUntil
    <3>1. PICK count \in Nat : count = trigger.count + 1
      BY <1>2
    <3>2. PICK concluded \in BOOLEAN : concluded = (trigger.concluded \/ run.conclusive)
      BY <1>2 DEF TriggerRec
    <3>3. trigger' = [trigger EXCEPT !.count = count, !.last = now, !.concluded = concluded]
      BY <2>1, <3>1, <3>2
    <3>4. QED  BY <1>2, <3>1, <3>2, <3>3 DEF TriggerRec
  <2>12. TypeOK'
    BY <1>1, <1>2, <1>3, <2>6, <2>9, <2>11 DEF TypeOK, RunOK
  <2>13. CompletionsOK'
    <3>1. trigger'.count + (IF run'.pc = "open" /\ run'.opens = 0 THEN 1 ELSE 0) <= Len(completions')
      BY <1>2, <1>6, <1>8, <2>5, <2>6, <2>9, <2>11
    <3>2. completions' # <<>> /\ Last(completions').firing = Len(firings)
      <4>1. Last(completions') = ds[Len(ds)]
        BY <2>6 DEF Last
      <4>2. QED  BY <1>5, <2>4, <2>5, <2>6, <2>8, <2>9, <4>1
    <3>3. \A j \in DOMAIN ds : ds[j].firing \in DOMAIN firings
      BY <2>5, <2>9 DEF IInv, CompletionsOK
    <3>4. \A i, j \in DOMAIN ds : ds[i].firing = ds[j].firing => i = j
      BY <2>5, <2>9 DEF IInv, CompletionsOK
    <3>5. \A j \in DOMAIN ds : LET f == firings[ds[j].firing]
                               IN f.end # "error" /\ ~suppressed(f.decision) /\ (f.end = "running" => run.pc = "open")
      BY <2>5, <2>9 DEF IInv, CompletionsOK
    <3>6. \A i \in DOMAIN firings : firings[i].end = "nil" /\ ~suppressed(firings[i].decision) =>
              \E j \in DOMAIN ds : ds[j].firing = i /\ ds[j].told # "no"
      BY <2>5, <2>9, <2>10 DEF IInv, CompletionsOK
    <3>7. QED  BY <1>1, <1>3, <2>6, <3>1, <3>2, <3>3, <3>4, <3>5, <3>6 DEF CompletionsOK
  <2>14. TriggerOK'
    <3>1. trigger'.concluded => \E i \in DOMAIN ds : ds[i].conclusive
      <4>1. CASE run.conclusive
        <5>1. ds[Len(cs)].conclusive /\ Len(cs) \in DOMAIN ds
          BY <1>5, <2>4, <2>5, <2>8, <2>9, <4>1
        <5>2. QED  BY <5>1
      <4>2. CASE trigger.concluded
        BY <2>5, <2>9, <4>2 DEF IInv, TriggerOK
      <4>3. QED  BY <2>11, <4>1, <4>2
    <3>2. Last(completions').conclusive = run.conclusive
      <4>1. Last(completions') = ds[Len(ds)]
        BY <2>6 DEF Last
      <4>2. QED  BY <1>5, <2>5, <2>8, <2>9, <4>1
    <3>3. \E i \in DOMAIN ds : ds[i].at = trigger'.last
      <4>1. ds[Len(cs)].at = trigger'.last /\ Len(cs) \in DOMAIN ds
        BY <2>4, <2>9, <2>11
      <4>2. QED  BY <4>1
    <3>4. trigger'.silencedAt = 0 => trigger'.silencedUntil = 0
      BY <2>11 DEF IInv, TriggerOK
    <3>5. QED  BY <1>3, <2>6, <2>9, <3>1, <3>2, <3>3, <3>4 DEF TriggerOK
  <2>15. QED  BY <1>3, <1>4, <2>12, <2>13, <2>14 DEF IInv
<1>9. QED  BY <1>7, <1>8

\* The firing is over, with a completion that was told.
LEMMA DeliverInv ==
    ASSUME IInv, NEW told \in BOOLEAN, Deliver(told)
    PROVE  IInv'
<1>1. /\ UNCHANGED <<scene, now, trigger, attempts>> /\ run.pc = "open" /\ run' = Idle
      /\ firings' = [firings EXCEPT ![Len(firings)].end = "nil"]
  BY DEF Deliver, Return
<1>2. /\ TypeOK /\ completions \in Seq(CompletionRec) /\ firings \in Seq(FiringRec)
      /\ trigger \in TriggerRec /\ trigger.count \in Nat
  BY DEF IInv, TypeOK, TriggerRec
<1>3. RunOK(run') /\ run'.pc = "idle"
  BY <1>1, IdleOK
<1>4. /\ firings # <<>> /\ Last(firings).end = "running"
      /\ \A i \in DOMAIN firings : firings[i].end = "running" => i = Len(firings)
  BY <1>1 DEF IInv, FiringsOK
<1>5. /\ completions # <<>> /\ completions[Len(completions)].firing = Len(firings)
      /\ trigger.count <= Len(completions) /\ Len(completions) \in Nat
  BY <1>1, <1>2 DEF IInv, CompletionsOK, Last
<1>6. PICK fs \in Seq(FiringRec) : fs = firings
  BY <1>2
<1>7. PICK gs : gs = firings'
  OBVIOUS
<1>8. /\ gs \in Seq(FiringRec) /\ Len(gs) = Len(fs) /\ DOMAIN gs = DOMAIN fs
      /\ Len(fs) \in DOMAIN fs /\ gs # <<>> /\ gs[Len(fs)].end = "nil"
      /\ \A i \in DOMAIN fs : gs[i].decision = fs[i].decision
      /\ \A i \in DOMAIN fs : i # Len(fs) => gs[i] = fs[i]
  <2>1. PICK e \in Ends : e = "nil"
    BY DEF Ends
  <2>2. fs # <<>> /\ gs = [fs EXCEPT ![Len(fs)].end = e]
    BY <1>1, <1>4, <1>6, <1>7, <2>1
  <2>3. QED  BY <2>1, <2>2, EndFacts
<1>9. PICK cs \in Seq(CompletionRec) : cs = completions
  BY <1>2
<1>10. PICK ds : ds = completions'
  OBVIOUS
<1>11. PICK m \in CompletionRec : /\ ds = [cs EXCEPT ![Len(cs)] = m] /\ m.told # "no"
                                  /\ m.firing = cs[Len(cs)].firing /\ m.conclusive = cs[Len(cs)].conclusive
                                  /\ m.at = cs[Len(cs)].at
  <2>1. PICK l : l = cs[Len(cs)]
    OBVIOUS
  <2>2. l \in CompletionRec
    BY <1>5, <1>9, <2>1, EmptySeq
  <2>3. PICK word \in {"yes", "failed"} : completions' = [completions EXCEPT ![Len(completions)].told = word]
    BY DEF Deliver
  <2>4. PICK m : m = [l EXCEPT !.told = word]
    OBVIOUS
  <2>5. m \in CompletionRec /\ m.told # "no" /\ m.firing = l.firing /\ m.conclusive = l.conclusive /\ m.at = l.at
    BY <2>2, <2>3, <2>4 DEF CompletionRec
  <2>6. ds = [cs EXCEPT ![Len(cs)] = m]
    BY <1>9, <1>10, <2>1, <2>3, <2>4
  <2>7. QED  BY <2>1, <2>5, <2>6
<1>12. /\ ds \in Seq(CompletionRec) /\ Len(ds) = Len(cs) /\ DOMAIN ds = DOMAIN cs
       /\ Len(cs) \in DOMAIN cs /\ ds # <<>> /\ ds[Len(cs)] = m
       /\ \A i \in DOMAIN cs : ds[i].firing = cs[i].firing /\ ds[i].conclusive = cs[i].conclusive
       /\ \A i \in DOMAIN cs : i # Len(cs) => ds[i] = cs[i]
  <2>1. cs # <<>> /\ ds = [cs EXCEPT ![Len(cs)] = m] /\ m.firing = cs[Len(cs)].firing /\ m.conclusive = cs[Len(cs)].conclusive
    BY <1>5, <1>9, <1>11
  <2>2. QED  BY <2>1, AmendFacts, Zenon
<1>13. \A i \in DOMAIN cs : ds[i].at = cs[i].at /\ (cs[i].told # "no" => ds[i].told # "no")
  BY <1>11, <1>12
<1>14. TypeOK'
  BY <1>1, <1>2, <1>3, <1>7, <1>8, <1>10, <1>12 DEF TypeOK, RunOK
<1>15. \A i \in DOMAIN gs : gs[i].end # "running"
  BY <1>4, <1>6, <1>8
<1>16. FiringsOK'
  BY <1>3, <1>7, <1>8, <1>15 DEF FiringsOK, InLoop
<1>17. CompletionsOK'
  <2>1. \A j \in DOMAIN ds : ds[j].firing \in DOMAIN gs
    BY <1>6, <1>8, <1>9, <1>12 DEF IInv, CompletionsOK
  <2>2. \A i, j \in DOMAIN ds : ds[i].firing = ds[j].firing => i = j
    BY <1>9, <1>12 DEF IInv, CompletionsOK
  <2>3. ASSUME NEW j \in DOMAIN ds
        PROVE  LET f == gs[ds[j].firing] IN f.end # "error" /\ ~suppressed(f.decision) /\ f.end # "running"
    <3>1. PICK i \in DOMAIN fs : i = ds[j].firing /\ i = cs[j].firing /\ j \in DOMAIN cs
      BY <1>8, <1>12, <2>1
    <3>2. fs[i].end # "error" /\ ~suppressed(fs[i].decision)
      BY <1>6, <1>9, <3>1 DEF IInv, CompletionsOK
    <3>3. gs[i].decision = fs[i].decision /\ gs[i].end # "running" /\ (gs[i].end = "nil" \/ gs[i] = fs[i])
      BY <1>8, <1>15
    <3>4. QED  BY <3>1, <3>2, <3>3
  <2>4. ASSUME NEW i \in DOMAIN gs, gs[i].end = "nil", ~suppressed(gs[i].decision)
        PROVE  \E j \in DOMAIN ds : ds[j].firing = i /\ ds[j].told # "no"
    <3>1. CASE i = Len(fs)
      BY <1>5, <1>6, <1>9, <1>11, <1>12, <3>1
    <3>2. CASE i # Len(fs)
      <4>1. i \in DOMAIN firings /\ firings[i].end = "nil" /\ ~suppressed(firings[i].decision)
        BY <1>6, <1>8, <2>4, <3>2
      <4>2. PICK j \in DOMAIN cs : cs[j].firing = i /\ cs[j].told # "no"
        BY <1>9, <4>1 DEF IInv, CompletionsOK
      <4>3. QED  BY <1>12, <1>13, <4>2
    <3>3. QED  BY <3>1, <3>2
  <2>5. trigger'.count + (IF run'.pc = "open" /\ run'.opens = 0 THEN 1 ELSE 0) <= Len(completions')
    BY <1>1, <1>2, <1>3, <1>5, <1>9, <1>10, <1>12
  <2>6. QED  BY <1>3, <1>7, <1>10, <2>1, <2>2, <2>3, <2>4, <2>5 DEF CompletionsOK
<1>18. TriggerOK'
  <2>1. trigger.concluded => \E i \in DOMAIN ds : ds[i].conclusive
    <3>1. trigger.concluded => \E i \in DOMAIN cs : cs[i].conclusive
      BY <1>9 DEF IInv, TriggerOK
    <3>2. QED  BY <1>12, <3>1
  <2>2. trigger.count > 0 => \E i \in DOMAIN ds : ds[i].at = trigger.last
    <3>1. trigger.count > 0 => \E i \in DOMAIN cs : cs[i].at = trigger.last
      BY <1>9 DEF IInv, TriggerOK
    <3>2. QED  BY <1>12, <1>13, <3>1
  <2>3. trigger.silencedAt = 0 => trigger.silencedUntil = 0
    BY DEF IInv, TriggerOK
  <2>4. QED  BY <1>1, <1>3, <1>10, <2>1, <2>2, <2>3 DEF TriggerOK
<1>19. QED  BY <1>3, <1>14, <1>16, <1>17, <1>18 DEF IInv

-----------------------------------------------------------------------------
(* The steps, and the invariant.                                           *)

\* What a step does: it takes a firing up, runs Investigate, or ends what runs.
LEMMA StepKinds ==
    ASSUME IInv, Next
    PROVE  \/ \E critical \in BOOLEAN : Enters(critical)
           \/ LoopStep
           \/ \E usage : CompleteFails(usage) /\ ~run.expired
           \/ Curate \/ \E ok \in BOOLEAN : RecordOpen(ok) \/ Deliver(ok)
           \/ Drop \/ Crash \/ Tick \/ Human
<1>1. TypeOK /\ RunOK(run) /\ Reply \in Nat /\ {0, 1} \subseteq Nat
  BY LoopAssumption DEF IInv
<1>2. CASE \E critical \in BOOLEAN : Fire(critical)
  <2>1. PICK critical \in BOOLEAN : Fire(critical)
    BY <1>2
  <2>2. Enters(critical)
    BY <2>1 DEF Fire, Enters
  <2>3. QED  BY <2>2
<1>3. CASE Retry
  <2>1. firings # <<>> /\ firings \in Seq(FiringRec) /\ attempts \in Nat /\ run.pc = "failed"
    BY <1>1, <1>3 DEF Retry, IInv, FiringsOK, TypeOK
  <2>2. Last(firings) \in FiringRec
    <3>1. Len(firings) \in DOMAIN firings
      BY <2>1, EmptySeq
    <3>2. QED  BY <2>1, <3>1 DEF Last
  <2>3. PICK critical \in BOOLEAN : critical = Last(firings).critical
    BY <2>2 DEF FiringRec
  <2>4. Enters(critical)
    BY <1>3, <2>1, <2>3 DEF Retry, Enters
  <2>5. QED  BY <2>4
<1>4. CASE Loop
  <2>1. CASE \E outcome \in {"off", "none", "reranked", "unavailable", "refuted", "kept"} : tryRecall(outcome)
    BY <1>1, <2>1, RecallStep
  <2>2. CASE \E digest \in {0, 1} : enforceBudget(digest)
    BY <1>1, <2>2, BudgetStep
  <2>3. CASE \E usage \in {0, Reply} : CompleteFails(usage)
    <3>1. PICK usage \in Nat : CompleteFails(usage)
      BY <1>1, <2>3
    <3>2. CASE run.expired
      BY <1>1, <3>1, <3>2, TimeoutStep
    <3>3. CASE ~run.expired
      BY <3>1, <3>3
    <3>4. QED  BY <3>2, <3>3
  <2>4. CASE Refused
    BY <1>1, <2>4, RefusedStep
  <2>5. CASE Prose
    BY <1>1, <2>5, ProseStep
  <2>6. CASE \E turn \in scene.turns : Truncated(turn) \/ \E sizes \in [DOMAIN turn -> Outputs] : Turn(turn, sizes)
    <3>1. PICK turn \in scene.turns : Truncated(turn) \/ \E sizes \in [DOMAIN turn -> Outputs] : Turn(turn, sizes)
      BY <2>6
    <3>2. CASE Truncated(turn)
      BY <1>1, <3>2, TruncatedStep
    <3>3. CASE \E sizes \in [DOMAIN turn -> Outputs] : Turn(turn, sizes)
      BY <1>1, <3>3, TurnStep
    <3>4. QED  BY <3>1, <3>2, <3>3
  <2>7. CASE \E c \in BOOLEAN : verifyFindings(c)
    BY <1>1, <2>7, VerifyStep
  <2>8. CASE Curate
    BY <2>8
  <2>9. CASE \E ok \in BOOLEAN : RecordOpen(ok) \/ Deliver(ok)
    BY <2>9
  <2>10. QED  BY <1>4, <2>1, <2>2, <2>3, <2>4, <2>5, <2>6, <2>7, <2>8, <2>9 DEF Loop
<1>5. CASE Expire
  BY <1>1, <1>5, ExpireStep
<1>6. QED  BY <1>2, <1>3, <1>4, <1>5 DEF Next

\* Before the first firing.
LEMMA InitInv == Init => IInv
<1> SUFFICES ASSUME Init PROVE IInv
  OBVIOUS
<1>1. RunOK(run) /\ run.pc = "idle"
  BY IdleOK DEF Init
<1>2. TypeOK
  BY <1>1 DEF Init, TypeOK, RunOK, TriggerRec
<1>3. firings = <<>> /\ completions = <<>> /\ DOMAIN firings = {} /\ DOMAIN completions = {} /\ Len(completions) = 0
  BY DEF Init
<1>4. FiringsOK
  BY <1>1, <1>3 DEF FiringsOK, InLoop
<1>5. trigger.count = 0 /\ ~trigger.concluded /\ trigger.silencedUntil = 0
  BY DEF Init
<1>6. CompletionsOK
  BY <1>1, <1>3, <1>5 DEF CompletionsOK
<1>7. TriggerOK
  BY <1>1, <1>3, <1>5 DEF TriggerOK
<1>8. QED  BY <1>1, <1>2, <1>4, <1>6, <1>7 DEF IInv

\* Every step keeps the invariant.
LEMMA NextInv == IInv /\ [Next]_vars => IInv'
<1> SUFFICES ASSUME IInv, [Next]_vars PROVE IInv'
  OBVIOUS
<1>1. CASE UNCHANGED vars
  <2>1. UNCHANGED <<scene, now, trigger, firings, run, completions, attempts>>
    BY <1>1 DEF vars
  <2>2. TypeOK' /\ RunOK(run')
    BY <2>1 DEF IInv, TypeOK
  <2>3. FiringsOK' /\ CompletionsOK' /\ TriggerOK'
    BY <2>1 DEF IInv, FiringsOK, CompletionsOK, TriggerOK
  <2>4. QED  BY <2>2, <2>3 DEF IInv
<1>2. CASE Next
  <2>1. CASE \E critical \in BOOLEAN : Enters(critical)
    BY <2>1, EnterInv
  <2>2. CASE LoopStep
    BY <2>2, LoopStepInv
  <2>3. CASE \E usage : CompleteFails(usage) /\ ~run.expired
    BY <2>3, ErrorInv
  <2>4. CASE Curate
    BY <2>4, CurateInv
  <2>5. CASE \E ok \in BOOLEAN : RecordOpen(ok) \/ Deliver(ok)
    BY <2>5, RecordOpenInv, DeliverInv
  <2>6. CASE Drop \/ Crash \/ Tick \/ Human
    BY <2>6, DropInv, CrashInv, TickInv, HumanInv
  <2>7. QED  BY <1>2, <2>1, <2>2, <2>3, <2>4, <2>5, <2>6, StepKinds
<1>3. QED  BY <1>1, <1>2

-----------------------------------------------------------------------------
(* The theorems.                                                           *)

\* The inductive invariant holds in every reachable state.
LEMMA InvAlways == Spec => []IInv
BY InitInv, NextInv, PTL DEF Spec

\* The state of an investigation, its firings and its completions keep their types.
THEOREM LoopTypeCorrect == Spec => []TypeOK
<1>1. IInv => TypeOK
  BY DEF IInv
<1>2. QED  BY <1>1, InvAlways, PTL

\* Every request, whatever was cut off, malformed or compacted before it, pairs each
\* call of a turn with its result, in the order of the calls (loop.go:717-757).
THEOREM EveryRequestPairs == Spec => []HistoryPaired
<1>1. IInv => HistoryPaired
  BY DEF IInv, RunOK, Paired, HistoryPaired
<1>2. QED  BY <1>1, InvAlways, PTL

\* The ladder concedes one request to the ceilings of an investigation, whatever they
\* are, whatever the provider charges and whatever compaction frees (loop.go:1021-1029).
THEOREM OneRequestConceded == Spec => []ConcedesOneRequest
<1>1. IInv => ConcedesOneRequest
  BY DEF IInv, RunOK, Conceding, ConcedesOneRequest
<1>2. QED  BY <1>1, InvAlways, PTL

\* A firing that is handled without an error completes exactly once, and is told; one
\* that fails or is suppressed does not complete; and no completion is two occurrences
\* of the trigger (loop.go:389).
THEOREM FiringsCompleteOnce == Spec => []CompletesOnce
<1>1. ASSUME IInv PROVE CompletesOnce
  <2> DEFINE of(i) == {j \in DOMAIN completions : completions[j].firing = i}
  <2>1. trigger.count <= Len(completions)
    BY <1>1 DEF IInv, CompletionsOK, TypeOK, TriggerRec
  <2>2. ASSUME NEW i \in DOMAIN firings
        PROVE  Cardinality(of(i)) <= 1
    <3>1. CASE of(i) = {}
      <4>1. Cardinality(of(i)) = 0
        BY <3>1, FS_EmptySet
      <4>2. QED  BY <4>1
    <3>2. CASE of(i) # {}
      <4>1. PICK j : j \in of(i)
        BY <3>2
      <4>2. of(i) = {j}
        BY <1>1, <4>1 DEF IInv, CompletionsOK
      <4> HIDE DEF of
      <4>3. Cardinality(of(i)) = 1
        BY <4>2, FS_Singleton
      <4>4. QED  BY <4>3
    <3>3. QED  BY <3>1, <3>2
  <2>3. ASSUME NEW i \in DOMAIN firings, firings[i].end = "nil" /\ ~suppressed(firings[i].decision)
        PROVE  \E j \in of(i) : completions[j].told # "no"
    BY <1>1, <2>3 DEF IInv, CompletionsOK
  <2>4. ASSUME NEW i \in DOMAIN firings, firings[i].end = "error" \/ suppressed(firings[i].decision)
        PROVE  of(i) = {}
    BY <1>1, <2>4 DEF IInv, CompletionsOK
  <2>5. QED  BY <2>1, <2>2, <2>3, <2>4 DEF CompletesOnce
<1>2. QED  BY <1>1, InvAlways, PTL

\* Only a firing that is taken up adds to the firings.
LEMMA OnlyEnterAdds ==
    ASSUME IInv, [Next]_vars, Len(firings') > Len(firings)
    PROVE  \E critical \in BOOLEAN : Enters(critical)
<1>1. firings \in Seq(FiringRec) /\ Len(firings) \in Nat
  BY DEF IInv, TypeOK
<1>2. UNCHANGED firings => FALSE
  BY <1>1
<1>3. ASSUME NEW e, Return(e) PROVE FALSE
  <2>1. firings' = [firings EXCEPT ![Len(firings)].end = e]
    BY <1>3 DEF Return
  <2>2. Len(firings') = Len(firings)
    BY <1>1, <2>1
  <2>3. QED  BY <1>1, <2>2
<1>4. Next
  BY <1>2 DEF vars
<1>5. ~LoopStep /\ ~Curate /\ ~Drop /\ ~Tick /\ ~Human
  BY <1>2 DEF LoopStep, Curate, Drop, Tick, Human
<1>6. ~Crash
  BY <1>2, <1>3 DEF Crash
<1>7. ASSUME NEW usage, CompleteFails(usage), ~run.expired PROVE FALSE
  BY <1>3, <1>7 DEF CompleteFails
<1>8. ASSUME NEW ok \in BOOLEAN, RecordOpen(ok) \/ Deliver(ok) PROVE FALSE
  BY <1>2, <1>3, <1>8 DEF RecordOpen, Deliver
<1>9. QED  BY <1>4, <1>5, <1>6, <1>7, <1>8, StepKinds

\* The gate suppresses a firing only within the cooldown of a completed look, after a
\* conclusion, and while no human contests it; a silence mutes it only while it is the
\* newest word of a human, and never when it is critical (recurrence.go:22-66).
THEOREM SuppressionIsEarned == Spec => SuppressionEarned
<1>1. ASSUME IInv, [Next]_vars
      PROVE  /\ Gated("suppressed") =>
                   /\ \E i \in DOMAIN completions : completions[i].conclusive
                   /\ \E i \in DOMAIN completions : now - completions[i].at < Cooldown
                   /\ NewestHuman # "down"
             /\ Gated("silenced") => ~Last(firings').critical /\ NewestHuman = "silence"
  <2> SUFFICES ASSUME Len(firings') > Len(firings)
               PROVE  /\ Last(firings').decision = "suppressed" =>
                            /\ \E i \in DOMAIN completions : completions[i].conclusive
                            /\ \E i \in DOMAIN completions : now - completions[i].at < Cooldown
                            /\ NewestHuman # "down"
                      /\ Last(firings').decision = "silenced" =>
                            ~Last(firings').critical /\ NewestHuman = "silence"
    BY DEF Gated
  <2>1. PICK critical \in BOOLEAN : Enters(critical)
    BY <1>1, OnlyEnterAdds
  <2>2. Last(firings').decision = decide(trigger, critical) /\ Last(firings').critical = critical
    <3>1. PICK f : f = [decision |-> decide(trigger, critical), critical |-> critical,
                        end |-> IF suppressed(decide(trigger, critical)) THEN "nil" ELSE "running"]
      OBVIOUS
    <3>2. firings' = Append(firings, f) /\ firings \in Seq(FiringRec)
      BY <1>1, <2>1, <3>1 DEF Enters, Enter, IInv, TypeOK
    <3>3. Last(firings') = f
      BY <3>2 DEF Last
    <3>4. QED  BY <3>1, <3>3
  <2>3. /\ now \in Nat /\ trigger.count \in Nat /\ trigger.last \in Nat /\ trigger.downAt \in Nat
        /\ trigger.silencedAt \in Nat /\ trigger.silencedUntil \in Nat /\ Cooldown \in Nat
    BY <1>1, LoopAssumption DEF IInv, TypeOK, TriggerRec
  <2>4. ASSUME decide(trigger, critical) = "suppressed"
        PROVE  /\ trigger.concluded /\ trigger.count > 0 /\ now - trigger.last < Cooldown
               /\ trigger.downAt = 0
    BY <2>3, <2>4 DEF decide, Contested
  <2>5. ASSUME decide(trigger, critical) = "silenced"
        PROVE  /\ ~critical /\ now < trigger.silencedUntil
               /\ trigger.downAt = 0 \/ trigger.silencedAt > trigger.downAt
    BY <2>3, <2>5 DEF decide, Contested, SilenceOutranksFeedback
  <2>6. ASSUME decide(trigger, critical) = "suppressed"
        PROVE  /\ \E i \in DOMAIN completions : completions[i].conclusive
               /\ \E i \in DOMAIN completions : now - completions[i].at < Cooldown
               /\ NewestHuman # "down"
    <3>1. PICK i \in DOMAIN completions : completions[i].at = trigger.last
      BY <1>1, <2>4, <2>6 DEF IInv, TriggerOK
    <3>2. now - completions[i].at < Cooldown
      BY <2>4, <2>6, <3>1
    <3>3. \E j \in DOMAIN completions : completions[j].conclusive
      BY <1>1, <2>4, <2>6 DEF IInv, TriggerOK
    <3>4. NewestHuman # "down"
      BY <2>3, <2>4, <2>6 DEF NewestHuman
    <3>5. QED  BY <3>1, <3>2, <3>3, <3>4
  <2>7. ASSUME decide(trigger, critical) = "silenced"
        PROVE  ~critical /\ NewestHuman = "silence"
    <3>1. trigger.silencedAt # 0
      BY <1>1, <2>3, <2>5, <2>7 DEF IInv, TriggerOK
    <3>2. QED  BY <2>3, <2>5, <2>7, <3>1 DEF NewestHuman
  <2>8. QED  BY <2>2, <2>6, <2>7
<1>2. QED  BY <1>1, InvAlways, PTL DEF Spec, SuppressionEarned

=============================================================================
