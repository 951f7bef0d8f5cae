-------------------------- MODULE AlertIntakeProofs --------------------------
(***************************************************************************)
(* What AlertIntake promises, for any alerts, windows and bounds.  The     *)
(* inductive invariant has four parts:                                     *)
(*                                                                         *)
(*   Typed        the types, the total maps of the coalescer, and that     *)
(*                every stage holds admitted alerts only;                  *)
(*   Once, Placed no stage holds an alert twice, and the six stages share  *)
(*                out the open alerts, which is where an alert could be     *)
(*                dropped silently or passed on twice;                     *)
(*   Cancellable  the dedup window of a fingerprint has at least as much   *)
(*                more to run than a hold of it as it is longer, so that   *)
(*                when the fingerprint is admitted again no hold of it     *)
(*                runs whose entry the new one would take;                 *)
(*   Cooled       the record the coalescer keeps of a group runs down with *)
(*                the cooldown it stands for and covers its alertnames, and *)
(*                a batch that waits meanwhile has an alert with a          *)
(*                standing vote.                                            *)
(***************************************************************************)
EXTENDS AlertIntake, FiniteSetTheorems, SequenceTheorems, TLAPS

\* The maps of the coalescer are total.
Maps == pending = [g \in Groups |-> pending[g]] /\ recent = [g \in Groups |-> recent[g]]

\* Every stage holds alerts that were admitted.
Known ==
    /\ \A h \in holds : h.n \in DOMAIN alerts
    /\ \A g \in Groups : pending[g] # NoBatch => pending[g].items \in Seq(DOMAIN alerts)
    /\ \A f \in flushes : f.items \in Seq(DOMAIN alerts)
    /\ \A k \in Keys : queued[k] \in Seq(DOMAIN alerts)

Typed == TypeOK /\ Maps /\ Known

\* Nothing is admitted at first.
LEMMA InitTyped == Init => Typed
<1> SUFFICES ASSUME Init PROVE Typed
  OBVIOUS
<1> USE IntakeConstants
<1>1. alerts \in Seq(Alerts) /\ Len(alerts) <= MaxAlerts
  BY DEF Init
<1>2. dedup \in [DedupKeys -> 0..DedupWindow]
  BY DEF Init
<1>3. {entering, adding, bypassed} \subseteq SUBSET DOMAIN alerts
  BY DEF Init, aux
<1>4. /\ holds \subseteq HoldRec /\ holder \in [Fps -> Ids \cup {0}]
      /\ resolving \subseteq Fps /\ flushes \subseteq Flush
  BY DEF Init
<1>5. \A g \in Groups : pending[g] = NoBatch /\ recent[g] = NoCooldown
  BY DEF Init
<1>6. Maps
  BY DEF Init, Maps
<1>7. queued \in [Keys -> Seq(Ids)] /\ \A f \in flushes : f.items # <<>>
  BY DEF Init
<1>8. sweepIn \in 0..SweepEvery /\ ctx \in {"live", "cancelled"}
  BY DEF Init
<1>9. fate \in Seq(Fates) /\ Len(fate) = Len(alerts)
  BY DEF Init
<1>10. cool \in [Groups -> CooldownRec]
  BY DEF Init, CooldownRec
<1>11. Known
  BY <1>5 DEF Known, Init
<1> QED
  BY <1>1, <1>2, <1>3, <1>4, <1>5, <1>6, <1>7, <1>8, <1>9, <1>10, <1>11 DEF TypeOK, Typed

\* Ending alerts changes no other fate.
LEMMA EndsTyped ==
    ASSUME Typed, NEW S, NEW f \in Fates, ends(S, f)
    PROVE  /\ fate' \in Seq(Fates) /\ Len(fate') = Len(fate) /\ DOMAIN fate' = DOMAIN fate
           /\ \A n \in DOMAIN fate : fate'[n] = IF n \in S THEN f ELSE fate[n]
<1>1. fate \in Seq(Fates) /\ Len(fate) \in Nat /\ DOMAIN fate = 1..Len(fate)
  BY DEF Typed, TypeOK
<1>2. fate' = [n \in 1..Len(fate) |-> IF n \in S THEN f ELSE fate[n]]
  BY <1>1 DEF ends
<1>3. \A n \in 1..Len(fate) : (IF n \in S THEN f ELSE fate[n]) \in Fates
  BY <1>1
<1>4. fate' \in Seq(Fates)
  BY <1>1, <1>2, <1>3
<1> QED
  BY <1>1, <1>2, <1>4

\* The admitted alerts are numbered from one, and every stage knows which they are.
LEMMA TypeFacts ==
    ASSUME Typed
    PROVE  /\ alerts \in Seq(Alerts) /\ Len(alerts) \in Nat /\ Len(alerts) <= MaxAlerts
           /\ DOMAIN alerts = 1..Len(alerts) /\ DOMAIN fate = DOMAIN alerts
           /\ DOMAIN alerts \subseteq Ids
           /\ \A n \in DOMAIN alerts :
                /\ alerts[n] \in Alerts /\ alerts[n].fp \in Fps \cup {NoFp}
                /\ alerts[n].group \in Groups /\ alerts[n].title \in Titles
                /\ alerts[n].key \in Keys /\ alerts[n].critical \in BOOLEAN
           /\ fate \in Seq(Fates)
<1>1. /\ alerts \in Seq(Alerts) /\ Len(alerts) \in Nat /\ Len(alerts) <= MaxAlerts
      /\ DOMAIN alerts = 1..Len(alerts) /\ DOMAIN fate = DOMAIN alerts /\ fate \in Seq(Fates)
  BY DEF Typed, TypeOK
<1>2. MaxAlerts \in Nat
  BY IntakeConstants
<1>3. DOMAIN alerts \subseteq Ids
  BY <1>1, <1>2 DEF Ids
<1>4. ASSUME NEW n \in DOMAIN alerts
      PROVE  /\ alerts[n] \in Alerts /\ alerts[n].fp \in Fps \cup {NoFp}
             /\ alerts[n].group \in Groups /\ alerts[n].title \in Titles
             /\ alerts[n].key \in Keys /\ alerts[n].critical \in BOOLEAN
  <2>1. PICK a : a = alerts[n]
    OBVIOUS
  <2>2. a \in Alerts
    BY <1>1, <2>1
  <2> QED
    BY <2>1, <2>2, IntakeConstants
<1> QED
  BY <1>1, <1>3, <1>4

\* What the stages hold of batches.
LEMMA BatchTyped ==
    ASSUME Typed, NEW g \in Groups
    PROVE  /\ itemsOf(g) \in Seq(DOMAIN alerts) /\ itemsOf(g) \in Seq(Ids)
           /\ pending[g] # NoBatch =>
                /\ pending[g] \in Batch /\ pending[g].items = itemsOf(g) /\ itemsOf(g) # <<>>
                /\ pending[g].quiet \in 0..Debounce /\ pending[g].age \in 0..MaxAge
<1>1. CASE pending[g] = NoBatch
  BY <1>1 DEF itemsOf
<1>2. CASE pending[g] # NoBatch
  <2>1. /\ pending[g] \in Batch /\ pending[g].items # <<>>
        /\ pending[g].items \in Seq(DOMAIN alerts)
    BY <1>2 DEF Typed, TypeOK, Known
  <2>2. /\ pending[g].items \in Seq(Ids)
        /\ pending[g].quiet \in 0..Debounce /\ pending[g].age \in 0..MaxAge
    BY <2>1 DEF Batch
  <2> QED
    BY <1>2, <2>1, <2>2 DEF itemsOf
<1> QED
  BY <1>1, <1>2

\* The titles of a batch are titles.
LEMMA TitlesTyped ==
    ASSUME Typed, NEW b \in Seq(DOMAIN alerts)
    PROVE  titlesOf(b) \subseteq Titles
  BY TypeFacts DEF titlesOf, ToSet

\* The cooldown a flush leaves is one.
LEMMA CooldownTyped ==
    ASSUME Typed, NEW g \in Groups, NEW b \in Seq(DOMAIN alerts)
    PROVE  /\ markFlushed(recent[g], b) \in CooldownRec /\ cooling(cool[g], b) \in CooldownRec
           /\ cool[g] \in CooldownRec /\ cool[g].left \in 0..Cooldown /\ cool[g].titles \in SUBSET Titles
           /\ recent[g] # NoCooldown =>
                recent[g].left \in 0..Cooldown /\ recent[g].titles \in SUBSET Titles
<1>1. cool[g] \in CooldownRec /\ (recent[g] # NoCooldown => recent[g] \in CooldownRec)
  BY DEF Typed, TypeOK
<1>2. /\ cool[g].left \in 0..Cooldown /\ cool[g].titles \in SUBSET Titles
      /\ recent[g] # NoCooldown => recent[g].left \in 0..Cooldown /\ recent[g].titles \in SUBSET Titles
  BY <1>1 DEF CooldownRec
<1>3. titlesOf(b) \subseteq Titles /\ Cooldown \in 0..Cooldown
  BY TitlesTyped, IntakeConstants
<1>4. markFlushed(recent[g], b) \in CooldownRec
  BY <1>2, <1>3 DEF markFlushed, CooldownRec
<1>5. cooling(cool[g], b) \in CooldownRec
  BY <1>2, <1>3 DEF cooling, CooldownRec
<1> QED
  BY <1>1, <1>2, <1>4, <1>5

\* An admitted alert gets the next number.
LEMMA AdmitTyped == ASSUME Typed, NEW a \in Alerts, Admit(a) PROVE Typed'
<1>1. /\ alerts \in Seq(Alerts) /\ Len(alerts) \in Nat /\ DOMAIN alerts = 1..Len(alerts)
      /\ fate \in Seq(Fates) /\ Len(fate) = Len(alerts)
      /\ Len(alerts) < MaxAlerts /\ alerts' = Append(alerts, a) /\ fate' = Append(fate, "open")
      /\ UNCHANGED <<holds, holder, adding, pending, recent, flushes, queued, resolving, sweepIn,
                     ctx, bypassed, cool>>
  BY TypeFacts DEF Admit, Typed, TypeOK
<1>2. /\ alerts' \in Seq(Alerts) /\ Len(alerts') = Len(alerts) + 1 /\ Len(alerts') <= MaxAlerts
      /\ DOMAIN alerts' = 1..(Len(alerts) + 1) /\ DOMAIN alerts \subseteq DOMAIN alerts'
  BY <1>1, IntakeConstants
<1>3. fate' \in Seq(Fates) /\ Len(fate') = Len(alerts')
  <2>1. "open" \in Fates
    BY DEF Fates
  <2> QED
    BY <1>1, <1>2, <2>1
<1>4. dedup' \in [DedupKeys -> 0..DedupWindow]
  <2>1. dedupKey(a) \in DedupKeys /\ DedupWindow \in 0..DedupWindow
    BY IntakeConstants DEF dedupKey, DedupKeys
  <2> QED
    BY <2>1 DEF Admit, Typed, TypeOK
<1>5. {entering', adding', bypassed'} \subseteq SUBSET DOMAIN alerts'
  BY <1>1, <1>2 DEF Admit, Typed, TypeOK
<1>6. Known'
  BY <1>1, <1>2 DEF Typed, Known
<1> QED
  BY <1>1, <1>2, <1>3, <1>4, <1>5, <1>6 DEF Typed, TypeOK, Maps

\* A held alert keeps its number.
LEMMA HoldTyped == ASSUME Typed, NEW n \in Ids, Hold(n) PROVE Typed'
<1>1. /\ n \in DOMAIN alerts
      /\ UNCHANGED <<alerts, dedup, pending, recent, flushes, queued, resolving, sweepIn, ctx,
                     fate, bypassed, cool>>
  BY DEF Hold, Typed, TypeOK, aux
<1>2. /\ entering' \subseteq DOMAIN alerts /\ adding' \subseteq DOMAIN alerts
      /\ holds' \subseteq HoldRec /\ \A h \in holds' : h.n \in DOMAIN alerts
  <2>1. PICK r : r = [n |-> n, left |-> HoldWindow, closed |-> FALSE]
    OBVIOUS
  <2>2. r \in HoldRec /\ r.n = n
    BY <2>1, IntakeConstants DEF HoldRec
  <2>3. /\ entering' \subseteq entering /\ adding' \subseteq adding \cup {n}
        /\ holds' \subseteq holds \cup {r}
    BY <2>1 DEF Hold
  <2> QED
    BY <1>1, <2>2, <2>3 DEF Typed, TypeOK, Known
<1>3. holder' \in [Fps -> Ids \cup {0}]
  BY DEF Hold, Typed, TypeOK
<1> QED
  BY <1>1, <1>2, <1>3 DEF Typed, TypeOK, Maps, Known

\* A hold that ends is forgotten.
LEMMA EndHoldTyped == ASSUME Typed, NEW h \in holds, WindowOver(h) \/ DropHeld(h) PROVE Typed'
<1>1. /\ UNCHANGED <<alerts, dedup, entering, pending, recent, flushes, queued, resolving, sweepIn,
                     ctx, bypassed, cool>>
      /\ holds' \subseteq holds
  BY DEF WindowOver, DropHeld, aux
<1>2. holder' \in [Fps -> Ids \cup {0}]
  BY DEF WindowOver, DropHeld, unregister, Typed, TypeOK
<1>3. adding' \subseteq DOMAIN alerts
  BY DEF WindowOver, DropHeld, Typed, TypeOK, Known
<1>4. fate' \in Seq(Fates) /\ Len(fate') = Len(alerts)
  <2>1. CASE WindowOver(h)
    BY <2>1 DEF WindowOver, aux, Typed, TypeOK
  <2>2. CASE ends({h.n}, "cancelled") \/ ends({h.n}, "lost")
    <3>1. "cancelled" \in Fates /\ "lost" \in Fates
      BY DEF Fates
    <3> QED
      BY <2>2, <3>1, EndsTyped DEF Typed, TypeOK
  <2> QED
    BY <2>1, <2>2 DEF DropHeld
<1> QED
  BY <1>1, <1>2, <1>3, <1>4 DEF Typed, TypeOK, Maps, Known

\* A resolve closes a hold.
LEMMA ResolveTyped == ASSUME Typed, NEW f \in Fps, Resolve(f) PROVE Typed'
<1>1. /\ UNCHANGED <<alerts, dedup, entering, adding, pending, recent, flushes, queued, sweepIn, ctx,
                     fate, bypassed, cool>>
      /\ resolving' \subseteq Fps
  BY DEF Resolve, Typed, TypeOK
<1>2. holder' \in [Fps -> Ids \cup {0}]
  BY DEF Resolve, Typed, TypeOK
<1>3. ASSUME NEW x \in holds' PROVE x \in HoldRec /\ x.n \in DOMAIN alerts
  <2>1. PICK h \in holds : x = IF h.n = holder[f] THEN [h EXCEPT !.closed = TRUE] ELSE h
    BY <1>3 DEF Resolve
  <2>2. h \in HoldRec /\ h.n \in DOMAIN alerts
    BY DEF Typed, TypeOK, Known
  <2>3. [h EXCEPT !.closed = TRUE] \in HoldRec /\ [h EXCEPT !.closed = TRUE].n = h.n
    BY <2>2 DEF HoldRec
  <2> QED
    BY <2>1, <2>2, <2>3
<1> QED
  BY <1>1, <1>2, <1>3 DEF Typed, TypeOK, Maps, Known

\* A queued batch is cancelled whole.
LEMMA CancelTyped == ASSUME Typed, NEW f \in Fps, CancelQueued(f) PROVE Typed'
<1>1. /\ UNCHANGED <<alerts, dedup, entering, holds, holder, adding, pending, recent, flushes,
                     sweepIn, ctx, bypassed, cool>>
      /\ resolving' \subseteq Fps
  BY DEF CancelQueued, Typed, TypeOK
<1>2. PICK hit : /\ queued' = [k \in Keys |-> IF k \in hit THEN <<>> ELSE queued[k]]
                 /\ ends(UNION {ToSet(queued[k]) : k \in hit}, "cancelled")
  BY DEF CancelQueued
<1>3. queued' \in [Keys -> Seq(Ids)] /\ \A k \in Keys : queued'[k] \in Seq(DOMAIN alerts)
  <2>1. <<>> \in Seq(Ids) /\ <<>> \in Seq(DOMAIN alerts)
    OBVIOUS
  <2>2. queued \in [Keys -> Seq(Ids)] /\ \A k \in Keys : queued[k] \in Seq(DOMAIN alerts)
    BY DEF Typed, TypeOK, Known
  <2> QED
    BY <1>2, <2>1, <2>2
<1>4. fate' \in Seq(Fates) /\ Len(fate') = Len(alerts)
  <2>1. "cancelled" \in Fates
    BY DEF Fates
  <2> QED
    BY <1>2, <2>1, EndsTyped DEF Typed, TypeOK
<1> QED
  BY <1>1, <1>3, <1>4 DEF Typed, TypeOK, Maps, Known

\* A sequence with one more element.
LEMMA AppendFacts ==
    ASSUME NEW S, NEW s \in Seq(S), NEW n \in S, NEW b, b = Append(s, n), NEW l, l = Len(s)
    PROVE  /\ l \in Nat /\ DOMAIN s = 1..l
           /\ b \in Seq(S) /\ b # <<>> /\ Len(b) = l + 1 /\ DOMAIN b = 1..(l + 1)
           /\ \A i \in 1..l : b[i] = s[i]
           /\ b[l + 1] = n
  OBVIOUS

\* One more alert in a batch.
LEMMA AppendTyped ==
    ASSUME Typed, NEW g \in Groups, NEW n \in DOMAIN alerts, NEW b, b = Append(itemsOf(g), n)
    PROVE  b \in Seq(DOMAIN alerts) /\ b \in Seq(Ids) /\ b # <<>>
<1>1. itemsOf(g) \in Seq(DOMAIN alerts) /\ DOMAIN alerts \subseteq Ids
  BY BatchTyped, TypeFacts
<1> QED
  BY <1>1

\* A flush leaves a batch on its way and a cooldown.
LEMMA FlushTyped ==
    ASSUME Typed, NEW n \in Ids \cup {0}, NEW g \in Groups, NEW b \in Seq(DOMAIN alerts), b # <<>>,
           flushOne(n, g, b)
    PROVE  /\ flushes' \subseteq Flush
           /\ \A f \in flushes' : f.items # <<>> /\ f.items \in Seq(DOMAIN alerts)
           /\ recent' = [x \in Groups |-> recent'[x]]
           /\ \A x \in Groups : recent'[x] # NoCooldown => recent'[x] \in CooldownRec
           /\ cool' \in [Groups -> CooldownRec]
<1>1. PICK r : r = [by |-> n, items |-> b]
  OBVIOUS
<1>2. b \in Seq(Ids)
  <2>1. DOMAIN alerts \subseteq Ids
    BY TypeFacts
  <2> QED
    BY <2>1
<1>3. r \in Flush /\ r.items = b
  BY <1>1, <1>2 DEF Flush
<1>4. flushes' = flushes \cup {r}
  BY <1>1 DEF flushOne
<1>5. flushes' \subseteq Flush /\ \A f \in flushes' : f.items # <<>> /\ f.items \in Seq(DOMAIN alerts)
  BY <1>3, <1>4 DEF Typed, TypeOK, Known
<1>6. markFlushed(recent[g], b) \in CooldownRec /\ cooling(cool[g], b) \in CooldownRec
  BY CooldownTyped
<1>7. /\ recent = [x \in Groups |-> recent[x]] /\ cool \in [Groups -> CooldownRec]
      /\ \A x \in Groups : recent[x] # NoCooldown => recent[x] \in CooldownRec
  BY DEF Typed, TypeOK, Maps
<1>8. /\ recent' = [recent EXCEPT ![g] = markFlushed(recent[g], b)]
      /\ cool' = [cool EXCEPT ![g] = cooling(cool[g], b)]
  BY DEF flushOne
<1> QED
  BY <1>5, <1>6, <1>7, <1>8

\* An added alert is suppressed, buffered or flushed.
LEMMA AddTyped == ASSUME Typed, NEW n \in Ids, Add(n) PROVE Typed'
<1>1. PICK g : g = alerts[n].group
  OBVIOUS
<1>2. /\ n \in DOMAIN alerts /\ g \in Groups /\ adding' \subseteq adding
      /\ UNCHANGED <<alerts, dedup, entering, holds, holder, queued, resolving, sweepIn, ctx>>
  <2>1. n \in DOMAIN alerts
    BY DEF Add, Typed, TypeOK
  <2> QED
    BY <1>1, <2>1, TypeFacts DEF Add
<1>3. PICK b : b = Append(itemsOf(g), n)
  OBVIOUS
<1>4. b \in Seq(DOMAIN alerts) /\ b \in Seq(Ids) /\ b # <<>>
  BY <1>2, <1>3, AppendTyped
<1>5. SUFFICES /\ bypassed' \subseteq DOMAIN alerts
               /\ fate' \in Seq(Fates) /\ Len(fate') = Len(alerts)
               /\ flushes' \subseteq Flush
               /\ \A f \in flushes' : f.items # <<>> /\ f.items \in Seq(DOMAIN alerts)
               /\ recent' = [x \in Groups |-> recent'[x]]
               /\ \A x \in Groups : recent'[x] # NoCooldown => recent'[x] \in CooldownRec
               /\ cool' \in [Groups -> CooldownRec]
               /\ pending' = [x \in Groups |-> pending'[x]]
               /\ \A x \in Groups : pending'[x] # NoBatch =>
                     /\ pending'[x] \in Batch /\ pending'[x].items # <<>>
                     /\ pending'[x].items \in Seq(DOMAIN alerts)
  BY <1>2 DEF Typed, TypeOK, Maps, Known
<1>6. CASE Suppress(n)
  <2>1. ends({n}, "suppressed") /\ UNCHANGED <<pending, recent, flushes, bypassed, cool>>
    BY <1>6 DEF Suppress
  <2>2. "suppressed" \in Fates
    BY DEF Fates
  <2>3. fate' \in Seq(Fates) /\ Len(fate') = Len(alerts)
    BY <2>1, <2>2, EndsTyped DEF Typed, TypeOK
  <2> QED
    BY <2>1, <2>3 DEF Typed, TypeOK, Maps, Known
<1>7. CASE flushOne(n, g, b) /\ pending' = [pending EXCEPT ![g] = NoBatch] /\ UNCHANGED fate
           /\ bypassed' \subseteq bypassed \cup {n}
  <2>1. /\ flushes' \subseteq Flush
        /\ \A f \in flushes' : f.items # <<>> /\ f.items \in Seq(DOMAIN alerts)
        /\ recent' = [x \in Groups |-> recent'[x]]
        /\ \A x \in Groups : recent'[x] # NoCooldown => recent'[x] \in CooldownRec
        /\ cool' \in [Groups -> CooldownRec]
    BY <1>2, <1>4, <1>7, FlushTyped
  <2>2. /\ pending' = [x \in Groups |-> pending'[x]]
        /\ \A x \in Groups : pending'[x] # NoBatch => pending'[x] = pending[x]
    BY <1>7 DEF Typed, Maps
  <2> QED
    BY <1>2, <1>7, <2>1, <2>2 DEF Typed, TypeOK, Maps, Known
<1>8. CASE /\ UNCHANGED <<fate, recent, flushes, cool>> /\ bypassed' \subseteq bypassed \cup {n}
           /\ pending' = [pending EXCEPT ![g] =
                             [items |-> b, quiet |-> 0,
                              age |-> IF pending[g] = NoBatch THEN 0 ELSE pending[g].age]]
  <2>1. PICK a : a = IF pending[g] = NoBatch THEN 0 ELSE pending[g].age
    OBVIOUS
  <2>2. a \in 0..MaxAge /\ 0 \in 0..Debounce
    <3>1. MaxAge \in Nat /\ Debounce \in Nat
      BY IntakeConstants DEF MaxAge
    <3> QED
      BY <1>2, <2>1, <3>1, BatchTyped
  <2>3. PICK r : r = [items |-> b, quiet |-> 0, age |-> a]
    OBVIOUS
  <2>4. r \in Batch /\ r.items = b
    BY <1>4, <2>2, <2>3 DEF Batch
  <2>5. pending' = [pending EXCEPT ![g] = r]
    BY <1>8, <2>1, <2>3
  <2>6. /\ pending' = [x \in Groups |-> pending'[x]]
        /\ \A x \in Groups : pending'[x] = IF x = g THEN r ELSE pending[x]
    BY <1>2, <2>5 DEF Typed, Maps
  <2> QED
    BY <1>2, <1>4, <1>8, <2>4, <2>6 DEF Typed, TypeOK, Maps, Known
<1>9. ASSUME NEW y \in BOOLEAN, Buffer(n, g, y)
      PROVE  /\ bypassed' \subseteq bypassed \cup {n} /\ UNCHANGED fate
             /\ \/ flushOne(n, g, b) /\ pending' = [pending EXCEPT ![g] = NoBatch]
                \/ /\ pending' = [pending EXCEPT ![g] =
                                     [items |-> b, quiet |-> 0,
                                      age |-> IF pending[g] = NoBatch THEN 0 ELSE pending[g].age]]
                   /\ UNCHANGED <<recent, flushes, cool>>
  BY <1>3, <1>9 DEF Buffer
<1>10. CASE FlushCritical(n, g)
  BY <1>3, <1>7, <1>10 DEF FlushCritical
<1>11. CASE Buffer(n, g, TRUE) \/ Buffer(n, g, FALSE)
  BY <1>7, <1>8, <1>9, <1>11
<1> QED
  BY <1>1, <1>6, <1>10, <1>11 DEF Add

\* A sweep moves the due batches whole.
LEMMA SweepTyped == ASSUME Typed, Sweep PROVE Typed'
<1>1. PICK S \in SUBSET Groups :
        /\ \A g \in S : pending[g] # NoBatch
        /\ pending' = [g \in Groups |-> IF g \in S THEN NoBatch ELSE pending[g]]
        /\ recent' = sweptRecent(S)
        /\ flushes' = flushes \cup {[by |-> 0, items |-> pending[g].items] : g \in S}
        /\ cool' = [g \in Groups |->
                      IF g \in S THEN cooling(cool[g], pending[g].items) ELSE cool[g]]
  BY DEF Sweep
<1>2. /\ sweepIn' = SweepEvery
      /\ UNCHANGED <<alerts, dedup, entering, holds, holder, adding, queued, resolving, ctx, fate,
                     bypassed>>
  BY DEF Sweep
<1>3. ASSUME NEW g \in S
      PROVE  /\ pending[g].items \in Seq(DOMAIN alerts) /\ pending[g].items \in Seq(Ids)
             /\ pending[g].items # <<>>
  BY <1>1, BatchTyped
<1>4. ASSUME NEW f \in flushes'
      PROVE  f \in Flush /\ f.items # <<>> /\ f.items \in Seq(DOMAIN alerts)
  <2>1. CASE f \in flushes
    BY <2>1 DEF Typed, TypeOK, Known
  <2>2. ASSUME NEW g \in S, f = [by |-> 0, items |-> pending[g].items]
        PROVE  f \in Flush /\ f.items # <<>> /\ f.items \in Seq(DOMAIN alerts)
    <3>1. PICK b : b = pending[g].items
      OBVIOUS
    <3>2. f = [by |-> 0, items |-> b] /\ b \in Seq(DOMAIN alerts) /\ b \in Seq(Ids) /\ b # <<>>
      BY <1>3, <2>2, <3>1
    <3> QED
      BY <3>2 DEF Flush
  <2> QED
    BY <1>1, <2>1, <2>2
<1>5. /\ pending' = [g \in Groups |-> pending'[g]]
      /\ \A g \in Groups : pending'[g] # NoBatch => pending'[g] = pending[g]
  BY <1>1
<1>6. /\ recent' = [g \in Groups |-> recent'[g]]
      /\ \A g \in Groups : recent'[g] # NoCooldown => recent'[g] \in CooldownRec
  <2>1. recent' = [g \in Groups |->
          evictExpired(IF g \in S THEN markFlushed(recent[g], pending[g].items) ELSE recent[g])]
    BY <1>1 DEF sweptRecent
  <2>2. ASSUME NEW g \in Groups, recent'[g] # NoCooldown PROVE recent'[g] \in CooldownRec
    <3>1. PICK r : r = IF g \in S THEN markFlushed(recent[g], pending[g].items) ELSE recent[g]
      OBVIOUS
    <3>2. recent'[g] = r
      BY <2>1, <2>2, <3>1 DEF evictExpired
    <3>3. g \in S => r \in CooldownRec
      BY <1>3, <3>1, CooldownTyped
    <3> QED
      BY <2>2, <3>1, <3>2, <3>3 DEF Typed, TypeOK
  <2> QED
    BY <2>1, <2>2
<1>7. cool' \in [Groups -> CooldownRec]
  <2>1. ASSUME NEW g \in Groups
        PROVE  (IF g \in S THEN cooling(cool[g], pending[g].items) ELSE cool[g]) \in CooldownRec
    <3>1. CASE g \in S
      BY <1>3, <3>1, CooldownTyped
    <3>2. CASE g \notin S
      BY <3>2 DEF Typed, TypeOK
    <3> QED
      BY <3>1, <3>2
  <2> QED
    BY <1>1, <2>1
<1>8. sweepIn' \in 0..SweepEvery
  BY <1>2, IntakeConstants
<1> QED
  BY <1>2, <1>4, <1>5, <1>6, <1>7, <1>8 DEF Typed, TypeOK, Maps, Known

\* An emitted batch replaces the one waiting.
LEMMA EmitTyped == ASSUME Typed, NEW f \in flushes, Emit(f) PROVE Typed'
<1>1. PICK k : k = alerts[f.items[1]].key
  OBVIOUS
<1>2. /\ flushes' \subseteq flushes /\ queued' = [queued EXCEPT ![k] = f.items]
      /\ ends(ToSet(queued[k]), "merged")
      /\ UNCHANGED <<alerts, dedup, entering, holds, holder, adding, pending, recent, resolving,
                     sweepIn, ctx, bypassed, cool>>
  BY <1>1 DEF Emit
<1>3. f.items \in Seq(Ids) /\ f.items \in Seq(DOMAIN alerts)
  <2>1. f \in Flush /\ f.items \in Seq(DOMAIN alerts)
    BY DEF Typed, TypeOK, Known
  <2> QED
    BY <2>1 DEF Flush
<1>4. queued' \in [Keys -> Seq(Ids)] /\ \A x \in Keys : queued'[x] \in Seq(DOMAIN alerts)
  BY <1>2, <1>3 DEF Typed, TypeOK, Known
<1>5. fate' \in Seq(Fates) /\ Len(fate') = Len(alerts)
  <2>1. "merged" \in Fates
    BY DEF Fates
  <2> QED
    BY <1>2, <2>1, EndsTyped DEF Typed, TypeOK
<1> QED
  BY <1>2, <1>4, <1>5 DEF Typed, TypeOK, Maps, Known

\* A taken batch leaves the queue.
LEMMA StartTyped == ASSUME Typed, NEW k \in Keys, Start(k) PROVE Typed'
<1>1. /\ queued' = [queued EXCEPT ![k] = <<>>] /\ ends(ToSet(queued[k]), "started")
      /\ UNCHANGED <<alerts, dedup, entering, holds, holder, adding, pending, recent, flushes,
                     resolving, sweepIn, ctx, bypassed, cool>>
  BY DEF Start
<1>2. queued' \in [Keys -> Seq(Ids)] /\ \A x \in Keys : queued'[x] \in Seq(DOMAIN alerts)
  <2>1. <<>> \in Seq(Ids) /\ <<>> \in Seq(DOMAIN alerts)
    OBVIOUS
  <2> QED
    BY <1>1, <2>1 DEF Typed, TypeOK, Known
<1>3. fate' \in Seq(Fates) /\ Len(fate') = Len(alerts)
  <2>1. "started" \in Fates
    BY DEF Fates
  <2> QED
    BY <1>1, <2>1, EndsTyped DEF Typed, TypeOK
<1> QED
  BY <1>1, <1>2, <1>3 DEF Typed, TypeOK, Maps, Known

\* Time moves the windows within their bounds.
LEMMA TickTyped == ASSUME Typed, Tick PROVE Typed'
<1>1. /\ UNCHANGED <<alerts, entering, holder, adding, flushes, queued, resolving, ctx, fate,
                     bypassed>>
      /\ sweepIn' = sweepIn - 1 /\ sweepIn > 0
  BY DEF Tick
<1>2. sweepIn' \in 0..SweepEvery
  BY <1>1, IntakeConstants DEF Typed, TypeOK
<1>3. dedup' \in [DedupKeys -> 0..DedupWindow]
  <2>1. \A k \in DedupKeys : down(dedup[k]) \in 0..DedupWindow
    BY IntakeConstants DEF down, Typed, TypeOK
  <2> QED
    BY <2>1 DEF Tick
<1>4. ASSUME NEW x \in holds' PROVE x \in HoldRec /\ x.n \in DOMAIN alerts
  <2>1. PICK h \in holds : x = [h EXCEPT !.left = down(h.left)]
    BY DEF Tick
  <2>2. h \in HoldRec /\ h.n \in DOMAIN alerts
    BY DEF Typed, TypeOK, Known
  <2>3. h.left \in 0..HoldWindow
    BY <2>2 DEF HoldRec
  <2>4. down(h.left) \in 0..HoldWindow
    BY <2>3, IntakeConstants DEF down
  <2> QED
    BY <2>1, <2>2, <2>4 DEF HoldRec
<1>5. /\ pending' = [g \in Groups |-> pending'[g]]
      /\ \A g \in Groups : pending'[g] # NoBatch =>
           /\ pending'[g] \in Batch /\ pending'[g].items # <<>>
           /\ pending'[g].items \in Seq(DOMAIN alerts)
  <2>1. pending' = [g \in Groups |->
                     IF pending[g] = NoBatch THEN NoBatch
                     ELSE [pending[g] EXCEPT !.quiet = upTo(@, Debounce), !.age = upTo(@, MaxAge)]]
    BY DEF Tick
  <2>2. ASSUME NEW g \in Groups, pending'[g] # NoBatch
        PROVE  /\ pending'[g] \in Batch /\ pending'[g].items # <<>>
               /\ pending'[g].items \in Seq(DOMAIN alerts)
    <3>1. PICK p, i, q, a : p = pending[g] /\ i = p.items /\ q = p.quiet /\ a = p.age
      OBVIOUS
    <3>2. pending[g] # NoBatch
      BY <2>1, <2>2
    <3>3. /\ p \in Batch /\ i # <<>> /\ i \in Seq(DOMAIN alerts) /\ i \in Seq(Ids)
          /\ q \in 0..Debounce /\ a \in 0..MaxAge
      BY <3>1, <3>2, BatchTyped
    <3>4. upTo(q, Debounce) \in 0..Debounce /\ upTo(a, MaxAge) \in 0..MaxAge
      <4>1. Debounce \in Nat /\ MaxAge \in Nat
        BY IntakeConstants DEF MaxAge
      <4> QED
        BY <3>3, <4>1 DEF upTo
    <3>5. pending'[g] = [p EXCEPT !.quiet = upTo(q, Debounce), !.age = upTo(a, MaxAge)]
      BY <2>1, <3>1, <3>2
    <3> QED
      BY <3>1, <3>3, <3>4, <3>5 DEF Batch
  <2> QED
    BY <2>1, <2>2
<1>6. /\ recent' = [g \in Groups |-> recent'[g]]
      /\ \A g \in Groups : recent'[g] # NoCooldown => recent'[g] \in CooldownRec
  <2>1. recent' = [g \in Groups |->
                    IF recent[g] = NoCooldown THEN NoCooldown
                    ELSE [recent[g] EXCEPT !.left = down(@)]]
    BY DEF Tick
  <2>2. ASSUME NEW g \in Groups, recent'[g] # NoCooldown PROVE recent'[g] \in CooldownRec
    <3>1. PICK r, l : r = recent[g] /\ l = r.left
      OBVIOUS
    <3>2. r # NoCooldown /\ r \in CooldownRec
      BY <2>1, <2>2, <3>1 DEF Typed, TypeOK
    <3>3. l \in 0..Cooldown
      BY <3>1, <3>2 DEF CooldownRec
    <3>4. down(l) \in 0..Cooldown
      BY <3>3, IntakeConstants DEF down
    <3>5. recent'[g] = [r EXCEPT !.left = down(l)]
      BY <2>1, <3>1, <3>2
    <3> QED
      BY <3>2, <3>4, <3>5 DEF CooldownRec
  <2> QED
    BY <2>1, <2>2
<1>7. cool' \in [Groups -> CooldownRec]
  <2>1. ASSUME NEW g \in Groups
        PROVE  (IF cool[g].left <= 1 THEN [left |-> 0, titles |-> {}]
                ELSE [cool[g] EXCEPT !.left = @ - 1]) \in CooldownRec
    <3>1. PICK c, l : c = cool[g] /\ l = c.left
      OBVIOUS
    <3>2. c \in CooldownRec
      BY <3>1 DEF Typed, TypeOK
    <3>3. l \in 0..Cooldown /\ Cooldown \in Nat
      BY <3>1, <3>2, IntakeConstants DEF CooldownRec
    <3>4. CASE l <= 1
      BY <3>1, <3>3, <3>4 DEF CooldownRec
    <3>5. CASE ~(l <= 1)
      <4>1. l - 1 \in 0..Cooldown
        BY <3>3, <3>5
      <4> QED
        BY <3>1, <3>2, <3>5, <4>1 DEF CooldownRec
    <3> QED
      BY <3>4, <3>5
  <2>2. cool' = [g \in Groups |->
                  IF cool[g].left <= 1 THEN [left |-> 0, titles |-> {}]
                  ELSE [cool[g] EXCEPT !.left = @ - 1]]
    BY DEF Tick
  <2> QED
    BY <2>1, <2>2
<1>8. holds' \subseteq HoldRec /\ \A h \in holds' : h.n \in DOMAIN alerts
  BY <1>4
<1> QED
  BY <1>1, <1>2, <1>3, <1>5, <1>6, <1>7, <1>8 DEF Typed, TypeOK, Maps, Known

\* Every step keeps the types.
LEMMA TypedStep == Typed /\ [Next]_vars => Typed'
<1> SUFFICES ASSUME Typed, [Next]_vars PROVE Typed'
  OBVIOUS
<1>1. CASE UNCHANGED vars
  BY <1>1 DEF vars, stages, aux, Typed, TypeOK, Maps, Known
<1>2. CASE Stop
  BY <1>2 DEF Stop, stages, aux, Typed, TypeOK, Maps, Known
<1>3. ASSUME NEW n \in Ids, EndHold(n) PROVE Typed'
  BY <1>3, EndHoldTyped DEF EndHold
<1> QED
  BY <1>1, <1>2, <1>3, AdmitTyped, HoldTyped, AddTyped, ResolveTyped, CancelTyped, EmitTyped,
     StartTyped, SweepTyped, TickTyped DEF Next

-----------------------------------------------------------------------------
(* Every open alert is in one place.                                       *)

heldIds    == {h.n : h \in holds}
pendingIds == UNION {ToSet(itemsOf(g)) : g \in Groups}
flushIds   == UNION {ToSet(f.items) : f \in flushes}
queuedIds  == UNION {ToSet(queued[k]) : k \in Keys}

\* No stage holds an alert twice.
HeldOnce    == \A h1, h2 \in holds : h1.n = h2.n => h1 = h2
PendingOnce == \A g1, g2 \in Groups :
                 \A i \in DOMAIN itemsOf(g1), j \in DOMAIN itemsOf(g2) :
                    itemsOf(g1)[i] = itemsOf(g2)[j] => g1 = g2 /\ i = j
FlushedOnce == \A f1, f2 \in flushes : \A i \in DOMAIN f1.items, j \in DOMAIN f2.items :
                    f1.items[i] = f2.items[j] => f1 = f2 /\ i = j
QueuedOnce  == \A k1, k2 \in Keys : \A i \in DOMAIN queued[k1], j \in DOMAIN queued[k2] :
                    queued[k1][i] = queued[k2][j] => k1 = k2 /\ i = j
Once == HeldOnce /\ PendingOnce /\ FlushedOnce /\ QueuedOnce

\* The six stages share out the open alerts.
ShareOut(o, e, a, h, p, f, q) ==
    /\ o = e \cup a \cup h \cup p \cup f \cup q
    /\ e \cap (a \cup h \cup p \cup f \cup q) = {}
    /\ a \cap (h \cup p \cup f \cup q) = {}
    /\ h \cap (p \cup f \cup q) = {}
    /\ p \cap (f \cup q) = {}
    /\ f \cap q = {}

Placed == ShareOut(open, entering, adding, heldIds, pendingIds, flushIds, queuedIds)

\* So an open alert has one place and any other has none.
LEMMA PlacedAccounted == Typed /\ Once /\ Placed => EveryAlertAccounted
<1> SUFFICES ASSUME Typed, Once, Placed, NEW n \in DOMAIN alerts
             PROVE  Cardinality(places(n)) = IF n \in open THEN 1 ELSE 0
  BY DEF EveryAlertAccounted
<1> DEFINE pl == places(n)
<1>1. \A x : x \in pl <=>
        \/ n \in entering /\ x = <<"entering", 0, 0>>
        \/ n \in adding /\ x = <<"adding", 0, 0>>
        \/ \E h \in holds : h.n = n /\ x = <<"hold", h, 0>>
        \/ \E g \in Groups : \E i \in DOMAIN itemsOf(g) : itemsOf(g)[i] = n /\ x = <<"pending", g, i>>
        \/ \E f \in flushes : \E i \in DOMAIN f.items : f.items[i] = n /\ x = <<"flush", f, i>>
        \/ \E k \in Keys : \E i \in DOMAIN queued[k] : queued[k][i] = n /\ x = <<"queue", k, i>>
  <2>1. \A s, d, b, x : x \in placed(s, d, b, n) <=> \E i \in DOMAIN b : b[i] = n /\ x = <<s, d, i>>
    BY DEF placed
  <2>2. \A x : x \in {<<"hold", h, 0>> : h \in {y \in holds : y.n = n}}
                 <=> \E h \in holds : h.n = n /\ x = <<"hold", h, 0>>
    OBVIOUS
  <2>3. \A x : /\ x \in {<<"entering", 0, 0>> : m \in entering \cap {n}}
                    <=> n \in entering /\ x = <<"entering", 0, 0>>
               /\ x \in {<<"adding", 0, 0>> : m \in adding \cap {n}}
                    <=> n \in adding /\ x = <<"adding", 0, 0>>
    OBVIOUS
  <2>4. \A x : /\ x \in UNION {placed("pending", g, itemsOf(g), n) : g \in Groups}
                    <=> \E g \in Groups : x \in placed("pending", g, itemsOf(g), n)
               /\ x \in UNION {placed("flush", f, f.items, n) : f \in flushes}
                    <=> \E f \in flushes : x \in placed("flush", f, f.items, n)
               /\ x \in UNION {placed("queue", k, queued[k], n) : k \in Keys}
                    <=> \E k \in Keys : x \in placed("queue", k, queued[k], n)
    OBVIOUS
  <2>5. \A x : x \in pl <=>
          \/ x \in {<<"entering", 0, 0>> : m \in entering \cap {n}}
          \/ x \in {<<"adding", 0, 0>> : m \in adding \cap {n}}
          \/ x \in {<<"hold", h, 0>> : h \in {y \in holds : y.n = n}}
          \/ x \in UNION {placed("pending", g, itemsOf(g), n) : g \in Groups}
          \/ x \in UNION {placed("flush", f, f.items, n) : f \in flushes}
          \/ x \in UNION {placed("queue", k, queued[k], n) : k \in Keys}
    <3>1. PICK A, B, C, D, E, F :
            /\ A = {<<"entering", 0, 0>> : m \in entering \cap {n}}
            /\ B = {<<"adding", 0, 0>> : m \in adding \cap {n}}
            /\ C = {<<"hold", h, 0>> : h \in {y \in holds : y.n = n}}
            /\ D = UNION {placed("pending", g, itemsOf(g), n) : g \in Groups}
            /\ E = UNION {placed("flush", f, f.items, n) : f \in flushes}
            /\ F = UNION {placed("queue", k, queued[k], n) : k \in Keys}
      OBVIOUS
    <3>2. pl = A \cup B \cup C \cup D \cup E \cup F
      BY <3>1 DEF places
    <3> HIDE DEF pl
    <3> QED
      BY <3>1, <3>2
  <2>6. \A x : /\ x \in UNION {placed("pending", g, itemsOf(g), n) : g \in Groups}
                    <=> \E g \in Groups : \E i \in DOMAIN itemsOf(g) :
                          itemsOf(g)[i] = n /\ x = <<"pending", g, i>>
               /\ x \in UNION {placed("flush", f, f.items, n) : f \in flushes}
                    <=> \E f \in flushes : \E i \in DOMAIN f.items :
                          f.items[i] = n /\ x = <<"flush", f, i>>
               /\ x \in UNION {placed("queue", k, queued[k], n) : k \in Keys}
                    <=> \E k \in Keys : \E i \in DOMAIN queued[k] :
                          queued[k][i] = n /\ x = <<"queue", k, i>>
    BY <2>1, <2>4
  <2> HIDE DEF pl
  <2>7. TAKE x
  <2> QED
    BY <2>2, <2>3, <2>5, <2>6
<1> HIDE DEF pl
<1>2. /\ n \in heldIds <=> \E h \in holds : h.n = n
      /\ n \in pendingIds <=> \E g \in Groups : \E i \in DOMAIN itemsOf(g) : itemsOf(g)[i] = n
      /\ n \in flushIds <=> \E f \in flushes : \E i \in DOMAIN f.items : f.items[i] = n
      /\ n \in queuedIds <=> \E k \in Keys : \E i \in DOMAIN queued[k] : queued[k][i] = n
  BY DEF heldIds, pendingIds, flushIds, queuedIds, ToSet
<1>3. /\ n \in open <=> \/ n \in entering \/ n \in adding \/ n \in heldIds \/ n \in pendingIds
                        \/ n \in flushIds \/ n \in queuedIds
      /\ n \in entering => n \notin adding /\ n \notin heldIds /\ n \notin pendingIds
                           /\ n \notin flushIds /\ n \notin queuedIds
      /\ n \in adding => n \notin heldIds /\ n \notin pendingIds /\ n \notin flushIds /\ n \notin queuedIds
      /\ n \in heldIds => n \notin pendingIds /\ n \notin flushIds /\ n \notin queuedIds
      /\ n \in pendingIds => n \notin flushIds /\ n \notin queuedIds
      /\ n \in flushIds => n \notin queuedIds
  BY DEF Placed, ShareOut
<1>4. n \notin open => pl = {}
  BY <1>1, <1>2, <1>3
<1>5. CASE n \in entering
  <2>1. pl = {<<"entering", 0, 0>>}
    BY <1>1, <1>2, <1>3, <1>5
  <2> QED
    BY <1>3, <1>5, <2>1, FS_Singleton DEF pl
<1>6. CASE n \in adding
  <2>1. pl = {<<"adding", 0, 0>>}
    BY <1>1, <1>2, <1>3, <1>6
  <2> QED
    BY <1>3, <1>6, <2>1, FS_Singleton DEF pl
<1>7. CASE n \in heldIds
  <2>1. PICK h \in holds : h.n = n
    BY <1>2, <1>7
  <2>2. \A h2 \in holds : h2.n = n => h2 = h
    BY <2>1 DEF Once, HeldOnce
  <2>3. pl = {<<"hold", h, 0>>}
    BY <1>1, <1>2, <1>3, <1>7, <2>1, <2>2
  <2> QED
    BY <1>3, <1>7, <2>3, FS_Singleton DEF pl
<1>8. CASE n \in pendingIds
  <2>1. PICK g \in Groups : \E i \in DOMAIN itemsOf(g) : itemsOf(g)[i] = n
    BY <1>2, <1>8
  <2>2. PICK i \in DOMAIN itemsOf(g) : itemsOf(g)[i] = n
    BY <2>1
  <2>3. \A g2 \in Groups : \A j \in DOMAIN itemsOf(g2) : itemsOf(g2)[j] = n => g2 = g /\ j = i
    BY <2>2 DEF Once, PendingOnce
  <2>4. pl = {<<"pending", g, i>>}
    BY <1>1, <1>2, <1>3, <1>8, <2>2, <2>3
  <2> QED
    BY <1>3, <1>8, <2>4, FS_Singleton DEF pl
<1>9. CASE n \in flushIds
  <2>1. PICK f \in flushes : \E i \in DOMAIN f.items : f.items[i] = n
    BY <1>2, <1>9
  <2>2. PICK i \in DOMAIN f.items : f.items[i] = n
    BY <2>1
  <2>3. \A f2 \in flushes : \A j \in DOMAIN f2.items : f2.items[j] = n => f2 = f /\ j = i
    BY <2>2 DEF Once, FlushedOnce
  <2>4. pl = {<<"flush", f, i>>}
    BY <1>1, <1>2, <1>3, <1>9, <2>2, <2>3
  <2> QED
    BY <1>3, <1>9, <2>4, FS_Singleton DEF pl
<1>10. CASE n \in queuedIds
  <2>1. PICK k \in Keys : \E i \in DOMAIN queued[k] : queued[k][i] = n
    BY <1>2, <1>10
  <2>2. PICK i \in DOMAIN queued[k] : queued[k][i] = n
    BY <2>1
  <2>3. \A k2 \in Keys : \A j \in DOMAIN queued[k2] : queued[k2][j] = n => k2 = k /\ j = i
    BY <2>2 DEF Once, QueuedOnce
  <2>4. pl = {<<"queue", k, i>>}
    BY <1>1, <1>2, <1>3, <1>10, <2>2, <2>3
  <2> QED
    BY <1>3, <1>10, <2>4, FS_Singleton DEF pl
<1>11. CASE n \notin open
  <2>1. Cardinality(pl) = 0
    BY <1>4, <1>11, FS_EmptySet
  <2> QED
    BY <1>11, <2>1 DEF pl
<1> QED
  BY <1>3, <1>5, <1>6, <1>7, <1>8, <1>9, <1>10, <1>11

\* The alerts that end are open no more.
LEMMA EndsOpen ==
    ASSUME Typed, NEW S, NEW f \in Fates \ {"open"}, ends(S, f)
    PROVE  open' = open \ S
  BY EndsTyped DEF open

\* Who is in a stage.
LEMMA StageIds ==
    /\ \A n : n \in heldIds <=> \E h \in holds : h.n = n
    /\ \A n : n \in pendingIds <=> \E g \in Groups : \E i \in DOMAIN itemsOf(g) : itemsOf(g)[i] = n
    /\ \A n : n \in flushIds <=> \E f \in flushes : \E i \in DOMAIN f.items : f.items[i] = n
    /\ \A n : n \in queuedIds <=> \E k \in Keys : \E i \in DOMAIN queued[k] : queued[k][i] = n
  BY DEF heldIds, pendingIds, flushIds, queuedIds, ToSet

\* Who is in a batch.
LEMMA InBatch == \A b, n : n \in ToSet(b) <=> \E i \in DOMAIN b : b[i] = n
  BY DEF ToSet

\* A stage whose variable is unchanged holds the same alerts.
LEMMA SameStage ==
    /\ UNCHANGED holds => heldIds' = heldIds /\ (HeldOnce => HeldOnce')
    /\ UNCHANGED pending => pendingIds' = pendingIds /\ (PendingOnce => PendingOnce')
    /\ UNCHANGED flushes => flushIds' = flushIds /\ (FlushedOnce => FlushedOnce')
    /\ UNCHANGED queued => queuedIds' = queuedIds /\ (QueuedOnce => QueuedOnce')
  BY DEF heldIds, pendingIds, flushIds, queuedIds, itemsOf, HeldOnce, PendingOnce, FlushedOnce,
         QueuedOnce

\* A hold more.
LEMMA HoldAdded ==
    ASSUME HeldOnce, NEW h, h.n \notin heldIds, holds' = holds \cup {h}
    PROVE  HeldOnce' /\ heldIds' = heldIds \cup {h.n}
  BY DEF HeldOnce, heldIds

\* A hold less.
LEMMA HoldEnded ==
    ASSUME HeldOnce, NEW h \in holds, holds' = holds \ {h}
    PROVE  HeldOnce' /\ heldIds' = heldIds \ {h.n}
  BY DEF HeldOnce, heldIds

\* Holds that only age or close.
LEMMA HoldsMapped ==
    ASSUME HeldOnce, NEW c, holds' = {c[h] : h \in holds}, \A h \in holds : c[h].n = h.n
    PROVE  HeldOnce' /\ heldIds' = heldIds
<1>1. HeldOnce'
  BY DEF HeldOnce
<1>2. heldIds' = heldIds
  BY DEF heldIds
<1> QED
  BY <1>1, <1>2

\* Batches taken out of the coalescer.
LEMMA PendingTaken ==
    ASSUME PendingOnce, NEW S \in SUBSET Groups,
           \A g \in Groups : itemsOf(g)' = IF g \in S THEN <<>> ELSE itemsOf(g)
    PROVE  /\ PendingOnce'
           /\ pendingIds' = pendingIds \ UNION {ToSet(itemsOf(g)) : g \in S}
<1>1. DOMAIN <<>> = {}
  OBVIOUS
<1>2. PendingOnce'
  BY <1>1 DEF PendingOnce
<1>3. ASSUME NEW n
      PROVE  n \in pendingIds' <=> n \in pendingIds \ UNION {ToSet(itemsOf(g)) : g \in S}
  <2>1. n \in pendingIds' <=> \E g \in Groups : \E i \in DOMAIN itemsOf(g)' : itemsOf(g)'[i] = n
    BY DEF pendingIds, ToSet
  <2>2. n \in pendingIds' <=> \E g \in Groups \ S : \E i \in DOMAIN itemsOf(g) : itemsOf(g)[i] = n
    BY <1>1, <2>1
  <2>3. n \in UNION {ToSet(itemsOf(g)) : g \in S}
          <=> \E g \in S : \E i \in DOMAIN itemsOf(g) : itemsOf(g)[i] = n
    BY InBatch
  <2>4. \A g \in Groups, h \in S : \A i \in DOMAIN itemsOf(g), j \in DOMAIN itemsOf(h) :
          itemsOf(g)[i] = n /\ itemsOf(h)[j] = n => g = h
    BY DEF PendingOnce
  <2> QED
    BY <2>2, <2>3, <2>4, StageIds
<1> QED
  BY <1>2, <1>3

\* One more alert in a batch of the coalescer.
LEMMA PendingGrown ==
    ASSUME Typed, PendingOnce, NEW g \in Groups, NEW n \in DOMAIN alerts, n \notin pendingIds,
           NEW b, b = Append(itemsOf(g), n),
           \A x \in Groups : itemsOf(x)' = IF x = g THEN b ELSE itemsOf(x)
    PROVE  PendingOnce' /\ pendingIds' = pendingIds \cup {n}
<1>1. PICK s, l : s = itemsOf(g) /\ l = Len(s)
  OBVIOUS
<1>2. s \in Seq(DOMAIN alerts) /\ l \in Nat /\ DOMAIN s = 1..l
  BY <1>1, BatchTyped
<1>3. /\ DOMAIN b = 1..(l + 1) /\ b[l + 1] = n /\ \A i \in 1..l : b[i] = s[i]
      /\ \A i \in DOMAIN b : i # l + 1 => i \in DOMAIN s
  <2>1. DOMAIN b = 1..(l + 1) /\ b[l + 1] = n /\ \A i \in 1..l : b[i] = s[i]
    BY <1>1, <1>2, AppendFacts
  <2> QED
    BY <1>2, <2>1
<1>4. \A x \in Groups : \A i \in DOMAIN itemsOf(x) : itemsOf(x)[i] # n
  BY StageIds
<1>5. PendingOnce'
  <2> SUFFICES ASSUME NEW x \in Groups, NEW y \in Groups,
                      NEW i \in DOMAIN itemsOf(x)', NEW j \in DOMAIN itemsOf(y)',
                      itemsOf(x)'[i] = itemsOf(y)'[j]
               PROVE  x = y /\ i = j
    BY DEF PendingOnce
  <2>1. \A z \in Groups : \A m \in DOMAIN itemsOf(z)' :
           \/ z = g /\ m = l + 1 /\ itemsOf(z)'[m] = n
           \/ /\ m \in DOMAIN itemsOf(z) /\ itemsOf(z)'[m] = itemsOf(z)[m] /\ itemsOf(z)'[m] # n
    <3> SUFFICES ASSUME NEW z \in Groups, NEW m \in DOMAIN itemsOf(z)'
                 PROVE  \/ z = g /\ m = l + 1 /\ itemsOf(z)'[m] = n
                        \/ /\ m \in DOMAIN itemsOf(z) /\ itemsOf(z)'[m] = itemsOf(z)[m]
                           /\ itemsOf(z)'[m] # n
      OBVIOUS
    <3>1. CASE z = g
      <4>1. itemsOf(z)' = b /\ itemsOf(z) = s
        BY <1>1, <3>1
      <4>2. m # l + 1 => m \in DOMAIN s /\ b[m] = s[m] /\ s[m] # n
        BY <1>1, <1>2, <1>3, <1>4, <4>1
      <4> QED
        BY <1>3, <3>1, <4>1, <4>2
    <3>2. CASE z # g
      BY <1>4, <3>2
    <3> QED
      BY <3>1, <3>2
  <2> QED
    BY <2>1 DEF PendingOnce
<1>6. ASSUME NEW m PROVE m \in pendingIds' <=> m \in pendingIds \cup {n}
  <2>1. m \in pendingIds' <=> \E x \in Groups : \E i \in DOMAIN itemsOf(x)' : itemsOf(x)'[i] = m
    BY DEF pendingIds, ToSet
  <2>2. (\E i \in DOMAIN b : b[i] = m) <=> m = n \/ \E i \in DOMAIN s : s[i] = m
    BY <1>2, <1>3
  <2> QED
    BY <1>1, <2>1, <2>2, StageIds
<1> QED
  BY <1>5, <1>6

\* Batches on their way to the queue.
LEMMA FlushesAdded ==
    ASSUME FlushedOnce, NEW R, flushes' = flushes \cup R,
           \A r \in R : ToSet(r.items) \cap flushIds = {},
           \A r1, r2 \in R : \A i \in DOMAIN r1.items, j \in DOMAIN r2.items :
              r1.items[i] = r2.items[j] => r1 = r2 /\ i = j
    PROVE  FlushedOnce' /\ flushIds' = flushIds \cup UNION {ToSet(r.items) : r \in R}
<1>1. \A r \in R : \A f \in flushes : \A i \in DOMAIN r.items, j \in DOMAIN f.items :
        r.items[i] # f.items[j]
  BY StageIds, InBatch
<1>2. FlushedOnce'
  BY <1>1 DEF FlushedOnce
<1>3. flushIds' = flushIds \cup UNION {ToSet(r.items) : r \in R}
  BY DEF flushIds
<1> QED
  BY <1>2, <1>3

\* A batch handed to the queue.
LEMMA FlushGone ==
    ASSUME FlushedOnce, NEW f \in flushes, flushes' = flushes \ {f}
    PROVE  FlushedOnce' /\ flushIds' = flushIds \ ToSet(f.items)
<1>1. FlushedOnce'
  BY DEF FlushedOnce
<1>2. ASSUME NEW n PROVE n \in flushIds' <=> n \in flushIds \ ToSet(f.items)
  <2>1. n \in flushIds' <=> \E x \in flushes \ {f} : \E i \in DOMAIN x.items : x.items[i] = n
    BY DEF flushIds, ToSet
  <2>2. n \in ToSet(f.items) <=> \E i \in DOMAIN f.items : f.items[i] = n
    BY InBatch
  <2> QED
    BY <2>1, <2>2, StageIds DEF FlushedOnce
<1> QED
  BY <1>1, <1>2

\* Batches that leave the queue.
LEMMA QueueCleared ==
    ASSUME QueuedOnce, NEW S \in SUBSET Keys,
           \A k \in Keys : queued'[k] = IF k \in S THEN <<>> ELSE queued[k]
    PROVE  QueuedOnce' /\ queuedIds' = queuedIds \ UNION {ToSet(queued[k]) : k \in S}
<1>1. DOMAIN <<>> = {}
  OBVIOUS
<1>2. QueuedOnce'
  BY <1>1 DEF QueuedOnce
<1>3. ASSUME NEW n
      PROVE  n \in queuedIds' <=> n \in queuedIds \ UNION {ToSet(queued[k]) : k \in S}
  <2>1. n \in queuedIds' <=> \E k \in Keys : \E i \in DOMAIN queued'[k] : queued'[k][i] = n
    BY DEF queuedIds, ToSet
  <2>2. n \in queuedIds' <=> \E k \in Keys \ S : \E i \in DOMAIN queued[k] : queued[k][i] = n
    BY <1>1, <2>1
  <2>3. n \in UNION {ToSet(queued[k]) : k \in S}
          <=> \E k \in S : \E i \in DOMAIN queued[k] : queued[k][i] = n
    BY InBatch
  <2>4. \A k \in Keys, x \in S : \A i \in DOMAIN queued[k], j \in DOMAIN queued[x] :
          queued[k][i] = n /\ queued[x][j] = n => k = x
    BY DEF QueuedOnce
  <2> QED
    BY <2>2, <2>3, <2>4, StageIds
<1> QED
  BY <1>2, <1>3

\* A batch that takes the place of the one waiting.
LEMMA QueueReplaced ==
    ASSUME QueuedOnce, NEW k \in Keys, NEW b,
           \A x \in Keys : queued'[x] = IF x = k THEN b ELSE queued[x],
           ToSet(b) \cap queuedIds = {}, \A i, j \in DOMAIN b : b[i] = b[j] => i = j
    PROVE  QueuedOnce' /\ queuedIds' = (queuedIds \ ToSet(queued[k])) \cup ToSet(b)
<1>1. \A x \in Keys : \A i \in DOMAIN queued[x], j \in DOMAIN b : queued[x][i] # b[j]
  BY StageIds, InBatch
<1>2. QueuedOnce'
  BY <1>1 DEF QueuedOnce
<1>3. ASSUME NEW n PROVE n \in queuedIds' <=> n \in (queuedIds \ ToSet(queued[k])) \cup ToSet(b)
  <2>1. n \in queuedIds' <=> \E x \in Keys : \E i \in DOMAIN queued'[x] : queued'[x][i] = n
    BY DEF queuedIds, ToSet
  <2>2. n \in queuedIds' <=> \/ n \in ToSet(b)
                             \/ \E x \in Keys \ {k} : \E i \in DOMAIN queued[x] : queued[x][i] = n
    BY <2>1, InBatch
  <2>3. \A x \in Keys : \A i \in DOMAIN queued[x], j \in DOMAIN queued[k] :
          queued[x][i] = n /\ queued[k][j] = n => x = k
    BY DEF QueuedOnce
  <2> QED
    BY <2>2, <2>3, StageIds, InBatch
<1> QED
  BY <1>2, <1>3

-----------------------------------------------------------------------------
(* Each step moves whole batches, or ends them.                            *)

Settled == Typed /\ Once /\ Placed

\* An admitted alert is a new number, and is entering.
LEMMA AdmitPlaced == ASSUME Settled, NEW a \in Alerts, Admit(a) PROVE Once' /\ Placed'
<1>1. PICK n : n = Len(alerts) + 1
  OBVIOUS
<1>2. /\ entering' = entering \cup {n} /\ fate' = Append(fate, "open")
      /\ UNCHANGED <<holds, adding, pending, flushes, queued>>
  <2>1. Len(alerts') = n
    BY <1>1, TypeFacts DEF Admit, Settled
  <2> QED
    BY <2>1 DEF Admit
<1>3. fate \in Seq(Fates) /\ Len(fate) = Len(alerts) /\ Len(alerts) \in Nat
  BY TypeFacts DEF Settled, Typed, TypeOK
<1>4. open' = open \cup {n} /\ n \notin open
  BY <1>1, <1>2, <1>3 DEF open
<1> QED
  BY <1>2, <1>4, SameStage DEF Settled, Once, Placed, ShareOut

\* From the entrance to a hold, or past it.
LEMMA HoldPlaced == ASSUME Settled, NEW n \in Ids, Hold(n) PROVE Once' /\ Placed'
<1>1. /\ n \in entering /\ entering' = entering \ {n}
      /\ UNCHANGED <<pending, flushes, queued>> /\ open' = open
  BY DEF Hold, aux, open
<1>2. CASE adding' = adding \cup {n} /\ UNCHANGED holds
  BY <1>1, <1>2, SameStage DEF Settled, Once, Placed, ShareOut
<1>3. CASE holds' = holds \cup {[n |-> n, left |-> HoldWindow, closed |-> FALSE]} /\ UNCHANGED adding
  <2>1. PICK r : r = [n |-> n, left |-> HoldWindow, closed |-> FALSE]
    OBVIOUS
  <2>2. r.n = n /\ holds' = holds \cup {r}
    BY <1>3, <2>1
  <2>3. r.n \notin heldIds
    BY <1>1, <2>2 DEF Settled, Placed, ShareOut
  <2>4. HeldOnce' /\ heldIds' = heldIds \cup {n}
    BY <2>2, <2>3, HoldAdded DEF Settled, Once
  <2> QED
    BY <1>1, <1>3, <2>4, SameStage DEF Settled, Once, Placed, ShareOut
<1> QED
  BY <1>2, <1>3 DEF Hold

\* A hold that ends passes its alert on, or its alert ends.
LEMMA EndHoldPlaced ==
    ASSUME Settled, NEW h \in holds, WindowOver(h) \/ DropHeld(h)
    PROVE  Once' /\ Placed'
<1>1. holds' = holds \ {h} /\ UNCHANGED <<entering, pending, flushes, queued>>
  BY DEF WindowOver, DropHeld
<1>2. HeldOnce' /\ heldIds' = heldIds \ {h.n} /\ h.n \in heldIds
  BY <1>1, HoldEnded, StageIds DEF Settled, Once
<1>3. CASE WindowOver(h)
  <2>1. adding' = adding \cup {h.n} /\ open' = open
    BY <1>3 DEF WindowOver, aux, open
  <2> QED
    BY <1>1, <1>2, <2>1, SameStage DEF Settled, Once, Placed, ShareOut
<1>4. CASE DropHeld(h)
  <2>1. UNCHANGED adding /\ (ends({h.n}, "cancelled") \/ ends({h.n}, "lost"))
    BY <1>4 DEF DropHeld
  <2>2. "cancelled" \in Fates \ {"open"} /\ "lost" \in Fates \ {"open"}
    BY DEF Fates
  <2>3. open' = open \ {h.n}
    BY <2>1, <2>2, EndsOpen DEF Settled
  <2> QED
    BY <1>1, <1>2, <2>1, <2>3, SameStage DEF Settled, Once, Placed, ShareOut
<1> QED
  BY <1>3, <1>4

\* A resolve only closes holds.
LEMMA ResolvePlaced == ASSUME Settled, NEW f \in Fps, Resolve(f) PROVE Once' /\ Placed'
<1>1. UNCHANGED <<entering, adding, pending, flushes, queued, fate>>
  BY DEF Resolve
<1>2. PICK c : c = [h \in holds |-> IF h.n = holder[f] THEN [h EXCEPT !.closed = TRUE] ELSE h]
  OBVIOUS
<1>3. holds' = {c[h] : h \in holds}
  BY <1>2 DEF Resolve
<1>4. \A h \in holds : c[h].n = h.n
  BY <1>2 DEF Settled, Typed, TypeOK, HoldRec
<1>5. HeldOnce' /\ heldIds' = heldIds
  BY <1>3, <1>4, HoldsMapped DEF Settled, Once
<1>6. open' = open
  BY <1>1 DEF open
<1> QED
  BY <1>1, <1>5, <1>6, SameStage DEF Settled, Once, Placed, ShareOut

\* Time moves no alert.
LEMMA TickPlaced == ASSUME Settled, Tick PROVE Once' /\ Placed'
<1>1. UNCHANGED <<entering, adding, flushes, queued, fate>>
  BY DEF Tick
<1>2. PICK c : c = [h \in holds |-> [h EXCEPT !.left = down(@)]]
  OBVIOUS
<1>3. holds' = {c[h] : h \in holds}
  BY <1>2 DEF Tick
<1>4. \A h \in holds : c[h].n = h.n
  BY <1>2 DEF Settled, Typed, TypeOK, HoldRec
<1>5. HeldOnce' /\ heldIds' = heldIds
  BY <1>3, <1>4, HoldsMapped DEF Settled, Once
<1>6. open' = open
  BY <1>1 DEF open
<1>7. \A g \in Groups : itemsOf(g)' = IF g \in {} THEN <<>> ELSE itemsOf(g)
  <2> TAKE g \in Groups
  <2>1. pending'[g] = IF pending[g] = NoBatch THEN NoBatch
                      ELSE [pending[g] EXCEPT !.quiet = upTo(@, Debounce), !.age = upTo(@, MaxAge)]
    BY DEF Tick
  <2>2. CASE pending[g] = NoBatch
    BY <2>1, <2>2 DEF itemsOf
  <2>3. CASE pending[g] # NoBatch
    <3>1. /\ pending[g] \in Batch /\ (pending[g])' \in Batch \cup {NoBatch}
          /\ pending'[g].items = pending[g].items
      <4>1. pending[g] \in Batch
        BY <2>3, BatchTyped DEF Settled
      <4>2. Typed'
        BY TickTyped DEF Settled
      <4>3. pending'[g] \in Batch \cup {NoBatch}
        BY <4>2 DEF Typed, TypeOK
      <4> QED
        BY <2>1, <2>3, <4>1, <4>3 DEF Batch
    <3>2. pending'[g] # NoBatch
      <4>1. PICK p, q, a : p = pending[g] /\ q = upTo(p.quiet, Debounce) /\ a = upTo(p.age, MaxAge)
        OBVIOUS
      <4>2. /\ p \in Batch /\ q \in 0..Debounce /\ a \in 0..MaxAge
            /\ pending'[g] = [p EXCEPT !.quiet = q, !.age = a]
        <5>1. p \in Batch /\ p.quiet \in 0..Debounce /\ p.age \in 0..MaxAge
          BY <2>3, <4>1, BatchTyped DEF Settled
        <5>2. Debounce \in Nat /\ MaxAge \in Nat
          BY IntakeConstants DEF MaxAge
        <5>3. upTo(p.quiet, Debounce) \in 0..Debounce /\ upTo(p.age, MaxAge) \in 0..MaxAge
          BY <5>1, <5>2 DEF upTo
        <5> QED
          BY <2>1, <2>3, <4>1, <5>1, <5>3
      <4>3. pending'[g] \in Batch
        BY <4>2 DEF Batch
      <4> QED
        BY <4>3, NullValues
    <3> QED
      BY <2>3, <3>1, <3>2 DEF itemsOf
  <2> QED
    BY <2>2, <2>3
<1>8. PendingOnce' /\ pendingIds' = pendingIds
  <2>1. PICK S \in SUBSET Groups : S = {}
    OBVIOUS
  <2>2. PendingOnce' /\ pendingIds' = pendingIds \ UNION {ToSet(itemsOf(g)) : g \in S}
    BY <1>7, <2>1, PendingTaken DEF Settled, Once
  <2>3. UNION {ToSet(itemsOf(g)) : g \in S} = {}
    BY <2>1
  <2> QED
    BY <2>2, <2>3
<1> QED
  BY <1>1, <1>5, <1>6, <1>8, SameStage DEF Settled, Once, Placed, ShareOut

\* The alerts of a cancelled request end.
LEMMA CancelPlaced == ASSUME Settled, NEW f \in Fps, CancelQueued(f) PROVE Once' /\ Placed'
<1>1. UNCHANGED <<entering, adding, holds, pending, flushes>>
  BY DEF CancelQueued
<1>2. PICK hit \in SUBSET Keys :
        /\ queued' = [k \in Keys |-> IF k \in hit THEN <<>> ELSE queued[k]]
        /\ ends(UNION {ToSet(queued[k]) : k \in hit}, "cancelled")
  BY DEF CancelQueued
<1>3. "cancelled" \in Fates \ {"open"}
  BY DEF Fates
<1>4. open' = open \ UNION {ToSet(queued[k]) : k \in hit}
  BY <1>2, <1>3, EndsOpen DEF Settled
<1>5. QueuedOnce' /\ queuedIds' = queuedIds \ UNION {ToSet(queued[k]) : k \in hit}
  BY <1>2, QueueCleared DEF Settled, Once
<1>6. UNION {ToSet(queued[k]) : k \in hit} \subseteq queuedIds
  BY DEF queuedIds
<1> QED
  BY <1>1, <1>4, <1>5, <1>6, SameStage DEF Settled, Once, Placed, ShareOut

\* The alerts of a request that starts end.
LEMMA StartPlaced == ASSUME Settled, NEW k \in Keys, Start(k) PROVE Once' /\ Placed'
<1>1. UNCHANGED <<entering, adding, holds, pending, flushes>>
  BY DEF Start
<1>2. \A x \in Keys : queued'[x] = IF x \in {k} THEN <<>> ELSE queued[x]
  BY DEF Start, Settled, Typed, TypeOK
<1>3. "started" \in Fates \ {"open"} /\ UNION {ToSet(queued[x]) : x \in {k}} = ToSet(queued[k])
  BY DEF Fates
<1>4. open' = open \ ToSet(queued[k])
  BY <1>3, EndsOpen DEF Settled, Start
<1>5. QueuedOnce' /\ queuedIds' = queuedIds \ ToSet(queued[k])
  BY <1>2, <1>3, QueueCleared DEF Settled, Once
<1>6. ToSet(queued[k]) \subseteq queuedIds
  BY DEF queuedIds
<1> QED
  BY <1>1, <1>4, <1>5, <1>6, SameStage DEF Settled, Once, Placed, ShareOut

\* An emitted batch takes the place of the one waiting, whose alerts end.
LEMMA EmitPlaced == ASSUME Settled, NEW f \in flushes, Emit(f) PROVE Once' /\ Placed'
<1>1. PICK k, b : k = alerts[f.items[1]].key /\ b = f.items
  OBVIOUS
<1>2. /\ UNCHANGED <<entering, adding, holds, pending>> /\ flushes' = flushes \ {f}
      /\ queued' = [queued EXCEPT ![k] = b] /\ ends(ToSet(queued[k]), "merged")
  BY <1>1 DEF Emit
<1>3. b \in Seq(DOMAIN alerts) /\ b # <<>>
  BY <1>1 DEF Settled, Typed, TypeOK, Known
<1>4. k \in Keys
  <2>1. b[1] \in DOMAIN alerts
    BY <1>3
  <2> QED
    BY <1>1, <2>1, TypeFacts DEF Settled
<1>5. FlushedOnce' /\ flushIds' = flushIds \ ToSet(b)
  BY <1>1, <1>2, FlushGone DEF Settled, Once
<1>6. ToSet(b) \subseteq flushIds
  BY <1>1 DEF flushIds
<1>7. QueuedOnce' /\ queuedIds' = (queuedIds \ ToSet(queued[k])) \cup ToSet(b)
  <2>1. \A x \in Keys : queued'[x] = IF x = k THEN b ELSE queued[x]
    BY <1>2 DEF Settled, Typed, TypeOK
  <2>2. ToSet(b) \cap queuedIds = {}
    BY <1>6 DEF Settled, Placed, ShareOut
  <2>3. \A i, j \in DOMAIN b : b[i] = b[j] => i = j
    BY <1>1 DEF Settled, Once, FlushedOnce
  <2> QED
    BY <1>4, <2>1, <2>2, <2>3, QueueReplaced DEF Settled, Once
<1>8. open' = open \ ToSet(queued[k])
  <2>1. "merged" \in Fates \ {"open"}
    BY DEF Fates
  <2> QED
    BY <1>2, <2>1, EndsOpen DEF Settled
<1>9. ToSet(queued[k]) \subseteq queuedIds
  BY <1>4 DEF queuedIds
<1> QED
  BY <1>2, <1>5, <1>6, <1>7, <1>8, <1>9, SameStage DEF Settled, Once, Placed, ShareOut

\* The batches of the groups S leave the coalescer whole.
LEMMA SweepPlaced == ASSUME Settled, Sweep PROVE Once' /\ Placed'
<1>1. PICK S \in SUBSET Groups :
        /\ \A g \in S : pending[g] # NoBatch
        /\ pending' = [g \in Groups |-> IF g \in S THEN NoBatch ELSE pending[g]]
        /\ flushes' = flushes \cup {[by |-> 0, items |-> pending[g].items] : g \in S}
  BY DEF Sweep
<1>2. UNCHANGED <<entering, adding, holds, queued, fate>>
  BY DEF Sweep
<1>3. \A g \in Groups : itemsOf(g)' = IF g \in S THEN <<>> ELSE itemsOf(g)
  BY <1>1 DEF itemsOf
<1>4. PICK T : T = UNION {ToSet(itemsOf(g)) : g \in S}
  OBVIOUS
<1>5. PendingOnce' /\ pendingIds' = pendingIds \ T
  BY <1>3, <1>4, PendingTaken DEF Settled, Once
<1>6. T \subseteq pendingIds
  BY <1>4 DEF pendingIds
<1>7. PICK R : R = {[by |-> 0, items |-> itemsOf(g)] : g \in S}
  OBVIOUS
<1>8. flushes' = flushes \cup R
  BY <1>1, <1>7 DEF itemsOf
<1>9. UNION {ToSet(r.items) : r \in R} = T
  <2>1. ASSUME NEW x
        PROVE  x \in UNION {ToSet(r.items) : r \in R} <=> \E g \in S : x \in ToSet(itemsOf(g))
    <3>1. ASSUME NEW g \in S PROVE [by |-> 0, items |-> itemsOf(g)].items = itemsOf(g)
      OBVIOUS
    <3>2. x \in UNION {ToSet(r.items) : r \in R} <=> \E r \in R : x \in ToSet(r.items)
      OBVIOUS
    <3> QED
      BY <1>7, <3>1, <3>2
  <2> QED
    BY <1>4, <2>1
<1>10. FlushedOnce' /\ flushIds' = flushIds \cup T
  <2>1. \A r \in R : ToSet(r.items) \cap flushIds = {}
    <3>1. \A r \in R : ToSet(r.items) \subseteq T
      BY <1>9
    <3>2. T \cap flushIds = {}
      BY <1>6 DEF Settled, Placed, ShareOut
    <3> QED
      BY <3>1, <3>2
  <2>2. \A r1, r2 \in R : \A i \in DOMAIN r1.items, j \in DOMAIN r2.items :
           r1.items[i] = r2.items[j] => r1 = r2 /\ i = j
    <3> SUFFICES ASSUME NEW r1 \in R, NEW r2 \in R, NEW i \in DOMAIN r1.items,
                        NEW j \in DOMAIN r2.items, r1.items[i] = r2.items[j]
                 PROVE  r1 = r2 /\ i = j
      OBVIOUS
    <3>1. PICK g1 \in S : r1 = [by |-> 0, items |-> itemsOf(g1)]
      BY <1>7
    <3>2. PICK g2 \in S : r2 = [by |-> 0, items |-> itemsOf(g2)]
      BY <1>7
    <3>3. g1 = g2 /\ i = j
      BY <3>1, <3>2 DEF Settled, Once, PendingOnce
    <3> QED
      BY <3>1, <3>2, <3>3
  <2>3. FlushedOnce' /\ flushIds' = flushIds \cup UNION {ToSet(r.items) : r \in R}
    BY <1>8, <2>1, <2>2, FlushesAdded DEF Settled, Once
  <2> QED
    BY <1>9, <2>3
<1>11. open' = open
  BY <1>2 DEF open
<1> QED
  BY <1>2, <1>5, <1>6, <1>10, <1>11, SameStage DEF Settled, Once, Placed, ShareOut

\* The coalescer's critical section: the alert is suppressed, flushed with its batch, or kept.
LEMMA AddPlaced == ASSUME Settled, NEW n \in Ids, Add(n) PROVE Once' /\ Placed'
<1>1. PICK g : g = alerts[n].group
  OBVIOUS
<1>2. PICK b : b = Append(itemsOf(g), n)
  OBVIOUS
<1>3. n \in adding /\ adding' = adding \ {n} /\ UNCHANGED <<entering, holds, queued>>
  BY DEF Add
<1>4. n \in DOMAIN alerts /\ g \in Groups
  <2>1. n \in DOMAIN alerts
    BY <1>3 DEF Settled, Typed, TypeOK
  <2> QED
    BY <1>1, <2>1, TypeFacts DEF Settled
<1>5. n \notin pendingIds /\ n \notin flushIds
  BY <1>3 DEF Settled, Placed, ShareOut
<1>6. CASE Suppress(n)
  <2>1. ends({n}, "suppressed") /\ UNCHANGED <<pending, flushes>>
    BY <1>6 DEF Suppress
  <2>2. "suppressed" \in Fates \ {"open"}
    BY DEF Fates
  <2>3. open' = open \ {n}
    BY <2>1, <2>2, EndsOpen DEF Settled
  <2> QED
    BY <1>3, <2>1, <2>3, SameStage DEF Settled, Once, Placed, ShareOut
<1>7. CASE flushOne(n, g, b) /\ pending' = [pending EXCEPT ![g] = NoBatch] /\ UNCHANGED fate
  <2>1. \A x \in Groups : itemsOf(x)' = IF x \in {g} THEN <<>> ELSE itemsOf(x)
    BY <1>4, <1>7 DEF itemsOf, Settled, Typed, Maps
  <2>2. PICK T : T = ToSet(itemsOf(g))
    OBVIOUS
  <2>3. PendingOnce' /\ pendingIds' = pendingIds \ T
    <3>1. PendingOnce' /\ pendingIds' = pendingIds \ UNION {ToSet(itemsOf(x)) : x \in {g}}
      BY <1>4, <2>1, PendingTaken DEF Settled, Once
    <3>2. UNION {ToSet(itemsOf(x)) : x \in {g}} = T
      BY <2>2
    <3> QED
      BY <3>1, <3>2
  <2>4. T \subseteq pendingIds
    BY <1>4, <2>2 DEF pendingIds
  <2>5. PICK r : r = [by |-> n, items |-> b]
    OBVIOUS
  <2>6. flushes' = flushes \cup {r} /\ r.items = b
    BY <1>7, <2>5 DEF flushOne
  <2>7. PICK s, l : s = itemsOf(g) /\ l = Len(s)
    OBVIOUS
  <2>8. s \in Seq(DOMAIN alerts) /\ l \in Nat /\ DOMAIN s = 1..l
    BY <1>4, <2>7, BatchTyped DEF Settled
  <2>9. DOMAIN b = 1..(l + 1) /\ b[l + 1] = n /\ \A i \in 1..l : b[i] = s[i]
    BY <1>2, <1>4, <2>7, <2>8, AppendFacts
  <2>10. ToSet(b) = T \cup {n}
    <3>1. ASSUME NEW x PROVE x \in ToSet(b) <=> x \in T \/ x = n
      <4>1. x \in ToSet(b) <=> \E i \in 1..(l + 1) : b[i] = x
        <5>1. x \in ToSet(b) <=> \E i \in DOMAIN b : b[i] = x
          BY InBatch
        <5>2. DOMAIN b = 1..(l + 1)
          BY <2>9
        <5> QED
          BY <5>1, <5>2
      <4>2. x \in T <=> \E i \in 1..l : s[i] = x
        <5>1. x \in ToSet(s) <=> \E i \in DOMAIN s : s[i] = x
          BY InBatch
        <5>2. DOMAIN s = 1..l /\ T = ToSet(s)
          BY <2>2, <2>7, <2>8
        <5> QED
          BY <5>1, <5>2
      <4> QED
        BY <2>8, <2>9, <4>1, <4>2
    <3> QED
      BY <3>1
  <2>11. FlushedOnce' /\ flushIds' = flushIds \cup (T \cup {n})
    <3>1. ToSet(b) \cap flushIds = {}
      BY <1>5, <2>4, <2>10 DEF Settled, Placed, ShareOut
    <3>2. \A i, j \in DOMAIN b : b[i] = b[j] => i = j
      <4>1. \A i \in 1..l : s[i] # n
        BY <1>4, <1>5, <2>7, <2>8, StageIds
      <4>2. \A i, j \in 1..l : s[i] = s[j] => i = j
        BY <1>4, <2>7, <2>8 DEF Settled, Once, PendingOnce
      <4> QED
        BY <2>8, <2>9, <4>1, <4>2
    <3>3. FlushedOnce' /\ flushIds' = flushIds \cup UNION {ToSet(x.items) : x \in {r}}
      BY <2>6, <3>1, <3>2, FlushesAdded DEF Settled, Once
    <3>4. UNION {ToSet(x.items) : x \in {r}} = ToSet(b)
      BY <2>6
    <3> QED
      BY <2>10, <3>3, <3>4
  <2>12. open' = open
    BY <1>7 DEF open
  <2> QED
    BY <1>3, <1>5, <2>3, <2>4, <2>11, <2>12, SameStage DEF Settled, Once, Placed, ShareOut
<1>8. CASE /\ UNCHANGED <<fate, flushes>>
           /\ pending' = [pending EXCEPT ![g] =
                             [items |-> b, quiet |-> 0,
                              age |-> IF pending[g] = NoBatch THEN 0 ELSE pending[g].age]]
  <2>1. \A x \in Groups : itemsOf(x)' = IF x = g THEN b ELSE itemsOf(x)
    <3>1. PICK r : r = [items |-> b, quiet |-> 0,
                        age |-> IF pending[g] = NoBatch THEN 0 ELSE pending[g].age]
      OBVIOUS
    <3>2. r.items = b /\ pending' = [pending EXCEPT ![g] = r]
      BY <1>8, <3>1
    <3>3. r # NoBatch
      <4>1. PICK a : a = IF pending[g] = NoBatch THEN 0 ELSE pending[g].age
        OBVIOUS
      <4>2. a \in 0..MaxAge /\ 0 \in 0..Debounce
        <5>1. MaxAge \in Nat /\ Debounce \in Nat
          BY IntakeConstants DEF MaxAge
        <5> QED
          BY <1>4, <4>1, <5>1, BatchTyped DEF Settled
      <4>3. b \in Seq(Ids)
        <5>1. itemsOf(g) \in Seq(Ids)
          BY <1>4, BatchTyped DEF Settled
        <5> QED
          BY <1>2, <5>1
      <4>4. r \in Batch
        BY <3>1, <4>1, <4>2, <4>3 DEF Batch
      <4> QED
        BY <4>4, NullValues
    <3> QED
      BY <1>4, <3>2, <3>3 DEF itemsOf, Settled, Typed, Maps
  <2>2. PendingOnce' /\ pendingIds' = pendingIds \cup {n}
    BY <1>2, <1>4, <1>5, <2>1, PendingGrown DEF Settled, Once
  <2>3. open' = open
    BY <1>8 DEF open
  <2> QED
    BY <1>3, <1>8, <2>2, <2>3, SameStage DEF Settled, Once, Placed, ShareOut
<1>9. ASSUME NEW y \in BOOLEAN, Buffer(n, g, y)
      PROVE  /\ UNCHANGED fate
             /\ \/ flushOne(n, g, b) /\ pending' = [pending EXCEPT ![g] = NoBatch]
                \/ /\ pending' = [pending EXCEPT ![g] =
                                     [items |-> b, quiet |-> 0,
                                      age |-> IF pending[g] = NoBatch THEN 0 ELSE pending[g].age]]
                   /\ UNCHANGED flushes
  BY <1>2, <1>9 DEF Buffer
<1>10. CASE FlushCritical(n, g)
  BY <1>2, <1>7, <1>10 DEF FlushCritical
<1>11. CASE Buffer(n, g, TRUE) \/ Buffer(n, g, FALSE)
  BY <1>7, <1>8, <1>9, <1>11
<1> QED
  BY <1>1, <1>6, <1>10, <1>11 DEF Add

\* Every step keeps every open alert in one place.
LEMMA SettledStep == Settled /\ [Next]_vars => Settled'
<1> SUFFICES ASSUME Settled, [Next]_vars PROVE Once' /\ Placed'
  BY TypedStep DEF Settled
<1>1. CASE UNCHANGED vars \/ Stop
  <2>1. UNCHANGED <<entering, adding, holds, pending, flushes, queued, fate>>
    BY <1>1 DEF vars, stages, aux, Stop
  <2>2. open' = open
    BY <2>1 DEF open
  <2> QED
    BY <2>1, <2>2, SameStage DEF Settled, Once, Placed, ShareOut
<1>2. ASSUME NEW n \in Ids, EndHold(n) PROVE Once' /\ Placed'
  BY <1>2, EndHoldPlaced DEF EndHold
<1> QED
  BY <1>1, <1>2, AdmitPlaced, HoldPlaced, AddPlaced, ResolvePlaced, CancelPlaced, EmitPlaced,
     StartPlaced, SweepPlaced, TickPlaced DEF Next

\* No alert is admitted yet.
LEMMA InitSettled == Init => Settled
<1> SUFFICES ASSUME Init PROVE Once /\ Placed
  BY InitTyped DEF Settled
<1>1. /\ entering = {} /\ adding = {} /\ holds = {} /\ flushes = {} /\ fate = <<>>
      /\ \A g \in Groups : itemsOf(g) = <<>>
      /\ \A k \in Keys : queued[k] = <<>>
  BY DEF Init, itemsOf
<1>2. \A n : n \notin pendingIds /\ n \notin queuedIds /\ n \notin heldIds /\ n \notin flushIds
  BY <1>1, StageIds
<1>3. open = {}
  BY <1>1 DEF open
<1>4. Once
  BY <1>1 DEF Once, HeldOnce, PendingOnce, FlushedOnce, QueuedOnce
<1> QED
  BY <1>1, <1>2, <1>3, <1>4 DEF Placed, ShareOut

-----------------------------------------------------------------------------
(* A running hold can be cancelled.                                        *)

fpOf(n) == alerts[n].fp

\* The dedup window of a fingerprint outlasts every hold it covers, so no hold of it still
\* runs when it is admitted again.
EnteringFresh ==
    \A n \in entering : fpOf(n) # NoFp =>
        /\ dedup[fpOf(n)] = DedupWindow
        /\ \A h \in holds : fpOf(h.n) = fpOf(n) => h.left = 0
        /\ \A m \in entering : fpOf(m) = fpOf(n) => m = n
HoldsOutlasted ==
    \A h \in holds : h.left > 0 /\ fpOf(h.n) # NoFp =>
        dedup[fpOf(h.n)] >= h.left + (DedupWindow - HoldWindow)
Cancellable ==
    DedupWindow > HoldWindow => EnteringFresh /\ HoldsOutlasted /\ HoldsCancellable

\* Steps that admit and register nothing: the running holds keep their entries.
LEMMA CancellableKept ==
    ASSUME Cancellable, UNCHANGED <<alerts, dedup>>, entering' \subseteq entering,
           \A h \in holds' : \E h0 \in holds :
              /\ h.n = h0.n /\ h.left = h0.left /\ (h0.closed => h.closed)
              /\ ~h.closed /\ h.left > 0 /\ fpOf(h.n) # NoFp /\ holder[fpOf(h.n)] = h.n
                    => holder'[fpOf(h.n)] = h.n
    PROVE  Cancellable'
<1> SUFFICES ASSUME DedupWindow > HoldWindow
             PROVE  EnteringFresh' /\ HoldsOutlasted' /\ HoldsCancellable'
  BY DEF Cancellable
<1>1. \A n : fpOf(n)' = fpOf(n)
  BY DEF fpOf
<1>2. EnteringFresh'
  <2> SUFFICES ASSUME NEW n \in entering', fpOf(n) # NoFp
               PROVE  /\ dedup[fpOf(n)] = DedupWindow
                      /\ \A h \in holds' : fpOf(h.n) = fpOf(n) => h.left = 0
                      /\ \A m \in entering' : fpOf(m) = fpOf(n) => m = n
    BY <1>1 DEF EnteringFresh
  <2> QED
    BY DEF Cancellable, EnteringFresh
<1>3. HoldsOutlasted'
  <2> SUFFICES ASSUME NEW h \in holds', h.left > 0, fpOf(h.n) # NoFp
               PROVE  dedup[fpOf(h.n)] >= h.left + (DedupWindow - HoldWindow)
    BY <1>1 DEF HoldsOutlasted
  <2>1. PICK h0 \in holds : h.n = h0.n /\ h.left = h0.left
    OBVIOUS
  <2> QED
    BY <2>1 DEF Cancellable, HoldsOutlasted
<1>4. HoldsCancellable'
  <2> SUFFICES ASSUME NEW h \in holds', ~h.closed, h.left > 0, fpOf(h.n) # NoFp
               PROVE  holder'[fpOf(h.n)] = h.n
    BY <1>1 DEF HoldsCancellable, fpOf
  <2>1. PICK h0 \in holds :
          /\ h.n = h0.n /\ h.left = h0.left /\ ~h0.closed
          /\ holder[fpOf(h.n)] = h.n => holder'[fpOf(h.n)] = h.n
    OBVIOUS
  <2>2. holder[fpOf(h0.n)] = h0.n
    BY <2>1 DEF Cancellable, HoldsCancellable, fpOf
  <2> QED
    BY <2>1, <2>2
<1> QED
  BY <1>2, <1>3, <1>4

\* What a hold is.
LEMMA HoldFacts ==
    ASSUME Typed, NEW h \in holds
    PROVE  /\ h.n \in DOMAIN alerts /\ h.n \in Ids /\ h.n # 0 /\ h.left \in 0..HoldWindow
           /\ fpOf(h.n) \in Fps \cup {NoFp}
           /\ h \in HoldRec /\ h.closed \in BOOLEAN
<1>1. h \in HoldRec /\ h.n \in DOMAIN alerts
  BY DEF Typed, TypeOK, Known
<1>2. h.n \in Ids /\ h.left \in 0..HoldWindow /\ h.closed \in BOOLEAN
  BY <1>1 DEF HoldRec
<1>3. h.n # 0
  BY <1>2 DEF Ids
<1> QED
  BY <1>1, <1>2, <1>3, TypeFacts DEF fpOf

\* A hold that ends forgets its own entry only.
LEMMA EndHoldCancellable ==
    ASSUME Settled, Cancellable, NEW h \in holds, WindowOver(h) \/ DropHeld(h)
    PROVE  Cancellable'
<1>1. /\ UNCHANGED <<alerts, dedup, entering>> /\ holds' = holds \ {h}
      /\ holder' = holder \/ holder' = unregister(h.n)
  BY DEF WindowOver, DropHeld
<1>2. ASSUME NEW x \in holds', fpOf(x.n) # NoFp, holder[fpOf(x.n)] = x.n
      PROVE  holder'[fpOf(x.n)] = x.n
  <2>1. x.n # h.n
    BY <1>1 DEF Settled, Once, HeldOnce
  <2>2. fpOf(x.n) \in Fps
    BY <1>1, <1>2, HoldFacts DEF Settled
  <2> QED
    BY <1>1, <1>2, <2>1, <2>2 DEF unregister
<1> QED
  BY <1>1, <1>2, CancellableKept

\* A resolve closes the hold whose entry it takes.
LEMMA ResolveCancellable ==
    ASSUME Settled, Cancellable, NEW f \in Fps, Resolve(f)
    PROVE  Cancellable'
<1>1. /\ UNCHANGED <<alerts, dedup, entering>> /\ holder' = [holder EXCEPT ![f] = 0]
      /\ holds' = {IF h.n = holder[f] THEN [h EXCEPT !.closed = TRUE] ELSE h : h \in holds}
  BY DEF Resolve
<1>2. ASSUME NEW x \in holds'
      PROVE  \E h \in holds :
              /\ x.n = h.n /\ x.left = h.left /\ (h.closed => x.closed)
              /\ ~x.closed /\ x.left > 0 /\ fpOf(x.n) # NoFp /\ holder[fpOf(x.n)] = x.n
                    => holder'[fpOf(x.n)] = x.n
  <2>1. PICK h \in holds : x = IF h.n = holder[f] THEN [h EXCEPT !.closed = TRUE] ELSE h
    BY <1>1
  <2>2. h \in HoldRec /\ fpOf(h.n) \in Fps \cup {NoFp}
    BY HoldFacts DEF Settled
  <2>3. CASE h.n = holder[f]
    <3>1. x.n = h.n /\ x.left = h.left /\ x.closed = TRUE
      BY <2>1, <2>2, <2>3 DEF HoldRec
    <3> QED
      BY <3>1
  <2>4. CASE h.n # holder[f]
    <3>1. x = h
      BY <2>1, <2>4
    <3>2. fpOf(x.n) \in Fps /\ holder[fpOf(x.n)] = x.n => holder'[fpOf(x.n)] = x.n
      BY <1>1, <2>4, <3>1 DEF Settled, Typed, TypeOK
    <3> QED
      BY <2>2, <3>1, <3>2
  <2> QED
    BY <2>3, <2>4
<1> QED
  BY <1>1, <1>2, CancellableKept

\* An alert is admitted when the window of its fingerprint is over: no hold of it runs, and
\* none of it is entering.
LEMMA AdmitCancellable ==
    ASSUME Settled, Cancellable, NEW a \in Alerts, Admit(a)
    PROVE  Cancellable'
<1> SUFFICES ASSUME DedupWindow > HoldWindow
             PROVE  EnteringFresh' /\ HoldsOutlasted' /\ HoldsCancellable'
  BY DEF Cancellable
<1>1. PICK n, k : n = Len(alerts) + 1 /\ k = dedupKey(a)
  OBVIOUS
<1>2. /\ alerts' = Append(alerts, a) /\ entering' = entering \cup {n}
      /\ dedup' = [dedup EXCEPT ![k] = DedupWindow] /\ dedup[k] <= 0
      /\ UNCHANGED <<holds, holder>>
  <2>1. /\ alerts' = Append(alerts, a) /\ entering' = entering \cup {Len(alerts')}
        /\ dedup' = [dedup EXCEPT ![k] = DedupWindow] /\ ~(dedup[k] > 0)
        /\ UNCHANGED <<holds, holder>>
    BY <1>1 DEF Admit, Seen
  <2>2. Len(alerts') = n
    BY <1>1, <2>1, TypeFacts DEF Settled
  <2>3. k \in DedupKeys
    BY <1>1, IntakeConstants DEF dedupKey, DedupKeys
  <2>4. dedup[k] \in Nat
    BY <2>3, IntakeConstants DEF Settled, Typed, TypeOK
  <2> QED
    BY <2>1, <2>2, <2>4
<1>3. /\ alerts \in Seq(Alerts) /\ Len(alerts) \in Nat /\ DOMAIN alerts = 1..Len(alerts)
      /\ n \notin DOMAIN alerts
  BY <1>1, TypeFacts DEF Settled
<1>4. fpOf(n)' = a.fp /\ \A m \in DOMAIN alerts : fpOf(m)' = fpOf(m)
  BY <1>1, <1>2, <1>3 DEF fpOf
<1>5. /\ \A m \in entering : m \in DOMAIN alerts /\ m # n
      /\ \A h \in holds : h.n \in DOMAIN alerts
  BY <1>3 DEF Settled, Typed, TypeOK, Known
<1>6. /\ \A f \in Fps \cup Keys : dedup'[f] = IF f = k THEN DedupWindow ELSE dedup[f]
      /\ k \in Fps \cup Keys /\ (a.fp # NoFp => k = a.fp) /\ (a.fp = NoFp => k \notin Fps)
  BY <1>1, <1>2, IntakeConstants DEF Settled, Typed, TypeOK, DedupKeys, dedupKey
<1>7. \A m \in DOMAIN alerts : fpOf(m) \in Fps \cup {NoFp}
  BY TypeFacts DEF Settled, fpOf
<1>8. \A h \in holds : fpOf(h.n) # NoFp /\ fpOf(h.n) = k => h.left = 0
  <2> SUFFICES ASSUME NEW h \in holds, fpOf(h.n) # NoFp, fpOf(h.n) = k PROVE h.left = 0
    OBVIOUS
  <2>1. PICK l, d : l = h.left /\ d = dedup[k]
    OBVIOUS
  <2>2. l \in 0..HoldWindow /\ d \in 0..DedupWindow /\ HoldWindow \in Nat /\ DedupWindow \in Nat
    BY <1>6, <2>1, HoldFacts, IntakeConstants DEF Settled, Typed, TypeOK, DedupKeys
  <2>3. l > 0 => d >= l + (DedupWindow - HoldWindow)
    BY <2>1 DEF Cancellable, HoldsOutlasted
  <2>4. d <= 0
    BY <1>2, <2>1
  <2> QED
    BY <2>1, <2>2, <2>3, <2>4
<1>9. \A m \in entering : fpOf(m) # NoFp => fpOf(m) # k
  <2> SUFFICES ASSUME NEW m \in entering, fpOf(m) # NoFp, fpOf(m) = k PROVE FALSE
    OBVIOUS
  <2>1. dedup[k] = DedupWindow
    BY DEF Cancellable, EnteringFresh
  <2> QED
    BY <1>2, <2>1, IntakeConstants
<1>10. EnteringFresh'
  <2> SUFFICES ASSUME NEW m \in entering', fpOf(m)' # NoFp
               PROVE  /\ dedup'[fpOf(m)'] = DedupWindow
                      /\ \A h \in holds : fpOf(h.n)' = fpOf(m)' => h.left = 0
                      /\ \A p \in entering' : fpOf(p)' = fpOf(m)' => p = m
    BY <1>2 DEF EnteringFresh
  <2>1. CASE m = n
    <3>1. fpOf(m)' = k
      BY <1>4, <1>6, <2>1
    <3>2. dedup'[k] = DedupWindow
      BY <1>6
    <3>3. \A p \in entering : fpOf(p) # k
      BY <1>4, <1>5, <1>6, <1>9, <2>1, <3>1
    <3> QED
      BY <1>2, <1>4, <1>5, <1>8, <2>1, <3>1, <3>2, <3>3
  <2>2. CASE m \in entering
    <3>1. fpOf(m)' = fpOf(m) /\ fpOf(m) # k /\ fpOf(m) \in Fps
      BY <1>4, <1>5, <1>7, <1>9, <2>2
    <3>2. fpOf(n)' # fpOf(m)
      BY <1>4, <1>6, <1>9, <2>2, <3>1
    <3> QED
      BY <1>2, <1>4, <1>5, <1>6, <2>2, <3>1, <3>2 DEF Cancellable, EnteringFresh
  <2> QED
    BY <1>2, <2>1, <2>2
<1>11. HoldsOutlasted'
  <2> SUFFICES ASSUME NEW h \in holds, h.left > 0, fpOf(h.n)' # NoFp
               PROVE  dedup'[fpOf(h.n)'] >= h.left + (DedupWindow - HoldWindow)
    BY <1>2 DEF HoldsOutlasted
  <2>1. fpOf(h.n)' = fpOf(h.n) /\ fpOf(h.n) # k /\ fpOf(h.n) \in Fps
    <3>1. h.left # 0
      BY HoldFacts, IntakeConstants DEF Settled
    <3> QED
      BY <1>4, <1>5, <1>7, <1>8, <3>1
  <2>2. dedup[fpOf(h.n)] >= h.left + (DedupWindow - HoldWindow)
    BY <2>1 DEF Cancellable, HoldsOutlasted
  <2> QED
    BY <1>6, <2>1, <2>2
<1>12. HoldsCancellable'
  <2> SUFFICES ASSUME NEW h \in holds, ~h.closed, h.left > 0, fpOf(h.n)' # NoFp
               PROVE  holder[fpOf(h.n)'] = h.n
    BY <1>2 DEF HoldsCancellable, fpOf
  <2>1. fpOf(h.n)' = fpOf(h.n)
    BY <1>4, <1>5
  <2> QED
    BY <2>1 DEF Cancellable, HoldsCancellable, fpOf
<1> QED
  BY <1>10, <1>11, <1>12

\* A hold begins within the window that admitted its alert, and takes the entry.
LEMMA HoldCancellable ==
    ASSUME Settled, Cancellable, NEW n \in Ids, Hold(n)
    PROVE  Cancellable'
<1>1. n \in entering /\ entering' = entering \ {n} /\ UNCHANGED <<alerts, dedup>>
  BY DEF Hold
<1>2. CASE UNCHANGED <<holds, holder>>
  <2>1. entering' \subseteq entering
    BY <1>1
  <2> QED
    BY <1>1, <1>2, <2>1, CancellableKept
<1>3. CASE /\ holds' = holds \cup {[n |-> n, left |-> HoldWindow, closed |-> FALSE]}
           /\ holder' = [f \in Fps |-> IF f = alerts[n].fp THEN n ELSE holder[f]]
  <2> SUFFICES ASSUME DedupWindow > HoldWindow
               PROVE  EnteringFresh' /\ HoldsOutlasted' /\ HoldsCancellable'
    BY DEF Cancellable
  <2>1. PICK r : r = [n |-> n, left |-> HoldWindow, closed |-> FALSE]
    OBVIOUS
  <2>2. holds' = holds \cup {r} /\ r.n = n /\ r.left = HoldWindow
    BY <1>3, <2>1
  <2>3. \A m : fpOf(m)' = fpOf(m)
    BY <1>1 DEF fpOf
  <2>4. n \in DOMAIN alerts /\ fpOf(n) \in Fps \cup {NoFp}
    <3>1. n \in DOMAIN alerts
      BY <1>1 DEF Settled, Typed, TypeOK
    <3> QED
      BY <3>1, TypeFacts DEF Settled, fpOf
  <2>5. EnteringFresh'
    <3> SUFFICES ASSUME NEW m \in entering', fpOf(m) # NoFp
                 PROVE  /\ dedup[fpOf(m)] = DedupWindow
                        /\ \A h \in holds' : fpOf(h.n) = fpOf(m) => h.left = 0
                        /\ \A p \in entering' : fpOf(p) = fpOf(m) => p = m
      BY <1>1, <2>3 DEF EnteringFresh
    <3>1. m \in entering /\ m # n /\ fpOf(n) # fpOf(m)
      BY <1>1 DEF Cancellable, EnteringFresh
    <3> QED
      BY <1>1, <2>2, <3>1 DEF Cancellable, EnteringFresh
  <2>6. HoldsOutlasted'
    <3> SUFFICES ASSUME NEW h \in holds', h.left > 0, fpOf(h.n) # NoFp
                 PROVE  dedup[fpOf(h.n)] >= h.left + (DedupWindow - HoldWindow)
      BY <1>1, <2>3 DEF HoldsOutlasted
    <3>1. CASE h \in holds
      BY <3>1 DEF Cancellable, HoldsOutlasted
    <3>2. CASE h = r
      <4>1. dedup[fpOf(h.n)] = DedupWindow
        BY <1>1, <2>2, <3>2 DEF Cancellable, EnteringFresh
      <4> QED
        BY <2>2, <3>2, <4>1, IntakeConstants
    <3> QED
      BY <2>2, <3>1, <3>2
  <2>7. HoldsCancellable'
    <3> SUFFICES ASSUME NEW h \in holds', ~h.closed, h.left > 0, fpOf(h.n) # NoFp
                 PROVE  holder'[fpOf(h.n)] = h.n
      BY <1>1, <2>3 DEF HoldsCancellable, fpOf
    <3>1. CASE h = r
      BY <1>3, <2>2, <2>4, <3>1 DEF fpOf
    <3>2. CASE h \in holds
      <4>1. fpOf(h.n) # fpOf(n)
        <5>1. h.left # 0
          OBVIOUS
        <5> QED
          BY <1>1, <3>2, <5>1 DEF Cancellable, EnteringFresh
      <4>2. holder[fpOf(h.n)] = h.n
        BY <3>2 DEF Cancellable, HoldsCancellable, fpOf
      <4>3. fpOf(h.n) \in Fps
        BY <3>2, HoldFacts DEF Settled
      <4> QED
        BY <1>3, <4>1, <4>2, <4>3 DEF fpOf
    <3> QED
      BY <2>2, <3>1, <3>2
  <2> QED
    BY <2>5, <2>6, <2>7
<1> QED
  BY <1>2, <1>3 DEF Hold

\* Time takes as much of a hold as of the window it is in.
LEMMA TickCancellable == ASSUME Settled, Cancellable, Tick PROVE Cancellable'
<1> SUFFICES ASSUME DedupWindow > HoldWindow
             PROVE  EnteringFresh' /\ HoldsOutlasted' /\ HoldsCancellable'
  BY DEF Cancellable
<1>1. /\ entering' = {} /\ dedup' = [k \in DedupKeys |-> down(dedup[k])]
      /\ holds' = {[h EXCEPT !.left = down(@)] : h \in holds} /\ UNCHANGED <<alerts, holder>>
  BY DEF Tick, handlersDone
<1>2. \A m : fpOf(m)' = fpOf(m)
  BY <1>1 DEF fpOf
<1>3. ASSUME NEW x \in holds', x.left > 0
      PROVE  \E h \in holds : /\ x.n = h.n /\ x.closed = h.closed
                              /\ h.left > 0 /\ h.left \in Nat /\ x.left = h.left - 1
                              /\ fpOf(h.n) \in Fps \cup {NoFp}
  <2>1. PICK h \in holds : x = [h EXCEPT !.left = down(h.left)]
    BY <1>1
  <2>2. h \in HoldRec /\ h.left \in 0..HoldWindow /\ fpOf(h.n) \in Fps \cup {NoFp}
    BY HoldFacts DEF Settled
  <2>3. x.n = h.n /\ x.closed = h.closed /\ x.left = down(h.left)
    BY <2>1, <2>2 DEF HoldRec
  <2>4. h.left > 0 /\ x.left = h.left - 1 /\ h.left \in Nat
    <3>1. PICK l, y : l = h.left /\ y = x.left
      OBVIOUS
    <3>2. l \in 0..HoldWindow /\ y = (IF l > 0 THEN l - 1 ELSE 0) /\ y > 0 /\ HoldWindow \in Nat
      BY <1>3, <2>2, <2>3, <3>1, IntakeConstants DEF down
    <3>3. l > 0 /\ y = l - 1 /\ l \in Nat
      BY <3>2
    <3> QED
      BY <3>1, <3>3
  <2> QED
    BY <2>2, <2>3, <2>4
<1>4. EnteringFresh'
  BY <1>1 DEF EnteringFresh
<1>5. HoldsOutlasted'
  <2> SUFFICES ASSUME NEW x \in holds', x.left > 0, fpOf(x.n) # NoFp
               PROVE  dedup'[fpOf(x.n)] >= x.left + (DedupWindow - HoldWindow)
    BY <1>2 DEF HoldsOutlasted
  <2>1. PICK h \in holds : /\ x.n = h.n /\ h.left > 0 /\ h.left \in Nat /\ x.left = h.left - 1
                           /\ fpOf(h.n) \in Fps \cup {NoFp}
    BY <1>3
  <2>2. PICK l, d, e : l = h.left /\ d = dedup[fpOf(h.n)] /\ e = dedup'[fpOf(h.n)]
    OBVIOUS
  <2>3. d >= l + (DedupWindow - HoldWindow)
    BY <2>1, <2>2 DEF Cancellable, HoldsOutlasted
  <2>4. fpOf(h.n) \in DedupKeys
    BY <2>1 DEF DedupKeys
  <2>5. d \in Nat /\ e = down(d)
    BY <1>1, <2>2, <2>4, IntakeConstants DEF Settled, Typed, TypeOK
  <2>6. l \in Nat /\ l > 0 /\ x.left = l - 1
    BY <2>1, <2>2
  <2>7. e >= (l - 1) + (DedupWindow - HoldWindow)
    BY <2>3, <2>5, <2>6, IntakeConstants DEF down
  <2> QED
    BY <2>1, <2>2, <2>6, <2>7
<1>6. HoldsCancellable'
  <2> SUFFICES ASSUME NEW x \in holds', ~x.closed, x.left > 0, fpOf(x.n) # NoFp
               PROVE  holder[fpOf(x.n)] = x.n
    BY <1>1, <1>2 DEF HoldsCancellable, fpOf
  <2>1. PICK h \in holds : x.n = h.n /\ x.closed = h.closed /\ h.left > 0
    BY <1>3
  <2> QED
    BY <2>1 DEF Cancellable, HoldsCancellable, fpOf
<1> QED
  BY <1>4, <1>5, <1>6

\* Every step keeps the running holds cancellable.
LEMMA CancellableStep == Settled /\ Cancellable /\ [Next]_vars => Cancellable'
<1> SUFFICES ASSUME Settled, Cancellable, [Next]_vars PROVE Cancellable'
  OBVIOUS
<1>1. ASSUME UNCHANGED <<alerts, dedup, entering, holds, holder>> PROVE Cancellable'
  <2>1. entering' \subseteq entering
    BY <1>1
  <2> QED
    BY <1>1, <2>1, CancellableKept
<1>2. CASE UNCHANGED vars \/ Stop
  BY <1>1, <1>2 DEF vars, stages, aux, Stop
<1>3. ASSUME NEW n \in Ids, EndHold(n) PROVE Cancellable'
  BY <1>3, EndHoldCancellable DEF EndHold
<1>4. ASSUME NEW n \in Ids, Add(n) PROVE Cancellable'
  BY <1>1, <1>4 DEF Add
<1>5. ASSUME NEW f \in Fps, CancelQueued(f) PROVE Cancellable'
  BY <1>1, <1>5 DEF CancelQueued
<1>6. ASSUME NEW f \in flushes, Emit(f) PROVE Cancellable'
  BY <1>1, <1>6 DEF Emit
<1>7. ASSUME NEW k \in Keys, Start(k) PROVE Cancellable'
  BY <1>1, <1>7 DEF Start
<1>8. CASE Sweep
  BY <1>1, <1>8 DEF Sweep
<1> QED
  BY <1>2, <1>3, <1>4, <1>5, <1>6, <1>7, <1>8, AdmitCancellable, HoldCancellable,
     ResolveCancellable, TickCancellable DEF Next

-----------------------------------------------------------------------------
(* One investigation per cooldown.                                         *)

\* A batch is of one group; the record the code keeps covers the cooldown described by the
\* comments; a batch that waits while it lasts holds an alert with a standing vote.
Sorted == \A g \in Groups : \A i \in DOMAIN itemsOf(g) : alerts[itemsOf(g)[i]].group = g
Covered ==
    \A g \in Groups :
        IF recent[g] = NoCooldown THEN cool[g].left = 0
        ELSE /\ recent[g].left = cool[g].left
             /\ cool[g].left > 0 => cool[g].titles \subseteq recent[g].titles
Vouched ==
    \A g \in Groups :
        pending[g] # NoBatch /\ cool[g].left > 0 => ToSet(itemsOf(g)) \cap bypassed # {}
Cooled == Sorted /\ Covered /\ Vouched

\* Batches that only leave, and alerts that stay: every batch is still of one group.
LEMMA SortedKept ==
    ASSUME Settled, Sorted,
           \A g \in Groups : itemsOf(g)' = itemsOf(g) \/ itemsOf(g)' = <<>>,
           \A n \in DOMAIN alerts : alerts'[n] = alerts[n]
    PROVE  Sorted'
<1> SUFFICES ASSUME NEW g \in Groups, NEW i \in DOMAIN itemsOf(g)'
             PROVE  alerts'[itemsOf(g)'[i]].group = g
  BY DEF Sorted
<1>1. itemsOf(g)' = itemsOf(g)
  <2>1. DOMAIN <<>> = {}
    OBVIOUS
  <2> QED
    BY <2>1
<1>2. PICK s : s = itemsOf(g)
  OBVIOUS
<1>3. s \in Seq(DOMAIN alerts) /\ i \in DOMAIN s
  BY <1>1, <1>2, BatchTyped DEF Settled
<1>4. s[i] \in DOMAIN alerts
  BY <1>3
<1>5. alerts[s[i]].group = g
  BY <1>2, <1>3 DEF Sorted
<1> QED
  BY <1>1, <1>2, <1>4, <1>5

\* The coalescer as it was.
LEMMA CooledKept ==
    ASSUME Settled, Cooled, UNCHANGED <<pending, recent, cool, bypassed>>,
           \A n \in DOMAIN alerts : alerts'[n] = alerts[n]
    PROVE  Cooled'
<1>1. \A g \in Groups : itemsOf(g)' = itemsOf(g)
  BY DEF itemsOf
<1>2. Sorted'
  BY <1>1, SortedKept DEF Cooled
<1>3. Covered'
  BY DEF Cooled, Covered
<1>4. Vouched'
  BY <1>1 DEF Cooled, Vouched
<1> QED
  BY <1>2, <1>3, <1>4 DEF Cooled

\* A flush leaves a record that covers its cooldown.
LEMMA CoverFlushed ==
    ASSUME Settled, Covered, NEW g \in Groups, NEW b, NEW r, NEW c,
           r = markFlushed(recent[g], b), c = cooling(cool[g], b)
    PROVE  r.left = Cooldown /\ c.left = Cooldown /\ c.titles \subseteq r.titles
<1>1. /\ r.left = Cooldown /\ c.left = Cooldown
      /\ r.titles = titlesOf(b) \cup (IF recent[g] = NoCooldown THEN {} ELSE recent[g].titles)
      /\ c.titles = titlesOf(b) \cup (IF cool[g].left > 0 THEN cool[g].titles ELSE {})
  BY DEF markFlushed, cooling
<1>2. cool[g].left > 0 => recent[g] # NoCooldown /\ cool[g].titles \subseteq recent[g].titles
  <2>1. PICK l : l = cool[g].left
    OBVIOUS
  <2>2. recent[g] = NoCooldown => l = 0
    BY <2>1 DEF Covered
  <2>3. recent[g] # NoCooldown => (l > 0 => cool[g].titles \subseteq recent[g].titles)
    BY <2>1 DEF Covered
  <2> QED
    BY <2>1, <2>2, <2>3
<1> QED
  BY <1>1, <1>2

\* The batch an alert joins is of its group.
LEMMA JoinSorted ==
    ASSUME Settled, Sorted, NEW n \in DOMAIN alerts, NEW g, NEW b,
           g = alerts[n].group, b = Append(itemsOf(g), n)
    PROVE  /\ \A i \in DOMAIN b : b[i] \in DOMAIN alerts /\ alerts[b[i]].group = g
           /\ 1 \in DOMAIN b /\ ToSet(b) = ToSet(itemsOf(g)) \cup {n}
<1>1. PICK s, l : s = itemsOf(g) /\ l = Len(s)
  OBVIOUS
<1>2. g \in Groups
  BY TypeFacts DEF Settled
<1>3. s \in Seq(DOMAIN alerts) /\ l \in Nat /\ DOMAIN s = 1..l
  BY <1>1, <1>2, BatchTyped DEF Settled
<1>4. DOMAIN b = 1..(l + 1) /\ b[l + 1] = n /\ \A i \in 1..l : b[i] = s[i]
  BY <1>1, <1>3, AppendFacts
<1>5. \A i \in 1..l : s[i] \in DOMAIN alerts /\ alerts[s[i]].group = g
  BY <1>1, <1>2, <1>3 DEF Sorted
<1>6. \A i \in DOMAIN b : i \in 1..l \/ i = l + 1
  BY <1>3, <1>4
<1>7. ASSUME NEW x PROVE x \in ToSet(b) <=> x \in ToSet(s) \cup {n}
  <2>1. x \in ToSet(b) <=> \E i \in 1..(l + 1) : b[i] = x
    <3>1. x \in ToSet(b) <=> \E i \in DOMAIN b : b[i] = x
      BY InBatch
    <3>2. DOMAIN b = 1..(l + 1)
      BY <1>4
    <3> QED
      BY <3>1, <3>2
  <2>2. x \in ToSet(s) <=> \E i \in 1..l : s[i] = x
    BY <1>3, InBatch
  <2> QED
    BY <1>3, <1>4, <2>1, <2>2
<1>8. 1 \in DOMAIN b
  BY <1>3, <1>4
<1> QED
  BY <1>1, <1>4, <1>5, <1>6, <1>7, <1>8

\* What a flush may be while a cooldown lasts.
Sanctioned(f) ==
    LET c == cool[alerts[f.items[1]].group]
    IN  c.left > 0 => \E n \in ToSet(f.items) :
            n \in bypassed' \/ (alerts[n].critical /\ alerts[n].title \notin c.titles)

\* What the coalescer does with an alert: suppressed, flushed with its batch, or kept; and
\* while a cooldown lasts, flushed or kept only as its comments say.
LEMMA AddOutcome ==
    ASSUME Settled, Cooled, NEW n \in Ids, Add(n), NEW g, NEW b,
           g = alerts[n].group, b = Append(itemsOf(g), n)
    PROVE  /\ n \in DOMAIN alerts /\ g \in Groups /\ UNCHANGED alerts /\ bypassed \subseteq bypassed'
           /\ \/ UNCHANGED <<pending, recent, flushes, cool, bypassed>>
              \/ /\ flushOne(n, g, b) /\ pending' = [pending EXCEPT ![g] = NoBatch]
                 /\ \/ cool[g].left = 0 \/ n \in bypassed'
                    \/ alerts[n].critical /\ alerts[n].title \notin cool[g].titles
              \/ /\ UNCHANGED <<recent, flushes, cool>>
                 /\ pending' = [pending EXCEPT ![g] =
                                  [items |-> b, quiet |-> 0,
                                   age |-> IF pending[g] = NoBatch THEN 0 ELSE pending[g].age]]
                 /\ cool[g].left = 0 \/ n \in bypassed'
<1>1. n \in DOMAIN alerts /\ g \in Groups /\ UNCHANGED alerts
  <2>1. n \in DOMAIN alerts
    BY DEF Add, Settled, Typed, TypeOK
  <2> QED
    BY <2>1, TypeFacts DEF Settled, Add
<1>2. PICK l, r : l = cool[g].left /\ r = recent[g]
  OBVIOUS
<1>3. l \in Nat /\ (r = NoCooldown => l = 0)
      /\ (r # NoCooldown => r.left = l /\ (l > 0 => cool[g].titles \subseteq r.titles))
  <2>1. l \in Nat
    <3>1. cool[g] \in CooldownRec
      BY <1>1 DEF Settled, Typed, TypeOK
    <3> QED
      BY <1>2, <3>1, IntakeConstants DEF CooldownRec
  <2>2. r = NoCooldown => l = 0
    BY <1>1, <1>2 DEF Cooled, Covered
  <2>3. r # NoCooldown => r.left = l /\ (l > 0 => cool[g].titles \subseteq r.titles)
    BY <1>1, <1>2 DEF Cooled, Covered
  <2> QED
    BY <2>1, <2>2, <2>3
<1>4. withinCooldown(g) <=> l > 0
  BY <1>2, <1>3 DEF withinCooldown
<1>5. PICK suppress \in BOOLEAN :
        /\ suppress = (withinCooldown(g) /\ ~newCriticalDuringCooldown(n))
        /\ \/ suppress /\ Suppress(n)
           \/ ~suppress /\ alerts[n].critical /\ FlushCritical(n, g)
           \/ suppress /\ Buffer(n, g, TRUE)
           \/ ~suppress /\ ~alerts[n].critical /\ Buffer(n, g, FALSE)
  BY DEF Add
<1>6. CASE suppress /\ Suppress(n)
  BY <1>1, <1>6 DEF Suppress
<1>7. CASE ~suppress /\ alerts[n].critical /\ FlushCritical(n, g)
  <2>1. l = 0 \/ alerts[n].title \notin cool[g].titles
    <3>1. CASE l > 0
      BY <1>2, <1>3, <1>4, <1>5, <1>7, <3>1 DEF newCriticalDuringCooldown
    <3> QED
      BY <1>3, <3>1
  <2> QED
    BY <1>1, <1>2, <1>7, <2>1 DEF FlushCritical
<1>8. CASE suppress /\ Buffer(n, g, TRUE)
  BY <1>1, <1>8 DEF Buffer
<1>9. CASE ~suppress /\ ~alerts[n].critical /\ Buffer(n, g, FALSE)
  <2>1. l = 0
    <3>1. ~newCriticalDuringCooldown(n)
      BY <1>9 DEF newCriticalDuringCooldown
    <3>2. ~withinCooldown(g)
      BY <1>5, <1>9, <3>1
    <3>3. ~(l > 0)
      BY <1>4, <3>2
    <3> QED
      BY <1>3, <3>3
  <2> QED
    BY <1>1, <1>2, <1>9, <2>1 DEF Buffer
<1> QED
  BY <1>5, <1>6, <1>7, <1>8, <1>9

\* The coalescer's critical section.
LEMMA AddCooled ==
    ASSUME Settled, Cooled, NEW n \in Ids, Add(n)
    PROVE  Cooled' /\ \A f \in flushes' \ flushes : Sanctioned(f)
<1>1. PICK g, b : g = alerts[n].group /\ b = Append(itemsOf(g), n)
  OBVIOUS
<1>2. /\ n \in DOMAIN alerts /\ g \in Groups /\ UNCHANGED alerts /\ bypassed \subseteq bypassed'
      /\ \/ UNCHANGED <<pending, recent, flushes, cool, bypassed>>
         \/ /\ flushOne(n, g, b) /\ pending' = [pending EXCEPT ![g] = NoBatch]
            /\ \/ cool[g].left = 0 \/ n \in bypassed'
               \/ alerts[n].critical /\ alerts[n].title \notin cool[g].titles
         \/ /\ UNCHANGED <<recent, flushes, cool>>
            /\ pending' = [pending EXCEPT ![g] =
                             [items |-> b, quiet |-> 0,
                              age |-> IF pending[g] = NoBatch THEN 0 ELSE pending[g].age]]
            /\ cool[g].left = 0 \/ n \in bypassed'
  BY <1>1, AddOutcome
<1>3. /\ \A i \in DOMAIN b : b[i] \in DOMAIN alerts /\ alerts[b[i]].group = g
      /\ 1 \in DOMAIN b /\ ToSet(b) = ToSet(itemsOf(g)) \cup {n}
  <2>1. Sorted
    BY DEF Cooled
  <2>2. n \in DOMAIN alerts
    BY <1>2
  <2>3. \A i \in DOMAIN b : b[i] \in DOMAIN alerts /\ alerts[b[i]].group = g
    BY <1>1, <2>1, <2>2, JoinSorted
  <2>4. 1 \in DOMAIN b
    BY <1>1, <2>1, <2>2, JoinSorted
  <2>5. ToSet(b) = ToSet(itemsOf(g)) \cup {n}
    BY <1>1, <2>1, <2>2, JoinSorted
  <2> QED
    BY <2>3, <2>4, <2>5
<1>4. CASE UNCHANGED <<pending, recent, flushes, cool, bypassed>>
  BY <1>2, <1>4, CooledKept
<1>5. CASE /\ flushOne(n, g, b) /\ pending' = [pending EXCEPT ![g] = NoBatch]
           /\ \/ cool[g].left = 0 \/ n \in bypassed'
              \/ alerts[n].critical /\ alerts[n].title \notin cool[g].titles
  <2>1. \A x \in Groups : /\ pending'[x] = IF x = g THEN NoBatch ELSE pending[x]
                          /\ itemsOf(x)' = IF x = g THEN <<>> ELSE itemsOf(x)
    BY <1>2, <1>5 DEF itemsOf, Settled, Typed, Maps
  <2>2. PICK r, c : r = markFlushed(recent[g], b) /\ c = cooling(cool[g], b)
    OBVIOUS
  <2>3. r.left = Cooldown /\ c.left = Cooldown /\ c.titles \subseteq r.titles
    BY <1>2, <2>2, CoverFlushed DEF Cooled
  <2>4. \A x \in Groups : /\ recent'[x] = IF x = g THEN r ELSE recent[x]
                          /\ cool'[x] = IF x = g THEN c ELSE cool[x]
    BY <1>2, <1>5, <2>2 DEF flushOne, Settled, Typed, TypeOK, Maps
  <2>5. Sorted'
    BY <1>2, <2>1, SortedKept DEF Cooled
  <2>6. Covered'
    <3> SUFFICES ASSUME NEW x \in Groups
                 PROVE  IF recent'[x] = NoCooldown THEN cool'[x].left = 0
                        ELSE /\ recent'[x].left = cool'[x].left
                             /\ cool'[x].left > 0 => cool'[x].titles \subseteq recent'[x].titles
      BY DEF Covered
    <3>1. CASE x = g
      <4>1. r \in CooldownRec
        <5>1. b \in Seq(DOMAIN alerts)
          <6>1. itemsOf(g) \in Seq(DOMAIN alerts)
            BY <1>2, BatchTyped DEF Settled
          <6> QED
            BY <1>1, <1>2, <6>1
        <5> QED
          BY <1>2, <2>2, <5>1, CooldownTyped DEF Settled
      <4> QED
        BY <2>3, <2>4, <3>1, <4>1, NullValues
    <3>2. CASE x # g
      BY <2>4, <3>2 DEF Cooled, Covered
    <3> QED
      BY <3>1, <3>2
  <2>7. Vouched'
    <3> SUFFICES ASSUME NEW x \in Groups, pending'[x] # NoBatch, cool'[x].left > 0
                 PROVE  ToSet(itemsOf(x)') \cap bypassed' # {}
      BY DEF Vouched
    <3>1. x # g
      BY <2>1
    <3>2. pending[x] # NoBatch /\ itemsOf(x)' = itemsOf(x) /\ cool[x].left > 0
      BY <2>1, <2>4, <3>1
    <3> QED
      BY <1>2, <3>2 DEF Cooled, Vouched
  <2>8. ASSUME NEW f \in flushes' \ flushes PROVE Sanctioned(f)
    <3>1. f.items = b
      <4>1. f = [by |-> n, items |-> b]
        BY <1>5, <2>8 DEF flushOne
      <4> QED
        BY <4>1
    <3>2. alerts[b[1]].group = g /\ n \in ToSet(b)
      BY <1>3
    <3>3. cool[g].left = 0 => ~(cool[g].left > 0)
      OBVIOUS
    <3> QED
      BY <1>5, <3>1, <3>2, <3>3 DEF Sanctioned
  <2> QED
    BY <2>5, <2>6, <2>7, <2>8 DEF Cooled
<1>6. CASE /\ UNCHANGED <<recent, flushes, cool>>
           /\ pending' = [pending EXCEPT ![g] =
                            [items |-> b, quiet |-> 0,
                             age |-> IF pending[g] = NoBatch THEN 0 ELSE pending[g].age]]
           /\ cool[g].left = 0 \/ n \in bypassed'
  <2>1. \A x \in Groups : /\ x # g => pending'[x] = pending[x] /\ itemsOf(x)' = itemsOf(x)
                          /\ x = g => itemsOf(x)' = b \/ itemsOf(x)' = <<>>
                          /\ x = g /\ pending'[x] # NoBatch => itemsOf(x)' = b
    <3>1. PICK p : p = [items |-> b, quiet |-> 0,
                        age |-> IF pending[g] = NoBatch THEN 0 ELSE pending[g].age]
      OBVIOUS
    <3>2. p.items = b /\ pending' = [pending EXCEPT ![g] = p]
      BY <1>6, <3>1
    <3> QED
      BY <1>2, <3>2 DEF itemsOf, Settled, Typed, Maps
  <2>2. Sorted'
    <3> SUFFICES ASSUME NEW x \in Groups, NEW i \in DOMAIN itemsOf(x)'
                 PROVE  alerts[itemsOf(x)'[i]].group = x
      BY <1>2 DEF Sorted
    <3>1. DOMAIN <<>> = {}
      OBVIOUS
    <3> QED
      BY <1>3, <2>1, <3>1 DEF Cooled, Sorted
  <2>3. Covered'
    BY <1>6 DEF Cooled, Covered
  <2>4. Vouched'
    <3> SUFFICES ASSUME NEW x \in Groups, pending'[x] # NoBatch, cool[x].left > 0
                 PROVE  ToSet(itemsOf(x)') \cap bypassed' # {}
      BY <1>6 DEF Vouched
    <3>1. CASE x = g
      <4>1. n \in bypassed' /\ n \in ToSet(b)
        BY <1>3, <1>6, <3>1
      <4> QED
        BY <2>1, <3>1, <4>1
    <3>2. CASE x # g
      BY <1>2, <2>1, <3>2 DEF Cooled, Vouched
    <3> QED
      BY <3>1, <3>2
  <2> QED
    BY <1>6, <2>2, <2>3, <2>4 DEF Cooled
<1> QED
  BY <1>2, <1>4, <1>5, <1>6

\* A sweep evicts the records whose cooldown is over.
LEMMA SweepCooled ==
    ASSUME Settled, Cooled, Sweep
    PROVE  Cooled' /\ \A f \in flushes' \ flushes : Sanctioned(f)
<1>1. PICK S \in SUBSET Groups :
        /\ \A g \in S : pending[g] # NoBatch
        /\ pending' = [g \in Groups |-> IF g \in S THEN NoBatch ELSE pending[g]]
        /\ recent' = sweptRecent(S)
        /\ flushes' = flushes \cup {[by |-> 0, items |-> pending[g].items] : g \in S}
        /\ cool' = [g \in Groups |->
                      IF g \in S THEN cooling(cool[g], pending[g].items) ELSE cool[g]]
  BY DEF Sweep
<1>2. UNCHANGED <<alerts, bypassed>>
  BY DEF Sweep
<1>3. \A g \in Groups : /\ pending'[g] = IF g \in S THEN NoBatch ELSE pending[g]
                        /\ itemsOf(g)' = IF g \in S THEN <<>> ELSE itemsOf(g)
                        /\ g \in S => pending[g].items = itemsOf(g)
  BY <1>1 DEF itemsOf
<1>4. Sorted'
  BY <1>2, <1>3, SortedKept DEF Cooled
<1>5. ASSUME NEW g \in Groups
      PROVE  /\ cool'[g].left \in Nat
             /\ g \notin S => cool'[g] = cool[g]
             /\ IF recent'[g] = NoCooldown THEN cool'[g].left = 0
                ELSE /\ recent'[g].left = cool'[g].left
                     /\ cool'[g].left > 0 => cool'[g].titles \subseteq recent'[g].titles
  <2>1. PICK b, r, c :
          /\ b = pending[g].items
          /\ r = IF g \in S THEN markFlushed(recent[g], b) ELSE recent[g]
          /\ c = IF g \in S THEN cooling(cool[g], b) ELSE cool[g]
    OBVIOUS
  <2>2. recent'[g] = evictExpired(r) /\ cool'[g] = c
    BY <1>1, <2>1 DEF sweptRecent
  <2>3. c.left \in Nat
    <3>1. c \in CooldownRec
      <4>1. CASE g \in S
        <5>1. b \in Seq(DOMAIN alerts)
          BY <1>1, <2>1, <4>1, BatchTyped DEF Settled
        <5> QED
          BY <2>1, <4>1, <5>1, CooldownTyped DEF Settled
      <4>2. CASE g \notin S
        BY <2>1, <4>2 DEF Settled, Typed, TypeOK
      <4> QED
        BY <4>1, <4>2
    <3> QED
      BY <3>1, IntakeConstants DEF CooldownRec
  <2>4. IF r = NoCooldown THEN c.left = 0
        ELSE r.left = c.left /\ (c.left > 0 => c.titles \subseteq r.titles)
    <3>1. CASE g \in S
      <4>1. r.left = Cooldown /\ c.left = Cooldown /\ c.titles \subseteq r.titles
        BY <2>1, <3>1, CoverFlushed DEF Cooled
      <4>2. r \in CooldownRec
        <5>1. b \in Seq(DOMAIN alerts)
          BY <1>1, <2>1, <3>1, BatchTyped DEF Settled
        <5> QED
          BY <2>1, <3>1, <5>1, CooldownTyped DEF Settled
      <4> QED
        BY <4>1, <4>2, NullValues
    <3>2. CASE g \notin S
      BY <2>1, <3>2 DEF Cooled, Covered
    <3> QED
      BY <3>1, <3>2
  <2>5. r # NoCooldown /\ ~(r.left > 0) => c.left = 0
    <3>1. PICK l : l = c.left
      OBVIOUS
    <3>2. r # NoCooldown /\ ~(r.left > 0) => l \in Nat /\ ~(l > 0)
      BY <2>3, <2>4, <3>1
    <3> QED
      BY <3>1, <3>2
  <2>6. evictExpired(r) = r \/ (evictExpired(r) = NoCooldown /\ c.left = 0)
    BY <2>5 DEF evictExpired
  <2> QED
    BY <2>1, <2>2, <2>3, <2>4, <2>6
<1>6. Covered'
  BY <1>5 DEF Covered
<1>7. Vouched'
  <2> SUFFICES ASSUME NEW g \in Groups, pending'[g] # NoBatch, cool'[g].left > 0
               PROVE  ToSet(itemsOf(g)') \cap bypassed' # {}
    BY DEF Vouched
  <2>1. g \notin S /\ pending[g] # NoBatch /\ itemsOf(g)' = itemsOf(g)
    BY <1>3
  <2>2. cool[g].left > 0
    BY <1>5, <2>1
  <2> QED
    BY <1>2, <2>1, <2>2 DEF Cooled, Vouched
<1>8. ASSUME NEW f \in flushes' \ flushes PROVE Sanctioned(f)
  <2>1. PICK g \in S : f = [by |-> 0, items |-> pending[g].items]
    BY <1>1
  <2>2. f.items = itemsOf(g)
    BY <1>3, <2>1
  <2>3. PICK s : s = itemsOf(g)
    OBVIOUS
  <2>4. s \in Seq(DOMAIN alerts) /\ s # <<>>
    BY <1>1, <2>3, BatchTyped DEF Settled
  <2>5. alerts[s[1]].group = g
    <3>1. 1 \in DOMAIN s
      BY <2>4
    <3> QED
      BY <2>3, <3>1 DEF Cooled, Sorted
  <2>6. cool[g].left > 0 => ToSet(s) \cap bypassed # {}
    BY <1>1, <2>3 DEF Cooled, Vouched
  <2> QED
    BY <1>2, <2>2, <2>3, <2>5, <2>6 DEF Sanctioned
<1> QED
  BY <1>4, <1>6, <1>7, <1>8 DEF Cooled

\* The record and the cooldown it stands for run down together.
LEMMA TickCooled == ASSUME Settled, Cooled, Tick PROVE Cooled'
<1>1. /\ pending' = [g \in Groups |->
                       IF pending[g] = NoBatch THEN NoBatch
                       ELSE [pending[g] EXCEPT !.quiet = upTo(@, Debounce), !.age = upTo(@, MaxAge)]]
      /\ recent' = [g \in Groups |->
                      IF recent[g] = NoCooldown THEN NoCooldown
                      ELSE [recent[g] EXCEPT !.left = down(@)]]
      /\ cool' = [g \in Groups |->
                    IF cool[g].left <= 1 THEN [left |-> 0, titles |-> {}]
                    ELSE [cool[g] EXCEPT !.left = @ - 1]]
      /\ UNCHANGED <<alerts, bypassed>>
  BY DEF Tick
<1>2. ASSUME NEW g \in Groups
      PROVE  /\ pending'[g] # NoBatch => pending[g] # NoBatch /\ itemsOf(g)' = itemsOf(g)
             /\ itemsOf(g)' = itemsOf(g) \/ itemsOf(g)' = <<>>
  <2>1. CASE pending[g] = NoBatch
    BY <1>1, <2>1 DEF itemsOf
  <2>2. CASE pending[g] # NoBatch
    <3>1. PICK p, q, a : p = pending[g] /\ q = upTo(p.quiet, Debounce) /\ a = upTo(p.age, MaxAge)
      OBVIOUS
    <3>2. p \in Batch
      BY <2>2, <3>1, BatchTyped DEF Settled
    <3>3. pending'[g] = [p EXCEPT !.quiet = q, !.age = a]
      BY <1>1, <2>2, <3>1
    <3>4. pending'[g].items = p.items
      BY <3>2, <3>3 DEF Batch
    <3> QED
      BY <2>2, <3>1, <3>4 DEF itemsOf
  <2> QED
    BY <2>1, <2>2
<1>3. Sorted'
  BY <1>1, <1>2, SortedKept DEF Cooled
<1>4. ASSUME NEW g \in Groups
      PROVE  /\ cool'[g].left > 0 => cool[g].left > 0
             /\ IF recent'[g] = NoCooldown THEN cool'[g].left = 0
                ELSE /\ recent'[g].left = cool'[g].left
                     /\ cool'[g].left > 0 => cool'[g].titles \subseteq recent'[g].titles
  <2>1. PICK c, l, r : c = cool[g] /\ l = c.left /\ r = recent[g]
    OBVIOUS
  <2>2. c \in CooldownRec /\ l \in Nat
    <3>1. c \in CooldownRec
      BY <2>1 DEF Settled, Typed, TypeOK
    <3> QED
      BY <2>1, <3>1, IntakeConstants DEF CooldownRec
  <2>3. cool'[g] = IF l <= 1 THEN [left |-> 0, titles |-> {}] ELSE [c EXCEPT !.left = l - 1]
    BY <1>1, <2>1
  <2>4. cool'[g].left = down(l) /\ (cool'[g].left > 0 => l > 0 /\ cool'[g].titles = c.titles)
    <3>1. CASE l <= 1
      <4>1. cool'[g].left = 0
        BY <2>3, <3>1
      <4> QED
        BY <2>2, <3>1, <4>1 DEF down
    <3>2. CASE ~(l <= 1)
      <4>1. cool'[g] = [c EXCEPT !.left = l - 1]
        BY <2>3, <3>2
      <4>2. cool'[g].left = l - 1 /\ cool'[g].titles = c.titles
        BY <2>2, <4>1 DEF CooldownRec
      <4> QED
        BY <2>2, <3>2, <4>2 DEF down
    <3> QED
      BY <3>1, <3>2
  <2>5. CASE r = NoCooldown
    <3>1. l = 0
      BY <2>1, <2>5 DEF Cooled, Covered
    <3>2. down(l) = 0
      BY <3>1 DEF down
    <3>3. recent'[g] = NoCooldown
      BY <1>1, <2>1, <2>5
    <3> QED
      BY <2>1, <2>4, <3>2, <3>3
  <2>6. CASE r # NoCooldown
    <3>1. r.left = l /\ (l > 0 => c.titles \subseteq r.titles)
      BY <2>1, <2>6 DEF Cooled, Covered
    <3>2. r \in CooldownRec
      BY <2>1, <2>6 DEF Settled, Typed, TypeOK
    <3>3. recent'[g] = [r EXCEPT !.left = down(l)]
      BY <1>1, <2>1, <2>6, <3>1
    <3>4. recent'[g].left = down(l) /\ recent'[g].titles = r.titles /\ recent'[g] # NoCooldown
      <4>1. down(l) \in 0..Cooldown
        BY <2>1, <2>2, IntakeConstants DEF CooldownRec, down
      <4>2. recent'[g] \in CooldownRec
        BY <3>2, <3>3, <4>1 DEF CooldownRec
      <4> QED
        BY <3>2, <3>3, <4>2, NullValues DEF CooldownRec
    <3> QED
      BY <2>1, <2>4, <3>1, <3>4
  <2> QED
    BY <2>5, <2>6
<1>5. Covered'
  BY <1>4 DEF Covered
<1>6. Vouched'
  BY <1>1, <1>2, <1>4 DEF Cooled, Vouched
<1> QED
  BY <1>3, <1>5, <1>6 DEF Cooled

\* Every step keeps the record and the batches in line with the cooldown, and flushes only
\* what is sanctioned.
LEMMA CooledStep ==
    Settled /\ Cooled /\ [Next]_vars => Cooled' /\ \A f \in flushes' \ flushes : Sanctioned(f)
<1> SUFFICES ASSUME Settled, Cooled, [Next]_vars
             PROVE  Cooled' /\ \A f \in flushes' \ flushes : Sanctioned(f)
  OBVIOUS
<1> DEFINE Goal == Cooled' /\ \A f \in flushes' \ flushes : Sanctioned(f)
<1>1. ASSUME UNCHANGED <<alerts, pending, recent, cool, bypassed>>, flushes' \subseteq flushes
      PROVE  Goal
  BY <1>1, CooledKept
<1>2. CASE UNCHANGED vars \/ Stop
  BY <1>1, <1>2 DEF vars, stages, aux, Stop
<1>3. ASSUME NEW a \in Alerts, Admit(a) PROVE Goal
  <2>1. UNCHANGED <<pending, recent, cool, bypassed, flushes>> /\ alerts' = Append(alerts, a)
    BY <1>3 DEF Admit
  <2>2. \A n \in DOMAIN alerts : alerts'[n] = alerts[n]
    BY <2>1, TypeFacts DEF Settled
  <2> QED
    BY <2>1, <2>2, CooledKept
<1>4. ASSUME NEW n \in Ids, Hold(n) PROVE Goal
  BY <1>1, <1>4 DEF Hold, aux
<1>5. ASSUME NEW n \in Ids, EndHold(n) PROVE Goal
  BY <1>1, <1>5 DEF EndHold, WindowOver, DropHeld, aux
<1>6. ASSUME NEW n \in Ids, Add(n) PROVE Goal
  BY <1>6, AddCooled
<1>7. ASSUME NEW f \in Fps, Resolve(f) \/ CancelQueued(f) PROVE Goal
  BY <1>1, <1>7 DEF Resolve, CancelQueued
<1>8. ASSUME NEW f \in flushes, Emit(f) PROVE Goal
  <2>1. flushes' \subseteq flushes
    BY <1>8 DEF Emit
  <2> QED
    BY <1>1, <1>8, <2>1 DEF Emit
<1>9. ASSUME NEW k \in Keys, Start(k) PROVE Goal
  BY <1>1, <1>9 DEF Start
<1>10. CASE Sweep
  BY <1>10, SweepCooled
<1>11. CASE Tick
  <2>1. flushes' = flushes
    BY <1>11 DEF Tick
  <2> QED
    BY <1>11, <2>1, TickCooled
<1> QED
  BY <1>2, <1>3, <1>4, <1>5, <1>6, <1>7, <1>8, <1>9, <1>10, <1>11 DEF Next

-----------------------------------------------------------------------------
(* The theorems.                                                           *)

\* The inductive invariant.
IInv == Settled /\ Cancellable /\ Cooled

\* Nothing is admitted, held or flushed at first.
LEMMA InitInv == Init => IInv
<1> SUFFICES ASSUME Init PROVE Cancellable /\ Cooled
  BY InitSettled DEF IInv
<1>1. /\ entering = {} /\ holds = {} /\ \A g \in Groups : pending[g] = NoBatch /\ itemsOf(g) = <<>>
      /\ \A g \in Groups : recent[g] = NoCooldown /\ cool[g].left = 0
  BY DEF Init, itemsOf
<1>2. Cancellable
  BY <1>1 DEF Cancellable, EnteringFresh, HoldsOutlasted, HoldsCancellable
<1>3. Sorted /\ Covered /\ Vouched
  BY <1>1 DEF Sorted, Covered, Vouched
<1> QED
  BY <1>2, <1>3 DEF Cooled

\* Every step keeps it.
LEMMA InvStep == IInv /\ [Next]_vars => IInv'
BY SettledStep, CancellableStep, CooledStep DEF IInv

\* It always holds.
LEMMA InvAlways == Spec => []IInv
BY InitInv, InvStep, PTL DEF Spec

\* The variables keep their types: no batch is empty, and every fate belongs to an alert
\* that was admitted (pipeline.go, debounce.go, coalescer.go).
THEOREM IntakeTypeCorrect == Spec => []TypeOK
<1>1. IInv => TypeOK
  BY DEF IInv, Settled, Typed
<1> QED
  BY <1>1, InvAlways, PTL

\* An admitted alert is in exactly one place until it has ended and in none after, however
\* the stages, the resolves and the shutdown interleave; and while its window runs a hold
\* can be cancelled by the resolve of its fingerprint, if the dedup window outlasts the hold
\* (debounce.go, coalescer.go, pipeline.go).
THEOREM AlertsStayReachable == Spec => []AlertsAreReachable
<1>1. ASSUME IInv PROVE AlertsAreReachable
  <2>1. EveryAlertAccounted
    BY <1>1, PlacedAccounted DEF IInv, Settled
  <2>2. HoldsCancellable
    BY <1>1 DEF IInv, Cancellable, HoldsCancellable
  <2> QED
    BY <2>1, <2>2 DEF AlertsAreReachable
<1> QED
  BY <1>1, InvAlways, PTL

\* What is flushed while the cooldown of its group lasts holds a critical alertname the
\* cooldown has not covered or an alert with a standing vote (coalescer.go Add and Sweep).
THEOREM OneLookPerCooldown == Spec => OneInvestigationPerCooldown
<1> DEFINE Sane == \A f \in flushes' \ flushes :
                     LET c == cool[alerts[f.items[1]].group]
                     IN  c.left > 0 => \E n \in ToSet(f.items) :
                             n \in bypassed' \/ (alerts[n].critical /\ alerts[n].title \notin c.titles)
<1>1. IInv /\ [Next]_vars => [Sane]_vars
  BY CooledStep DEF IInv, Sanctioned
<1> QED
  BY <1>1, InvAlways, PTL DEF Spec, OneInvestigationPerCooldown

=============================================================================
