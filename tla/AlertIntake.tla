----------------------------- MODULE AlertIntake -----------------------------
(***************************************************************************)
(* The way of a firing alert into the investigation queue: the pipeline of *)
(* internal/source/pipeline.go, the dedup of internal/trigger/dedup.go, the *)
(* debounce hold of internal/source/debounce.go and the coalescer of       *)
(* internal/coalesce/coalescer.go, with the resolved webhooks that chase   *)
(* the alert through the stages.                                           *)
(*                                                                         *)
(* Each stage has a mutex of its own and the alert is in none of them while *)
(* it moves from one to the next, so every move is an action.  An admitted *)
(* alert is known by its position in alerts.  Clocks are kept as the time  *)
(* left of each window, which makes the state space finite without a bound *)
(* on time.  A tick is long against the delay of a webhook handler.        *)
(*                                                                         *)
(* The queue is what InvestigationQueue shows it to be: a payload by       *)
(* coalescing key, taken by a worker, replaced by a newer one, or cancelled *)
(* by the fingerprint of a single-alert request.                           *)
(***************************************************************************)
EXTENDS Naturals, Sequences, FiniteSets, SequencesExt

CONSTANTS
    Alerts,      \* firing alerts: [fp, group, title, key, critical]
    Fps, Groups, Titles, Keys, \* fingerprints, correlation keys, alertnames, queue keys
    NoFp, NoBatch, NoCooldown, \* absent fingerprint, batch, cooldown record
    DedupWindow, \* triggers.incidents.dedup.window, 0 = off
    HoldWindow,  \* triggers.incidents.debounce, 0 = off
    Debounce, MaxWait, MaxBatch, Cooldown, \* coalescer configuration, 0 = off
    SweepEvery,  \* period of the coalescer's sweep
    MaxAlerts    \* bound on the number of admitted alerts

ASSUME IntakeConstants ==
    /\ NoFp \notin Fps /\ Fps \cap Keys = {}
    /\ Alerts \subseteq [fp : Fps \cup {NoFp}, group : Groups, title : Titles, key : Keys,
                         critical : BOOLEAN]
    /\ {DedupWindow, HoldWindow, Debounce, MaxWait, MaxBatch, Cooldown, MaxAlerts} \subseteq Nat
    /\ SweepEvery \in Nat \ {0}

VARIABLES
    alerts,    \* the alerts admitted so far
    dedup,     \* Deduper.seen: time left of each key's window
    entering,  \* admitted, not yet at Hold
    holds,     \* goroutines in wait
    holder,    \* incidentDebouncer.pending: the hold a resolve would cancel, 0 = none
    adding,    \* on their way to the coalescer's mutex
    pending,   \* Coalescer.pending
    recent,    \* Coalescer.recent
    flushes,   \* flushed batches not yet handed to the queue
    queued,    \* the queue: the batch waiting under each key, <<>> = none
    resolving, \* resolved webhooks between the debouncer and the queue
    sweepIn,   \* time left to the next sweep
    ctx,       \* the serve context: "live" or "cancelled"
    \* Auxiliary: how each admitted alert ended, which passed the cooldown on a human's
    \* standing vote, and the cooldown as the comments describe it, over when its time is.
    fate, bypassed, cool

stages == <<entering, holds, holder, adding, pending, recent, flushes, queued>>
aux    == <<fate, bypassed, cool>>
vars   == <<alerts, dedup, stages, resolving, sweepIn, ctx, aux>>

Ids       == 1..MaxAlerts
DedupKeys == Fps \cup Keys
HoldRec   == [n : Ids, left : 0..HoldWindow, closed : BOOLEAN]
Flush     == [by : Ids \cup {0}, items : Seq(Ids)] \* by: the alert added, 0 for the sweep
MaxAge    == MaxWait + SweepEvery
Batch     == [items : Seq(Ids), quiet : 0..Debounce, age : 0..MaxAge]
CooldownRec == [left : 0..Cooldown, titles : SUBSET Titles]
Fates     == {"open", "suppressed", "cancelled", "lost", "merged", "started"}

ASSUME NullValues == NoBatch \notin Batch /\ NoCooldown \notin CooldownRec

down(n) == IF n > 0 THEN n - 1 ELSE 0
upTo(n, max) == IF n < max THEN n + 1 ELSE n

\* The alerts S end as f.
ends(S, f) == fate' = [n \in DOMAIN fate |-> IF n \in S THEN f ELSE fate[n]]

-----------------------------------------------------------------------------
Init ==
    /\ alerts = <<>>
    /\ dedup = [k \in DedupKeys |-> 0]
    /\ entering = {} /\ holds = {} /\ adding = {} /\ flushes = {} /\ resolving = {}
    /\ holder = [f \in Fps |-> 0]
    /\ pending = [g \in Groups |-> NoBatch]
    /\ recent = [g \in Groups |-> NoCooldown]
    /\ queued = [k \in Keys |-> <<>>]
    /\ sweepIn = SweepEvery
    /\ ctx = "live"
    /\ fate = <<>> /\ bypassed = {}
    /\ cool = [g \in Groups |-> [left |-> 0, titles |-> {}]]

-----------------------------------------------------------------------------
(* The pipeline.                                                           *)

dedupKey(a) == IF a.fp # NoFp THEN a.fp ELSE a.key

Seen(a) == dedup[dedupKey(a)] > 0

\* Ingest of a firing alert that matches the policy: one that is still firing
\* inside the window changes nothing.
Admit(a) ==
    /\ ctx = "live"
    /\ Len(alerts) < MaxAlerts
    /\ ~Seen(a)
    /\ dedup' = [dedup EXCEPT ![dedupKey(a)] = DedupWindow]
    /\ alerts' = Append(alerts, a)
    /\ fate' = Append(fate, "open")
    /\ entering' = entering \cup {Len(alerts')}
    /\ UNCHANGED <<holds, holder, adding, pending, recent, flushes, queued, resolving, sweepIn,
                   ctx, bypassed, cool>>

immediate(n) == HoldWindow = 0 \/ alerts[n].critical

\* Never a hold for a critical alert; a hold without fingerprint is not registered.
Hold(n) ==
    /\ n \in entering
    /\ entering' = entering \ {n}
    /\ IF immediate(n)
       THEN /\ adding' = adding \cup {n}
            /\ UNCHANGED <<holds, holder>>
       ELSE /\ holds' = holds \cup {[n |-> n, left |-> HoldWindow, closed |-> FALSE]}
            /\ holder' = [f \in Fps |-> IF f = alerts[n].fp THEN n ELSE holder[f]]
            /\ UNCHANGED adding
    /\ UNCHANGED <<alerts, dedup, pending, recent, flushes, queued, resolving, sweepIn, ctx, aux>>

\* Mutant: a hold that ends forgets the entry of whichever hold is registered.
MutUnregister(n) == [f \in Fps |-> IF f = alerts[n].fp THEN 0 ELSE holder[f]]

\* A hold that ends forgets its own entry only.
unregister(n) == [f \in Fps |-> IF holder[f] = n THEN 0 ELSE holder[f]]

\* Mutant: a hold whose entry has been replaced does not enqueue.
MutWindowOver(h) ==
    /\ h \in holds /\ h.left = 0
    /\ \A f \in Fps : f = alerts[h.n].fp => holder[f] = h.n
    /\ holds' = holds \ {h}
    /\ holder' = unregister(h.n)
    /\ adding' = adding \cup {h.n}
    /\ UNCHANGED <<alerts, dedup, entering, pending, recent, flushes, queued, resolving, sweepIn,
                   ctx, aux>>

\* The window is over: select may choose the timer although the hold has been
\* cancelled or the context is done.
WindowOver(h) ==
    /\ h \in holds /\ h.left = 0
    /\ holds' = holds \ {h}
    /\ holder' = unregister(h.n)
    /\ adding' = adding \cup {h.n}
    /\ UNCHANGED <<alerts, dedup, entering, pending, recent, flushes, queued, resolving, sweepIn,
                   ctx, aux>>

\* The cancelled hold drops its alert; a held alert is lost when the context ends.
DropHeld(h) ==
    /\ h \in holds
    /\ holds' = holds \ {h}
    /\ \/ /\ h.closed
          /\ ends({h.n}, "cancelled")
          /\ UNCHANGED holder
       \/ /\ ctx = "cancelled"
          /\ ends({h.n}, "lost")
          /\ holder' = unregister(h.n)
    /\ UNCHANGED <<alerts, dedup, entering, adding, pending, recent, flushes, queued, resolving,
                   sweepIn, ctx, bypassed, cool>>

\* Ingest of a resolved alert, first half: cancel the registered hold.
Resolve(f) ==
    /\ ctx = "live"
    /\ f \notin resolving
    /\ resolving' = resolving \cup {f}
    /\ holds' = {IF h.n = holder[f] THEN [h EXCEPT !.closed = TRUE] ELSE h : h \in holds}
    /\ holder' = [holder EXCEPT ![f] = 0]
    /\ UNCHANGED <<alerts, dedup, entering, adding, pending, recent, flushes, queued, sweepIn, ctx,
                   fate, bypassed, cool>>

\* The request built from a batch is its first alert with the fingerprints of all:
\* a resolve may cancel it unless there are several.
soleFingerprint(b) ==
    IF Cardinality({i \in DOMAIN b : alerts[b[i]].fp # NoFp}) > 1 THEN NoFp ELSE alerts[b[1]].fp

\* Second half: cancel the queued investigation, if the fingerprint has one; the
\* queue declines while another investigation of the same key is in flight.
CancelQueued(f) ==
    /\ f \in resolving
    /\ resolving' = resolving \ {f}
    /\ \E hit \in {{}, {k \in Keys : queued[k] # <<>> /\ soleFingerprint(queued[k]) = f}} :
        /\ queued' = [k \in Keys |-> IF k \in hit THEN <<>> ELSE queued[k]]
        /\ ends(UNION {ToSet(queued[k]) : k \in hit}, "cancelled")
    /\ UNCHANGED <<alerts, dedup, entering, holds, holder, adding, pending, recent, flushes,
                   sweepIn, ctx, bypassed, cool>>

-----------------------------------------------------------------------------
(* The coalescer.                                                          *)

titlesOf(b) == {alerts[n].title : n \in ToSet(b)}

withinCooldown(g) == recent[g] # NoCooldown /\ recent[g].left > 0

newCriticalDuringCooldown(n) ==
    LET a == alerts[n]
    IN  a.critical /\ (recent[a.group] # NoCooldown => a.title \notin recent[a.group].titles)

\* The record a flush leaves: one that is there keeps its titles, however old.
markFlushed(cd, b) ==
    [left   |-> Cooldown,
     titles |-> titlesOf(b) \cup (IF cd = NoCooldown THEN {} ELSE cd.titles)]

\* Auxiliary: a flush after the cooldown is over starts a new one.
cooling(c, b) ==
    [left |-> Cooldown, titles |-> titlesOf(b) \cup (IF c.left > 0 THEN c.titles ELSE {})]

flushOne(n, g, b) ==
    /\ flushes' = flushes \cup {[by |-> n, items |-> b]}
    /\ recent' = [recent EXCEPT ![g] = markFlushed(@, b)]
    /\ cool' = [cool EXCEPT ![g] = cooling(@, b)]

itemsOf(g) == IF pending[g] = NoBatch THEN <<>> ELSE pending[g].items

Suppress(n) ==
    /\ ends({n}, "suppressed")
    /\ UNCHANGED <<pending, recent, flushes, bypassed, cool>>

\* No wait for a critical alert; it takes the pending batch with it.
FlushCritical(n, g) ==
    /\ flushOne(n, g, Append(itemsOf(g), n))
    /\ pending' = [pending EXCEPT ![g] = NoBatch]
    /\ UNCHANGED <<fate, bypassed>>

Buffer(n, g, bypass) ==
    LET b == Append(itemsOf(g), n)
    IN  /\ bypassed' = IF bypass THEN bypassed \cup {n} ELSE bypassed
        /\ UNCHANGED fate
        /\ IF MaxBatch > 0 /\ Len(b) >= MaxBatch
           THEN /\ flushOne(n, g, b)
                /\ pending' = [pending EXCEPT ![g] = NoBatch]
           ELSE /\ pending' = [pending EXCEPT ![g] =
                                  [items |-> b, quiet |-> 0,
                                   age |-> IF @ = NoBatch THEN 0 ELSE @.age]]
                /\ UNCHANGED <<recent, flushes, cool>>

\* One critical section; only a would-be suppressed alert has the ledger asked for a
\* standing vote, whose answer is any.
Add(n) ==
    LET g == alerts[n].group
        suppress == withinCooldown(g) /\ ~newCriticalDuringCooldown(n)
    IN  /\ n \in adding
        /\ adding' = adding \ {n}
        /\ \/ suppress /\ Suppress(n)
           \/ ~suppress /\ alerts[n].critical /\ FlushCritical(n, g)
           \/ suppress /\ Buffer(n, g, TRUE)
           \/ ~suppress /\ ~alerts[n].critical /\ Buffer(n, g, FALSE)
        /\ UNCHANGED <<alerts, dedup, entering, holds, holder, queued, resolving, sweepIn, ctx>>

due(b) == b.quiet >= Debounce \/ (MaxWait > 0 /\ b.age >= MaxWait)

evictExpired(cd) == IF cd = NoCooldown \/ cd.left > 0 THEN cd ELSE NoCooldown

\* Mutant: a flush by the sweep starts no cooldown.
MutSweptRecent(S) == [g \in Groups |-> evictExpired(recent[g])]

\* Flushed groups are marked before expired records are evicted.
sweptRecent(S) ==
    [g \in Groups |->
        evictExpired(IF g \in S THEN markFlushed(recent[g], pending[g].items) ELSE recent[g])]

\* One sweep of the ticker's goroutine, which emits what it flushed before the next.
Sweep ==
    LET S == {g \in Groups : pending[g] # NoBatch /\ due(pending[g])}
    IN  /\ ctx = "live" /\ sweepIn = 0
        /\ \A f \in flushes : f.by # 0
        /\ sweepIn' = SweepEvery
        /\ pending' = [g \in Groups |-> IF g \in S THEN NoBatch ELSE pending[g]]
        /\ recent' = sweptRecent(S)
        /\ flushes' = flushes \cup {[by |-> 0, items |-> pending[g].items] : g \in S}
        /\ cool' = [g \in Groups |->
                      IF g \in S THEN cooling(cool[g], pending[g].items) ELSE cool[g]]
        /\ UNCHANGED <<alerts, dedup, entering, holds, holder, adding, queued, resolving, ctx,
                       fate, bypassed>>

-----------------------------------------------------------------------------
(* The queue, time and shutdown.                                           *)

\* The batch becomes one request under its first alert's key and replaces the one
\* waiting there.
Emit(f) ==
    LET k == alerts[f.items[1]].key
    IN  /\ f \in flushes
        /\ flushes' = flushes \ {f}
        /\ queued' = [queued EXCEPT ![k] = f.items]
        /\ ends(ToSet(queued[k]), "merged")
        /\ UNCHANGED <<alerts, dedup, entering, holds, holder, adding, pending, recent, resolving,
                       sweepIn, ctx, bypassed, cool>>

\* A worker takes the request.
Start(k) ==
    /\ ctx = "live" /\ queued[k] # <<>>
    /\ queued' = [queued EXCEPT ![k] = <<>>]
    /\ ends(ToSet(queued[k]), "started")
    /\ UNCHANGED <<alerts, dedup, entering, holds, holder, adding, pending, recent, flushes,
                   resolving, sweepIn, ctx, bypassed, cool>>

\* An alert that is never held is carried as far as the queue by its webhook handler.
handlersDone ==
    /\ entering = {}
    /\ \A n \in adding : ~immediate(n)
    /\ \A f \in flushes : f.by # 0 => ~immediate(f.by)

\* The server has shut down, which waits for its handlers, and the queue is drained.
Stop ==
    /\ ctx = "live" /\ handlersDone /\ resolving = {}
    /\ ctx' = "cancelled"
    /\ UNCHANGED <<alerts, dedup, stages, resolving, sweepIn, aux>>

\* Time passes; the ticker's goroutine keeps up with it, a held alert's may lag.
Tick ==
    /\ ctx = "live" /\ handlersDone /\ sweepIn > 0
    /\ sweepIn' = sweepIn - 1
    /\ dedup' = [k \in DedupKeys |-> down(dedup[k])]
    /\ holds' = {[h EXCEPT !.left = down(@)] : h \in holds}
    /\ pending' = [g \in Groups |->
                     IF pending[g] = NoBatch THEN NoBatch
                     ELSE [pending[g] EXCEPT !.quiet = upTo(@, Debounce), !.age = upTo(@, MaxAge)]]
    /\ recent' = [g \in Groups |->
                    IF recent[g] = NoCooldown THEN NoCooldown
                    ELSE [recent[g] EXCEPT !.left = down(@)]]
    /\ cool' = [g \in Groups |->
                  IF cool[g].left <= 1 THEN [left |-> 0, titles |-> {}]
                  ELSE [cool[g] EXCEPT !.left = @ - 1]]
    /\ UNCHANGED <<alerts, entering, holder, adding, flushes, queued, resolving, ctx, fate,
                   bypassed>>

EndHold(n) == \E h \in holds : h.n = n /\ (WindowOver(h) \/ DropHeld(h))

Next ==
    \/ \E a \in Alerts : Admit(a)
    \/ \E n \in Ids : Hold(n) \/ EndHold(n) \/ Add(n)
    \/ \E f \in Fps : Resolve(f) \/ CancelQueued(f)
    \/ \E f \in flushes : Emit(f)
    \/ \E k \in Keys : Start(k)
    \/ Sweep \/ Stop \/ Tick

Spec == Init /\ [][Next]_vars

\* Go schedules every runnable goroutine and hands every mutex over, time passes, and a
\* stored request is taken in the end (EventuallyTaken of InvestigationQueue).
FairSpec ==
    /\ Spec
    /\ \A n \in Ids : WF_vars(Hold(n)) /\ WF_vars(EndHold(n)) /\ WF_vars(Add(n))
    /\ \A f \in Fps : WF_vars(CancelQueued(f))
    /\ WF_vars(\E f \in flushes : Emit(f))
    /\ \A k \in Keys : WF_vars(Start(k))
    /\ WF_vars(Sweep) /\ WF_vars(Tick)

-----------------------------------------------------------------------------
(* Properties.                                                             *)

\* The types of the variables; a batch is never empty.
TypeOK ==
    /\ alerts \in Seq(Alerts) /\ Len(alerts) <= MaxAlerts
    /\ dedup \in [DedupKeys -> 0..DedupWindow]
    /\ {entering, adding, bypassed} \subseteq SUBSET DOMAIN alerts
    /\ holds \subseteq HoldRec /\ holder \in [Fps -> Ids \cup {0}]
    /\ \A g \in Groups : pending[g] # NoBatch => pending[g] \in Batch /\ pending[g].items # <<>>
    /\ \A g \in Groups : recent[g] # NoCooldown => recent[g] \in CooldownRec
    /\ flushes \subseteq Flush /\ \A f \in flushes : f.items # <<>>
    /\ queued \in [Keys -> Seq(Ids)] /\ resolving \subseteq Fps
    /\ sweepIn \in 0..SweepEvery /\ ctx \in {"live", "cancelled"}
    /\ fate \in Seq(Fates) /\ Len(fate) = Len(alerts)
    /\ cool \in [Groups -> CooldownRec]

\* Where alert n is: the stages it is in, with its position there.
placed(stage, id, b, n) == {<<stage, id, i>> : i \in {j \in DOMAIN b : b[j] = n}}
places(n) ==
    {<<"entering", 0, 0>> : m \in entering \cap {n}}
    \cup {<<"adding", 0, 0>> : m \in adding \cap {n}}
    \cup {<<"hold", h, 0>> : h \in {x \in holds : x.n = n}}
    \cup (UNION {placed("pending", g, itemsOf(g), n) : g \in Groups})
    \cup (UNION {placed("flush", f, f.items, n) : f \in flushes})
    \cup (UNION {placed("queue", k, queued[k], n) : k \in Keys})

open == {n \in DOMAIN fate : fate[n] = "open"}

\* An admitted alert is in exactly one place until it has ended, and in none after:
\* no stage drops it silently or passes it on twice.  Each stage has a mutex of its own,
\* and a flush moves a whole batch.
EveryAlertAccounted ==
    \A n \in DOMAIN alerts : Cardinality(places(n)) = IF n \in open THEN 1 ELSE 0

\* A group is investigated once per cooldown: what is flushed while it lasts holds a
\* critical alertname it has not covered or an alert with a standing vote (Add).
OneInvestigationPerCooldown ==
    [][\A f \in flushes' \ flushes :
         LET c == cool[alerts[f.items[1]].group]
         IN  c.left > 0 => \E n \in ToSet(f.items) :
                 n \in bypassed' \/ (alerts[n].critical /\ alerts[n].title \notin c.titles)]_vars

\* A critical alertname the current cooldown has not covered is not suppressed
\* (newCriticalDuringCooldown).
NewCriticalNotSuppressed ==
    [][\A n \in open : fate'[n] = "suppressed" /\ alerts[n].critical
         => alerts[n].title \in cool[alerts[n].group].titles]_vars

\* While its window runs, a hold can be cancelled by a resolve of its fingerprint, if
\* the dedup window outlasts the hold: an older hold that ends late does not take the
\* entry of its successor (debounce.go unregister).
HoldsCancellable ==
    DedupWindow > HoldWindow =>
        \A h \in holds : ~h.closed /\ h.left > 0 /\ alerts[h.n].fp # NoFp
                            => holder[alerts[h.n].fp] = h.n

\* An alert is in one place, and where the resolve of its fingerprint looks for it.
AlertsAreReachable == EveryAlertAccounted /\ HoldsCancellable

\* Every admitted alert ends while the process lives: suppressed, cancelled, merged into
\* a newer request or started, however the resolves and re-fires interleave.
EventuallySettled == \A n \in Ids : (n \in open) ~> (n \notin open \/ ctx = "cancelled")
=============================================================================
