----------------------------- MODULE OutcomeFold -----------------------------
(***************************************************************************)
(* The derived state of the outcome ledger, internal/outcome/ledger.go, as *)
(* a fold: what one ledger line does to the in-memory indexes.  The live   *)
(* write path and the replay both apply these operators; OutcomeLedger     *)
(* adds the file, the crashes and the compaction around them.              *)
(*                                                                         *)
(* A map is total here: an absent key holds its null value.  An empty      *)
(* string (no entry, no trigger key) is the null value of its set.         *)
(***************************************************************************)
EXTENDS Integers, Sequences, FiniteSets

CONSTANTS
    Fps,                \* fingerprints of investigated incidents
    AlertFps,           \* those a resolve can arrive for: not derived by RunLore
    Triggers,           \* trigger keys
    Entries,            \* knowledge-base entries
    Users,              \* humans who vote
    Rooms,              \* fix rooms of the factory
    NoFp, NoTrigger, NoEntry, \* absent fingerprint, trigger key, entry
    NoOpen, NoVote, NoSilence, NoVerify, \* absent map values
    MaxEarly            \* maxPendingResolvesPerFingerprint

ASSUME FoldConstants ==
    /\ AlertFps \subseteq Fps
    /\ NoFp \notin Fps /\ NoTrigger \notin Triggers /\ NoEntry \notin Entries
    /\ MaxEarly \in Nat \ {0}
    /\ IsFiniteSet(Fps) /\ IsFiniteSet(Triggers) /\ IsFiniteSet(Users) /\ IsFiniteSet(Rooms)

Ratings == {"up", "down"}
Held    == {"held", "failed"}
Time    == Nat \ {0}

OpenEvent    == [kind : {"open"}, fp : Fps, tk : Triggers \cup {NoTrigger},
                 entry : Entries \cup {NoEntry}, answer : BOOLEAN, url : BOOLEAN,
                 started : Time, at : Time]
ResolveEvent == [kind : {"resolve"}, fp : Fps, at : Time]
VoteEvent    == [kind : {"feedback"}, tk : Triggers, user : Users, rating : Ratings, at : Time]
SilenceEvent == [kind : {"silence"}, tk : Triggers, window : Nat \ {0}, at : Time]
ConfirmEvent == [kind : {"confirm"}, tk : Triggers \cup {NoTrigger}, entry : Entries, at : Time]
VerifyEvent  == [kind : {"verify"}, room : Rooms, entry : Entries, verdict : Held, at : Time]
LinkEvent    == [kind : {"link"}, tk : Triggers]

Event == OpenEvent \cup ResolveEvent \cup VoteEvent \cup SilenceEvent
         \cup ConfirmEvent \cup VerifyEvent \cup LinkEvent

Counters  == {"recalls", "resolved", "up", "down", "confirms", "held", "failed"}
Aggregate == [Counters -> Int]

pendingOpen  == [entry : Entries \cup {NoEntry}, counted : BOOLEAN]
triggerAgg   == [count : Nat, last : Nat, entry : Entries \cup {NoEntry}, fp : Fps \cup {NoFp},
                 url : BOOLEAN, linked : BOOLEAN, answered : Nat, answerUrl : BOOLEAN]
feedbackVote == [rating : Ratings, entry : Entries \cup {NoEntry}, at : Time]
silenceState == [at : Time, until : Time]
verifyState  == [entry : Entries, verdict : Held, at : Time]

ASSUME NullValues == NoVote \notin feedbackVote /\ NoVerify \notin verifyState

Memory == [open     : [Fps -> OpenEvent \cup {NoOpen}],
           agg      : [Entries -> Aggregate],
           opens    : [Fps -> Seq(pendingOpen)],
           early    : [Fps -> Seq(Time)],
           trig     : [Triggers -> triggerAgg],
           votes    : [Triggers \X Users -> feedbackVote \cup {NoVote}],
           silences : [Triggers -> silenceState \cup {NoSilence}],
           confirms : [Triggers -> Nat],
           verifies : [Rooms -> verifyState \cup {NoVerify}],
           seen     : Nat,
           dropped  : Nat,
           stale    : Nat]

NoTriggerAgg == [count |-> 0, last |-> 0, entry |-> NoEntry, fp |-> NoFp, url |-> FALSE,
                 linked |-> FALSE, answered |-> 0, answerUrl |-> FALSE]

\* resetStateLocked: the state before any line.
Fresh == [open     |-> [f \in Fps |-> NoOpen],
          agg      |-> [e \in Entries |-> [c \in Counters |-> 0]],
          opens    |-> [f \in Fps |-> <<>>],
          early    |-> [f \in Fps |-> <<>>],
          trig     |-> [t \in Triggers |-> NoTriggerAgg],
          votes    |-> [v \in Triggers \X Users |-> NoVote],
          silences |-> [t \in Triggers |-> NoSilence],
          confirms |-> [t \in Triggers |-> 0],
          verifies |-> [r \in Rooms |-> NoVerify],
          seen     |-> 0,
          dropped  |-> 0,
          stale    |-> 0]

\* An aggregate counter moves by d; the absent entry has none.
credit(agg, e, c, d) ==
    IF e = NoEntry THEN agg ELSE [agg EXCEPT ![e][c] = @ + d]

-----------------------------------------------------------------------------
(* Opens and resolves.                                                     *)

\* A recall of an entry, for an incident whose resolve can arrive.
counted(e) == e.entry # NoEntry /\ e.fp \in AlertFps

\* The buffered resolves that landed once the investigation had begun.
resolvesSince(rs, e) ==
    LET kept[i \in 0..Len(rs)] ==
            IF i = 0 THEN <<>>
            ELSE IF rs[i] >= e.started THEN Append(kept[i - 1], rs[i]) ELSE kept[i - 1]
    IN kept[Len(rs)]

\* Mutant: an open paired with a buffered resolve is pushed all the same.
MutPairedOpenPushed(m, e) ==
    LET kept == resolvesSince(m.early[e.fp], e)
        agg  == IF counted(e) THEN credit(m.agg, e.entry, "recalls", 1) ELSE m.agg
    IN [m EXCEPT !.agg = IF counted(e) /\ kept # <<>> THEN credit(agg, e.entry, "resolved", 1)
                         ELSE agg,
                 !.early[e.fp] = IF kept = <<>> THEN <<>> ELSE Tail(kept),
                 !.opens[e.fp] = Append(@, [entry |-> e.entry, counted |-> counted(e)])]

\* Pair the open with the earliest surviving buffered resolve, else push it.
applyOpenLocked(m, e) ==
    LET rs   == m.early[e.fp]
        kept == resolvesSince(rs, e)
        agg  == IF counted(e) THEN credit(m.agg, e.entry, "recalls", 1) ELSE m.agg
        push == Append(m.opens[e.fp], [entry |-> e.entry, counted |-> counted(e)])
    IN IF kept # <<>>
       THEN [m EXCEPT !.agg = IF counted(e) THEN credit(agg, e.entry, "resolved", 1) ELSE agg,
                      !.early[e.fp] = Tail(kept),
                      !.stale = @ + Len(rs) - Len(kept)]
       ELSE [m EXCEPT !.agg = agg,
                      !.early[e.fp] = <<>>,
                      !.opens[e.fp] = push,
                      !.stale = @ + Len(rs)]

\* The occurrence index follows the newest open; the standing answer the newest
\* conclusive one.
applyTriggerLocked(m, e) ==
    IF e.tk = NoTrigger THEN m
    ELSE LET a      == m.trig[e.tk]
             newest == e.at >= a.last
             answer == e.answer /\ e.at >= a.answered
         IN [m EXCEPT !.trig[e.tk] =
                [count     |-> a.count + 1,
                 last      |-> IF newest THEN e.at ELSE a.last,
                 entry     |-> IF newest THEN e.entry ELSE a.entry,
                 fp        |-> IF newest THEN e.fp ELSE a.fp,
                 url       |-> IF newest THEN e.url \/ a.linked ELSE a.url,
                 linked    |-> a.linked,
                 answered  |-> IF answer THEN e.at ELSE a.answered,
                 answerUrl |-> IF answer THEN e.url \/ a.linked ELSE a.answerUrl]]

\* A resolve ends the incident: the standing silence of the trigger of the open
\* incident, and of every trigger whose newest open carried this fingerprint, goes.
unsilenced(m, fp) ==
    [t \in Triggers |-> IF (m.open[fp] # NoOpen /\ m.open[fp].tk = t) \/ m.trig[t].fp = fp
                        THEN NoSilence ELSE m.silences[t]]

\* Pop the newest unresolved open, else buffer the resolve, dropping the oldest
\* at the cap.
applyResolveLocked(m, fp, at) ==
    LET s == [m EXCEPT !.silences = unsilenced(m, fp), !.seen = @ + 1]
        stack == m.opens[fp]
        full == Len(m.early[fp]) >= MaxEarly
    IN IF stack = <<>>
       THEN [s EXCEPT !.early[fp] = Append(IF full THEN Tail(@) ELSE @, at),
                      !.dropped = IF full THEN @ + 1 ELSE @]
       ELSE LET top == stack[Len(stack)]
            IN [s EXCEPT !.opens[fp] = SubSeq(stack, 1, Len(stack) - 1),
                         !.agg = IF top.counted THEN credit(@, top.entry, "resolved", 1) ELSE @]

-----------------------------------------------------------------------------
(* Human verdicts and machine observations.                                *)

\* Mutant: a changed vote keeps what it credited before.
MutVoteStacks(m, e) ==
    LET entry == m.trig[e.tk].entry
    IN [m EXCEPT !.votes[<<e.tk, e.user>>] = [rating |-> e.rating, entry |-> entry, at |-> e.at],
                 !.agg = credit(@, entry, e.rating, 1)]

\* One live vote per trigger and user, credited to the entry of the newest open;
\* a changed vote first gives back what it credited.
applyFeedbackLocked(m, e) ==
    LET key   == <<e.tk, e.user>>
        entry == m.trig[e.tk].entry
        prev  == m.votes[key]
        vote  == [rating |-> e.rating, entry |-> entry, at |-> e.at]
        given == IF prev = NoVote THEN m.agg ELSE credit(m.agg, prev.entry, prev.rating, -1)
    IN IF prev # NoVote /\ prev.rating = e.rating /\ prev.entry = entry
       THEN [m EXCEPT !.votes[key] = IF e.at > prev.at THEN vote ELSE prev]
       ELSE [m EXCEPT !.votes[key] = vote,
                      !.agg = credit(given, entry, e.rating, 1)]

applySilenceLocked(m, e) ==
    [m EXCEPT !.silences[e.tk] = [at |-> e.at, until |-> e.at + e.window]]

applyConfirmLocked(m, e) ==
    [m EXCEPT !.agg = credit(@, e.entry, "confirms", 1),
              !.confirms = [t \in Triggers |-> IF t = e.tk THEN @[t] + 1 ELSE @[t]]]

\* One live observation per fix room, the latest by its own time.
applyVerifyLocked(m, e) ==
    LET prev  == m.verifies[e.room]
        new   == [entry |-> e.entry, verdict |-> e.verdict, at |-> e.at]
        given == IF prev = NoVerify THEN m.agg ELSE credit(m.agg, prev.entry, prev.verdict, -1)
    IN IF prev # NoVerify /\ e.at < prev.at THEN m
       ELSE IF prev # NoVerify /\ prev.entry = e.entry /\ prev.verdict = e.verdict
            THEN [m EXCEPT !.verifies[e.room] = new]
            ELSE [m EXCEPT !.verifies[e.room] = new,
                           !.agg = credit(given, e.entry, e.verdict, 1)]

\* A deferred draft's link: later opens without a link fall back to it.
applyLinkLocked(m, e) ==
    [m EXCEPT !.trig[e.tk].url = TRUE,
              !.trig[e.tk].linked = TRUE,
              !.trig[e.tk].answerUrl = @ \/ m.trig[e.tk].answered > 0]

-----------------------------------------------------------------------------
\* One event folded into the indexes.
foldLocked(m, e) ==
    CASE e.kind = "open"     -> applyTriggerLocked(applyOpenLocked([m EXCEPT !.open[e.fp] = e], e), e)
      [] e.kind = "resolve"  -> [applyResolveLocked(m, e.fp, e.at) EXCEPT !.open[e.fp] = NoOpen]
      [] e.kind = "feedback" -> applyFeedbackLocked(m, e)
      [] e.kind = "silence"  -> applySilenceLocked(m, e)
      [] e.kind = "confirm"  -> applyConfirmLocked(m, e)
      [] e.kind = "verify"   -> applyVerifyLocked(m, e)
      [] e.kind = "link"     -> applyLinkLocked(m, e)

\* The silences still standing at now: the gate reads no other.
pruneLapsedSilencesLocked(m, now) ==
    [m EXCEPT !.silences = [t \in Triggers |->
        IF @[t] # NoSilence /\ @[t].until <= now THEN NoSilence ELSE @[t]]]

-----------------------------------------------------------------------------
(* What the indexes of one ledger must agree on, over every history.       *)

votesCounted(m) ==
    \A e \in Entries, r \in Ratings :
        m.agg[e][r] = Cardinality({v \in Triggers \X Users :
            m.votes[v] # NoVote /\ m.votes[v].rating = r /\ m.votes[v].entry = e})

roomsCounted(m) ==
    \A e \in Entries, h \in Held :
        m.agg[e][h] = Cardinality({r \in Rooms :
            m.verifies[r] # NoVerify /\ m.verifies[r].verdict = h /\ m.verifies[r].entry = e})

\* The unresolved opens whose resolution would credit e.
owed(m, e) ==
    UNION {{f} \X {i \in DOMAIN m.opens[f] : m.opens[f][i] = [entry |-> e, counted |-> TRUE]} :
              f \in Fps}

recallsSplit(m) ==
    \A e \in Entries : m.agg[e]["recalls"] = m.agg[e]["resolved"] + Cardinality(owed(m, e))

earlyOrOpen(m) ==
    \A f \in Fps : (m.opens[f] = <<>> \/ m.early[f] = <<>>) /\ Len(m.early[f]) <= MaxEarly

linkKept(m) ==
    \A t \in Triggers :
        m.trig[t].linked => m.trig[t].url /\ (m.trig[t].answered > 0 => m.trig[t].answerUrl)
==============================================================================
