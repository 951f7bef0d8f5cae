------------------------- MODULE OutcomeLedgerProofs -------------------------
(***************************************************************************)
(* Proofs about the outcome ledger: whatever the number of processes, the  *)
(* history of events, the crashes, failed writes and compactions, the      *)
(* aggregates of every state a process serves agree with its indexes.      *)
(*                                                                         *)
(* The indexes are one record.  Sound is the inductive fact about one such *)
(* record: Balanced says it of the votes, rooms and links its roll-ups     *)
(* were made of, Paired of the opens and resolves, Timed of the silences.  *)
(* Each fold operator preserves it, so replays do too, whatever the lines; *)
(* SoundState says it of every record in the system.                       *)
(*                                                                         *)
(* Agree relates two records that differ by lapsed silences at most, and   *)
(* each fold operator preserves it too: that makes a compacted file replay *)
(* to what the whole one did.  While one process owns the file, Loading    *)
(* ties what it has folded to the lines it has read; that gives the        *)
(* refinement of DurableLedger, and with Lock, for writes that do not      *)
(* fail, the lockstep of the running indexes with the file.                *)
(***************************************************************************)
EXTENDS OutcomeLedger, FiniteSetTheorems, SequenceTheorems, WellFoundedInduction, TLAPS

Fields == {"open", "agg", "opens", "early", "trig", "votes", "silences", "confirms",
           "verifies", "seen", "dropped", "stale"}

\* The types of the indexes the aggregates depend on.
Core(m) ==
    /\ DOMAIN m = Fields
    /\ m.agg \in [Entries -> Aggregate]
    /\ m.trig \in [Triggers -> triggerAgg]
    /\ m.votes \in [Triggers \X Users -> feedbackVote \cup {NoVote}]
    /\ m.verifies \in [Rooms -> verifyState \cup {NoVerify}]

Balanced(m) ==
    /\ Core(m)
    /\ votesCounted(m)
    /\ roomsCounted(m)
    /\ linkKept(m)

-----------------------------------------------------------------------------
(* The aggregate.                                                          *)

\* credit keeps the aggregate's type.
LEMMA CreditType ==
    ASSUME NEW agg \in [Entries -> Aggregate], NEW en, NEW c \in Counters, NEW d \in Int
    PROVE  credit(agg, en, c, d) \in [Entries -> Aggregate]
<1>1. CASE en \in Entries
  <2>1. [agg[en] EXCEPT ![c] = @ + d] \in Aggregate
    BY <1>1 DEF Aggregate
  <2> QED
    BY <1>1, <2>1, FoldConstants DEF credit
<1>2. CASE en \notin Entries
  BY <1>2 DEF credit
<1> QED
  BY <1>1, <1>2

\* credit moves the counter of its entry by d and leaves every other one alone.
LEMMA CreditValue ==
    ASSUME NEW agg \in [Entries -> Aggregate], NEW en, NEW c \in Counters, NEW d \in Int
    PROVE  \A x \in Entries, k \in Counters :
             credit(agg, en, c, d)[x][k] = IF x = en /\ k = c THEN agg[x][k] + d ELSE agg[x][k]
    BY FoldConstants DEF credit, Aggregate

\* credit on a counter that is neither a rating nor a factory outcome.
Plain == {"recalls", "resolved", "confirms"}

\* Crediting a counter other than the ratings and the rooms leaves those alone.
LEMMA CreditPlain ==
    ASSUME NEW agg \in [Entries -> Aggregate], NEW en, NEW c \in Plain
    PROVE  /\ credit(agg, en, c, 1) \in [Entries -> Aggregate]
           /\ \A x \in Entries, k \in Ratings \cup Held : credit(agg, en, c, 1)[x][k] = agg[x][k]
<1>1. c \in Counters /\ 1 \in Int
  BY DEF Plain, Counters
<1>2. credit(agg, en, c, 1) \in [Entries -> Aggregate]
  BY <1>1, CreditType
<1>3. ASSUME NEW x \in Entries, NEW k \in Ratings \cup Held
      PROVE  credit(agg, en, c, 1)[x][k] = agg[x][k]
  <2>1. k \in Counters /\ k # c
    BY DEF Plain, Counters, Ratings, Held
  <2> QED
    BY <2>1 DEF credit, Aggregate
<1> QED
  BY <1>2, <1>3

-----------------------------------------------------------------------------
(* Counting live votes and fix rooms.                                      *)

VoteSet(votes, r, e) == {v \in Triggers \X Users :
    votes[v] # NoVote /\ votes[v].rating = r /\ votes[v].entry = e}

RoomSet(verifies, h, e) == {r \in Rooms :
    verifies[r] # NoVerify /\ verifies[r].verdict = h /\ verifies[r].entry = e}

\* The sets these lemmas are about, named so that their instances stay opaque.
Keys        == Triggers \X Users
Votes       == [Triggers \X Users -> feedbackVote \cup {NoVote}]
Verifies    == [Rooms -> verifyState \cup {NoVerify}]
put(f, k, w) == [f EXCEPT ![k] = w]

\* A finite set that may lose x and may gain it changes its size by what it did.
LEMMA CardinalityMove ==
    ASSUME NEW A, NEW B, NEW x, IsFiniteSet(A), A \ {x} = B \ {x}
    PROVE  /\ IsFiniteSet(B)
           /\ Cardinality(B) \in Nat /\ Cardinality(A) \in Nat
           /\ Cardinality(B) = Cardinality(A) - (IF x \in A THEN 1 ELSE 0)
                                              + (IF x \in B THEN 1 ELSE 0)
<1> DEFINE C == A \ {x}
<1>1. /\ IsFiniteSet(C)
      /\ Cardinality(C) = Cardinality(A) - (IF x \in A THEN 1 ELSE 0)
      /\ Cardinality(C) \in Nat /\ Cardinality(A) \in Nat
  <2>1. CASE x \in A
    BY <2>1, FS_RemoveElement, FS_CardinalityType
  <2>2. CASE x \notin A
    <3>1. C = A
      BY <2>2
    <3> HIDE DEF C
    <3> QED
      BY <2>2, <3>1, FS_CardinalityType
  <2> QED
    BY <2>1, <2>2
<1>2. CASE x \in B
  <2>1. B = C \cup {x} /\ x \notin C
    BY <1>2
  <2>2. IsFiniteSet(B) /\ Cardinality(B) = Cardinality(C) + 1
    BY <1>1, <2>1, FS_AddElement
  <2> QED
    BY <1>1, <1>2, <2>2
<1>3. CASE x \notin B
  <2>1. B = C
    BY <1>3
  <2> HIDE DEF C
  <2> QED
    BY <1>1, <1>3, <2>1
<1> QED
  BY <1>2, <1>3

\* Recording vote w under k.
LEMMA VoteSetMove ==
    ASSUME NEW votes \in Votes, NEW k \in Keys, NEW w \in feedbackVote,
           NEW after, after = put(votes, k, w),
           NEW r \in Ratings, NEW e \in Entries
    PROVE  /\ Cardinality(VoteSet(votes, r, e)) \in Nat
           /\ Cardinality(VoteSet(after, r, e))
             = Cardinality(VoteSet(votes, r, e))
               - (IF votes[k] # NoVote /\ votes[k].rating = r /\ votes[k].entry = e THEN 1 ELSE 0)
               + (IF w.rating = r /\ w.entry = e THEN 1 ELSE 0)
<1> DEFINE A == VoteSet(votes, r, e)
           B == VoteSet(after, r, e)
<1>1. IsFiniteSet(A)
  BY FoldConstants, FS_Product, FS_Subset DEF VoteSet
<1>2. A \ {k} = B \ {k}
  BY DEF VoteSet, Votes, Keys, put
<1>3. k \in A <=> votes[k] # NoVote /\ votes[k].rating = r /\ votes[k].entry = e
  BY DEF VoteSet, Votes, Keys, put
<1>4. k \in B <=> w.rating = r /\ w.entry = e
  BY NullValues DEF VoteSet, Votes, Keys, put
<1> HIDE DEF A, B
<1>5. /\ Cardinality(A) \in Nat
      /\ Cardinality(B) = Cardinality(A) - (IF k \in A THEN 1 ELSE 0) + (IF k \in B THEN 1 ELSE 0)
  BY <1>1, <1>2, CardinalityMove
<1> QED
  BY <1>3, <1>4, <1>5 DEF A, B

\* Recording verification w for room k.
LEMMA RoomSetMove ==
    ASSUME NEW verifies \in Verifies, NEW k \in Rooms, NEW w \in verifyState,
           NEW after, after = put(verifies, k, w),
           NEW h \in Held, NEW e \in Entries
    PROVE  /\ Cardinality(RoomSet(verifies, h, e)) \in Nat
           /\ Cardinality(RoomSet(after, h, e))
             = Cardinality(RoomSet(verifies, h, e))
               - (IF verifies[k] # NoVerify /\ verifies[k].verdict = h /\ verifies[k].entry = e
                  THEN 1 ELSE 0)
               + (IF w.verdict = h /\ w.entry = e THEN 1 ELSE 0)
<1> DEFINE A == RoomSet(verifies, h, e)
           B == RoomSet(after, h, e)
<1>1. IsFiniteSet(A)
  BY FoldConstants, FS_Subset DEF RoomSet
<1>2. A \ {k} = B \ {k}
  BY DEF RoomSet, Verifies, put
<1>3. k \in A <=> verifies[k] # NoVerify /\ verifies[k].verdict = h /\ verifies[k].entry = e
  BY DEF RoomSet, Verifies, put
<1>4. k \in B <=> w.verdict = h /\ w.entry = e
  BY NullValues DEF RoomSet, Verifies, put
<1> HIDE DEF A, B
<1>5. /\ Cardinality(A) \in Nat
      /\ Cardinality(B) = Cardinality(A) - (IF k \in A THEN 1 ELSE 0) + (IF k \in B THEN 1 ELSE 0)
  BY <1>1, <1>2, CardinalityMove
<1> QED
  BY <1>3, <1>4, <1>5 DEF A, B

-----------------------------------------------------------------------------
(* Each fold operator keeps a sound record sound.                          *)

\* A step that leaves the votes, the rooms and their counters alone.
LEMMA Frame ==
    ASSUME NEW m, NEW n, Balanced(m),
           DOMAIN n = Fields, n.agg \in [Entries -> Aggregate],
           \A e \in Entries, c \in Ratings \cup Held : n.agg[e][c] = m.agg[e][c],
           n.votes = m.votes, n.verifies = m.verifies,
           n.trig \in [Triggers -> triggerAgg], linkKept(n)
    PROVE  Balanced(n)
    BY SMTT(30) DEF Balanced, Core, votesCounted, roomsCounted

\* An open moves the recall counters of its entry only.
LEMMA OpenBalanced ==
    ASSUME NEW m, Balanced(m), NEW e \in OpenEvent
    PROVE  Balanced(applyOpenLocked([m EXCEPT !.open[e.fp] = e], e))
<1> DEFINE m1 == [m EXCEPT !.open[e.fp] = e]
           n  == applyOpenLocked(m1, e)
<1>1. /\ DOMAIN m1 = Fields /\ m1.agg = m.agg /\ m1.votes = m.votes
      /\ m1.verifies = m.verifies /\ m1.trig = m.trig
  BY DEF Balanced, Core, Fields
<1> HIDE DEF m1
<1> DEFINE agg == IF counted(e) THEN credit(m1.agg, e.entry, "recalls", 1) ELSE m1.agg
           paid == IF counted(e) THEN credit(agg, e.entry, "resolved", 1) ELSE agg
<1>2. /\ DOMAIN n = Fields /\ n.votes = m.votes /\ n.verifies = m.verifies /\ n.trig = m.trig
      /\ n.agg \in {agg, paid}
  BY <1>1 DEF applyOpenLocked, Fields
<1>3. /\ agg \in [Entries -> Aggregate]
      /\ \A x \in Entries, c \in Ratings \cup Held : agg[x][c] = m.agg[x][c]
  <2>1. m.agg \in [Entries -> Aggregate] /\ e.entry \in Entries \cup {NoEntry} /\ "recalls" \in Plain
    BY DEF Balanced, Core, OpenEvent, Plain
  <2>2. /\ credit(m.agg, e.entry, "recalls", 1) \in [Entries -> Aggregate]
        /\ \A x \in Entries, c \in Ratings \cup Held :
               credit(m.agg, e.entry, "recalls", 1)[x][c] = m.agg[x][c]
    BY <2>1, CreditPlain
  <2>3. agg = credit(m.agg, e.entry, "recalls", 1) \/ agg = m.agg
    BY <1>1
  <2> QED
    BY <2>1, <2>2, <2>3
<1>4. /\ paid \in [Entries -> Aggregate]
      /\ \A x \in Entries, c \in Ratings \cup Held : paid[x][c] = m.agg[x][c]
  <2> HIDE DEF agg
  <2>1. e.entry \in Entries \cup {NoEntry} /\ "resolved" \in Plain
    BY DEF OpenEvent, Plain
  <2> QED
    BY <1>3, <2>1, CreditPlain
<1> HIDE DEF n, agg, paid
<1>5. linkKept(n) /\ n.trig \in [Triggers -> triggerAgg]
  BY <1>2 DEF Balanced, Core, linkKept
<1>6. Balanced(n)
  BY <1>2, <1>3, <1>4, <1>5, Frame
<1> QED
  BY <1>6 DEF n, m1

\* The occurrence index keeps its link.
LEMMA TriggerBalanced ==
    ASSUME NEW m, Balanced(m), NEW e \in OpenEvent
    PROVE  Balanced(applyTriggerLocked(m, e))
<1> DEFINE n == applyTriggerLocked(m, e)
<1>1. CASE e.tk = NoTrigger
  BY <1>1 DEF applyTriggerLocked
<1>2. CASE e.tk # NoTrigger
  <2> DEFINE a == m.trig[e.tk]
             newest == e.at >= a.last
             answer == e.answer /\ e.at >= a.answered
             b == [count     |-> a.count + 1,
                   last      |-> IF newest THEN e.at ELSE a.last,
                   entry     |-> IF newest THEN e.entry ELSE a.entry,
                   fp        |-> IF newest THEN e.fp ELSE a.fp,
                   url       |-> IF newest THEN e.url \/ a.linked ELSE a.url,
                   linked    |-> a.linked,
                   answered  |-> IF answer THEN e.at ELSE a.answered,
                   answerUrl |-> IF answer THEN e.url \/ a.linked ELSE a.answerUrl]
  <2>1. n = [m EXCEPT !.trig[e.tk] = b]
    BY <1>2 DEF applyTriggerLocked
  <2>2. e.tk \in Triggers /\ a \in triggerAgg
    BY <1>2 DEF OpenEvent, Balanced, Core
  <2>3. /\ b.linked = a.linked
        /\ a.linked => (a.url => b.url)
        /\ a.linked => ((a.answered > 0 => a.answerUrl) => (b.answered > 0 => b.answerUrl))
    BY <2>2 DEF OpenEvent, triggerAgg, Time
  <2>4. b \in triggerAgg
    BY <2>2 DEF OpenEvent, triggerAgg, Time
  <2> HIDE DEF n, b, newest, answer
  <2>5. /\ DOMAIN n = Fields /\ n.agg = m.agg /\ n.votes = m.votes /\ n.verifies = m.verifies
        /\ n.trig = [m.trig EXCEPT ![e.tk] = b]
    BY <2>1 DEF Balanced, Core, Fields
  <2>6. n.trig \in [Triggers -> triggerAgg]
    BY <2>2, <2>4, <2>5 DEF Balanced, Core
  <2>7. linkKept(n)
    BY <2>2, <2>3, <2>5 DEF Balanced, Core, linkKept
  <2>8. Balanced(n)
    BY <2>5, <2>6, <2>7, Frame DEF Balanced, Core
  <2> QED
    BY <2>8 DEF n
<1> QED
  BY <1>1, <1>2

\* A resolve moves the resolved counter of one entry only.
LEMMA ResolveBalanced ==
    ASSUME NEW m, Balanced(m), NEW fp, NEW at
    PROVE  Balanced([applyResolveLocked(m, fp, at) EXCEPT !.open[fp] = NoOpen])
<1> DEFINE n == [applyResolveLocked(m, fp, at) EXCEPT !.open[fp] = NoOpen]
           en == m.opens[fp][Len(m.opens[fp])].entry
<1>1. /\ DOMAIN n = Fields /\ n.votes = m.votes /\ n.verifies = m.verifies /\ n.trig = m.trig
      /\ n.agg = m.agg \/ n.agg = credit(m.agg, en, "resolved", 1)
  BY DEF applyResolveLocked, Balanced, Core, Fields
<1> HIDE DEF n, en
<1>2. /\ n.agg \in [Entries -> Aggregate]
      /\ \A x \in Entries, c \in Ratings \cup Held : n.agg[x][c] = m.agg[x][c]
  BY <1>1, CreditPlain DEF Plain, Balanced, Core
<1>3. linkKept(n) /\ n.trig \in [Triggers -> triggerAgg]
  BY <1>1 DEF Balanced, Core, linkKept
<1>4. Balanced(n)
  BY <1>1, <1>2, <1>3, Frame
<1> QED
  BY <1>4 DEF n

\* A vote moves the live votes and the rating counters together.
LEMMA VoteFrame ==
    ASSUME NEW m, NEW n, Balanced(m),
           DOMAIN n = Fields, n.agg \in [Entries -> Aggregate],
           n.votes \in [Triggers \X Users -> feedbackVote \cup {NoVote}],
           n.verifies = m.verifies, n.trig = m.trig,
           \A x \in Entries, h \in Held : n.agg[x][h] = m.agg[x][h],
           \A x \in Entries, r \in Ratings : n.agg[x][r] = Cardinality(VoteSet(n.votes, r, x))
    PROVE  Balanced(n)
    BY DEF Balanced, Core, votesCounted, roomsCounted, linkKept, VoteSet

\* Folding a vote keeps an aggregate sound.
LEMMA FeedbackBalanced ==
    ASSUME NEW m, Balanced(m), NEW e \in VoteEvent
    PROVE  Balanced(applyFeedbackLocked(m, e))
<1> DEFINE key   == <<e.tk, e.user>>
           entry == m.trig[e.tk].entry
           prev  == m.votes[key]
           vote  == [rating |-> e.rating, entry |-> entry, at |-> e.at]
           given == IF prev = NoVote THEN m.agg ELSE credit(m.agg, prev.entry, prev.rating, -1)
           n     == applyFeedbackLocked(m, e)
<1>1. /\ key \in Triggers \X Users /\ e.rating \in Ratings
      /\ prev \in feedbackVote \cup {NoVote}
      /\ m.agg \in [Entries -> Aggregate] /\ DOMAIN m = Fields
      /\ m.votes \in [Triggers \X Users -> feedbackVote \cup {NoVote}]
  BY DEF VoteEvent, Balanced, Core
<1>2. vote \in feedbackVote /\ vote.rating = e.rating /\ vote.entry = entry
  BY DEF VoteEvent, Balanced, Core, triggerAgg, feedbackVote
<1>3. \A x \in Entries, r \in Ratings : m.agg[x][r] = Cardinality(VoteSet(m.votes, r, x))
  BY DEF Balanced, votesCounted, VoteSet
<1>4. CASE prev # NoVote /\ prev.rating = e.rating /\ prev.entry = entry
  <2> DEFINE w == IF e.at > prev.at THEN vote ELSE prev
  <2>1. n = [m EXCEPT !.votes[key] = w]
    BY <1>4 DEF applyFeedbackLocked
  <2>2. w \in feedbackVote /\ w.rating = prev.rating /\ w.entry = prev.entry
    BY <1>1, <1>2, <1>4
  <2> HIDE DEF n, w
  <2>3. /\ DOMAIN n = Fields /\ n.agg = m.agg /\ n.verifies = m.verifies /\ n.trig = m.trig
        /\ n.votes = [m.votes EXCEPT ![key] = w]
    BY <1>1, <2>1 DEF Fields
  <2> HIDE DEF key, entry, prev
  <2>4. ASSUME NEW x \in Entries, NEW r \in Ratings
        PROVE  n.agg[x][r] = Cardinality(VoteSet(n.votes, r, x))
    <3>1. /\ Cardinality(VoteSet(m.votes, r, x)) \in Nat
          /\ Cardinality(VoteSet(n.votes, r, x)) = Cardinality(VoteSet(m.votes, r, x))
               - (IF prev # NoVote /\ prev.rating = r /\ prev.entry = x THEN 1 ELSE 0)
               + (IF w.rating = r /\ w.entry = x THEN 1 ELSE 0)
      <4>1. /\ key \in Keys /\ w \in feedbackVote /\ m.votes \in Votes
            /\ n.votes = put(m.votes, key, w) /\ prev = m.votes[key]
        BY <1>1, <2>2, <2>3 DEF prev, Keys, Votes, put
      <4> QED
        BY <4>1, VoteSetMove
    <3>2. Cardinality(VoteSet(n.votes, r, x)) = Cardinality(VoteSet(m.votes, r, x))
      BY <1>4, <2>2, <3>1
    <3> QED
      BY <1>3, <2>3, <3>2
  <2>5. n.votes \in [Triggers \X Users -> feedbackVote \cup {NoVote}]
    BY <1>1, <2>2, <2>3
  <2>6. Balanced(n)
    BY <1>1, <2>3, <2>4, <2>5, VoteFrame
  <2> QED
    BY <2>6 DEF n
<1>5. CASE ~(prev # NoVote /\ prev.rating = e.rating /\ prev.entry = entry)
  <2>1. n = [m EXCEPT !.votes[key] = vote, !.agg = credit(given, entry, e.rating, 1)]
    BY <1>5 DEF applyFeedbackLocked
  <2> HIDE DEF n, vote, given
  <2>2. /\ DOMAIN n = Fields /\ n.verifies = m.verifies /\ n.trig = m.trig
        /\ n.votes = [m.votes EXCEPT ![key] = vote]
        /\ n.agg = credit(given, entry, e.rating, 1)
    BY <1>1, <2>1 DEF Fields
  <2> HIDE DEF key, entry, prev
  <2>3. /\ given \in [Entries -> Aggregate]
        /\ \A x \in Entries, k \in Counters :
             given[x][k] = m.agg[x][k] - (IF prev # NoVote /\ prev.entry = x /\ prev.rating = k
                                          THEN 1 ELSE 0)
    <3>1. CASE prev = NoVote
      BY <1>1, <3>1 DEF given, Aggregate
    <3>2. CASE prev # NoVote
      <4>1. prev.rating \in Counters /\ -1 \in Int
        BY <1>1, <3>2 DEF feedbackVote, Ratings, Counters
      <4>2. given = credit(m.agg, prev.entry, prev.rating, -1)
        BY <3>2 DEF given
      <4>3. given \in [Entries -> Aggregate]
        BY <1>1, <4>1, <4>2, CreditType
      <4>4. \A x \in Entries, k \in Counters :
              given[x][k] = IF x = prev.entry /\ k = prev.rating THEN m.agg[x][k] + -1 ELSE m.agg[x][k]
        BY <1>1, <4>1, <4>2, CreditValue
      <4>5. \A x \in Entries, k \in Counters : m.agg[x][k] \in Int
        BY <1>1 DEF Aggregate
      <4> QED
        BY <3>2, <4>3, <4>4, <4>5
    <3> QED
      BY <3>1, <3>2
  <2>4. /\ n.agg \in [Entries -> Aggregate]
        /\ \A x \in Entries, k \in Counters :
             n.agg[x][k] = given[x][k] + (IF entry = x /\ e.rating = k THEN 1 ELSE 0)
    <3>1. e.rating \in Counters /\ 1 \in Int
      BY <1>1 DEF Ratings, Counters
    <3>2. n.agg \in [Entries -> Aggregate]
      <4>1. given \in [Entries -> Aggregate] /\ n.agg = credit(given, entry, e.rating, 1)
        BY <2>2, <2>3
      <4> QED
        BY SMTT(30), <3>1, <4>1, CreditType
    <3>3. \A x \in Entries, k \in Counters :
            n.agg[x][k] = IF x = entry /\ k = e.rating THEN given[x][k] + 1 ELSE given[x][k]
      BY <2>2, <2>3, <3>1, CreditValue
    <3>4. \A x \in Entries, k \in Counters : given[x][k] \in Int
      BY <2>3 DEF Aggregate
    <3> QED
      BY <3>2, <3>3, <3>4
  <2>5. ASSUME NEW x \in Entries, NEW r \in Ratings
        PROVE  n.agg[x][r] = Cardinality(VoteSet(n.votes, r, x))
    <3>1. /\ Cardinality(VoteSet(m.votes, r, x)) \in Nat
          /\ Cardinality(VoteSet(n.votes, r, x)) = Cardinality(VoteSet(m.votes, r, x))
               - (IF prev # NoVote /\ prev.rating = r /\ prev.entry = x THEN 1 ELSE 0)
               + (IF vote.rating = r /\ vote.entry = x THEN 1 ELSE 0)
      <4>1. /\ key \in Keys /\ vote \in feedbackVote /\ m.votes \in Votes
            /\ n.votes = put(m.votes, key, vote) /\ prev = m.votes[key]
        BY <1>1, <1>2, <2>2 DEF prev, Keys, Votes, put
      <4> QED
        BY <4>1, VoteSetMove
    <3>2. r \in Counters
      BY DEF Ratings, Counters
    <3> QED
      BY <1>2, <1>3, <2>3, <2>4, <3>1, <3>2
  <2>6. \A x \in Entries, h \in Held : n.agg[x][h] = m.agg[x][h]
    <3> SUFFICES ASSUME NEW x \in Entries, NEW h \in Held
                 PROVE  n.agg[x][h] = m.agg[x][h]
      OBVIOUS
    <3>1. /\ h \in Counters /\ h # e.rating /\ (prev # NoVote => h # prev.rating)
          /\ m.agg[x][h] \in Int
      BY <1>1 DEF Held, Ratings, Counters, feedbackVote, Aggregate
    <3> QED
      BY <2>3, <2>4, <3>1
  <2>7. n.votes \in [Triggers \X Users -> feedbackVote \cup {NoVote}]
    BY <1>1, <1>2, <2>2
  <2>8. Balanced(n)
    BY <2>2, <2>4, <2>5, <2>6, <2>7, VoteFrame
  <2> QED
    BY <2>8 DEF n
<1> QED
  BY <1>4, <1>5

\* A silence touches none of the aggregates.
LEMMA SilenceBalanced ==
    ASSUME NEW m, Balanced(m), NEW e
    PROVE  Balanced(applySilenceLocked(m, e))
<1> DEFINE n == applySilenceLocked(m, e)
<1>1. /\ DOMAIN n = Fields /\ n.agg = m.agg /\ n.votes = m.votes /\ n.verifies = m.verifies
      /\ n.trig = m.trig
  BY DEF applySilenceLocked, Balanced, Core, Fields
<1> HIDE DEF n
<1>2. Balanced(n)
  BY <1>1, Frame DEF Balanced, Core, linkKept
<1> QED
  BY <1>2 DEF n

\* A confirmation moves the confirms counter of one entry only.
LEMMA ConfirmBalanced ==
    ASSUME NEW m, Balanced(m), NEW e
    PROVE  Balanced(applyConfirmLocked(m, e))
<1> DEFINE n == applyConfirmLocked(m, e)
<1>1. /\ DOMAIN n = Fields /\ n.votes = m.votes /\ n.verifies = m.verifies /\ n.trig = m.trig
      /\ n.agg = credit(m.agg, e.entry, "confirms", 1)
  BY DEF applyConfirmLocked, Balanced, Core, Fields
<1> HIDE DEF n
<1>2. /\ n.agg \in [Entries -> Aggregate]
      /\ \A x \in Entries, c \in Ratings \cup Held : n.agg[x][c] = m.agg[x][c]
  BY <1>1, CreditPlain DEF Plain, Balanced, Core
<1>3. linkKept(n) /\ n.trig \in [Triggers -> triggerAgg]
  BY <1>1 DEF Balanced, Core, linkKept
<1>4. Balanced(n)
  BY <1>1, <1>2, <1>3, Frame
<1> QED
  BY <1>4 DEF n

\* A link marks the trigger linked and both of its links present.
LEMMA LinkBalanced ==
    ASSUME NEW m, Balanced(m), NEW e \in LinkEvent
    PROVE  Balanced(applyLinkLocked(m, e))
<1> DEFINE n == applyLinkLocked(m, e)
           a == m.trig[e.tk]
           b == [a EXCEPT !.url = TRUE, !.linked = TRUE, !.answerUrl = @ \/ a.answered > 0]
<1>1. /\ DOMAIN n = Fields /\ n.agg = m.agg /\ n.votes = m.votes /\ n.verifies = m.verifies
      /\ n.trig = [m.trig EXCEPT ![e.tk] = b]
  BY DEF applyLinkLocked, Balanced, Core, Fields
<1>2. e.tk \in Triggers /\ a \in triggerAgg
  BY DEF LinkEvent, Balanced, Core
<1>3. b \in triggerAgg /\ b.url /\ (b.answered > 0 => b.answerUrl)
  BY <1>2 DEF triggerAgg
<1> HIDE DEF n, b
<1>4. n.trig \in [Triggers -> triggerAgg] /\ linkKept(n)
  BY <1>1, <1>2, <1>3 DEF Balanced, Core, linkKept
<1>5. Balanced(n)
  BY <1>1, <1>4, Frame DEF Balanced, Core
<1> QED
  BY <1>5 DEF n

\* A verification moves the live rooms and the outcome counters together.
LEMMA RoomFrame ==
    ASSUME NEW m, NEW n, Balanced(m),
           DOMAIN n = Fields, n.agg \in [Entries -> Aggregate],
           n.verifies \in Verifies, n.votes = m.votes, n.trig = m.trig,
           \A x \in Entries, r \in Ratings : n.agg[x][r] = m.agg[x][r],
           \A x \in Entries, h \in Held : n.agg[x][h] = Cardinality(RoomSet(n.verifies, h, x))
    PROVE  Balanced(n)
    BY DEF Balanced, Core, votesCounted, roomsCounted, linkKept, RoomSet, Verifies

\* Folding a verification keeps an aggregate sound.
LEMMA VerifyBalanced ==
    ASSUME NEW m, Balanced(m), NEW e \in VerifyEvent
    PROVE  Balanced(applyVerifyLocked(m, e))
<1> DEFINE prev  == m.verifies[e.room]
           new   == [entry |-> e.entry, verdict |-> e.verdict, at |-> e.at]
           given == IF prev = NoVerify THEN m.agg ELSE credit(m.agg, prev.entry, prev.verdict, -1)
           n     == applyVerifyLocked(m, e)
<1>1. /\ e.room \in Rooms /\ e.verdict \in Held
      /\ prev \in verifyState \cup {NoVerify}
      /\ m.agg \in [Entries -> Aggregate] /\ DOMAIN m = Fields
      /\ m.verifies \in Verifies
  BY DEF VerifyEvent, Balanced, Core, Verifies
<1>2. new \in verifyState /\ new.verdict = e.verdict /\ new.entry = e.entry
  BY DEF VerifyEvent, verifyState
<1>3. \A x \in Entries, h \in Held : m.agg[x][h] = Cardinality(RoomSet(m.verifies, h, x))
  BY DEF Balanced, roomsCounted, RoomSet
<1>4. CASE prev # NoVerify /\ e.at < prev.at
  BY <1>4 DEF applyVerifyLocked
<1>5. CASE ~(prev # NoVerify /\ e.at < prev.at)
  <2> DEFINE same == prev # NoVerify /\ prev.entry = e.entry /\ prev.verdict = e.verdict
  <2>1. /\ same => n = [m EXCEPT !.verifies[e.room] = new]
        /\ ~same => n = [m EXCEPT !.verifies[e.room] = new,
                                  !.agg = credit(given, e.entry, e.verdict, 1)]
    BY <1>5 DEF applyVerifyLocked
  <2> HIDE DEF n, new, given, same
  <2>2. /\ DOMAIN n = Fields /\ n.votes = m.votes /\ n.trig = m.trig
        /\ n.verifies = put(m.verifies, e.room, new)
        /\ same => n.agg = m.agg
        /\ ~same => n.agg = credit(given, e.entry, e.verdict, 1)
    <3>1. CASE same
      BY <1>1, <2>1, <3>1 DEF Fields, put
    <3>2. CASE ~same
      BY <1>1, <2>1, <3>2 DEF Fields, put
    <3> QED
      BY <3>1, <3>2
  <2> HIDE DEF prev
  <2>3. ASSUME NEW x \in Entries, NEW h \in Held
        PROVE  /\ Cardinality(RoomSet(m.verifies, h, x)) \in Nat
               /\ Cardinality(RoomSet(n.verifies, h, x)) = Cardinality(RoomSet(m.verifies, h, x))
                    - (IF prev # NoVerify /\ prev.verdict = h /\ prev.entry = x THEN 1 ELSE 0)
                    + (IF new.verdict = h /\ new.entry = x THEN 1 ELSE 0)
    <3>1. /\ e.room \in Rooms /\ new \in verifyState /\ m.verifies \in Verifies
          /\ n.verifies = put(m.verifies, e.room, new) /\ prev = m.verifies[e.room]
      BY <1>1, <1>2, <2>2 DEF prev
    <3> QED
      BY <3>1, RoomSetMove
  <2>4. n.verifies \in Verifies
    BY <1>1, <1>2, <2>2 DEF Verifies, put
  <2>5. CASE same
    <3>1. ASSUME NEW x \in Entries, NEW h \in Held
          PROVE  n.agg[x][h] = Cardinality(RoomSet(n.verifies, h, x))
      BY <1>2, <1>3, <2>2, <2>3, <2>5 DEF same
    <3>2. Balanced(n)
      BY <1>1, <2>2, <2>4, <2>5, <3>1, RoomFrame
    <3> QED
      BY <3>2 DEF n
  <2>6. CASE ~same
    <3>1. /\ given \in [Entries -> Aggregate]
          /\ \A x \in Entries, k \in Counters :
               given[x][k] = m.agg[x][k] - (IF prev # NoVerify /\ prev.entry = x /\ prev.verdict = k
                                            THEN 1 ELSE 0)
      <4>1. CASE prev = NoVerify
        BY <1>1, <4>1 DEF given, Aggregate
      <4>2. CASE prev # NoVerify
        <5>1. prev.verdict \in Counters /\ -1 \in Int
          BY <1>1, <4>2 DEF verifyState, Held, Counters
        <5>2. given = credit(m.agg, prev.entry, prev.verdict, -1)
          BY <4>2 DEF given
        <5>3. given \in [Entries -> Aggregate]
          BY <1>1, <5>1, <5>2, CreditType
        <5>4. \A x \in Entries, k \in Counters :
                given[x][k] = IF x = prev.entry /\ k = prev.verdict THEN m.agg[x][k] + -1
                              ELSE m.agg[x][k]
          BY <1>1, <5>1, <5>2, CreditValue
        <5>5. \A x \in Entries, k \in Counters : m.agg[x][k] \in Int
          BY <1>1 DEF Aggregate
        <5> QED
          BY <4>2, <5>3, <5>4, <5>5
      <4> QED
        BY <4>1, <4>2
    <3>2. /\ n.agg \in [Entries -> Aggregate]
          /\ \A x \in Entries, k \in Counters :
               n.agg[x][k] = given[x][k] + (IF e.entry = x /\ e.verdict = k THEN 1 ELSE 0)
      <4>1. e.verdict \in Counters /\ 1 \in Int
        BY <1>1 DEF Held, Counters
      <4>2. given \in [Entries -> Aggregate] /\ n.agg = credit(given, e.entry, e.verdict, 1)
        BY <2>2, <2>6, <3>1
      <4>3. n.agg \in [Entries -> Aggregate]
        BY <4>1, <4>2, CreditType
      <4>4. \A x \in Entries, k \in Counters :
              n.agg[x][k] = IF x = e.entry /\ k = e.verdict THEN given[x][k] + 1 ELSE given[x][k]
        BY <4>1, <4>2, CreditValue
      <4>5. \A x \in Entries, k \in Counters : given[x][k] \in Int
        BY <3>1 DEF Aggregate
      <4> QED
        BY <4>3, <4>4, <4>5
    <3>3. ASSUME NEW x \in Entries, NEW h \in Held
          PROVE  n.agg[x][h] = Cardinality(RoomSet(n.verifies, h, x))
      <4>1. h \in Counters
        BY DEF Held, Counters
      <4> QED
        BY <1>2, <1>3, <2>3, <3>1, <3>2, <4>1
    <3>4. ASSUME NEW x \in Entries, NEW r \in Ratings
          PROVE  n.agg[x][r] = m.agg[x][r]
      <4>1. /\ r \in Counters /\ r # e.verdict /\ (prev # NoVerify => r # prev.verdict)
            /\ m.agg[x][r] \in Int
        BY <1>1 DEF Held, Ratings, Counters, verifyState, Aggregate
      <4> QED
        BY <3>1, <3>2, <4>1
    <3>5. Balanced(n)
      BY <2>2, <2>4, <3>2, <3>3, <3>4, RoomFrame
    <3> QED
      BY <3>5 DEF n
  <2> QED
    BY <2>5, <2>6
<1> QED
  BY <1>4, <1>5

\* Folding any event keeps a sound record sound.
LEMMA FoldBalanced ==
    ASSUME NEW m, Balanced(m), NEW e \in Event
    PROVE  Balanced(foldLocked(m, e))
<1>1. CASE e \in OpenEvent
  <2> DEFINE o == applyOpenLocked([m EXCEPT !.open[e.fp] = e], e)
  <2>1. foldLocked(m, e) = applyTriggerLocked(o, e)
    BY <1>1 DEF foldLocked, OpenEvent
  <2>2. Balanced(o)
    BY <1>1, OpenBalanced
  <2> HIDE DEF o
  <2> QED
    BY <1>1, <2>1, <2>2, TriggerBalanced
<1>2. CASE e \in ResolveEvent
  <2>1. foldLocked(m, e) = [applyResolveLocked(m, e.fp, e.at) EXCEPT !.open[e.fp] = NoOpen]
    BY <1>2 DEF foldLocked, ResolveEvent
  <2>2. Balanced([applyResolveLocked(m, e.fp, e.at) EXCEPT !.open[e.fp] = NoOpen])
    BY ResolveBalanced
  <2> QED
    BY <2>1, <2>2
<1>3. CASE e \in VoteEvent
  <2>1. foldLocked(m, e) = applyFeedbackLocked(m, e)
    BY <1>3 DEF foldLocked, VoteEvent
  <2> QED
    BY <1>3, <2>1, FeedbackBalanced
<1>4. CASE e \in SilenceEvent
  <2>1. foldLocked(m, e) = applySilenceLocked(m, e)
    BY <1>4 DEF foldLocked, SilenceEvent
  <2> QED
    BY <2>1, SilenceBalanced
<1>5. CASE e \in ConfirmEvent
  <2>1. foldLocked(m, e) = applyConfirmLocked(m, e)
    BY <1>5 DEF foldLocked, ConfirmEvent
  <2> QED
    BY <2>1, ConfirmBalanced
<1>6. CASE e \in VerifyEvent
  <2>1. foldLocked(m, e) = applyVerifyLocked(m, e)
    BY <1>6 DEF foldLocked, VerifyEvent
  <2> QED
    BY <1>6, <2>1, VerifyBalanced
<1>7. CASE e \in LinkEvent
  <2>1. foldLocked(m, e) = applyLinkLocked(m, e)
    BY <1>7 DEF foldLocked, LinkEvent
  <2> QED
    BY <1>7, <2>1, LinkBalanced
<1> QED
  BY <1>1, <1>2, <1>3, <1>4, <1>5, <1>6, <1>7 DEF Event

\* Pruning the silences touches none of the aggregates.
LEMMA PruneBalanced ==
    ASSUME NEW m, Balanced(m), NEW t
    PROVE  Balanced(pruneLapsedSilencesLocked(m, t))
<1> DEFINE n == pruneLapsedSilencesLocked(m, t)
<1>1. /\ DOMAIN n = Fields /\ n.agg = m.agg /\ n.votes = m.votes /\ n.verifies = m.verifies
      /\ n.trig = m.trig
  BY DEF pruneLapsedSilencesLocked, Balanced, Core, Fields
<1> HIDE DEF n
<1>2. Balanced(n)
  BY <1>1, Frame DEF Balanced, Core, linkKept
<1> QED
  BY <1>2 DEF n

\* What a sound checkpoint seeds is sound.
LEMMA SeedBalanced ==
    ASSUME NEW m, NEW c, Balanced(c)
    PROVE  Balanced(seedCheckpointLocked(m, c))
<1> DEFINE n == seedCheckpointLocked(m, c)
<1>1. /\ DOMAIN n = Fields /\ n.agg = c.agg /\ n.votes = c.votes /\ n.verifies = c.verifies
      /\ n.trig = c.trig
  BY DEF seedCheckpointLocked, Balanced, Core, Fields
<1> HIDE DEF n
<1>2. Balanced(n)
  BY <1>1, Frame DEF Balanced, Core, linkKept
<1> QED
  BY <1>2 DEF n

\* The state before any line counts nothing.
LEMMA FreshBalanced == Balanced(Fresh)
<1>1. Core(Fresh)
  <2>1. NoTriggerAgg \in triggerAgg
    BY DEF NoTriggerAgg, triggerAgg
  <2>2. [c \in Counters |-> 0] \in Aggregate
    BY DEF Aggregate
  <2> QED
    BY <2>1, <2>2 DEF Core, Fresh, Fields
<1>2. votesCounted(Fresh)
  <2> SUFFICES ASSUME NEW e \in Entries, NEW r \in Ratings
               PROVE  Fresh.agg[e][r] = Cardinality(VoteSet(Fresh.votes, r, e))
    BY DEF votesCounted, VoteSet
  <2>1. Fresh.agg[e][r] = 0
    BY DEF Fresh, Ratings, Counters
  <2>2. VoteSet(Fresh.votes, r, e) = {}
    BY DEF Fresh, VoteSet
  <2> QED
    BY <2>1, <2>2, FS_EmptySet
<1>3. roomsCounted(Fresh)
  <2> SUFFICES ASSUME NEW e \in Entries, NEW h \in Held
               PROVE  Fresh.agg[e][h] = Cardinality(RoomSet(Fresh.verifies, h, e))
    BY DEF roomsCounted, RoomSet
  <2>1. Fresh.agg[e][h] = 0
    BY DEF Fresh, Held, Counters
  <2>2. RoomSet(Fresh.verifies, h, e) = {}
    BY DEF Fresh, RoomSet
  <2> QED
    BY <2>1, <2>2, FS_EmptySet
<1>4. linkKept(Fresh)
  BY DEF linkKept, Fresh, NoTriggerAgg
<1> QED
  BY <1>1, <1>2, <1>3, <1>4 DEF Balanced

-----------------------------------------------------------------------------
(* The buffered resolves an open may be paired with.                       *)

\* A set of numbers that is not empty has a least one.
LEMMA NatMin ==
    ASSUME NEW S, S \subseteq Nat, S # {}
    PROVE  \E x \in S : \A y \in S : x <= y
<1> DEFINE below == {1..x : x \in S}
<1>1. below \subseteq FiniteSubsetsOf(Nat) /\ below # {}
  <2>1. ASSUME NEW x \in S PROVE 1..x \in SUBSET Nat /\ IsFiniteSet(1..x)
    <3>1. 1 \in Int /\ x \in Int
      OBVIOUS
    <3> QED
      BY <3>1, FS_Interval
  <2> QED
    BY <2>1 DEF FiniteSubsetsOf
<1>2. \E u \in below : \A v \in below : <<v, u>> \notin StrictSubsetOrdering(Nat)
  <2> HIDE DEF below
  <2> QED
    BY <1>1, FS_StrictSubsetOrderingWellFounded, WFMin, Zenon
<1>3. PICK x \in S : \A v \in below : <<v, 1..x>> \notin StrictSubsetOrdering(Nat)
  BY <1>2
<1>4. ASSUME NEW y \in S PROVE x <= y
  <2>1. x \in Nat /\ y \in Nat
    OBVIOUS
  <2>2. SUFFICES ASSUME y < x PROVE FALSE
    BY <2>1
  <2>3. 1..y \subseteq 1..x /\ x \in 1..x /\ x \notin 1..y
    BY <2>1, <2>2
  <2>4. <<1..y, 1..x>> \in StrictSubsetOrdering(Nat)
    BY <2>3 DEF StrictSubsetOrdering
  <2> QED
    BY <1>3, <2>4
<1> QED
  BY <1>4

\* What holds for zero and passes from a number to the next holds up to n.
LEMMA UpTo ==
    ASSUME NEW n \in Nat, NEW good, 0 \in good, \A k \in 0..n : k \in good /\ k < n => k + 1 \in good
    PROVE  \A k \in 0..n : k \in good
<1> DEFINE bad == {k \in 0..n : k \notin good}
<1>1. SUFFICES ASSUME bad # {} PROVE FALSE
  OBVIOUS
<1>2. bad \subseteq Nat
  OBVIOUS
<1>3. PICK k \in bad : \A j \in bad : k <= j
  <2> HIDE DEF bad
  <2> QED
    BY <1>1, <1>2, NatMin
<1>4. k \in 0..n /\ k # 0 /\ k - 1 \in 0..n /\ k - 1 \notin bad
  BY <1>3
<1>5. k - 1 \in good /\ k - 1 < n
  BY <1>4
<1> QED
  BY <1>3, <1>4, <1>5

\* The resolves kept after looking at one more, and the sequences of those kept so far.
keep(s, at, e) == IF at >= e.started THEN Append(s, at) ELSE s
Keeps(f, rs, e) ==
    f = [i \in 0..Len(rs) |-> IF i = 0 THEN <<>>
                              ELSE IF rs[i] >= e.started THEN Append(f[i - 1], rs[i]) ELSE f[i - 1]]

\* The loop of resolvesSince runs to its end.
LEMMA KeepsExist ==
    ASSUME NEW rs \in Seq(Nat), NEW e
    PROVE  Keeps(CHOOSE f : Keeps(f, rs, e), rs, e)
<1> DEFINE n == Len(rs)
           Upto(g, k) == /\ g = [i \in 0..n |-> g[i]] /\ g[0] = <<>>
                         /\ \A i \in 1..k : g[i] = keep(g[i - 1], rs[i], e)
           P(k) == \E g : Upto(g, k)
           good == {k \in 0..n : P(k)}
<1>1. n \in Nat
  OBVIOUS
<1>2. P(0)
  <2> DEFINE g == [i \in 0..n |-> <<>>]
  <2>1. Upto(g, 0)
    BY <1>1
  <2> QED
    BY <2>1
<1>3. ASSUME NEW k \in 0..n, P(k), k < n PROVE P(k + 1)
  <2>1. PICK g : Upto(g, k)
    BY <1>3
  <2> DEFINE w == keep(g[k], rs[k + 1], e)
             h == [i \in 0..n |-> IF i = k + 1 THEN w ELSE g[i]]
  <2>2. k \in Nat /\ k + 1 \in 0..n /\ k \in 0..n
    BY <1>1, <1>3
  <2>3. h[k + 1] = w /\ \A i \in 0..k : h[i] = g[i]
    <3> HIDE DEF w
    <3> QED
      BY <1>1, <2>2
  <2>4. h = [i \in 0..n |-> h[i]]
    <3> HIDE DEF w
    <3> QED
      OBVIOUS
  <2> HIDE DEF h
  <2>5. ASSUME NEW i \in 1..(k + 1) PROVE h[i] = keep(h[i - 1], rs[i], e)
    <3>1. CASE i = k + 1
      BY <2>2, <2>3, <3>1
    <3>2. CASE i # k + 1
      <4>1. i \in 1..k /\ i \in 0..k /\ i - 1 \in 0..k
        BY <2>2, <3>2
      <4> QED
        BY <2>1, <2>3, <4>1
    <3> QED
      BY <3>1, <3>2
  <2>6. h[0] = <<>>
    <3>1. 0 \in 0..k
      BY <2>2
    <3> QED
      BY <2>1, <2>3, <3>1
  <2> QED
    BY <2>4, <2>5, <2>6
<1>4. \A k \in 0..n : k \in good
  <2>1. 0 \in good /\ \A k \in 0..n : k \in good /\ k < n => k + 1 \in good
    <3> HIDE DEF P
    <3>1. 0 \in 0..n /\ \A k \in 0..n : k < n => k + 1 \in 0..n
      BY <1>1
    <3> QED
      BY <1>2, <1>3, <3>1
  <2> HIDE DEF good
  <2> QED
    BY <1>1, <2>1, UpTo
<1>5. P(n)
  <2>1. n \in 0..n
    BY <1>1
  <2>2. n \in good
    <3> HIDE DEF good
    <3> QED
      BY <1>4, <2>1
  <2> HIDE DEF P
  <2> QED
    BY <2>2
<1>6. PICK g : Upto(g, n)
  BY <1>5
<1>7. ASSUME NEW i \in 0..n
      PROVE  g[i] = IF i = 0 THEN <<>>
                    ELSE IF rs[i] >= e.started THEN Append(g[i - 1], rs[i]) ELSE g[i - 1]
  <2>1. CASE i = 0
    BY <1>6, <2>1
  <2>2. CASE i # 0
    <3>1. i \in 1..n
      BY <1>1, <2>2
    <3> QED
      BY <1>6, <2>2, <3>1 DEF keep
  <2> QED
    BY <2>1, <2>2
<1>8. [i \in 0..n |-> g[i]] =
          [i \in 0..n |-> IF i = 0 THEN <<>>
                          ELSE IF rs[i] >= e.started THEN Append(g[i - 1], rs[i]) ELSE g[i - 1]]
  BY <1>7
<1> QED
  BY <1>6, <1>8 DEF Keeps

\* resolvesSince keeps resolves and adds none.
LEMMA SinceType ==
    ASSUME NEW rs \in Seq(Nat), NEW e
    PROVE  resolvesSince(rs, e) \in Seq(Nat) /\ Len(resolvesSince(rs, e)) <= Len(rs)
<1> DEFINE n == Len(rs)
           f == CHOOSE f : Keeps(f, rs, e)
           good == {k \in 0..n : f[k] \in Seq(Nat) /\ Len(f[k]) <= k}
<1>1. n \in Nat /\ \A i \in 1..n : rs[i] \in Nat
  OBVIOUS
<1>2. resolvesSince(rs, e) = f[n]
  BY DEF resolvesSince, Keeps
<1>3. Keeps(f, rs, e)
  BY KeepsExist
<1> HIDE DEF f
<1>4. f[0] = <<>> /\ \A i \in 1..n : f[i] \in {f[i - 1], Append(f[i - 1], rs[i])}
  <2>1. \A i \in 0..n : f[i] = IF i = 0 THEN <<>>
                              ELSE IF rs[i] >= e.started THEN Append(f[i - 1], rs[i]) ELSE f[i - 1]
    BY <1>3 DEF Keeps
  <2>2. 0 \in 0..n /\ \A i \in 1..n : i \in 0..n /\ i # 0
    BY <1>1
  <2> QED
    BY <2>1, <2>2
<1>5. 0 \in good
  <2>1. PICK u : u = f[0]
    OBVIOUS
  <2>2. u = <<>>
    BY <1>4, <2>1
  <2>3. u \in Seq(Nat) /\ Len(u) <= 0
    BY <2>2
  <2>4. 0 \in 0..n
    BY <1>1
  <2> QED
    BY <2>1, <2>3, <2>4
<1>6. ASSUME NEW k \in 0..n, k \in good, k < n PROVE k + 1 \in good
  <2>1. k + 1 \in 1..n /\ k \in Nat
    BY <1>1, <1>6
  <2>2. PICK s : s = f[k]
    OBVIOUS
  <2>3. s \in Seq(Nat) /\ Len(s) <= k
    BY <1>6, <2>2
  <2>4. f[k + 1] \in {s, Append(s, rs[k + 1])}
    BY <1>4, <2>1, <2>2
  <2>5. Append(s, rs[k + 1]) \in Seq(Nat) /\ Len(Append(s, rs[k + 1])) = Len(s) + 1
    BY <1>1, <2>1, <2>3
  <2>6. PICK u : u = f[k + 1]
    OBVIOUS
  <2>7. u \in Seq(Nat) /\ Len(u) <= k + 1
    <3>1. CASE u = s
      BY <2>1, <2>3, <3>1
    <3>2. CASE u = Append(s, rs[k + 1])
      BY <2>1, <2>3, <2>5, <3>2
    <3> QED
      BY <2>4, <2>6, <3>1, <3>2
  <2>8. k + 1 \in 0..n
    BY <1>1, <2>1
  <2> QED
    BY <2>6, <2>7, <2>8
<1>7. \A k \in 0..n : k \in good
  <2> HIDE DEF good
  <2> QED
    BY <1>1, <1>5, <1>6, UpTo
<1> QED
  BY <1>1, <1>2, <1>7

-----------------------------------------------------------------------------
(* Opens and resolves pair off.                                            *)

\* The indexes the pairing is about, and their types.
PairCore(m) ==
    /\ DOMAIN m = Fields
    /\ m.agg \in [Entries -> Aggregate]
    /\ m.opens \in [Fps -> Seq(pendingOpen)]
    /\ m.early \in [Fps -> Seq(Nat)]

Paired(m) ==
    /\ PairCore(m)
    /\ \A e \in Entries : IsFiniteSet(owed(m, e))
    /\ recallsSplit(m)
    /\ earlyOrOpen(m)

owing(e) == [entry |-> e, counted |-> TRUE]

\* The i-th open on the stack of f is owed to e.
isOwed(m, e, f, i) == i \in DOMAIN m.opens[f] /\ m.opens[f][i] = owing(e)

\* An unresolved open is a fingerprint and a place on its stack.
LEMMA OwedMember ==
    ASSUME NEW m, NEW e
    PROVE  \A x : x \in owed(m, e) <=> \E f \in Fps : \E i : x = <<f, i>> /\ isOwed(m, e, f, i)
<1> DEFINE on(f) == {i \in DOMAIN m.opens[f] : m.opens[f][i] = owing(e)}
<1>1. owed(m, e) = UNION {{f} \X on(f) : f \in Fps}
  BY DEF owed, owing
<1>2. \A f, x : x \in {f} \X on(f) <=> \E i \in on(f) : x = <<f, i>>
  OBVIOUS
<1>3. \A f, i : i \in on(f) <=> isOwed(m, e, f, i)
  BY DEF isOwed
<1> HIDE DEF on
<1>4. \A x : x \in owed(m, e) <=> \E f \in Fps : x \in {f} \X on(f)
  BY <1>1
<1>5. \A x : x \in owed(m, e) <=> \E f \in Fps : \E i : i \in on(f) /\ x = <<f, i>>
  BY <1>2, <1>4
<1> QED
  BY <1>3, <1>5

\* Two records whose stacks agree on what is owed to e but in one place.
LEMMA OwedElsewhere ==
    ASSUME NEW m, NEW n, NEW e, NEW fp \in Fps, NEW k,
           \A f \in Fps : \A i : f # fp \/ i # k => (isOwed(m, e, f, i) <=> isOwed(n, e, f, i))
    PROVE  /\ owed(m, e) \ {<<fp, k>>} = owed(n, e) \ {<<fp, k>>}
           /\ <<fp, k>> \in owed(m, e) <=> isOwed(m, e, fp, k)
           /\ <<fp, k>> \in owed(n, e) <=> isOwed(n, e, fp, k)
<1>1. \A f, i : <<f, i>> = <<fp, k>> <=> f = fp /\ i = k
  OBVIOUS
<1>2. ASSUME NEW x, x # <<fp, k>> PROVE x \in owed(m, e) <=> x \in owed(n, e)
  <2>1. \A f \in Fps : \A i : x = <<f, i>> => (isOwed(m, e, f, i) <=> isOwed(n, e, f, i))
    BY <1>1, <1>2
  <2>2. x \in owed(m, e) <=> \E f \in Fps : \E i : x = <<f, i>> /\ isOwed(m, e, f, i)
    BY OwedMember
  <2>3. x \in owed(n, e) <=> \E f \in Fps : \E i : x = <<f, i>> /\ isOwed(n, e, f, i)
    BY OwedMember
  <2> QED
    BY <2>1, <2>2, <2>3
<1>3. <<fp, k>> \in owed(m, e) <=> isOwed(m, e, fp, k)
  <2>1. <<fp, k>> \in owed(m, e) <=> \E f \in Fps : \E i : <<fp, k>> = <<f, i>> /\ isOwed(m, e, f, i)
    BY OwedMember
  <2> QED
    BY <1>1, <2>1
<1>4. <<fp, k>> \in owed(n, e) <=> isOwed(n, e, fp, k)
  <2>1. <<fp, k>> \in owed(n, e) <=> \E f \in Fps : \E i : <<fp, k>> = <<f, i>> /\ isOwed(n, e, f, i)
    BY OwedMember
  <2> QED
    BY <1>1, <2>1
<1> QED
  BY <1>2, <1>3, <1>4

\* Two records with the same stacks owe the same.
LEMMA OwedSame ==
    ASSUME NEW m, NEW n, NEW e, m.opens = n.opens
    PROVE  owed(m, e) = owed(n, e)
    BY DEF owed

\* What an open does to the stacks, and what a resolve does.
pushed(m, n, fp, o) == n.opens = [m.opens EXCEPT ![fp] = Append(m.opens[fp], o)]
popped(m, n, fp) ==
    /\ m.opens[fp] # <<>>
    /\ n.opens = [m.opens EXCEPT ![fp] = SubSeq(m.opens[fp], 1, Len(m.opens[fp]) - 1)]

\* An open pushed on its stack is owed to its entry, and nothing else changes.
LEMMA OwedPush ==
    ASSUME NEW m, NEW n, NEW e \in Entries, NEW fp \in Fps, NEW o \in pendingOpen,
           m.opens \in [Fps -> Seq(pendingOpen)], IsFiniteSet(owed(m, e)), pushed(m, n, fp, o)
    PROVE  /\ IsFiniteSet(owed(n, e))
           /\ Cardinality(owed(m, e)) \in Nat
           /\ Cardinality(owed(n, e)) = Cardinality(owed(m, e)) + (IF o = owing(e) THEN 1 ELSE 0)
<1>1. PICK s : s = m.opens[fp]
  OBVIOUS
<1>2. PICK k : k = Len(s) + 1
  OBVIOUS
<1>3. s \in Seq(pendingOpen) /\ Len(s) \in Nat /\ DOMAIN s = 1..Len(s)
  BY <1>1
<1>4. /\ DOMAIN Append(s, o) = 1..k
      /\ \A i \in 1..Len(s) : Append(s, o)[i] = s[i]
      /\ Append(s, o)[k] = o
  BY <1>2, <1>3
<1>5. /\ n.opens[fp] = Append(s, o)
      /\ \A f \in Fps : f # fp => n.opens[f] = m.opens[f]
  BY <1>1 DEF pushed
<1>6. k \notin 1..Len(s) /\ k \in 1..k /\ \A i : i # k => (i \in 1..k <=> i \in 1..Len(s))
  BY <1>2, <1>3
<1>7. \A f \in Fps : \A i : f # fp \/ i # k => (isOwed(m, e, f, i) <=> isOwed(n, e, f, i))
  <2>1. ASSUME NEW f \in Fps, f # fp PROVE \A i : isOwed(m, e, f, i) <=> isOwed(n, e, f, i)
    BY <1>5, <2>1 DEF isOwed
  <2>2. ASSUME NEW i, i # k PROVE isOwed(m, e, fp, i) <=> isOwed(n, e, fp, i)
    <3>1. i \in DOMAIN s <=> i \in DOMAIN Append(s, o)
      BY <1>3, <1>4, <1>6, <2>2
    <3>2. i \in DOMAIN s => Append(s, o)[i] = s[i]
      BY <1>3, <1>4
    <3> QED
      BY <1>1, <1>5, <3>1, <3>2 DEF isOwed
  <2> QED
    BY <2>1, <2>2
<1>8. ~isOwed(m, e, fp, k) /\ (isOwed(n, e, fp, k) <=> o = owing(e))
  BY <1>1, <1>3, <1>4, <1>5, <1>6 DEF isOwed
<1>9. /\ owed(m, e) \ {<<fp, k>>} = owed(n, e) \ {<<fp, k>>}
      /\ <<fp, k>> \in owed(m, e) <=> isOwed(m, e, fp, k)
      /\ <<fp, k>> \in owed(n, e) <=> isOwed(n, e, fp, k)
  BY <1>7, OwedElsewhere
<1>10. /\ IsFiniteSet(owed(n, e)) /\ Cardinality(owed(m, e)) \in Nat
       /\ Cardinality(owed(n, e)) = Cardinality(owed(m, e))
             - (IF <<fp, k>> \in owed(m, e) THEN 1 ELSE 0) + (IF <<fp, k>> \in owed(n, e) THEN 1 ELSE 0)
  <2>1. PICK A, B, x : A = owed(m, e) /\ B = owed(n, e) /\ x = <<fp, k>>
    OBVIOUS
  <2>2. IsFiniteSet(A) /\ A \ {x} = B \ {x}
    BY <1>9, <2>1
  <2>3. /\ IsFiniteSet(B) /\ Cardinality(B) \in Nat /\ Cardinality(A) \in Nat
        /\ Cardinality(B) = Cardinality(A) - (IF x \in A THEN 1 ELSE 0)
                                           + (IF x \in B THEN 1 ELSE 0)
    BY <2>2, CardinalityMove
  <2> QED
    BY <2>1, <2>3
<1> QED
  BY <1>8, <1>9, <1>10

\* An open popped off its stack is owed no more.
LEMMA OwedPop ==
    ASSUME NEW m, NEW n, NEW e \in Entries, NEW fp \in Fps,
           m.opens \in [Fps -> Seq(pendingOpen)], IsFiniteSet(owed(m, e)), popped(m, n, fp)
    PROVE  /\ IsFiniteSet(owed(n, e))
           /\ Cardinality(owed(n, e)) \in Nat
           /\ Cardinality(owed(m, e))
               = Cardinality(owed(n, e)) + (IF m.opens[fp][Len(m.opens[fp])] = owing(e) THEN 1 ELSE 0)
<1>1. PICK s : s = m.opens[fp]
  OBVIOUS
<1>2. PICK k : k = Len(s)
  OBVIOUS
<1>3. PICK u : u = SubSeq(s, 1, k - 1)
  OBVIOUS
<1>4. s \in Seq(pendingOpen) /\ k \in Nat \ {0} /\ DOMAIN s = 1..k
  BY <1>1, <1>2 DEF popped
<1>5. /\ DOMAIN u = 1..(k - 1)
      /\ \A i \in 1..(k - 1) : u[i] = s[i]
  BY <1>2, <1>3, <1>4
<1>6. /\ n.opens[fp] = u
      /\ \A f \in Fps : f # fp => n.opens[f] = m.opens[f]
  BY <1>1, <1>2, <1>3 DEF popped
<1>7. k \notin 1..(k - 1) /\ k \in 1..k /\ \A i : i # k => (i \in 1..k <=> i \in 1..(k - 1))
  BY <1>4
<1>8. \A f \in Fps : \A i : f # fp \/ i # k => (isOwed(m, e, f, i) <=> isOwed(n, e, f, i))
  BY <1>1, <1>4, <1>5, <1>6, <1>7 DEF isOwed
<1>9. ~isOwed(n, e, fp, k) /\ (isOwed(m, e, fp, k) <=> s[k] = owing(e))
  BY <1>1, <1>4, <1>5, <1>6, <1>7 DEF isOwed
<1>10. /\ owed(m, e) \ {<<fp, k>>} = owed(n, e) \ {<<fp, k>>}
       /\ <<fp, k>> \in owed(m, e) <=> isOwed(m, e, fp, k)
       /\ <<fp, k>> \in owed(n, e) <=> isOwed(n, e, fp, k)
  BY <1>8, OwedElsewhere
<1>11. /\ IsFiniteSet(owed(n, e)) /\ Cardinality(owed(m, e)) \in Nat /\ Cardinality(owed(n, e)) \in Nat
       /\ Cardinality(owed(n, e)) = Cardinality(owed(m, e))
             - (IF <<fp, k>> \in owed(m, e) THEN 1 ELSE 0) + (IF <<fp, k>> \in owed(n, e) THEN 1 ELSE 0)
  <2>1. PICK A, B, x : A = owed(m, e) /\ B = owed(n, e) /\ x = <<fp, k>>
    OBVIOUS
  <2>2. IsFiniteSet(A) /\ A \ {x} = B \ {x}
    BY <1>10, <2>1
  <2>3. /\ IsFiniteSet(B) /\ Cardinality(B) \in Nat /\ Cardinality(A) \in Nat
        /\ Cardinality(B) = Cardinality(A) - (IF x \in A THEN 1 ELSE 0)
                                           + (IF x \in B THEN 1 ELSE 0)
    BY <2>2, CardinalityMove
  <2> QED
    BY <2>1, <2>3
<1> QED
  BY <1>1, <1>2, <1>9, <1>10, <1>11

-----------------------------------------------------------------------------
(* Each fold operator keeps opens and resolves paired.                     *)

\* A step that leaves the stacks, the buffers and the recall counters alone.
LEMMA PairFrame ==
    ASSUME NEW m, NEW n, Paired(m),
           DOMAIN n = Fields, n.agg \in [Entries -> Aggregate],
           \A e \in Entries, c \in {"recalls", "resolved"} : n.agg[e][c] = m.agg[e][c],
           n.opens = m.opens, n.early = m.early
    PROVE  Paired(n)
<1>1. \A e \in Entries : owed(n, e) = owed(m, e)
  BY OwedSame
<1>2. PairCore(n) /\ earlyOrOpen(n)
  BY DEF Paired, PairCore, earlyOrOpen
<1>3. \A e \in Entries : IsFiniteSet(owed(n, e))
  BY <1>1 DEF Paired
<1>4. recallsSplit(n)
  BY <1>1 DEF Paired, recallsSplit
<1> QED
  BY <1>2, <1>3, <1>4 DEF Paired

\* Crediting another counter leaves the recall counters alone.
LEMMA CreditOther ==
    ASSUME NEW agg \in [Entries -> Aggregate], NEW en, NEW c \in Counters \ {"recalls", "resolved"},
           NEW d \in Int
    PROVE  /\ credit(agg, en, c, d) \in [Entries -> Aggregate]
           /\ \A x \in Entries, k \in {"recalls", "resolved"} : credit(agg, en, c, d)[x][k] = agg[x][k]
<1>1. c \in Counters /\ {"recalls", "resolved"} \subseteq Counters
  BY DEF Counters
<1>2. credit(agg, en, c, d) \in [Entries -> Aggregate]
  BY <1>1, CreditType
<1>3. \A x \in Entries, k \in Counters :
          credit(agg, en, c, d)[x][k] = IF x = en /\ k = c THEN agg[x][k] + d ELSE agg[x][k]
  BY <1>1, CreditValue
<1> QED
  BY <1>1, <1>2, <1>3

\* A credit of a recall counter moves that one.
LEMMA CreditRecall ==
    ASSUME NEW agg \in [Entries -> Aggregate], NEW en, NEW c \in {"recalls", "resolved"}
    PROVE  /\ credit(agg, en, c, 1) \in [Entries -> Aggregate]
           /\ \A x \in Entries, k \in {"recalls", "resolved"} :
                 credit(agg, en, c, 1)[x][k] = IF x = en /\ k = c THEN agg[x][k] + 1 ELSE agg[x][k]
<1>1. c \in Counters /\ {"recalls", "resolved"} \subseteq Counters /\ 1 \in Int
  BY DEF Counters
<1>2. credit(agg, en, c, 1) \in [Entries -> Aggregate]
  BY <1>1, CreditType
<1>3. \A x \in Entries, k \in Counters :
          credit(agg, en, c, 1)[x][k] = IF x = en /\ k = c THEN agg[x][k] + 1 ELSE agg[x][k]
  BY <1>1, FoldConstants DEF credit, Aggregate
<1> QED
  BY <1>1, <1>2, <1>3

\* An open is paired with a resolve that came early, or owed one.
LEMMA OpenPaired ==
    ASSUME NEW m, Paired(m), NEW e \in OpenEvent
    PROVE  Paired(applyOpenLocked(m, e))
<1>1. PICK fp, en, rs, kept, o :
         /\ fp = e.fp /\ en = e.entry /\ rs = m.early[fp] /\ kept = resolvesSince(rs, e)
         /\ o = [entry |-> en, counted |-> counted(e)]
  OBVIOUS
<1>2. PICK n : n = applyOpenLocked(m, e)
  OBVIOUS
<1>3. PICK a : a = IF counted(e) THEN credit(m.agg, en, "recalls", 1) ELSE m.agg
  OBVIOUS
<1>4. PICK b : b = IF counted(e) THEN credit(a, en, "resolved", 1) ELSE a
  OBVIOUS
<1>5. fp \in Fps /\ en \in Entries \cup {NoEntry} /\ counted(e) \in BOOLEAN /\ o \in pendingOpen
  BY <1>1 DEF OpenEvent, counted, pendingOpen
<1>6. /\ rs \in Seq(Nat) /\ kept \in Seq(Nat) /\ Len(kept) <= Len(rs)
      /\ Len(rs) <= MaxEarly
  <2>1. rs \in Seq(Nat) /\ Len(rs) <= MaxEarly
    BY <1>1, <1>5 DEF Paired, PairCore, earlyOrOpen
  <2> QED
    BY <1>1, <2>1, SinceType
<1>7. /\ m.agg \in [Entries -> Aggregate] /\ m.opens \in [Fps -> Seq(pendingOpen)]
      /\ m.early \in [Fps -> Seq(Nat)] /\ DOMAIN m = Fields
      /\ \A x \in Entries : IsFiniteSet(owed(m, x)) /\ Cardinality(owed(m, x)) \in Nat
  BY FS_CardinalityType DEF Paired, PairCore
<1>8. /\ a \in [Entries -> Aggregate]
      /\ \A x \in Entries : /\ a[x]["resolved"] = m.agg[x]["resolved"]
                            /\ a[x]["recalls"] = IF counted(e) /\ x = en THEN m.agg[x]["recalls"] + 1
                                                 ELSE m.agg[x]["recalls"]
  BY <1>3, <1>7, CreditRecall
<1>9. /\ b \in [Entries -> Aggregate]
      /\ \A x \in Entries : /\ b[x]["recalls"] = a[x]["recalls"]
                            /\ b[x]["resolved"] = IF counted(e) /\ x = en THEN a[x]["resolved"] + 1
                                                  ELSE a[x]["resolved"]
  BY <1>4, <1>8, CreditRecall
<1>10. \A x \in Entries : m.agg[x]["recalls"] \in Int /\ m.agg[x]["resolved"] \in Int
  BY <1>7 DEF Aggregate, Counters
<1>11. CASE kept # <<>>
  <2>1. /\ DOMAIN n = Fields /\ n.agg = b /\ n.opens = m.opens
        /\ n.early = [m.early EXCEPT ![fp] = Tail(kept)]
    BY <1>1, <1>2, <1>3, <1>4, <1>7, <1>11 DEF applyOpenLocked, Fields
  <2>2. Tail(kept) \in Seq(Nat) /\ Len(Tail(kept)) <= MaxEarly
    BY <1>6, <1>11, FoldConstants
  <2>3. PairCore(n)
    BY <1>7, <1>9, <2>1, <2>2 DEF PairCore
  <2>4. rs # <<>> /\ m.opens[fp] = <<>>
    BY <1>1, <1>5, <1>6, <1>11 DEF Paired, earlyOrOpen
  <2>5. earlyOrOpen(n)
    BY <1>5, <1>7, <2>1, <2>2, <2>4 DEF Paired, earlyOrOpen
  <2>6. \A x \in Entries : owed(n, x) = owed(m, x)
    BY <2>1, OwedSame
  <2>7. ASSUME NEW x \in Entries
        PROVE  n.agg[x]["recalls"] = n.agg[x]["resolved"] + Cardinality(owed(n, x))
    <3>1. PICK i, j, k : /\ i = m.agg[x]["recalls"] /\ j = m.agg[x]["resolved"]
                         /\ k = Cardinality(owed(m, x))
      OBVIOUS
    <3>2. i \in Int /\ j \in Int /\ k \in Nat
      BY <1>7, <1>10, <3>1
    <3>3. \/ n.agg[x]["recalls"] = i + 1 /\ n.agg[x]["resolved"] = j + 1
          \/ n.agg[x]["recalls"] = i /\ n.agg[x]["resolved"] = j
      BY <1>8, <1>9, <2>1, <3>1
    <3>4. Cardinality(owed(n, x)) = k
      BY <2>6, <3>1
    <3>5. i = j + k
      BY <3>1 DEF Paired, recallsSplit
    <3>6. PICK p, q, r : /\ p = n.agg[x]["recalls"] /\ q = n.agg[x]["resolved"]
                         /\ r = Cardinality(owed(n, x))
      OBVIOUS
    <3>7. p = q + r
      BY <3>2, <3>3, <3>4, <3>5, <3>6
    <3> QED
      BY <3>6, <3>7
  <2> QED
    BY <1>2, <1>7, <2>3, <2>5, <2>6, <2>7 DEF Paired, recallsSplit
<1>12. CASE kept = <<>>
  <2>1. /\ DOMAIN n = Fields /\ n.agg = a /\ n.opens = [m.opens EXCEPT ![fp] = Append(m.opens[fp], o)]
        /\ n.early = [m.early EXCEPT ![fp] = <<>>]
    BY <1>1, <1>2, <1>3, <1>7, <1>12 DEF applyOpenLocked, Fields
  <2>2. Append(m.opens[fp], o) \in Seq(pendingOpen) /\ <<>> \in Seq(Nat) /\ Len(<<>>) = 0
    BY <1>5, <1>7
  <2>3. PairCore(n)
    BY <1>7, <1>8, <2>1, <2>2 DEF PairCore
  <2>4. earlyOrOpen(n)
    BY <1>5, <1>7, <2>1, <2>2, FoldConstants DEF Paired, earlyOrOpen
  <2>5. ASSUME NEW x \in Entries
        PROVE  /\ IsFiniteSet(owed(n, x)) /\ Cardinality(owed(n, x)) \in Nat
               /\ Cardinality(owed(n, x)) = Cardinality(owed(m, x)) + (IF o = owing(x) THEN 1 ELSE 0)
    <3>1. /\ IsFiniteSet(owed(n, x))
          /\ Cardinality(owed(n, x)) = Cardinality(owed(m, x)) + (IF o = owing(x) THEN 1 ELSE 0)
      <4>1. pushed(m, n, fp, o)
        BY <2>1 DEF pushed
      <4> QED
        BY <1>5, <1>7, <4>1, OwedPush
    <3> QED
      BY <3>1, FS_CardinalityType
  <2>6. \A x \in Entries : o = owing(x) <=> counted(e) /\ x = en
    BY <1>1, <1>5 DEF owing
  <2>7. ASSUME NEW x \in Entries
        PROVE  n.agg[x]["recalls"] = n.agg[x]["resolved"] + Cardinality(owed(n, x))
    <3>1. PICK i, j, k : /\ i = m.agg[x]["recalls"] /\ j = m.agg[x]["resolved"]
                         /\ k = Cardinality(owed(m, x))
      OBVIOUS
    <3>2. i \in Int /\ j \in Int /\ k \in Nat
      BY <1>7, <1>10, <3>1
    <3>3. /\ n.agg[x]["resolved"] = j
          /\ n.agg[x]["recalls"] = IF counted(e) /\ x = en THEN i + 1 ELSE i
      BY <1>8, <2>1, <3>1
    <3>4. Cardinality(owed(n, x)) = IF counted(e) /\ x = en THEN k + 1 ELSE k
      BY <2>5, <2>6, <3>1, <3>2
    <3>5. i = j + k
      BY <3>1 DEF Paired, recallsSplit
    <3>6. PICK p, q, r : /\ p = n.agg[x]["recalls"] /\ q = n.agg[x]["resolved"]
                         /\ r = Cardinality(owed(n, x))
      OBVIOUS
    <3>7. p = q + r
      BY <3>2, <3>3, <3>4, <3>5, <3>6
    <3> QED
      BY <3>6, <3>7
  <2> QED
    BY <1>2, <2>3, <2>4, <2>5, <2>7 DEF Paired, recallsSplit
<1> QED
  BY <1>11, <1>12

\* A resolve answers the newest open it is owed to, or is buffered where none waits.
LEMMA ResolvePaired ==
    ASSUME NEW m, Paired(m), NEW fp \in Fps, NEW at \in Nat
    PROVE  Paired([applyResolveLocked(m, fp, at) EXCEPT !.open[fp] = NoOpen])
<1>1. PICK n : n = [applyResolveLocked(m, fp, at) EXCEPT !.open[fp] = NoOpen]
  OBVIOUS
<1>2. PICK stack, rs, top : stack = m.opens[fp] /\ rs = m.early[fp] /\ top = stack[Len(stack)]
  OBVIOUS
<1>3. /\ m.agg \in [Entries -> Aggregate] /\ m.opens \in [Fps -> Seq(pendingOpen)]
      /\ m.early \in [Fps -> Seq(Nat)] /\ DOMAIN m = Fields
      /\ \A x \in Entries : IsFiniteSet(owed(m, x)) /\ Cardinality(owed(m, x)) \in Nat
  BY FS_CardinalityType DEF Paired, PairCore
<1>4. stack \in Seq(pendingOpen) /\ rs \in Seq(Nat) /\ Len(rs) <= MaxEarly
  BY <1>2, <1>3 DEF Paired, earlyOrOpen
<1>5. CASE stack = <<>>
  <2>1. PICK kept : kept = Append(IF Len(rs) >= MaxEarly THEN Tail(rs) ELSE rs, at)
    OBVIOUS
  <2>2. /\ DOMAIN n = Fields /\ n.agg = m.agg /\ n.opens = m.opens
        /\ n.early = [m.early EXCEPT ![fp] = kept]
    BY <1>1, <1>2, <1>3, <1>5, <2>1 DEF applyResolveLocked, Fields
  <2>3. kept \in Seq(Nat) /\ Len(kept) <= MaxEarly
    <3>1. MaxEarly \in Nat \ {0}
      BY FoldConstants
    <3>2. CASE Len(rs) >= MaxEarly
      <4>1. PICK u : u = Tail(rs)
        OBVIOUS
      <4>2. u \in Seq(Nat) /\ Len(u) = Len(rs) - 1
        BY <1>4, <3>1, <3>2, <4>1
      <4>3. kept = Append(u, at)
        BY <2>1, <3>2, <4>1
      <4> QED
        BY <1>4, <3>1, <4>2, <4>3
    <3>3. CASE ~(Len(rs) >= MaxEarly)
      <4>1. kept = Append(rs, at) /\ Len(rs) \in Nat
        BY <1>4, <2>1, <3>3
      <4> QED
        BY <1>4, <3>1, <3>3, <4>1
    <3> QED
      BY <3>2, <3>3
  <2>4. \A x \in Entries : owed(n, x) = owed(m, x)
    BY <2>2, OwedSame
  <2>5. PairCore(n) /\ earlyOrOpen(n)
    BY <1>2, <1>3, <1>5, <2>2, <2>3 DEF PairCore, Paired, earlyOrOpen
  <2>6. recallsSplit(n) /\ \A x \in Entries : IsFiniteSet(owed(n, x))
    BY <1>3, <2>2, <2>4 DEF Paired, recallsSplit
  <2> QED
    BY <1>1, <2>5, <2>6 DEF Paired
<1>6. CASE stack # <<>>
  <2>1. /\ DOMAIN n = Fields /\ n.early = m.early
        /\ n.opens = [m.opens EXCEPT ![fp] = SubSeq(stack, 1, Len(stack) - 1)]
        /\ n.agg = IF top.counted THEN credit(m.agg, top.entry, "resolved", 1) ELSE m.agg
    BY <1>1, <1>2, <1>3, <1>6 DEF applyResolveLocked, Fields
  <2>2. Len(stack) \in Nat \ {0} /\ top \in pendingOpen /\ SubSeq(stack, 1, Len(stack) - 1) \in Seq(pendingOpen)
    BY <1>2, <1>4, <1>6
  <2>3. /\ n.agg \in [Entries -> Aggregate]
        /\ \A x \in Entries : /\ n.agg[x]["recalls"] = m.agg[x]["recalls"]
                              /\ n.agg[x]["resolved"] = IF top.counted /\ x = top.entry
                                                        THEN m.agg[x]["resolved"] + 1
                                                        ELSE m.agg[x]["resolved"]
    <3>1. PICK en, b : en = top.entry /\ b = credit(m.agg, en, "resolved", 1)
      OBVIOUS
    <3>2. /\ b \in [Entries -> Aggregate]
          /\ \A x \in Entries : /\ b[x]["recalls"] = m.agg[x]["recalls"]
                                /\ b[x]["resolved"] = IF x = en THEN m.agg[x]["resolved"] + 1
                                                      ELSE m.agg[x]["resolved"]
      <4>1. PICK g, c : g = m.agg /\ c = "resolved"
        OBVIOUS
      <4>2. g \in [Entries -> Aggregate] /\ c \in {"recalls", "resolved"} /\ b = credit(g, en, c, 1)
        BY <1>3, <3>1, <4>1
      <4>3. /\ b \in [Entries -> Aggregate]
            /\ \A x \in Entries, k \in {"recalls", "resolved"} :
                  b[x][k] = IF x = en /\ k = c THEN g[x][k] + 1 ELSE g[x][k]
        BY <4>2, CreditRecall
      <4> QED
        BY <4>1, <4>3
    <3>3. n.agg = IF top.counted THEN b ELSE m.agg
      BY <2>1, <3>1
    <3>4. CASE top.counted
      BY <3>1, <3>2, <3>3, <3>4
    <3>5. CASE ~top.counted
      BY <1>3, <3>3, <3>5
    <3> QED
      BY <3>4, <3>5
  <2>4. PairCore(n)
    BY <1>3, <2>1, <2>2, <2>3 DEF PairCore
  <2>5. earlyOrOpen(n)
    BY <1>2, <1>3, <1>6, <2>1 DEF Paired, earlyOrOpen
  <2>6. popped(m, n, fp)
    BY <1>2, <1>6, <2>1 DEF popped
  <2>7. ASSUME NEW x \in Entries
        PROVE  /\ IsFiniteSet(owed(n, x)) /\ Cardinality(owed(n, x)) \in Nat
               /\ Cardinality(owed(m, x)) = Cardinality(owed(n, x)) + (IF top = owing(x) THEN 1 ELSE 0)
    BY <1>2, <1>3, <2>6, OwedPop
  <2>8. \A x \in Entries : top = owing(x) <=> top.counted /\ x = top.entry
    BY <2>2 DEF owing, pendingOpen
  <2>9. ASSUME NEW x \in Entries
        PROVE  n.agg[x]["recalls"] = n.agg[x]["resolved"] + Cardinality(owed(n, x))
    <3>1. PICK i, j, k : /\ i = m.agg[x]["recalls"] /\ j = m.agg[x]["resolved"]
                         /\ k = Cardinality(owed(n, x))
      OBVIOUS
    <3>2. i \in Int /\ j \in Int /\ k \in Nat
      BY <1>3, <2>7, <3>1 DEF Aggregate, Counters
    <3>3. i = j + Cardinality(owed(m, x))
      BY <3>1 DEF Paired, recallsSplit
    <3>4. Cardinality(owed(m, x)) = IF top.counted /\ x = top.entry THEN k + 1 ELSE k
      BY <2>7, <2>8, <3>1, <3>2
    <3>5. PICK p, q : p = n.agg[x]["recalls"] /\ q = n.agg[x]["resolved"]
      OBVIOUS
    <3>6. p = i /\ q = IF top.counted /\ x = top.entry THEN j + 1 ELSE j
      BY <2>3, <3>1, <3>5
    <3>7. p = q + k
      BY <3>2, <3>3, <3>4, <3>6
    <3> QED
      BY <3>1, <3>5, <3>7
  <2> QED
    BY <1>1, <2>4, <2>5, <2>7, <2>9 DEF Paired, recallsSplit
<1> QED
  BY <1>5, <1>6

\* An event of another kind moves another counter, one way or both ways, or none.
LEMMA OtherPaired ==
    ASSUME NEW m, Paired(m), NEW n, DOMAIN n = Fields, n.opens = m.opens, n.early = m.early,
           NEW a, NEW x, NEW c \in Counters \ {"recalls", "resolved"},
           NEW y, NEW d \in Counters \ {"recalls", "resolved"},
           a \in {m.agg, credit(m.agg, x, c, -1)},
           n.agg \in {a, credit(a, y, d, 1)}
    PROVE  Paired(n)
<1>1. m.agg \in [Entries -> Aggregate] /\ 1 \in Int /\ -1 \in Int
  BY DEF Paired, PairCore
<1>2. /\ a \in [Entries -> Aggregate]
      /\ \A e \in Entries, k \in {"recalls", "resolved"} : a[e][k] = m.agg[e][k]
  <2>1. PICK b, j : j \in Int /\ j = -1 /\ b = credit(m.agg, x, c, j)
    BY <1>1
  <2>2. /\ b \in [Entries -> Aggregate]
        /\ \A e \in Entries, k \in {"recalls", "resolved"} : b[e][k] = m.agg[e][k]
    BY <1>1, <2>1, CreditOther
  <2>3. a \in {m.agg, b}
    BY <2>1
  <2> QED
    BY <1>1, <2>2, <2>3
<1>3. /\ n.agg \in [Entries -> Aggregate]
      /\ \A e \in Entries, k \in {"recalls", "resolved"} : n.agg[e][k] = m.agg[e][k]
  <2>1. PICK b, j : j \in Int /\ j = 1 /\ b = credit(a, y, d, j)
    BY <1>1
  <2>2. /\ b \in [Entries -> Aggregate]
        /\ \A e \in Entries, k \in {"recalls", "resolved"} : b[e][k] = a[e][k]
    <3>1. a \in [Entries -> Aggregate] /\ j \in Int /\ b = credit(a, y, d, j)
      BY <1>2, <2>1
    <3>2. credit(a, y, d, j) \in [Entries -> Aggregate]
      BY <3>1, CreditOther
    <3>3. \A e \in Entries, k \in {"recalls", "resolved"} : credit(a, y, d, j)[e][k] = a[e][k]
      BY <3>1, CreditOther
    <3> QED
      BY <3>1, <3>2, <3>3
  <2>3. n.agg \in {a, b}
    BY <2>1
  <2> QED
    BY <1>2, <2>2, <2>3
<1> QED
  BY <1>3, PairFrame

\* Folding any event keeps opens and resolves paired.
LEMMA FoldPaired ==
    ASSUME NEW m, Paired(m), Balanced(m), NEW e \in Event
    PROVE  Paired(foldLocked(m, e))
<1>1. PICK n : n = foldLocked(m, e)
  OBVIOUS
<1>2. DOMAIN m = Fields
  BY DEF Paired, PairCore
<1>3. CASE e \in OpenEvent
  <2>1. PICK m1 : m1 = [m EXCEPT !.open[e.fp] = e]
    OBVIOUS
  <2>2. Paired(m1)
    <3>1. DOMAIN m1 = Fields /\ m1.agg = m.agg /\ m1.opens = m.opens /\ m1.early = m.early
      BY <1>2, <2>1 DEF Fields
    <3> QED
      BY <3>1, PairFrame DEF Paired, PairCore
  <2>3. PICK m2 : m2 = applyOpenLocked(m1, e)
    OBVIOUS
  <2>4. Paired(m2)
    BY <1>3, <2>2, <2>3, OpenPaired
  <2>5. n = applyTriggerLocked(m2, e)
    BY <1>1, <1>3, <2>1, <2>3 DEF foldLocked, OpenEvent
  <2>6. DOMAIN n = Fields /\ n.agg = m2.agg /\ n.opens = m2.opens /\ n.early = m2.early
    BY <2>4, <2>5 DEF applyTriggerLocked, Fields, Paired, PairCore
  <2>7. Paired(n)
    BY <2>4, <2>6, PairFrame DEF Paired, PairCore
  <2> QED
    BY <1>1, <2>7
<1>4. CASE e \in ResolveEvent
  <2>1. n = [applyResolveLocked(m, e.fp, e.at) EXCEPT !.open[e.fp] = NoOpen]
    BY <1>1, <1>4 DEF foldLocked, ResolveEvent
  <2>2. e.fp \in Fps /\ e.at \in Nat
    BY <1>4 DEF ResolveEvent, Time
  <2> QED
    BY <1>1, <2>1, <2>2, ResolvePaired
<1>5. CASE e \in VoteEvent
  <2>1. PICK prev, entry : prev = m.votes[<<e.tk, e.user>>] /\ entry = m.trig[e.tk].entry
    OBVIOUS
  <2>2. n = applyFeedbackLocked(m, e)
    BY <1>1, <1>5 DEF foldLocked, VoteEvent
  <2>3. PICK a : a = IF prev = NoVote THEN m.agg ELSE credit(m.agg, prev.entry, prev.rating, -1)
    OBVIOUS
  <2>4. /\ DOMAIN n = Fields /\ n.opens = m.opens /\ n.early = m.early
        /\ n.agg \in {m.agg, credit(a, entry, e.rating, 1)}
    BY <1>2, <2>1, <2>2, <2>3 DEF applyFeedbackLocked, Fields
  <2>5. Ratings \subseteq Counters \ {"recalls", "resolved"}
    BY DEF Ratings, Counters
  <2>6. e.rating \in Ratings /\ (prev # NoVote => prev.rating \in Ratings)
    BY <1>5, <2>1 DEF VoteEvent, Balanced, Core, feedbackVote
  <2>7. PICK r : r \in Ratings /\ (prev # NoVote => r = prev.rating)
    BY <2>6
  <2>8. a \in {m.agg, credit(m.agg, prev.entry, r, -1)}
    BY <2>3, <2>7
  <2>9. n.agg \in {a, credit(a, entry, e.rating, 1)} \/ n.agg = m.agg
    BY <2>4
  <2>10. CASE n.agg = m.agg
    BY <1>1, <2>4, <2>10, PairFrame DEF Paired, PairCore
  <2>11. CASE n.agg \in {a, credit(a, entry, e.rating, 1)}
    <3>1. r \in Counters \ {"recalls", "resolved"} /\ e.rating \in Counters \ {"recalls", "resolved"}
      BY <2>5, <2>6, <2>7
    <3>2. Paired(n)
      BY <2>4, <2>8, <2>11, <3>1, OtherPaired
    <3> QED
      BY <1>1, <3>2
  <2> QED
    BY <2>9, <2>10, <2>11
<1>6. CASE e \in SilenceEvent
  <2>1. n = applySilenceLocked(m, e)
    BY <1>1, <1>6 DEF foldLocked, SilenceEvent
  <2>2. DOMAIN n = Fields /\ n.agg = m.agg /\ n.opens = m.opens /\ n.early = m.early
    BY <1>2, <2>1 DEF applySilenceLocked, Fields
  <2> QED
    BY <1>1, <2>2, PairFrame DEF Paired, PairCore
<1>7. CASE e \in ConfirmEvent
  <2>1. n = applyConfirmLocked(m, e)
    BY <1>1, <1>7 DEF foldLocked, ConfirmEvent
  <2>2. /\ DOMAIN n = Fields /\ n.opens = m.opens /\ n.early = m.early
        /\ n.agg = credit(m.agg, e.entry, "confirms", 1)
    BY <1>2, <2>1 DEF applyConfirmLocked, Fields
  <2>3. "confirms" \in Counters \ {"recalls", "resolved"}
    BY DEF Counters
  <2>4. PICK a, y, d : a = m.agg /\ y = e.entry /\ d = "confirms"
    OBVIOUS
  <2>5. Paired(n)
    BY <2>2, <2>3, <2>4, OtherPaired
  <2> QED
    BY <1>1, <2>5
<1>8. CASE e \in VerifyEvent
  <2>1. PICK prev : prev = m.verifies[e.room]
    OBVIOUS
  <2>2. n = applyVerifyLocked(m, e)
    BY <1>1, <1>8 DEF foldLocked, VerifyEvent
  <2>3. PICK a : a = IF prev = NoVerify THEN m.agg ELSE credit(m.agg, prev.entry, prev.verdict, -1)
    OBVIOUS
  <2>4. /\ DOMAIN n = Fields /\ n.opens = m.opens /\ n.early = m.early
        /\ n.agg = m.agg \/ n.agg = credit(a, e.entry, e.verdict, 1)
    BY <1>2, <2>1, <2>2, <2>3 DEF applyVerifyLocked, Fields
  <2>5. Held \subseteq Counters \ {"recalls", "resolved"}
    BY DEF Held, Counters
  <2>6. e.verdict \in Held /\ (prev # NoVerify => prev.verdict \in Held)
    BY <1>8, <2>1 DEF VerifyEvent, Balanced, Core, verifyState
  <2>7. PICK h : h \in Held /\ (prev # NoVerify => h = prev.verdict)
    BY <2>6
  <2>8. a \in {m.agg, credit(m.agg, prev.entry, h, -1)}
    BY <2>3, <2>7
  <2>9. CASE n.agg = m.agg
    BY <1>1, <2>4, <2>9, PairFrame DEF Paired, PairCore
  <2>10. CASE n.agg = credit(a, e.entry, e.verdict, 1)
    <3>1. h \in Counters \ {"recalls", "resolved"} /\ e.verdict \in Counters \ {"recalls", "resolved"}
      BY <2>5, <2>6, <2>7
    <3>2. Paired(n)
      BY <2>4, <2>8, <2>10, <3>1, OtherPaired
    <3> QED
      BY <1>1, <3>2
  <2> QED
    BY <2>4, <2>9, <2>10
<1>9. CASE e \in LinkEvent
  <2>1. n = applyLinkLocked(m, e)
    BY <1>1, <1>9 DEF foldLocked, LinkEvent
  <2>2. DOMAIN n = Fields /\ n.agg = m.agg /\ n.opens = m.opens /\ n.early = m.early
    BY <1>2, <2>1 DEF applyLinkLocked, Fields
  <2> QED
    BY <1>1, <2>2, PairFrame DEF Paired, PairCore
<1> QED
  BY <1>3, <1>4, <1>5, <1>6, <1>7, <1>8, <1>9 DEF Event

\* Pruning the silences leaves the pairing alone.
LEMMA PrunePaired ==
    ASSUME NEW m, Paired(m), NEW t
    PROVE  Paired(pruneLapsedSilencesLocked(m, t))
<1>1. PICK n : n = pruneLapsedSilencesLocked(m, t)
  OBVIOUS
<1>2. DOMAIN n = Fields /\ n.agg = m.agg /\ n.opens = m.opens /\ n.early = m.early
  BY <1>1 DEF pruneLapsedSilencesLocked, Paired, PairCore, Fields
<1> QED
  BY <1>1, <1>2, PairFrame DEF Paired, PairCore

\* A checkpoint seeds the pairing it carries.
LEMMA SeedPaired ==
    ASSUME NEW m, NEW c, Paired(c)
    PROVE  Paired(seedCheckpointLocked(m, c))
<1>1. PICK n : n = seedCheckpointLocked(m, c)
  OBVIOUS
<1>2. DOMAIN n = Fields /\ n.agg = c.agg /\ n.opens = c.opens /\ n.early = c.early
  BY <1>1 DEF seedCheckpointLocked, Paired, PairCore, Fields
<1> QED
  BY <1>1, <1>2, PairFrame DEF Paired, PairCore

\* The state before any line owes nothing.
LEMMA FreshPaired == Paired(Fresh)
<1>1. PairCore(Fresh)
  <2>1. [c \in Counters |-> 0] \in Aggregate
    BY DEF Aggregate
  <2> QED
    BY <2>1 DEF PairCore, Fresh, Fields
<1>2. \A e \in Entries : owed(Fresh, e) = {}
  <2> SUFFICES ASSUME NEW e \in Entries, NEW x \in owed(Fresh, e) PROVE FALSE
    OBVIOUS
  <2>1. PICK f \in Fps : \E i : x = <<f, i>> /\ isOwed(Fresh, e, f, i)
    BY OwedMember
  <2> QED
    BY <2>1 DEF isOwed, Fresh
<1>3. \A e \in Entries : IsFiniteSet(owed(Fresh, e)) /\ Cardinality(owed(Fresh, e)) = 0
  BY <1>2, FS_EmptySet
<1>4. \A e \in Entries : Fresh.agg[e]["recalls"] = 0 /\ Fresh.agg[e]["resolved"] = 0
  BY DEF Fresh, Counters
<1>5. recallsSplit(Fresh)
  BY <1>3, <1>4 DEF recallsSplit
<1>6. earlyOrOpen(Fresh)
  <2>1. Len(<<>>) = 0 /\ \A f \in Fps : Fresh.opens[f] = <<>> /\ Fresh.early[f] = <<>>
    BY DEF Fresh
  <2> QED
    BY <2>1, FoldConstants DEF earlyOrOpen
<1> QED
  BY <1>1, <1>3, <1>5, <1>6 DEF Paired

-----------------------------------------------------------------------------
(* The standing silences and the counters.                                 *)

\* The indexes as one record, the standing silences and the counters of what was seen.
Whole(m) == m = [x \in Fields |-> m[x]]

Timed(m) ==
    /\ Whole(m)
    /\ m.silences \in [Triggers -> silenceState \cup {NoSilence}]
    /\ m.seen \in Int /\ m.dropped \in Int /\ m.stale \in Int

\* An open reads no silence and counts the buffered resolves that came too early.
LEMMA OpenTimed ==
    ASSUME NEW m, Paired(m), Timed(m), NEW e \in OpenEvent
    PROVE  Timed(applyOpenLocked(m, e))
<1>1. PICK n : n = applyOpenLocked(m, e)
  OBVIOUS
<1>2. PICK i, j : i = Len(m.early[e.fp]) /\ j = Len(resolvesSince(m.early[e.fp], e))
  OBVIOUS
<1>3. i \in Nat /\ j \in Nat
  <2>1. m.early[e.fp] \in Seq(Nat)
    BY DEF OpenEvent, Paired, PairCore
  <2> QED
    BY <1>2, <2>1, SinceType
<1>4. /\ Whole(n) /\ n.silences = m.silences /\ n.seen = m.seen /\ n.dropped = m.dropped
      /\ n.stale \in {m.stale + i - j, m.stale + i}
  BY <1>1, <1>2 DEF applyOpenLocked, Timed, Whole, Fields
<1>5. n.stale \in Int
  BY <1>3, <1>4 DEF Timed
<1> QED
  BY <1>1, <1>4, <1>5 DEF Timed

\* Folding any event keeps the silences and the counters well-typed.
LEMMA FoldTimed ==
    ASSUME NEW m, Paired(m), Timed(m), NEW e \in Event
    PROVE  Timed(foldLocked(m, e))
<1>1. PICK n : n = foldLocked(m, e)
  OBVIOUS
<1>2. CASE e \in OpenEvent
  <2>1. PICK m1 : m1 = [m EXCEPT !.open[e.fp] = e]
    OBVIOUS
  <2>2. Paired(m1) /\ Timed(m1)
    <3>1. /\ DOMAIN m1 = Fields /\ m1.agg = m.agg /\ m1.opens = m.opens /\ m1.early = m.early
          /\ Timed(m1)
      BY <2>1 DEF Fields, Timed, Whole
    <3> QED
      BY <3>1, PairFrame DEF Paired, PairCore
  <2>3. PICK m2 : m2 = applyOpenLocked(m1, e)
    OBVIOUS
  <2>4. Timed(m2)
    BY <1>2, <2>2, <2>3, OpenTimed
  <2>5. n = applyTriggerLocked(m2, e)
    BY <1>1, <1>2, <2>1, <2>3 DEF foldLocked, OpenEvent
  <2>6. /\ Whole(n) /\ n.silences = m2.silences /\ n.seen = m2.seen /\ n.dropped = m2.dropped
        /\ n.stale = m2.stale
    BY ZenonT(60), <2>4, <2>5 DEF applyTriggerLocked, Fields, Timed, Whole
  <2> QED
    BY <1>1, <2>4, <2>6 DEF Timed
<1>3. CASE e \in ResolveEvent
  <2>1. n = [applyResolveLocked(m, e.fp, e.at) EXCEPT !.open[e.fp] = NoOpen]
    BY <1>1, <1>3 DEF foldLocked, ResolveEvent
  <2>2. /\ Whole(n) /\ n.silences = unsilenced(m, e.fp) /\ n.seen = m.seen + 1
        /\ n.dropped \in {m.dropped, m.dropped + 1} /\ n.stale = m.stale
    BY ZenonT(60), <2>1 DEF applyResolveLocked, Fields, Timed, Whole
  <2>3. unsilenced(m, e.fp) \in [Triggers -> silenceState \cup {NoSilence}]
    BY DEF unsilenced, Timed
  <2> QED
    BY <1>1, <2>2, <2>3 DEF Timed
<1>4. CASE e \in VoteEvent
  <2>1. n = applyFeedbackLocked(m, e)
    BY <1>1, <1>4 DEF foldLocked, VoteEvent
  <2>2. /\ Whole(n) /\ n.silences = m.silences /\ n.seen = m.seen /\ n.dropped = m.dropped
        /\ n.stale = m.stale
    BY <2>1 DEF applyFeedbackLocked, Fields, Timed, Whole
  <2> QED
    BY <1>1, <2>2 DEF Timed
<1>5. CASE e \in SilenceEvent
  <2>1. n = applySilenceLocked(m, e)
    BY <1>1, <1>5 DEF foldLocked, SilenceEvent
  <2>2. PICK s : s = [at |-> e.at, until |-> e.at + e.window]
    OBVIOUS
  <2>3. s \in silenceState
    BY <1>5, <2>2 DEF SilenceEvent, silenceState, Time
  <2>4. /\ Whole(n) /\ n.silences = [m.silences EXCEPT ![e.tk] = s] /\ n.seen = m.seen
        /\ n.dropped = m.dropped /\ n.stale = m.stale
    BY <2>1, <2>2 DEF applySilenceLocked, Fields, Timed, Whole
  <2> QED
    BY <1>1, <2>3, <2>4 DEF Timed
<1>6. CASE e \in ConfirmEvent
  <2>1. n = applyConfirmLocked(m, e)
    BY <1>1, <1>6 DEF foldLocked, ConfirmEvent
  <2>2. /\ Whole(n) /\ n.silences = m.silences /\ n.seen = m.seen /\ n.dropped = m.dropped
        /\ n.stale = m.stale
    BY <2>1 DEF applyConfirmLocked, Fields, Timed, Whole
  <2> QED
    BY <1>1, <2>2 DEF Timed
<1>7. CASE e \in VerifyEvent
  <2>1. n = applyVerifyLocked(m, e)
    BY <1>1, <1>7 DEF foldLocked, VerifyEvent
  <2>2. /\ Whole(n) /\ n.silences = m.silences /\ n.seen = m.seen /\ n.dropped = m.dropped
        /\ n.stale = m.stale
    BY <2>1 DEF applyVerifyLocked, Fields, Timed, Whole
  <2> QED
    BY <1>1, <2>2 DEF Timed
<1>8. CASE e \in LinkEvent
  <2>1. n = applyLinkLocked(m, e)
    BY <1>1, <1>8 DEF foldLocked, LinkEvent
  <2>2. /\ Whole(n) /\ n.silences = m.silences /\ n.seen = m.seen /\ n.dropped = m.dropped
        /\ n.stale = m.stale
    BY ZenonT(60), <2>1 DEF applyLinkLocked, Fields, Timed, Whole
  <2> QED
    BY <1>1, <2>2 DEF Timed
<1> QED
  BY <1>2, <1>3, <1>4, <1>5, <1>6, <1>7, <1>8 DEF Event

\* Pruning the silences keeps them well-typed.
LEMMA PruneTimed ==
    ASSUME NEW m, Timed(m), NEW t
    PROVE  Timed(pruneLapsedSilencesLocked(m, t))
    BY DEF pruneLapsedSilencesLocked, Timed, Whole, Fields

\* So does seeding a checkpoint.
LEMMA SeedTimed ==
    ASSUME NEW m, Timed(m), NEW c, Timed(c)
    PROVE  Timed(seedCheckpointLocked(m, c))
<1>1. PICK n : n = seedCheckpointLocked(m, c)
  OBVIOUS
<1>2. /\ Whole(n) /\ n.silences = c.silences /\ n.seen = m.seen + c.seen
      /\ n.dropped = m.dropped + c.dropped /\ n.stale = m.stale + c.stale
  BY <1>1 DEF seedCheckpointLocked, Timed, Whole, Fields
<1> QED
  BY <1>1, <1>2 DEF Timed

\* The state before any line stands silent of nothing.
LEMMA FreshTimed == Timed(Fresh)
    BY DEF Fresh, Timed, Whole, Fields

-----------------------------------------------------------------------------
(* What every record of indexes in the system satisfies.                   *)

Sound(m) == Balanced(m) /\ Paired(m) /\ Timed(m)

\* The state before any line is sound.
LEMMA FreshSound == Sound(Fresh)
  BY FreshBalanced, FreshPaired, FreshTimed DEF Sound

\* Folding any event keeps a record sound.
LEMMA FoldSound ==
    ASSUME NEW m, Sound(m), NEW e \in Event
    PROVE  Sound(foldLocked(m, e))
  BY FoldBalanced, FoldPaired, FoldTimed DEF Sound

\* So does pruning the silences that have lapsed.
LEMMA PruneSound ==
    ASSUME NEW m, Sound(m), NEW t
    PROVE  Sound(pruneLapsedSilencesLocked(m, t))
  BY PruneBalanced, PrunePaired, PruneTimed DEF Sound

\* What a sound checkpoint seeds is sound.
LEMMA SeedSound ==
    ASSUME NEW m, Sound(m), NEW c, Sound(c)
    PROVE  Sound(seedCheckpointLocked(m, c))
  BY SeedBalanced, SeedPaired, SeedTimed DEF Sound

-----------------------------------------------------------------------------
(* Lines and files.                                                        *)

SoundLine(l) == IF l.kind = "checkpoint" THEN Sound(l.state) ELSE l \in Event

SoundLines(s) == \E S : s \in Seq(S) /\ \A l \in S : SoundLine(l)

\* Each line of a sound file is sound.
LEMMA LineAt ==
    ASSUME NEW s, SoundLines(s), NEW i \in 1..Len(s)
    PROVE  SoundLine(s[i])
    BY DEF SoundLines

\* A sound line appended to a sound file leaves it sound.
LEMMA LinesAppend ==
    ASSUME NEW s, SoundLines(s), NEW l, SoundLine(l)
    PROVE  SoundLines(Append(s, l))
<1>1. PICK S : s \in Seq(S) /\ \A x \in S : SoundLine(x)
  BY DEF SoundLines
<1> DEFINE T == S \cup {l}
<1>2. s \in Seq(T) /\ l \in T /\ \A x \in T : SoundLine(x)
  BY <1>1
<1> HIDE DEF T
<1>3. Append(s, l) \in Seq(T)
  BY <1>2
<1> QED
  BY <1>2, <1>3 DEF SoundLines

\* Two sound files concatenated are sound.
LEMMA LinesConcat ==
    ASSUME NEW s, SoundLines(s), NEW u, SoundLines(u)
    PROVE  SoundLines(s \o u)
<1>1. PICK S : s \in Seq(S) /\ \A x \in S : SoundLine(x)
  BY DEF SoundLines
<1>2. PICK U : u \in Seq(U) /\ \A x \in U : SoundLine(x)
  BY DEF SoundLines
<1> DEFINE T == S \cup U
<1>3. s \in Seq(T) /\ u \in Seq(T) /\ \A x \in T : SoundLine(x)
  BY <1>1, <1>2
<1> HIDE DEF T
<1>4. s \o u \in Seq(T)
  BY <1>3
<1> QED
  BY <1>3, <1>4 DEF SoundLines

\* The tail of a sound file is sound.
LEMMA LinesTail ==
    ASSUME NEW s, SoundLines(s), NEW i \in Nat \ {0}
    PROVE  SoundLines(SubSeq(s, i, Len(s)))
<1>1. PICK S : s \in Seq(S) /\ \A x \in S : SoundLine(x)
  BY DEF SoundLines
<1>2. SubSeq(s, i, Len(s)) \in Seq(S)
  BY <1>1
<1> QED
  BY <1>1, <1>2 DEF SoundLines

\* One line replayed keeps a sound record sound.
LEMMA ReplaySound ==
    ASSUME NEW m, Sound(m), NEW l, SoundLine(l)
    PROVE  Sound(replayLine(m, l))
<1>1. CASE l.kind = "checkpoint"
  BY <1>1, SeedSound DEF replayLine, SoundLine
<1>2. CASE l.kind # "checkpoint"
  BY <1>2, FoldSound DEF replayLine, SoundLine
<1> QED
  BY <1>1, <1>2

-----------------------------------------------------------------------------
(* The inductive invariant: every record of indexes in the system is sound.  *)

SoundLoad(l) ==
    /\ DOMAIN l = {"pc", "events", "i", "scratch"}
    /\ SoundLines(l.events)
    /\ l.i \in Nat \ {0}
    /\ Sound(l.scratch)
    /\ l.pc = "scratch" => MaxEvents > 0 /\ Len(l.events) > MaxEvents

SoundState ==
    /\ SoundLines(file)
    /\ mem = [p \in Procs |-> mem[p]] /\ load = [p \in Procs |-> load[p]]
    /\ \A p \in Procs : Sound(mem[p]) /\ SoundLoad(load[p])

\* A process that starts, runs, or has died holds nothing in its load.
LEMMA IdleSound == SoundLoad(NoLoad) /\ SoundLoad(Up)
<1>1. SoundLines(<<>>)
  <2> DEFINE S == {}
  <2>1. <<>> \in Seq(S) /\ \A l \in S : SoundLine(l)
    OBVIOUS
  <2> HIDE DEF S
  <2> QED
    BY <2>1 DEF SoundLines
<1>2. /\ DOMAIN NoLoad = {"pc", "events", "i", "scratch"} /\ NoLoad.pc = "down"
      /\ NoLoad.events = <<>> /\ NoLoad.i = 1 /\ NoLoad.scratch = Fresh
  BY DEF NoLoad
<1>3. /\ DOMAIN Up = {"pc", "events", "i", "scratch"} /\ Up.pc = "up"
      /\ Up.events = <<>> /\ Up.i = 1 /\ Up.scratch = Fresh
  BY DEF NoLoad, Up
<1> QED
  BY <1>1, <1>2, <1>3, FreshSound DEF SoundLoad

\* One process's indexes and load change, to sound ones; the file stays sound.
LEMMA ProcessSound ==
    ASSUME SoundState, NEW p \in Procs,
           NEW m, Sound(m), mem' = [mem EXCEPT ![p] = m],
           NEW l, SoundLoad(l), load' = [load EXCEPT ![p] = l],
           SoundLines(file)'
    PROVE  SoundState'
<1>1. mem' = [q \in Procs |-> mem'[q]] /\ load' = [q \in Procs |-> load'[q]]
  BY DEF SoundState
<1>2. \A q \in Procs : mem'[q] = IF q = p THEN m ELSE mem[q]
  BY DEF SoundState
<1>3. \A q \in Procs : load'[q] = IF q = p THEN l ELSE load[q]
  BY DEF SoundState
<1>4. \A q \in Procs : Sound(mem'[q]) /\ SoundLoad(load'[q])
  BY <1>2, <1>3 DEF SoundState
<1>5. (\A q \in Procs : Sound(mem[q]) /\ SoundLoad(load[q]))'
  BY <1>4
<1> QED
  BY <1>1, <1>5 DEF SoundState

\* The ledger starts sound.
LEMMA InitSound == Init => SoundState
<1> SUFFICES ASSUME Init PROVE SoundState
  OBVIOUS
<1>1. SoundLines(file)
  BY IdleSound DEF Init, SoundLoad, NoLoad
<1>2. \A p \in Procs : mem[p] = Fresh /\ load[p] = NoLoad
  BY DEF Init
<1> QED
  BY <1>1, <1>2, FreshSound, IdleSound DEF Init, SoundState

\* The file after one event is written to it.
LEMMA WrittenSound ==
    ASSUME SoundState, NEW e \in Event, lineWritten(e)
    PROVE  SoundLines(file)'
<1>1. SoundLine(e)
  BY DEF SoundLine, Event, OpenEvent, ResolveEvent, VoteEvent, SilenceEvent, ConfirmEvent,
         VerifyEvent, LinkEvent
<1>2. SoundLines(file) /\ SoundLines(Append(file, e))
  BY <1>1, LinesAppend DEF SoundState
<1> QED
  BY <1>2 DEF lineWritten

\* A call keeps the state sound when the indexes it folds are.
LEMMA RecordSound ==
    ASSUME SoundState, NEW p \in Procs, NEW e \in Event, NEW m, Sound(m), record(p, e, m)
    PROVE  SoundState'
<1>0. /\ Sound(mem[p]) /\ SoundLoad(load[p]) /\ SoundLines(file)
      /\ mem = [mem EXCEPT ![p] = mem[p]] /\ load = [load EXCEPT ![p] = load[p]]
  BY DEF SoundState
<1>1. CASE lineWritten(e) /\ mem' = [mem EXCEPT ![p] = m] /\ UNCHANGED load
  BY <1>0, <1>1, WrittenSound, ProcessSound
<1>2. CASE lineWritten(e) /\ UNCHANGED <<mem, load>>
  BY <1>0, <1>2, WrittenSound, ProcessSound
<1>3. CASE UNCHANGED <<file, mem, load>>
  BY <1>3 DEF SoundState, SoundLines, SoundLoad
<1>4. CASE lineWritten(e) /\ mem' = [mem EXCEPT ![p] = Fresh] /\ load' = [load EXCEPT ![p] = NoLoad]
  BY <1>4, WrittenSound, ProcessSound, FreshSound, IdleSound
<1> QED
  BY <1>1, <1>2, <1>3, <1>4 DEF record

\* Each call folds its own event.
LEMMA CallRecords ==
    ASSUME NEW p \in Procs, NEW e \in Events, Call(p, e)
    PROVE  record(p, e, foldLocked(mem[p], e))
<1>1. CASE Open(p, e)
  BY <1>1 DEF Open, foldLocked
<1>2. CASE Resolve(p, e)
  BY <1>2 DEF Resolve, foldLocked
<1>3. CASE Feedback(p, e)
  BY <1>3 DEF Feedback, foldLocked
<1>4. CASE Silence(p, e)
  BY <1>4 DEF Silence, foldLocked
<1>5. CASE Confirm(p, e)
  BY <1>5 DEF Confirm, foldLocked
<1>6. CASE Verify(p, e)
  BY <1>6 DEF Verify, foldLocked
<1>7. CASE Link(p, e)
  BY <1>7 DEF Link, foldLocked
<1> QED
  BY <1>1, <1>2, <1>3, <1>4, <1>5, <1>6, <1>7 DEF Call

\* Every call on the ledger keeps it sound.
LEMMA CallSound ==
    ASSUME SoundState, NEW p \in Procs, NEW e \in Events, Call(p, e)
    PROVE  SoundState'
<1>0. e \in Event /\ Sound(mem[p])
  BY LedgerConstants DEF SoundState
<1>1. ASSUME e \in Event, record(p, e, foldLocked(mem[p], e)) PROVE SoundState'
  BY <1>0, <1>1, FoldSound, RecordSound
<1>2. record(p, e, foldLocked(mem[p], e))
  BY CallRecords
<1> QED
  BY <1>0, <1>1, <1>2

\* Every step keeps the ledger sound.
LEMMA NextSound == SoundState /\ [Next]_vars => SoundState'
<1> SUFFICES ASSUME SoundState, [Next]_vars PROVE SoundState'
  OBVIOUS
<1>1. CASE Tick \/ UNCHANGED vars
  BY <1>1 DEF Tick, vars, SoundState, SoundLines, SoundLoad
<1>2. ASSUME NEW p \in Procs, NEW e \in Events, Call(p, e) PROVE SoundState'
  BY <1>2, CallSound
<1>3. ASSUME NEW p \in Procs, StartLoad(p) PROVE SoundState'
  <2> DEFINE l == [pc |-> "fold", events |-> file, i |-> 1, scratch |-> Fresh]
  <2>1. SoundLoad(l)
    BY FreshSound DEF SoundLoad, SoundState
  <2>2. mem' = [mem EXCEPT ![p] = Fresh] /\ load' = [load EXCEPT ![p] = l] /\ SoundLines(file)'
    BY <1>3 DEF StartLoad, SoundState, SoundLines
  <2> HIDE DEF l
  <2> QED
    BY <2>1, <2>2, FreshSound, ProcessSound
<1>4. ASSUME NEW p \in Procs, FoldLine(p) PROVE SoundState'
  <2> DEFINE line == load[p].events[load[p].i]
             l    == [load[p] EXCEPT !.i = @ + 1]
             m    == replayLine(mem[p], line)
  <2>1. SoundLoad(load[p]) /\ Sound(mem[p]) /\ load[p].i \in 1..Len(load[p].events)
    <3>1. SoundLoad(load[p]) /\ Sound(mem[p])
      BY DEF SoundState
    <3>2. load[p].i \in Nat \ {0} /\ Len(load[p].events) \in Nat
      BY <3>1 DEF SoundLoad, SoundLines
    <3> QED
      BY <1>4, <3>1, <3>2 DEF FoldLine
  <2>2. Sound(m)
    <3>1. SoundLine(line)
      BY <2>1, LineAt DEF SoundLoad
    <3> HIDE DEF line
    <3> QED
      BY <2>1, <3>1, ReplaySound
  <2>3. SoundLoad(l)
    BY <2>1 DEF SoundLoad
  <2>4. mem' = [mem EXCEPT ![p] = m] /\ load' = [load EXCEPT ![p] = l] /\ SoundLines(file)'
    BY <1>4 DEF FoldLine, SoundState, SoundLines
  <2> HIDE DEF l, m
  <2> QED
    BY <2>2, <2>3, <2>4, ProcessSound
<1>5. ASSUME NEW p \in Procs, EndFold(p) PROVE SoundState'
  <2> DEFINE s == [load[p] EXCEPT !.pc = "scratch", !.i = 1]
             full == MaxEvents > 0 /\ Len(load[p].events) > MaxEvents
             l == IF full THEN s ELSE Up
             m == pruneLapsedSilencesLocked(mem[p], now)
  <2>1. SoundLoad(load[p]) /\ Sound(mem[p])
    BY DEF SoundState
  <2>2. full => SoundLoad(s)
    BY <2>1 DEF SoundLoad
  <2>3. SoundLoad(l) /\ Sound(m)
    BY <2>1, <2>2, IdleSound, PruneSound
  <2>4. mem' = [mem EXCEPT ![p] = m] /\ load' = [load EXCEPT ![p] = l] /\ SoundLines(file)'
    BY <1>5 DEF EndFold, SoundState, SoundLines
  <2> HIDE DEF l, m
  <2> QED
    BY <2>3, <2>4, ProcessSound
<1>6. ASSUME NEW p \in Procs, ScratchLine(p) PROVE SoundState'
  <2> DEFINE line == load[p].events[load[p].i]
             r == replayLine(load[p].scratch, line)
             l == [load[p] EXCEPT !.i = @ + 1, !.scratch = r]
  <2>1. SoundLoad(load[p]) /\ Sound(mem[p]) /\ load[p].i \in 1..Len(load[p].events)
    <3>1. SoundLoad(load[p]) /\ Sound(mem[p])
      BY DEF SoundState
    <3>2. /\ load[p].i \in Nat \ {0} /\ Len(load[p].events) \in Nat /\ load[p].pc = "scratch"
          /\ MaxEvents > 0 /\ MaxEvents \in Nat /\ load[p].i <= cut(load[p].events)
      BY <1>6, <3>1, LedgerConstants DEF SoundLoad, SoundLines, ScratchLine
    <3> QED
      BY <3>1, <3>2 DEF cut
  <2>2. Sound(r)
    <3>1. SoundLine(line)
      BY <2>1, LineAt DEF SoundLoad
    <3> HIDE DEF line
    <3> QED
      BY <2>1, <3>1, ReplaySound DEF SoundLoad
  <2>3. /\ mem' = [mem EXCEPT ![p] = mem[p]] /\ load' = [load EXCEPT ![p] = l]
        /\ SoundLines(file)'
    BY <1>6 DEF ScratchLine, SoundState, SoundLines
  <2> HIDE DEF r
  <2>4. SoundLoad(l)
    BY <2>1, <2>2 DEF SoundLoad
  <2> HIDE DEF l
  <2> QED
    BY <2>1, <2>3, <2>4, ProcessSound
<1>7. ASSUME NEW p \in Procs, Rewrite(p) PROVE SoundState'
  <2> DEFINE head == checkpoint(pruneLapsedSilencesLocked(load[p].scratch, now))
             tail == SubSeq(load[p].events, cut(load[p].events) + 1, Len(load[p].events))
  <2>1. SoundLoad(load[p]) /\ Sound(mem[p]) /\ SoundLines(file)
    BY DEF SoundState
  <2>2. SoundLines(<<head>>)
    <3>1. SoundLine(head)
      BY <2>1, PruneSound DEF SoundLine, checkpoint, SoundLoad
    <3> HIDE DEF head
    <3> DEFINE S == {head}
    <3>2. <<head>> \in Seq(S) /\ \A l \in S : SoundLine(l)
      BY <3>1
    <3> HIDE DEF S
    <3> QED
      BY <3>2 DEF SoundLines
  <2>3. SoundLines(tail)
    <3>1. /\ Len(load[p].events) \in Nat /\ load[p].pc = "scratch"
          /\ MaxEvents \in Nat /\ Len(load[p].events) > MaxEvents
      BY <1>7, <2>1, LedgerConstants DEF SoundLoad, SoundLines, Rewrite
    <3>2. cut(load[p].events) + 1 \in Nat \ {0}
      BY <3>1 DEF cut
    <3> QED
      BY <2>1, <3>2, LinesTail DEF SoundLoad
  <2>4. file' = <<head>> \o tail \/ file' = file
    BY <1>7 DEF Rewrite
  <2> HIDE DEF head, tail
  <2>5. SoundLines(<<head>> \o tail)
    BY <2>2, <2>3, LinesConcat
  <2>6. SoundLines(file)'
    BY <2>1, <2>4, <2>5
  <2>7. mem' = [mem EXCEPT ![p] = mem[p]] /\ load' = [load EXCEPT ![p] = Up]
    BY <1>7 DEF Rewrite, SoundState
  <2> QED
    BY <2>1, <2>6, <2>7, IdleSound, ProcessSound
<1>8. ASSUME NEW p \in Procs, Crash(p) PROVE SoundState'
  <2>1. /\ mem' = [mem EXCEPT ![p] = Fresh] /\ load' = [load EXCEPT ![p] = NoLoad]
        /\ SoundLines(file)'
    BY <1>8 DEF Crash, SoundState, SoundLines
  <2> QED
    BY <2>1, FreshSound, IdleSound, ProcessSound
<1> QED
  BY <1>1, <1>2, <1>3, <1>4, <1>5, <1>6, <1>7, <1>8 DEF Next

\* Whatever is recorded, lost, replayed, absorbed or crashed into, every record of
\* indexes in the system is sound.
THEOREM LedgerSound == Spec => []SoundState
  BY InitSound, NextSound, PTL DEF Spec

\* The states a process may come to serve are all sound ones.
LEMMA ServedSound == SoundState => \A m \in Served : Sound(m)
<1> SUFFICES ASSUME SoundState, NEW m \in Served PROVE Sound(m)
  OBVIOUS
<1>1. ASSUME NEW s, SoundLines(s), m \in Checkpoints(s) PROVE Sound(m)
  <2>1. PICK i \in DOMAIN s : s[i].kind = "checkpoint" /\ m = s[i].state
    BY <1>1 DEF Checkpoints
  <2>2. DOMAIN s = 1..Len(s)
    BY <1>1 DEF SoundLines
  <2> QED
    BY <1>1, <2>1, <2>2, LineAt DEF SoundLine
<1>2. CASE m \in {mem[p] : p \in Procs} \cup {load[p].scratch : p \in Procs}
  BY <1>2 DEF SoundState, SoundLoad
<1>3. CASE m \in Checkpoints(file)
  BY <1>1, <1>3 DEF SoundState
<1>4. CASE m \in UNION {Checkpoints(load[p].events) : p \in Procs}
  <2>1. PICK p \in Procs : m \in Checkpoints(load[p].events)
    BY <1>4
  <2>2. SoundLines(load[p].events)
    BY DEF SoundState, SoundLoad
  <2> QED
    BY <1>1, <2>1, <2>2
<1> QED
  BY <1>2, <1>3, <1>4 DEF Served

\* Every live vote counts once in the aggregate of the entry recorded with it, in
\* every state applyFeedbackLocked, a replay or a compaction can lead to.
THEOREM VotesAreCounted == Spec => []VotesCounted
<1>1. SoundState => VotesCounted
  BY ServedSound DEF Sound, Balanced, VotesCounted
<1> QED
  BY <1>1, LedgerSound, PTL

\* Every fix room counts once, for its latest verification (applyVerifyLocked).
THEOREM RoomsAreCounted == Spec => []RoomsCounted
<1>1. SoundState => RoomsCounted
  BY ServedSound DEF Sound, Balanced, RoomsCounted
<1> QED
  BY <1>1, LedgerSound, PTL

\* A linked trigger keeps its link and that of its standing answer
\* (applyTriggerLocked, applyLinkLocked).
THEOREM LinksAreKept == Spec => []LinkKept
<1>1. SoundState => LinkKept
  BY ServedSound DEF Sound, Balanced, LinkKept
<1> QED
  BY <1>1, LedgerSound, PTL

\* Resolves and opens pair off exactly, and no resolve waits in a buffer while an open of
\* its fingerprint waits for one (applyOpenLocked, applyResolveLocked), in memory, in a
\* replay and in a checkpoint.
THEOREM ResolvesPairOff == Spec => []PairingExact
<1>1. SoundState => PairingExact
  BY ServedSound DEF Sound, Paired, PairingExact
<1> QED
  BY <1>1, LedgerSound, PTL

\* The roll-ups that recall, the gate and the sweeps read agree with the votes, the
\* verifications and the links they were made of.
THEOREM RollUpIsExact == Spec => []RollUpExact
  BY VotesAreCounted, RoomsAreCounted, LinksAreKept, PTL DEF RollUpExact

-----------------------------------------------------------------------------
(* Two records that agree but for silences lapsed at t.                    *)

standing(s, t) == IF s # NoSilence /\ s.until <= t THEN NoSilence ELSE s

Agree(a, b, t) ==
    /\ Timed(a) /\ Timed(b)
    /\ a.open = b.open /\ a.agg = b.agg /\ a.opens = b.opens /\ a.early = b.early
    /\ a.trig = b.trig /\ a.votes = b.votes /\ a.confirms = b.confirms /\ a.verifies = b.verifies
    /\ a.seen = b.seen /\ a.dropped = b.dropped /\ a.stale = b.stale
    /\ \A k \in Triggers : standing(a.silences[k], t) = standing(b.silences[k], t)

\* A record agrees with itself.
LEMMA AgreeItself ==
    ASSUME NEW a, Timed(a), NEW t
    PROVE  Agree(a, a, t)
    BY DEF Agree

\* Agreement goes both ways.
LEMMA AgreeBack ==
    ASSUME NEW a, NEW b, NEW t, Agree(a, b, t)
    PROVE  Agree(b, a, t)
    BY DEF Agree

\* Agreement carries on.
LEMMA AgreeOn ==
    ASSUME NEW a, NEW b, NEW c, NEW t, Agree(a, b, t), Agree(b, c, t)
    PROVE  Agree(a, c, t)
    BY DEF Agree

\* Whoever agrees at an instant agrees later.
LEMMA AgreeLater ==
    ASSUME NEW a, NEW b, NEW t \in Int, NEW u \in Int, t <= u, Agree(a, b, t)
    PROVE  Agree(a, b, u)
<1>1. ASSUME NEW k \in Triggers PROVE standing(a.silences[k], u) = standing(b.silences[k], u)
  <2>1. PICK r, s : r = a.silences[k] /\ s = b.silences[k]
    OBVIOUS
  <2>2. /\ r \in silenceState \cup {NoSilence} /\ s \in silenceState \cup {NoSilence}
        /\ standing(r, t) = standing(s, t)
    BY <2>1 DEF Agree, Timed
  <2>3. (r # NoSilence => r.until \in Int) /\ (s # NoSilence => s.until \in Int)
    BY <2>2 DEF silenceState, Time
  <2>4. standing(r, u) = standing(s, u)
    BY <2>2, <2>3 DEF standing
  <2> QED
    BY <2>1, <2>4
<1> QED
  BY <1>1 DEF Agree

\* A pruned record agrees with the one it was.
LEMMA PruneAgrees ==
    ASSUME NEW m, Timed(m), NEW t
    PROVE  Agree(pruneLapsedSilencesLocked(m, t), m, t)
<1>1. PICK n : n = pruneLapsedSilencesLocked(m, t)
  OBVIOUS
<1>2. Timed(n)
  BY <1>1, PruneTimed
<1>3. /\ n.open = m.open /\ n.agg = m.agg /\ n.opens = m.opens /\ n.early = m.early
      /\ n.trig = m.trig /\ n.votes = m.votes /\ n.confirms = m.confirms /\ n.verifies = m.verifies
      /\ n.seen = m.seen /\ n.dropped = m.dropped /\ n.stale = m.stale
      /\ n.silences = [k \in Triggers |-> standing(m.silences[k], t)]
  BY <1>1 DEF pruneLapsedSilencesLocked, standing, Timed, Whole, Fields
<1>4. ASSUME NEW k \in Triggers PROVE standing(n.silences[k], t) = standing(m.silences[k], t)
  BY <1>3 DEF standing
<1> QED
  BY <1>1, <1>2, <1>3, <1>4 DEF Agree

\* Records that agree prune to the same record.
LEMMA AgreePrune ==
    ASSUME NEW a, NEW b, NEW t, Agree(a, b, t)
    PROVE  pruneLapsedSilencesLocked(a, t) = pruneLapsedSilencesLocked(b, t)
<1>1. PICK x, y : x = pruneLapsedSilencesLocked(a, t) /\ y = pruneLapsedSilencesLocked(b, t)
  OBVIOUS
<1>2. Timed(a) /\ Timed(b)
  BY DEF Agree
<1>3. /\ x.open = a.open /\ x.agg = a.agg /\ x.opens = a.opens /\ x.early = a.early
      /\ x.trig = a.trig /\ x.votes = a.votes /\ x.confirms = a.confirms /\ x.verifies = a.verifies
      /\ x.seen = a.seen /\ x.dropped = a.dropped /\ x.stale = a.stale
      /\ x.silences = [k \in Triggers |-> standing(a.silences[k], t)]
  BY <1>1, <1>2 DEF pruneLapsedSilencesLocked, standing, Timed, Whole, Fields
<1>4. /\ y.open = b.open /\ y.agg = b.agg /\ y.opens = b.opens /\ y.early = b.early
      /\ y.trig = b.trig /\ y.votes = b.votes /\ y.confirms = b.confirms /\ y.verifies = b.verifies
      /\ y.seen = b.seen /\ y.dropped = b.dropped /\ y.stale = b.stale
      /\ y.silences = [k \in Triggers |-> standing(b.silences[k], t)]
  BY <1>1, <1>2 DEF pruneLapsedSilencesLocked, standing, Timed, Whole, Fields
<1>5. x.silences = y.silences
  BY <1>3, <1>4 DEF Agree
<1>6. /\ x.open = y.open /\ x.agg = y.agg /\ x.opens = y.opens /\ x.early = y.early
      /\ x.trig = y.trig /\ x.votes = y.votes /\ x.confirms = y.confirms /\ x.verifies = y.verifies
      /\ x.seen = y.seen /\ x.dropped = y.dropped /\ x.stale = y.stale
  BY <1>3, <1>4 DEF Agree
<1>7. \A f \in Fields : x[f] = y[f]
  BY <1>5, <1>6 DEF Fields
<1>8. Whole(x) /\ Whole(y)
  BY <1>1, <1>2, PruneTimed DEF Timed
<1> QED
  BY <1>1, <1>7, <1>8 DEF Whole

\* What two records that agree share.
Shared == Fields \ {"silences"}
Alike(a, b) == \A f \in Shared : a[f] = b[f]

\* Agreement is sharing all but the silences, and the standing ones of those.
LEMMA AgreeAlike ==
    ASSUME NEW a, NEW b, NEW t
    PROVE  Agree(a, b, t) <=>
             /\ Timed(a) /\ Timed(b) /\ Alike(a, b)
             /\ \A k \in Triggers : standing(a.silences[k], t) = standing(b.silences[k], t)
<1>1. Shared = {"open", "agg", "opens", "early", "trig", "votes", "confirms", "verifies",
                "seen", "dropped", "stale"}
  BY DEF Shared, Fields
<1>2. Alike(a, b) <=>
        /\ a.open = b.open /\ a.agg = b.agg /\ a.opens = b.opens /\ a.early = b.early
        /\ a.trig = b.trig /\ a.votes = b.votes /\ a.confirms = b.confirms /\ a.verifies = b.verifies
        /\ a.seen = b.seen /\ a.dropped = b.dropped /\ a.stale = b.stale
  BY <1>1 DEF Alike
<1> QED
  BY <1>2 DEF Agree

\* Folding an event reads no silence: two records that agree still do.
LEMMA FoldAgrees ==
    ASSUME NEW a, NEW b, NEW t, Agree(a, b, t), Paired(a), Paired(b), NEW e \in Event
    PROVE  Agree(foldLocked(a, e), foldLocked(b, e), t)
<1>1. PICK x, y : x = foldLocked(a, e) /\ y = foldLocked(b, e)
  OBVIOUS
<1>2. Timed(a) /\ Timed(b) /\ Timed(x) /\ Timed(y)
  BY <1>1, FoldTimed DEF Agree
<1>3. SUFFICES /\ Alike(x, y)
               /\ \A k \in Triggers : standing(x.silences[k], t) = standing(y.silences[k], t)
  BY <1>1, <1>2, AgreeAlike
<1>4. /\ a.open = b.open /\ a.agg = b.agg /\ a.opens = b.opens /\ a.early = b.early
      /\ a.trig = b.trig /\ a.votes = b.votes /\ a.confirms = b.confirms /\ a.verifies = b.verifies
      /\ a.seen = b.seen /\ a.dropped = b.dropped /\ a.stale = b.stale
      /\ \A k \in Triggers : standing(a.silences[k], t) = standing(b.silences[k], t)
  BY DEF Agree
<1>5. Whole(a) /\ Whole(b)
  BY <1>2 DEF Timed
<1>6. CASE e \in OpenEvent
  <2>1. PICK a1, b1 : a1 = [a EXCEPT !.open[e.fp] = e] /\ b1 = [b EXCEPT !.open[e.fp] = e]
    OBVIOUS
  <2>2. /\ Whole(a1) /\ Whole(b1) /\ Alike(a1, b1)
        /\ a1.silences = a.silences /\ b1.silences = b.silences
    BY <1>4, <1>5, <2>1 DEF Whole, Fields, Alike, Shared
  <2>3. PICK a2, b2 : a2 = applyOpenLocked(a1, e) /\ b2 = applyOpenLocked(b1, e)
    OBVIOUS
  <2>4. /\ Whole(a2) /\ Whole(b2) /\ Alike(a2, b2)
        /\ a2.silences = a.silences /\ b2.silences = b.silences
    <3>1. /\ a1.open = b1.open /\ a1.agg = b1.agg /\ a1.opens = b1.opens /\ a1.early = b1.early
          /\ a1.trig = b1.trig /\ a1.votes = b1.votes /\ a1.confirms = b1.confirms
          /\ a1.verifies = b1.verifies /\ a1.seen = b1.seen /\ a1.dropped = b1.dropped
          /\ a1.stale = b1.stale
      BY <2>2 DEF Alike, Shared, Fields
    <3> QED
      BY ZenonT(60), <2>2, <2>3, <3>1 DEF applyOpenLocked, Whole, Fields, Alike, Shared
  <2>5. x = applyTriggerLocked(a2, e) /\ y = applyTriggerLocked(b2, e)
    BY <1>1, <1>6, <2>1, <2>3 DEF foldLocked, OpenEvent
  <2>6. Alike(x, y) /\ x.silences = a.silences /\ y.silences = b.silences
    <3>1. /\ a2.open = b2.open /\ a2.agg = b2.agg /\ a2.opens = b2.opens /\ a2.early = b2.early
          /\ a2.trig = b2.trig /\ a2.votes = b2.votes /\ a2.confirms = b2.confirms
          /\ a2.verifies = b2.verifies /\ a2.seen = b2.seen /\ a2.dropped = b2.dropped
          /\ a2.stale = b2.stale
      BY <2>4 DEF Alike, Shared, Fields
    <3> QED
      BY ZenonT(60), <2>4, <2>5, <3>1 DEF applyTriggerLocked, Whole, Fields, Alike, Shared
  <2> QED
    BY <1>4, <2>6
<1>7. CASE e \in ResolveEvent
  <2>1. /\ x = [applyResolveLocked(a, e.fp, e.at) EXCEPT !.open[e.fp] = NoOpen]
        /\ y = [applyResolveLocked(b, e.fp, e.at) EXCEPT !.open[e.fp] = NoOpen]
    BY <1>1, <1>7 DEF foldLocked, ResolveEvent
  <2>2. /\ Alike(x, y)
        /\ x.silences = unsilenced(a, e.fp) /\ y.silences = unsilenced(b, e.fp)
    <3>1. PICK stack, rs, top, full :
            /\ stack = a.opens[e.fp] /\ rs = a.early[e.fp] /\ top = stack[Len(stack)]
            /\ full = (Len(rs) >= MaxEarly)
      OBVIOUS
    <3>2. stack = b.opens[e.fp] /\ rs = b.early[e.fp]
      BY <1>4, <3>1
    <3>3. CASE stack = <<>>
      <4>1. PICK kept : kept = Append(IF full THEN Tail(rs) ELSE rs, e.at)
        OBVIOUS
      <4>2. /\ x.open = [a.open EXCEPT ![e.fp] = NoOpen] /\ x.agg = a.agg /\ x.opens = a.opens
            /\ x.early = [a.early EXCEPT ![e.fp] = kept] /\ x.trig = a.trig /\ x.votes = a.votes
            /\ x.confirms = a.confirms /\ x.verifies = a.verifies /\ x.seen = a.seen + 1
            /\ x.dropped = (IF full THEN a.dropped + 1 ELSE a.dropped) /\ x.stale = a.stale
            /\ x.silences = unsilenced(a, e.fp)
        BY <1>5, <2>1, <3>1, <3>3, <4>1 DEF applyResolveLocked, Whole, Fields
      <4>3. /\ y.open = [b.open EXCEPT ![e.fp] = NoOpen] /\ y.agg = b.agg /\ y.opens = b.opens
            /\ y.early = [b.early EXCEPT ![e.fp] = kept] /\ y.trig = b.trig /\ y.votes = b.votes
            /\ y.confirms = b.confirms /\ y.verifies = b.verifies /\ y.seen = b.seen + 1
            /\ y.dropped = (IF full THEN b.dropped + 1 ELSE b.dropped) /\ y.stale = b.stale
            /\ y.silences = unsilenced(b, e.fp)
        BY <1>5, <2>1, <3>1, <3>2, <3>3, <4>1 DEF applyResolveLocked, Whole, Fields
      <4> QED
        BY <1>4, <4>2, <4>3 DEF Alike, Shared, Fields
    <3>4. CASE stack # <<>>
      <4>1. PICK rest : rest = SubSeq(stack, 1, Len(stack) - 1)
        OBVIOUS
      <4>2. /\ x.open = [a.open EXCEPT ![e.fp] = NoOpen] /\ x.early = a.early
            /\ x.opens = [a.opens EXCEPT ![e.fp] = rest] /\ x.trig = a.trig /\ x.votes = a.votes
            /\ x.agg = (IF top.counted THEN credit(a.agg, top.entry, "resolved", 1) ELSE a.agg)
            /\ x.confirms = a.confirms /\ x.verifies = a.verifies /\ x.seen = a.seen + 1
            /\ x.dropped = a.dropped /\ x.stale = a.stale /\ x.silences = unsilenced(a, e.fp)
        BY <1>5, <2>1, <3>1, <3>4, <4>1 DEF applyResolveLocked, Whole, Fields
      <4>3. /\ y.open = [b.open EXCEPT ![e.fp] = NoOpen] /\ y.early = b.early
            /\ y.opens = [b.opens EXCEPT ![e.fp] = rest] /\ y.trig = b.trig /\ y.votes = b.votes
            /\ y.agg = (IF top.counted THEN credit(b.agg, top.entry, "resolved", 1) ELSE b.agg)
            /\ y.confirms = b.confirms /\ y.verifies = b.verifies /\ y.seen = b.seen + 1
            /\ y.dropped = b.dropped /\ y.stale = b.stale /\ y.silences = unsilenced(b, e.fp)
        BY <1>5, <2>1, <3>1, <3>2, <3>4, <4>1 DEF applyResolveLocked, Whole, Fields
      <4> QED
        BY <1>4, <4>2, <4>3 DEF Alike, Shared, Fields
    <3> QED
      BY <3>3, <3>4
  <2>3. ASSUME NEW k \in Triggers PROVE standing(x.silences[k], t) = standing(y.silences[k], t)
    BY <1>4, <2>2 DEF unsilenced
  <2> QED
    BY <2>2, <2>3
<1>8. CASE e \in VoteEvent
  <2>1. x = applyFeedbackLocked(a, e) /\ y = applyFeedbackLocked(b, e)
    BY <1>1, <1>8 DEF foldLocked, VoteEvent
  <2>2. Alike(x, y) /\ x.silences = a.silences /\ y.silences = b.silences
    BY ZenonT(60), <1>4, <1>5, <2>1 DEF applyFeedbackLocked, Whole, Fields, Alike, Shared
  <2> QED
    BY <1>4, <2>2
<1>9. CASE e \in SilenceEvent
  <2>1. x = applySilenceLocked(a, e) /\ y = applySilenceLocked(b, e)
    BY <1>1, <1>9 DEF foldLocked, SilenceEvent
  <2>2. PICK s : s = [at |-> e.at, until |-> e.at + e.window]
    OBVIOUS
  <2>3. /\ Alike(x, y) /\ x.silences = [a.silences EXCEPT ![e.tk] = s]
        /\ y.silences = [b.silences EXCEPT ![e.tk] = s]
    BY <1>4, <1>5, <2>1, <2>2 DEF applySilenceLocked, Whole, Fields, Alike, Shared
  <2>4. ASSUME NEW k \in Triggers PROVE standing(x.silences[k], t) = standing(y.silences[k], t)
    BY <1>2, <1>4, <2>3 DEF Timed
  <2> QED
    BY <2>3, <2>4
<1>10. CASE e \in ConfirmEvent
  <2>1. x = applyConfirmLocked(a, e) /\ y = applyConfirmLocked(b, e)
    BY <1>1, <1>10 DEF foldLocked, ConfirmEvent
  <2>2. Alike(x, y) /\ x.silences = a.silences /\ y.silences = b.silences
    BY <1>4, <1>5, <2>1 DEF applyConfirmLocked, Whole, Fields, Alike, Shared
  <2> QED
    BY <1>4, <2>2
<1>11. CASE e \in VerifyEvent
  <2>1. x = applyVerifyLocked(a, e) /\ y = applyVerifyLocked(b, e)
    BY <1>1, <1>11 DEF foldLocked, VerifyEvent
  <2>2. Alike(x, y) /\ x.silences = a.silences /\ y.silences = b.silences
    BY ZenonT(60), <1>4, <1>5, <2>1 DEF applyVerifyLocked, Whole, Fields, Alike, Shared
  <2> QED
    BY <1>4, <2>2
<1>12. CASE e \in LinkEvent
  <2>1. x = applyLinkLocked(a, e) /\ y = applyLinkLocked(b, e)
    BY <1>1, <1>12 DEF foldLocked, LinkEvent
  <2>2. /\ \A f \in Fields \ {"trig"} : x[f] = a[f] /\ y[f] = b[f]
        /\ x.silences = a.silences /\ y.silences = b.silences
    BY <1>5, <2>1 DEF applyLinkLocked, Whole, Fields
  <2>3. PICK r, w : /\ r = a.trig
                    /\ w = [r EXCEPT ![e.tk].url = TRUE, ![e.tk].linked = TRUE,
                                     ![e.tk].answerUrl = @ \/ r[e.tk].answered > 0]
    OBVIOUS
  <2>4. x.trig = w /\ y.trig = w
    BY <1>4, <1>5, <2>1, <2>3 DEF applyLinkLocked, Whole, Fields
  <2>5. Alike(x, y)
    BY <1>4, <2>2, <2>4 DEF Alike, Shared, Fields
  <2> QED
    BY <1>4, <2>2, <2>5
<1> QED
  BY <1>6, <1>7, <1>8, <1>9, <1>10, <1>11, <1>12 DEF Event

\* A checkpoint seeded in two records that agree leaves them agreeing.
LEMMA SeedAgrees ==
    ASSUME NEW a, NEW b, NEW t, Agree(a, b, t), NEW c, Timed(c)
    PROVE  Agree(seedCheckpointLocked(a, c), seedCheckpointLocked(b, c), t)
<1>1. PICK x, y : x = seedCheckpointLocked(a, c) /\ y = seedCheckpointLocked(b, c)
  OBVIOUS
<1>2. Timed(x) /\ Timed(y)
  BY <1>1, SeedTimed DEF Agree
<1>3. Alike(x, y) /\ x.silences = c.silences /\ y.silences = c.silences
  BY <1>1 DEF Agree, seedCheckpointLocked, Timed, Whole, Fields, Alike, Shared
<1> QED
  BY <1>1, <1>2, <1>3, AgreeAlike

-----------------------------------------------------------------------------
(* Replaying a file from its first line.                                   *)

Run(f, s) == f = [i \in 0..Len(s) |-> IF i = 0 THEN Fresh ELSE replayLine(f[i - 1], s[i])]

\* The indexes after the first i lines of s.
after(s, i) == (CHOOSE f : Run(f, s))[i]
whole(s) == after(s, Len(s))

\* The replay of a file runs to its end.
LEMMA RunExists ==
    ASSUME NEW s, SoundLines(s)
    PROVE  Run(CHOOSE f : Run(f, s), s)
<1> DEFINE n == Len(s)
           Upto(g, k) == /\ g = [i \in 0..n |-> g[i]] /\ g[0] = Fresh
                         /\ \A i \in 1..k : g[i] = replayLine(g[i - 1], s[i])
           P(k) == \E g : Upto(g, k)
           good == {k \in 0..n : P(k)}
<1>1. n \in Nat
  BY DEF SoundLines
<1>2. P(0)
  <2> DEFINE g == [i \in 0..n |-> Fresh]
  <2>1. Upto(g, 0)
    BY <1>1
  <2> QED
    BY <2>1
<1>3. ASSUME NEW k \in 0..n, P(k), k < n PROVE P(k + 1)
  <2>1. PICK g : Upto(g, k)
    BY <1>3
  <2> DEFINE w == replayLine(g[k], s[k + 1])
             h == [i \in 0..n |-> IF i = k + 1 THEN w ELSE g[i]]
  <2>2. k \in Nat /\ k + 1 \in 0..n /\ k \in 0..n
    BY <1>1, <1>3
  <2>3. h[k + 1] = w /\ \A i \in 0..k : h[i] = g[i]
    <3> HIDE DEF w
    <3> QED
      BY <1>1, <2>2
  <2>4. h = [i \in 0..n |-> h[i]]
    <3> HIDE DEF w
    <3> QED
      OBVIOUS
  <2> HIDE DEF h
  <2>5. ASSUME NEW i \in 1..(k + 1) PROVE h[i] = replayLine(h[i - 1], s[i])
    <3>1. CASE i = k + 1
      BY <2>2, <2>3, <3>1
    <3>2. CASE i # k + 1
      <4>1. i \in 1..k /\ i \in 0..k /\ i - 1 \in 0..k
        BY <2>2, <3>2
      <4> QED
        BY <2>1, <2>3, <4>1
    <3> QED
      BY <3>1, <3>2
  <2>6. h[0] = Fresh
    <3>1. 0 \in 0..k
      BY <2>2
    <3> QED
      BY <2>1, <2>3, <3>1
  <2> QED
    BY <2>4, <2>5, <2>6
<1>4. \A k \in 0..n : k \in good
  <2>1. 0 \in good /\ \A k \in 0..n : k \in good /\ k < n => k + 1 \in good
    <3> HIDE DEF P
    <3>1. 0 \in 0..n /\ \A k \in 0..n : k < n => k + 1 \in 0..n
      BY <1>1
    <3> QED
      BY <1>2, <1>3, <3>1
  <2> HIDE DEF good
  <2> QED
    BY <1>1, <2>1, UpTo
<1>5. P(n)
  <2>1. n \in 0..n
    BY <1>1
  <2>2. n \in good
    <3> HIDE DEF good
    <3> QED
      BY <1>4, <2>1
  <2> HIDE DEF P
  <2> QED
    BY <2>2
<1>6. PICK g : Upto(g, n)
  BY <1>5
<1>7. ASSUME NEW i \in 0..n
      PROVE  g[i] = IF i = 0 THEN Fresh ELSE replayLine(g[i - 1], s[i])
  <2>1. CASE i = 0
    BY <1>6, <2>1
  <2>2. CASE i # 0
    <3>1. i \in 1..n
      BY <1>1, <2>2
    <3> QED
      BY <1>6, <2>2, <3>1
  <2> QED
    BY <2>1, <2>2
<1>8. [i \in 0..n |-> g[i]] = [i \in 0..n |-> IF i = 0 THEN Fresh ELSE replayLine(g[i - 1], s[i])]
  BY <1>7
<1> QED
  BY <1>6, <1>8 DEF Run

\* What the replay is after no line, and after one more.
LEMMA AfterLines ==
    ASSUME NEW s, SoundLines(s)
    PROVE  /\ Len(s) \in Nat
           /\ after(s, 0) = Fresh
           /\ \A i \in 1..Len(s) : after(s, i) = replayLine(after(s, i - 1), s[i])
<1>1. PICK f : Run(f, s) /\ \A i : after(s, i) = f[i]
  BY RunExists DEF after
<1>2. Len(s) \in Nat
  BY DEF SoundLines
<1>3. \A i \in 0..Len(s) : f[i] = IF i = 0 THEN Fresh ELSE replayLine(f[i - 1], s[i])
  BY <1>1 DEF Run
<1>4. 0 \in 0..Len(s) /\ \A i \in 1..Len(s) : i \in 0..Len(s) /\ i # 0
  BY <1>2
<1> QED
  BY <1>1, <1>2, <1>3, <1>4

\* Every state of a replay is sound.
LEMMA AfterSound ==
    ASSUME NEW s, SoundLines(s)
    PROVE  \A i \in 0..Len(s) : Sound(after(s, i))
<1> DEFINE good == {i \in 0..Len(s) : Sound(after(s, i))}
<1>1. Len(s) \in Nat
  BY DEF SoundLines
<1>2. 0 \in good
  BY <1>1, AfterLines, FreshSound
<1>3. ASSUME NEW k \in 0..Len(s), k \in good, k < Len(s) PROVE k + 1 \in good
  <2>1. k + 1 \in 1..Len(s) /\ k + 1 \in 0..Len(s) /\ (k + 1) - 1 = k
    BY <1>1, <1>3
  <2>2. after(s, k + 1) = replayLine(after(s, k), s[k + 1])
    <3>1. after(s, k + 1) = replayLine(after(s, (k + 1) - 1), s[k + 1])
      BY <2>1, AfterLines
    <3> QED
      BY <2>1, <3>1
  <2>3. SoundLine(s[k + 1])
    BY <2>1, LineAt
  <2>4. Sound(after(s, k + 1))
    BY <1>3, <2>2, <2>3, ReplaySound
  <2> QED
    BY <2>1, <2>4
<1>4. \A i \in 0..Len(s) : i \in good
  <2> HIDE DEF good
  <2> QED
    BY <1>1, <1>2, <1>3, UpTo
<1> QED
  BY <1>4

\* Two files with the same first n lines replay to the same states up to there.
LEMMA AfterPrefix ==
    ASSUME NEW s, SoundLines(s), NEW u, SoundLines(u), NEW n \in Nat,
           n <= Len(s), n <= Len(u), \A i \in 1..n : s[i] = u[i]
    PROVE  \A i \in 0..n : after(s, i) = after(u, i)
<1> DEFINE good == {i \in 0..n : after(s, i) = after(u, i)}
<1>1. Len(s) \in Nat /\ Len(u) \in Nat
  BY DEF SoundLines
<1>2. 0 \in good
  BY AfterLines
<1>3. ASSUME NEW k \in 0..n, k \in good, k < n PROVE k + 1 \in good
  <2>1. k + 1 \in 1..Len(s) /\ k + 1 \in 1..Len(u) /\ k + 1 \in 1..n /\ (k + 1) - 1 = k
    BY <1>1, <1>3
  <2>2. after(s, k + 1) = replayLine(after(s, k), s[k + 1])
    <3>1. after(s, k + 1) = replayLine(after(s, (k + 1) - 1), s[k + 1])
      BY <2>1, AfterLines
    <3> QED
      BY <2>1, <3>1
  <2>3. after(u, k + 1) = replayLine(after(u, k), u[k + 1])
    <3>1. after(u, k + 1) = replayLine(after(u, (k + 1) - 1), u[k + 1])
      BY <2>1, AfterLines
    <3> QED
      BY <2>1, <3>1
  <2>4. k + 1 \in 0..n /\ s[k + 1] = u[k + 1] /\ after(s, k) = after(u, k)
    BY <1>3, <2>1
  <2> QED
    BY <2>2, <2>3, <2>4
<1>4. \A i \in 0..n : i \in good
  <2> HIDE DEF good
  <2> QED
    BY <1>2, <1>3, UpTo
<1> QED
  BY <1>4

\* A line appended is folded last.
LEMMA WholeAppend ==
    ASSUME NEW s, SoundLines(s), NEW e \in Event, SoundLines(Append(s, e))
    PROVE  whole(Append(s, e)) = foldLocked(whole(s), e)
<1>1. PICK u, n : u = Append(s, e) /\ n = Len(s)
  OBVIOUS
<1>2. n \in Nat /\ Len(u) = n + 1 /\ u[n + 1] = e /\ \A i \in 1..n : s[i] = u[i]
  BY <1>1 DEF SoundLines
<1>3. after(s, n) = after(u, n)
  <2>1. n <= Len(s) /\ n <= Len(u) /\ n \in 0..n /\ SoundLines(u)
    BY <1>1, <1>2
  <2> QED
    BY <1>2, <2>1, AfterPrefix
<1>4. after(u, n + 1) = replayLine(after(u, n), e)
  <2>1. n + 1 \in 1..Len(u) /\ (n + 1) - 1 = n /\ SoundLines(u)
    BY <1>1, <1>2
  <2>2. after(u, n + 1) = replayLine(after(u, (n + 1) - 1), u[n + 1])
    BY <2>1, AfterLines
  <2> QED
    BY <1>2, <2>1, <2>2
<1>5. e.kind # "checkpoint"
  BY DEF Event, OpenEvent, ResolveEvent, VoteEvent, SilenceEvent, ConfirmEvent, VerifyEvent, LinkEvent
<1> QED
  BY <1>1, <1>2, <1>3, <1>4, <1>5 DEF whole, replayLine

\* One line replayed keeps two sound records agreeing.
LEMMA ReplayAgrees ==
    ASSUME NEW a, NEW b, NEW t, Agree(a, b, t), Sound(a), Sound(b), NEW l, SoundLine(l)
    PROVE  Agree(replayLine(a, l), replayLine(b, l), t)
<1>1. CASE l.kind = "checkpoint"
  BY <1>1, SeedAgrees DEF replayLine, SoundLine, Sound
<1>2. CASE l.kind # "checkpoint"
  BY <1>2, FoldAgrees DEF replayLine, SoundLine, Sound
<1> QED
  BY <1>1, <1>2

\* A sequence after a one-element one.
LEMMA AfterHead ==
    ASSUME NEW S, NEW h \in S, NEW v \in Seq(S), NEW c, c = <<h>> \o v
    PROVE  /\ Len(c) = Len(v) + 1
           /\ c[1] = h
           /\ \A j \in 1..Len(v) : c[j + 1] = v[j]
<1>1. PICK w : w = <<h>>
  OBVIOUS
<1>2. w \in Seq(S) /\ Len(w) = 1 /\ w[1] = h
  BY <1>1
<1>3. Len(v) \in Nat
  OBVIOUS
<1>4. /\ Len(w \o v) = Len(w) + Len(v)
      /\ \A i \in 1..(Len(w) + Len(v)) : (w \o v)[i] = IF i <= Len(w) THEN w[i] ELSE v[i - Len(w)]
  BY <1>2, ConcatProperties
<1>5. PICK n : n = Len(v) /\ c = w \o v
  BY <1>1
<1>6. Len(c) = n + 1 /\ \A i \in 1..(n + 1) : c[i] = IF i <= 1 THEN h ELSE v[i - 1]
  BY <1>2, <1>3, <1>4, <1>5
<1>7. c[1] = h
  BY <1>3, <1>5, <1>6
<1>8. ASSUME NEW j \in 1..n PROVE c[j + 1] = v[j]
  <2>1. j + 1 \in 1..(n + 1) /\ ~(j + 1 <= 1) /\ (j + 1) - 1 = j
    BY <1>3, <1>5
  <2> QED
    BY <1>6, <2>1
<1> QED
  BY <1>1, <1>5, <1>6, <1>7, <1>8

\* A file whose first c lines a checkpoint of their replay stands for replays, at t or
\* later, to what the whole file did.
LEMMA CompactAgrees ==
    ASSUME NEW s, SoundLines(s), NEW c \in 1..Len(s), NEW t,
           NEW head, head = checkpoint(pruneLapsedSilencesLocked(after(s, c), t)),
           NEW u, u = <<head>> \o SubSeq(s, c + 1, Len(s)), SoundLines(u)
    PROVE  Agree(whole(u), whole(s), t)
<1>1. PICK n, d, x : n = Len(s) /\ d = Len(s) - c /\ x = pruneLapsedSilencesLocked(after(s, c), t)
  OBVIOUS
<1>2. n \in Nat /\ c \in Nat \ {0} /\ c <= n /\ d \in Nat /\ n = c + d
  BY <1>1 DEF SoundLines
<1>3. Len(u) = d + 1 /\ u[1] = head /\ \A j \in 1..d : u[j + 1] = s[c + j]
  <2>1. PICK v : v = SubSeq(s, c + 1, n)
    OBVIOUS
  <2>2. PICK S : s \in Seq(S)
    BY DEF SoundLines
  <2>3. v \in Seq(S) /\ Len(v) = d /\ \A j \in 1..d : v[j] = s[c + j]
    BY <1>1, <1>2, <2>1, <2>2
  <2>4. u = <<head>> \o v
    BY <1>1, <2>1
  <2>5. PICK T : T = S \cup {head}
    OBVIOUS
  <2>6. head \in T /\ v \in Seq(T)
    BY <2>3, <2>5
  <2>7. /\ Len(u) = Len(v) + 1 /\ u[1] = head
        /\ \A j \in 1..Len(v) : u[j + 1] = v[j]
    BY <2>4, <2>6, AfterHead
  <2> QED
    BY <2>3, <2>7
<1>4. Sound(after(s, c)) /\ Timed(x)
  <2>1. Sound(after(s, c))
    BY <1>1, <1>2, AfterSound
  <2> QED
    BY <1>1, <2>1, PruneTimed DEF Sound
<1> DEFINE good == {j \in 0..d : Agree(after(u, j + 1), after(s, c + j), t)}
<1>5. 0 \in good
  <2>1. after(u, 1) = replayLine(Fresh, head)
    <3>1. 1 \in 1..Len(u) /\ 1 - 1 = 0
      BY <1>2, <1>3
    <3>2. after(u, 1) = replayLine(after(u, 1 - 1), u[1]) /\ after(u, 0) = Fresh
      BY <3>1, AfterLines
    <3> QED
      BY <1>3, <3>1, <3>2
  <2>2. after(u, 1) = seedCheckpointLocked(Fresh, x)
    BY <1>1, <2>1 DEF replayLine, checkpoint
  <2>3. PICK y : y = seedCheckpointLocked(Fresh, x)
    OBVIOUS
  <2>4. Timed(y)
    BY <1>4, <2>3, FreshTimed, SeedTimed
  <2>5. Fresh.seen = 0 /\ Fresh.dropped = 0 /\ Fresh.stale = 0
    BY DEF Fresh
  <2>6. /\ y.seen = x.seen /\ y.dropped = x.dropped /\ y.stale = x.stale /\ y.silences = x.silences
        /\ \A f \in Fields \ {"seen", "dropped", "stale"} : y[f] = x[f]
    <3>1. /\ y.seen = Fresh.seen + x.seen /\ y.dropped = Fresh.dropped + x.dropped
          /\ y.stale = Fresh.stale + x.stale
          /\ \A f \in Fields \ {"seen", "dropped", "stale"} : y[f] = x[f]
      BY <1>4, <2>3 DEF seedCheckpointLocked, Timed, Whole, Fields
    <3>2. "silences" \in Fields \ {"seen", "dropped", "stale"}
      BY DEF Fields
    <3> QED
      BY <1>4, <2>5, <3>1, <3>2 DEF Timed
  <2>7. Alike(y, x)
    BY <2>6 DEF Alike, Shared
  <2>8. Agree(y, x, t)
    BY <1>4, <2>4, <2>6, <2>7, AgreeAlike
  <2>9. Agree(x, after(s, c), t)
    BY <1>1, <1>4, PruneAgrees DEF Sound
  <2>10. Agree(after(u, 0 + 1), after(s, c + 0), t)
    <3>1. Agree(y, after(s, c), t)
      BY <2>8, <2>9, AgreeOn
    <3> QED
      BY <1>2, <2>2, <2>3, <3>1
  <2> QED
    BY <1>2, <2>10
<1>6. ASSUME NEW k \in 0..d, k \in good, k < d PROVE k + 1 \in good
  <2>1. /\ k + 1 \in 1..d /\ k + 1 \in 0..d
        /\ (k + 1) + 1 \in 1..Len(u) /\ ((k + 1) + 1) - 1 = k + 1 /\ k + 1 \in 0..Len(u)
        /\ c + (k + 1) \in 1..Len(s) /\ (c + (k + 1)) - 1 = c + k /\ c + k \in 0..Len(s)
    BY <1>1, <1>2, <1>3, <1>6
  <2>2. after(u, (k + 1) + 1) = replayLine(after(u, k + 1), u[(k + 1) + 1])
    <3>1. after(u, (k + 1) + 1) = replayLine(after(u, ((k + 1) + 1) - 1), u[(k + 1) + 1])
      BY <2>1, AfterLines
    <3> QED
      BY <2>1, <3>1
  <2>3. after(s, c + (k + 1)) = replayLine(after(s, c + k), s[c + (k + 1)])
    <3>1. after(s, c + (k + 1)) = replayLine(after(s, (c + (k + 1)) - 1), s[c + (k + 1)])
      BY <2>1, AfterLines
    <3> QED
      BY <2>1, <3>1
  <2>4. u[(k + 1) + 1] = s[c + (k + 1)]
    BY <1>3, <2>1
  <2>5. SoundLine(s[c + (k + 1)])
    BY <2>1, LineAt
  <2>6. Sound(after(u, k + 1)) /\ Sound(after(s, c + k))
    BY <2>1, AfterSound
  <2>7. Agree(after(u, k + 1), after(s, c + k), t)
    BY <1>6
  <2>8. Agree(after(u, (k + 1) + 1), after(s, c + (k + 1)), t)
    BY <2>2, <2>3, <2>4, <2>5, <2>6, <2>7, ReplayAgrees
  <2> QED
    BY <2>1, <2>8
<1>7. \A k \in 0..d : k \in good
  <2> HIDE DEF good
  <2> QED
    BY <1>2, <1>5, <1>6, UpTo
<1>8. Agree(after(u, d + 1), after(s, c + d), t)
  BY <1>2, <1>7
<1> QED
  BY <1>1, <1>2, <1>3, <1>8 DEF whole

\* The ledger's own name for a replay of the file.
LEMMA ReplayedIs == SoundLines(file) => Replayed = pruneLapsedSilencesLocked(whole(file), now)
<1> SUFFICES ASSUME SoundLines(file) PROVE Replayed = pruneLapsedSilencesLocked(whole(file), now)
  OBVIOUS
<1> DEFINE n == Len(file)
           R(g) == g = [i \in 0..n |-> IF i = 0 THEN {Fresh}
                                       ELSE {replayLine(m, file[i]) : m \in g[i - 1]}]
           A == CHOOSE g : R(g)
<1>1. n \in Nat
  BY DEF SoundLines
<1>2. R(A)
  <2> DEFINE g == [i \in 0..n |-> {after(file, i)}]
  <2>1. ASSUME NEW i \in 0..n
        PROVE  g[i] = IF i = 0 THEN {Fresh} ELSE {replayLine(m, file[i]) : m \in g[i - 1]}
    <3>1. CASE i = 0
      BY <3>1, AfterLines
    <3>2. CASE i # 0
      <4>1. i \in 1..n /\ i - 1 \in 0..n
        BY <1>1, <3>2
      <4>2. after(file, i) = replayLine(after(file, i - 1), file[i])
        BY <4>1, AfterLines
      <4> QED
        BY <3>2, <4>1, <4>2
    <3> QED
      BY <3>1, <3>2
  <2>2. R(g)
    BY <2>1
  <2> HIDE DEF R, g
  <2> QED
    BY <2>2
<1>3. Replayed = CHOOSE s \in {pruneLapsedSilencesLocked(m, now) : m \in A[n]} : TRUE
  BY DEF Replayed
<1> HIDE DEF A
<1> DEFINE good == {i \in 0..n : A[i] = {after(file, i)}}
<1>4. A[0] = {Fresh} /\ \A i \in 1..n : A[i] = {replayLine(m, file[i]) : m \in A[i - 1]}
  <2>1. \A i \in 0..n : A[i] = IF i = 0 THEN {Fresh} ELSE {replayLine(m, file[i]) : m \in A[i - 1]}
    BY <1>2
  <2>2. 0 \in 0..n /\ \A i \in 1..n : i \in 0..n /\ i # 0
    BY <1>1
  <2> QED
    BY <2>1, <2>2
<1>5. 0 \in good
  BY <1>1, <1>4, AfterLines
<1>6. ASSUME NEW k \in 0..n, k \in good, k < n PROVE k + 1 \in good
  <2>1. k + 1 \in 1..n /\ k + 1 \in 0..n /\ (k + 1) - 1 = k
    BY <1>1, <1>6
  <2>2. after(file, k + 1) = replayLine(after(file, k), file[k + 1])
    <3>1. after(file, k + 1) = replayLine(after(file, (k + 1) - 1), file[k + 1])
      BY <2>1, AfterLines
    <3> QED
      BY <2>1, <3>1
  <2>3. A[k + 1] = {replayLine(m, file[k + 1]) : m \in A[k]}
    <3>1. A[k + 1] = {replayLine(m, file[k + 1]) : m \in A[(k + 1) - 1]}
      BY <1>4, <2>1
    <3> QED
      BY <2>1, <3>1
  <2>4. A[k] = {after(file, k)}
    BY <1>6
  <2> QED
    BY <2>1, <2>2, <2>3, <2>4
<1>7. \A k \in 0..n : k \in good
  <2> HIDE DEF good
  <2> QED
    BY <1>1, <1>5, <1>6, UpTo
<1>8. A[n] = {whole(file)}
  BY <1>1, <1>7 DEF whole
<1> QED
  BY <1>3, <1>8

-----------------------------------------------------------------------------
(* One process and its file.                                               *)

\* What p has folded so far is the replay of the lines it has read, and the file is the
\* one it read.
Loading(p) ==
    /\ load[p].pc \in {"fold", "scratch"} => load[p].events = file
    /\ load[p].pc = "fold" =>
         /\ load[p].i - 1 \in 0..Len(file)
         /\ mem[p] = after(file, load[p].i - 1)
         /\ load[p].scratch = Fresh
    /\ load[p].pc = "scratch" =>
         /\ load[p].i - 1 \in 0..cut(file)
         /\ load[p].scratch = after(file, load[p].i - 1)

Clocked == now \in Nat

\* What a step does to the file and the clock, as a replay sees it.
FileStep ==
    \/ file' = file /\ now' = now
    \/ file' = file /\ now < MaxTime /\ now' = now + 1
    \/ now' = now /\ \E e \in Events : file' = Append(file, e)
    \/ now' = now /\ Agree(whole(file'), whole(file), now)

\* What a sound state says of p and of the file.
LEMMA StateFacts ==
    ASSUME SoundState, NEW p \in Procs
    PROVE  /\ SoundLines(file) /\ Len(file) \in Nat
           /\ Sound(mem[p]) /\ SoundLoad(load[p])
           /\ load[p].i \in Nat \ {0}
           /\ mem = [q \in Procs |-> mem[q]] /\ load = [q \in Procs |-> load[q]]
    BY DEF SoundState, SoundLoad, SoundLines

\* A compaction that reached its last line writes the checkpoint of the lines it absorbs.
LEMMA RewriteStep ==
    ASSUME SoundState, SoundState', NEW p \in Procs, Loading(p), Rewrite(p)
    PROVE  /\ load' = [load EXCEPT ![p] = Up] /\ UNCHANGED <<now, mem>>
           /\ file' = file \/ Agree(whole(file'), whole(file), now)
           /\ torn' \in {FALSE, torn}
<1>1. /\ load[p].pc = "scratch" /\ load[p].i > cut(load[p].events)
      /\ load' = [load EXCEPT ![p] = Up] /\ UNCHANGED <<now, mem>> /\ torn' \in {FALSE, torn}
      /\ \/ file' = file
         \/ file' = <<checkpoint(pruneLapsedSilencesLocked(load[p].scratch, now))>>
                      \o SubSeq(load[p].events, cut(load[p].events) + 1, Len(load[p].events))
  BY DEF Rewrite
<1>2. PICK c : c = cut(file)
  OBVIOUS
<1>3. /\ load[p].events = file /\ load[p].i - 1 \in 0..c /\ load[p].scratch = after(file, load[p].i - 1)
      /\ SoundLines(file) /\ Len(file) \in Nat /\ load[p].i \in Nat \ {0}
      /\ MaxEvents > 0 /\ Len(file) > MaxEvents /\ MaxEvents \in Nat
  BY <1>1, <1>2, StateFacts, LedgerConstants DEF Loading, SoundLoad
<1>4. c \in 1..Len(file) /\ load[p].i - 1 = c
  BY <1>1, <1>2, <1>3 DEF cut
<1>5. CASE file' = file
  BY <1>1, <1>5
<1>6. CASE file' = <<checkpoint(pruneLapsedSilencesLocked(load[p].scratch, now))>>
                      \o SubSeq(load[p].events, cut(load[p].events) + 1, Len(load[p].events))
  <2>1. PICK head : head = checkpoint(pruneLapsedSilencesLocked(after(file, c), now))
    OBVIOUS
  <2>2. file' = <<head>> \o SubSeq(file, c + 1, Len(file))
    BY <1>2, <1>3, <1>4, <1>6, <2>1
  <2>3. SoundLines(file')
    BY DEF SoundState
  <2>4. PICK u : u = file'
    OBVIOUS
  <2>5. Agree(whole(u), whole(file), now)
    BY <1>3, <1>4, <2>1, <2>2, <2>3, <2>4, CompactAgrees
  <2> QED
    BY <1>1, <2>4, <2>5
<1> QED
  BY <1>1, <1>5, <1>6

\* What a step of the only process does to the file.
LEMMA StepsOfTheFile ==
    ASSUME SoundState, SoundState', NEW p, Procs = {p}, Loading(p), [Next]_vars
    PROVE  FileStep
<1>1. CASE UNCHANGED vars
  BY <1>1 DEF vars, FileStep
<1>2. CASE Tick
  BY <1>2 DEF Tick, FileStep
<1>3. ASSUME NEW e \in Events, Call(p, e) PROVE FileStep
  <2>1. record(p, e, foldLocked(mem[p], e))
    BY <1>3, CallRecords
  <2>2. now' = now /\ file' \in {file, Append(file, e)}
    BY <2>1 DEF record, lineWritten
  <2> QED
    BY <2>2 DEF FileStep
<1>4. CASE StartLoad(p) \/ FoldLine(p) \/ EndFold(p) \/ ScratchLine(p) \/ Crash(p)
  BY <1>4 DEF StartLoad, FoldLine, EndFold, ScratchLine, Crash, FileStep
<1>5. CASE Rewrite(p)
  BY <1>5, RewriteStep DEF FileStep
<1> QED
  BY <1>1, <1>2, <1>3, <1>4, <1>5 DEF Next

\* What p has folded stays the replay of what it has read.
LEMMA LoadingStep ==
    ASSUME SoundState, SoundState', NEW p, Procs = {p}, Loading(p), [Next]_vars
    PROVE  Loading(p)'
<1>0. /\ SoundLines(file) /\ Len(file) \in Nat /\ load[p].i \in Nat \ {0} /\ SoundLoad(load[p])
      /\ mem = [q \in Procs |-> mem[q]] /\ load = [q \in Procs |-> load[q]]
  BY StateFacts
<1>1. CASE UNCHANGED vars \/ Tick
  BY <1>1 DEF vars, Tick, Loading
<1>2. ASSUME NEW e \in Events, Call(p, e) PROVE Loading(p)'
  <2>1. record(p, e, foldLocked(mem[p], e))
    BY <1>2, CallRecords
  <2>2. load[p].pc = "up" /\ (load' = load \/ load' = [load EXCEPT ![p] = NoLoad])
    BY <2>1 DEF record
  <2>3. load'[p].pc \in {"up", "down"}
    BY <1>0, <2>2 DEF NoLoad
  <2> QED
    BY <2>3 DEF Loading
<1>3. CASE StartLoad(p)
  <2>1. /\ load'[p] = [pc |-> "fold", events |-> file, i |-> 1, scratch |-> Fresh]
        /\ mem'[p] = Fresh /\ file' = file
    BY <1>0, <1>3 DEF StartLoad
  <2>2. after(file, 0) = Fresh /\ 1 - 1 = 0 /\ 0 \in 0..Len(file)
    BY <1>0, AfterLines
  <2> QED
    BY <2>1, <2>2 DEF Loading
<1>4. CASE FoldLine(p)
  <2>1. PICK i : i = load[p].i
    OBVIOUS
  <2>2. /\ load[p].pc = "fold" /\ i <= Len(file) /\ load[p].events = file
        /\ mem[p] = after(file, i - 1) /\ load'[p].scratch = Fresh
        /\ mem'[p] = replayLine(mem[p], file[i])
        /\ load'[p].pc = "fold" /\ load'[p].events = file /\ load'[p].i = i + 1
        /\ file' = file
    BY <1>0, <1>4, <2>1 DEF FoldLine, Loading, SoundLoad
  <2>3. i \in 1..Len(file) /\ (i + 1) - 1 = i /\ i \in 0..Len(file)
    BY <1>0, <2>1, <2>2
  <2>4. mem'[p] = after(file, i)
    BY <1>0, <2>2, <2>3, AfterLines
  <2> QED
    BY <2>2, <2>3, <2>4 DEF Loading
<1>5. CASE EndFold(p)
  <2>1. /\ load[p].events = file /\ file' = file
        /\ \/ load'[p].pc = "up"
           \/ /\ load'[p].pc = "scratch" /\ load'[p].events = file /\ load'[p].i = 1
              /\ load'[p].scratch = load[p].scratch
              /\ MaxEvents > 0 /\ Len(file) > MaxEvents
    BY <1>0, <1>5 DEF EndFold, Loading, SoundLoad, Up, NoLoad
  <2>2. load[p].pc = "fold" /\ load[p].scratch = Fresh
    BY <1>5 DEF EndFold, Loading
  <2>3. CASE load'[p].pc = "up"
    BY <2>3 DEF Loading
  <2>4. CASE load'[p].pc = "scratch"
    <3>1. 1 - 1 = 0 /\ 0 \in 0..cut(file) /\ after(file, 0) = Fresh
      BY <1>0, <2>1, <2>4, LedgerConstants, AfterLines DEF cut
    <3> QED
      BY <2>1, <2>2, <2>4, <3>1 DEF Loading
  <2> QED
    BY <2>1, <2>3, <2>4
<1>6. CASE ScratchLine(p)
  <2>1. PICK i : i = load[p].i
    OBVIOUS
  <2>2. /\ load[p].pc = "scratch" /\ load[p].events = file /\ i <= cut(file)
        /\ load[p].scratch = after(file, i - 1)
        /\ load'[p].scratch = replayLine(load[p].scratch, file[i])
        /\ load'[p].pc = "scratch" /\ load'[p].events = file /\ load'[p].i = i + 1
        /\ file' = file /\ MaxEvents > 0 /\ MaxEvents \in Nat /\ Len(file) > MaxEvents
    BY <1>0, <1>6, <2>1, LedgerConstants DEF ScratchLine, Loading, SoundLoad
  <2>3. i \in 1..Len(file) /\ (i + 1) - 1 = i /\ i \in 0..cut(file)
    BY <1>0, <2>1, <2>2 DEF cut
  <2>4. load'[p].scratch = after(file, i)
    BY <1>0, <2>2, <2>3, AfterLines
  <2> QED
    BY <2>2, <2>3, <2>4 DEF Loading
<1>7. CASE Rewrite(p)
  <2>1. load'[p].pc = "up"
    BY <1>0, <1>7 DEF Rewrite, Up, NoLoad
  <2> QED
    BY <2>1 DEF Loading
<1>8. CASE Crash(p)
  <2>1. load'[p].pc = "down"
    BY <1>0, <1>8 DEF Crash, NoLoad
  <2> QED
    BY <2>1 DEF Loading
<1> QED
  BY <1>1, <1>2, <1>3, <1>4, <1>5, <1>6, <1>7, <1>8 DEF Next

\* The abstract ledger folds with the same operators.
LEMMA SameFold ==
    /\ Durable!Fresh = Fresh
    /\ \A m, t : Durable!pruneLapsedSilencesLocked(m, t) = pruneLapsedSilencesLocked(m, t)
    /\ \A m, e : Durable!foldLocked(m, e) = foldLocked(m, e)
<1>1. Durable!Fresh = Fresh
  BY DEF Durable!Fresh, Fresh, Durable!Counters, Counters, Durable!NoTriggerAgg, NoTriggerAgg
<1>2. \A m, t : Durable!pruneLapsedSilencesLocked(m, t) = pruneLapsedSilencesLocked(m, t)
  BY DEF Durable!pruneLapsedSilencesLocked, pruneLapsedSilencesLocked
<1>3. \A m, e : Durable!applyOpenLocked(m, e) = applyOpenLocked(m, e)
  BY DEF Durable!applyOpenLocked, applyOpenLocked, Durable!credit, credit,
         Durable!counted, counted, Durable!resolvesSince, resolvesSince
<1>4. \A m, e : Durable!applyTriggerLocked(m, e) = applyTriggerLocked(m, e)
  BY DEF Durable!applyTriggerLocked, applyTriggerLocked
<1>5. \A m, f, t : Durable!applyResolveLocked(m, f, t) = applyResolveLocked(m, f, t)
  BY DEF Durable!applyResolveLocked, applyResolveLocked, Durable!credit, credit,
         Durable!unsilenced, unsilenced
<1>6. \A m, e : Durable!applyFeedbackLocked(m, e) = applyFeedbackLocked(m, e)
  BY DEF Durable!applyFeedbackLocked, applyFeedbackLocked, Durable!credit, credit
<1>7. \A m, e : Durable!applySilenceLocked(m, e) = applySilenceLocked(m, e)
  BY DEF Durable!applySilenceLocked, applySilenceLocked
<1>8. \A m, e : Durable!applyConfirmLocked(m, e) = applyConfirmLocked(m, e)
  BY DEF Durable!applyConfirmLocked, applyConfirmLocked, Durable!credit, credit
<1>9. \A m, e : Durable!applyVerifyLocked(m, e) = applyVerifyLocked(m, e)
  BY DEF Durable!applyVerifyLocked, applyVerifyLocked, Durable!credit, credit
<1>10. \A m, e : Durable!applyLinkLocked(m, e) = applyLinkLocked(m, e)
  BY DEF Durable!applyLinkLocked, applyLinkLocked
<1>11. ASSUME NEW m, NEW e PROVE Durable!foldLocked(m, e) = foldLocked(m, e)
  <2>1. PICK a, r : a = [m EXCEPT !.open[e.fp] = e] /\ r = applyResolveLocked(m, e.fp, e.at)
    OBVIOUS
  <2> QED
    BY <1>3, <1>4, <1>5, <1>6, <1>7, <1>8, <1>9, <1>10, <2>1 DEF Durable!foldLocked, foldLocked
<1> QED
  BY <1>1, <1>2, <1>11

\* A sound file replays to a sound record.
LEMMA WholeSound ==
    ASSUME NEW s, SoundLines(s)
    PROVE  Sound(whole(s))
<1>1. Len(s) \in 0..Len(s)
  BY DEF SoundLines
<1> QED
  BY <1>1, AfterSound DEF whole

\* The replay of an empty file is the abstract ledger's first state.
LEMMA FirstReplay == Init => Durable!Init
<1> SUFFICES ASSUME Init PROVE Durable!Init
  OBVIOUS
<1>1. SoundLines(file) /\ now = 1 /\ file = <<>>
  BY InitSound DEF Init, SoundState
<1>2. whole(file) = Fresh
  <2>1. Len(file) = 0
    BY <1>1
  <2>2. after(file, 0) = Fresh
    BY <1>1, AfterLines
  <2> QED
    BY <2>1, <2>2 DEF whole
<1>3. Replayed = pruneLapsedSilencesLocked(Fresh, now)
  BY <1>1, <1>2, ReplayedIs
<1>4. pruneLapsedSilencesLocked(Fresh, now) = Fresh
  BY DEF pruneLapsedSilencesLocked, Fresh
<1> QED
  BY <1>1, <1>3, <1>4, SameFold DEF Durable!Init

\* Folding an event into a pruned record and pruning again is pruning once, at the end.
LEMMA PruneThenFold ==
    ASSUME NEW m, Sound(m), NEW t, NEW e \in Event
    PROVE  pruneLapsedSilencesLocked(foldLocked(pruneLapsedSilencesLocked(m, t), e), t)
             = pruneLapsedSilencesLocked(foldLocked(m, e), t)
<1>1. PICK x : x = pruneLapsedSilencesLocked(m, t)
  OBVIOUS
<1>2. Sound(x)
  BY <1>1, PruneSound
<1>3. Agree(x, m, t)
  BY <1>1, PruneAgrees DEF Sound
<1>4. Agree(foldLocked(x, e), foldLocked(m, e), t)
  BY <1>2, <1>3, FoldAgrees DEF Sound
<1> QED
  BY <1>1, <1>4, AgreePrune

\* Pruning a pruned record later is pruning it then.
LEMMA PruneThenLapse ==
    ASSUME NEW m, Sound(m), NEW t \in Int, NEW u \in Int, t <= u
    PROVE  pruneLapsedSilencesLocked(pruneLapsedSilencesLocked(m, t), u)
             = pruneLapsedSilencesLocked(m, u)
<1>1. PICK x : x = pruneLapsedSilencesLocked(m, t)
  OBVIOUS
<1>2. Agree(x, m, t)
  BY <1>1, PruneAgrees DEF Sound
<1>3. Agree(x, m, u)
  BY <1>2, AgreeLater
<1> QED
  BY <1>1, <1>3, AgreePrune

\* What a step does to the file the abstract ledger does to its state.
LEMMA ReplayStep ==
    ASSUME SoundState, SoundState', Clocked, FileStep
    PROVE  [Durable!Next]_<<now, Replayed>>
<1>1. PICK r, w, s : r = Replayed /\ w = whole(file) /\ s = file
  OBVIOUS
<1>2. PICK q, z, u : q = Replayed' /\ z = whole(file') /\ u = file'
  OBVIOUS
<1>3. SoundLines(s) /\ SoundLines(u)
  BY <1>1, <1>2 DEF SoundState
<1>4. r = pruneLapsedSilencesLocked(w, now) /\ q = pruneLapsedSilencesLocked(z, now')
  <2>1. (SoundLines(file) => Replayed = pruneLapsedSilencesLocked(whole(file), now))'
    BY ReplayedIs, PTL
  <2> QED
    BY <1>1, <1>2, <1>3, <2>1, ReplayedIs
<1>5. Sound(w) /\ Sound(z)
  BY <1>1, <1>2, <1>3, WholeSound
<1>6. CASE u = s /\ now' = now
  BY <1>1, <1>2, <1>4, <1>6
<1>7. CASE u = s /\ now < MaxTime /\ now' = now + 1
  <2>1. now \in Int /\ now + 1 \in Int /\ now <= now + 1
    BY DEF Clocked
  <2>2. q = pruneLapsedSilencesLocked(r, now + 1)
    BY <1>1, <1>2, <1>4, <1>5, <1>7, <2>1, PruneThenLapse
  <2>3. Durable!Tick
    BY <1>1, <1>2, <1>7, <2>2, SameFold DEF Durable!Tick
  <2> QED
    BY <2>3 DEF Durable!Next
<1>8. ASSUME now' = now, NEW e \in Events, u = Append(s, e) PROVE [Durable!Next]_<<now, Replayed>>
  <2>1. e \in Event
    BY LedgerConstants
  <2>2. z = foldLocked(w, e)
    BY <1>1, <1>2, <1>3, <1>8, <2>1, WholeAppend
  <2>3. q = pruneLapsedSilencesLocked(foldLocked(r, e), now)
    BY <1>4, <1>5, <1>8, <2>1, <2>2, PruneThenFold
  <2>4. q \in {Durable!pruneLapsedSilencesLocked(Durable!foldLocked(r, d), now) : d \in Events}
    BY <2>3, SameFold
  <2>5. Durable!Record
    BY <1>1, <1>2, <1>8, <2>4 DEF Durable!Record
  <2> QED
    BY <2>5 DEF Durable!Next
<1>9. CASE now' = now /\ Agree(z, w, now)
  <2>1. q = r
    BY <1>4, <1>9, AgreePrune
  <2> QED
    BY <1>1, <1>2, <1>9, <2>1
<1> QED
  BY <1>1, <1>2, <1>6, <1>7, <1>8, <1>9 DEF FileStep

\* The clock is a number.
LEMMA ClockStep ==
    ASSUME Clocked, [Next]_vars, NEW p, Procs = {p}
    PROVE  Clocked'
<1>1. ASSUME NEW e \in Events, Call(p, e) PROVE Clocked'
  <2>1. record(p, e, foldLocked(mem[p], e))
    BY <1>1, CallRecords
  <2> QED
    BY <2>1 DEF record, Clocked
<1> QED
  BY <1>1 DEF Next, vars, Clocked, Tick, StartLoad, FoldLine, EndFold, ScratchLine, Rewrite, Crash

\* It begins as one, and no load is under way.
LEMMA InitFile ==
    ASSUME Init, NEW p, Procs = {p}
    PROVE  Clocked /\ Loading(p)
<1>1. now = 1 /\ load[p].pc = "down"
  BY DEF Init, NoLoad
<1> QED
  BY <1>1 DEF Clocked, Loading

\* A ledger file that one process writes, compacts and replays implements the durable
\* ledger, through any crash and any failed write.
THEOREM LedgerIsDurable ==
    ASSUME NEW p, Procs = {p}
    PROVE  Spec => IsDurable
<1>1. Init => Clocked /\ Loading(p)
  BY InitFile
<1>2. SoundState /\ SoundState' /\ Clocked /\ Loading(p) /\ [Next]_vars => Clocked' /\ Loading(p)'
  BY ClockStep, LoadingStep
<1>3. SoundState /\ SoundState' /\ Clocked /\ Loading(p) /\ [Next]_vars
        => [Durable!Next]_<<now, Replayed>>
  BY StepsOfTheFile, ReplayStep
<1>4. Init => Durable!Init
  BY FirstReplay
<1>5. Spec => []SoundState
  BY LedgerSound
<1> QED
  BY <1>1, <1>2, <1>3, <1>4, <1>5, PTL DEF Spec, IsDurable, Durable!Spec

-----------------------------------------------------------------------------
\* What keeps the only process's indexes in lockstep with the file.
Lock(p) ==
    /\ ~torn
    /\ load[p].pc \in {"up", "scratch"} => Agree(mem[p], whole(file), now)

\* Every step of the only process keeps it, while no write fails.
LEMMA LockStep ==
    ASSUME SoundState, SoundState', NEW p, Procs = {p}, "sync" \notin Faults, "short" \notin Faults,
           Clocked, Loading(p), Lock(p), [Next]_vars
    PROVE  Lock(p)'
<1>0. /\ SoundLines(file) /\ Len(file) \in Nat /\ load[p].i \in Nat \ {0} /\ SoundLoad(load[p])
      /\ Sound(mem[p])
      /\ mem = [q \in Procs |-> mem[q]] /\ load = [q \in Procs |-> load[q]]
  BY StateFacts
<1>1. CASE UNCHANGED vars
  BY <1>1 DEF vars, Lock
<1>2. CASE Tick
  <2>1. now \in Int /\ now' \in Int /\ now <= now'
    BY <1>2 DEF Clocked, Tick
  <2>2. UNCHANGED <<file, torn, mem, load>>
    BY <1>2 DEF Tick
  <2>3. PICK a, b : a = mem[p] /\ b = whole(file)
    OBVIOUS
  <2>4. Agree(a, b, now) => Agree(a, b, now')
    BY <2>1, AgreeLater
  <2> QED
    BY <2>2, <2>3, <2>4 DEF Lock
<1>3. ASSUME NEW e \in Events, Call(p, e) PROVE Lock(p)'
  <2>1. record(p, e, foldLocked(mem[p], e)) /\ e \in Event
    BY <1>3, CallRecords, LedgerConstants
  <2>2. /\ load[p].pc = "up" /\ now' = now /\ file' = Append(file, e) /\ torn' = FALSE
        /\ \/ load' = load /\ mem' = [mem EXCEPT ![p] = foldLocked(mem[p], e)]
           \/ load' = [load EXCEPT ![p] = NoLoad]
    BY <2>1 DEF record, lineWritten, Lock
  <2>3. CASE load' = [load EXCEPT ![p] = NoLoad]
    <3>1. load'[p].pc = "down"
      BY <1>0, <2>3 DEF NoLoad
    <3> QED
      BY <2>2, <3>1 DEF Lock
  <2>4. CASE load' = load /\ mem' = [mem EXCEPT ![p] = foldLocked(mem[p], e)]
    <3>1. PICK a, b, c : a = mem[p] /\ b = whole(file) /\ c = whole(file')
      OBVIOUS
    <3>2. Agree(a, b, now) /\ Sound(a) /\ Sound(b)
      BY <1>0, <2>2, <3>1, WholeSound DEF Lock
    <3>3. c = foldLocked(b, e)
      <4>1. SoundLines(Append(file, e))
        BY <2>2 DEF SoundState
      <4> QED
        BY <1>0, <2>1, <2>2, <3>1, <4>1, WholeAppend
    <3>4. Agree(foldLocked(a, e), c, now)
      BY <2>1, <3>2, <3>3, FoldAgrees DEF Sound
    <3>5. mem'[p] = foldLocked(a, e)
      BY <1>0, <2>4, <3>1
    <3> QED
      BY <2>2, <3>1, <3>4, <3>5 DEF Lock
  <2> QED
    BY <2>2, <2>3, <2>4
<1>4. CASE StartLoad(p)
  <2>1. load'[p].pc = "fold" /\ torn' = torn
    BY <1>0, <1>4 DEF StartLoad
  <2> QED
    BY <2>1 DEF Lock
<1>5. CASE FoldLine(p)
  <2>1. load'[p].pc = "fold" /\ torn' = torn
    BY <1>0, <1>5 DEF FoldLine, SoundLoad
  <2> QED
    BY <2>1 DEF Lock
<1>6. CASE EndFold(p)
  <2>1. /\ mem'[p] = pruneLapsedSilencesLocked(mem[p], now) /\ now' = now
        /\ file' = file /\ torn' = torn /\ load[p].pc = "fold" /\ load[p].i > Len(load[p].events)
    BY <1>0, <1>6 DEF EndFold
  <2>2. mem[p] = whole(file)
    <3>1. load[p].i - 1 = Len(file)
      BY <1>0, <2>1 DEF Loading
    <3> QED
      BY <2>1, <3>1 DEF Loading, whole
  <2>3. Agree(pruneLapsedSilencesLocked(mem[p], now), mem[p], now)
    BY <1>0, PruneAgrees DEF Sound
  <2> QED
    BY <2>1, <2>2, <2>3 DEF Lock
<1>7. CASE ScratchLine(p)
  <2>1. load[p].pc = "scratch" /\ UNCHANGED <<now, file, torn, mem>>
    BY <1>7 DEF ScratchLine
  <2> QED
    BY <2>1 DEF Lock
<1>8. CASE Rewrite(p)
  <2>1. /\ load[p].pc = "scratch" /\ UNCHANGED <<now, mem>> /\ torn' = FALSE
        /\ file' = file \/ Agree(whole(file'), whole(file), now)
    <3>1. load[p].pc = "scratch" /\ torn = FALSE /\ p \in Procs
      BY <1>8 DEF Rewrite, Lock
    <3>2. /\ UNCHANGED <<now, mem>> /\ torn' \in {FALSE, torn}
          /\ file' = file \/ Agree(whole(file'), whole(file), now)
      BY <1>8, <3>1, RewriteStep
    <3> QED
      BY <3>1, <3>2
  <2>2. PICK a, b, c : a = mem[p] /\ b = whole(file) /\ c = whole(file')
    OBVIOUS
  <2>3. Agree(a, b, now)
    BY <2>1, <2>2 DEF Lock
  <2>4. Agree(a, c, now)
    <3>1. CASE file' = file
      BY <2>2, <2>3, <3>1
    <3>2. CASE Agree(c, b, now)
      BY <2>3, <3>2, AgreeBack, AgreeOn
    <3> QED
      BY <2>1, <2>2, <3>1, <3>2
  <2> QED
    BY <2>1, <2>2, <2>4 DEF Lock
<1>9. CASE Crash(p)
  <2>1. load'[p].pc = "down" /\ torn' = torn
    BY <1>0, <1>9 DEF Crash, NoLoad
  <2> QED
    BY <2>1 DEF Lock
<1> QED
  BY <1>1, <1>2, <1>3, <1>4, <1>5, <1>6, <1>7, <1>8, <1>9 DEF Next

\* The running process's indexes prune to what a replay would.
LEMMA LockIsLockstep ==
    ASSUME SoundState, NEW p, Procs = {p}, Lock(p)
    PROVE  Lockstep
<1>1. Replayed = pruneLapsedSilencesLocked(whole(file), now)
  BY ReplayedIs DEF SoundState
<1>2. load[p].pc = "up" => pruneLapsedSilencesLocked(mem[p], now) = Replayed
  BY <1>1, AgreePrune DEF Lock
<1> QED
  BY <1>2 DEF Lockstep

\* The indexes of the only process agree with a replay of its file whenever it runs, if its
\* writes never fail half-way.
THEOREM OneProcessInLockstep ==
    ASSUME NEW p, Procs = {p}, "sync" \notin Faults, "short" \notin Faults
    PROVE  Spec => []Lockstep
<1>1. Init => Clocked /\ Loading(p) /\ Lock(p)
  <2>1. Init => Clocked /\ Loading(p)
    BY InitFile
  <2>2. Init => Lock(p)
    BY DEF Init, NoLoad, Lock
  <2> QED
    BY <2>1, <2>2
<1>2. SoundState /\ SoundState' /\ Clocked /\ Loading(p) /\ Lock(p) /\ [Next]_vars
        => Clocked' /\ Loading(p)' /\ Lock(p)'
  BY ClockStep, LoadingStep, LockStep
<1>3. SoundState /\ Lock(p) => Lockstep
  BY LockIsLockstep
<1>4. Spec => []SoundState
  BY LedgerSound
<1> QED
  BY <1>1, <1>2, <1>3, <1>4, PTL DEF Spec

-----------------------------------------------------------------------------
\* What the history of a sound record is.
LEMMA HistoryTypes ==
    ASSUME NEW m, Sound(m)
    PROVE  /\ Whole(m) /\ m.seen \in Int /\ m.trig \in [Triggers -> triggerAgg]
           /\ \A t \in Triggers : m.trig[t].count \in Nat
<1>1. Whole(m) /\ m.seen \in Int
  BY DEF Sound, Timed
<1>2. m.trig \in [Triggers -> triggerAgg]
  BY DEF Sound, Balanced, Core
<1>3. ASSUME NEW t \in Triggers PROVE m.trig[t].count \in Nat
  <2>1. PICK a : a = m.trig[t]
    OBVIOUS
  <2>2. a \in triggerAgg
    BY <1>2, <2>1
  <2> QED
    BY <2>1, <2>2 DEF triggerAgg
<1> QED
  BY <1>1, <1>2, <1>3

\* Folding an event forgets no resolve seen and no occurrence of a trigger.
LEMMA FoldKeepsHistory ==
    ASSUME NEW m, Sound(m), NEW e \in Event, NEW n, n = foldLocked(m, e)
    PROVE  n.seen >= m.seen /\ \A t \in Triggers : n.trig[t].count >= m.trig[t].count
<1>0. /\ Whole(m) /\ m.seen \in Int /\ m.trig \in [Triggers -> triggerAgg]
      /\ \A t \in Triggers : m.trig[t].count \in Nat
  BY HistoryTypes
<1>1. CASE e \in OpenEvent
  <2>1. PICK a, b : a = [m EXCEPT !.open[e.fp] = e] /\ b = applyOpenLocked(a, e)
    OBVIOUS
  <2>2. Whole(a) /\ a.seen = m.seen /\ a.trig = m.trig
    BY <1>0, <2>1 DEF Whole, Fields
  <2>3. Whole(b) /\ b.seen = m.seen /\ b.trig = m.trig
    BY ZenonT(60), <2>1, <2>2 DEF applyOpenLocked, Whole, Fields
  <2>4. n = applyTriggerLocked(b, e)
    BY <1>1, <2>1 DEF foldLocked, OpenEvent
  <2>5. n.seen = m.seen
    BY <2>3, <2>4 DEF applyTriggerLocked, Whole, Fields
  <2>6. ASSUME NEW t \in Triggers PROVE n.trig[t].count \in {m.trig[t].count, m.trig[t].count + 1}
    BY <1>0, <2>3, <2>4 DEF applyTriggerLocked, Whole, Fields
  <2> QED
    BY <1>0, <2>5, <2>6
<1>2. CASE e \in ResolveEvent
  <2>1. n = [applyResolveLocked(m, e.fp, e.at) EXCEPT !.open[e.fp] = NoOpen]
    BY <1>2 DEF foldLocked, ResolveEvent
  <2>2. n.seen = m.seen + 1 /\ n.trig = m.trig
    BY <1>0, <2>1 DEF applyResolveLocked, Whole, Fields
  <2> QED
    BY <1>0, <2>2
<1>3. CASE e \in VoteEvent
  <2>1. n = applyFeedbackLocked(m, e)
    BY <1>3 DEF foldLocked, VoteEvent
  <2>2. n.seen = m.seen /\ n.trig = m.trig
    BY <1>0, <2>1 DEF applyFeedbackLocked, Whole, Fields
  <2> QED
    BY <1>0, <2>2
<1>4. CASE e \in SilenceEvent
  <2>1. n = applySilenceLocked(m, e)
    BY <1>4 DEF foldLocked, SilenceEvent
  <2>2. n.seen = m.seen /\ n.trig = m.trig
    BY <1>0, <2>1 DEF applySilenceLocked, Whole, Fields
  <2> QED
    BY <1>0, <2>2
<1>5. CASE e \in ConfirmEvent
  <2>1. n = applyConfirmLocked(m, e)
    BY <1>5 DEF foldLocked, ConfirmEvent
  <2>2. n.seen = m.seen /\ n.trig = m.trig
    BY <1>0, <2>1 DEF applyConfirmLocked, Whole, Fields
  <2> QED
    BY <1>0, <2>2
<1>6. CASE e \in VerifyEvent
  <2>1. n = applyVerifyLocked(m, e)
    BY <1>6 DEF foldLocked, VerifyEvent
  <2>2. n.seen = m.seen /\ n.trig = m.trig
    BY <1>0, <2>1 DEF applyVerifyLocked, Whole, Fields
  <2> QED
    BY <1>0, <2>2
<1>7. CASE e \in LinkEvent
  <2>1. n = applyLinkLocked(m, e)
    BY <1>7 DEF foldLocked, LinkEvent
  <2>2. n.seen = m.seen
    BY <1>0, <2>1 DEF applyLinkLocked, Whole, Fields
  <2>3. ASSUME NEW t \in Triggers PROVE n.trig[t].count = m.trig[t].count
    <3>1. PICK r, w : /\ r = m.trig
                      /\ w = [r EXCEPT ![e.tk].url = TRUE, ![e.tk].linked = TRUE,
                                       ![e.tk].answerUrl = @ \/ r[e.tk].answered > 0]
      OBVIOUS
    <3>2. n.trig = w
      BY <1>0, <2>1, <3>1 DEF applyLinkLocked, Whole, Fields
    <3>3. w[t].count = r[t].count
      BY <1>0, <3>1 DEF triggerAgg
    <3> QED
      BY <3>1, <3>2, <3>3
  <2> QED
    BY <1>0, <2>2, <2>3
<1> QED
  BY <1>1, <1>2, <1>3, <1>4, <1>5, <1>6, <1>7 DEF Event

\* Pruning reads neither.
LEMMA PruneKeepsHistory ==
    ASSUME NEW m, Sound(m), NEW t
    PROVE  /\ pruneLapsedSilencesLocked(m, t).seen = m.seen
           /\ pruneLapsedSilencesLocked(m, t).trig = m.trig
  BY DEF pruneLapsedSilencesLocked, Sound, Timed, Whole, Fields

\* What a replay finds no step of the only process takes back.
LEMMA HistoryStep ==
    ASSUME SoundState, SoundState', Clocked, FileStep
    PROVE  /\ Replayed'.seen >= Replayed.seen
           /\ \A t \in Triggers : Replayed'.trig[t].count >= Replayed.trig[t].count
<1>1. PICK r, w, s : r = Replayed /\ w = whole(file) /\ s = file
  OBVIOUS
<1>2. PICK q, z, u : q = Replayed' /\ z = whole(file') /\ u = file'
  OBVIOUS
<1>3. SoundLines(s) /\ SoundLines(u)
  BY <1>1, <1>2 DEF SoundState
<1>4. r = pruneLapsedSilencesLocked(w, now) /\ q = pruneLapsedSilencesLocked(z, now')
  <2>1. (SoundLines(file) => Replayed = pruneLapsedSilencesLocked(whole(file), now))'
    BY ReplayedIs, PTL
  <2> QED
    BY <1>1, <1>2, <1>3, <2>1, ReplayedIs
<1>5. Sound(w) /\ Sound(z)
  BY <1>1, <1>2, <1>3, WholeSound
<1>6. r.seen = w.seen /\ r.trig = w.trig /\ q.seen = z.seen /\ q.trig = z.trig
  BY <1>4, <1>5, PruneKeepsHistory
<1>7. w.seen \in Int /\ \A t \in Triggers : w.trig[t].count \in Nat
  BY <1>5, HistoryTypes
<1>8. z.seen >= w.seen /\ \A t \in Triggers : z.trig[t].count >= w.trig[t].count
  <2>1. CASE u = s \/ Agree(z, w, now)
    <3>1. z.seen = w.seen /\ z.trig = w.trig
      BY <1>1, <1>2, <2>1 DEF Agree
    <3> QED
      BY <1>7, <3>1
  <2>2. ASSUME NEW e \in Events, u = Append(s, e)
        PROVE  z.seen >= w.seen /\ \A t \in Triggers : z.trig[t].count >= w.trig[t].count
    <3>1. e \in Event
      BY LedgerConstants
    <3>2. z = foldLocked(w, e)
      BY <1>1, <1>2, <1>3, <2>2, <3>1, WholeAppend
    <3> QED
      BY <1>5, <3>1, <3>2, FoldKeepsHistory
  <2> QED
    BY <1>1, <1>2, <2>1, <2>2 DEF FileStep
<1> QED
  BY <1>1, <1>2, <1>6, <1>8

\* A file one process owns forgets no resolve and no occurrence, whatever crashes, failed
\* writes and compactions it goes through.
THEOREM HistoryIsKept ==
    ASSUME NEW p, Procs = {p}
    PROVE  Spec => HistoryNeverShrinks
<1>1. Init => Clocked /\ Loading(p)
  BY InitFile
<1>2. SoundState /\ SoundState' /\ Clocked /\ Loading(p) /\ [Next]_vars => Clocked' /\ Loading(p)'
  BY ClockStep, LoadingStep
<1>3. SoundState /\ SoundState' /\ Clocked /\ Loading(p) /\ [Next]_vars
        => [/\ Replayed'.seen >= Replayed.seen
            /\ \A t \in Triggers : Replayed'.trig[t].count >= Replayed.trig[t].count]_vars
  BY StepsOfTheFile, HistoryStep
<1>4. Spec => []SoundState
  BY LedgerSound
<1> QED
  BY <1>1, <1>2, <1>3, <1>4, PTL DEF Spec, HistoryNeverShrinks
=============================================================================
