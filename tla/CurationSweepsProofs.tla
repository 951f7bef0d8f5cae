------------------------ MODULE CurationSweepsProofs ------------------------
(***************************************************************************)
(* Proofs about CurationSweeps, for every deployment whose sweeps do not   *)
(* overlap, any number of pull requests, resources and entries, and any    *)
(* number of failures: a resource is reported at most once at a time, the  *)
(* review queue keeps its bound but for failed calls, and what was asked   *)
(* or declined is not asked again.                                         *)
(***************************************************************************)
EXTENDS CurationSweeps, FiniteSetTheorems, WellFoundedInduction, TLAPS

-----------------------------------------------------------------------------
(* The hypotheses.                                                         *)

\* One sweep at a time: the server's sweeper is one goroutine of the leader
\* (sweeper.go), and nobody runs the command beside it.
OneSweep == \A s \in Scenes : \A a, b \in s.sweeps : a = b

\* A proposal that a human has closed is not reopened.
DeclinedForGood ==
    \A s \in Scenes : "reopen" \in s.people => \A i \in DOMAIN s.passes : s.passes[i] \notin Proposing

-----------------------------------------------------------------------------
(* The type of every variable.                                             *)

Steps == {"idle", "list", "fetch", "act", "close", "issues", "report", "open", "closed", "propose", "pr", "label"}
TrackRec == [below : BOOLEAN, enough : BOOLEAN, confirmed : Nat]
FileRec == [exists : BOOLEAN, retired : BOOLEAN, validated : Nat]
PRRec == [state : {"none", "open", "closed", "merged"}, kind : {"draft", "note"} \cup Proposing,
         fp : Fps \cup {NoFp}, entry : Nat, date : Nat, was : Nat, labelled : BOOLEAN,
         marks : SUBSET {"protected", "needs-work"}, stale : BOOLEAN, closer : {"nobody", "human"} \cup Passes]
GapRec == [fp : Fps \cup {NoFp}, resource : Resources]
SweepFields == {"pass", "step", "seen", "todo", "at", "number", "noes", "budget", "file", "asked"}
SweepOK(w) ==
    /\ DOMAIN w = SweepFields
    /\ w.pass \in Nat /\ w.step \in Steps /\ w.at \in Nat /\ w.number \in Nat
    /\ w.noes \subseteq Fps /\ w.budget \in Int /\ w.asked \subseteq Proposing \X Entries

\* The steps of a pass that proposes edits, and those at work on one entry.
ProposingSteps == {"open", "closed", "propose", "pr", "label"}
EntrySteps == {"pr", "label"}

\* What a sweep is to do has the type its step expects.
StepOK(w) ==
    /\ w.step # "idle" => w.pass \in DOMAIN scene.passes
    /\ w.step \in {"idle", "list"} => w.todo = {} /\ w.budget = 0
    /\ w.step = "fetch" => scene.passes[w.pass] \in {"suppress", "recurrence"}
    /\ w.step \in {"fetch", "issues"} =>
          IF scene.passes[w.pass] = "suppress" THEN w.todo \subseteq Numbers ELSE w.seen \in [Fps -> Nat]
    /\ w.step \in {"act", "close"} => w.todo \subseteq Numbers /\ scene.passes[w.pass] \notin Proposing
    /\ w.step = "issues" => scene.passes[w.pass] = "recurrence"
    /\ w.step = "report" => w.todo \subseteq GapRec
    /\ w.step \in ProposingSteps =>
          scene.passes[w.pass] \in Proposing /\ w.todo \subseteq Entries /\ w.seen \in [Entries -> TrackRec]
    /\ w.step \in EntrySteps => w.at \in w.todo /\ w.file \in FileRec
    /\ w.step = "label" => w.number \in Numbers

ForgeType == pr \in [Numbers -> PRRec] /\ gaps \in [Resources -> Nat]
LedgerType == open \in [Fps -> Nat] /\ track \in [Entries -> TrackRec]
WorldType ==
    /\ scene \in Scenes /\ file \in [Entries -> FileRec] /\ looked \in [Drafters -> Fps \cup {NoFp}]
    /\ spent \in Nat /\ noes \subseteq Fps
SweepType ==
    /\ DOMAIN sweep = scene.sweeps
    /\ \A s \in scene.sweeps : SweepOK(sweep[s]) /\ StepOK(sweep[s])
TypeOK == ForgeType /\ LedgerType /\ WorldType /\ SweepType

-----------------------------------------------------------------------------
(* The inductive invariant, clause by clause.                              *)

\* What is about to be reported is open only through calls whose answer was lost.
GapsOK ==
    \A s \in scene.sweeps : sweep[s].step = "report" => \A c \in sweep[s].todo : gaps[c.resource] <= spent

\* Proposals are open or declined, and come from passes that propose.
ProposalsOK ==
    /\ \A n \in Numbers : pr[n].kind \in Proposing =>
          pr[n].state \in {"open", "closed"} /\ \E i \in DOMAIN scene.passes : scene.passes[i] \in Proposing

\* What the listings of a pass have left to propose is not on a labelled proposal: not
\* on an open one once the open ones are listed, and on none once the declined ones are.
LeftUnasked ==
    \A s \in scene.sweeps :
        LET w == sweep[s]
        IN w.step \in ProposingSteps \ {"open"} =>
               \A n \in Numbers : pr[n].kind = Pass(s) /\ pr[n].entry \in w.todo /\ pr[n].labelled =>
                   w.step = "closed" /\ pr[n].state = "closed"

\* The proposal just opened is about the entry at hand, if it is still there.
NumberOK ==
    \A s \in scene.sweeps : At(s, "label") /\ pr[sweep[s].number].kind \in Proposing =>
        pr[sweep[s].number].entry = sweep[s].at

AskInv == TypeOK /\ ProposalsOK /\ LeftUnasked /\ NumberOK

\* The proposals whose label nobody will lay any more.
Unseen ==
    {n \in Waiting : ~pr[n].labelled /\ \A s \in scene.sweeps : At(s, "label") => sweep[s].number # n}

\* The bound and the failures cover what waits, and what a sweep has yet to open.
BudgetOK ==
    /\ QueueBounded
    /\ Cardinality(Unseen) <= spent
    /\ \A s \in scene.sweeps :
          /\ sweep[s].step \in {"closed", "propose", "pr"} /\ Pass(s) = "revalidate" =>
                Cardinality(Waiting) + sweep[s].budget <= scene.maxOpen + spent
          /\ sweep[s].step = "label" /\ Pass(s) = "revalidate" =>
                Cardinality(Waiting) + sweep[s].budget <= scene.maxOpen + spent + 1
          /\ sweep[s].step \in EntrySteps /\ Pass(s) = "revalidate" => sweep[s].budget > 0

-----------------------------------------------------------------------------
(* The type of every variable.                                             *)

\* A set of numbers that is not empty has a least one.
LEMMA NatMin ==
    ASSUME NEW S, S \subseteq Nat, S # {}
    PROVE  \E x \in S : \A y \in S : x <= y
<1> DEFINE below == {1..x : x \in S}
<1>1. below \subseteq FiniteSubsetsOf(Nat) /\ below # {}
  <2>1. ASSUME NEW x \in S PROVE 1..x \in SUBSET Nat /\ IsFiniteSet(1..x)
    <3>1. 1 \in Int /\ x \in Int
      OBVIOUS
    <3>2. QED  BY <3>1, FS_Interval
  <2>2. QED  BY <2>1 DEF FiniteSubsetsOf
<1>2. \E u \in below : \A v \in below : <<v, u>> \notin StrictSubsetOrdering(Nat)
  <2> HIDE DEF below
  <2> QED  BY <1>1, FS_StrictSubsetOrderingWellFounded, WFMin, Zenon
<1>3. PICK x \in S : \A v \in below : <<v, 1..x>> \notin StrictSubsetOrdering(Nat)
  BY <1>2
<1>4. ASSUME NEW y \in S PROVE x <= y
  <2>1. x \in Nat /\ y \in Nat
    OBVIOUS
  <2>2. SUFFICES ASSUME y < x PROVE FALSE
    BY <2>1
  <2>3. 1..y \subseteq 1..x /\ x \in 1..x /\ x \notin 1..y
    BY <2>1, <2>2
  <2>4. <<1..y, 1..x>> \in StrictSubsetOrdering(Nat)
    BY <2>3 DEF StrictSubsetOrdering
  <2>5. QED  BY <1>3, <2>4
<1>5. QED  BY <1>4

\* Min of such a set is one of its members.
LEMMA MinIn ==
    ASSUME NEW S, S \subseteq Nat, S # {}
    PROVE  Min(S) \in S
BY NatMin DEF Min

\* The numbers of a scene.
LEMMA SceneFacts ==
    ASSUME scene \in Scenes
    PROVE  /\ scene.prs \in Nat /\ scene.entries \in Nat /\ scene.maxOpen \in Nat
           /\ scene.passes \in Seq(Passes) /\ scene.passes # <<>> /\ 1 \in DOMAIN scene.passes
           /\ Len(scene.passes) \in Nat /\ DOMAIN scene.passes = 1..Len(scene.passes)
           /\ Numbers \subseteq Nat /\ Entries \subseteq Nat /\ IsFiniteSet(Numbers)
<1>1. /\ scene.prs \in Nat /\ scene.entries \in Nat /\ scene.maxOpen \in Nat
      /\ scene.passes \in Seq(Passes) /\ scene.passes # <<>>
  BY ScenesAssumption
<1>2. Len(scene.passes) \in Nat /\ DOMAIN scene.passes = 1..Len(scene.passes) /\ 1 \in DOMAIN scene.passes
  BY <1>1
<1>3. Numbers \subseteq Nat /\ Entries \subseteq Nat
  BY <1>1 DEF Numbers, Entries
<1>4. IsFiniteSet(Numbers)
  <2>1. 1 \in Int /\ scene.prs \in Int
    BY <1>1
  <2>2. QED  BY <2>1, FS_Interval DEF Numbers
<1>5. QED  BY <1>1, <1>2, <1>3, <1>4

\* A pull request that does not exist is a pull request record, and so is what a step
\* makes of one.
LEMMA NoPRType ==
    /\ NoPR \in PRRec
    /\ NoPR.state = "none" /\ NoPR.kind = "draft" /\ NoPR.labelled = TRUE /\ NoPR.kind \notin Proposing
BY DEF NoPR, PRRec, Proposing

\* What becomes of the proposals in a step that opens none and labels none: they stay, are
\* closed, or are merged and gone.
Kept ==
    \A n \in Numbers : pr'[n].kind \in Proposing =>
        /\ pr'[n].kind = pr[n].kind /\ pr'[n].entry = pr[n].entry /\ pr'[n].labelled = pr[n].labelled
        /\ pr'[n].state = pr[n].state \/ (pr[n].state = "open" /\ pr'[n].state = "closed")

PrFrame == DeclinedForGood /\ ProposalsOK => Kept

\* An update that keeps what a proposal is, keeps the types and the proposals.
LEMMA ChangeFrame ==
    ASSUME pr \in [Numbers -> PRRec], UNCHANGED scene, NEW n \in Numbers, NEW p \in PRRec, Change(n, p),
           DeclinedForGood /\ ProposalsOK /\ p.kind \in Proposing =>
               /\ p.kind = pr[n].kind /\ p.entry = pr[n].entry /\ p.labelled = pr[n].labelled
               /\ p.state = pr[n].state \/ (pr[n].state = "open" /\ p.state = "closed")
    PROVE  pr' \in [Numbers -> PRRec] /\ PrFrame
<1> DEFINE q == [p EXCEPT !.stale = FALSE]
<1>1. q \in PRRec /\ q.kind = p.kind /\ q.entry = p.entry /\ q.labelled = p.labelled /\ q.state = p.state
  BY DEF PRRec
<1>2. pr' = [pr EXCEPT ![n] = q]
  BY DEF Change
<1> HIDE DEF q
<1>3. \A m \in Numbers : pr'[m] = IF m = n THEN q ELSE pr[m]
  BY <1>2
<1>4. QED  BY <1>1, <1>2, <1>3 DEF PrFrame, Kept

-----------------------------------------------------------------------------
(* Humans, time, drafters and the ledger leave the sweeps alone, report    *)
(* nothing, and propose, label or reopen nothing that is proposed.         *)

EnvFrame ==
    /\ UNCHANGED <<scene, sweep, spent>>
    /\ ForgeType' /\ LedgerType' /\ WorldType'
    /\ PrFrame
    /\ \A r \in Resources : gaps'[r] <= gaps[r]

\* What humans do to a pull request.
LEMMA HumanFrame ==
    ASSUME TypeOK, NEW n \in Numbers,
           \/ Protect(n) \/ Merge(n) \/ Reopen(n) \/ GoesStale(n)
           \/ \E mark \in {{}, {"needs-work"}} : Reject(n, mark)
    PROVE  EnvFrame
<1> USE DEF TypeOK, ForgeType, LedgerType, WorldType, SweepType
<1>0. pr[n] \in PRRec /\ pr \in [Numbers -> PRRec] /\ spent \in Nat
  OBVIOUS
<1>1. CASE Protect(n)
  <2> DEFINE p == [pr[n] EXCEPT !.marks = @ \cup {"protected"}]
  <2>1. p \in PRRec /\ p.kind = pr[n].kind /\ p.entry = pr[n].entry /\ p.labelled = pr[n].labelled
        /\ p.state = pr[n].state
    BY <1>0 DEF PRRec
  <2>2. UNCHANGED <<scene, gaps, open, track, looked, sweep, spent, file, noes>> /\ Change(n, p)
    BY <1>1 DEF Protect, Human, ledger
  <2> HIDE DEF p
  <2>3. pr' \in [Numbers -> PRRec] /\ PrFrame
    BY <1>0, <2>1, <2>2, ChangeFrame
  <2>4. QED  BY <2>2, <2>3 DEF EnvFrame, Numbers, Resources, Fps, Entries, PRRec
<1>2. CASE \E mark \in {{}, {"needs-work"}} : Reject(n, mark)
  <2>0. PICK mark \in {{}, {"needs-work"}} : Reject(n, mark)
    BY <1>2
  <2> DEFINE p == [pr[n] EXCEPT !.state = "closed", !.closer = "human", !.marks = @ \cup mark]
  <2>1. p \in PRRec /\ p.kind = pr[n].kind /\ p.entry = pr[n].entry /\ p.labelled = pr[n].labelled
        /\ p.state = "closed" /\ pr[n].state = "open"
    BY <1>0, <2>0 DEF PRRec, Reject
  <2>2. UNCHANGED <<scene, gaps, open, track, looked, sweep, spent, file>> /\ Change(n, p)
    BY <2>0 DEF Reject, Human, ledger
  <2>a. noes' \subseteq Fps
    BY <1>0, <2>0 DEF Reject, PRRec
  <2> HIDE DEF p
  <2>3. pr' \in [Numbers -> PRRec] /\ PrFrame
    BY <1>0, <2>1, <2>2, ChangeFrame
  <2>4. QED  BY <2>2, <2>3, <2>a DEF EnvFrame, Numbers, Resources, Fps, Entries, PRRec
<1>3. CASE Reopen(n)
  <2> DEFINE p == [pr[n] EXCEPT !.state = "open", !.closer = "nobody"]
  <2>1. p \in PRRec /\ p.kind = pr[n].kind /\ p.entry = pr[n].entry /\ p.labelled = pr[n].labelled
    BY <1>0 DEF PRRec
  <2>2. UNCHANGED <<scene, gaps, open, track, looked, sweep, spent, file, noes>> /\ Change(n, p)
        /\ "reopen" \in scene.people
    BY <1>3 DEF Reopen, Human, ledger
  <2>a. DeclinedForGood /\ ProposalsOK => p.kind \notin Proposing
    BY <2>1, <2>2 DEF ProposalsOK, DeclinedForGood
  <2> HIDE DEF p
  <2>3. pr' \in [Numbers -> PRRec] /\ PrFrame
    BY <1>0, <2>1, <2>2, <2>a, ChangeFrame
  <2>4. QED  BY <2>2, <2>3 DEF EnvFrame, Numbers, Resources, Fps, Entries, PRRec
<1>4. CASE GoesStale(n)
  <2> DEFINE p == [pr[n] EXCEPT !.stale = TRUE]
  <2>1. p \in PRRec /\ p.kind = pr[n].kind /\ p.entry = pr[n].entry /\ p.labelled = pr[n].labelled
        /\ p.state = pr[n].state
    BY <1>0 DEF PRRec
  <2>2. UNCHANGED <<scene, gaps, open, track, looked, sweep, spent, file, noes>> /\ pr' = [pr EXCEPT ![n] = p]
    BY <1>4 DEF GoesStale, others, ledger
  <2> HIDE DEF p
  <2>3. pr' \in [Numbers -> PRRec] /\ \A m \in Numbers : pr'[m] = IF m = n THEN p ELSE pr[m]
    BY <1>0, <2>1, <2>2
  <2>4. PrFrame
    BY <2>1, <2>3 DEF PrFrame, Kept
  <2>5. QED  BY <2>2, <2>3, <2>4 DEF EnvFrame, Numbers, Resources, Fps, Entries, PRRec
<1>5. CASE Merge(n)
  <2>1. UNCHANGED <<scene, gaps, open, track, looked, sweep, spent, noes>>
    BY <1>5 DEF Merge, Human, ledger
  <2>2. pr' \in [Numbers -> PRRec] /\ PrFrame
    <3>1. CASE pr[n].kind \notin Proposing /\ Change(n, [pr[n] EXCEPT !.state = "merged"])
      <4> DEFINE p == [pr[n] EXCEPT !.state = "merged"]
      <4>1. p \in PRRec /\ p.kind \notin Proposing
        BY <1>0, <3>1 DEF PRRec
      <4>2. Change(n, p)
        BY <3>1
      <4> HIDE DEF p
      <4>3. QED  BY <1>0, <2>1, <4>1, <4>2, ChangeFrame
    <3>2. CASE Change(n, NoPR)
      BY <1>0, <2>1, <3>2, NoPRType, ChangeFrame
    <3>3. QED  BY <1>5, <3>1, <3>2 DEF Merge
  <2>3. file' \in [Entries -> FileRec]
    <3>1. file' = file \/ \E e : file' = [file EXCEPT ![e].retired = TRUE] \/ file' = [file EXCEPT ![e].validated = pr[n].date]
      BY <1>5 DEF Merge
    <3>2. pr[n].date \in Nat /\ file \in [Entries -> FileRec]
      BY <1>0 DEF PRRec
    <3>3. ASSUME NEW e, NEW d \in Nat
          PROVE  /\ [file EXCEPT ![e].retired = TRUE] \in [Entries -> FileRec]
                 /\ [file EXCEPT ![e].validated = d] \in [Entries -> FileRec]
      <4>1. CASE e \in Entries
        <5>1. file[e] \in FileRec
          BY <3>2, <4>1
        <5>2. [file[e] EXCEPT !.retired = TRUE] \in FileRec /\ [file[e] EXCEPT !.validated = d] \in FileRec
          BY <5>1 DEF FileRec
        <5>3. QED  BY <3>2, <4>1, <5>2
      <4>2. CASE e \notin Entries
        BY <3>2, <4>2
      <4>3. QED  BY <4>1, <4>2
    <3>4. CASE file' = file
      BY <3>2, <3>4
    <3>5. CASE \E e : file' = [file EXCEPT ![e].retired = TRUE] \/ file' = [file EXCEPT ![e].validated = pr[n].date]
      <4>1. PICK e : file' = [file EXCEPT ![e].retired = TRUE] \/ file' = [file EXCEPT ![e].validated = pr[n].date]
        BY <3>5
      <4>2. /\ [file EXCEPT ![e].retired = TRUE] \in [Entries -> FileRec]
            /\ [file EXCEPT ![e].validated = pr[n].date] \in [Entries -> FileRec]
        BY <3>2, <3>3
      <4>3. QED  BY <4>1, <4>2
    <3>6. QED  BY <3>1, <3>4, <3>5
  <2>4. QED  BY <2>1, <2>2, <2>3 DEF EnvFrame, Numbers, Resources, Fps, Entries, PRRec
<1>6. QED  BY <1>1, <1>2, <1>3, <1>4, <1>5

\* A pull request is opened by a drafter or a human: it proposes nothing.
LEMMA OpensFrame ==
    ASSUME TypeOK, NEW kind \in {"draft", "note"}, NEW fp \in Fps \cup {NoFp}, Opens(kind, fp)
    PROVE  UNCHANGED <<scene, gaps, open, track, sweep, spent, file, noes>> /\ pr' \in [Numbers -> PRRec] /\ PrFrame
<1> DEFINE p == [NoPR EXCEPT !.state = "open", !.kind = kind, !.fp = fp]
<1>1. p \in PRRec /\ p.kind \notin Proposing
  BY NoPRType DEF PRRec, Proposing
<1>2. PICK n : n = Min(Free)
  OBVIOUS
<1>3. pr' = [pr EXCEPT ![n] = p] /\ UNCHANGED <<scene, gaps, open, track, sweep, spent, file, noes>>
  BY <1>2 DEF Opens, ledger
<1> HIDE DEF p
<1>4. pr \in [Numbers -> PRRec]
  BY DEF TypeOK, ForgeType
<1>5. pr' \in [Numbers -> PRRec] /\ \A m \in Numbers : pr'[m] = IF m = n THEN p ELSE pr[m]
  BY <1>1, <1>3, <1>4
<1>6. QED  BY <1>1, <1>3, <1>5 DEF PrFrame, Kept

\* Every step of the environment.
LEMMA EnvStep ==
    ASSUME TypeOK,
           \/ Humans
           \/ \E d \in Drafters : Draft(d) \/ \E f \in Fps : Look(d, f)
           \/ \E f \in Fps : Recurs(f) \/ Resolves(f)
           \/ \E e \in Entries : Tracks(e)
    PROVE  EnvFrame
<1> USE DEF TypeOK, ForgeType, LedgerType, WorldType
<1>0. gaps \in [Resources -> Nat] /\ pr \in [Numbers -> PRRec] /\ spent \in Nat
  OBVIOUS
<1>1. ASSUME UNCHANGED pr PROVE UNCHANGED scene => PrFrame
  <2>1. QED  BY <1>1 DEF PrFrame, Kept
<1>2. ASSUME NEW r \in Resources, CloseGap(r) PROVE EnvFrame
  <2>1. UNCHANGED <<scene, open, track, file, looked, noes, pr, sweep, spent>>
        /\ gaps' = [gaps EXCEPT ![r] = @ - 1] /\ gaps[r] > 0
    BY <1>2 DEF CloseGap, others, ledger
  <2>2. gaps' \in [Resources -> Nat] /\ \A q \in Resources : gaps'[q] <= gaps[q]
    BY <1>0, <2>1
  <2>3. QED  BY <1>1, <2>1, <2>2 DEF EnvFrame, Numbers, Resources, Fps, Entries, PRRec
<1>3. ASSUME NEW e \in Entries, Remove(e) PROVE EnvFrame
  <2>1. UNCHANGED <<scene, open, track, gaps, looked, noes, pr, sweep, spent>>
        /\ file' = [file EXCEPT ![e].exists = FALSE]
    BY <1>3 DEF Remove, Human, ledger
  <2>2. file' \in [Entries -> FileRec]
    BY <2>1 DEF FileRec
  <2>3. QED  BY <1>0, <1>1, <2>1, <2>2 DEF EnvFrame, Numbers, Resources, Fps, Entries, PRRec
<1>4. ASSUME OpenNote PROVE EnvFrame
  <2>1. UNCHANGED looked /\ Opens("note", NoFp)
    BY <1>4 DEF OpenNote
  <2>2. UNCHANGED <<scene, gaps, open, track, sweep, spent, file, noes>> /\ pr' \in [Numbers -> PRRec] /\ PrFrame
    BY <2>1, OpensFrame
  <2>3. QED  BY <1>0, <2>1, <2>2 DEF EnvFrame, Numbers, Resources, Fps, Entries, PRRec
<1>5. ASSUME NEW d \in Drafters, Draft(d) PROVE EnvFrame
  <2>1. looked' = [looked EXCEPT ![d] = NoFp] /\ Opens("draft", looked[d]) /\ looked[d] \in Fps \cup {NoFp}
    BY <1>5 DEF Draft
  <2>2. UNCHANGED <<scene, gaps, open, track, sweep, spent, file, noes>> /\ pr' \in [Numbers -> PRRec] /\ PrFrame
    BY <2>1, OpensFrame
  <2>3. QED  BY <1>0, <2>1, <2>2 DEF EnvFrame, Numbers, Resources, Fps, Entries, PRRec
<1>6. ASSUME NEW d \in Drafters, NEW f \in Fps, Look(d, f) PROVE EnvFrame
  <2>1. UNCHANGED <<scene, gaps, open, track, sweep, spent, file, noes, pr>> /\ looked' = [looked EXCEPT ![d] = f]
    BY <1>6 DEF Look, forge, ledger
  <2>2. QED  BY <1>0, <1>1, <2>1 DEF EnvFrame, Numbers, Resources, Fps, Entries, PRRec
<1>7. ASSUME NEW f \in Fps, Recurs(f) \/ Resolves(f) PROVE EnvFrame
  <2>1. UNCHANGED <<scene, gaps, track, sweep, spent, file, noes, pr, looked>>
    BY <1>7 DEF Recurs, Resolves, Learns, forge
  <2>2. open' \in [Fps -> Nat]
    BY <1>7 DEF Recurs, Resolves
  <2>3. QED  BY <1>0, <1>1, <2>1, <2>2 DEF EnvFrame, Numbers, Resources, Fps, Entries, PRRec
<1>8. ASSUME NEW e \in Entries, Tracks(e) PROVE EnvFrame
  <2>1. UNCHANGED <<scene, gaps, open, sweep, spent, file, noes, pr, looked>>
    BY <1>8 DEF Tracks, Learns, forge
  <2>a. ASSUME NEW t \in [Entries -> TrackRec]
        PROVE  /\ [t EXCEPT ![e].below = TRUE] \in [Entries -> TrackRec]
               /\ [t EXCEPT ![e].enough = TRUE] \in [Entries -> TrackRec]
               /\ [t EXCEPT ![e].below = FALSE] \in [Entries -> TrackRec]
               /\ [t EXCEPT ![e].confirmed = @ + 1] \in [Entries -> TrackRec]
    <3>1. t[e] \in TrackRec
      OBVIOUS
    <3>2. [t[e] EXCEPT !.below = TRUE] \in TrackRec /\ [t[e] EXCEPT !.below = FALSE] \in TrackRec
      BY <3>1 DEF TrackRec
    <3>3. [t[e] EXCEPT !.enough = TRUE] \in TrackRec
      BY <3>1 DEF TrackRec
    <3>4. [t[e] EXCEPT !.confirmed = @ + 1] \in TrackRec
      BY <3>1 DEF TrackRec
    <3>5. QED  BY <3>2, <3>3, <3>4
  <2>2. track' \in [Entries -> TrackRec]
    <3>1. CASE track' = [track EXCEPT ![e].below = TRUE, ![e].enough = TRUE]
      <4> DEFINE t == [track EXCEPT ![e].below = TRUE]
      <4>1. t \in [Entries -> TrackRec] /\ track' = [t EXCEPT ![e].enough = TRUE]
        BY <2>a, <3>1
      <4> HIDE DEF t
      <4>2. QED  BY <2>a, <4>1
    <3>2. CASE track' = [track EXCEPT ![e].below = FALSE]
      BY <2>a, <3>2
    <3>3. CASE track' = [track EXCEPT ![e].confirmed = @ + 1]
      BY <2>a, <3>3
    <3>4. QED  BY <1>8, <3>1, <3>2, <3>3 DEF Tracks
  <2>3. QED  BY <1>0, <1>1, <2>1, <2>2 DEF EnvFrame, Numbers, Resources, Fps, Entries, PRRec
<1>9. QED
  BY <1>2, <1>3, <1>4, <1>5, <1>6, <1>7, <1>8, HumanFrame DEF Humans

-----------------------------------------------------------------------------
(* The steps of a sweep.                                                   *)

\* What every step of a sweep leaves alone, and the type of where it goes.
SweepFrame(s) ==
    /\ UNCHANGED <<scene, open, track, file, looked, noes>>
    /\ spent' \in Nat /\ spent <= spent'
    /\ DOMAIN sweep' = scene.sweeps
    /\ SweepOK(sweep'[s]) /\ StepOK(sweep'[s])

\* When no two sweeps overlap, the type of the sweep that moved is the type of all.
LEMMA SweepFrameType ==
    ASSUME OneSweep, TypeOK, NEW s \in scene.sweeps, SweepFrame(s),
           pr' \in [Numbers -> PRRec], gaps' \in [Resources -> Nat]
    PROVE  TypeOK'
<1>1. UNCHANGED <<scene, open, track, file, looked, noes>> /\ \A r \in scene.sweeps : r = s
  BY DEF OneSweep, TypeOK, WorldType, SweepFrame
<1>2. SweepOK(sweep'[s]) /\ StepOK(sweep'[s]) /\ DOMAIN sweep' = scene.sweeps /\ spent' \in Nat
  BY DEF SweepFrame
<1>3. (SweepOK(sweep[s]) /\ StepOK(sweep[s]))'
  BY <1>1, <1>2 DEF SweepOK, StepOK, Numbers, Fps, Resources, Entries, GapRec
<1>4. SweepType'
  <2>1. \A r \in scene.sweeps : SweepOK(sweep[r])' /\ StepOK(sweep[r])'
    BY <1>1, <1>3
  <2>2. QED  BY <1>1, <1>2, <2>1 DEF SweepType
<1>5. ForgeType' /\ LedgerType' /\ WorldType'
  BY <1>1, <1>2 DEF TypeOK, ForgeType, LedgerType, WorldType, Numbers, Fps, Resources, Entries, PRRec
<1>6. QED  BY <1>4, <1>5 DEF TypeOK

\* Where a sweep is.
LEMMA SweepFacts ==
    ASSUME TypeOK, NEW s \in scene.sweeps
    PROVE  /\ SweepOK(sweep[s]) /\ StepOK(sweep[s]) /\ DOMAIN sweep = scene.sweeps
           /\ DOMAIN sweep[s] = SweepFields /\ scene \in Scenes /\ spent \in Nat
           /\ pr \in [Numbers -> PRRec] /\ gaps \in [Resources -> Nat]
           /\ open \in [Fps -> Nat] /\ track \in [Entries -> TrackRec] /\ file \in [Entries -> FileRec]
BY DEF TypeOK, ForgeType, LedgerType, WorldType, SweepType, SweepOK

\* The idle sweep, and one at the start of a pass.
LEMMA IdleOK ==
    ASSUME scene \in Scenes, NEW p \in DOMAIN scene.passes, NEW a \in SUBSET (Proposing \X Entries)
    PROVE  /\ SweepOK(Idle) /\ StepOK(Idle)
           /\ SweepOK([Idle EXCEPT !.pass = p, !.step = "list", !.asked = a])
           /\ StepOK([Idle EXCEPT !.pass = p, !.step = "list", !.asked = a])
<1>1. p \in Nat
  BY SceneFacts
<1>2. SweepOK(Idle) /\ StepOK(Idle)
  BY DEF Idle, SweepOK, StepOK, SweepFields, Steps, ProposingSteps, EntrySteps
<1> DEFINE w == [Idle EXCEPT !.pass = p, !.step = "list", !.asked = a]
<1>3. /\ DOMAIN w = SweepFields /\ w.pass = p /\ w.step = "list" /\ w.asked = a
      /\ w.at = 0 /\ w.number = 0 /\ w.noes = {} /\ w.budget = 0 /\ w.todo = {}
  BY DEF Idle, SweepFields
<1> HIDE DEF w
<1>4. SweepOK(w) /\ StepOK(w)
  BY <1>1, <1>3 DEF SweepOK, StepOK, Steps, ProposingSteps, EntrySteps
<1>5. QED  BY <1>2, <1>4 DEF w

\* The end of a pass.
LEMMA EndPassType ==
    ASSUME TypeOK, NEW s \in scene.sweeps, sweep[s].step # "idle", EndPass(s)
    PROVE  /\ DOMAIN sweep' = scene.sweeps /\ SweepOK(sweep'[s]) /\ StepOK(sweep'[s])
           /\ sweep'[s].step \in {"idle", "list"}
<1>1. SweepOK(sweep[s]) /\ StepOK(sweep[s]) /\ DOMAIN sweep = scene.sweeps /\ scene \in Scenes
  BY SweepFacts
<1> DEFINE next == sweep[s].pass + 1
           w == [Idle EXCEPT !.pass = next, !.step = "list", !.asked = sweep[s].asked]
<1>2. sweep' = [sweep EXCEPT ![s] = IF next > Len(scene.passes) THEN Idle ELSE w]
  BY DEF EndPass
<1>3. sweep[s].pass \in Nat /\ sweep[s].asked \in SUBSET (Proposing \X Entries)
  BY <1>1 DEF SweepOK
<1>4. CASE next > Len(scene.passes)
  <2>1. sweep'[s] = Idle /\ DOMAIN sweep' = scene.sweeps
    BY <1>1, <1>2, <1>4
  <2>2. 1 \in DOMAIN scene.passes /\ {} \in SUBSET (Proposing \X Entries)
    BY <1>1, SceneFacts
  <2>3. SweepOK(Idle) /\ StepOK(Idle)
    BY <1>1, <2>2, IdleOK
  <2>4. QED  BY <2>1, <2>3 DEF Idle
<1>5. CASE ~(next > Len(scene.passes))
  <2>1. next \in DOMAIN scene.passes
    BY <1>1, <1>3, <1>5, SceneFacts
  <2>2. sweep'[s] = w /\ DOMAIN sweep' = scene.sweeps /\ w.step = "list"
    BY <1>1, <1>2, <1>5 DEF Idle
  <2>3. SweepOK(w) /\ StepOK(w)
    <3> HIDE DEF next
    <3>1. QED  BY <1>1, <1>3, <2>1, IdleOK
  <2>4. QED  BY <2>2, <2>3
<1>6. QED  BY <1>4, <1>5

\* A step that proposes and reports nothing: it may close a draft, begin a pass or a
\* listing, or end one.
Quiet(s) ==
    /\ SweepFrame(s)
    /\ UNCHANGED gaps /\ pr' \in [Numbers -> PRRec] /\ PrFrame
    /\ sweep'[s].step \in ProposingSteps \ {"open"} =>
          sweep'[s].step = "propose" /\ sweep'[s].todo = {} /\ sweep'[s].budget = 0
    /\ sweep'[s].step = "report" => \A c \in sweep'[s].todo : gaps[c.resource] = 0
    /\ At(s, "label") => spent' = spent + 1

\* Nothing on the forge changes.
LEMMA StillFrame ==
    ASSUME TypeOK, UNCHANGED pr
    PROVE  pr' \in [Numbers -> PRRec] /\ PrFrame
BY DEF TypeOK, ForgeType, PrFrame, Kept

\* A sweep begins, ends, fails or is cancelled.
LEMMA StartQuiet ==
    ASSUME TypeOK, NEW s \in scene.sweeps,
           Start(s) \/ ListFails(s) \/ PassOver(s) \/ Cancelled(s)
    PROVE  Quiet(s)
<1>1. SweepOK(sweep[s]) /\ StepOK(sweep[s]) /\ DOMAIN sweep = scene.sweeps /\ scene \in Scenes
      /\ DOMAIN sweep[s] = SweepFields /\ spent \in Nat
  BY SweepFacts
<1>2. UNCHANGED <<scene, open, track, file, looked, noes, pr, gaps>>
  BY DEF Start, ListFails, PassOver, Cancelled, others, ledger, forge
<1>3. pr' \in [Numbers -> PRRec] /\ PrFrame
  BY <1>2, StillFrame
<1>4. spent' \in Nat /\ spent <= spent' /\ (At(s, "label") => spent' = spent + 1)
  BY <1>1 DEF Start, ListFails, PassOver, Cancelled, Fails, Works, At
<1>5. /\ DOMAIN sweep' = scene.sweeps /\ SweepOK(sweep'[s]) /\ StepOK(sweep'[s])
      /\ sweep'[s].step \in {"idle", "list"}
  <2>1. CASE Start(s)
    <3>1. /\ DOMAIN sweep' = scene.sweeps /\ DOMAIN sweep'[s] = SweepFields
          /\ sweep'[s].pass = 1 /\ sweep'[s].step = "list" /\ sweep'[s].todo = {} /\ sweep'[s].budget = 0
          /\ sweep'[s].at = sweep[s].at /\ sweep'[s].number = sweep[s].number
          /\ sweep'[s].noes = sweep[s].noes /\ sweep'[s].asked = sweep[s].asked
      BY <1>1, <2>1 DEF Start, At, StepOK, SweepFields
    <3>2. 1 \in DOMAIN scene.passes
      BY <1>1, SceneFacts
    <3>3. QED  BY <1>1, <3>1, <3>2 DEF SweepOK, StepOK, Steps, ProposingSteps, EntrySteps
  <2>2. CASE ListFails(s) \/ PassOver(s)
    BY <2>2, EndPassType DEF ListFails, PassOver
  <2>3. CASE Cancelled(s)
    <3>1. sweep'[s] = Idle /\ DOMAIN sweep' = scene.sweeps
      BY <1>1, <2>3 DEF Cancelled
    <3>2. 1 \in DOMAIN scene.passes /\ {} \in SUBSET (Proposing \X Entries)
      BY <1>1, SceneFacts
    <3>3. SweepOK(Idle) /\ StepOK(Idle)
      BY <1>1, <3>2, IdleOK
    <3>4. QED  BY <3>1, <3>3 DEF Idle
  <2>4. QED  BY <2>1, <2>2, <2>3
<1>6. QED  BY <1>2, <1>3, <1>4, <1>5 DEF Quiet, SweepFrame, ProposingSteps

\* What a pass lists to act on is among the pull requests.
LEMMA ListedNumbers ==
    /\ Duplicates(Restrict(pr, Open)) \subseteq Numbers
    /\ Stale(Restrict(pr, Open)) \subseteq Numbers
    /\ {n \in Open : pr[n].fp # NoFp /\ ~Protected(pr[n])} \subseteq Numbers
<1>1. Duplicates(Restrict(pr, Open)) \subseteq Numbers
  BY DEF Duplicates
<1>2. DOMAIN Restrict(pr, Open) = Open /\ Open \subseteq Numbers
  BY DEF Restrict, Open
<1>3. Stale(Restrict(pr, Open)) \subseteq DOMAIN Restrict(pr, Open)
  BY DEF Stale
<1>4. QED  BY <1>1, <1>2, <1>3

\* A pass lists what it decides on.
LEMMA ListQuiet ==
    ASSUME TypeOK, NEW s \in scene.sweeps, List(s)
    PROVE  Quiet(s)
<1>1. SweepOK(sweep[s]) /\ StepOK(sweep[s]) /\ DOMAIN sweep = scene.sweeps /\ scene \in Scenes
      /\ DOMAIN sweep[s] = SweepFields /\ spent \in Nat /\ open \in [Fps -> Nat] /\ track \in [Entries -> TrackRec]
  BY SweepFacts
<1>2. UNCHANGED <<scene, open, track, file, looked, noes, pr, gaps, spent>> /\ sweep[s].step = "list"
  BY DEF List, others, ledger, forge, Works, At
<1>3. pr' \in [Numbers -> PRRec] /\ PrFrame
  BY <1>2, StillFrame
<1>4. Pass(s) \in Passes /\ sweep[s].pass \in DOMAIN scene.passes /\ sweep[s].todo = {} /\ sweep[s].budget = 0
  BY <1>1, <1>2, SceneFacts DEF Pass, StepOK
<1>5. /\ DOMAIN sweep' = scene.sweeps /\ DOMAIN sweep'[s] = SweepFields
      /\ sweep'[s].pass = sweep[s].pass /\ sweep'[s].budget = 0
      /\ sweep'[s].at = sweep[s].at /\ sweep'[s].number = sweep[s].number
      /\ sweep'[s].noes = sweep[s].noes /\ sweep'[s].asked = sweep[s].asked
      /\ \/ Pass(s) = "suppress" /\ sweep'[s].step \in {"act", "fetch"} /\ sweep'[s].todo \subseteq Numbers
         \/ Pass(s) \in {"dedup", "lifecycle"} /\ sweep'[s].step = "act" /\ sweep'[s].todo \subseteq Numbers
         \/ Pass(s) = "recurrence" /\ sweep'[s].step \in {"issues", "fetch"} /\ sweep'[s].seen = open
         \/ /\ Pass(s) \in Proposing /\ sweep'[s].seen = track /\ sweep'[s].todo \subseteq Entries
            /\ sweep'[s].step = "open" \/ (sweep'[s].step = "propose" /\ sweep'[s].todo = {})
  <2>1. CASE Pass(s) = "suppress"
    <3> DEFINE listed == {n \in Open : pr[n].fp # NoFp /\ ~Protected(pr[n])}
    <3>1. sweep' = [sweep EXCEPT ![s].step = IF listed = {} THEN "act" ELSE "fetch", ![s].todo = listed]
      BY <2>1 DEF List
    <3>2. listed \subseteq Numbers
      BY ListedNumbers
    <3> HIDE DEF listed
    <3>3. QED  BY <1>1, <1>4, <2>1, <3>1, <3>2 DEF SweepFields
  <2>2. CASE Pass(s) = "dedup"
    <3>1. sweep' = [sweep EXCEPT ![s].step = "act", ![s].todo = Duplicates(Restrict(pr, Open))]
      BY <2>2 DEF List
    <3>2. QED  BY <1>1, <1>4, <2>2, <3>1, ListedNumbers DEF SweepFields
  <2>3. CASE Pass(s) = "lifecycle"
    <3>1. sweep' = [sweep EXCEPT ![s].step = "act", ![s].todo = Stale(Restrict(pr, Open))]
      BY <2>3 DEF List
    <3>2. QED  BY <1>1, <1>4, <2>3, <3>1, ListedNumbers DEF SweepFields
  <2>4. CASE Pass(s) = "recurrence"
    <3>1. sweep' = [sweep EXCEPT ![s].step = IF \A f \in Fps : open[f] = 0 THEN "issues" ELSE "fetch", ![s].seen = open]
      BY <2>4 DEF List
    <3>2. QED  BY <1>1, <1>4, <2>4, <3>1 DEF SweepFields
  <2>5. CASE Pass(s) \in Proposing
    <3> DEFINE found == {e \in Entries : Candidate(Pass(s), track[e])}
    <3>1. sweep' = [sweep EXCEPT ![s].step = IF found = {} THEN "propose" ELSE "open", ![s].seen = track, ![s].todo = found]
      BY <2>5 DEF List, Proposing
    <3>2. found \subseteq Entries
      OBVIOUS
    <3> HIDE DEF found
    <3>3. QED  BY <1>1, <1>4, <2>5, <3>1, <3>2 DEF SweepFields
  <2>6. QED  BY <1>4, <2>1, <2>2, <2>3, <2>4, <2>5 DEF Passes
<1>6. SweepOK(sweep'[s])
  BY <1>1, <1>5 DEF SweepOK, Steps
<1>7. StepOK(sweep'[s])
  BY <1>1, <1>4, <1>5 DEF StepOK, Pass, Proposing, ProposingSteps, EntrySteps
<1>8. QED  BY <1>1, <1>2, <1>3, <1>5, <1>6, <1>7 DEF Quiet, SweepFrame, ProposingSteps, At

\* The suppression set holds fingerprints of incidents.
LEMMA SuppressedFps ==
    ASSUME TypeOK
    PROVE  Suppressed \subseteq Fps
BY DEF TypeOK, ForgeType, Suppressed, PRRec

\* The refusals are fetched.
LEMMA FetchQuiet ==
    ASSUME TypeOK, NEW s \in scene.sweeps, Fetch(s)
    PROVE  Quiet(s)
<1>1. SweepOK(sweep[s]) /\ StepOK(sweep[s]) /\ DOMAIN sweep = scene.sweeps /\ scene \in Scenes
      /\ DOMAIN sweep[s] = SweepFields /\ spent \in Nat
  BY SweepFacts
<1>2. UNCHANGED <<scene, open, track, file, looked, noes, pr, gaps, spent>> /\ sweep[s].step = "fetch"
  BY DEF Fetch, others, ledger, forge, Works, At
<1>3. pr' \in [Numbers -> PRRec] /\ PrFrame
  BY <1>2, StillFrame
<1>4. CASE Pass(s) = "suppress"
  <2> DEFINE kept == {n \in sweep[s].todo : pr[n].fp \in Suppressed}
  <2>1. sweep' = [sweep EXCEPT ![s].step = "act", ![s].todo = kept]
    BY <1>4 DEF Fetch
  <2>2. kept \subseteq sweep[s].todo
    OBVIOUS
  <2> HIDE DEF kept
  <2>3. /\ DOMAIN sweep' = scene.sweeps /\ DOMAIN sweep'[s] = SweepFields
        /\ sweep'[s].pass = sweep[s].pass /\ sweep'[s].budget = sweep[s].budget
        /\ sweep'[s].at = sweep[s].at /\ sweep'[s].number = sweep[s].number
        /\ sweep'[s].noes = sweep[s].noes /\ sweep'[s].asked = sweep[s].asked
        /\ sweep'[s].step = "act" /\ sweep'[s].todo = kept
    BY <1>1, <2>1 DEF SweepFields
  <2>4. SweepOK(sweep'[s])
    BY <1>1, <2>3 DEF SweepOK, Steps
  <2>5. StepOK(sweep'[s])
    BY <1>1, <1>2, <1>4, <2>2, <2>3 DEF StepOK, Pass, Proposing, ProposingSteps, EntrySteps
  <2>6. QED  BY <1>1, <1>2, <1>3, <2>3, <2>4, <2>5 DEF Quiet, SweepFrame, ProposingSteps, At
<1>5. CASE Pass(s) # "suppress"
  <2>1. sweep' = [sweep EXCEPT ![s].step = "issues", ![s].noes = Suppressed]
    BY <1>5 DEF Fetch
  <2>2. /\ DOMAIN sweep' = scene.sweeps /\ DOMAIN sweep'[s] = SweepFields
        /\ sweep'[s].pass = sweep[s].pass /\ sweep'[s].budget = sweep[s].budget
        /\ sweep'[s].at = sweep[s].at /\ sweep'[s].number = sweep[s].number
        /\ sweep'[s].noes = Suppressed /\ sweep'[s].asked = sweep[s].asked
        /\ sweep'[s].step = "issues" /\ sweep'[s].todo = sweep[s].todo /\ sweep'[s].seen = sweep[s].seen
    BY <1>1, <2>1 DEF SweepFields
  <2>3. SweepOK(sweep'[s])
    BY <1>1, <2>2, SuppressedFps DEF SweepOK, Steps
  <2>4. StepOK(sweep'[s])
    BY <1>1, <1>2, <1>5, <2>2 DEF StepOK, Pass, Proposing, ProposingSteps, EntrySteps
  <2>5. QED  BY <1>1, <1>2, <1>3, <2>2, <2>3, <2>4 DEF Quiet, SweepFrame, ProposingSteps, At
<1>6. QED  BY <1>4, <1>5

\* What is to be reported was open nowhere when the issues were listed.
LEMMA IssuesQuiet ==
    ASSUME TypeOK, NEW s \in scene.sweeps, Issues(s)
    PROVE  Quiet(s)
<1>1. SweepOK(sweep[s]) /\ StepOK(sweep[s]) /\ DOMAIN sweep = scene.sweeps /\ scene \in Scenes
      /\ DOMAIN sweep[s] = SweepFields /\ spent \in Nat
  BY SweepFacts
<1>2. UNCHANGED <<scene, open, track, file, looked, noes, pr, gaps, spent>> /\ sweep[s].step = "issues"
  BY DEF Issues, others, ledger, forge, Works, At
<1>3. pr' \in [Numbers -> PRRec] /\ PrFrame
  BY <1>2, StillFrame
<1> DEFINE candidates == {[fp |-> f, resource |-> scene.resource[f]] : f \in Refused(s)}
                           \cup {[fp |-> NoFp, resource |-> r] : r \in Unexplained(s)}
<1>4. candidates \subseteq GapRec
  <2>1. Refused(s) \subseteq Fps /\ Unexplained(s) \subseteq Resources
    BY <1>1 DEF Refused, Unexplained, SweepOK
  <2>2. \A f \in Fps : scene.resource[f] \in Resources
    BY DEF Fps, Resources, Range
  <2>3. QED  BY <2>1, <2>2 DEF GapRec
<1> DEFINE reported == Unreported(candidates)
<1>5. sweep' = [sweep EXCEPT ![s].step = "report", ![s].todo = reported]
  BY DEF Issues
<1>6. reported \subseteq GapRec /\ \A c \in reported : gaps[c.resource] = 0
  BY <1>4 DEF Unreported
<1> HIDE DEF reported
<1>7. /\ DOMAIN sweep' = scene.sweeps /\ DOMAIN sweep'[s] = SweepFields
      /\ sweep'[s].pass = sweep[s].pass /\ sweep'[s].budget = sweep[s].budget
      /\ sweep'[s].at = sweep[s].at /\ sweep'[s].number = sweep[s].number
      /\ sweep'[s].noes = sweep[s].noes /\ sweep'[s].asked = sweep[s].asked
      /\ sweep'[s].step = "report" /\ sweep'[s].todo = reported
  BY <1>1, <1>5 DEF SweepFields
<1>8. SweepOK(sweep'[s])
  BY <1>1, <1>7 DEF SweepOK, Steps
<1>9. StepOK(sweep'[s])
  BY <1>1, <1>2, <1>6, <1>7 DEF StepOK, ProposingSteps, EntrySteps
<1>10. QED  BY <1>1, <1>2, <1>3, <1>6, <1>7, <1>8, <1>9 DEF Quiet, SweepFrame, ProposingSteps, At

\* A draft is commented on and closed.
LEMMA CloseQuiet ==
    ASSUME TypeOK, NEW s \in scene.sweeps, Comment(s) \/ Close(s)
    PROVE  Quiet(s)
<1>1. SweepOK(sweep[s]) /\ StepOK(sweep[s]) /\ DOMAIN sweep = scene.sweeps /\ scene \in Scenes
      /\ DOMAIN sweep[s] = SweepFields /\ spent \in Nat /\ pr \in [Numbers -> PRRec]
  BY SweepFacts
<1>2. UNCHANGED <<scene, open, track, file, looked, noes, gaps>> /\ sweep[s].step \in {"act", "close"}
  BY DEF Comment, Close, others, ledger, At
<1>3. spent' \in Nat /\ spent <= spent'
  BY <1>1 DEF Comment, Close, Works, Fails
<1>4. sweep[s].todo \subseteq Numbers /\ sweep[s].pass \in DOMAIN scene.passes
      /\ scene.passes[sweep[s].pass] \in Passes \ Proposing
  BY <1>1, <1>2, SceneFacts DEF StepOK
<1>5. /\ pr' \in [Numbers -> PRRec] /\ PrFrame
      /\ DOMAIN sweep' = scene.sweeps /\ DOMAIN sweep'[s] = SweepFields
      /\ sweep'[s].pass = sweep[s].pass /\ sweep'[s].budget = sweep[s].budget
      /\ sweep'[s].at \in Nat /\ sweep'[s].number = sweep[s].number
      /\ sweep'[s].noes = sweep[s].noes /\ sweep'[s].asked = sweep[s].asked
      /\ sweep'[s].step \in {"act", "close"} /\ sweep'[s].todo \subseteq sweep[s].todo
  <2>1. CASE Comment(s)
    <3>1. PICK n \in sweep[s].todo :
             \/ Change(n, pr[n]) /\ sweep' = [sweep EXCEPT ![s].step = "close", ![s].at = n]
             \/ sweep' = [sweep EXCEPT ![s].todo = @ \ {n}] /\ (UNCHANGED pr \/ Change(n, pr[n]))
      BY <2>1 DEF Comment
    <3>2. n \in Numbers /\ n \in Nat /\ pr[n] \in PRRec
      BY <1>1, <1>4, <3>1, SceneFacts
    <3>3. pr' \in [Numbers -> PRRec] /\ PrFrame
      BY <1>1, <1>2, <3>1, <3>2, ChangeFrame, StillFrame
    <3>4. QED  BY <1>1, <1>2, <2>1, <3>1, <3>2, <3>3 DEF SweepFields, SweepOK, Comment, At
  <2>2. CASE Close(s)
    <3> DEFINE n == sweep[s].at
               p == [pr[n] EXCEPT !.state = "closed", !.closer = Pass(s)]
    <3>1. sweep' = [sweep EXCEPT ![s].step = "act", ![s].todo = @ \ {n}, ![s].at = 0]
          /\ \/ n \in Open /\ Change(n, p)
             \/ UNCHANGED pr
      BY <2>2 DEF Close
    <3>2. pr' \in [Numbers -> PRRec] /\ PrFrame
      <4>1. CASE n \in Open /\ Change(n, p)
        <5>1. n \in Numbers /\ pr[n] \in PRRec /\ pr[n].state = "open"
          BY <1>1, <4>1 DEF Open
        <5>2. p \in PRRec /\ p.kind = pr[n].kind /\ p.entry = pr[n].entry /\ p.labelled = pr[n].labelled
              /\ p.state = "closed"
          BY <1>4, <5>1 DEF PRRec, Pass
        <5>3. Change(n, p)
          BY <4>1
        <5> HIDE DEF n, p
        <5>4. QED  BY <1>1, <1>2, <5>1, <5>2, <5>3, ChangeFrame
      <4>2. QED  BY <3>1, <4>1, StillFrame
    <3> HIDE DEF n, p
    <3>3. QED  BY <1>1, <3>1, <3>2 DEF SweepFields
  <2>3. QED  BY <2>1, <2>2
<1>6. SweepOK(sweep'[s])
  BY <1>1, <1>5 DEF SweepOK, Steps
<1>7. StepOK(sweep'[s])
  BY <1>1, <1>4, <1>5 DEF StepOK, ProposingSteps, EntrySteps
<1>8. QED  BY <1>1, <1>2, <1>3, <1>5, <1>6, <1>7 DEF Quiet, SweepFrame, ProposingSteps, At

-----------------------------------------------------------------------------
(* A resource is reported at most once at a time.                          *)

\* Reporting a resource takes it off the list, unless the call has failed.
LEMMA ReportStep ==
    ASSUME TypeOK, NEW s \in scene.sweeps, Report(s)
    PROVE  /\ SweepFrame(s) /\ UNCHANGED pr /\ gaps' \in [Resources -> Nat]
           /\ sweep[s].step = "report" /\ sweep'[s].step = "report" /\ sweep'[s].todo \subseteq sweep[s].todo
           /\ \E c \in sweep[s].todo :
                 /\ \A r \in Resources : gaps'[r] = gaps[r] \/ (r = c.resource /\ gaps'[r] = gaps[r] + 1)
                 /\ spent' > spent \/ \A d \in sweep'[s].todo : d.resource # c.resource
<1>1. SweepOK(sweep[s]) /\ StepOK(sweep[s]) /\ DOMAIN sweep = scene.sweeps /\ scene \in Scenes
      /\ DOMAIN sweep[s] = SweepFields /\ spent \in Nat /\ gaps \in [Resources -> Nat]
  BY SweepFacts
<1>2. UNCHANGED <<scene, open, track, file, looked, noes, pr>> /\ sweep[s].step = "report"
  BY DEF Report, others, ledger, At
<1>3. spent' \in Nat /\ spent <= spent'
  BY <1>1 DEF Report, Works, Fails
<1>4. PICK c \in sweep[s].todo :
         \/ /\ gaps' = [gaps EXCEPT ![c.resource] = @ + 1]
            /\ sweep' = [sweep EXCEPT ![s].todo = {d \in @ : d.resource # c.resource}]
         \/ /\ gaps' \in {gaps, [gaps EXCEPT ![c.resource] = @ + 1]}
            /\ sweep' = [sweep EXCEPT ![s].todo = @ \ {c}]
            /\ spent' = spent + 1
  BY DEF Report, Works, Fails
<1>5. /\ DOMAIN sweep' = scene.sweeps /\ DOMAIN sweep'[s] = SweepFields
      /\ sweep'[s].pass = sweep[s].pass /\ sweep'[s].budget = sweep[s].budget
      /\ sweep'[s].at = sweep[s].at /\ sweep'[s].number = sweep[s].number
      /\ sweep'[s].noes = sweep[s].noes /\ sweep'[s].asked = sweep[s].asked
      /\ sweep'[s].step = "report" /\ sweep'[s].todo \subseteq sweep[s].todo
      /\ spent' > spent \/ \A d \in sweep'[s].todo : d.resource # c.resource
  BY <1>1, <1>2, <1>4 DEF SweepFields
<1>6. gaps' \in [Resources -> Nat]
      /\ \A r \in Resources : gaps'[r] = gaps[r] \/ (r = c.resource /\ gaps'[r] = gaps[r] + 1)
  BY <1>1, <1>4
<1>7. SweepOK(sweep'[s])
  BY <1>1, <1>5 DEF SweepOK, Steps
<1>8. StepOK(sweep'[s])
  BY <1>1, <1>2, <1>5 DEF StepOK, ProposingSteps, EntrySteps
<1>9. QED  BY <1>2, <1>3, <1>5, <1>6, <1>7, <1>8 DEF SweepFrame

\* What is about to be reported is open once for each failed call at most.
LEMMA ReportGaps ==
    ASSUME OneSweep, TypeOK, GapsOK, OneGapPerResource, NEW s \in scene.sweeps, Report(s)
    PROVE  GapsOK' /\ OneGapPerResource'
<1>1. /\ SweepFrame(s) /\ gaps' \in [Resources -> Nat] /\ gaps \in [Resources -> Nat]
      /\ sweep[s].step = "report" /\ sweep'[s].step = "report" /\ sweep'[s].todo \subseteq sweep[s].todo
      /\ sweep[s].todo \subseteq GapRec
  BY ReportStep, SweepFacts DEF StepOK
<1>2. PICK c \in sweep[s].todo :
         /\ \A r \in Resources : gaps'[r] = gaps[r] \/ (r = c.resource /\ gaps'[r] = gaps[r] + 1)
         /\ spent' > spent \/ \A d \in sweep'[s].todo : d.resource # c.resource
  BY ReportStep
<1>3. \A d \in sweep[s].todo : gaps[d.resource] <= spent /\ d.resource \in Resources
  BY <1>1 DEF GapsOK, GapRec
<1>4. scene' = scene /\ \A r \in scene.sweeps : r = s
  BY <1>1 DEF OneSweep, TypeOK, WorldType, SweepFrame
<1>0. spent \in Nat /\ spent' \in Nat /\ spent <= spent'
  BY <1>1, SweepFacts DEF SweepFrame
<1>5. \A d \in sweep'[s].todo : gaps'[d.resource] <= spent'
  BY <1>0, <1>1, <1>2, <1>3
<1>6. \A r \in Resources : gaps'[r] <= 1 + spent'
  BY <1>0, <1>1, <1>2, <1>3 DEF OneGapPerResource
<1>7. QED  BY <1>4, <1>5, <1>6 DEF GapsOK, OneGapPerResource, Resources

-----------------------------------------------------------------------------
(* The steps that propose to edit an entry.                                *)

\* Each of the two listings takes off what it found.
LEMMA ListProposalsStep ==
    ASSUME TypeOK, NEW s \in scene.sweeps, ListProposals(s)
    PROVE  /\ SweepFrame(s) /\ UNCHANGED <<pr, gaps, spent>> /\ Pass(s) \in Proposing
           /\ sweep'[s].pass = sweep[s].pass
           /\ sweep'[s].todo = sweep[s].todo \ About(Listed(Pass(s), sweep[s].step))
           /\ \/ /\ sweep[s].step = "open" /\ sweep'[s].step = "closed"
                 /\ sweep'[s].budget = scene.maxOpen - Cardinality(Listed(Pass(s), "open"))
              \/ sweep[s].step = "closed" /\ sweep'[s].step = "propose" /\ sweep'[s].budget = sweep[s].budget
<1>1. SweepOK(sweep[s]) /\ StepOK(sweep[s]) /\ DOMAIN sweep = scene.sweeps /\ scene \in Scenes
      /\ DOMAIN sweep[s] = SweepFields /\ spent \in Nat
  BY SweepFacts
<1>2. UNCHANGED <<scene, open, track, file, looked, noes, pr, gaps, spent>> /\ sweep[s].step \in {"open", "closed"}
  BY DEF ListProposals, others, ledger, forge, Works
<1>3. PICK left : left = sweep[s].todo \ About(Listed(Pass(s), sweep[s].step))
  OBVIOUS
<1>4. PICK bound : bound = scene.maxOpen - Cardinality(Listed(Pass(s), "open"))
  OBVIOUS
<1>5. bound \in Int
  <2>1. IsFiniteSet(Listed(Pass(s), "open"))
    <3>1. IsFiniteSet(Numbers) /\ Listed(Pass(s), "open") \in SUBSET Numbers
      BY <1>1, SceneFacts DEF Listed
    <3>2. QED  BY <3>1, FS_Subset
  <2>2. Cardinality(Listed(Pass(s), "open")) \in Nat /\ scene.maxOpen \in Nat
    BY <1>1, <2>1, FS_CardinalityType, SceneFacts
  <2>3. QED  BY <1>4, <2>2
<1>6. sweep' = [sweep EXCEPT ![s].step = IF @ = "open" THEN "closed" ELSE "propose",
                             ![s].todo = left,
                             ![s].budget = IF sweep[s].step = "open" THEN bound ELSE @]
  BY <1>3, <1>4 DEF ListProposals, At
<1>7. /\ DOMAIN sweep' = scene.sweeps /\ DOMAIN sweep'[s] = SweepFields
      /\ sweep'[s].pass = sweep[s].pass /\ sweep'[s].seen = sweep[s].seen
      /\ sweep'[s].at = sweep[s].at /\ sweep'[s].number = sweep[s].number
      /\ sweep'[s].noes = sweep[s].noes /\ sweep'[s].asked = sweep[s].asked
      /\ sweep'[s].step = (IF sweep[s].step = "open" THEN "closed" ELSE "propose") /\ sweep'[s].todo = left
      /\ sweep'[s].budget = IF sweep[s].step = "open" THEN bound ELSE sweep[s].budget
  BY <1>1, <1>6 DEF SweepFields
<1>8. SweepOK(sweep'[s])
  BY <1>1, <1>5, <1>7 DEF SweepOK, Steps
<1>9. StepOK(sweep'[s]) /\ Pass(s) \in Proposing
  BY <1>1, <1>2, <1>3, <1>7 DEF StepOK, ProposingSteps, EntrySteps, Pass
<1>10. QED  BY <1>1, <1>2, <1>3, <1>4, <1>7, <1>8, <1>9 DEF SweepFrame

\* The next entry is read, or passed over.
LEMMA ReadEntryStep ==
    ASSUME TypeOK, NEW s \in scene.sweeps, ReadEntry(s)
    PROVE  /\ SweepFrame(s) /\ UNCHANGED <<pr, gaps>> /\ Pass(s) \in Proposing
           /\ sweep'[s].pass = sweep[s].pass /\ sweep'[s].todo \subseteq sweep[s].todo
           /\ sweep[s].step = "propose" /\ sweep'[s].step \in {"propose", "pr"}
           /\ sweep'[s].budget = sweep[s].budget /\ ~QueueFull(s)
<1>1. SweepOK(sweep[s]) /\ StepOK(sweep[s]) /\ DOMAIN sweep = scene.sweeps /\ scene \in Scenes
      /\ DOMAIN sweep[s] = SweepFields /\ spent \in Nat /\ file \in [Entries -> FileRec]
  BY SweepFacts
<1>2. UNCHANGED <<scene, open, track, file, looked, noes, pr, gaps>> /\ sweep[s].step = "propose"
      /\ sweep[s].todo # {} /\ ~QueueFull(s)
  BY DEF ReadEntry, others, ledger, forge, At
<1>3. spent' \in Nat /\ spent <= spent'
  BY <1>1 DEF ReadEntry, Works, Fails
<1>4. PICK e : e = Min(sweep[s].todo)
  OBVIOUS
<1>5. sweep[s].todo \subseteq Entries /\ e \in sweep[s].todo /\ e \in Nat /\ file[e] \in FileRec
  <2>1. sweep[s].todo \subseteq Entries /\ Entries \subseteq Nat
    BY <1>1, <1>2, SceneFacts DEF StepOK, ProposingSteps
  <2>2. e \in sweep[s].todo
    BY <1>2, <1>4, <2>1, MinIn
  <2>3. QED  BY <1>1, <2>1, <2>2
<1>6. \/ sweep' = [sweep EXCEPT ![s].step = "pr", ![s].at = e, ![s].file = file[e]]
      \/ sweep' = [sweep EXCEPT ![s].todo = @ \ {e}]
  BY <1>4 DEF ReadEntry
<1>7. /\ DOMAIN sweep' = scene.sweeps /\ DOMAIN sweep'[s] = SweepFields
      /\ sweep'[s].pass = sweep[s].pass /\ sweep'[s].seen = sweep[s].seen
      /\ sweep'[s].number = sweep[s].number /\ sweep'[s].budget = sweep[s].budget
      /\ sweep'[s].noes = sweep[s].noes /\ sweep'[s].asked = sweep[s].asked
      /\ \/ sweep'[s].step = "pr" /\ sweep'[s].at = e /\ sweep'[s].file = file[e] /\ sweep'[s].todo = sweep[s].todo
         \/ sweep'[s].step = "propose" /\ sweep'[s].at = sweep[s].at /\ sweep'[s].todo = sweep[s].todo \ {e}
  BY <1>1, <1>2, <1>6 DEF SweepFields
<1>8. SweepOK(sweep'[s])
  BY <1>1, <1>5, <1>7 DEF SweepOK, Steps
<1>9. StepOK(sweep'[s]) /\ Pass(s) \in Proposing
  BY <1>1, <1>2, <1>5, <1>7 DEF StepOK, ProposingSteps, EntrySteps, Pass
<1>10. QED  BY <1>1, <1>2, <1>3, <1>7, <1>8, <1>9 DEF SweepFrame

\* A pull request that was not there is opened for the entry at hand, without its label.
OpenedFor(s, n) ==
    /\ n \in Free /\ n \in Numbers /\ n \in Nat
    /\ pr' \in [Numbers -> PRRec]
    /\ \A m \in Numbers \ {n} : pr'[m] = pr[m]
    /\ pr'[n].state = "open" /\ pr'[n].kind = Pass(s) /\ pr'[n].entry = sweep[s].at /\ ~pr'[n].labelled

\* The proposal is opened, or is not; the sweep knows of it only with a good answer.
LEMMA ProposeStep ==
    ASSUME TypeOK, NEW s \in scene.sweeps, Propose(s)
    PROVE  /\ SweepFrame(s) /\ UNCHANGED gaps /\ Pass(s) \in Proposing
           /\ sweep'[s].pass = sweep[s].pass /\ sweep[s].step = "pr" /\ sweep[s].at \in sweep[s].todo
           /\ sweep'[s].budget = sweep[s].budget
           /\ \/ /\ UNCHANGED pr
                 /\ sweep'[s].step = "propose" /\ sweep'[s].todo = sweep[s].todo \ {sweep[s].at}
              \/ \E n \in Numbers :
                    /\ OpenedFor(s, n)
                    /\ \/ /\ sweep'[s].step = "label" /\ sweep'[s].number = n /\ sweep'[s].at = sweep[s].at
                          /\ sweep'[s].todo = sweep[s].todo
                       \/ /\ sweep'[s].step = "propose" /\ sweep'[s].todo = sweep[s].todo \ {sweep[s].at}
                          /\ spent' = spent + 1
<1>1. SweepOK(sweep[s]) /\ StepOK(sweep[s]) /\ DOMAIN sweep = scene.sweeps /\ scene \in Scenes
      /\ DOMAIN sweep[s] = SweepFields /\ spent \in Nat /\ pr \in [Numbers -> PRRec]
  BY SweepFacts
<1>2. UNCHANGED <<scene, open, track, file, looked, noes, gaps>> /\ sweep[s].step = "pr"
  BY DEF Propose, others, ledger, At
<1>3. spent' \in Nat /\ spent <= spent'
  BY <1>1 DEF Propose, Works, Fails
<1>4. PICK n : n = Min(Free)
  OBVIOUS
<1>5. PICK p : p = [NoPR EXCEPT !.state = "open", !.kind = Pass(s), !.entry = sweep[s].at, !.labelled = FALSE,
                               !.date = sweep[s].seen[sweep[s].at].confirmed, !.was = sweep[s].file.validated]
  OBVIOUS
<1>6. /\ Pass(s) \in Proposing /\ sweep[s].todo \subseteq Entries /\ sweep[s].at \in sweep[s].todo /\ sweep[s].at \in Nat
      /\ sweep[s].seen \in [Entries -> TrackRec] /\ sweep[s].file \in FileRec
  BY <1>1, <1>2 DEF StepOK, SweepOK, Pass, ProposingSteps, EntrySteps
<1>7. p \in PRRec /\ p.state = "open" /\ p.kind = Pass(s) /\ p.entry = sweep[s].at /\ p.labelled = FALSE
  <2>1. sweep[s].seen[sweep[s].at] \in TrackRec
    BY <1>6
  <2>2. sweep[s].seen[sweep[s].at].confirmed \in Nat /\ sweep[s].file.validated \in Nat
    BY <1>6, <2>1 DEF TrackRec, FileRec
  <2>3. QED  BY <1>5, <1>6, <2>2, NoPRType DEF PRRec
<1>8. ASSUME Free # {}, pr' = [pr EXCEPT ![n] = p]
      PROVE  OpenedFor(s, n)
  <2>1. Free \subseteq Numbers /\ Numbers \subseteq Nat
    BY <1>1, SceneFacts DEF Free
  <2>2. n \in Free
    BY <1>4, <1>8, <2>1, MinIn
  <2>3. QED  BY <1>1, <1>7, <1>8, <2>1, <2>2 DEF OpenedFor
<1>9. \/ NextOne(s) /\ UNCHANGED pr
      \/ /\ Free # {} /\ pr' = [pr EXCEPT ![n] = p]
         /\ sweep' = [sweep EXCEPT ![s].step = "label", ![s].number = n,
                                   ![s].asked = @ \cup {<<Pass(s), sweep[s].at>>}]
      \/ Free # {} /\ pr' = [pr EXCEPT ![n] = p] /\ NextOne(s) /\ spent' = spent + 1
  BY <1>4, <1>5 DEF Propose, Fails
<1>10. ASSUME NextOne(s)
       PROVE  /\ DOMAIN sweep' = scene.sweeps /\ SweepOK(sweep'[s]) /\ StepOK(sweep'[s])
              /\ sweep'[s].pass = sweep[s].pass /\ sweep'[s].budget = sweep[s].budget
              /\ sweep'[s].step = "propose" /\ sweep'[s].todo = sweep[s].todo \ {sweep[s].at}
  <2>1. /\ DOMAIN sweep' = scene.sweeps /\ DOMAIN sweep'[s] = SweepFields
        /\ sweep'[s].pass = sweep[s].pass /\ sweep'[s].budget = sweep[s].budget
        /\ sweep'[s].at = sweep[s].at /\ sweep'[s].number = sweep[s].number /\ sweep'[s].seen = sweep[s].seen
        /\ sweep'[s].noes = sweep[s].noes /\ sweep'[s].asked = sweep[s].asked
        /\ sweep'[s].step = "propose" /\ sweep'[s].todo = sweep[s].todo \ {sweep[s].at}
    BY <1>1, <1>10 DEF NextOne, SweepFields
  <2>2. SweepOK(sweep'[s])
    BY <1>1, <2>1 DEF SweepOK, Steps
  <2>3. StepOK(sweep'[s])
    BY <1>1, <1>2, <2>1 DEF StepOK, ProposingSteps, EntrySteps
  <2>4. QED  BY <2>1, <2>2, <2>3
<1>11. ASSUME n \in Nat, n \in Numbers, sweep' = [sweep EXCEPT ![s].step = "label", ![s].number = n,
                                                ![s].asked = @ \cup {<<Pass(s), sweep[s].at>>}]
       PROVE  /\ DOMAIN sweep' = scene.sweeps /\ SweepOK(sweep'[s]) /\ StepOK(sweep'[s])
              /\ sweep'[s].pass = sweep[s].pass /\ sweep'[s].budget = sweep[s].budget
              /\ sweep'[s].step = "label" /\ sweep'[s].number = n /\ sweep'[s].at = sweep[s].at
              /\ sweep'[s].todo = sweep[s].todo
  <2>1. /\ DOMAIN sweep' = scene.sweeps /\ DOMAIN sweep'[s] = SweepFields
        /\ sweep'[s].pass = sweep[s].pass /\ sweep'[s].budget = sweep[s].budget
        /\ sweep'[s].at = sweep[s].at /\ sweep'[s].number = n /\ sweep'[s].seen = sweep[s].seen
        /\ sweep'[s].noes = sweep[s].noes /\ sweep'[s].asked = sweep[s].asked \cup {<<Pass(s), sweep[s].at>>}
        /\ sweep'[s].step = "label" /\ sweep'[s].todo = sweep[s].todo /\ sweep'[s].file = sweep[s].file
    BY <1>1, <1>11 DEF SweepFields
  <2>2. SweepOK(sweep'[s])
    BY <1>1, <1>6, <1>11, <2>1 DEF SweepOK, Steps
  <2>3. StepOK(sweep'[s])
    BY <1>1, <1>2, <1>11, <2>1 DEF StepOK, ProposingSteps, EntrySteps
  <2>4. QED  BY <2>1, <2>2, <2>3
<1>12. CASE NextOne(s) /\ UNCHANGED pr
  BY <1>2, <1>3, <1>6, <1>10, <1>12 DEF SweepFrame
<1>13. CASE Free # {} /\ pr' = [pr EXCEPT ![n] = p] /\ NextOne(s) /\ spent' = spent + 1
  <2>1. OpenedFor(s, n) /\ n \in Numbers
    BY <1>8, <1>13 DEF OpenedFor
  <2>2. QED  BY <1>2, <1>3, <1>6, <1>10, <1>13, <2>1 DEF SweepFrame
<1>14. CASE /\ Free # {} /\ pr' = [pr EXCEPT ![n] = p]
            /\ sweep' = [sweep EXCEPT ![s].step = "label", ![s].number = n,
                                      ![s].asked = @ \cup {<<Pass(s), sweep[s].at>>}]
  <2>1. OpenedFor(s, n) /\ n \in Numbers /\ n \in Nat
    BY <1>8, <1>14 DEF OpenedFor
  <2>2. QED  BY <1>2, <1>3, <1>6, <1>11, <1>14, <2>1 DEF SweepFrame
<1>15. QED  BY <1>9, <1>12, <1>13, <1>14

\* The label is laid, or is not, and the sweep goes on to the next entry.
LEMMA LabelStep ==
    ASSUME TypeOK, NEW s \in scene.sweeps, Label(s)
    PROVE  /\ SweepFrame(s) /\ UNCHANGED gaps /\ Pass(s) \in Proposing
           /\ sweep'[s].pass = sweep[s].pass /\ sweep[s].step = "label" /\ sweep'[s].step = "propose"
           /\ sweep'[s].todo = sweep[s].todo \ {sweep[s].at}
           /\ pr' \in [Numbers -> PRRec]
           /\ \A n \in Numbers : /\ pr'[n].kind = pr[n].kind /\ pr'[n].entry = pr[n].entry /\ pr'[n].state = pr[n].state
                                 /\ n # sweep[s].number => pr'[n].labelled = pr[n].labelled
           /\ \/ spent' = spent /\ sweep'[s].budget = sweep[s].budget - 1
                 /\ \A n \in Numbers : n = sweep[s].number => pr'[n].labelled
              \/ /\ spent' = spent + 1 /\ sweep'[s].budget = sweep[s].budget
                 /\ \A n \in Numbers : pr[n].labelled => pr'[n].labelled
<1>1. SweepOK(sweep[s]) /\ StepOK(sweep[s]) /\ DOMAIN sweep = scene.sweeps /\ scene \in Scenes
      /\ DOMAIN sweep[s] = SweepFields /\ spent \in Nat /\ pr \in [Numbers -> PRRec]
  BY SweepFacts
<1>2. UNCHANGED <<scene, open, track, file, looked, noes, gaps>> /\ sweep[s].step = "label"
  BY DEF Label, others, ledger, At
<1>3. spent' \in Nat /\ spent <= spent' /\ sweep[s].budget \in Int
  BY <1>1 DEF Label, Works, Fails, SweepOK
<1>4. PICK labelled : labelled = [pr EXCEPT ![sweep[s].number].labelled = TRUE]
  OBVIOUS
<1>5. \/ /\ spent' = spent /\ pr' = labelled
         /\ sweep' = [sweep EXCEPT ![s].step = "propose", ![s].todo = @ \ {sweep[s].at}, ![s].budget = @ - 1]
      \/ spent' = spent + 1 /\ pr' \in {pr, labelled} /\ NextOne(s)
  BY <1>4 DEF Label, Works, Fails
<1>6. labelled \in [Numbers -> PRRec]
      /\ \A n \in Numbers : /\ labelled[n].kind = pr[n].kind /\ labelled[n].entry = pr[n].entry
                            /\ labelled[n].state = pr[n].state
                            /\ n # sweep[s].number => labelled[n].labelled = pr[n].labelled
                            /\ n = sweep[s].number => labelled[n].labelled = TRUE
  <2>1. CASE sweep[s].number \in Numbers
    <3>1. pr[sweep[s].number] \in PRRec
      BY <1>1, <2>1
    <3>2. PICK p : p = [pr[sweep[s].number] EXCEPT !.labelled = TRUE]
      OBVIOUS
    <3>3. p \in PRRec /\ p.kind = pr[sweep[s].number].kind /\ p.entry = pr[sweep[s].number].entry
          /\ p.state = pr[sweep[s].number].state /\ p.labelled = TRUE
      BY <3>1, <3>2 DEF PRRec
    <3>4. labelled = [pr EXCEPT ![sweep[s].number] = p]
      BY <1>4, <3>2
    <3>5. QED  BY <1>1, <2>1, <3>3, <3>4
  <2>2. CASE sweep[s].number \notin Numbers
    <3>1. labelled = pr
      BY <1>1, <1>4, <2>2
    <3>2. QED  BY <1>1, <2>2, <3>1
  <2>3. QED  BY <2>1, <2>2
<1>7. /\ DOMAIN sweep' = scene.sweeps /\ DOMAIN sweep'[s] = SweepFields
      /\ sweep'[s].pass = sweep[s].pass /\ sweep'[s].seen = sweep[s].seen
      /\ sweep'[s].at = sweep[s].at /\ sweep'[s].number = sweep[s].number
      /\ sweep'[s].noes = sweep[s].noes /\ sweep'[s].asked = sweep[s].asked
      /\ sweep'[s].step = "propose" /\ sweep'[s].todo = sweep[s].todo \ {sweep[s].at}
      /\ \/ spent' = spent /\ pr' = labelled /\ sweep'[s].budget = sweep[s].budget - 1
         \/ spent' = spent + 1 /\ pr' \in {pr, labelled} /\ sweep'[s].budget = sweep[s].budget
  BY <1>1, <1>5 DEF SweepFields, NextOne
<1>8. SweepOK(sweep'[s])
  BY <1>1, <1>3, <1>7 DEF SweepOK, Steps
<1>9. StepOK(sweep'[s]) /\ Pass(s) \in Proposing
  BY <1>1, <1>2, <1>7 DEF StepOK, ProposingSteps, EntrySteps, Pass
<1>10. \/ /\ spent' = spent /\ pr' = labelled /\ sweep'[s].budget = sweep[s].budget - 1
       \/ spent' = spent + 1 /\ pr' = labelled /\ sweep'[s].budget = sweep[s].budget
       \/ spent' = spent + 1 /\ pr' = pr /\ sweep'[s].budget = sweep[s].budget
  BY <1>7
<1>11. SweepFrame(s) /\ UNCHANGED gaps
  BY <1>2, <1>3, <1>7, <1>8 , <1>9 DEF SweepFrame
<1>12. CASE pr' = pr
  BY <1>1, <1>2, <1>7, <1>9, <1>10, <1>11, <1>12, <1>6
<1>13. CASE pr' = labelled
  BY <1>2, <1>6, <1>7, <1>9, <1>10, <1>11, <1>13
<1>14. QED  BY <1>10, <1>12, <1>13

-----------------------------------------------------------------------------
(* The kinds of steps.                                                     *)

\* Every step, by what it does to the forge and to the sweeps.
LEMMA StepKinds ==
    ASSUME TypeOK, [Next]_vars
    PROVE  \/ EnvFrame
           \/ \E s \in scene.sweeps :
                 Quiet(s) \/ Report(s) \/ ListProposals(s) \/ ReadEntry(s) \/ Propose(s) \/ Label(s)
<1>1. CASE UNCHANGED vars
  BY <1>1 DEF vars, EnvFrame, TypeOK, ForgeType, LedgerType, WorldType, PrFrame, Kept,
              Numbers, Fps, Resources, Entries, PRRec
<1>2. CASE \E s \in scene.sweeps : Sweeps(s) \/ Cancelled(s)
  BY <1>2, StartQuiet, ListQuiet, FetchQuiet, IssuesQuiet, CloseQuiet DEF Sweeps
<1>3. QED  BY <1>1, <1>2, EnvStep DEF Next

\* The initial state has the types.
LEMMA TypeInit == Init => TypeOK
<1> SUFFICES ASSUME Init PROVE TypeOK
  OBVIOUS
<1>1. scene \in Scenes /\ Numbers \subseteq Nat
  BY SceneFacts DEF Init
<1>2. 1 \in DOMAIN scene.passes /\ {} \in SUBSET (Proposing \X Entries)
  BY <1>1, SceneFacts
<1>3. SweepOK(Idle) /\ StepOK(Idle)
  BY <1>1, <1>2, IdleOK
<1>4. ForgeType
  BY NoPRType DEF Init, ForgeType
<1>5. LedgerType /\ WorldType
  BY DEF Init, LedgerType, WorldType, TrackRec, FileRec
<1>6. SweepType
  BY <1>3 DEF Init, SweepType
<1>7. QED  BY <1>4, <1>5, <1>6 DEF TypeOK

\* Every step keeps the types, when no two sweeps overlap.
LEMMA TypeNext ==
    ASSUME OneSweep, TypeOK, [Next]_vars
    PROVE  TypeOK'
<1>1. CASE EnvFrame
  <2>1. SweepType'
    BY <1>1 DEF EnvFrame, TypeOK, SweepType, SweepOK, StepOK, Numbers, Fps, Resources, Entries, GapRec
  <2>2. QED  BY <1>1, <2>1 DEF EnvFrame, TypeOK
<1>2. ASSUME NEW s \in scene.sweeps,
             Quiet(s) \/ Report(s) \/ ListProposals(s) \/ ReadEntry(s) \/ Propose(s) \/ Label(s)
      PROVE  TypeOK'
  <2>1. SweepFrame(s) /\ gaps' \in [Resources -> Nat] /\ pr \in [Numbers -> PRRec] /\ gaps \in [Resources -> Nat]
    BY <1>2, ReportStep, ListProposalsStep, ReadEntryStep, ProposeStep, LabelStep, SweepFacts DEF Quiet
  <2>2. pr' \in [Numbers -> PRRec]
    <3>1. CASE Propose(s)
      BY <2>1, <3>1, ProposeStep DEF OpenedFor
    <3>2. CASE Label(s)
      BY <3>2, LabelStep
    <3>3. QED  BY <1>2, <2>1, <3>1, <3>2, ReportStep, ListProposalsStep, ReadEntryStep DEF Quiet
  <2>3. QED  BY <2>1, <2>2, SweepFrameType
<1>3. QED  BY <1>1, <1>2, StepKinds

\* Every variable keeps its type: what a pass holds is what its step expects.
THEOREM SweepsTypeCorrect ==
    ASSUME OneSweep
    PROVE  Spec => []TypeOK
BY TypeInit, TypeNext, PTL DEF Spec

-----------------------------------------------------------------------------
(* The theorems.                                                           *)

\* Every step keeps both bounds.
LEMMA GapsNext ==
    ASSUME OneSweep, TypeOK, GapsOK, OneGapPerResource, [Next]_vars
    PROVE  GapsOK' /\ OneGapPerResource'
<1>0. gaps \in [Resources -> Nat] /\ spent \in Nat /\ \A s \in scene.sweeps : StepOK(sweep[s])
  BY DEF TypeOK, ForgeType, WorldType, SweepType
<1>1. CASE EnvFrame
  <2>1. \A s \in scene.sweeps : sweep[s].step = "report" => \A c \in sweep[s].todo : c.resource \in Resources
    BY <1>0 DEF StepOK, GapRec
  <2>2. gaps' \in [Resources -> Nat] /\ scene' = scene /\ sweep' = sweep /\ spent' = spent
        /\ \A r \in Resources : gaps'[r] <= gaps[r]
    BY <1>1 DEF EnvFrame, ForgeType, Resources
  <2>3. GapsOK'
    BY <1>0, <2>1, <2>2 DEF GapsOK
  <2>4. \A r \in Resources : gaps'[r] <= 1 + spent
    BY <1>0, <2>2 DEF OneGapPerResource
  <2>5. QED  BY <2>2, <2>3, <2>4 DEF OneGapPerResource, Resources
<1>2. ASSUME NEW s \in scene.sweeps,
             Quiet(s) \/ ListProposals(s) \/ ReadEntry(s) \/ Propose(s) \/ Label(s)
      PROVE  GapsOK' /\ OneGapPerResource'
  <2>1. UNCHANGED gaps /\ SweepFrame(s)
        /\ (sweep'[s].step = "report" => \A c \in sweep'[s].todo : gaps[c.resource] = 0)
    BY <1>2, ListProposalsStep, ReadEntryStep, ProposeStep, LabelStep DEF Quiet
  <2>2. scene' = scene /\ \A r \in scene.sweeps : r = s
    BY <2>1 DEF OneSweep, TypeOK, WorldType, SweepFrame
  <2>3. gaps \in [Resources -> Nat] /\ spent \in Nat /\ spent' \in Nat /\ spent <= spent'
    BY <1>0, <2>1 DEF SweepFrame
  <2>4. \A r \in Resources : gaps[r] <= 1 + spent'
    BY <2>3 DEF OneGapPerResource
  <2>5. sweep'[s].step = "report" => \A c \in sweep'[s].todo : gaps[c.resource] <= spent'
    BY <2>1, <2>3
  <2>6. QED  BY <2>1, <2>2, <2>4, <2>5 DEF GapsOK, OneGapPerResource, Resources
<1>3. QED  BY <1>1, <1>2, StepKinds, ReportGaps

\* However the close of a draft, new episodes and the human who closes an issue interleave
\* with the pass, a resource has two open knowledge-gap issues only after a call that failed,
\* one more for each (recurrence.go:16, :113), as long as no second sweep runs beside the
\* first.
THEOREM OneGapAtATime ==
    ASSUME OneSweep
    PROVE  Spec => []OneGapPerResource
<1>1. Init => GapsOK /\ OneGapPerResource
  BY DEF Init, Idle, GapsOK, OneGapPerResource
<1>2. Spec => []TypeOK
  BY SweepsTypeCorrect
<1>3. QED  BY <1>1, <1>2, GapsNext, PTL DEF Spec

\* A proposal stays a proposal of its entry, open or declined; what has been listed is
\* taken off before anything is proposed.
LEMMA AskNext ==
    ASSUME OneSweep, DeclinedForGood, AskInv, [Next]_vars
    PROVE  AskInv'
<1>0. TypeOK /\ TypeOK' /\ ProposalsOK /\ LeftUnasked /\ NumberOK /\ pr \in [Numbers -> PRRec]
      /\ (\A s \in scene.sweeps : StepOK(sweep[s])) /\ \A r, s \in scene.sweeps : r = s
  BY TypeNext DEF AskInv, TypeOK, ForgeType, SweepType, WorldType, OneSweep
<1>1. CASE EnvFrame
  <2>1. scene' = scene /\ sweep' = sweep /\ Kept
    BY <1>0, <1>1 DEF EnvFrame, PrFrame
  <2>2. ProposalsOK'
    BY <1>0, <2>1 DEF ProposalsOK, Kept, Numbers
  <2>3. LeftUnasked'
    <3>1. SUFFICES ASSUME NEW s \in scene.sweeps, sweep[s].step \in ProposingSteps \ {"open"}, NEW n \in Numbers,
                          pr'[n].kind = Pass(s), pr'[n].entry \in sweep[s].todo, pr'[n].labelled
                   PROVE  sweep[s].step = "closed" /\ pr'[n].state = "closed"
      BY <2>1 DEF LeftUnasked, Numbers, Pass
    <3>2. Pass(s) \in Proposing
      BY <1>0, <3>1 DEF StepOK, Pass
    <3>3. QED  BY <1>0, <2>1, <3>1, <3>2 DEF LeftUnasked, Kept
  <2>4. NumberOK'
    BY <1>0, <2>1 DEF NumberOK, Kept, At, StepOK
  <2>5. QED  BY <1>0, <2>2, <2>3, <2>4 DEF AskInv
<1>2. ASSUME NEW s \in scene.sweeps, Quiet(s)
      PROVE  AskInv'
  <2>1. scene' = scene /\ Kept
    BY <1>0, <1>2 DEF Quiet, SweepFrame, PrFrame
  <2>2. ProposalsOK'
    BY <1>0, <2>1 DEF ProposalsOK, Kept, Numbers
  <2>3. LeftUnasked' /\ NumberOK'
    BY <1>0, <1>2, <2>1 DEF LeftUnasked, NumberOK, Quiet, At, ProposingSteps
  <2>4. QED  BY <1>0, <2>2, <2>3 DEF AskInv
<1>3. ASSUME NEW s \in scene.sweeps, Report(s)
      PROVE  AskInv'
  <2>1. scene' = scene /\ pr' = pr /\ sweep'[s].step = "report"
    BY <1>0, <1>3, ReportStep DEF SweepFrame
  <2>2. QED  BY <1>0, <2>1 DEF AskInv, ProposalsOK, LeftUnasked, NumberOK, At, ProposingSteps, Numbers
<1>4. ASSUME NEW s \in scene.sweeps, ListProposals(s)
      PROVE  AskInv'
  <2>1. /\ scene' = scene /\ pr' = pr /\ Pass(s) \in Proposing /\ sweep'[s].pass = sweep[s].pass
        /\ sweep'[s].todo = sweep[s].todo \ About(Listed(Pass(s), sweep[s].step))
        /\ \/ sweep[s].step = "open" /\ sweep'[s].step = "closed"
           \/ sweep[s].step = "closed" /\ sweep'[s].step = "propose"
    BY <1>0, <1>4, ListProposalsStep DEF SweepFrame
  <2>2. ProposalsOK' /\ NumberOK'
    BY <1>0, <2>1 DEF ProposalsOK, NumberOK, At, Numbers
  <2>3. ASSUME NEW n \in Numbers, pr[n].kind = Pass(s), pr[n].entry \in sweep'[s].todo, pr[n].labelled
        PROVE  sweep'[s].step = "closed" /\ pr[n].state = "closed"
    <3>1. pr[n].state \in {"open", "closed"} /\ pr[n].entry \in sweep[s].todo
      BY <1>0, <2>1, <2>3 DEF ProposalsOK
    <3>2. pr[n].state # sweep[s].step
      BY <2>1, <2>3 DEF About, Listed
    <3>3. sweep[s].step = "closed" => pr[n].state = "closed"
      BY <1>0, <2>3, <3>1 DEF LeftUnasked, ProposingSteps
    <3>4. QED  BY <2>1, <3>1, <3>2, <3>3
  <2>4. LeftUnasked'
    BY <1>0, <2>1, <2>3 DEF LeftUnasked, Pass, Numbers
  <2>5. QED  BY <1>0, <2>2, <2>4 DEF AskInv
<1>5. ASSUME NEW s \in scene.sweeps, ReadEntry(s)
      PROVE  AskInv'
  <2>1. /\ scene' = scene /\ pr' = pr /\ sweep'[s].pass = sweep[s].pass /\ sweep'[s].todo \subseteq sweep[s].todo
        /\ sweep[s].step = "propose" /\ sweep'[s].step \in {"propose", "pr"}
    BY <1>0, <1>5, ReadEntryStep DEF SweepFrame
  <2>2. QED  BY <1>0, <2>1 DEF AskInv, ProposalsOK, LeftUnasked, NumberOK, At, ProposingSteps, Numbers, Pass
<1>6. ASSUME NEW s \in scene.sweeps, Propose(s)
      PROVE  AskInv'
  <2>1. /\ scene' = scene /\ Pass(s) \in Proposing /\ sweep'[s].pass = sweep[s].pass /\ sweep[s].step = "pr"
        /\ \/ /\ UNCHANGED pr
              /\ sweep'[s].step = "propose" /\ sweep'[s].todo = sweep[s].todo \ {sweep[s].at}
           \/ \E n \in Numbers :
                 /\ OpenedFor(s, n)
                 /\ \/ /\ sweep'[s].step = "label" /\ sweep'[s].number = n /\ sweep'[s].at = sweep[s].at
                       /\ sweep'[s].todo = sweep[s].todo
                    \/ sweep'[s].step = "propose" /\ sweep'[s].todo = sweep[s].todo \ {sweep[s].at}
    BY <1>0, <1>6, ProposeStep DEF SweepFrame
  <2>2. \E i \in DOMAIN scene.passes : scene.passes[i] \in Proposing
    BY <1>0, <2>1 DEF StepOK, Pass
  <2>3. CASE UNCHANGED pr
    BY <1>0, <2>1, <2>2, <2>3
       DEF AskInv, ProposalsOK, LeftUnasked, NumberOK, At, ProposingSteps, Numbers, Pass, OpenedFor, Free
  <2>4. ASSUME NEW n \in Numbers, OpenedFor(s, n),
               \/ /\ sweep'[s].step = "label" /\ sweep'[s].number = n /\ sweep'[s].at = sweep[s].at
                  /\ sweep'[s].todo = sweep[s].todo
               \/ sweep'[s].step = "propose" /\ sweep'[s].todo = sweep[s].todo \ {sweep[s].at}
        PROVE  AskInv'
    <3>1. /\ \A m \in Numbers \ {n} : pr'[m] = pr[m]
          /\ pr'[n].state = "open" /\ pr'[n].kind = Pass(s) /\ pr'[n].entry = sweep[s].at /\ ~pr'[n].labelled
      BY <2>4 DEF OpenedFor
    <3>2. ProposalsOK'
      BY <1>0, <2>1, <2>2, <3>1 DEF ProposalsOK, Numbers
    <3>3. LeftUnasked'
      BY <1>0, <2>1, <2>4, <3>1 DEF LeftUnasked, ProposingSteps, Pass, Numbers
    <3>4. NumberOK'
      BY <1>0, <2>1, <2>4, <3>1 DEF NumberOK, At
    <3>5. QED  BY <1>0, <3>2, <3>3, <3>4 DEF AskInv
  <2>5. QED  BY <2>1, <2>3, <2>4
<1>7. ASSUME NEW s \in scene.sweeps, Label(s)
      PROVE  AskInv'
  <2>1. /\ scene' = scene /\ Pass(s) \in Proposing /\ sweep'[s].pass = sweep[s].pass
        /\ sweep[s].step = "label" /\ sweep'[s].step = "propose"
        /\ sweep'[s].todo = sweep[s].todo \ {sweep[s].at}
        /\ \A n \in Numbers : /\ pr'[n].kind = pr[n].kind /\ pr'[n].entry = pr[n].entry /\ pr'[n].state = pr[n].state
                              /\ n # sweep[s].number => pr'[n].labelled = pr[n].labelled
    BY <1>0, <1>7, LabelStep DEF SweepFrame
  <2>2. ProposalsOK' /\ NumberOK'
    BY <1>0, <2>1 DEF ProposalsOK, NumberOK, At, Numbers
  <2>3. LeftUnasked'
    BY <1>0, <2>1 DEF LeftUnasked, NumberOK, At, ProposingSteps, Pass, Numbers
  <2>4. QED  BY <1>0, <2>2, <2>3 DEF AskInv
<1>8. QED  BY <1>1, <1>2, <1>3, <1>4, <1>5, <1>6, <1>7, <1>0, StepKinds

\* The invariant behind it holds in every state.
LEMMA AskAlways ==
    ASSUME OneSweep, DeclinedForGood
    PROVE  Spec => []AskInv
<1>1. Init => AskInv
  <2> SUFFICES ASSUME Init PROVE AskInv
    OBVIOUS
  <2>1. TypeOK
    BY TypeInit
  <2>2. \A n \in Numbers : pr[n].kind \notin Proposing
    BY NoPRType DEF Init
  <2>3. \A s \in scene.sweeps : sweep[s].step = "idle"
    BY DEF Init, Idle
  <2>4. QED  BY <2>1, <2>2, <2>3 DEF AskInv, ProposalsOK, LeftUnasked, NumberOK, At, ProposingSteps
<1>2. QED  BY <1>1, AskNext, PTL DEF Spec

\* Whatever a human closes or merges between the two listings and the pull request, what
\* was proposed with its label is not proposed again while it is open or declined
\* (retirement.go:51), as long as sweeps do not overlap and no proposal is reopened.
THEOREM ProposedOnce ==
    ASSUME OneSweep, DeclinedForGood
    PROVE  Spec => AskedOnce
<1> DEFINE Asked == \A n \in Numbers :
                       pr[n].state = "none" /\ pr'[n].state = "open" /\ pr'[n].kind \in Proposing =>
                           \A m \in Proposals(pr'[n].kind, pr'[n].entry) : ~pr[m].labelled
<1>1. ASSUME AskInv, [Next]_vars PROVE Asked
  <2> SUFFICES ASSUME NEW n \in Numbers, pr[n].state = "none", pr'[n].state = "open", pr'[n].kind \in Proposing,
                      NEW m \in Proposals(pr'[n].kind, pr'[n].entry), pr[m].labelled
               PROVE  FALSE
    OBVIOUS
  <2>0. TypeOK /\ ProposalsOK /\ LeftUnasked
    BY <1>1 DEF AskInv
  <2>1. ~Kept /\ pr' # pr
    <3>1. ASSUME Kept PROVE FALSE
      <4>1. pr[n].kind \in Proposing
        BY <3>1 DEF Kept
      <4>2. QED  BY <2>0, <4>1 DEF ProposalsOK
    <3>2. QED  BY <3>1
  <2>2. PICK s \in scene.sweeps : Propose(s) \/ Label(s)
    <3>1. ~EnvFrame
      BY <2>0, <2>1 DEF EnvFrame, PrFrame
    <3>2. \A r \in scene.sweeps : ~Quiet(r)
      BY <2>0, <2>1 DEF Quiet, PrFrame
    <3>3. QED
      BY <1>1, <2>0, <2>1, <3>1, <3>2, StepKinds, ReportStep, ListProposalsStep, ReadEntryStep
  <2>3. CASE Label(s)
    BY <2>0, <2>3, LabelStep
  <2>4. CASE Propose(s)
    <3>1. sweep[s].step = "pr" /\ sweep[s].at \in sweep[s].todo /\ Pass(s) \in Proposing
      BY <2>0, <2>4, ProposeStep
    <3>2. PICK k \in Numbers : OpenedFor(s, k)
      BY <2>0, <2>1, <2>4, ProposeStep
    <3>3. n = k
      BY <3>2 DEF OpenedFor
    <3>4. pr[m].kind = Pass(s) /\ pr[m].entry \in sweep[s].todo /\ m \in Numbers
      BY <3>1, <3>2, <3>3 DEF OpenedFor, Proposals
    <3>5. QED  BY <2>0, <3>1, <3>4 DEF LeftUnasked, ProposingSteps
  <2>5. QED  BY <2>2, <2>3, <2>4
<1>2. QED  BY <1>1, AskAlways, PTL DEF Spec, AskedOnce

-----------------------------------------------------------------------------
(* The bound on the review queue.                                          *)

\* A finite set of numbers that loses members or gains one.
LEMMA CardinalityFacts ==
    ASSUME NEW S, IsFiniteSet(S)
    PROVE  /\ Cardinality(S) \in Nat
           /\ \A T \in SUBSET S : Cardinality(T) \in Nat /\ Cardinality(T) <= Cardinality(S)
           /\ \A x : \A T \in SUBSET (S \cup {x}) : Cardinality(T) \in Nat /\ Cardinality(T) <= Cardinality(S) + 1
<1>1. Cardinality(S) \in Nat
  BY FS_CardinalityType
<1>2. ASSUME NEW T \in SUBSET S PROVE Cardinality(T) \in Nat /\ Cardinality(T) <= Cardinality(S)
  BY FS_Subset, FS_CardinalityType
<1>3. ASSUME NEW x, NEW T \in SUBSET (S \cup {x})
      PROVE  Cardinality(T) \in Nat /\ Cardinality(T) <= Cardinality(S) + 1
  <2>1. IsFiniteSet(S \cup {x}) /\ Cardinality(S \cup {x}) \in Nat /\ Cardinality(S \cup {x}) <= Cardinality(S) + 1
    BY <1>1, FS_AddElement
  <2>2. IsFiniteSet(T) /\ Cardinality(T) <= Cardinality(S \cup {x})
    BY <2>1, FS_Subset
  <2>3. Cardinality(T) \in Nat
    BY <2>2, FS_CardinalityType
  <2>4. QED  BY <1>1, <2>1, <2>2, <2>3
<1>4. QED  BY <1>1, <1>2, <1>3

\* What waits is what a listing finds and what none will ever find.
LEMMA WaitingSplit ==
    ASSUME TypeOK, \A s \in scene.sweeps : ~At(s, "label")
    PROVE  Cardinality(Waiting) <= Cardinality(Listed("revalidate", "open")) + Cardinality(Unseen)
<1> DEFINE L == Listed("revalidate", "open")
<1>1. IsFiniteSet(Numbers) /\ L \in SUBSET Numbers /\ Unseen \in SUBSET Numbers /\ Waiting \in SUBSET (L \cup Unseen)
  BY SceneFacts DEF TypeOK, WorldType, Listed, Unseen, Waiting
<1> HIDE DEF L
<1>2. IsFiniteSet(L) /\ IsFiniteSet(Unseen)
  BY <1>1, FS_Subset
<1>3. IsFiniteSet(L \cup Unseen)
      /\ Cardinality(L \cup Unseen) = Cardinality(L) + Cardinality(Unseen) - Cardinality(L \cap Unseen)
  BY <1>2, FS_Union
<1>4. Cardinality(L) \in Nat /\ Cardinality(Unseen) \in Nat /\ Cardinality(L \cap Unseen) \in Nat
      /\ Cardinality(Waiting) <= Cardinality(L \cup Unseen) /\ Cardinality(Waiting) \in Nat
  <2>1. L \cap Unseen \in SUBSET L
    OBVIOUS
  <2>2. QED  BY <1>1, <1>2, <1>3, <2>1, CardinalityFacts
<1>5. QED  BY <1>3, <1>4 DEF L

\* The sets the bound is about are finite.
LEMMA WaitingFinite ==
    ASSUME TypeOK
    PROVE  /\ IsFiniteSet(Waiting) /\ IsFiniteSet(Unseen)
           /\ Cardinality(Waiting) \in Nat /\ Cardinality(Unseen) \in Nat
           /\ scene.maxOpen \in Nat /\ spent \in Nat
           /\ \A s \in scene.sweeps : sweep[s].budget \in Int
<1>1. IsFiniteSet(Numbers) /\ Waiting \in SUBSET Numbers /\ Unseen \in SUBSET Numbers
      /\ scene.maxOpen \in Nat /\ spent \in Nat
  BY SceneFacts DEF TypeOK, WorldType, Waiting, Unseen
<1>2. IsFiniteSet(Waiting) /\ IsFiniteSet(Unseen)
  BY <1>1, FS_Subset
<1>3. \A s \in scene.sweeps : sweep[s].budget \in Int
  BY DEF TypeOK, SweepType, SweepOK
<1>4. QED  BY <1>1, <1>2, <1>3, FS_CardinalityType

\* A step that neither opens nor reopens a proposal adds nothing to what waits.
LEMMA WaitingShrinks ==
    ASSUME Kept, scene' = scene
    PROVE  /\ Waiting' \in SUBSET Waiting
           /\ \A n \in Waiting' : pr'[n].labelled = pr[n].labelled
BY DEF Kept, Waiting, Numbers, Proposing

\* Every step keeps the bound.
LEMMA BudgetNext ==
    ASSUME OneSweep, DeclinedForGood, AskInv, BudgetOK, [Next]_vars
    PROVE  BudgetOK'
<1>0. TypeOK /\ TypeOK' /\ ProposalsOK /\ \A r, s \in scene.sweeps : r = s
  BY TypeNext DEF AskInv, TypeOK, WorldType, OneSweep
<1> DEFINE W == Cardinality(Waiting)
           U == Cardinality(Unseen)
<1>1. /\ IsFiniteSet(Waiting) /\ IsFiniteSet(Unseen) /\ W \in Nat /\ U \in Nat
      /\ scene.maxOpen \in Nat /\ spent \in Nat
      /\ \A s \in scene.sweeps : sweep[s].budget \in Int
  BY <1>0, WaitingFinite
<1>2. W <= scene.maxOpen + spent /\ U <= spent
  BY DEF BudgetOK, QueueBounded
<1>3. CASE EnvFrame
  <2>1. scene' = scene /\ sweep' = sweep /\ spent' = spent /\ Kept
    BY <1>0, <1>3 DEF EnvFrame, PrFrame
  <2>2. Waiting' \in SUBSET Waiting /\ Unseen' \in SUBSET Unseen
    BY <2>1, WaitingShrinks DEF Unseen, At
  <2>3. Cardinality(Waiting') \in Nat /\ Cardinality(Waiting') <= W
        /\ Cardinality(Unseen') \in Nat /\ Cardinality(Unseen') <= U
    BY <1>1, <2>2, CardinalityFacts
  <2> HIDE DEF W, U
  <2>4. QED  BY <1>1, <1>2, <2>1, <2>3 DEF BudgetOK, QueueBounded, Pass, W, U
<1>4. ASSUME NEW s \in scene.sweeps, Quiet(s)
      PROVE  BudgetOK'
  <2>1. scene' = scene /\ Kept /\ spent' \in Nat /\ spent <= spent' /\ (At(s, "label") => spent' = spent + 1)
    BY <1>0, <1>4 DEF Quiet, SweepFrame, PrFrame
  <2>2. Waiting' \in SUBSET Waiting
        /\ \/ ~At(s, "label") /\ Unseen' \in SUBSET Unseen
           \/ At(s, "label") /\ Unseen' \in SUBSET (Unseen \cup {sweep[s].number})
    BY <1>0, <2>1, WaitingShrinks DEF Unseen, At
  <2>3. Cardinality(Waiting') \in Nat /\ Cardinality(Waiting') <= W
    BY <1>1, <2>2, CardinalityFacts
  <2>4. Cardinality(Unseen') \in Nat /\ Cardinality(Unseen') <= spent'
    <3>1. CASE ~At(s, "label")
      <4>1. Cardinality(Unseen') \in Nat /\ Cardinality(Unseen') <= U
        BY <1>1, <2>2, <3>1, CardinalityFacts
      <4>2. QED  BY <1>1, <1>2, <2>1, <4>1
    <3>2. CASE At(s, "label")
      <4>1. Cardinality(Unseen') \in Nat /\ Cardinality(Unseen') <= U + 1
        BY <1>1, <2>2, <3>2, CardinalityFacts
      <4>2. QED  BY <1>1, <1>2, <2>1, <3>2, <4>1
    <3>3. QED  BY <3>1, <3>2
  <2>5. sweep'[s].step \notin {"closed", "pr", "label"} /\ (sweep'[s].step = "propose" => sweep'[s].budget = 0)
    BY <1>4 DEF Quiet, ProposingSteps
  <2>6. QED  BY <1>0, <1>1, <1>2, <2>1, <2>3, <2>4, <2>5 DEF BudgetOK, QueueBounded, EntrySteps
<1>5. ASSUME NEW s \in scene.sweeps, Report(s)
      PROVE  BudgetOK'
  <2>1. scene' = scene /\ pr' = pr /\ spent' \in Nat /\ spent <= spent'
        /\ sweep[s].step = "report" /\ sweep'[s].step = "report"
    BY <1>0, <1>5, ReportStep DEF SweepFrame
  <2>2. Waiting' = Waiting /\ Unseen' = Unseen
    BY <1>0, <2>1 DEF Waiting, Unseen, At, Numbers
  <2>3. QED  BY <1>0, <1>1, <1>2, <2>1, <2>2 DEF BudgetOK, QueueBounded, EntrySteps
<1>6. ASSUME NEW s \in scene.sweeps, ListProposals(s)
      PROVE  BudgetOK'
  <2>1. /\ scene' = scene /\ pr' = pr /\ spent' = spent /\ Pass(s)' = Pass(s)
        /\ \/ /\ sweep[s].step = "open" /\ sweep'[s].step = "closed"
              /\ sweep'[s].budget = scene.maxOpen - Cardinality(Listed(Pass(s), "open"))
           \/ sweep[s].step = "closed" /\ sweep'[s].step = "propose" /\ sweep'[s].budget = sweep[s].budget
    BY <1>0, <1>6, ListProposalsStep DEF SweepFrame, Pass
  <2>2. Waiting' = Waiting /\ Unseen' = Unseen /\ \A r \in scene.sweeps : ~At(r, "label")
    BY <1>0, <2>1 DEF Waiting, Unseen, At, Numbers
  <2>3. Pass(s) = "revalidate" => W + sweep'[s].budget <= scene.maxOpen + spent
    <3>1. CASE sweep[s].step = "open" /\ Pass(s) = "revalidate"
      <4>1. W <= Cardinality(Listed("revalidate", "open")) + U
        BY <1>0, <2>2, WaitingSplit
      <4>2. Cardinality(Listed("revalidate", "open")) \in Nat
        <5>1. Listed("revalidate", "open") \in SUBSET Numbers /\ IsFiniteSet(Numbers)
          BY <1>0, SceneFacts DEF Listed, TypeOK, WorldType
        <5>2. QED  BY <5>1, CardinalityFacts
      <4> HIDE DEF W, U
      <4>3. QED  BY <1>1, <1>2, <2>1, <3>1, <4>1, <4>2
    <3>2. CASE sweep[s].step = "closed" /\ Pass(s) = "revalidate"
      BY <2>1, <3>2 DEF BudgetOK
    <3>3. QED  BY <2>1, <3>1, <3>2
  <2>4. sweep'[s].step \in {"closed", "propose"}
    BY <2>1
  <2>5. QED  BY <1>0, <1>1, <1>2, <2>1, <2>2, <2>3, <2>4 DEF BudgetOK, QueueBounded, EntrySteps
<1>7. ASSUME NEW s \in scene.sweeps, ReadEntry(s)
      PROVE  BudgetOK'
  <2>1. /\ scene' = scene /\ pr' = pr /\ spent' \in Nat /\ spent <= spent' /\ Pass(s)' = Pass(s)
        /\ sweep[s].step = "propose" /\ sweep'[s].step \in {"propose", "pr"}
        /\ sweep'[s].budget = sweep[s].budget /\ sweep[s].budget \in Int
        /\ (Pass(s) = "revalidate" => sweep[s].budget > 0)
    BY <1>0, <1>1, <1>7, ReadEntryStep DEF SweepFrame, Pass, QueueFull
  <2>2. Waiting' = Waiting /\ Unseen' = Unseen
    BY <1>0, <2>1 DEF Waiting, Unseen, At, Numbers
  <2>3. Pass(s) = "revalidate" => W + sweep[s].budget <= scene.maxOpen + spent
    BY <2>1 DEF BudgetOK
  <2>4. QED  BY <1>0, <1>1, <1>2, <2>1, <2>2, <2>3 DEF BudgetOK, QueueBounded, EntrySteps
<1>8. ASSUME NEW s \in scene.sweeps, Propose(s)
      PROVE  BudgetOK'
  <2>1. /\ scene' = scene /\ spent' \in Nat /\ spent <= spent' /\ Pass(s)' = Pass(s)
        /\ sweep[s].step = "pr" /\ sweep'[s].budget = sweep[s].budget /\ sweep[s].budget \in Int
        /\ \/ UNCHANGED pr /\ sweep'[s].step = "propose"
           \/ \E n \in Numbers :
                 /\ OpenedFor(s, n)
                 /\ \/ sweep'[s].step = "label" /\ sweep'[s].number = n
                    \/ sweep'[s].step = "propose" /\ spent' = spent + 1
    BY <1>0, <1>1, <1>8, ProposeStep DEF SweepFrame, Pass
  <2>2. Pass(s) = "revalidate" => W + sweep[s].budget <= scene.maxOpen + spent /\ sweep[s].budget > 0
    BY <2>1 DEF BudgetOK, EntrySteps
  <2>3. CASE UNCHANGED pr /\ sweep'[s].step = "propose"
    <3>1. Waiting' = Waiting /\ Unseen' = Unseen
      BY <1>0, <2>1, <2>3 DEF Waiting, Unseen, At, Numbers
    <3>2. QED  BY <1>0, <1>1, <1>2, <2>1, <2>2, <2>3, <3>1 DEF BudgetOK, QueueBounded, EntrySteps
  <2>4. ASSUME NEW n \in Numbers, OpenedFor(s, n),
               \/ sweep'[s].step = "label" /\ sweep'[s].number = n
               \/ sweep'[s].step = "propose" /\ spent' = spent + 1
        PROVE  BudgetOK'
    <3>1. /\ \A m \in Numbers \ {n} : pr'[m] = pr[m]
          /\ pr'[n].kind = Pass(s) /\ ~pr'[n].labelled
      BY <2>4 DEF OpenedFor
    <3>2. Waiting' \in SUBSET (Waiting \cup {n}) /\ (Pass(s) # "revalidate" => Waiting' \in SUBSET Waiting)
      BY <2>1, <3>1 DEF Waiting, Numbers
    <3>3. Cardinality(Waiting') \in Nat /\ Cardinality(Waiting') <= W + 1
          /\ (Pass(s) # "revalidate" => Cardinality(Waiting') <= W)
      BY <1>1, <3>2, CardinalityFacts
    <3>4. Cardinality(Unseen') \in Nat /\ Cardinality(Unseen') <= spent'
      <4>1. CASE sweep'[s].step = "label" /\ sweep'[s].number = n
        <5>1. Unseen' \in SUBSET Unseen
          BY <1>0, <2>1, <3>1, <4>1 DEF Unseen, Waiting, At, Numbers
        <5>2. Cardinality(Unseen') \in Nat /\ Cardinality(Unseen') <= U
          BY <1>1, <5>1, CardinalityFacts
        <5>3. QED  BY <1>1, <1>2, <2>1, <5>2
      <4>2. CASE sweep'[s].step = "propose" /\ spent' = spent + 1
        <5>1. Unseen' \in SUBSET (Unseen \cup {n})
          BY <1>0, <2>1, <3>1, <4>2 DEF Unseen, Waiting, At, Numbers
        <5>2. Cardinality(Unseen') \in Nat /\ Cardinality(Unseen') <= U + 1
          BY <1>1, <5>1, CardinalityFacts
        <5>3. QED  BY <1>1, <1>2, <4>2, <5>2
      <4>3. QED  BY <2>4, <4>1, <4>2
    <3>5. Cardinality(Waiting') <= scene.maxOpen + spent'
      BY <1>1, <1>2, <2>1, <2>2, <3>3
    <3>6. /\ sweep'[s].step = "propose" /\ Pass(s) = "revalidate" =>
                Cardinality(Waiting') + sweep'[s].budget <= scene.maxOpen + spent'
          /\ Pass(s) = "revalidate" =>
                Cardinality(Waiting') + sweep'[s].budget <= scene.maxOpen + spent' + 1
      BY <1>1, <2>1, <2>2, <2>4, <3>3
    <3>7. QED  BY <1>0, <2>1, <2>2, <2>4, <3>4, <3>5, <3>6 DEF BudgetOK, QueueBounded, EntrySteps
  <2>5. QED  BY <2>1, <2>3, <2>4
<1>9. ASSUME NEW s \in scene.sweeps, Label(s)
      PROVE  BudgetOK'
  <2>1. /\ scene' = scene /\ Pass(s)' = Pass(s) /\ sweep[s].step = "label" /\ sweep'[s].step = "propose"
        /\ \A n \in Numbers : /\ pr'[n].kind = pr[n].kind /\ pr'[n].state = pr[n].state
                              /\ n # sweep[s].number => pr'[n].labelled = pr[n].labelled
        /\ \/ spent' = spent /\ sweep'[s].budget = sweep[s].budget - 1
              /\ \A n \in Numbers : n = sweep[s].number => pr'[n].labelled
           \/ spent' = spent + 1 /\ sweep'[s].budget = sweep[s].budget
    BY <1>0, <1>9, LabelStep DEF SweepFrame, Pass
  <2>2. Waiting' = Waiting
    BY <2>1 DEF Waiting, Numbers
  <2>3. Pass(s) = "revalidate" => W + sweep[s].budget <= scene.maxOpen + spent + 1
    BY <2>1 DEF BudgetOK
  <2>4. Cardinality(Unseen') \in Nat /\ Cardinality(Unseen') <= spent'
    <3>1. CASE spent' = spent /\ \A n \in Numbers : n = sweep[s].number => pr'[n].labelled
      <4>1. Unseen' \in SUBSET Unseen
        BY <1>0, <2>1, <2>2, <3>1 DEF Unseen, Waiting, At
      <4>2. Cardinality(Unseen') \in Nat /\ Cardinality(Unseen') <= U
        BY <1>1, <4>1, CardinalityFacts
      <4>3. QED  BY <1>1, <1>2, <3>1, <4>2
    <3>2. CASE spent' = spent + 1
      <4>1. Unseen' \in SUBSET (Unseen \cup {sweep[s].number})
        BY <1>0, <2>1, <2>2 DEF Unseen, Waiting, At
      <4>2. Cardinality(Unseen') \in Nat /\ Cardinality(Unseen') <= U + 1
        BY <1>1, <4>1, CardinalityFacts
      <4>3. QED  BY <1>1, <1>2, <3>2, <4>2
    <3>3. QED  BY <2>1, <3>1, <3>2
  <2>5. sweep[s].budget \in Int
    BY <1>1
  <2>6. /\ Pass(s) = "revalidate" => W + sweep'[s].budget <= scene.maxOpen + spent'
        /\ W <= scene.maxOpen + spent'
    BY <1>1, <1>2, <2>1, <2>3, <2>5
  <2>7. QED  BY <1>0, <2>1, <2>2, <2>4, <2>6 DEF BudgetOK, QueueBounded, EntrySteps
<1>10. QED  BY <1>0, <1>3, <1>4, <1>5, <1>6, <1>7, <1>8, <1>9, StepKinds

\* Over all sweeps, humans' merges and closes and any cancelled pass, the proposals that
\* wait for a review exceed the bound by at most the calls that failed (revalidation.go:88),
\* as long as sweeps do not overlap and no proposal is reopened.
THEOREM ReviewQueueKeepsBound ==
    ASSUME OneSweep, DeclinedForGood
    PROVE  Spec => []QueueBounded
<1>1. Init => BudgetOK
  <2> SUFFICES ASSUME Init PROVE BudgetOK
    OBVIOUS
  <2>1. TypeOK /\ spent = 0 /\ \A s \in scene.sweeps : sweep[s].step = "idle"
    BY TypeInit DEF Init, Idle
  <2>2. Waiting = {} /\ Unseen = {}
    BY NoPRType DEF Init, Waiting, Unseen
  <2>3. scene.maxOpen \in Nat /\ Cardinality({}) = 0
    BY <2>1, WaitingFinite, FS_EmptySet
  <2>4. QED  BY <2>1, <2>2, <2>3 DEF BudgetOK, QueueBounded, EntrySteps
<1>2. BudgetOK => QueueBounded
  BY DEF BudgetOK
<1>3. QED  BY <1>1, <1>2, AskAlways, BudgetNext, PTL DEF Spec

-----------------------------------------------------------------------------
(* The mergeability label (MergeLabel).  The rebuild of a conflicting pull *)
(* request keeps every edit it can see: for any groomers, edits, histories *)
(* and failing calls, only a push that came after the rebuild's second     *)
(* look at the head takes an edit out.                                     *)
(*                                                                         *)
(* The head only grows, and the text changes with it alone.  So a groomer  *)
(* that still finds the head it examined first has read the text that is   *)
(* there (HeldIsCurrent), although head and text are read by two calls.    *)

CONSTANTS Edits, LabelScenes                   \* of MergeLabel
VARIABLES labelScene, entryPr, fact, act, edit, moved, labelSpent, read

Ready == INSTANCE MergeLabel WITH Scenes <- LabelScenes, scene <- labelScene, pr <- entryPr,
                                  spent <- labelSpent

\* Every instance has its edits from Edits (MergeLabel's ScenesAssumption).
EditsGiven == \A s \in LabelScenes : s.edits \subseteq Edits

Texts  == {"draft"} \cup Edits
LabelSet == {"ready", "solved", "accepted", "security"}
Observation == {"none", "held", "failed"}

\* A pull request, what a groomer has read, and what an edit has.
EntryPR == [state : {"open", "merged"}, labels : SUBSET LabelSet, head : Nat, text : SUBSET Texts,
            conflict : BOOLEAN, human : BOOLEAN]
Reading == [step : {"idle", "state", "strip", "rebuild", "read", "check", "push", "queue", "text",
                    "decide"},
            labels : SUBSET LabelSet, latest : Observation, contested : BOOLEAN, head : Nat,
            text : SUBSET Texts, own : BOOLEAN, threat : BOOLEAN, unread : BOOLEAN]
EditRec == [step : {"idle", "file", "strip", "landed", "written"}, labels : SUBSET LabelSet,
            text : SUBSET Texts]

\* The types of the variables.
LabelTyped ==
    /\ labelScene \in LabelScenes /\ labelScene.edits \subseteq Edits
    /\ labelSpent \in Nat /\ moved \in Nat
    /\ entryPr \in EntryPR
    /\ fact \in [latest : Observation, contested : BOOLEAN, resolved : BOOLEAN]
    /\ act \in [labelScene.actors -> Reading]
    /\ edit \in [labelScene.edits -> EditRec]
    /\ read \in SUBSET Texts

\* What a groomer holds of the pull request is not newer than it is, and what it is about
\* to push is the text of the head it looked at.
HeldIsCurrent ==
    \A a \in labelScene.actors :
        /\ act[a].head <= entryPr.head
        /\ act[a].step \in {"check", "push"} /\ act[a].head = entryPr.head
              => act[a].text = entryPr.text

LabelInv == LabelTyped /\ HeldIsCurrent

\* What a groomer may hold, and what becomes of the pull request.
Fresh(r) ==
    /\ r \in Reading /\ r.head <= entryPr.head
    /\ r.step \in {"check", "push"} /\ r.head = entryPr.head => r.text = entryPr.text
Moves ==
    /\ entryPr' \in EntryPR
    /\ \/ entryPr'.head = entryPr.head /\ entryPr'.text = entryPr.text
       \/ entryPr'.head = entryPr.head + 1

-----------------------------------------------------------------------------
(* The groomers.                                                           *)

\* What the fields of the state are.
LEMMA LabelFacts ==
    ASSUME LabelInv
    PROVE  /\ entryPr.state \in {"open", "merged"} /\ entryPr.labels \in SUBSET LabelSet
           /\ entryPr.head \in Nat /\ entryPr.text \in SUBSET Texts
           /\ entryPr.conflict \in BOOLEAN /\ entryPr.human \in BOOLEAN
           /\ fact.latest \in Observation /\ fact.contested \in BOOLEAN /\ fact.resolved \in BOOLEAN
           /\ labelScene.edits \subseteq Edits /\ \A text : Ready!Threat(text) \in BOOLEAN
           /\ Ready!NoRead \in Reading /\ \A a \in labelScene.actors : act[a] \in Reading
<1>1. Ready!NoRead \in Reading
  BY DEF Ready!NoRead, Reading, LabelSet, Observation, Texts
<1>2. labelScene.edits \subseteq Edits
  BY DEF LabelInv, LabelTyped
<1>3. \A text : Ready!Threat(text) \in BOOLEAN
  BY DEF Ready!Threat
<1> QED
  BY <1>1, <1>2, <1>3 DEF LabelInv, LabelTyped, EntryPR

\* A groomer that is done or goes on with the evidence holds nothing it may push.
LEMMA DoneFresh ==
    ASSUME LabelInv, NEW a \in labelScene.actors, Ready!Over(a) \/ Ready!ToQueue(a)
    PROVE  \E r : Fresh(r) /\ act' = [act EXCEPT ![a] = r]
<1>1. PICK r : /\ r = Ready!NoRead \/ r = [Ready!NoRead EXCEPT !.step = "queue"]
               /\ act' = [act EXCEPT ![a] = r]
  BY DEF Ready!Over, Ready!ToQueue
<1>2. r \in Reading /\ r.head = 0 /\ r.step \notin {"check", "push"}
  <2>1. PICK x : x = Ready!NoRead
    OBVIOUS
  <2>2. x.head = 0 /\ x.step = "idle"
    BY <2>1 DEF Ready!NoRead
  <2>3. x \in Reading
    BY <2>1, LabelFacts
  <2>4. r = x \/ r = [x EXCEPT !.step = "queue"]
    BY <1>1, <2>1
  <2> QED
    BY <2>2, <2>3, <2>4 DEF Reading
<1>3. Fresh(r)
  BY <1>2, LabelFacts DEF Fresh
<1> QED
  BY <1>1, <1>3

\* A failed or a refused one is done.
LEMMA FailedFresh ==
    ASSUME LabelInv, NEW a \in labelScene.actors, Ready!Failed(a) \/ Ready!Refused(a)
    PROVE  \E r : Fresh(r) /\ act' = [act EXCEPT ![a] = r]
  BY DoneFresh DEF Ready!Failed, Ready!Refused

\* A groomer that only reads: its new record is as fresh as the pull request.
LEMMA HeldFresh ==
    ASSUME LabelInv, NEW a \in labelScene.actors, NEW r \in Reading,
           r.step \notin {"check", "push"},
           r.head = act[a].head \/ r.head = entryPr.head \/ r.head = 0
    PROVE  Fresh(r)
<1>1. act[a].head <= entryPr.head /\ entryPr.head \in Nat
  BY LabelFacts DEF LabelInv, HeldIsCurrent
<1> QED
  BY <1>1 DEF Fresh

\* The refresh: what a groomer does up to its push.
LEMMA RefreshFresh ==
    ASSUME LabelInv, NEW a \in labelScene.actors,
           Ready!RefreshList(a) \/ Ready!EntryPRState(a) \/ Ready!RebuildCheckFirst(a)
           \/ Ready!RebuildRead(a) \/ Ready!RebuildCheck(a)
    PROVE  UNCHANGED entryPr /\ \E r : Fresh(r) /\ act' = [act EXCEPT ![a] = r]
<1>1. PICK x : x = act[a]
  OBVIOUS
<1>2. x \in Reading /\ act \in [labelScene.actors -> Reading]
  BY <1>1, LabelFacts DEF LabelInv, LabelTyped
<1>3. CASE Ready!Failed(a) \/ Ready!Refused(a)
  BY <1>3, FailedFresh DEF Ready!RefreshList, Ready!EntryPRState, Ready!RebuildCheckFirst,
           Ready!RebuildRead, Ready!RebuildCheck
<1>4. CASE Ready!RefreshList(a)
  <2>1. PICK r : r = [x EXCEPT !.step = "state", !.labels = entryPr.labels, !.latest = fact.latest]
    OBVIOUS
  <2>2. act' = [act EXCEPT ![a] = r] /\ UNCHANGED entryPr
    BY <1>1, <1>2, <1>4, <2>1 DEF Ready!RefreshList
  <2>3. r \in Reading /\ r.step = "state" /\ r.head = x.head
    BY <1>2, <2>1, LabelFacts DEF Reading
  <2> QED
    BY <1>1, <2>2, <2>3, HeldFresh
<1>5. CASE act' = [act EXCEPT ![a].step = "strip", ![a].head = entryPr.head,
           ![a].own = ~entryPr.human]
           /\ UNCHANGED entryPr
  <2>1. PICK r : r = [x EXCEPT !.step = "strip", !.head = entryPr.head, !.own = ~entryPr.human]
    OBVIOUS
  <2>2. act' = [act EXCEPT ![a] = r]
    BY <1>1, <1>2, <1>5, <2>1
  <2>3. r \in Reading /\ r.step = "strip" /\ r.head = entryPr.head
    BY <1>2, <2>1, LabelFacts DEF Reading
  <2> QED
    BY <1>5, <2>2, <2>3, HeldFresh
<1>6. CASE Ready!EntryPRState(a)
  BY <1>3, <1>5, <1>6 DEF Ready!EntryPRState
<1>7. CASE Ready!RebuildCheckFirst(a)
  <2>1. CASE act' = [act EXCEPT ![a].step = "read"] /\ UNCHANGED entryPr
    <3>1. PICK r : r = [x EXCEPT !.step = "read"]
      OBVIOUS
    <3>2. act' = [act EXCEPT ![a] = r] /\ r \in Reading /\ r.step = "read" /\ r.head = x.head
      BY <1>1, <1>2, <2>1, <3>1 DEF Reading
    <3> QED
      BY <1>1, <2>1, <3>2, HeldFresh
  <2> QED
    BY <1>3, <1>7, <2>1 DEF Ready!RebuildCheckFirst
<1>8. CASE Ready!RebuildRead(a)
  <2>1. CASE act' = [act EXCEPT ![a].step = "check", ![a].text = entryPr.text] /\ UNCHANGED entryPr
    <3>1. PICK r : r = [x EXCEPT !.step = "check", !.text = entryPr.text]
      OBVIOUS
    <3>2. act' = [act EXCEPT ![a] = r]
      BY <1>1, <1>2, <2>1, <3>1
    <3>3. r \in Reading /\ r.head = x.head /\ r.text = entryPr.text
      BY <1>2, <3>1, LabelFacts DEF Reading
    <3>4. Fresh(r)
      BY <1>1, <3>3 DEF Fresh, LabelInv, HeldIsCurrent
    <3> QED
      BY <2>1, <3>2, <3>4
  <2> QED
    BY <1>3, <1>8, <2>1 DEF Ready!RebuildRead
<1>9. CASE Ready!RebuildCheck(a)
  <2>1. CASE Ready!At(a, "check") /\ Ready!Rebuildable(a) /\ UNCHANGED entryPr
             /\ act' = [act EXCEPT ![a].step = "push", ![a].head = entryPr.head]
    <3>1. PICK r : r = [x EXCEPT !.step = "push", !.head = entryPr.head]
      OBVIOUS
    <3>2. act' = [act EXCEPT ![a] = r]
      BY <1>1, <1>2, <2>1, <3>1
    <3>3. r \in Reading /\ r.head = entryPr.head /\ r.text = x.text
      BY <1>2, <3>1, LabelFacts DEF Reading
    <3>4. x.text = entryPr.text
      BY <1>1, <2>1 DEF LabelInv, HeldIsCurrent, Ready!At, Ready!Rebuildable
    <3>5. Fresh(r)
      BY <3>3, <3>4, LabelFacts DEF Fresh
    <3> QED
      BY <2>1, <3>2, <3>5
  <2> QED
    BY <1>3, <1>9, <2>1 DEF Ready!RebuildCheck
<1> QED
  BY <1>4, <1>6, <1>7, <1>8, <1>9

\* A label laid or taken off leaves the head and the text.
LEMMA LabelsMove ==
    ASSUME LabelInv, NEW l \in SUBSET LabelSet, entryPr' = [entryPr EXCEPT !.labels = l]
    PROVE  Moves
<1>1. entryPr \in EntryPR /\ entryPr' \in EntryPR
  BY DEF LabelInv, LabelTyped, EntryPR
<1>2. entryPr'.head = entryPr.head /\ entryPr'.text = entryPr.text
  BY <1>1 DEF EntryPR
<1> QED
  BY <1>1, <1>2 DEF Moves

\* A push makes a new head.
LEMMA PushMoves ==
    ASSUME LabelInv, NEW t \in SUBSET Texts, NEW c \in BOOLEAN, NEW h \in BOOLEAN,
           entryPr' = [Ready!Push(t) EXCEPT !.conflict = c, !.human = h]
    PROVE  Moves /\ entryPr'.text = t
<1>1. PICK k : k = entryPr.head + 1
  OBVIOUS
<1>2. k \in Nat /\ entryPr \in EntryPR
  BY <1>1, LabelFacts DEF LabelInv, LabelTyped
<1>3. entryPr' = [[entryPr EXCEPT !.text = t, !.head = k] EXCEPT !.conflict = c, !.human = h]
  BY <1>1 DEF Ready!Push
<1>4. entryPr' \in EntryPR /\ entryPr'.head = k /\ entryPr'.text = t
  BY <1>2, <1>3 DEF EntryPR
<1> QED
  BY <1>1, <1>4 DEF Moves

\* The strip, and the Queue: labels only.
LEMMA LabelFresh ==
    ASSUME LabelInv, NEW a \in labelScene.actors,
           Ready!Strip(a) \/ Ready!QueueList(a) \/ Ready!ReadText(a) \/ Ready!Relabel(a)
    PROVE  Moves /\ \E r : Fresh(r) /\ act' = [act EXCEPT ![a] = r]
<1>1. PICK x : x = act[a]
  OBVIOUS
<1>2. x \in Reading /\ act \in [labelScene.actors -> Reading]
  BY <1>1, LabelFacts DEF LabelInv, LabelTyped
<1>3. ASSUME UNCHANGED entryPr PROVE Moves
  BY <1>3 DEF Moves, LabelInv, LabelTyped
<1>4. CASE Ready!Strip(a)
  <2>1. Moves
    <3>1. CASE entryPr' = [entryPr EXCEPT !.labels = @ \ {"ready"}]
      <4>1. PICK l : l = entryPr.labels \ {"ready"}
        OBVIOUS
      <4>2. l \in SUBSET LabelSet /\ entryPr' = [entryPr EXCEPT !.labels = l]
        BY <3>1, <4>1, LabelFacts
      <4> QED
        BY <4>2, LabelsMove
    <3> QED
      BY <1>3, <1>4, <3>1 DEF Ready!Strip
  <2>2. CASE act' = [act EXCEPT ![a].step = "rebuild"]
    <3>1. PICK r : r = [x EXCEPT !.step = "rebuild"]
      OBVIOUS
    <3>2. act' = [act EXCEPT ![a] = r] /\ r \in Reading /\ r.step = "rebuild" /\ r.head = x.head
      BY <1>1, <1>2, <2>2, <3>1 DEF Reading
    <3> QED
      BY <1>1, <2>1, <3>2, HeldFresh
  <2> QED
    BY <1>4, <2>1, <2>2, FailedFresh DEF Ready!Strip
<1>5. CASE Ready!QueueList(a)
  <2>1. CASE \E s \in {"text", "decide"} :
               act' = [act EXCEPT ![a] = [Ready!NoRead EXCEPT !.labels = entryPr.labels,
                                             !.latest = fact.latest,
                                             !.contested = fact.contested, !.step = s]]
    <3> PICK s \in {"text", "decide"} :
            act' = [act EXCEPT ![a] = [Ready!NoRead EXCEPT !.labels = entryPr.labels,
                                          !.latest = fact.latest,
                                          !.contested = fact.contested, !.step = s]]
      BY <2>1
    <3>1. PICK r :
            /\ r = [Ready!NoRead EXCEPT !.labels = entryPr.labels, !.latest = fact.latest,
                                  !.contested = fact.contested, !.step = s]
            /\ act' = [act EXCEPT ![a] = r]
      OBVIOUS
    <3>2. r \in Reading /\ r.step = s /\ r.head = 0
      <4>1. PICK z, l, f, c : z = Ready!NoRead /\ l = entryPr.labels /\ f = fact.latest
                              /\ c = fact.contested
        OBVIOUS
      <4>2. z \in Reading /\ l \in SUBSET LabelSet /\ f \in Observation /\ c \in BOOLEAN
        BY <4>1, LabelFacts
      <4>3. z.head = 0
        BY <4>1 DEF Ready!NoRead
      <4>4. r = [z EXCEPT !.labels = l, !.latest = f, !.contested = c, !.step = s]
        BY <3>1, <4>1
      <4> QED
        BY <4>2, <4>3, <4>4 DEF Reading
    <3> QED
      BY <1>3, <1>5, <3>1, <3>2, HeldFresh DEF Ready!QueueList
  <2> QED
    BY <1>3, <1>5, <2>1, DoneFresh DEF Ready!QueueList
<1>6. CASE Ready!ReadText(a)
  <2>1. PICK b, c, r :
          /\ b \in BOOLEAN /\ c \in BOOLEAN
          /\ r = [x EXCEPT !.step = "decide", !.threat = b, !.unread = c]
          /\ act' = [act EXCEPT ![a] = r]
    <3>1. CASE act' = [act EXCEPT ![a].step = "decide", ![a].threat = Ready!Threat(entryPr.text)]
      <4>1. PICK b : b = Ready!Threat(entryPr.text)
        OBVIOUS
      <4>2. b \in BOOLEAN /\ x.unread \in BOOLEAN
        BY <1>2, <4>1, LabelFacts DEF Reading
      <4>3. [x EXCEPT !.step = "decide", !.threat = b] =
               [x EXCEPT !.step = "decide", !.threat = b, !.unread = x.unread]
        BY <1>2 DEF Reading
      <4> QED
        BY <1>1, <1>2, <3>1, <4>1, <4>2, <4>3
    <3>2. CASE act' = [act EXCEPT ![a].step = "decide", ![a].unread = TRUE]
      <4>1. x.threat \in BOOLEAN
        BY <1>2 DEF Reading
      <4>2. [x EXCEPT !.step = "decide", !.unread = TRUE] =
               [x EXCEPT !.step = "decide", !.threat = x.threat, !.unread = TRUE]
        BY <1>2 DEF Reading
      <4> QED
        BY <1>1, <1>2, <3>2, <4>1, <4>2
    <3> QED
      BY <1>6, <3>1, <3>2 DEF Ready!ReadText
  <2>2. r \in Reading /\ r.step = "decide" /\ r.head = x.head
    BY <1>2, <2>1 DEF Reading
  <2>3. Fresh(r)
    BY <1>1, <2>2, HeldFresh
  <2> QED
    BY <1>3, <1>6, <2>1, <2>3 DEF Ready!ReadText
<1>7. CASE Ready!Relabel(a)
  <2>1. CASE entryPr' = [entryPr EXCEPT !.labels = @ \ {"ready"}]
             \/ entryPr' = [entryPr EXCEPT !.labels = @ \cup {"ready"}]
    <3>1. PICK l : /\ l = entryPr.labels \ {"ready"} \/ l = entryPr.labels \cup {"ready"}
                   /\ entryPr' = [entryPr EXCEPT !.labels = l]
      BY <2>1
    <3>2. l \in SUBSET LabelSet
      BY <3>1, LabelFacts DEF LabelSet
    <3> QED
      BY <1>7, <3>1, <3>2, LabelsMove, DoneFresh DEF Ready!Relabel
  <2> QED
    BY <1>3, <1>7, <2>1, DoneFresh DEF Ready!Relabel
<1> QED
  BY <1>4, <1>5, <1>6, <1>7

\* The push of a rebuild, which lands or does not.
LEMMA RebuildFresh ==
    ASSUME LabelInv, NEW a \in labelScene.actors, Ready!RebuildPush(a)
    PROVE  Moves /\ \E r : Fresh(r) /\ act' = [act EXCEPT ![a] = r]
<1>1. Moves
  <2>1. CASE UNCHANGED entryPr
    BY <2>1 DEF Moves, LabelInv, LabelTyped
  <2>2. CASE entryPr' = [Ready!Push(act[a].text) EXCEPT !.conflict = FALSE, !.human = FALSE]
    <3>1. act[a].text \in SUBSET Texts
      BY LabelFacts DEF Reading
    <3> QED
      BY <2>2, <3>1, PushMoves
  <2> QED
    BY <2>1, <2>2 DEF Ready!RebuildPush
<1> QED
  BY <1>1, DoneFresh, FailedFresh DEF Ready!RebuildPush

\* So what the groomers hold stays current.
LEMMA GroomStep ==
    ASSUME LabelInv, NEW a \in labelScene.actors, Ready!Groom(a)
    PROVE  LabelInv'
<1>1. Moves /\ \E r : Fresh(r) /\ act' = [act EXCEPT ![a] = r]
  <2>1. ASSUME UNCHANGED entryPr PROVE Moves
    BY <2>1 DEF Moves, LabelInv, LabelTyped
  <2> QED
    BY <2>1, RefreshFresh, LabelFresh, RebuildFresh DEF Ready!Groom
<1>2. PICK r : Fresh(r) /\ act' = [act EXCEPT ![a] = r]
  BY <1>1
<1>3. UNCHANGED <<labelScene, fact, edit, moved, read>> /\ labelSpent' \in Nat
  <2>1. UNCHANGED labelSpent \/ labelSpent' = labelSpent + 1
    BY DEF Ready!Groom, Ready!RefreshList, Ready!EntryPRState, Ready!Strip,
           Ready!RebuildCheckFirst, Ready!RebuildRead, Ready!RebuildCheck,
           Ready!RebuildPush, Ready!QueueList, Ready!ReadText, Ready!Relabel, Ready!Works,
           Ready!Fails
  <2>2. UNCHANGED Ready!grooms
    BY DEF Ready!Groom, Ready!RefreshList, Ready!EntryPRState, Ready!Strip,
           Ready!RebuildCheckFirst, Ready!RebuildRead, Ready!RebuildCheck,
           Ready!RebuildPush, Ready!QueueList, Ready!ReadText, Ready!Relabel
  <2> QED
    BY <2>1, <2>2 DEF Ready!grooms, LabelInv, LabelTyped
<1>4. LabelTyped'
  BY <1>1, <1>2, <1>3 DEF LabelInv, LabelTyped, Fresh, Moves
<1>5. HeldIsCurrent'
  <2> SUFFICES ASSUME NEW b \in labelScene.actors
               PROVE  /\ act'[b].head <= entryPr'.head
                      /\ act'[b].step \in {"check", "push"} /\ act'[b].head = entryPr'.head
                            => act'[b].text = entryPr'.text
    BY <1>3 DEF HeldIsCurrent
  <2>1. PICK y : y = act'[b]
    OBVIOUS
  <2>2. Fresh(y)
    <3>1. y = IF b = a THEN r ELSE act[b]
      BY <1>2, <2>1 DEF LabelInv, LabelTyped
    <3>2. Fresh(act[b])
      BY LabelFacts DEF LabelInv, HeldIsCurrent, Fresh
    <3> QED
      BY <1>2, <3>1, <3>2
  <2>3. PICK h, k, l : h = y.head /\ k = entryPr.head /\ l = entryPr'.head
    OBVIOUS
  <2>4. h \in Nat /\ k \in Nat /\ h <= k /\ ((l = k /\ entryPr'.text = entryPr.text) \/ l = k + 1)
    BY <1>1, <2>2, <2>3, LabelFacts DEF Fresh, Reading, Moves
  <2>5. y.step \in {"check", "push"} /\ h = k => y.text = entryPr.text
    BY <2>2, <2>3 DEF Fresh
  <2> QED
    BY <2>1, <2>3, <2>4, <2>5
<1> QED
  BY <1>4, <1>5 DEF LabelInv

-----------------------------------------------------------------------------
(* The edits, humans and the base branch.                                  *)

\* Whoever moves the pull request on while the groomers rest leaves them current.
LEMMA OthersCurrent ==
    ASSUME LabelInv, Moves, UNCHANGED <<labelScene, act>>
    PROVE  HeldIsCurrent' /\ act' \in [labelScene'.actors -> Reading] /\ entryPr' \in EntryPR
<1>1. act' \in [labelScene'.actors -> Reading] /\ entryPr' \in EntryPR
  BY DEF LabelInv, LabelTyped, Moves
<1>2. ASSUME NEW a \in labelScene.actors
      PROVE  /\ act[a].head <= entryPr'.head
             /\ act[a].step \in {"check", "push"} /\ act[a].head = entryPr'.head
                   => act[a].text = entryPr'.text
  <2>1. PICK h, k, l : h = act[a].head /\ k = entryPr.head /\ l = entryPr'.head
    OBVIOUS
  <2>2. h \in Nat /\ k \in Nat /\ h <= k /\ ((l = k /\ entryPr'.text = entryPr.text) \/ l = k + 1)
    <3>1. act[a] \in Reading
      BY LabelFacts
    <3> QED
      BY <2>1, <3>1, LabelFacts DEF LabelInv, HeldIsCurrent, Reading, Moves
  <2>3. act[a].step \in {"check", "push"} /\ h = k => act[a].text = entryPr.text
    BY <2>1 DEF LabelInv, HeldIsCurrent
  <2> QED
    BY <2>1, <2>2, <2>3
<1> QED
  BY <1>1, <1>2 DEF HeldIsCurrent

\* An edit strips labels, then pushes the text it read with its own.
LEMMA EditStep ==
    ASSUME LabelInv, NEW e \in labelScene.edits, Ready!Edit(e)
    PROVE  LabelInv'
<1>1. PICK x : x = edit[e]
  OBVIOUS
<1>2. /\ x \in EditRec /\ edit \in [labelScene.edits -> EditRec] /\ e \in Edits
      /\ x.labels \in SUBSET LabelSet /\ x.text \in SUBSET Texts
  <2>1. x \in EditRec
    BY <1>1 DEF LabelInv, LabelTyped
  <2> QED
    BY <2>1, LabelFacts DEF LabelInv, LabelTyped, EditRec
<1>3. UNCHANGED <<labelScene, fact, act, moved, read>> /\ labelSpent' \in Nat
  <2>1. UNCHANGED Ready!edits /\ (UNCHANGED labelSpent \/ labelSpent' = labelSpent + 1)
    BY DEF Ready!Edit, Ready!EditReadPR, Ready!EditReadFile, Ready!EditStrip, Ready!EditPut,
           Ready!EditLanded, Ready!Works, Ready!Fails
  <2> QED
    BY <2>1 DEF Ready!edits, LabelInv, LabelTyped
<1>4. ASSUME NEW s \in {"idle", "written", "landed"}, Ready!EditTo(e, s)
      PROVE  edit' \in [labelScene.edits -> EditRec]
  <2>1. PICK r : r = [x EXCEPT !.step = s]
    OBVIOUS
  <2>2. r \in EditRec /\ edit' = [edit EXCEPT ![e] = r]
    BY <1>1, <1>2, <1>4, <2>1 DEF Ready!EditTo, EditRec
  <2> QED
    BY <1>2, <2>2
<1>5. ASSUME UNCHANGED entryPr PROVE Moves
  BY <1>5 DEF Moves, LabelInv, LabelTyped
<1>6. Moves /\ edit' \in [labelScene.edits -> EditRec]
  <2>1. CASE Ready!EditReadPR(e)
    <3>1. PICK l, r : /\ l = entryPr.labels \cap ({"ready"}
                            \cup IF labelScene.revoke THEN {"accepted"} ELSE {})
                      /\ r = [x EXCEPT !.step = "file", !.labels = l]
      OBVIOUS
    <3>2. l \in SUBSET LabelSet
      BY <3>1, LabelFacts
    <3>3. r \in EditRec /\ edit' = [edit EXCEPT ![e] = r]
      BY <1>1, <1>2, <2>1, <3>1, <3>2 DEF Ready!EditReadPR, EditRec
    <3> QED
      BY <1>2, <1>5, <2>1, <3>3 DEF Ready!EditReadPR
  <2>2. CASE Ready!EditReadFile(e)
    <3>1. CASE edit' = [edit EXCEPT ![e].step = "strip", ![e].text = entryPr.text]
      <4>1. PICK r : r = [x EXCEPT !.step = "strip", !.text = entryPr.text]
        OBVIOUS
      <4>2. r \in EditRec /\ edit' = [edit EXCEPT ![e] = r]
        BY <1>1, <1>2, <3>1, <4>1, LabelFacts DEF EditRec
      <4> QED
        BY <1>2, <1>5, <2>2, <4>2 DEF Ready!EditReadFile
    <3> QED
      BY <1>4, <1>5, <2>2, <3>1 DEF Ready!EditReadFile
  <2>3. CASE Ready!EditStrip(e)
    <3>1. PICK lab \in {"ready", "accepted"} :
            \/ /\ entryPr' = [entryPr EXCEPT !.labels = @ \ {lab}]
               /\ edit' = [edit EXCEPT ![e].labels = @ \ {lab}]
            \/ Ready!EditTo(e, "idle") /\ UNCHANGED entryPr
      BY <2>3 DEF Ready!EditStrip
    <3>2. CASE /\ entryPr' = [entryPr EXCEPT !.labels = @ \ {lab}]
               /\ edit' = [edit EXCEPT ![e].labels = @ \ {lab}]
      <4>1. PICK l, k, r : /\ l = entryPr.labels \ {lab} /\ k = x.labels \ {lab}
                           /\ r = [x EXCEPT !.labels = k]
        OBVIOUS
      <4>2. l \in SUBSET LabelSet /\ k \in SUBSET LabelSet
        BY <1>2, <4>1, LabelFacts
      <4>3. entryPr' = [entryPr EXCEPT !.labels = l]
        BY <3>2, <4>1
      <4>4. r \in EditRec /\ edit' = [edit EXCEPT ![e] = r]
        BY <1>1, <1>2, <3>2, <4>1, <4>2 DEF EditRec
      <4> QED
        BY <1>2, <4>2, <4>3, <4>4, LabelsMove
    <3> QED
      BY <1>4, <1>5, <3>1, <3>2
  <2>4. CASE Ready!EditPut(e)
    <3>1. UNCHANGED entryPr \/ entryPr' = Ready!Push(entryPr.text \cup {e})
      BY <2>4 DEF Ready!EditPut
    <3>2. Moves
      <4>1. CASE entryPr' = Ready!Push(entryPr.text \cup {e})
        <5>1. PICK t, k : t = entryPr.text \cup {e} /\ k = entryPr.head + 1
          OBVIOUS
        <5>2. t \in SUBSET Texts /\ k \in Nat
          BY <1>2, <5>1, LabelFacts DEF Texts
        <5>3. entryPr' = [entryPr EXCEPT !.text = t, !.head = k] /\ entryPr \in EntryPR
          BY <4>1, <5>1 DEF Ready!Push, LabelInv, LabelTyped
        <5>4. entryPr' \in EntryPR /\ entryPr'.head = k
          BY <5>2, <5>3 DEF EntryPR
        <5> QED
          BY <5>1, <5>4 DEF Moves
      <4> QED
        BY <1>5, <3>1, <4>1
    <3> QED
      BY <1>4, <2>4, <3>2 DEF Ready!EditPut
  <2>5. CASE Ready!EditLanded(e)
    BY <1>4, <1>5, <2>5 DEF Ready!EditLanded
  <2> QED
    BY <2>1, <2>2, <2>3, <2>4, <2>5 DEF Ready!Edit
<1>7. HeldIsCurrent' /\ act' \in [labelScene'.actors -> Reading] /\ entryPr' \in EntryPR
  BY <1>3, <1>6, OthersCurrent
<1> QED
  BY <1>3, <1>6, <1>7 DEF LabelInv, LabelTyped

\* Humans label, commit and merge; the cluster is observed; the base moves.
LEMMA PeopleStep ==
    ASSUME LabelInv,
           \/ \E label \in {"solved", "accepted", "security"} : Ready!Label(label)
           \/ Ready!Commit \/ Ready!Learn \/ Ready!BaseMoves \/ Ready!Merge
    PROVE  LabelInv'
<1>1. UNCHANGED <<labelScene, act, edit, labelSpent>>
  BY DEF Ready!Label, Ready!Commit, Ready!Learn, Ready!BaseMoves, Ready!Merge, Ready!others
<1>2. moved' \in Nat
  <2>1. UNCHANGED moved \/ moved' = moved + 1
    BY DEF Ready!Label, Ready!Commit, Ready!Learn, Ready!BaseMoves, Ready!Merge
  <2> QED
    BY <2>1 DEF LabelInv, LabelTyped
<1>3. read' \in SUBSET Texts
  <2>1. read' = read \/ read' = entryPr.text
    BY DEF Ready!Label, Ready!Commit, Ready!Learn, Ready!BaseMoves, Ready!Merge
  <2> QED
    BY <2>1, LabelFacts DEF LabelInv, LabelTyped
<1>4. fact' \in [latest : Observation, contested : BOOLEAN, resolved : BOOLEAN]
  <2>1. fact \in [latest : Observation, contested : BOOLEAN, resolved : BOOLEAN]
    BY DEF LabelInv, LabelTyped
  <2>2. CASE \E l \in {"held", "failed"} : fact' = [fact EXCEPT !.latest = l]
    BY <2>1, <2>2 DEF Observation
  <2>3. CASE fact' = [fact EXCEPT !.contested = ~@]
    BY <2>1, <2>3
  <2>4. CASE fact' = [fact EXCEPT !.resolved = TRUE]
    BY <2>1, <2>4
  <2>5. UNCHANGED fact \/ Ready!Learn
    BY DEF Ready!Label, Ready!Commit, Ready!BaseMoves, Ready!Merge
  <2> QED
    BY <2>1, <2>2, <2>3, <2>4, <2>5 DEF Ready!Learn
<1>5. Moves
  <2>1. CASE UNCHANGED entryPr
    BY <2>1 DEF Moves, LabelInv, LabelTyped
  <2>2. ASSUME NEW label \in {"solved", "accepted", "security"}, Ready!Label(label) PROVE Moves
    <3>1. PICK l : l = entryPr.labels \cup {label}
      OBVIOUS
    <3>2. l \in SUBSET LabelSet /\ entryPr' = [entryPr EXCEPT !.labels = l]
      BY <2>2, <3>1, LabelFacts DEF Ready!Label, LabelSet
    <3> QED
      BY <3>2, LabelsMove
  <2>3. CASE Ready!Commit
    <3>1. PICK t, k : t = entryPr.text /\ k = entryPr.head + 1
      OBVIOUS
    <3>2. t \in SUBSET Texts /\ k \in Nat /\ entryPr \in EntryPR
      BY <3>1, LabelFacts DEF LabelInv, LabelTyped
    <3>3. entryPr' = [[entryPr EXCEPT !.text = t, !.head = k] EXCEPT !.human = TRUE]
      BY <2>3, <3>1 DEF Ready!Commit, Ready!Push
    <3>4. entryPr' \in EntryPR /\ entryPr'.head = k
      BY <3>2, <3>3 DEF EntryPR
    <3> QED
      BY <3>1, <3>4 DEF Moves
  <2>4. CASE entryPr' = [entryPr EXCEPT !.conflict = TRUE]
             \/ entryPr' = [entryPr EXCEPT !.state = "merged"]
    <3>1. entryPr \in EntryPR
      BY DEF LabelInv, LabelTyped
    <3>2. entryPr' \in EntryPR /\ entryPr'.head = entryPr.head /\ entryPr'.text = entryPr.text
      BY <2>4, <3>1 DEF EntryPR
    <3> QED
      BY <3>2 DEF Moves
  <2> QED
    BY <2>1, <2>2, <2>3, <2>4 DEF Ready!Learn, Ready!BaseMoves, Ready!Merge
<1>6. HeldIsCurrent' /\ act' \in [labelScene'.actors -> Reading] /\ entryPr' \in EntryPR
  BY <1>1, <1>5, OthersCurrent
<1> QED
  BY <1>1, <1>2, <1>3, <1>4, <1>6 DEF LabelInv, LabelTyped

-----------------------------------------------------------------------------
(* The theorems.                                                           *)

\* Nobody has read anything yet.
LEMMA LabelInitInv ==
    ASSUME EditsGiven, Ready!Init
    PROVE  LabelInv
<1>1. entryPr \in EntryPR /\ entryPr.head = 0
  BY DEF Ready!Init, EntryPR, LabelSet, Texts
<1>2. Ready!NoRead \in Reading /\ Ready!NoRead.head = 0 /\ Ready!NoRead.step = "idle"
  BY DEF Ready!NoRead, Reading, LabelSet, Observation, Texts
<1>3. Ready!NoEdit \in EditRec
  BY DEF Ready!NoEdit, EditRec
<1>4. /\ act = [a \in labelScene.actors |-> Ready!NoRead]
      /\ edit = [e \in labelScene.edits |-> Ready!NoEdit]
  BY DEF Ready!Init
<1>5. /\ labelScene \in LabelScenes /\ labelSpent \in Nat /\ moved \in Nat /\ read \in SUBSET Texts
      /\ fact \in [latest : Observation, contested : BOOLEAN, resolved : BOOLEAN]
  BY DEF Ready!Init, Observation
<1>6. LabelTyped
  BY <1>1, <1>2, <1>3, <1>4, <1>5 DEF LabelTyped, EditsGiven
<1>7. HeldIsCurrent
  BY <1>1, <1>2, <1>4 DEF HeldIsCurrent
<1> QED
  BY <1>6, <1>7 DEF LabelInv

\* Every step keeps the invariant.
LEMMA LabelInvStep == LabelInv /\ [Ready!Next]_(Ready!vars) => LabelInv'
<1> SUFFICES ASSUME LabelInv, [Ready!Next]_(Ready!vars) PROVE LabelInv'
  OBVIOUS
<1>1. CASE UNCHANGED Ready!vars
  BY <1>1 DEF Ready!vars, LabelInv, LabelTyped, HeldIsCurrent
<1> QED
  BY <1>1, GroomStep, EditStep, PeopleStep DEF Ready!Next

\* It always holds.
LEMMA LabelInvAlways ==
    ASSUME EditsGiven
    PROVE  Ready!Spec => []LabelInv
BY LabelInitInv, LabelInvStep, PTL DEF Ready!Spec

\* A step that takes an edit out of the entry is the push of a rebuild whose head is not
\* the one on the branch.
LEMMA KeptStep ==
    ASSUME LabelInv, Ready!Next, NEW e \in entryPr.text \ entryPr'.text
    PROVE  \E a \in labelScene.actors : Ready!At(a, "push") /\ act[a].head # entryPr.head
<1>1. ASSUME NEW l, entryPr' = [entryPr EXCEPT !.labels = l] PROVE FALSE
  BY <1>1 DEF LabelInv, LabelTyped, EntryPR
<1>2. ASSUME NEW t, NEW k, entryPr' = [entryPr EXCEPT !.text = t,
             !.head = k] PROVE entryPr'.text = t
  BY <1>2 DEF LabelInv, LabelTyped, EntryPR
<1>3. ~UNCHANGED entryPr
  OBVIOUS
<1>4. ASSUME NEW a \in labelScene.actors, Ready!Groom(a)
      PROVE  Ready!At(a, "push") /\ act[a].head # entryPr.head
  <2>1. Ready!RebuildPush(a)
    <3>1. ~Ready!Strip(a)
      BY <1>1, <1>3 DEF Ready!Strip
    <3>2. ~Ready!Relabel(a)
      BY <1>1, <1>3 DEF Ready!Relabel
    <3>3. ~(Ready!RefreshList(a) \/ Ready!EntryPRState(a) \/ Ready!RebuildCheckFirst(a)
            \/ Ready!RebuildRead(a)
              \/ Ready!RebuildCheck(a) \/ Ready!QueueList(a) \/ Ready!ReadText(a))
      BY <1>3 DEF Ready!RefreshList, Ready!EntryPRState, Ready!RebuildCheckFirst,
                  Ready!RebuildRead, Ready!RebuildCheck,
                  Ready!QueueList, Ready!ReadText
    <3> QED
      BY <1>4, <3>1, <3>2, <3>3 DEF Ready!Groom
  <2>2. entryPr'.text = act[a].text
    <3>1. entryPr' = [Ready!Push(act[a].text) EXCEPT !.conflict = FALSE, !.human = FALSE]
      BY <1>3, <2>1 DEF Ready!RebuildPush
    <3>2. act[a].text \in SUBSET Texts
      BY LabelFacts DEF Reading
    <3> QED
      BY <3>1, <3>2, PushMoves
  <2>3. Ready!At(a, "push")
    BY <2>1 DEF Ready!RebuildPush
  <2> QED
    BY <2>2, <2>3 DEF LabelInv, HeldIsCurrent, Ready!At
<1>5. ASSUME NEW d \in labelScene.edits, Ready!Edit(d) PROVE FALSE
  <2>1. Ready!EditPut(d)
    <3>1. ~Ready!EditStrip(d)
      BY <1>1, <1>3 DEF Ready!EditStrip
    <3>2. ~(Ready!EditReadPR(d) \/ Ready!EditReadFile(d) \/ Ready!EditLanded(d))
      BY <1>3 DEF Ready!EditReadPR, Ready!EditReadFile, Ready!EditLanded
    <3> QED
      BY <1>5, <3>1, <3>2 DEF Ready!Edit
  <2>2. entryPr' = Ready!Push(entryPr.text \cup {d})
    BY <1>3, <2>1 DEF Ready!EditPut
  <2>3. entryPr'.text = entryPr.text \cup {d}
    BY <1>2, <2>2 DEF Ready!Push
  <2> QED
    BY <2>3
<1>6. ASSUME NEW label, Ready!Label(label) PROVE FALSE
  BY <1>1, <1>6 DEF Ready!Label
<1>7. ASSUME Ready!Commit PROVE FALSE
  <2>1. PICK t, k : t = entryPr.text /\ k = entryPr.head + 1
    OBVIOUS
  <2>2. entryPr' = [[entryPr EXCEPT !.text = t,
        !.head = k] EXCEPT !.human = TRUE] /\ entryPr \in EntryPR
    BY <1>7, <2>1 DEF Ready!Commit, Ready!Push, LabelInv, LabelTyped
  <2>3. entryPr'.text = t
    BY <2>2 DEF EntryPR
  <2> QED
    BY <2>1, <2>3
<1>8. ASSUME Ready!Learn \/ Ready!BaseMoves \/ Ready!Merge PROVE FALSE
  <2>1. entryPr' = [entryPr EXCEPT !.conflict = TRUE]
        \/ entryPr' = [entryPr EXCEPT !.state = "merged"]
    BY <1>3, <1>8 DEF Ready!Learn, Ready!BaseMoves, Ready!Merge
  <2>2. entryPr'.text = entryPr.text
    BY <2>1 DEF LabelInv, LabelTyped, EntryPR
  <2> QED
    BY <2>2
<1> QED
  BY <1>4, <1>5, <1>6, <1>7, <1>8 DEF Ready!Next

\* Of all pushes only a rebuild takes an edit out of the entry, and only one that landed
\* after the rebuild's second look at the head (forge/github/refresh.go:146), for any
\* groomers, edits and failing calls.
THEOREM RebuildsKeepEdits ==
    ASSUME EditsGiven
    PROVE  Ready!Spec => Ready!EditsAreKept
<1>1. LabelInv /\ [Ready!Next]_(Ready!vars) =>
        [\A e \in entryPr.text \ entryPr'.text :
            \E a \in labelScene.actors : Ready!At(a,
            "push") /\ act[a].head # entryPr.head]_(Ready!vars)
  BY KeptStep
<1> QED
  BY <1>1, LabelInvAlways, PTL DEF Ready!Spec, Ready!EditsAreKept
=============================================================================
