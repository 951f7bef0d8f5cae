---------------------------- MODULE OutcomeLedger ----------------------------
(***************************************************************************)
(* The outcome ledger of internal/outcome/ledger.go: an append-only file   *)
(* and, in every process that opened it, the indexes OutcomeFold derives   *)
(* from it.  A process appends durably and then folds, rebuilds its indexes *)
(* when it starts or acquires the leadership, and compacts a file that has *)
(* grown past its bound into a checkpoint and a recent tail.               *)
(*                                                                         *)
(* A process holds its own mutex during a load, so its own calls wait; the *)
(* other processes that share the volume do not, hence one action per line *)
(* replayed and one for the rename.  A read error leaves everything as it  *)
(* was and is no action.                                                   *)
(***************************************************************************)
EXTENDS OutcomeFold

CONSTANTS
    Procs,      \* processes sharing the ledger file
    Events,     \* the events the callers may record
    MaxWindow,  \* maxSilenceWindow, 0 = uncapped
    MaxEvents,  \* lines before a load compacts, 0 = never
    MaxLine,    \* map entries a checkpoint line may hold and still be scanned
    MaxLag,     \* how far a caller's clock reading may trail the append
    MaxCalls,   \* bound on the number of calls
    MaxTime,    \* bound on the clock
    Faults      \* write faults that may happen, among "short" and "sync"

ASSUME LedgerConstants ==
    /\ Events \subseteq Event
    /\ MaxWindow \in Nat /\ MaxEvents \in Nat /\ MaxLine \in Nat
    /\ MaxLag \in Nat /\ MaxCalls \in Nat /\ MaxTime \in Nat

VARIABLES
    now,    \* wall clock
    file,   \* the lines of the ledger file that parse
    torn,   \* a partial line, without its newline, ends the file
    mem,    \* the indexes of every process
    load,   \* every process's load: [pc, events, i, scratch]
    calls   \* number of calls so far

vars == <<now, file, torn, mem, load, calls>>

checkpoint(m) == [kind |-> "checkpoint", state |-> m]
Line == Event \cup [kind : {"checkpoint"}, state : Memory]
Load == [pc : {"down", "fold", "scratch", "up"}, events : Seq(Line), i : Nat \ {0}, scratch : Memory]

-----------------------------------------------------------------------------
(* Reading the file.                                                       *)

\* Map entries of a state: what a checkpoint line spells out.
size(m) ==
    LET present(f, none) == Cardinality({x \in DOMAIN f : f[x] # none})
    IN present(m.open, NoOpen) + present(m.trig, NoTriggerAgg) + present(m.votes, NoVote)
       + present(m.silences, NoSilence) + present(m.verifies, NoVerify)

\* The scanner gives up on a line longer than its buffer.
Readable == \A i \in DOMAIN file : file[i].kind = "checkpoint" => size(file[i].state) <= MaxLine

\* Mutant: the checkpoint does not carry the buffered resolves.
MutSeedForgetsEarly(m, c) ==
    [c EXCEPT !.early = m.early, !.seen = m.seen + @]

\* A checkpoint seeds the maps (it is the first line, they are still empty) and
\* adds its counters.
seedCheckpointLocked(m, c) ==
    [c EXCEPT !.seen = m.seen + @, !.dropped = m.dropped + @, !.stale = m.stale + @]

replayLine(m, l) ==
    IF l.kind = "checkpoint" THEN seedCheckpointLocked(m, l.state) ELSE foldLocked(m, l)

\* The lines a compaction absorbs: all but the newest MaxEvents - 1.
cut(events) == Len(events) - (MaxEvents - 1)

-----------------------------------------------------------------------------
NoLoad == [pc |-> "down", events |-> <<>>, i |-> 1, scratch |-> Fresh]
Up     == [NoLoad EXCEPT !.pc = "up"]

Init ==
    /\ now = 1
    /\ file = <<>>
    /\ torn = FALSE
    /\ mem = [p \in Procs |-> Fresh]
    /\ load = [p \in Procs |-> NoLoad]
    /\ calls = 0

Tick ==
    /\ now < MaxTime
    /\ now' = now + 1
    /\ UNCHANGED <<file, torn, mem, load, calls>>

-----------------------------------------------------------------------------
(* The writers: append one line and fsync, then fold.                      *)

\* A line written after a partial one is glued to it: neither parses.
lineWritten(e) ==
    /\ file' = IF torn THEN file ELSE Append(file, e)
    /\ torn' = FALSE

\* One call that appends e and, when the append succeeds, turns p's indexes into m.
record(p, e, m) ==
    /\ calls < MaxCalls
    /\ calls' = calls + 1
    /\ load[p].pc = "up"
    /\ UNCHANGED now
    /\ \/ /\ lineWritten(e)
          /\ mem' = [mem EXCEPT ![p] = m]
          /\ UNCHANGED load
       \/ /\ "sync" \in Faults   \* Write succeeds, Sync fails: an error is returned
          /\ lineWritten(e)
          /\ UNCHANGED <<mem, load>>
       \/ /\ "short" \in Faults  \* Write stops half-way: an error is returned
          /\ torn' = TRUE
          /\ UNCHANGED <<file, mem, load>>
       \/ /\ lineWritten(e)      \* the process dies before it folds
          /\ mem' = [mem EXCEPT ![p] = Fresh]
          /\ load' = [load EXCEPT ![p] = NoLoad]

\* Callers read the clock before they reach the mutex.
recent(at) == at <= now /\ at + MaxLag >= now

Open(p, e) ==
    /\ e.kind = "open" /\ recent(e.at) /\ e.started <= e.at
    /\ record(p, e,
              applyTriggerLocked(applyOpenLocked([mem[p] EXCEPT !.open[e.fp] = e], e), e))

\* The index of open incidents is read by the fold before the open is deleted.
Resolve(p, e) ==
    /\ e.kind = "resolve" /\ recent(e.at)
    /\ record(p, e, [applyResolveLocked(mem[p], e.fp, e.at) EXCEPT !.open[e.fp] = NoOpen])

Feedback(p, e) ==
    /\ e.kind = "feedback" /\ recent(e.at)
    /\ record(p, e, applyFeedbackLocked(mem[p], e))

Silence(p, e) ==
    /\ e.kind = "silence" /\ recent(e.at)
    /\ MaxWindow > 0 => e.window <= MaxWindow
    /\ record(p, e, applySilenceLocked(mem[p], e))

Confirm(p, e) ==
    /\ e.kind = "confirm" /\ recent(e.at)
    /\ record(p, e, applyConfirmLocked(mem[p], e))

\* A verification carries the instant of its generation, however late it is told.
Verify(p, e) ==
    /\ e.kind = "verify" /\ e.at <= now
    /\ record(p, e, applyVerifyLocked(mem[p], e))

Link(p, e) ==
    /\ e.kind = "link"
    /\ record(p, e, applyLinkLocked(mem[p], e))

-----------------------------------------------------------------------------
(* Start, reload, compaction, crash.                                       *)

\* New in a process that starts, Reload in one that acquires the leadership: the
\* file is read, then everything is reset.
StartLoad(p) ==
    /\ load[p].pc \in {"down", "up"}
    /\ Readable
    /\ load' = [load EXCEPT ![p] = [pc |-> "fold", events |-> file, i |-> 1, scratch |-> Fresh]]
    /\ mem' = [mem EXCEPT ![p] = Fresh]
    /\ UNCHANGED <<now, file, torn, calls>>

\* One line folded.
FoldLine(p) ==
    LET l == load[p] IN
    /\ l.pc = "fold" /\ l.i <= Len(l.events)
    /\ mem' = [mem EXCEPT ![p] = replayLine(@, l.events[l.i])]
    /\ load' = [load EXCEPT ![p].i = @ + 1]
    /\ UNCHANGED <<now, file, torn, calls>>

\* Lapsed silences go; a file past its bound is compacted.
EndFold(p) ==
    LET l == load[p] IN
    /\ l.pc = "fold" /\ l.i > Len(l.events)
    /\ mem' = [mem EXCEPT ![p] = pruneLapsedSilencesLocked(@, now)]
    /\ load' = [load EXCEPT ![p] = IF MaxEvents > 0 /\ Len(l.events) > MaxEvents
                                   THEN [l EXCEPT !.pc = "scratch", !.i = 1]
                                   ELSE Up]
    /\ UNCHANGED <<now, file, torn, calls>>

\* compactLocked folds the absorbed lines in a scratch ledger.
ScratchLine(p) ==
    LET l == load[p] IN
    /\ l.pc = "scratch" /\ l.i <= cut(l.events)
    /\ load' = [load EXCEPT ![p] = [l EXCEPT !.i = @ + 1, !.scratch = replayLine(@, l.events[l.i])]]
    /\ UNCHANGED <<now, file, torn, mem, calls>>

\* Mutant: the newest absorbed line is kept in the tail too.
MutRewriteKeepsCut(p) ==
    LET l == load[p] IN
    /\ l.pc = "scratch" /\ l.i > cut(l.events)
    /\ file' = <<checkpoint(pruneLapsedSilencesLocked(l.scratch, now))>>
               \o SubSeq(l.events, cut(l.events), Len(l.events))
    /\ torn' = FALSE
    /\ load' = [load EXCEPT ![p] = Up]
    /\ UNCHANGED <<now, mem, calls>>

\* rewriteFileLocked renames checkpoint and tail over the file, or fails harmlessly.
Rewrite(p) ==
    LET l == load[p] IN
    /\ l.pc = "scratch" /\ l.i > cut(l.events)
    /\ \/ /\ file' = <<checkpoint(pruneLapsedSilencesLocked(l.scratch, now))>>
                     \o SubSeq(l.events, cut(l.events) + 1, Len(l.events))
          /\ torn' = FALSE
       \/ UNCHANGED <<file, torn>>
    /\ load' = [load EXCEPT ![p] = Up]
    /\ UNCHANGED <<now, mem, calls>>

Crash(p) ==
    /\ load[p].pc # "down"
    /\ load' = [load EXCEPT ![p] = NoLoad]
    /\ mem' = [mem EXCEPT ![p] = Fresh]
    /\ UNCHANGED <<now, file, torn, calls>>

-----------------------------------------------------------------------------
Call(p, e) ==
    \/ Open(p, e) \/ Resolve(p, e) \/ Feedback(p, e) \/ Silence(p, e)
    \/ Confirm(p, e) \/ Verify(p, e) \/ Link(p, e)

Next ==
    \/ Tick
    \/ \E p \in Procs, e \in Events : Call(p, e)
    \/ \E p \in Procs : \/ StartLoad(p) \/ FoldLine(p) \/ EndFold(p)
                        \/ ScratchLine(p) \/ Rewrite(p) \/ Crash(p)

Spec == Init /\ [][Next]_vars

-----------------------------------------------------------------------------
(* Properties.                                                             *)

TypeOK ==
    /\ now \in Time
    /\ file \in Seq(Line)
    /\ torn \in BOOLEAN
    /\ mem \in [Procs -> Memory]
    /\ load \in [Procs -> Load]
    /\ calls \in Nat

\* What a process reading the file now would rebuild: its lines folded in order,
\* less the silences that have lapsed.  (after[i] is a singleton.)
Replayed ==
    LET after[i \in 0..Len(file)] ==
            IF i = 0 THEN {Fresh} ELSE {replayLine(m, file[i]) : m \in after[i - 1]}
    IN CHOOSE s \in {pruneLapsedSilencesLocked(m, now) : m \in after[Len(file)]} : TRUE

\* The indexes of a running process equal a fresh replay of the file: after every
\* call, load, compaction, crash and restart, in any order of events and times.
Lockstep ==
    \A p \in Procs : load[p].pc = "up" => pruneLapsedSilencesLocked(mem[p], now) = Replayed

\* The file implements the durable ledger: no crash, failed write, failed or
\* successful compaction makes a replay forget, repeat or reorder what was recorded.
Durable == INSTANCE DurableLedger WITH state <- Replayed
IsDurable == Durable!Spec

\* The states a process may come to serve: every process's indexes, the scratch
\* state of a compaction, and what a checkpoint will seed.
Checkpoints(lines) == {lines[i].state : i \in {j \in DOMAIN lines : lines[j].kind = "checkpoint"}}
Served == {mem[p] : p \in Procs} \cup {load[p].scratch : p \in Procs}
          \cup Checkpoints(file) \cup UNION {Checkpoints(load[p].events) : p \in Procs}

\* Every live vote is credited once, to the entry recorded with it: changed votes,
\* moved attributions, replays and compactions leave no residue in the aggregate.
VotesCounted == \A m \in Served : votesCounted(m)

\* Every fix room counts once, for the entry and the outcome of its latest
\* verification, whatever the order verifications arrive in.
RoomsCounted == \A m \in Served : roomsCounted(m)

\* Resolves and opens pair off exactly: the recalls of an entry split into those resolved
\* and those still open, so that its resolve rate never passes 1 and no resolve is
\* credited twice; and a resolve that came early is never buffered while an open of its
\* fingerprint waits for one, in a buffer within its cap (applyOpenLocked).
PairingExact == \A m \in Served : recallsSplit(m) /\ earlyOrOpen(m)

\* A trigger once linked to its knowledge-base page stays linked, and so does its
\* standing answer, through later opens without a link, replays and compactions.
LinkKept == \A m \in Served : linkKept(m)

\* What recall and the sweeps read of an entry, and what the gate reads of a trigger, agrees
\* with the votes, rooms and links behind it, in memory, in a replay and in a checkpoint.
RollUpExact == VotesCounted /\ RoomsCounted /\ LinkKept

\* What the file records is never forgotten: the resolves seen and the occurrences
\* of a trigger only grow, also while several processes share the file.
HistoryNeverShrinks ==
    [][/\ Replayed'.seen >= Replayed.seen
       /\ \A t \in Triggers : Replayed'.trig[t].count >= Replayed.trig[t].count]_vars
=============================================================================
