------------------------- MODULE InvestigationLoop -------------------------
(***************************************************************************)
(* One trigger's firings as a worker handles them: the recurrence gate,    *)
(* the recall short-circuit, the tool loop with its spend ladder and its   *)
(* history, and the completion pipeline that curates, records and tells.   *)
(*                                                                         *)
(* The model provider is the environment: it answers with any turn, stops  *)
(* at its output limit, refuses or fails.  A message is what it weighs in  *)
(* tokens and the calls it carries or answers; a nudge weighs nothing.     *)
(***************************************************************************)
EXTENDS Naturals, FiniteSets, SequencesExt

CONSTANTS
    Calls,       \* what a turn may call: a tool with its arguments
    KeepList,    \* the calls whose output is never elided
    KeepRecent,  \* keepRecentToolOutputs
    Submit, Malformed,     \* submit_findings with arguments that parse, or do not
    Prompt,      \* what the system prompt, the tools and the seed weigh
    Outputs,     \* what a tool output may weigh
    Reply,       \* what a completion's output costs
    MaxTokens, MaxCost,    \* the ceilings of an investigation, 0 for none
    Cooldown,    \* of the recurrence gate, 0 for none
    Window,      \* of a human's silence
    Scenes       \* what an instance lets happen: [steps, attempts, firings, ticks, alerts,
                 \*   density, summarize, recall, human, faults, turns]

ASSUME LoopAssumption ==
    /\ {KeepRecent, Prompt, Reply, MaxTokens, MaxCost, Cooldown, Window} \subseteq Nat
    /\ Outputs \subseteq Nat
    /\ KeepList \subseteq Calls /\ Submit # Malformed /\ {Submit, Malformed} \cap Calls = {}
    /\ \A s \in Scenes : s.density \in Nat \ {0} /\ s.turns \subseteq Seq(Calls \cup {Submit, Malformed})

VARIABLES
    scene,       \* what this behaviour lets happen
    now,         \* wall clock
    trigger,     \* what the ledger knows of the trigger, and of its humans
    firings,     \* every firing the worker took up, and what the gate said
    run,         \* the locals of Investigate
    completions, \* what every accepted investigation came to
    attempts     \* how often the queue has retried the current firing

vars == <<scene, now, trigger, firings, run, completions, attempts>>

May(fault) == fault \in scene.faults

-----------------------------------------------------------------------------
(* The recurrence gate.  Time 0 is the zero time.                          *)

Contested(prior) == prior.downAt > 0

SilenceOutranksFeedback(prior) == ~Contested(prior) \/ prior.silencedAt > prior.downAt

\* Mutant: an occurrence without an answer is suppressed too.
decideAnyPrior(prior, critical) ==
    CASE now < prior.silencedUntil /\ ~critical /\ SilenceOutranksFeedback(prior) -> "silenced"
      [] OTHER ->
         IF Cooldown = 0 THEN "off"
         ELSE IF prior.count = 0 THEN "first_look"
         ELSE IF now - prior.last >= Cooldown THEN "lapsed"
         ELSE IF Contested(prior) THEN "contested"
         ELSE "suppressed"

\* A human's silence first, then the cooldown.
decide(prior, critical) ==
    CASE now < prior.silencedUntil /\ ~critical /\ SilenceOutranksFeedback(prior) -> "silenced"
      [] OTHER ->
         IF Cooldown = 0 THEN "off"
         ELSE IF prior.count = 0 THEN "first_look"
         ELSE IF now - prior.last >= Cooldown THEN "lapsed"
         ELSE IF ~prior.concluded THEN "no_answer"
         ELSE IF Contested(prior) THEN "contested"
         ELSE "suppressed"

suppressed(d) == d \in {"suppressed", "silenced"}

-----------------------------------------------------------------------------
(* The history.                                                            *)

Seed == [role |-> "user", calls |-> <<>>, of |-> <<0, 0>>, call |-> Malformed, size |-> Prompt]

User == [Seed EXCEPT !.size = 0]

Assistant(calls) == [Seed EXCEPT !.role = "assistant", !.calls = calls, !.size = Reply]

\* The result of the i-th call of the assistant message at position of.
Tool(of, i, call, size) == [role |-> "tool", calls |-> <<>>, of |-> <<of, i>>, call |-> call, size |-> size]

estimateTokens(ms) == FoldLeft(LAMBDA total, m : total + m.size, 0, ms)

estimate(r) == estimateTokens(r.messages) * r.ratio

requestBudget == MaxTokens \div 4

compactionTarget == (requestBudget * 7) \div 10

ToolPositions(ms) == {i \in DOMAIN ms : ms[i].role = "tool"}

\* Tool outputs that may go: not among the most recent, not of a kept tool, not yet
\* elided.
Candidates(ms) ==
    {i \in ToolPositions(ms) :
        /\ Cardinality({j \in ToolPositions(ms) : j > i}) >= KeepRecent
        /\ ms[i].call \notin KeepList /\ ms[i].size > 0}

Superseded(ms, i) == \E j \in ToolPositions(ms) : j > i /\ ms[j].call = ms[i].call

\* Superseded outputs go first, then the largest, in the order of the history.
GoesBefore(ms, i, j) ==
    LET s == Superseded(ms, i)
        t == Superseded(ms, j)
    IN IF s # t THEN s
       ELSE ms[i].size > ms[j].size \/ (ms[i].size = ms[j].size /\ i < j)

Elide(ms, gone) == [i \in DOMAIN ms |-> IF i \in gone THEN [ms[i] EXCEPT !.size = 0] ELSE ms[i]]

\* The candidates compactHistory elides: as few as bring the history to the target.
Elided(ms, target) ==
    LET queue == SetToSortSeq(Candidates(ms), LAMBDA i, j : GoesBefore(ms, i, j))
        first(n) == {queue[k] : k \in 1..n}
        enough(n) == estimateTokens(Elide(ms, first(n))) <= target
        n == IF \E k \in 0..Len(queue) : enough(k)
             THEN Min({k \in 0..Len(queue) : enough(k)}) ELSE Len(queue)
    IN first(n)

-----------------------------------------------------------------------------
(* The locals of Investigate, and spending.                                *)

Idle == [pc |-> "idle", step |-> 0, messages |-> <<>>, toolChoice |-> "auto", budgetStop |-> "none",
         nudged |-> FALSE, truncationNudged |-> FALSE, forcedFinal |-> FALSE, spent |-> 0,
         ratio |-> 1, expired |-> FALSE, result |-> "none", conclusive |-> FALSE,
         conceded |-> 0, opens |-> 0]

\* A ceiling the request about to be sent would cross, projected onto the total.
budgetTrip(est, spent) ==
    CASE MaxTokens > 0 /\ est > requestBudget      -> "tokens_request"
      [] MaxTokens > 0 /\ spent + est > MaxTokens  -> "tokens_total"
      [] MaxCost > 0 /\ spent + est > MaxCost      -> "cost"
      [] OTHER                                     -> "none"

\* finish: the history is of no further use.
Finish(r, result) == [Idle EXCEPT !.pc = "complete", !.result = result, !.conceded = r.conceded]

\* The nudge, with what it forces from here on; or the kill.
Nudge(r, reason) ==
    [r EXCEPT !.budgetStop = reason, !.toolChoice = Submit, !.messages = Append(@, User),
              !.pc = "request"]

Kill(r) == Finish(r, "budget_exceeded")

\* Mutant: the nudge is repeated as long as the history can still be compacted.
ladderLenient(r) ==
    LET reason == budgetTrip(estimate(r), r.spent)
    IN IF reason = "none" THEN [r EXCEPT !.pc = "request"]
       ELSE IF r.budgetStop = "none" \/ Candidates(r.messages) # {} THEN Nudge(r, reason)
       ELSE Kill(r)

\* The two rungs of the ladder, once the history is compacted.
ladder(r) ==
    LET reason == budgetTrip(estimate(r), r.spent)
    IN IF reason = "none" THEN [r EXCEPT !.pc = "request"]
       ELSE IF r.budgetStop = "none" THEN Nudge(r, reason)
       ELSE Kill(r)

-----------------------------------------------------------------------------
Init ==
    /\ scene \in Scenes
    /\ now = 1
    /\ trigger = [count |-> 0, last |-> 0, concluded |-> FALSE, downAt |-> 0,
                  silencedAt |-> 0, silencedUntil |-> 0]
    /\ firings = <<>>
    /\ run = Idle
    /\ completions = <<>>
    /\ attempts = 0

RunUnchanged == UNCHANGED <<scene, now, trigger, completions, attempts>>

-----------------------------------------------------------------------------
(* Investigate: the gate.                                                  *)

\* A call of Investigate, which returns at once when the gate says so.
Enter(critical) ==
    LET d == decide(trigger, critical)
    IN /\ firings' = Append(firings, [decision |-> d, critical |-> critical,
                                      end |-> IF suppressed(d) THEN "nil" ELSE "running"])
       /\ run' = IF suppressed(d) THEN Idle ELSE [Idle EXCEPT !.pc = "recall", !.messages = <<Seed>>]
       /\ UNCHANGED <<scene, now, trigger, completions>>

\* The queue takes up a firing of the trigger.
Fire(critical) ==
    /\ run.pc = "idle" /\ Len(firings) < scene.firings
    /\ Enter(critical)
    /\ attempts' = 0

\* The queue calls again after an error.
Retry ==
    /\ run.pc = "failed" /\ attempts < scene.attempts
    /\ Enter(Last(firings).critical)
    /\ attempts' = attempts + 1

\* The call returns.
Return(end) == firings' = [firings EXCEPT ![Len(firings)].end = end]

\* The queue does not call again.
Drop ==
    /\ run.pc = "failed"
    /\ run' = Idle
    /\ RunUnchanged /\ UNCHANGED firings

\* Investigate's own deadline passes.
Expire ==
    /\ May("deadline") /\ ~run.expired
    /\ run.pc \in {"recall", "budget", "request", "verify"}
    /\ run' = [run EXCEPT !.expired = TRUE]
    /\ RunUnchanged /\ UNCHANGED firings

-----------------------------------------------------------------------------
(* Investigate: recall.                                                    *)

\* Instant recall: no entry clears its gates, perhaps after a rerank that was
\* affordable; the reviewer is down or refutes the entry; or the recalled answer,
\* which carries no verdict, is delivered.
tryRecall(outcome) ==
    LET rerank == IF budgetTrip(Prompt, run.spent) = "none" THEN Prompt ELSE 0
        verify == run.spent + Reply
    IN /\ run.pc = "recall"
       /\ outcome \in IF scene.recall THEN {"none", "reranked", "unavailable", "refuted", "kept"}
                      ELSE {"off"}
       /\ outcome = "kept" => ~run.expired
       /\ run' = CASE outcome \in {"off", "none"} -> [run EXCEPT !.pc = "budget"]
                   [] outcome = "reranked" -> [run EXCEPT !.spent = @ + rerank, !.pc = "budget"]
                   [] outcome = "kept"     -> Finish(run, "recall")
                   [] OTHER                -> [run EXCEPT !.spent = verify, !.pc = "budget"]
       /\ RunUnchanged /\ UNCHANGED firings

-----------------------------------------------------------------------------
(* Investigate: the steps of the loop.                                     *)

\* The last step forces a conclusion, unless the ladder has done so already.
FinalStep(r) ==
    IF r.pc = "request" /\ r.step = scene.steps - 1 /\ r.toolChoice # Submit
    THEN [r EXCEPT !.messages = Append(@, User), !.toolChoice = Submit, !.forcedFinal = TRUE]
    ELSE r

\* enforceBudget: old outputs are elided, in summarize mode for a digest that is paid
\* for, before the ceilings are looked at.
enforceBudget(digest) ==
    LET target == compactionTarget \div run.ratio
        gone == IF compactionTarget > 0 /\ estimate(run) > compactionTarget
                THEN Elided(run.messages, target) ELSE {}
        plain == Elide(run.messages, gone)
        bodies == estimateTokens(run.messages) - estimateTokens(plain)
        compacted == IF gone = {} \/ ~scene.summarize THEN [run EXCEPT !.messages = plain]
                     ELSE [run EXCEPT !.messages = [plain EXCEPT ![Min(gone)].size = digest],
                                      !.spent = @ + bodies + digest]
    IN /\ run.pc = "budget"
       /\ digest > 0 => gone # {} /\ scene.summarize /\ ~run.expired
       /\ run' = FinalStep(ladder(compacted))
       /\ RunUnchanged /\ UNCHANGED firings

\* What the request now in flight is worth: its estimate against the ceilings.
Crosses(r) ==
    LET est == estimate(r)
    IN \/ MaxTokens > 0 /\ (est > requestBudget \/ r.spent + est > MaxTokens)
       \/ MaxCost > 0 /\ r.spent + est > MaxCost

\* addUsage, and the bookkeeping of what was conceded.
Paid(r, usage) ==
    [r EXCEPT !.spent = @ + usage, !.conceded = IF Crosses(r) THEN @ + 1 ELSE @]

\* The completion fails: the deadline is delivered as a result, anything else is the
\* queue's to retry.
CompleteFails(usage) ==
    /\ run.pc = "request" /\ (run.expired \/ May("model"))
    /\ IF run.expired
       THEN run' = Finish(Paid(run, usage), "timeout") /\ UNCHANGED firings
       ELSE run' = [Idle EXCEPT !.pc = "failed"] /\ Return("error")
    /\ RunUnchanged

\* The completion arrives: what it cost, and the ratio it teaches.
Answered ==
    LET raw == estimateTokens(run.messages)
        paid == Paid(run, raw * scene.density + Reply)
    IN IF raw > 0 THEN [paid EXCEPT !.ratio = scene.density] ELSE paid

NextStep(r) ==
    IF r.step + 1 < scene.steps THEN [r EXCEPT !.step = @ + 1, !.pc = "budget"]
    ELSE Finish(r, "max_steps")

Refused ==
    /\ run.pc = "request" /\ ~run.expired /\ May("refusal")
    /\ run' = Finish(Answered, "refused")
    /\ RunUnchanged /\ UNCHANGED firings

\* Mutant: the calls of a turn that was cut off are kept, and not run.
TruncatedKeepsCalls(turn) ==
    /\ run.pc = "request" /\ ~run.expired /\ May("truncation") /\ ~run.truncationNudged
    /\ run' = NextStep([Answered EXCEPT !.truncationNudged = TRUE,
                                        !.messages = @ \o <<Assistant(turn), User>>])
    /\ RunUnchanged /\ UNCHANGED firings

\* A turn cut off at the output limit is answered once with a nudge; its calls, which
\* may be half a call, are left out of the history.
Truncated(turn) ==
    /\ run.pc = "request" /\ ~run.expired /\ May("truncation") /\ ~run.truncationNudged
    /\ run' = NextStep([Answered EXCEPT !.truncationNudged = TRUE,
                                        !.messages = @ \o <<Assistant(<<>>), User>>])
    /\ RunUnchanged /\ UNCHANGED firings

\* Mutant: the second turn without a call ends the investigation in silence.
ProseSilent ==
    /\ run.pc = "request" /\ ~run.expired
    /\ IF run.nudged
       THEN run' = Idle /\ Return("nil")
       ELSE /\ run' = NextStep([Answered EXCEPT !.nudged = TRUE,
                                   !.messages = @ \o <<Assistant(<<>>), User>>])
            /\ UNCHANGED firings
    /\ RunUnchanged

\* A turn without a call: one nudge, then an inconclusive result.
Prose ==
    /\ run.pc = "request" /\ ~run.expired
    /\ run' = IF run.nudged
              THEN Finish(Answered, "inconclusive")
              ELSE NextStep([Answered EXCEPT !.nudged = TRUE,
                                !.messages = @ \o <<Assistant(<<>>), User>>])
    /\ RunUnchanged /\ UNCHANGED firings

\* A turn of calls: those before the first submit_findings that parses are run, at
\* once, and answered in their order, a malformed one by its error.
Turn(turn, sizes) ==
    LET terminal == {i \in DOMAIN turn : turn[i] = Submit}
        runs == IF terminal = {} THEN turn ELSE SubSeq(turn, 1, Min(terminal) - 1)
        at == Len(run.messages) + 1
        results == [i \in DOMAIN runs |->
                       Tool(at, i, runs[i], IF runs[i] \in Calls THEN sizes[i] ELSE 0)]
        r == [Answered EXCEPT !.nudged = FALSE, !.messages = @ \o <<Assistant(turn)>> \o results]
    IN /\ run.pc = "request" /\ ~run.expired /\ turn # <<>>
       /\ run' = IF terminal = {} THEN NextStep(r) ELSE [r EXCEPT !.pc = "verify", !.messages = <<>>]
       /\ RunUnchanged /\ UNCHANGED firings

\* The adversarial review is paid for whether it answers or not; what is delivered
\* may have any verdict.
verifyFindings(conclusive) ==
    /\ run.pc = "verify"
    /\ run' = [Finish(run, IF run.forcedFinal THEN "max_steps_degraded" ELSE "resolved")
                  EXCEPT !.conclusive = conclusive]
    /\ RunUnchanged /\ UNCHANGED firings

-----------------------------------------------------------------------------
(* onInvestigationComplete.                                                *)

\* Curate, whose failure is told and not fatal.
Curate ==
    /\ run.pc = "complete"
    /\ completions' = Append(completions, [firing |-> Len(firings), at |-> now,
                                           conclusive |-> run.conclusive, told |-> "no"])
    /\ run' = [run EXCEPT !.pc = "open"]
    /\ UNCHANGED <<scene, now, trigger, firings, attempts>>

\* ledger.Open for the next alert of the request: only the first carries the trigger,
\* and a failure is logged.
RecordOpen(written) ==
    /\ run.pc = "open" /\ run.opens < scene.alerts /\ (written \/ May("ledger"))
    /\ run' = [run EXCEPT !.opens = @ + 1]
    /\ IF written /\ run.opens = 0
       THEN /\ trigger' = [trigger EXCEPT !.count = @ + 1, !.last = now, !.concluded = @ \/ run.conclusive]
            /\ completions' = [completions EXCEPT ![Len(completions)].at = now]
       ELSE UNCHANGED <<trigger, completions>>
    /\ UNCHANGED <<scene, now, firings, attempts>>

\* Deliver; Investigate has nothing left to do and returns nil.
Deliver(told) ==
    /\ run.pc = "open" /\ run.opens = scene.alerts /\ (told \/ May("notify"))
    /\ completions' = [completions EXCEPT ![Len(completions)].told = IF told THEN "yes" ELSE "failed"]
    /\ run' = Idle
    /\ Return("nil")
    /\ UNCHANGED <<scene, now, trigger, attempts>>

-----------------------------------------------------------------------------
(* The environment.                                                        *)

\* The process dies; the ledger stays.
Crash ==
    /\ May("crash") /\ run.pc # "idle"
    /\ run' = Idle
    /\ IF Last(firings).end = "running" THEN Return("crash") ELSE UNCHANGED firings
    /\ RunUnchanged

Tick ==
    /\ now < scene.ticks
    /\ now' = now + 1
    /\ UNCHANGED <<scene, trigger, firings, run, completions, attempts>>

\* A thumbs-down, or its withdrawal, and a silence.
Human ==
    /\ scene.human /\ run.pc = "idle"
    /\ \/ trigger' = [trigger EXCEPT !.downAt = now]
       \/ trigger' = [trigger EXCEPT !.downAt = 0]
       \/ trigger' = [trigger EXCEPT !.silencedAt = now, !.silencedUntil = now + Window]
    /\ trigger' # trigger
    /\ UNCHANGED <<scene, now, firings, run, completions, attempts>>

Loop ==
    \/ \E outcome \in {"off", "none", "reranked", "unavailable", "refuted", "kept"} : tryRecall(outcome)
    \/ \E digest \in {0, 1} : enforceBudget(digest)
    \/ \E usage \in {0, Reply} : CompleteFails(usage)
    \/ Refused \/ Prose
    \/ \E turn \in scene.turns : Truncated(turn) \/ \E sizes \in [DOMAIN turn -> Outputs] : Turn(turn, sizes)
    \/ \E c \in BOOLEAN : verifyFindings(c)
    \/ Curate
    \/ \E ok \in BOOLEAN : RecordOpen(ok) \/ Deliver(ok)

Next ==
    \/ \E critical \in BOOLEAN : Fire(critical)
    \/ Retry \/ Drop \/ Loop \/ Expire \/ Crash \/ Tick \/ Human

Spec == Init /\ [][Next]_vars

-----------------------------------------------------------------------------
\* Every request pairs calls and results as the providers demand: the results of a
\* turn follow it, one for every call and in its order, whatever was cut off,
\* malformed or compacted before (loop.go:717-757).
HistoryPaired ==
    run.pc = "request" =>
        LET ms == run.messages
        IN /\ \A i \in DOMAIN ms : \A k \in DOMAIN ms[i].calls :
                 i + k \in DOMAIN ms /\ ms[i + k].of = <<i, k>> /\ ms[i + k].call = ms[i].calls[k]
           /\ \A j \in ToolPositions(ms) :
                 ms[j].of[1] \in DOMAIN ms /\ ms[j].of[2] \in DOMAIN ms[ms[j].of[1]].calls
                 /\ j = ms[j].of[1] + ms[j].of[2]

\* A run concedes one request to its ceilings: the first that crosses one is sent with
\* a forced conclusion, and none that crosses any is sent after it (loop.go:1021-1029).
ConcedesOneRequest == run.conceded <= 1

\* An investigation that was paid for is never silent and never doubled: a call that
\* returns nil past the gate has completed once, one that returns an error not at all,
\* so that its retry may; and it is at most one occurrence of its trigger (loop.go:389).
CompletesOnce ==
    LET of(i) == {j \in DOMAIN completions : completions[j].firing = i}
    IN /\ \A i \in DOMAIN firings :
             /\ Cardinality(of(i)) <= 1
             /\ firings[i].end = "nil" /\ ~suppressed(firings[i].decision) =>
                    \E j \in of(i) : completions[j].told # "no"
             /\ firings[i].end = "error" \/ suppressed(firings[i].decision) => of(i) = {}
       /\ trigger.count <= Len(completions)

\* What a human last did about the trigger.
NewestHuman ==
    IF trigger.downAt = 0 /\ trigger.silencedAt = 0 THEN "none"
    ELSE IF trigger.downAt >= trigger.silencedAt THEN "down" ELSE "silence"

\* The decision of the firing this step takes up.
Gated(d) == Len(firings') > Len(firings) /\ Last(firings').decision = d

\* The gate is quiet only about what was answered: a conclusion stands, the last look is
\* within the cooldown, and no human has contested it since; a silence is the newest word
\* of a human and never mutes a critical (recurrence.go:22-66).
SuppressionEarned ==
    [][/\ Gated("suppressed") =>
             /\ \E i \in DOMAIN completions : completions[i].conclusive
             /\ \E i \in DOMAIN completions : now - completions[i].at < Cooldown
             /\ NewestHuman # "down"
       /\ Gated("silenced") => ~Last(firings').critical /\ NewestHuman = "silence"]_vars
=============================================================================
