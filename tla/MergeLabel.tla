----------------------------- MODULE MergeLabel -----------------------------
(***************************************************************************)
(* The label ready-to-merge on one open entry pull request, which a merge  *)
(* automation trusts: the Queue pass and Promote lay and withdraw it on    *)
(* what the outcome ledger and the threat check say (curate/resolution.go, *)
(* risk.go), the refresh rebuilds a conflicting branch (curate/refresh.go, *)
(* forge/github/refresh.go), and notes and resolutions are appended to the *)
(* entry (forge/github/noteappend.go), each one call of the forge after    *)
(* another while the others and humans go on.                              *)
(***************************************************************************)
EXTENDS Integers, FiniteSets, Sequences

CONSTANTS
    Edits,          \* the notes and resolutions to append to the entry
    Scenes          \* the deployments, histories and faults explored

\* actors: who grooms; bad: the texts the threat check hits; revoke: RevokeAcceptedOnEdit;
\* onBase: the base already has the entry; people: what humans do; moves bounds the base's
\* merges, failures the calls that fail.
SceneFields == {"actors", "edits", "bad", "revoke", "onBase", "people", "moves", "failures"}
Groomers == {"sweeper", "operator", "curation", "plain"}
ASSUME ScenesAssumption ==
    \A s \in Scenes : DOMAIN s = SceneFields /\ s.actors \subseteq Groomers /\ s.edits \subseteq Edits

VARIABLES
    scene,
    pr,         \* the pull request: state, labels, head, the entry's text, conflict, whose commits
    fact,       \* the outcome ledger: latest observation, standing down-vote, resolved episode
    act,        \* where each groomer is and what it has read
    edit,       \* where each edit is and what it has read
    moved,      \* how often the base moved
    spent,      \* failed calls so far
    read        \* auxiliary: the text a human read when accepting

vars == <<scene, pr, fact, act, edit, moved, spent, read>>

IsOpen == pr.state = "open"
Has(labels, label) == label \in labels
Threat(text) == text \cap scene.bad # {}

NoRead == [step |-> "idle", labels |-> {}, latest |-> "none", contested |-> FALSE, head |-> 0,
           text |-> {}, own |-> TRUE, threat |-> FALSE, unread |-> FALSE]
NoEdit == [step |-> "idle", labels |-> {}, text |-> {}]

At(a, step) == act[a].step = step
Fails == spent < scene.failures /\ spent' = spent + 1
Works == UNCHANGED spent

Init ==
    /\ scene \in Scenes
    /\ pr = [state |-> "open", labels |-> {}, head |-> 0, text |-> {"draft"}, conflict |-> FALSE, human |-> FALSE]
    /\ fact = [latest |-> "none", contested |-> FALSE, resolved |-> FALSE]
    /\ act = [a \in scene.actors |-> NoRead]
    /\ edit = [e \in scene.edits |-> NoEdit]
    /\ moved = 0 /\ spent = 0
    /\ read = {}

Push(text) == [pr EXCEPT !.text = text, !.head = @ + 1]

-----------------------------------------------------------------------------
(* The refresh: a conflicting pull request is rebuilt on the base.         *)

grooms == <<scene, fact, edit, moved, read>>

\* A groomer that is done, or goes on with the evidence.
Over(a) == act' = [act EXCEPT ![a] = NoRead]
ToQueue(a) == act' = [act EXCEPT ![a] = [NoRead EXCEPT !.step = "queue"]]

\* A refused pull request is for a human to decide: the Queue leaves it alone.
Refused(a) == Over(a)

\* A failure is retried by the next pass, and this one goes on to the Queue.
Failed(a) == IF a = "operator" THEN Over(a) ELSE ToQueue(a)

RefreshList(a) ==
    /\ a \in {"sweeper", "operator"} /\ At(a, "idle") /\ IsOpen
    /\ act' = [act EXCEPT ![a].step = "state", ![a].labels = pr.labels, ![a].latest = fact.latest]
    /\ UNCHANGED <<grooms, pr, spent>>

\* EntryPRState, whose mergeable may still be computed; beyond the cap of a pass the
\* pull request waits for the next.
EntryPRState(a) ==
    /\ At(a, "state")
    /\ \/ ~pr.conflict /\ Failed(a) /\ Works
       \/ pr.conflict /\ Failed(a) /\ Fails
       \/ /\ pr.conflict /\ Works
          /\ LET worth == a = "operator" \/ Has(act[a].labels, "ready") \/ act[a].latest = "held"
             IN IF worth
                THEN act' = [act EXCEPT ![a].step = "strip", ![a].head = pr.head, ![a].own = ~pr.human]
                ELSE Refused(a)
       \/ pr.conflict /\ a = "sweeper" /\ ~pr.human /\ Works /\ Refused(a)
    /\ UNCHANGED <<grooms, pr>>

\* The label comes off before anything is pushed, and before a refusal.
Strip(a) ==
    /\ At(a, "strip")
    /\ \/ /\ Works
          /\ pr' = IF Has(act[a].labels, "ready") THEN [pr EXCEPT !.labels = @ \ {"ready"}] ELSE pr
          /\ IF act[a].own THEN act' = [act EXCEPT ![a].step = "rebuild"] ELSE Refused(a)
       \/ Has(act[a].labels, "ready") /\ Fails /\ Failed(a) /\ UNCHANGED pr
    /\ UNCHANGED grooms

\* checkRebuildable: open and still at the head that was examined.
Rebuildable(a) == IsOpen /\ pr.head = act[a].head

RebuildCheckFirst(a) ==
    /\ At(a, "rebuild")
    /\ IF Rebuildable(a) THEN Works /\ act' = [act EXCEPT ![a].step = "read"]
                         ELSE Works /\ Failed(a)
    /\ UNCHANGED <<grooms, pr>>

\* The entry is read at the branch, whose head may be newer by now.
RebuildRead(a) ==
    /\ At(a, "read")
    /\ \/ Works /\ scene.onBase /\ Refused(a)
       \/ Works /\ ~scene.onBase /\ act' = [act EXCEPT ![a].step = "check", ![a].text = pr.text]
       \/ Fails /\ Failed(a)
    /\ UNCHANGED <<grooms, pr>>

\* What bugs would do: not looking at the head a second time.
LooksOnce(a) ==
    /\ At(a, "check")
    /\ act' = [act EXCEPT ![a].step = "push", ![a].head = pr.head]
    /\ Works
    /\ UNCHANGED <<grooms, pr>>

RebuildCheck(a) ==
    /\ At(a, "check")
    /\ IF Rebuildable(a) THEN act' = [act EXCEPT ![a].step = "push", ![a].head = pr.head] ELSE Failed(a)
    /\ Works
    /\ UNCHANGED <<grooms, pr>>

\* The forced update of the branch; its answer may be lost.
RebuildPush(a) ==
    /\ At(a, "push")
    /\ \/ /\ pr' = IF IsOpen THEN [Push(act[a].text) EXCEPT !.conflict = FALSE, !.human = FALSE] ELSE pr
          /\ \/ Works /\ ToQueue(a)
             \/ Fails /\ Failed(a)
       \/ Fails /\ Failed(a) /\ UNCHANGED pr
    /\ UNCHANGED grooms

-----------------------------------------------------------------------------
(* The Queue and Promote.                                                  *)

\* The evidence and the labels of this moment; the entry is read when there is a label
\* to earn or to lose, and never past a human's accepted.
QueueList(a) ==
    /\ At(a, "queue") \/ (a \in {"curation", "plain"} /\ At(a, "idle"))
    /\ IF IsOpen
       THEN act' = [act EXCEPT ![a] = [NoRead EXCEPT
                !.labels = pr.labels, !.latest = fact.latest, !.contested = fact.contested,
                !.step = IF /\ a # "plain" /\ ~Has(pr.labels, "accepted")
                            /\ Has(pr.labels, "ready") \/ Has(pr.labels, "solved") \/ fact.latest = "held"
                         THEN "text" ELSE "decide"]]
       ELSE Over(a)
    /\ Works
    /\ UNCHANGED <<grooms, pr>>

\* PREntryText and the threat check: what cannot be read is neither good nor bad.
ReadText(a) ==
    /\ At(a, "text")
    /\ \/ Works /\ act' = [act EXCEPT ![a].step = "decide", ![a].threat = Threat(pr.text)]
       \/ Fails /\ act' = [act EXCEPT ![a].step = "decide", ![a].unread = TRUE]
    /\ UNCHANGED <<grooms, pr>>

\* Risks but unverified: a threat, a standing down-vote, a human's security label.
Flagged(a) == act[a].threat \/ act[a].contested \/ Has(act[a].labels, "security")

\* applyEvidence: what becomes of the label.
Withdrawn(a) ==
    /\ Has(act[a].labels, "ready") /\ ~Has(act[a].labels, "accepted")
    /\ Flagged(a) \/ act[a].latest = "failed"

\* What bugs would do: labelling only what a human has solved.
EarnedSolved(a) ==
    /\ {"ready", "solved"} \cap act[a].labels = {"solved"}
    /\ \/ Has(act[a].labels, "accepted")
       \/ fact.resolved /\ ~Flagged(a) /\ act[a].latest # "failed" /\ ~act[a].unread

Earned(a) ==
    /\ ~Has(act[a].labels, "ready")
    /\ \/ Has(act[a].labels, "solved") /\ Has(act[a].labels, "accepted")
       \/ /\ ~Flagged(a) /\ act[a].latest # "failed" /\ ~act[a].unread
          /\ act[a].latest = "held" \/ (Has(act[a].labels, "solved") /\ fact.resolved)

\* runOnResolution, without evidence: a solved one that is accepted or resolved.
EarnedPlain(a) ==
    /\ {"ready", "solved"} \cap act[a].labels = {"solved"}
    /\ Has(act[a].labels, "accepted") \/ fact.resolved

\* What bugs would do: passing over what is queued already.
RelabelOnce(a) ==
    /\ At(a, "decide")
    /\ IF (IF a = "plain" THEN EarnedPlain(a) ELSE Earned(a)) THEN pr' = [pr EXCEPT !.labels = @ \cup {"ready"}] ELSE UNCHANGED pr
    /\ Works
    /\ Over(a)
    /\ UNCHANGED grooms

Relabel(a) ==
    /\ At(a, "decide")
    /\ LET earned == IF a = "plain" THEN EarnedPlain(a) ELSE Earned(a)
           withdrawn == a # "plain" /\ Withdrawn(a)
       IN \/ earned /\ Works /\ pr' = [pr EXCEPT !.labels = @ \cup {"ready"}]
          \/ withdrawn /\ Works /\ pr' = [pr EXCEPT !.labels = @ \ {"ready"}]
          \/ ~earned /\ ~withdrawn /\ Works /\ UNCHANGED pr
          \/ (earned \/ withdrawn) /\ Fails /\ UNCHANGED pr
    /\ Over(a)
    /\ UNCHANGED grooms

-----------------------------------------------------------------------------
(* editEntryOnPR: a note or a resolution is appended.                      *)

edits == <<scene, fact, act, moved, read>>
EditTo(e, step) == edit' = [edit EXCEPT ![e].step = step]

\* The labels read here are the ones that will be taken off.
EditReadPR(e) ==
    /\ edit[e].step = "idle" /\ IsOpen
    /\ edit' = [edit EXCEPT ![e].step = "file",
           ![e].labels = pr.labels \cap ({"ready"} \cup IF scene.revoke THEN {"accepted"} ELSE {})]
    /\ UNCHANGED <<edits, pr, spent>>

EditReadFile(e) ==
    /\ edit[e].step = "file"
    /\ IF e \in pr.text THEN EditTo(e, "written")
       ELSE edit' = [edit EXCEPT ![e].step = "strip", ![e].text = pr.text]
    /\ UNCHANGED <<edits, pr, spent>>

\* First ready-to-merge, then accepted; a failed removal stops the push.
EditStrip(e) ==
    /\ edit[e].step = "strip" /\ edit[e].labels # {}
    /\ LET label == IF "ready" \in edit[e].labels THEN "ready" ELSE "accepted"
       IN \/ /\ Works
             /\ pr' = [pr EXCEPT !.labels = @ \ {label}]
             /\ edit' = [edit EXCEPT ![e].labels = @ \ {label}]
          \/ Fails /\ EditTo(e, "idle") /\ UNCHANGED pr
    /\ UNCHANGED edits

\* The blob's hash makes it an update of the text that was read.
EditPut(e) ==
    /\ edit[e].step = "strip" /\ edit[e].labels = {}
    /\ IF pr.text # edit[e].text THEN Works /\ EditTo(e, "landed") /\ UNCHANGED pr
       ELSE /\ pr' = IF IsOpen THEN Push(pr.text \cup {e}) ELSE pr
            /\ \/ Works /\ EditTo(e, "written")
               \/ Fails /\ EditTo(e, "landed")
    /\ UNCHANGED edits

\* editLanded: the text now on the branch says whether a failed write got there.
EditLanded(e) ==
    /\ edit[e].step = "landed"
    /\ EditTo(e, IF e \in pr.text THEN "written" ELSE "idle")
    /\ UNCHANGED <<edits, pr, spent>>

-----------------------------------------------------------------------------
(* Humans, the cluster, the base branch and the merge automation.          *)

others == <<scene, act, edit, spent>>

Does(what) == what \in scene.people

Label(label) ==
    /\ Does(label) /\ IsOpen
    /\ pr' = [pr EXCEPT !.labels = @ \cup {label}]
    /\ read' = IF label = "accepted" THEN pr.text ELSE read
    /\ UNCHANGED <<others, fact, moved>>

Commit ==
    /\ Does("commit") /\ IsOpen /\ ~pr.human
    /\ pr' = [Push(pr.text) EXCEPT !.human = TRUE]
    /\ UNCHANGED <<others, fact, moved, read>>

Learn ==
    /\ \/ \E l \in {"held", "failed"} : Does(l) /\ fact' = [fact EXCEPT !.latest = l]
       \/ Does("contest") /\ fact' = [fact EXCEPT !.contested = ~@]
       \/ Does("resolve") /\ fact' = [fact EXCEPT !.resolved = TRUE]
    /\ UNCHANGED <<others, pr, moved, read>>

BaseMoves ==
    /\ moved < scene.moves /\ IsOpen /\ moved' = moved + 1
    /\ pr' = [pr EXCEPT !.conflict = TRUE]
    /\ UNCHANGED <<others, fact, read>>

Merge ==
    /\ Does("merge") /\ IsOpen /\ ~pr.conflict /\ Has(pr.labels, "ready")
    /\ pr' = [pr EXCEPT !.state = "merged"]
    /\ UNCHANGED <<others, fact, moved, read>>

Groom(a) ==
    \/ RefreshList(a) \/ EntryPRState(a) \/ Strip(a) \/ RebuildCheckFirst(a) \/ RebuildRead(a)
    \/ RebuildCheck(a) \/ RebuildPush(a) \/ QueueList(a) \/ ReadText(a) \/ Relabel(a)

Edit(e) == EditReadPR(e) \/ EditReadFile(e) \/ EditStrip(e) \/ EditPut(e) \/ EditLanded(e)

Next ==
    \/ \E a \in scene.actors : Groom(a)
    \/ \E e \in scene.edits : Edit(e)
    \/ \E label \in {"solved", "accepted", "security"} : Label(label)
    \/ Commit \/ Learn \/ BaseMoves \/ Merge

Spec == Init /\ [][Next]_vars

\* The sweeper's ticker and a pass once begun; nothing is owed by the others.
FairSpec == Spec /\ WF_vars("sweeper" \in scene.actors /\ Groom("sweeper"))

-----------------------------------------------------------------------------
(* Properties.                                                             *)

\* What stands against the pull request now, as a sweep that began now would see it.
Condemned == IsOpen /\ "accepted" \notin pr.labels
             /\ (Threat(pr.text) \/ fact.contested \/ "security" \in pr.labels \/ fact.latest = "failed")
Proven == IsOpen /\ ~pr.conflict /\ fact.latest = "held" /\ ~fact.contested /\ "security" \notin pr.labels
          /\ ~Threat(pr.text)

\* Whoever labels it on older evidence meanwhile, what stands condemned loses the label
\* for good (resolution.go:37, "withdraws it from a labelled PR").
CondemnedLosesLabel == "sweeper" \in scene.actors => (<>[]Condemned => <>[]("ready" \notin pr.labels))

\* What stands proven gets the label and keeps it: neither a rebuild nor an edit that took
\* it off, nor a failed read, leaves it waiting (resolution.go:34).
ProvenGetsLabel == "sweeper" \in scene.actors => (<>[]Proven => <>[]("ready" \in pr.labels))

\* Of all pushes only a rebuild takes an edit out of the entry, and only one that landed
\* after the rebuild's second look at the head (forge/github/refresh.go:146, "One window
\* remains").
EditsAreKept ==
    [][\A e \in pr.text \ pr'.text : \E a \in scene.actors : At(a, "push") /\ act[a].head # pr.head]_vars

\* "a human has read the entry, and RunLore's own later write takes accepted off"
\* (resolution.go:38).
AcceptedIsRead == "accepted" \in pr.labels => pr.text \subseteq read

=============================================================================
