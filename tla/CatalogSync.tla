---------------------------- MODULE CatalogSync ----------------------------
(***************************************************************************)
(* The catalogue an agent searches, kept up with a Git repository: a       *)
(* syncer per root brings its mirror to the wanted revision (sync.go) and  *)
(* has the catalogue re-indexed (catalog.go).  The operator's own root is  *)
(* indexed by the delta between two revisions where it can be, the shared  *)
(* commons root only together with it.                                     *)
(*                                                                         *)
(* A tree maps the paths of a revision to their contents; a document is    *)
(* keyed by its root and its path.                                         *)
(***************************************************************************)
EXTENDS Integers, Sequences, Functions

CONSTANTS
    Unparseable,    \* the content of a file Load skips
    Unknown,        \* the nil delta
    Scenes          \* the deployments, upstreams and faults explored

Roots == {"own", "commons"}

\* history: the trees of the revisions of each root, in the order they are pushed; pin:
\* the revision a root is pinned at, 0 for a tracked branch; synced: the roots with a
\* syncer; commons: a commons root is configured; failures bounds the faults of kinds faults.
SceneFields == {"history", "pin", "synced", "commons", "faults", "failures"}
\* A root has a pin only for its syncer, and the commons always have one.
ASSUME ScenesAssumption ==
    \A s \in Scenes :
        /\ DOMAIN s = SceneFields
        /\ s.synced \subseteq Roots
        /\ s.commons = ("commons" \in s.synced)
        /\ \A r \in Roots : s.pin[r] \in Nat /\ (s.pin[r] > 0 => r \in s.synced)

VARIABLES
    scene,
    upstream,   \* the newest revision of each root
    mirror,     \* the revision each working copy is at
    lastRev,    \* Syncer.lastRev
    pc, job,    \* where each syncer's goroutine is, and its locals
    armed,      \* Catalog.commonsDir is set
    index,      \* the documents in the bleve index
    entries,    \* Catalog.entries, with pathIdx
    vectors,    \* HasVectors
    ready,
    spent,      \* faults so far
    torn        \* auxiliary: a failed incremental pass was not made good by a rebuild

vars == <<scene, upstream, mirror, lastRev, pc, job, armed,
          index, entries, vectors, ready, spent, torn>>
catalog == <<index, entries, vectors, ready, torn>>

Absent == 0
Unreadable == -1
NoDocs == <<>>
NewJob(prev, to, cloned) ==
    [prev |-> prev, to |-> to, cloned |-> cloned, delta |-> Unknown, docs |-> NoDocs,
     vectors |-> FALSE, todo |-> {}]
NoJob == NewJob(Absent, Absent, FALSE)

\* f, and g where f is not defined.
Over(f, g) == [k \in DOMAIN f \cup DOMAIN g |-> IF k \in DOMAIN f THEN f[k] ELSE g[k]]

Tree(root, rev) == scene.history[root][rev]

\* Load: the entries of a directory, without the files that do not parse.
Load(root, tree) ==
    [k \in {root} \X {p \in DOMAIN tree : tree[p] # Unparseable} |-> tree[k[2]]]

Docs(root, rev) == IF rev = Absent THEN NoDocs ELSE Load(root, Tree(root, rev))

\* What a walk may find: files come and go one by one while a checkout runs.
Seen(root) ==
    IF pc[root] # "checkout" THEN IF mirror[root] > 0 THEN {Tree(root, mirror[root])} ELSE {}
    ELSE LET new == Tree(root, job[root].to)
             old == IF mirror[root] > 0 THEN Tree(root, mirror[root]) ELSE <<>>
         IN {Over(Restrict(new, written), Restrict(old, DOMAIN old \ changed)) :
                written \in SUBSET DOMAIN new, changed \in SUBSET DOMAIN old}

\* The documents that differ between two revisions.
diffPaths(root, from, to) ==
    LET old == Tree(root, from)  new == Tree(root, to)
    IN {root} \X {p \in DOMAIN old \cup DOMAIN new :
                    p \in DOMAIN old /\ p \in DOMAIN new => old[p] # new[p]}

Pinned(root) == scene.pin[root] > 0
Wanted(root) == IF Pinned(root) THEN scene.pin[root] ELSE upstream[root]

-----------------------------------------------------------------------------
Init ==
    /\ scene \in Scenes
    /\ upstream = [r \in Roots |-> 1]
    /\ mirror = [r \in Roots |-> IF r \in scene.synced THEN Absent ELSE 1]
    /\ lastRev = [r \in Roots |-> Absent]
    /\ pc = [r \in Roots |-> IF r = "own" /\ r \in scene.synced THEN "tick" ELSE "off"]
    /\ job = [r \in Roots |-> NoJob]
    /\ armed = FALSE
    \* A static directory is loaded before the commons are armed.
    /\ entries = Docs("own", mirror["own"])
    /\ index = entries
    /\ ready = ("own" \notin scene.synced)
    /\ vectors = ready
    /\ spent = 0
    /\ torn = FALSE

Fault(kind) == kind \in scene.faults /\ spent < scene.failures /\ spent' = spent + 1
NoFault == spent' = spent

Goto(s, label) == pc' = [pc EXCEPT ![s] = label]
Got(s, docs) == job' = [job EXCEPT ![s].docs = docs]

Push(root) ==
    /\ upstream[root] < Len(scene.history[root])
    /\ upstream' = [upstream EXCEPT ![root] = @ + 1]
    /\ UNCHANGED <<scene, mirror, lastRev, pc, job, armed, spent, catalog>>

\* armCommons: the root is set, then the commons syncer starts.
armCommons ==
    /\ scene.commons /\ ~armed
    /\ armed' = TRUE
    /\ Goto("commons", "tick")
    /\ UNCHANGED <<scene, upstream, mirror, lastRev, job, spent, catalog>>

-----------------------------------------------------------------------------
(* Syncer.Sync.                                                            *)

\* Absent or unreadable, the mirror is cloned; a commit id is no ref, so its clone lands
\* on the default branch.  Otherwise it advances, a pin without the network.
Tick(s) ==
    /\ pc[s] = "tick"
    /\ LET clones == mirror[s] \in {Absent, Unreadable}
           to == IF clones THEN upstream[s] ELSE Wanted(s)
       IN /\ job' = [job EXCEPT ![s] = NewJob(lastRev[s], to, clones)]
          /\ mirror' = [mirror EXCEPT ![s] = IF clones THEN Absent ELSE @]
          /\ Goto(s, IF mirror[s] = Wanted(s) THEN "head" ELSE "checkout")
    /\ UNCHANGED <<scene, upstream, lastRev, armed, spent, catalog>>

\* Authentication, the network, the disk, a pin the repository does not have: a failed
\* clone leaves nothing behind.
SyncFails(s) ==
    /\ pc[s] = "checkout"
    /\ \/ job[s].to <= upstream[s] /\ Fault("sync")
       \/ job[s].to > upstream[s] /\ NoFault
    /\ mirror' = [mirror EXCEPT ![s] = IF job[s].cloned THEN Absent ELSE @]
    /\ Goto(s, "tick")
    /\ UNCHANGED <<scene, upstream, lastRev, job, armed, catalog>>

Checkout(s) ==
    /\ pc[s] = "checkout" /\ job[s].to <= upstream[s]
    /\ mirror' = [mirror EXCEPT ![s] = job[s].to]
    /\ IF job[s].to = Wanted(s) \/ ~Pinned(s)
       THEN Goto(s, "head") /\ UNCHANGED job
       ELSE job' = [job EXCEPT ![s].to = Wanted(s)] /\ UNCHANGED pc
    /\ UNCHANGED <<scene, upstream, lastRev, armed, spent, catalog>>

\* HEAD is compared with the previous sync's; what changed in between is the delta.
Compare(s) ==
    /\ pc[s] = "head"
    /\ LET rev == mirror[s]
       IN /\ lastRev' = [lastRev EXCEPT ![s] = rev]
          /\ \/ rev = lastRev[s] /\ Goto(s, "tick") /\ UNCHANGED <<job, spent>>
             \/ /\ rev # lastRev[s] /\ Goto(s, "reload")
                /\ \/ NoFault /\ job' = [job EXCEPT ![s].delta = IF lastRev[s] = Absent THEN Unknown
                                                                  ELSE diffPaths(s, lastRev[s], rev)]
                   \/ Fault("diff") /\ UNCHANGED job
    /\ UNCHANGED <<scene, upstream, mirror, armed, catalog>>

-----------------------------------------------------------------------------
(* ReloadDelta and ReloadContext.                                          *)

Incremental(s) == s = "own" /\ job[s].delta # Unknown /\ ready /\ ~armed

Reload(s) ==
    /\ pc[s] = "reload"
    /\ Goto(s, IF Incremental(s) THEN "loadDelta" ELSE "load")
    /\ UNCHANGED <<scene, upstream, mirror, lastRev, job, armed, spent, catalog>>

\* What bugs would do: a failed re-index that keeps the revision it was for.
NotRolledBack(s) == UNCHANGED lastRev

\* onSync returned an error: the revision is rolled back, and the next tick retries.
RolledBack(s) == lastRev' = [lastRev EXCEPT ![s] = job[s].prev]

Fail(s) ==
    /\ RolledBack(s)
    /\ torn' = (torn \/ index # entries)
    /\ Goto(s, "tick")
    /\ UNCHANGED <<scene, upstream, mirror, job, armed, index, entries, vectors, ready>>

\* Both begin with the walk of the operator's own root.
LoadOwn(s) ==
    /\ pc[s] \in {"load", "loadDelta"}
    /\ \/ /\ \E tree \in Seen("own") : Got(s, Load("own", tree))
          /\ Goto(s, IF pc[s] = "load" THEN "loadCommons" ELSE "embedDelta")
          /\ UNCHANGED <<scene, upstream, mirror, lastRev, armed, spent, catalog>>
       \/ Fault("load") /\ Fail(s)
       \/ Seen("own") = {} /\ NoFault /\ Fail(s)

\* A broken commons root is logged, and the catalogue goes on without it.
LoadCommons(s) ==
    /\ pc[s] = "loadCommons"
    /\ \/ /\ armed /\ NoFault
          /\ \E tree \in Seen("commons") : Got(s, Over(job[s].docs, Load("commons", tree)))
       \/ /\ \/ (~armed \/ Seen("commons") = {}) /\ NoFault
             \/ armed /\ Fault("commons")
          /\ UNCHANGED job
    /\ Goto(s, "build")
    /\ UNCHANGED <<scene, upstream, mirror, lastRev, armed, catalog>>

Build(s) ==
    /\ pc[s] = "build"
    /\ \/ Goto(s, "embed") /\ UNCHANGED <<scene, upstream, mirror, lastRev, job, armed, spent, catalog>>
       \/ Fault("index") /\ Fail(s)

\* All or nothing: one failing call leaves the reload without a vector.
Embed(s) ==
    /\ pc[s] \in {"embed", "embedDelta"}
    /\ \/ NoFault /\ job' = [job EXCEPT ![s].vectors = TRUE, ![s].todo = job[s].delta]
       \/ Fault("embed") /\ job' = [job EXCEPT ![s].vectors = FALSE, ![s].todo = job[s].delta]
    /\ Goto(s, IF pc[s] = "embed" THEN "swap" ELSE "mutate")
    /\ UNCHANGED <<scene, upstream, mirror, lastRev, armed, catalog>>

\* ... and a changed file that no longer parses and keeps its document.
StaleKept(docs, k) ==
    IF k \in DOMAIN docs THEN Over(Restrict(docs, {k}), index) ELSE index

\* One document of the delta: indexed again, or dropped when no entry is there for it.
Reindexed(docs, k) ==
    IF k \in DOMAIN docs THEN Over(Restrict(docs, {k}), index)
    ELSE Restrict(index, DOMAIN index \ {k})

Mutate(s) ==
    /\ pc[s] = "mutate"
    /\ \/ \E k \in job[s].todo :
            /\ index' = Reindexed(job[s].docs, k)
            /\ job' = [job EXCEPT ![s].todo = @ \ {k}]
            /\ UNCHANGED <<pc, spent>>
       \/ job[s].todo # {} /\ Fault("index") /\ Goto(s, "load") /\ UNCHANGED <<job, index>>
    /\ UNCHANGED <<scene, upstream, mirror, lastRev, armed, entries, vectors, ready, torn>>

Swap(s) ==
    /\ pc[s] = "swap"
    /\ index' = job[s].docs
    /\ entries' = job[s].docs
    /\ vectors' = job[s].vectors
    /\ ready' = TRUE
    /\ torn' = FALSE
    /\ Goto(s, "tick")
    /\ UNCHANGED <<scene, upstream, mirror, lastRev, job, armed, spent>>

SwapDelta(s) ==
    /\ pc[s] = "mutate" /\ job[s].todo = {}
    /\ entries' = job[s].docs
    /\ vectors' = job[s].vectors
    /\ Goto(s, "tick")
    /\ UNCHANGED <<scene, upstream, mirror, lastRev, job, armed, index, ready, spent, torn>>

\* The process dies and starts again on its mirrors; a clone cut short cannot be read.
Crash ==
    /\ Fault("crash")
    /\ mirror' = [r \in Roots |-> IF pc[r] = "checkout" /\ job[r].cloned THEN Unreadable ELSE mirror[r]]
    /\ lastRev' = [r \in Roots |-> Absent]
    /\ pc' = [r \in Roots |-> IF r = "own" /\ r \in scene.synced THEN "tick" ELSE "off"]
    /\ job' = [r \in Roots |-> NoJob]
    /\ armed' = FALSE
    /\ entries' = IF "own" \in scene.synced THEN NoDocs ELSE Docs("own", mirror["own"])
    /\ index' = entries'
    /\ ready' = ("own" \notin scene.synced)
    /\ vectors' = ready'
    /\ torn' = FALSE
    /\ UNCHANGED <<scene, upstream>>

Step(s) ==
    \/ Tick(s) \/ SyncFails(s) \/ Checkout(s) \/ Compare(s) \/ Reload(s) \/ LoadOwn(s) \/ LoadCommons(s)
    \/ Build(s) \/ Embed(s) \/ Mutate(s) \/ Swap(s) \/ SwapDelta(s)

Next ==
    \/ \E r \in Roots : Push(r) \/ Step(r)
    \/ armCommons \/ Crash

Spec == Init /\ [][Next]_vars

\* Each syncer's goroutine and its ticker go on, and the start is completed.
FairSpec == Spec /\ WF_vars(armCommons) /\ \A r \in Roots : WF_vars(Step(r))

-----------------------------------------------------------------------------
(* Properties.                                                             *)

Part(docs, root) == Restrict(docs, {k \in DOMAIN docs : k[1] = root})
ARevision(docs, root) ==
    \E rev \in {Absent} \cup (IF Pinned(root) THEN {scene.pin[root]} ELSE 1..upstream[root]) :
        Part(docs, root) = Docs(root, rev)

\* What is served is one revision of each root, never a mixture and never one a pinned
\* root is not at; and between two reloads the index holds the documents of exactly the
\* entries its hits are resolved to (catalog.go:260, "an incremental error must never
\* leave a wrong index behind"), unless the rebuild after such an error failed as well.
\* Of one syncer: with two, a reload walks the mirror the other one is writing.
IndexIsOneRevision ==
    scene.synced # Roots =>
        /\ \A root \in Roots : ARevision(entries, root)
        /\ pc["own"] \in {"off", "tick", "checkout", "head"} /\ ~torn => index = entries

Serves(root) == Wanted(root) <= upstream[root] => Part(entries, root) = Docs(root, Wanted(root))

\* Once upstream rests and the faults are over, the catalogue comes to serve the wanted
\* revisions and stays there: a failed sync or reload is retried although HEAD does not
\* move again (sync.go:309).  Not so the commons when it was their walk that failed.
CatchesUp ==
    /\ <>[]Serves("own")
    /\ scene.commons /\ "commons" \notin scene.faults => <>[]Serves("commons")

\* The same of the commons, without the exception.
CommonsCatchUp == scene.commons => <>[]Serves("commons")

=============================================================================
