-------------------------- MODULE CatalogSyncProofs --------------------------
(***************************************************************************)
(* Proofs about CatalogSync, for any histories, pins and faults.           *)
(***************************************************************************)
EXTENDS CatalogSync, TLAPS

-----------------------------------------------------------------------------
(* The documents of a tree.                                                *)

\* What a function constructor returns: a function is its domain and its values.
IsDocs(f) == f = [k \in DOMAIN f |-> f[k]]

\* f and g are the same but for the documents in S.
Agree(f, g, S) ==
    \A k \in (DOMAIN f \cup DOMAIN g) \ S : k \in DOMAIN f /\ k \in DOMAIN g /\ f[k] = g[k]

\* Whatever a walk returns is a set of documents.
LEMMA DocsAreDocs == ASSUME NEW root, NEW rev PROVE IsDocs(Docs(root, rev))
<1>1. IsDocs(NoDocs)
  BY DEF IsDocs, NoDocs
<1>2. IsDocs(Load(root, Tree(root, rev)))
  BY DEF IsDocs, Load
<1>3. QED  BY <1>1, <1>2 DEF Docs

\* Two sets of documents that agree everywhere are one.
LEMMA AgreeingIsEqual == ASSUME NEW f, NEW g, IsDocs(f), IsDocs(g), Agree(f, g, {}) PROVE f = g
BY DEF IsDocs, Agree

\* A walk of a root finds documents of that root.
LEMMA DocsOfOneRoot ==
    ASSUME NEW root, NEW rev
    PROVE  /\ Part(Docs(root, rev), root) = Docs(root, rev)
           /\ \A r \in Roots \ {root} : Part(Docs(root, rev), r) = NoDocs
<1>1. CASE rev = Absent
  BY <1>1 DEF Part, Docs, NoDocs, Restrict
<1>2. CASE rev # Absent
  <2>1. Docs(root, rev) = Load(root, Tree(root, rev))
    BY <1>2 DEF Docs
  <2>2. \A k \in DOMAIN Load(root, Tree(root, rev)) : k[1] = root
    BY DEF Load
  <2>3. Part(Load(root, Tree(root, rev)), root) = Load(root, Tree(root, rev))
    BY DEF Part, Load, Restrict
  <2>4. ASSUME NEW r \in Roots \ {root} PROVE Part(Load(root, Tree(root, rev)), r) = NoDocs
    <3>1. {k \in DOMAIN Load(root, Tree(root, rev)) : k[1] = r} = {}
      BY <2>2
    <3>2. QED  BY <3>1 DEF Part, Restrict, NoDocs
  <2>5. QED  BY <2>1, <2>3, <2>4
<1>3. QED  BY <1>1, <1>2

\* A walk of both roots finds the documents of each.
LEMMA DocsOfBothRoots ==
    ASSUME NEW own, NEW commons
    PROVE  LET docs == Over(Docs("own", own), Docs("commons", commons))
           IN /\ IsDocs(docs)
              /\ Part(docs, "own") = Docs("own", own)
              /\ Part(docs, "commons") = Docs("commons", commons)
<1> DEFINE f == Docs("own", own)
           g == Docs("commons", commons)
<1>1. \A k \in DOMAIN f : k[1] = "own"
  BY DEF Docs, Load, NoDocs
<1>2. \A k \in DOMAIN g : k[1] = "commons"
  BY DEF Docs, Load, NoDocs
<1>3. IsDocs(f) /\ IsDocs(g)
  BY DocsAreDocs
<1>4. IsDocs(Over(f, g)) /\ Part(Over(f, g), "own") = f /\ Part(Over(f, g), "commons") = g
  <2> HIDE DEF f, g
  <2>1. IsDocs(Over(f, g))
    BY DEF IsDocs, Over
  <2>2. Part(Over(f, g), "own") = f
    <3>1. {k \in DOMAIN Over(f, g) : k[1] = "own"} = DOMAIN f
      BY <1>1, <1>2 DEF Over
    <3>2. \A k \in DOMAIN f : Over(f, g)[k] = f[k]
      BY DEF Over
    <3>3. QED  BY <1>3, <3>1, <3>2 DEF Part, Restrict, IsDocs
  <2>3. Part(Over(f, g), "commons") = g
    <3>1. {k \in DOMAIN Over(f, g) : k[1] = "commons"} = DOMAIN g
      BY <1>1, <1>2 DEF Over
    <3>2. \A k \in DOMAIN g : Over(f, g)[k] = g[k]
      BY <1>1, <1>2 DEF Over
    <3>3. QED  BY <1>3, <3>1, <3>2 DEF Part, Restrict, IsDocs
  <2>4. QED  BY <2>1, <2>2, <2>3
<1>5. QED  BY <1>4

\* What changed between two revisions is all their documents differ in.
LEMMA DiffIsEnough ==
    ASSUME NEW root, NEW from, NEW to, from # Absent, to # Absent
    PROVE  Agree(Docs(root, from), Docs(root, to), diffPaths(root, from, to))
BY DEF Agree, Docs, Load, diffPaths

\* Indexing a document again leaves a set of documents ...
LEMMA ReindexedIsDocs == ASSUME NEW docs, NEW k PROVE IsDocs(Reindexed(docs, k))
BY DEF IsDocs, Reindexed, Over, Restrict

\* ... that agrees with the walk in it, too.
LEMMA ReindexingAgrees ==
    ASSUME NEW docs, NEW S, NEW k \in S, Agree(index, docs, S)
    PROVE  Agree(Reindexed(docs, k), docs, S \ {k})
<1>1. CASE k \in DOMAIN docs
  BY <1>1 DEF Agree, Reindexed, Over, Restrict
<1>2. CASE k \notin DOMAIN docs
  BY <1>2 DEF Agree, Reindexed, Restrict
<1>3. QED  BY <1>1, <1>2

-----------------------------------------------------------------------------
(* The inductive invariant.                                                *)

Idle == {"off", "tick", "checkout", "head"}
Whole == {"reload", "load", "loadCommons", "build", "embed", "swap"}
ByDelta == {"loadDelta", "embedDelta", "mutate"}

Job(prev, to, cloned, delta, docs, vecs, todo) ==
    [prev |-> prev, to |-> to, cloned |-> cloned, delta |-> delta, docs |-> docs,
     vectors |-> vecs, todo |-> todo]
IsJob(j) ==
    /\ j = Job(j.prev, j.to, j.cloned, j.delta, j.docs, j.vectors, j.todo)
    /\ j.prev \in Nat /\ j.to \in Nat

\* Every variable the argument reads has its type.
TypeOK ==
    /\ scene \in Scenes
    /\ upstream \in [Roots -> Nat \ {0}]
    /\ mirror \in [Roots -> Nat \cup {Unreadable}]
    /\ lastRev \in [Roots -> Nat]
    /\ pc \in [Roots -> Idle \cup Whole \cup ByDelta]
    /\ job = [s \in Roots |-> job[s]] /\ \A s \in Roots : IsJob(job[s])
    /\ armed \in BOOLEAN

\* The revisions of a root that may be served.
Servable(root) == IF Pinned(root) THEN {scene.pin[root]} ELSE 1..upstream[root]

\* A root without a syncer is a directory that never changes; one with a syncer is at a
\* revision that may be served by the time the syncer looks at its HEAD.
MirrorSound ==
    /\ armed => scene.commons
    /\ pc["commons"] # "off" => armed
    /\ pc["commons"] \notin ByDelta
    /\ \A r \in Roots :
        /\ r \notin scene.synced => pc[r] = "off" /\ mirror[r] = 1
        /\ pc[r] = "checkout" => job[r].to > 0
        /\ pc[r] \notin {"off", "tick", "checkout"} => mirror[r] \in Servable(r)

\* What a reload has walked so far is what the mirrors hold.
WalkSound ==
    \A s \in Roots :
        /\ pc[s] \in {"loadCommons", "embedDelta", "mutate"} =>
              job[s].docs = Docs("own", mirror["own"])
        /\ pc[s] \in {"build", "embed", "swap"} =>
              \/ job[s].docs = Docs("own", mirror["own"])
              \/ /\ armed
                 /\ job[s].docs = Over(Docs("own", mirror["own"]), Docs("commons", mirror["commons"]))

\* The entries are the revision the delta of the next reload starts from.
DeltaSound ==
    /\ pc["own"] \in {"tick", "checkout", "head"} /\ lastRev["own"] # Absent =>
          entries = Docs("own", lastRev["own"])
    /\ pc["own"] \in {"checkout", "head"} => job["own"].prev = lastRev["own"] /\ job["own"].delta = Unknown
    /\ pc["own"] \in Whole \cup ByDelta =>
          /\ lastRev["own"] = mirror["own"]
          /\ job["own"].prev # Absent => entries = Docs("own", job["own"].prev)
    /\ pc["own"] \in {"reload", "loadDelta", "embedDelta"} /\ job["own"].delta # Unknown =>
          /\ job["own"].prev # Absent
          /\ job["own"].delta = diffPaths("own", job["own"].prev, mirror["own"])
    /\ pc["own"] \in {"loadDelta", "embedDelta"} => job["own"].delta # Unknown

\* The index holds the documents of the entries, but for those a delta has still to
\* bring it.
IndexSound ==
    ~torn =>
        /\ pc["own"] \in Idle \cup {"reload", "loadDelta", "embedDelta"} => index = entries
        /\ pc["own"] = "mutate" => Agree(index, job["own"].docs, job["own"].todo)

\* The catalogue is made of revisions.
EntriesSound ==
    /\ IsDocs(index) /\ IsDocs(entries)
    /\ \A root \in Roots : ARevision(entries, root)

\* With one syncer, all of it.
Alone == scene.synced # Roots
Sound == TypeOK /\ MirrorSound /\ (Alone => WalkSound /\ DeltaSound /\ IndexSound /\ EntriesSound)

-----------------------------------------------------------------------------
(* What a step leaves alone.                                               *)

\* Setting fields of a job.
LEMMA JobPuts ==
    ASSUME TypeOK, NEW s \in Roots, NEW v
    PROVE  LET j == job[s] IN
           /\ [job EXCEPT ![s].to = v]
                 = [job EXCEPT ![s] = Job(j.prev, v, j.cloned, j.delta, j.docs, j.vectors, j.todo)]
           /\ [job EXCEPT ![s].delta = v]
                 = [job EXCEPT ![s] = Job(j.prev, j.to, j.cloned, v, j.docs, j.vectors, j.todo)]
           /\ [job EXCEPT ![s].docs = v]
                 = [job EXCEPT ![s] = Job(j.prev, j.to, j.cloned, j.delta, v, j.vectors, j.todo)]
           /\ [job EXCEPT ![s].todo = v]
                 = [job EXCEPT ![s] = Job(j.prev, j.to, j.cloned, j.delta, j.docs, j.vectors, v)]
<1> DEFINE j == job[s]
<1>1. PICK p, t, c, d, o, x, y : j = Job(p, t, c, d, o, x, y)
  BY DEF TypeOK, IsJob
<1>2. /\ j.prev = p /\ j.to = t /\ j.cloned = c /\ j.delta = d /\ j.docs = o
      /\ j.vectors = x /\ j.todo = y
  BY <1>1 DEF Job
<1>3. [j EXCEPT !.to = v] = Job(p, v, c, d, o, x, y)
  <2> HIDE DEF j
  <2> QED  BY <1>1 DEF Job
<1>4. [j EXCEPT !.delta = v] = Job(p, t, c, v, o, x, y)
  <2> HIDE DEF j
  <2> QED  BY <1>1 DEF Job
<1>5. [j EXCEPT !.docs = v] = Job(p, t, c, d, v, x, y)
  <2> HIDE DEF j
  <2> QED  BY <1>1 DEF Job
<1>6. [j EXCEPT !.todo = v] = Job(p, t, c, d, o, x, v)
  <2> HIDE DEF j
  <2> QED  BY <1>1 DEF Job
<1>7. QED
  <2> HIDE DEF Job
  <2> QED  BY <1>2, <1>3, <1>4, <1>5, <1>6 DEF TypeOK

\* A job given to one syncer leaves the other's.
LEMMA JobType ==
    ASSUME TypeOK, NEW s \in Roots, NEW j, IsJob(j), job' = [job EXCEPT ![s] = j]
    PROVE  /\ job' = [r \in Roots |-> job'[r]] /\ \A r \in Roots : IsJob(job'[r])
           /\ job'[s] = j /\ \A r \in Roots \ {s} : job'[r] = job[r]
BY DEF TypeOK

\* With one syncer, the other root stands still.
LEMMA OtherStandsStill ==
    ASSUME TypeOK, MirrorSound, Alone, NEW s \in Roots, pc[s] # "off"
    PROVE  /\ \A r \in Roots \ {s} : pc[r] = "off" /\ mirror[r] = 1 /\ ~Pinned(r)
           /\ armed => s = "commons"
<1>1. /\ scene.synced \subseteq Roots /\ scene.commons = ("commons" \in scene.synced)
      /\ \A r \in Roots : scene.pin[r] \in Nat /\ (scene.pin[r] > 0 => r \in scene.synced)
  BY ScenesAssumption DEF TypeOK
<1>2. s \in scene.synced
  BY <1>1 DEF MirrorSound
<1>3. \A r \in Roots \ {s} : r \notin scene.synced
  BY <1>1, <1>2 DEF Alone, Roots
<1>4. QED  BY <1>1, <1>3 DEF MirrorSound, Pinned, Roots

\* With one syncer, what has to hold of a reload has to hold of its own.
LEMMA WalkOfOne ==
    ASSUME NEW s \in Roots, \A r \in Roots \ {s} : pc'[r] = "off",
           pc'[s] \in {"loadCommons", "embedDelta", "mutate"} =>
              job'[s].docs = Docs("own", mirror["own"])',
           pc'[s] \in {"build", "embed", "swap"} =>
              \/ job'[s].docs = Docs("own", mirror["own"])'
              \/ /\ armed'
                 /\ job'[s].docs = Over(Docs("own", mirror["own"]), Docs("commons", mirror["commons"]))'
    PROVE  WalkSound'
BY DEF WalkSound

\* The documents of a revision depend on the deployment alone.
LEMMA SameRevisions ==
    ASSUME TypeOK, scene' = scene, upstream' \in [Roots -> Nat],
           \A r \in Roots : upstream'[r] >= upstream[r]
    PROVE  /\ Alone' = Alone
           /\ \A r \in Roots : Pinned(r)' = Pinned(r) /\ Servable(r) \subseteq Servable(r)'
           /\ \A root \in Roots : \A rev : Docs(root, rev)' = Docs(root, rev)
           /\ \A f : \A root \in Roots : ARevision(f, root) => ARevision(f, root)'
           /\ \A root, x, y : diffPaths(root, x, y)' = diffPaths(root, x, y)
<1>1. \A root \in Roots : \A rev : Docs(root, rev)' = Docs(root, rev)
  BY DEF Docs, Tree
<1>2. \A r \in Roots : Pinned(r)' = Pinned(r)
  BY DEF Pinned
<1>3. \A r \in Roots : 1..upstream[r] \subseteq 1..upstream'[r]
  BY DEF TypeOK
<1>4. QED  BY <1>1, <1>2, <1>3 DEF Servable, ARevision, Part, Alone, diffPaths, Tree

\* A process starts with what its directories hold.
LEMMA SoundInit == Init => Sound
<1> SUFFICES ASSUME Init PROVE Sound
  OBVIOUS
<1>1. /\ scene.synced \subseteq Roots /\ scene.commons = ("commons" \in scene.synced)
      /\ \A r \in Roots : scene.pin[r] \in Nat /\ (scene.pin[r] > 0 => r \in scene.synced)
  BY ScenesAssumption DEF Init
<1>2. TypeOK
  <2>1. IsJob(NoJob)
    BY DEF IsJob, NoJob, NewJob, Job, Absent
  <2>2. job = [s \in Roots |-> job[s]] /\ \A s \in Roots : IsJob(job[s])
    BY <2>1 DEF Init
  <2>3. mirror \in [Roots -> Nat \cup {Unreadable}] /\ lastRev \in [Roots -> Nat]
    BY DEF Init, Absent
  <2>4. upstream \in [Roots -> Nat \ {0}] /\ scene \in Scenes
    BY DEF Init
  <2>5. pc \in [Roots -> Idle \cup Whole \cup ByDelta]
    BY DEF Init, Idle
  <2>6. armed \in BOOLEAN
    BY DEF Init
  <2>7. QED  BY <2>2, <2>3, <2>4, <2>5, <2>6 DEF TypeOK
<1>3. MirrorSound
  BY <1>1 DEF MirrorSound, Init, Roots, ByDelta
<1>4. WalkSound /\ DeltaSound /\ IndexSound
  BY DEF WalkSound, DeltaSound, IndexSound, Init, Whole, ByDelta, Roots
<1>5. EntriesSound
  <2>1. entries = Docs("own", mirror["own"]) /\ index = entries
    BY DEF Init
  <2>2. mirror["own"] = Absent \/ (mirror["own"] = 1 /\ ~Pinned("own") /\ 1 \in 1..upstream["own"])
    BY <1>1 DEF Init, Pinned, Roots, Absent
  <2>3. ARevision(entries, "own")
    BY <2>1, <2>2, DocsOfOneRoot DEF ARevision, Absent
  <2>4. ARevision(entries, "commons")
    BY <2>1, DocsOfOneRoot DEF ARevision, Docs, Roots
  <2>5. QED  BY <2>1, <2>3, <2>4, DocsAreDocs DEF EntriesSound, Roots
<1>6. QED  BY <1>2, <1>3, <1>4, <1>5 DEF Sound

-----------------------------------------------------------------------------
(* The steps of a syncer.                                                  *)

\* What a step of one syncer has to show: the rest stands still.
LEMMA StepSound ==
    ASSUME Sound, NEW s \in Roots, pc[s] # "off",
           NEW j, IsJob(j), NEW l, NEW m \in Nat \cup {Unreadable}, NEW v \in Nat,
           job' = [job EXCEPT ![s] = j], pc' = [pc EXCEPT ![s] = l],
           mirror' = [mirror EXCEPT ![s] = m], lastRev' = [lastRev EXCEPT ![s] = v],
           UNCHANGED <<scene, upstream, armed>>,
           l \in {"tick", "checkout", "head"} \cup Whole \cup ByDelta,
           s = "commons" => l \notin ByDelta,
           l = "checkout" => j.to > 0,
           l \notin {"tick", "checkout"} => m \in Servable(s),
           Alone => /\ l \in {"loadCommons", "embedDelta", "mutate"} =>
                          j.docs = Docs("own", mirror["own"])'
                    /\ l \in {"build", "embed", "swap"} =>
                          \/ j.docs = Docs("own", mirror["own"])'
                          \/ /\ armed
                             /\ j.docs = Over(Docs("own", mirror["own"]), Docs("commons", mirror["commons"]))'
                    /\ s = "own" => DeltaSound'
                    /\ IndexSound' /\ EntriesSound'
    PROVE  Sound'
<1>0. TypeOK /\ MirrorSound
  BY DEF Sound
<1>1. /\ job' = [r \in Roots |-> job'[r]] /\ \A r \in Roots : IsJob(job'[r])
      /\ job'[s] = j /\ \A r \in Roots \ {s} : job'[r] = job[r]
  BY <1>0, JobType
<1>2. TypeOK'
  BY <1>0, <1>1 DEF TypeOK, Idle
<1>3. /\ pc'[s] = l /\ mirror'[s] = m
      /\ \A r \in Roots \ {s} : pc'[r] = pc[r] /\ mirror'[r] = mirror[r]
  BY <1>0 DEF TypeOK
<1>4. MirrorSound'
  <2>1. \A r \in Roots : Servable(r)' = Servable(r)
    BY DEF Servable, Pinned
  <2>2. s \in scene.synced /\ (s = "commons" => armed)
    BY <1>0 DEF MirrorSound
  <2>3. (armed => scene.commons)' /\ (pc["commons"] # "off" => armed)' /\ (pc["commons"] \notin ByDelta)'
    BY <1>0, <1>3, <2>2 DEF MirrorSound, Roots
  <2>4. ASSUME NEW r \in Roots
        PROVE  /\ (r \notin scene.synced => pc[r] = "off" /\ mirror[r] = 1)'
               /\ (pc[r] = "checkout" => job[r].to > 0)'
               /\ (pc[r] \notin {"off", "tick", "checkout"} => mirror[r] \in Servable(r))'
    BY <1>0, <1>1, <1>3, <2>1, <2>2 DEF MirrorSound
  <2>5. QED  BY <2>3, <2>4 DEF MirrorSound
<1>5. ASSUME Alone' PROVE WalkSound' /\ DeltaSound' /\ IndexSound' /\ EntriesSound'
  <2>1. Alone
    BY <1>5 DEF Alone
  <2>2. \A r \in Roots \ {s} : pc'[r] = "off"
    BY <1>0, <1>3, <2>1, OtherStandsStill
  <2>3. WalkSound'
    BY <1>1, <1>3, <2>1, <2>2, WalkOfOne
  <2>4. s # "own" => DeltaSound'
    BY <2>2 DEF DeltaSound, Whole, ByDelta, Roots
  <2>5. QED  BY <2>1, <2>3, <2>4
<1>6. QED  BY <1>2, <1>4, <1>5 DEF Sound

\* The entries are sound as long as no reload is swapped in.
LEMMA EntriesKept ==
    ASSUME TypeOK, EntriesSound, UNCHANGED <<scene, upstream, index, entries>>
    PROVE  EntriesSound'
BY SameRevisions DEF EntriesSound, IsDocs, TypeOK

\* A tick starts a job that has loaded nothing yet.
LEMMA TickSound == ASSUME Sound, NEW s \in Roots, Tick(s) PROVE Sound'
<1> DEFINE clones == mirror[s] \in {Absent, Unreadable}
           j == NewJob(lastRev[s], IF clones THEN upstream[s] ELSE Wanted(s), clones)
           l == IF mirror[s] = Wanted(s) THEN "head" ELSE "checkout"
           m == IF clones THEN Absent ELSE mirror[s]
<1>0. TypeOK /\ MirrorSound
  BY DEF Sound
<1>1. Wanted(s) \in Nat /\ Wanted(s) > 0 /\ upstream[s] \in Nat /\ upstream[s] > 0
  BY <1>0, ScenesAssumption DEF TypeOK, Wanted, Pinned
<1>2. /\ pc[s] = "tick" /\ job' = [job EXCEPT ![s] = j]
      /\ pc' = [pc EXCEPT ![s] = l] /\ mirror' = [mirror EXCEPT ![s] = m]
      /\ UNCHANGED <<scene, upstream, lastRev, armed, index, entries, torn>>
  BY DEF Tick, Goto, catalog
<1>3. IsJob(j) /\ j.to > 0 /\ j.prev = lastRev[s] /\ j.delta = Unknown
  BY <1>0, <1>1 DEF IsJob, Job, NewJob, TypeOK
<1>4. /\ m \in Nat \cup {Unreadable} /\ lastRev' = [lastRev EXCEPT ![s] = lastRev[s]] /\ lastRev[s] \in Nat
      /\ l = "head" => m \in Servable(s)
  BY <1>0, <1>1, <1>2 DEF TypeOK, Servable, Wanted, Absent, Unreadable
<1> HIDE DEF j, l, m
<1>5. l \in {"head", "checkout"}
  BY DEF l
<1>6. ASSUME Alone PROVE (s = "own" => DeltaSound') /\ IndexSound' /\ EntriesSound'
  <2>1. DeltaSound /\ IndexSound /\ EntriesSound
    BY <1>6 DEF Sound
  <2>2. /\ pc'[s] = l /\ job'[s] = j
        /\ \A r \in Roots \ {s} : pc'[r] = pc[r]
    BY <1>0, <1>2, <1>3, JobType DEF TypeOK
  <2>3. ASSUME s = "own" PROVE DeltaSound'
    BY <1>2, <1>3, <1>5, <2>1, <2>2, <2>3 DEF DeltaSound, Docs, Tree, Whole, ByDelta
  <2>4. IndexSound'
    BY <1>2, <1>5, <2>1, <2>2 DEF IndexSound, Idle, Roots
  <2>5. QED  BY <1>0, <1>2, <2>1, <2>3, <2>4, EntriesKept
<1>7. QED
  BY <1>2, <1>3, <1>4, <1>5, <1>6, StepSound DEF Whole, ByDelta
\* A failed sync leaves the mirror, or nothing of it.
LEMMA SyncFailsSound == ASSUME Sound, NEW s \in Roots, SyncFails(s) PROVE Sound'
<1> DEFINE m == IF job[s].cloned THEN Absent ELSE mirror[s]
<1>0. TypeOK
  BY DEF Sound
<1>1. /\ pc[s] = "checkout" /\ pc' = [pc EXCEPT ![s] = "tick"]
      /\ mirror' = [mirror EXCEPT ![s] = m]
      /\ UNCHANGED <<scene, upstream, lastRev, job, armed, index, entries, torn>>
  BY DEF SyncFails, Goto, catalog
<1>2. /\ m \in Nat \cup {Unreadable} /\ lastRev' = [lastRev EXCEPT ![s] = lastRev[s]] /\ lastRev[s] \in Nat
      /\ job' = [job EXCEPT ![s] = job[s]] /\ IsJob(job[s])
  BY <1>0, <1>1 DEF TypeOK, Absent
<1> HIDE DEF m
<1>3. ASSUME Alone PROVE (s = "own" => DeltaSound') /\ IndexSound' /\ EntriesSound'
  <2>1. DeltaSound /\ IndexSound /\ EntriesSound
    BY <1>3 DEF Sound
  <2>2. pc'[s] = "tick" /\ \A r \in Roots \ {s} : pc'[r] = pc[r]
    BY <1>0, <1>1 DEF TypeOK
  <2>3. ASSUME s = "own" PROVE DeltaSound'
    BY <1>1, <2>1, <2>2, <2>3 DEF DeltaSound, Docs, Tree, Whole, ByDelta
  <2>4. IndexSound'
    BY <1>1, <2>1, <2>2 DEF IndexSound, Idle, Roots
  <2>5. QED  BY <1>0, <1>1, <2>1, <2>3, <2>4, EntriesKept
<1>4. QED
  BY <1>1, <1>2, <1>3, StepSound DEF Whole, ByDelta

\* A checkout brings the mirror to a revision it may serve.
LEMMA CheckoutSound == ASSUME Sound, NEW s \in Roots, Checkout(s) PROVE Sound'
<1> DEFINE m == job[s].to
<1>0. TypeOK /\ MirrorSound
  BY DEF Sound
<1>1. /\ pc[s] = "checkout" /\ m <= upstream[s]
      /\ mirror' = [mirror EXCEPT ![s] = m]
      /\ UNCHANGED <<scene, upstream, lastRev, armed, index, entries, torn>>
      /\ \/ (m = Wanted(s) \/ ~Pinned(s)) /\ pc' = [pc EXCEPT ![s] = "head"] /\ UNCHANGED job
         \/ job' = [job EXCEPT ![s].to = Wanted(s)] /\ UNCHANGED pc
  BY DEF Checkout, Goto, catalog
<1>2. /\ Wanted(s) \in Nat /\ Wanted(s) > 0
      /\ m \in Nat /\ m > 0 /\ upstream[s] \in Nat
      /\ lastRev' = [lastRev EXCEPT ![s] = lastRev[s]] /\ lastRev[s] \in Nat
  BY <1>0, <1>1, ScenesAssumption DEF TypeOK, MirrorSound, IsJob, Wanted, Pinned
<1>3. PICK l, j :
        /\ job' = [job EXCEPT ![s] = j] /\ pc' = [pc EXCEPT ![s] = l] /\ IsJob(j)
        /\ j.prev = job[s].prev /\ j.delta = job[s].delta
        /\ l \in {"head", "checkout"} /\ (l = "checkout" => j.to > 0)
        /\ l = "head" => m = Wanted(s) \/ ~Pinned(s)
  <2>1. CASE pc' = [pc EXCEPT ![s] = "head"] /\ UNCHANGED job /\ (m = Wanted(s) \/ ~Pinned(s))
    <3>1. job' = [job EXCEPT ![s] = job[s]] /\ IsJob(job[s])
      BY <1>0, <2>1 DEF TypeOK
    <3>2. QED  BY <2>1, <3>1
  <2>2. CASE job' = [job EXCEPT ![s].to = Wanted(s)] /\ UNCHANGED pc
    <3> DEFINE i == job[s]
               j == Job(i.prev, Wanted(s), i.cloned, i.delta, i.docs, i.vectors, i.todo)
    <3>1. job' = [job EXCEPT ![s] = j]
      BY <1>0, <2>2, JobPuts
    <3>2. IsJob(j) /\ j.prev = i.prev /\ j.delta = i.delta /\ j.to > 0
      BY <1>0, <1>2 DEF IsJob, Job, TypeOK
    <3>3. pc' = [pc EXCEPT ![s] = "checkout"]
      BY <1>0, <1>1, <2>2 DEF TypeOK
    <3> HIDE DEF j
    <3> WITNESS "checkout", j
    <3>4. QED  BY <3>1, <3>2, <3>3
  <2>3. QED  BY <1>1, <2>1, <2>2
<1>4. l = "head" => m \in Servable(s)
  BY <1>1, <1>2, <1>3 DEF Servable, Wanted
<1>5. ASSUME Alone PROVE (s = "own" => DeltaSound') /\ IndexSound' /\ EntriesSound'
  <2>1. DeltaSound /\ IndexSound /\ EntriesSound
    BY <1>5 DEF Sound
  <2>2. pc'[s] = l /\ job'[s] = j /\ \A r \in Roots \ {s} : pc'[r] = pc[r]
    BY <1>0, <1>3 DEF TypeOK
  <2>3. ASSUME s = "own" PROVE DeltaSound'
    BY <1>1, <1>3, <2>1, <2>2, <2>3 DEF DeltaSound, Docs, Tree, Whole, ByDelta
  <2>4. IndexSound'
    BY <1>1, <1>3, <2>1, <2>2 DEF IndexSound, Idle, Roots
  <2>5. QED  BY <1>0, <1>1, <2>1, <2>3, <2>4, EntriesKept
<1> HIDE DEF m
<1>6. QED
  BY <1>1, <1>2, <1>3, <1>4, <1>5, StepSound DEF Whole, ByDelta

\* The delta is from the revision that is served to the one checked out.
LEMMA CompareSound == ASSUME Sound, NEW s \in Roots, Compare(s) PROVE Sound'
<1> DEFINE m == mirror[s]
           i == job[s]
<1>0. TypeOK /\ MirrorSound
  BY DEF Sound
<1>1. /\ pc[s] = "head" /\ lastRev' = [lastRev EXCEPT ![s] = m]
      /\ UNCHANGED <<scene, upstream, mirror, armed, index, entries, torn>>
  BY DEF Compare, catalog
<1>2. /\ m \in Servable(s) /\ m \in Nat /\ m > 0
      /\ mirror' = [mirror EXCEPT ![s] = m]
  BY <1>0, <1>1, ScenesAssumption DEF MirrorSound, Servable, Pinned, TypeOK
<1>3. PICK l, j :
        /\ job' = [job EXCEPT ![s] = j] /\ pc' = [pc EXCEPT ![s] = l] /\ IsJob(j)
        /\ j.prev = i.prev
        /\ \/ l = "tick" /\ m = lastRev[s]
           \/ /\ l = "reload"
              /\ \/ j.delta = i.delta
                 \/ j.delta = Unknown
                 \/ lastRev[s] # Absent /\ j.delta = diffPaths(s, lastRev[s], m)
  <2>1. CASE m = lastRev[s] /\ Goto(s, "tick") /\ UNCHANGED job
    <3>1. job' = [job EXCEPT ![s] = i] /\ IsJob(i)
      BY <1>0, <2>1 DEF TypeOK
    <3>2. QED  BY <2>1, <3>1 DEF Goto
  <2>2. CASE Goto(s, "reload") /\ UNCHANGED job
    <3>1. job' = [job EXCEPT ![s] = i] /\ IsJob(i)
      BY <1>0, <2>2 DEF TypeOK
    <3>2. QED  BY <2>2, <3>1 DEF Goto
  <2>3. CASE /\ Goto(s, "reload")
             /\ job' = [job EXCEPT ![s].delta = IF lastRev[s] = Absent THEN Unknown
                                                ELSE diffPaths(s, lastRev[s], m)]
    <3> DEFINE d == IF lastRev[s] = Absent THEN Unknown ELSE diffPaths(s, lastRev[s], m)
               j == Job(i.prev, i.to, i.cloned, d, i.docs, i.vectors, i.todo)
    <3> HIDE DEF d
    <3>1. job' = [job EXCEPT ![s] = j]
      BY <1>0, <2>3, JobPuts DEF d
    <3>2. IsJob(j) /\ j.prev = i.prev /\ j.delta = d
      BY <1>0 DEF IsJob, Job, TypeOK
    <3>3. d = Unknown \/ (lastRev[s] # Absent /\ d = diffPaths(s, lastRev[s], m))
      BY DEF d
    <3> HIDE DEF j
    <3>4. QED  BY <2>3, <3>1, <3>2, <3>3 DEF Goto
  <2>4. QED  BY <2>1, <2>2, <2>3 DEF Compare
<1>4. ASSUME Alone PROVE (s = "own" => DeltaSound') /\ IndexSound' /\ EntriesSound'
  <2>1. DeltaSound /\ IndexSound /\ EntriesSound
    BY <1>4 DEF Sound
  <2>2. pc'[s] = l /\ job'[s] = j /\ lastRev'[s] = m /\ \A r \in Roots \ {s} : pc'[r] = pc[r]
    BY <1>0, <1>1, <1>3 DEF TypeOK
  <2>3. ASSUME s = "own" PROVE DeltaSound'
    <3>1. /\ i.prev = lastRev["own"] /\ i.delta = Unknown
          /\ lastRev["own"] # Absent => entries = Docs("own", lastRev["own"])
      BY <1>1, <2>1, <2>3 DEF DeltaSound
    <3>2. /\ \A rev : Docs("own", rev)' = Docs("own", rev)
          /\ \A x, y : diffPaths("own", x, y)' = diffPaths("own", x, y)
      BY <1>1 DEF Docs, Tree, diffPaths
    <3>3. QED  BY <1>1, <1>3, <2>2, <2>3, <3>1, <3>2 DEF DeltaSound, Whole, ByDelta
  <2>4. IndexSound'
    BY <1>1, <1>3, <2>1, <2>2 DEF IndexSound, Idle, Roots
  <2>5. QED  BY <1>0, <1>1, <2>1, <2>3, <2>4, EntriesKept
<1> HIDE DEF m, i
<1>5. QED
  BY <1>1, <1>2, <1>3, <1>4, StepSound DEF Whole, ByDelta

-----------------------------------------------------------------------------
(* The reloads.                                                            *)

\* What all steps of a reload leave alone.
LEMMA ReloadKeeps ==
    ASSUME Sound, NEW s \in Roots, pc[s] \in Whole \cup ByDelta
    PROVE  /\ TypeOK /\ IsJob(job[s]) /\ job = [job EXCEPT ![s] = job[s]]
           /\ mirror[s] \in Nat /\ mirror[s] > 0 /\ mirror[s] \in Servable(s)
           /\ mirror = [mirror EXCEPT ![s] = mirror[s]]
           /\ lastRev[s] \in Nat /\ lastRev = [lastRev EXCEPT ![s] = lastRev[s]]
           /\ s = "commons" => pc[s] \in Whole
           /\ Alone => \A r \in Roots \ {s} : pc[r] = "off" /\ mirror[r] = 1 /\ ~Pinned(r)
           /\ Alone => (armed => s = "commons")
<1>1. TypeOK /\ MirrorSound
  BY DEF Sound
<1>2. pc[s] \notin {"off", "tick", "checkout"}
  BY DEF Whole, ByDelta
<1>3. mirror[s] \in Servable(s) /\ mirror[s] \in Nat /\ mirror[s] > 0
  BY <1>1, <1>2, ScenesAssumption DEF MirrorSound, Servable, Pinned, TypeOK
<1>4. s = "commons" => pc[s] \in Whole
  BY <1>1 DEF MirrorSound
<1>5. QED  BY <1>1, <1>2, <1>3, <1>4, OtherStandsStill DEF TypeOK

\* Whole or by delta, a reload begins before it has walked anything.
LEMMA ReloadSound == ASSUME Sound, NEW s \in Roots, Reload(s) PROVE Sound'
<1> DEFINE l == IF Incremental(s) THEN "loadDelta" ELSE "load"
<1>1. /\ pc[s] = "reload" /\ pc' = [pc EXCEPT ![s] = l]
      /\ UNCHANGED <<scene, upstream, mirror, lastRev, job, armed, index, entries, torn>>
  BY DEF Reload, Goto, catalog
<1>2. l \in {"load", "loadDelta"} /\ (l = "loadDelta" => s = "own" /\ job[s].delta # Unknown)
  BY DEF Incremental
<1>3. pc[s] \in Whole \cup ByDelta
  BY <1>1 DEF Whole
<1> HIDE DEF l
<1>4. ASSUME Alone PROVE (s = "own" => DeltaSound') /\ IndexSound' /\ EntriesSound'
  <2>1. DeltaSound /\ IndexSound /\ EntriesSound
    BY <1>4 DEF Sound
  <2>2. pc'[s] = l /\ \A r \in Roots \ {s} : pc'[r] = pc[r]
    BY <1>1, <1>3, ReloadKeeps DEF TypeOK
  <2>3. ASSUME s = "own" PROVE DeltaSound'
    <3>1. /\ \A rev : Docs("own", rev)' = Docs("own", rev)
          /\ \A x, y : diffPaths("own", x, y)' = diffPaths("own", x, y)
      BY <1>1 DEF Docs, Tree, diffPaths
    <3>2. QED  BY <1>1, <1>2, <2>1, <2>2, <2>3, <3>1 DEF DeltaSound, Whole, ByDelta
  <2>4. IndexSound'
    BY <1>1, <1>2, <2>1, <2>2 DEF IndexSound, Idle, Roots
  <2>5. QED  BY <1>1, <1>3, <2>1, <2>3, <2>4, EntriesKept, ReloadKeeps
<1>5. /\ job' = [job EXCEPT ![s] = job[s]] /\ IsJob(job[s])
      /\ mirror' = [mirror EXCEPT ![s] = mirror[s]] /\ mirror[s] \in Nat /\ mirror[s] \in Servable(s)
      /\ lastRev' = [lastRev EXCEPT ![s] = lastRev[s]] /\ lastRev[s] \in Nat
  BY <1>1, <1>3, ReloadKeeps
<1>6. /\ pc[s] # "off" /\ l \in Whole \cup ByDelta /\ (s = "commons" => l \notin ByDelta)
      /\ l \notin {"checkout", "loadCommons", "embedDelta", "mutate", "build", "embed", "swap"}
  BY <1>1, <1>2 DEF Whole, ByDelta
<1>7. pc' = [pc EXCEPT ![s] = l] /\ UNCHANGED <<scene, upstream, armed>>
  BY <1>1
<1>8. QED
  BY <1>4, <1>5, <1>6, <1>7, StepSound

\* A failed reload leaves the catalogue it found, and the revision it is of.
LEMMA FailSound ==
    ASSUME Sound, NEW s \in Roots, pc[s] \in {"load", "loadDelta", "build"}, Fail(s)
    PROVE  Sound'
<1> DEFINE v == job[s].prev
<1>1. /\ lastRev' = [lastRev EXCEPT ![s] = v] /\ pc' = [pc EXCEPT ![s] = "tick"]
      /\ torn' = (torn \/ index # entries)
      /\ UNCHANGED <<scene, upstream, mirror, job, armed, index, entries>>
  BY DEF Fail, RolledBack, Goto
<1>2. pc[s] \in Whole \cup ByDelta
  BY DEF Whole, ByDelta
<1>3. v \in Nat
  BY <1>2, ReloadKeeps DEF IsJob
<1>4. ASSUME Alone PROVE (s = "own" => DeltaSound') /\ IndexSound' /\ EntriesSound'
  <2>1. DeltaSound /\ IndexSound /\ EntriesSound
    BY <1>4 DEF Sound
  <2>2. /\ pc'[s] = "tick" /\ lastRev'[s] = v
        /\ \A r \in Roots \ {s} : pc'[r] = "off"
    BY <1>1, <1>2, <1>4, ReloadKeeps DEF TypeOK
  <2>3. ASSUME s = "own" PROVE DeltaSound'
    <3>1. \A rev : Docs("own", rev)' = Docs("own", rev)
      BY <1>1 DEF Docs, Tree
    <3>2. v # Absent => entries = Docs("own", v)
      BY <1>2, <2>1, <2>3 DEF DeltaSound
    <3>3. QED  BY <1>1, <2>2, <2>3, <3>1, <3>2 DEF DeltaSound, Whole, ByDelta
  <2>4. IndexSound'
    BY <1>1, <2>2 DEF IndexSound, Roots
  <2>5. QED  BY <1>1, <1>2, <2>1, <2>3, <2>4, EntriesKept, ReloadKeeps
<1> HIDE DEF v
<1>5. /\ job' = [job EXCEPT ![s] = job[s]] /\ IsJob(job[s])
      /\ mirror' = [mirror EXCEPT ![s] = mirror[s]] /\ mirror[s] \in Nat
  BY <1>1, <1>2, ReloadKeeps
<1>6. "tick" \notin Whole \cup ByDelta /\ pc[s] # "off"
  BY DEF Whole, ByDelta
<1>7. QED
  BY <1>1, <1>3, <1>4, <1>5, <1>6, StepSound

\* A step that changes the syncer's own job and place only, and does not bring
\* it to a place where the index is of a revision from one where it is not.
LEMMA WithinSound ==
    ASSUME Sound, NEW s \in Roots, pc[s] \in Whole \cup ByDelta,
           NEW j, IsJob(j), NEW l \in Whole \cup ByDelta,
           job' = [job EXCEPT ![s] = j], pc' = [pc EXCEPT ![s] = l],
           UNCHANGED <<scene, upstream, armed, index, entries, torn>>,
           mirror' = [mirror EXCEPT ![s] = mirror[s]], lastRev' = [lastRev EXCEPT ![s] = lastRev[s]],
           j.prev = job[s].prev, j.delta = job[s].delta,
           s = "commons" => l \notin ByDelta,
           \/ pc[s] \notin ByDelta /\ l \in {"loadCommons", "build", "embed", "swap"}
           \/ pc[s] = "loadDelta" /\ l = "embedDelta"
           \/ pc[s] = "embedDelta" /\ l = "mutate" /\ j.todo = j.delta
           \/ l = "load",
           Alone => /\ l \in {"loadCommons", "embedDelta", "mutate"} =>
                          j.docs = Docs("own", mirror["own"])
                    /\ l \in {"build", "embed", "swap"} =>
                          \/ j.docs = Docs("own", mirror["own"])
                          \/ /\ armed
                             /\ j.docs = Over(Docs("own", mirror["own"]), Docs("commons", mirror["commons"]))
    PROVE  Sound'
<1>0. UNCHANGED <<mirror, lastRev>>
  BY ReloadKeeps
<1>1. /\ \A root \in Roots : \A rev : Docs(root, rev)' = Docs(root, rev)
      /\ \A x, y : diffPaths("own", x, y)' = diffPaths("own", x, y)
  BY DEF Docs, Tree, diffPaths
<1>2. ASSUME Alone PROVE (s = "own" => DeltaSound') /\ IndexSound' /\ EntriesSound'
  <2>1. DeltaSound /\ IndexSound /\ EntriesSound
    BY <1>2 DEF Sound
  <2>2. /\ pc'[s] = l /\ job'[s] = j
        /\ \A r \in Roots \ {s} : pc'[r] = "off"
        /\ \A r \in Roots \ {s} : pc[r] = "off"
    BY <1>2, ReloadKeeps DEF TypeOK
  <2>3. ASSUME s = "own" PROVE DeltaSound'
    BY <1>0, <1>1, <2>1, <2>2, <2>3 DEF DeltaSound, Whole, ByDelta
  <2>4. IndexSound'
    <3>1. CASE s = "own" /\ l = "mutate"
      <4>1. pc["own"] = "embedDelta"
        BY <3>1 DEF ByDelta
      <4>2. ~torn => index = entries
        BY <2>1, <4>1 DEF IndexSound
      <4>3. /\ entries = Docs("own", job["own"].prev) /\ job["own"].prev # Absent
            /\ j.todo = diffPaths("own", job["own"].prev, mirror["own"])
        BY <2>1, <3>1, <4>1 DEF DeltaSound, ByDelta
      <4>4. j.docs = Docs("own", mirror["own"]) /\ mirror["own"] # Absent
        BY <1>2, <3>1, ReloadKeeps DEF Absent
      <4>5. Agree(entries, j.docs, j.todo)
        BY <4>3, <4>4, DiffIsEnough
      <4>6. QED  BY <2>2, <3>1, <4>2, <4>5 DEF IndexSound, Idle, Agree
    <3>2. CASE s = "own" /\ l # "mutate"
      BY <2>1, <2>2, <3>2 DEF IndexSound, Idle, ByDelta, Whole
    <3>3. CASE s # "own"
      BY <2>1, <2>2, <3>3 DEF IndexSound, Idle, Roots
    <3>4. QED  BY <3>1, <3>2, <3>3
  <2>5. QED  BY <2>1, <2>3, <2>4, EntriesKept, ReloadKeeps
<1>3. l = "checkout" => j.to > 0
  BY DEF Whole, ByDelta
<1>4. pc[s] # "off"
  BY DEF Whole, ByDelta
<1>5. mirror[s] \in Nat /\ mirror[s] \in Servable(s) /\ lastRev[s] \in Nat
  BY ReloadKeeps
<1>6. /\ Docs("own", mirror["own"])' = Docs("own", mirror["own"])
      /\ Docs("commons", mirror["commons"])' = Docs("commons", mirror["commons"])
      /\ Over(Docs("own", mirror["own"]), Docs("commons", mirror["commons"]))'
            = Over(Docs("own", mirror["own"]), Docs("commons", mirror["commons"]))
  BY <1>0, <1>1 DEF Roots, Over
<1>7. /\ l \in {"loadCommons", "embedDelta", "mutate"} /\ Alone =>
            j.docs = Docs("own", mirror["own"])'
      /\ l \in {"build", "embed", "swap"} /\ Alone =>
            \/ j.docs = Docs("own", mirror["own"])'
            \/ /\ armed
               /\ j.docs = Over(Docs("own", mirror["own"]), Docs("commons", mirror["commons"]))'
  BY <1>6
<1>8. QED
  BY <1>2, <1>3, <1>4, <1>5, <1>7, StepSound

\* Outside a checkout a walk finds the revision of the mirror.
LEMMA WalkFinds ==
    ASSUME NEW root, pc[root] # "checkout", NEW tree \in Seen(root)
    PROVE  Load(root, tree) = Docs(root, mirror[root])
BY DEF Seen, Docs, Absent

\* The walk of the operator's own root finds its mirror's revision.
LEMMA LoadOwnSound == ASSUME Sound, NEW s \in Roots, LoadOwn(s) PROVE Sound'
<1> DEFINE i == job[s]
<1>1. pc[s] \in {"load", "loadDelta"}
  BY DEF LoadOwn
<1>2. pc[s] \in Whole \cup ByDelta
  BY <1>1 DEF Whole, ByDelta
<1>3. CASE Fail(s)
  BY <1>1, <1>3, FailSound
<1>4. ASSUME NEW tree \in Seen("own"), Got(s, Load("own", tree)),
             Goto(s, IF pc[s] = "load" THEN "loadCommons" ELSE "embedDelta"),
             UNCHANGED <<scene, upstream, mirror, lastRev, armed, spent, catalog>>
      PROVE  Sound'
  <2> DEFINE docs == Load("own", tree)
             j == Job(i.prev, i.to, i.cloned, i.delta, docs, i.vectors, i.todo)
             l == IF pc[s] = "load" THEN "loadCommons" ELSE "embedDelta"
  <2>1. /\ job' = [job EXCEPT ![s] = j] /\ pc' = [pc EXCEPT ![s] = l]
        /\ UNCHANGED <<scene, upstream, armed, index, entries, torn>>
        /\ mirror' = [mirror EXCEPT ![s] = mirror[s]] /\ lastRev' = [lastRev EXCEPT ![s] = lastRev[s]]
    BY <1>2, <1>4, JobPuts, ReloadKeeps DEF Got, Goto, catalog
  <2>2. IsJob(j) /\ j.prev = i.prev /\ j.delta = i.delta /\ j.docs = docs
    BY <1>2, ReloadKeeps DEF IsJob, Job
  <2>3. ASSUME Alone PROVE docs = Docs("own", mirror["own"])
    <3>1. pc["own"] # "checkout"
      BY <1>1, <1>2, <2>3, ReloadKeeps DEF Roots
    <3>2. QED  BY <1>4, <3>1, WalkFinds
  <2>4. /\ \/ pc[s] = "load" /\ l = "loadCommons"
           \/ pc[s] = "loadDelta" /\ l = "embedDelta"
        /\ s = "commons" => l \notin ByDelta
        /\ l \in Whole \cup ByDelta
    <3>1. s = "commons" => pc[s] \in Whole
      BY <1>2, ReloadKeeps
    <3>2. QED  BY <1>1, <3>1 DEF Whole, ByDelta
  <2>5. pc[s] = "load" => pc[s] \notin ByDelta
    BY DEF ByDelta
  <2> HIDE DEF docs, j, l
  <2>6. QED  BY <1>2, <2>1, <2>2, <2>3, <2>4, <2>5, WithinSound
<1>5. QED  BY <1>3, <1>4 DEF LoadOwn

\* The walk of the commons finds theirs, or goes on without it.
LEMMA LoadCommonsSound == ASSUME Sound, NEW s \in Roots, LoadCommons(s) PROVE Sound'
<1> DEFINE i == job[s]
<1>1. /\ pc[s] = "loadCommons" /\ pc' = [pc EXCEPT ![s] = "build"]
      /\ UNCHANGED <<scene, upstream, mirror, lastRev, armed, index, entries, torn>>
      /\ \/ UNCHANGED job
         \/ armed /\ \E tree \in Seen("commons") : Got(s, Over(i.docs, Load("commons", tree)))
  BY DEF LoadCommons, Goto, catalog
<1>2. pc[s] \in Whole \cup ByDelta
  BY <1>1 DEF Whole
<1>3. Alone => i.docs = Docs("own", mirror["own"])
  BY <1>1 DEF Sound, WalkSound
<1>4. PICK j :
        /\ job' = [job EXCEPT ![s] = j] /\ IsJob(j) /\ j.prev = i.prev /\ j.delta = i.delta
        /\ \/ j.docs = i.docs
           \/ armed /\ \E tree \in Seen("commons") : j.docs = Over(i.docs, Load("commons", tree))
  <2>1. CASE UNCHANGED job
    BY <1>2, <2>1, ReloadKeeps
  <2>2. ASSUME armed, NEW tree \in Seen("commons"), Got(s, Over(i.docs, Load("commons", tree)))
        PROVE  \E j :
                 /\ job' = [job EXCEPT ![s] = j] /\ IsJob(j) /\ j.prev = i.prev /\ j.delta = i.delta
                 /\ \/ j.docs = i.docs
                    \/ armed /\ \E t \in Seen("commons") : j.docs = Over(i.docs, Load("commons", t))
    <3> DEFINE docs == Over(i.docs, Load("commons", tree))
               j == Job(i.prev, i.to, i.cloned, i.delta, docs, i.vectors, i.todo)
    <3>1. job' = [job EXCEPT ![s] = j]
      BY <1>2, <2>2, JobPuts, ReloadKeeps DEF Got
    <3>2. IsJob(j) /\ j.prev = i.prev /\ j.delta = i.delta /\ j.docs = docs
      BY <1>2, ReloadKeeps DEF IsJob, Job
    <3> HIDE DEF j
    <3>3. QED  BY <2>2, <3>1, <3>2
  <2>3. QED  BY <1>1, <2>1, <2>2
<1>5. ASSUME Alone
      PROVE  \/ j.docs = Docs("own", mirror["own"])
             \/ /\ armed
                /\ j.docs = Over(Docs("own", mirror["own"]), Docs("commons", mirror["commons"]))
  <2>1. CASE j.docs = i.docs
    BY <1>3, <1>5, <2>1
  <2>2. ASSUME armed, NEW tree \in Seen("commons"), j.docs = Over(i.docs, Load("commons", tree))
        PROVE  j.docs = Over(Docs("own", mirror["own"]), Docs("commons", mirror["commons"]))
    <3>1. s = "commons"
      BY <1>2, <1>5, <2>2, ReloadKeeps
    <3>2. Load("commons", tree) = Docs("commons", mirror["commons"])
      BY <1>1, <2>2, <3>1, WalkFinds
    <3>3. QED  BY <1>3, <1>5, <2>2, <3>2
  <2>3. QED  BY <1>4, <2>1, <2>2
<1>6. /\ mirror' = [mirror EXCEPT ![s] = mirror[s]] /\ lastRev' = [lastRev EXCEPT ![s] = lastRev[s]]
      /\ UNCHANGED <<scene, upstream, armed, index, entries, torn>>
  BY <1>1, <1>2, ReloadKeeps
<1>7. /\ "loadCommons" \notin ByDelta /\ "build" \notin ByDelta /\ "build" \in Whole
      /\ pc[s] = "loadCommons" /\ pc' = [pc EXCEPT ![s] = "build"]
  BY <1>1 DEF Whole, ByDelta
<1>8. QED  BY <1>2, <1>4, <1>5, <1>6, <1>7, WithinSound

\* A failed build keeps what is served.
LEMMA BuildSound == ASSUME Sound, NEW s \in Roots, Build(s) PROVE Sound'
<1>1. pc[s] = "build" /\ pc[s] \in Whole \cup ByDelta
  BY DEF Build, Whole
<1>2. CASE Fail(s)
  BY <1>1, <1>2, FailSound
<1>3. CASE Goto(s, "embed") /\ UNCHANGED <<scene, upstream, mirror, lastRev, job, armed, spent, catalog>>
  <2>1. /\ job' = [job EXCEPT ![s] = job[s]] /\ IsJob(job[s]) /\ pc' = [pc EXCEPT ![s] = "embed"]
        /\ mirror' = [mirror EXCEPT ![s] = mirror[s]] /\ lastRev' = [lastRev EXCEPT ![s] = lastRev[s]]
        /\ UNCHANGED <<scene, upstream, armed, index, entries, torn>>
    BY <1>1, <1>3, ReloadKeeps DEF Goto, catalog
  <2>2. Alone => \/ job[s].docs = Docs("own", mirror["own"])
                 \/ /\ armed
                    /\ job[s].docs = Over(Docs("own", mirror["own"]), Docs("commons", mirror["commons"]))
    BY <1>1 DEF Sound, WalkSound
  <2>3. "build" \notin ByDelta /\ "embed" \notin ByDelta /\ "embed" \in Whole
    BY DEF Whole, ByDelta
  <2>4. QED  BY <1>1, <2>1, <2>2, <2>3, WithinSound
<1>4. QED  BY <1>2, <1>3 DEF Build

\* The vectors change no document; the delta is now to be done.
LEMMA EmbedSound == ASSUME Sound, NEW s \in Roots, Embed(s) PROVE Sound'
<1> DEFINE i == job[s]
           l == IF pc[s] = "embed" THEN "swap" ELSE "mutate"
<1>1. /\ pc[s] \in {"embed", "embedDelta"} /\ pc' = [pc EXCEPT ![s] = l]
      /\ UNCHANGED <<scene, upstream, mirror, lastRev, armed, index, entries, torn>>
  BY DEF Embed, Goto, catalog
<1>2. pc[s] \in Whole \cup ByDelta
  BY <1>1 DEF Whole, ByDelta
<1>3. PICK w \in BOOLEAN : job' = [job EXCEPT ![s].vectors = w, ![s].todo = i.delta]
  <2>1. \/ job' = [job EXCEPT ![s].vectors = TRUE, ![s].todo = i.delta]
        \/ job' = [job EXCEPT ![s].vectors = FALSE, ![s].todo = i.delta]
    BY DEF Embed
  <2>2. QED  BY <2>1
<1> DEFINE j == Job(i.prev, i.to, i.cloned, i.delta, i.docs, w, i.delta)
<1>4. job' = [job EXCEPT ![s] = j]
  <2>1. PICK p, t, c, d, o, x, y : i = Job(p, t, c, d, o, x, y)
    BY <1>2, ReloadKeeps DEF IsJob
  <2>2. i.prev = p /\ i.to = t /\ i.cloned = c /\ i.delta = d /\ i.docs = o
    BY <2>1 DEF Job
  <2>3. [[i EXCEPT !.vectors = w] EXCEPT !.todo = i.delta] = j
    <3> HIDE DEF i
    <3>1. [i EXCEPT !.vectors = w] = Job(p, t, c, d, o, w, y)
      BY <2>1 DEF Job
    <3>2. [Job(p, t, c, d, o, w, y) EXCEPT !.todo = d] = Job(p, t, c, d, o, w, d)
      BY DEF Job
    <3>3. QED  BY <2>2, <3>1, <3>2
  <2>4. QED
    <3> HIDE DEF Job
    <3> QED  BY <1>2, <1>3, <2>3, ReloadKeeps DEF TypeOK
<1>5. IsJob(j) /\ j.prev = i.prev /\ j.delta = i.delta /\ j.docs = i.docs /\ j.todo = j.delta
  BY <1>2, ReloadKeeps DEF IsJob, Job
<1>6. Alone => /\ pc[s] = "embedDelta" => i.docs = Docs("own", mirror["own"])
               /\ pc[s] = "embed" =>
                    \/ i.docs = Docs("own", mirror["own"])
                    \/ /\ armed
                       /\ i.docs = Over(Docs("own", mirror["own"]), Docs("commons", mirror["commons"]))
  BY DEF Sound, WalkSound
<1>7. /\ \/ pc[s] = "embed" /\ pc[s] \notin ByDelta /\ l = "swap"
         \/ pc[s] = "embedDelta" /\ l = "mutate"
      /\ l \in Whole \cup ByDelta /\ (s = "commons" => l \notin ByDelta)
  BY <1>1, <1>2, ReloadKeeps DEF Whole, ByDelta
<1>8. /\ mirror' = [mirror EXCEPT ![s] = mirror[s]] /\ lastRev' = [lastRev EXCEPT ![s] = lastRev[s]]
      /\ UNCHANGED <<scene, upstream, armed, index, entries, torn>> /\ pc' = [pc EXCEPT ![s] = l]
  BY <1>1, <1>2, ReloadKeeps
<1> HIDE DEF i, j, l
<1>9. QED  BY <1>2, <1>4, <1>5, <1>6, <1>7, <1>8, WithinSound DEF i

\* What a reload has walked is a set of documents, one revision of each root.
LEMMA WalkIsServable ==
    ASSUME Sound, Alone, NEW s \in Roots, pc[s] \in Whole \cup ByDelta, NEW docs,
           \/ docs = Docs("own", mirror["own"])
           \/ /\ armed
              /\ docs = Over(Docs("own", mirror["own"]), Docs("commons", mirror["commons"]))
    PROVE  IsDocs(docs) /\ \A root \in Roots : ARevision(docs, root)
<1>1. \A r \in Roots : mirror[r] \in Servable(r)
  <2>1. \A r \in Roots \ {s} : mirror[r] = 1 /\ ~Pinned(r) /\ upstream[r] \in Nat \ {0}
    BY ReloadKeeps DEF TypeOK
  <2>2. \A r \in Roots \ {s} : mirror[r] \in Servable(r)
    BY <2>1 DEF Servable
  <2>3. mirror[s] \in Servable(s)
    BY ReloadKeeps
  <2>4. QED  BY <2>2, <2>3
<1>2. CASE docs = Docs("own", mirror["own"])
  <2>1. Part(docs, "own") = Docs("own", mirror["own"]) /\ Part(docs, "commons") = Docs("commons", Absent)
    BY <1>2, DocsOfOneRoot DEF Roots, Docs
  <2>2. QED  BY <1>1, <1>2, <2>1, DocsAreDocs DEF ARevision, Servable, Roots
<1>3. CASE docs = Over(Docs("own", mirror["own"]), Docs("commons", mirror["commons"]))
  <2>1. /\ IsDocs(docs) /\ Part(docs, "own") = Docs("own", mirror["own"])
        /\ Part(docs, "commons") = Docs("commons", mirror["commons"])
    BY <1>3, DocsOfBothRoots
  <2>2. QED  BY <1>1, <2>1 DEF ARevision, Servable, Roots
<1>4. QED  BY <1>2, <1>3

\* One more document of the delta is in the index, or indexing it fails.
LEMMA MutateSound == ASSUME Sound, NEW s \in Roots, Mutate(s) PROVE Sound'
<1> DEFINE i == job[s]
<1>1. /\ pc[s] = "mutate" /\ pc[s] \in Whole \cup ByDelta
      /\ UNCHANGED <<scene, upstream, mirror, lastRev, armed, entries, torn>>
  BY DEF Mutate, ByDelta
<1>2. s = "own"
  BY <1>1, ReloadKeeps DEF Whole, Roots
<1>3. /\ mirror' = [mirror EXCEPT ![s] = mirror[s]] /\ lastRev' = [lastRev EXCEPT ![s] = lastRev[s]]
      /\ UNCHANGED <<scene, upstream, armed>>
  BY <1>1, ReloadKeeps
<1>4. CASE Goto(s, "load") /\ UNCHANGED <<job, index>>
  <2>1. /\ job' = [job EXCEPT ![s] = i] /\ IsJob(i) /\ pc' = [pc EXCEPT ![s] = "load"]
        /\ UNCHANGED <<scene, upstream, armed, index, entries, torn>>
    BY <1>1, <1>4, ReloadKeeps DEF Goto
  <2>2. "load" \in Whole \cup ByDelta /\ "load" \notin ByDelta
    BY DEF Whole, ByDelta
  <2>3. QED  BY <1>1, <1>3, <2>1, <2>2, WithinSound
<1>5. ASSUME NEW k \in i.todo, index' = Reindexed(i.docs, k),
             job' = [job EXCEPT ![s].todo = @ \ {k}], UNCHANGED <<pc, spent>>
      PROVE  Sound'
  <2> DEFINE j == Job(i.prev, i.to, i.cloned, i.delta, i.docs, i.vectors, i.todo \ {k})
  <2>1. job' = [job EXCEPT ![s] = j] /\ pc' = [pc EXCEPT ![s] = "mutate"]
    <3>1. TypeOK
      BY DEF Sound
    <3>2. job' = [job EXCEPT ![s].todo = i.todo \ {k}]
      BY <1>5
    <3>3. job' = [job EXCEPT ![s] = j]
      BY <3>1, <3>2, JobPuts
    <3>4. pc' = [pc EXCEPT ![s] = "mutate"]
      BY <1>1, <1>5, <3>1 DEF TypeOK
    <3>5. QED  BY <3>3, <3>4
  <2>2. IsJob(j) /\ j.prev = i.prev /\ j.delta = i.delta /\ j.docs = i.docs /\ j.todo = i.todo \ {k}
    BY <1>1, ReloadKeeps DEF IsJob, Job
  <2> HIDE DEF j
  <2>3. ASSUME Alone
        PROVE  j.docs = Docs("own", mirror["own"])' /\ DeltaSound' /\ IndexSound' /\ EntriesSound'
    <3>1. WalkSound /\ DeltaSound /\ IndexSound /\ EntriesSound
      BY <2>3 DEF Sound
    <3>2. job'[s] = j /\ pc'[s] = "mutate"
      BY <1>1, <2>1, ReloadKeeps DEF TypeOK
    <3>3. /\ \A root \in Roots : \A rev : Docs(root, rev)' = Docs(root, rev)
          /\ i.docs = Docs("own", mirror["own"])
      BY <1>1, <3>1 DEF Docs, Tree, WalkSound
    <3>4. DeltaSound'
      BY <1>1, <1>2, <2>2, <3>1, <3>2, <3>3 DEF DeltaSound, Whole, ByDelta, Roots
    <3>5. IsDocs(index')
      BY <1>5, ReindexedIsDocs
    <3>6. IndexSound'
      <4>1. ~torn => Agree(index, i.docs, i.todo)
        BY <1>1, <1>2, <3>1 DEF IndexSound
      <4>2. ~torn => Agree(index', i.docs, i.todo \ {k})
        BY <1>5, <4>1, ReindexingAgrees
      <4>3. QED  BY <1>1, <1>2, <2>2, <3>2, <4>2 DEF IndexSound, Idle, Agree
    <3>7. EntriesSound'
      BY <1>1, <3>1, <3>5, SameRevisions, ReloadKeeps DEF EntriesSound, IsDocs, TypeOK
    <3>8. QED  BY <1>1, <1>2, <2>2, <3>3, <3>4, <3>6, <3>7
  <2>4. /\ mirror[s] \in Nat /\ mirror[s] \in Servable(s) /\ lastRev[s] \in Nat /\ pc[s] # "off"
        /\ "mutate" \in Whole \cup ByDelta
    BY <1>1, ReloadKeeps DEF ByDelta
  <2>5. QED  BY <1>2, <1>3, <2>1, <2>2, <2>3, <2>4, StepSound
<1>6. QED  BY <1>4, <1>5 DEF Mutate

\* What a swap makes the catalogue is what was walked.
LEMMA SwapsSound ==
    ASSUME Sound, NEW s \in Roots, pc[s] \in {"swap", "mutate"},
           UNCHANGED <<scene, upstream, armed>>,
           mirror' = [mirror EXCEPT ![s] = mirror[s]], lastRev' = [lastRev EXCEPT ![s] = lastRev[s]],
           job' = [job EXCEPT ![s] = job[s]], pc' = [pc EXCEPT ![s] = "tick"],
           entries' = job[s].docs,
           \/ pc[s] = "swap" /\ index' = job[s].docs
           \/ pc[s] = "mutate" /\ job[s].todo = {} /\ index' = index /\ torn' = torn
    PROVE  Sound'
<1> DEFINE i == job[s]
<1>1. pc[s] \in Whole \cup ByDelta
  BY DEF Whole, ByDelta
<1>2. UNCHANGED <<mirror, lastRev>>
  BY <1>1, ReloadKeeps
<1>3. ASSUME Alone PROVE (s = "own" => DeltaSound') /\ IndexSound' /\ EntriesSound'
  <2>1. WalkSound /\ DeltaSound /\ IndexSound /\ EntriesSound
    BY <1>3 DEF Sound
  <2>2. pc'[s] = "tick" /\ \A r \in Roots \ {s} : pc'[r] = "off"
    BY <1>1, <1>3, ReloadKeeps DEF TypeOK
  <2>3. \/ i.docs = Docs("own", mirror["own"])
        \/ armed /\ i.docs = Over(Docs("own", mirror["own"]), Docs("commons", mirror["commons"]))
    BY <2>1 DEF WalkSound
  <2>4. IsDocs(i.docs) /\ \A root \in Roots : ARevision(i.docs, root)
    BY <1>1, <1>3, <2>3, WalkIsServable
  <2>5. ASSUME s = "own" PROVE DeltaSound'
    <3>1. i.docs = Docs("own", mirror["own"])
      BY <1>1, <1>3, <2>3, <2>5, ReloadKeeps
    <3>2. lastRev["own"] = mirror["own"]
      BY <1>1, <2>1, <2>5 DEF DeltaSound
    <3>3. \A rev : Docs("own", rev)' = Docs("own", rev)
      BY DEF Docs, Tree
    <3>4. QED  BY <1>2, <2>2, <2>5, <3>1, <3>2, <3>3 DEF DeltaSound, Whole, ByDelta
  <2>6. ~torn' => index' = entries'
    <3>1. CASE pc[s] = "mutate" /\ i.todo = {} /\ index' = index /\ torn' = torn
      <4>1. s = "own"
        BY <1>1, <3>1, ReloadKeeps DEF Whole, Roots
      <4>2. ~torn => Agree(index, i.docs, {})
        BY <2>1, <3>1, <4>1 DEF IndexSound
      <4>3. QED  BY <2>1, <2>4, <3>1, <4>2, AgreeingIsEqual DEF EntriesSound
    <3>2. QED  BY <3>1
  <2>7. IndexSound'
    BY <2>2, <2>6 DEF IndexSound, Roots
  <2>8. EntriesSound'
    <3>1. IsDocs(index')
      BY <2>1, <2>4 DEF EntriesSound
    <3>2. \A root \in Roots : ARevision(i.docs, root)'
      <4>1. \A f : \A root \in Roots : ARevision(f, root) => ARevision(f, root)'
        BY <1>1, SameRevisions, ReloadKeeps DEF TypeOK
      <4>2. QED  BY <2>4, <4>1 DEF ARevision
    <3>3. QED  BY <2>4, <3>1, <3>2 DEF EntriesSound, IsDocs, ARevision
  <2>9. QED  BY <2>5, <2>7, <2>8
<1>4. /\ mirror[s] \in Nat /\ lastRev[s] \in Nat /\ pc[s] # "off" /\ IsJob(job[s])
      /\ "tick" \notin ByDelta
  BY <1>1, ReloadKeeps DEF ByDelta
<1>5. QED  BY <1>3, <1>4, StepSound

\* What a reload loaded is what is served from then on.
LEMMA SwapSound == ASSUME Sound, NEW s \in Roots, Swap(s) \/ SwapDelta(s) PROVE Sound'
<1>1. pc[s] \in {"swap", "mutate"} /\ pc[s] \in Whole \cup ByDelta
  BY DEF Swap, SwapDelta, Whole, ByDelta
<1>2. /\ job' = [job EXCEPT ![s] = job[s]] /\ pc' = [pc EXCEPT ![s] = "tick"]
      /\ mirror' = [mirror EXCEPT ![s] = mirror[s]] /\ lastRev' = [lastRev EXCEPT ![s] = lastRev[s]]
      /\ UNCHANGED <<scene, upstream, armed>> /\ entries' = job[s].docs
      /\ \/ pc[s] = "swap" /\ index' = job[s].docs
         \/ pc[s] = "mutate" /\ job[s].todo = {} /\ index' = index /\ torn' = torn
  BY <1>1, ReloadKeeps DEF Swap, SwapDelta, Goto
<1>3. QED  BY <1>1, <1>2, SwapsSound

-----------------------------------------------------------------------------
(* Upstream, the start and the crash.                                      *)

\* A push makes one more revision servable.
LEMMA PushSound == ASSUME Sound, NEW r \in Roots, Push(r) PROVE Sound'
<1>0. TypeOK /\ MirrorSound
  BY DEF Sound
<1>1. /\ upstream' = [upstream EXCEPT ![r] = @ + 1]
      /\ UNCHANGED <<scene, mirror, lastRev, pc, job, armed, index, entries, torn>>
  BY DEF Push, catalog
<1>2. upstream' \in [Roots -> Nat \ {0}] /\ \A q \in Roots : upstream'[q] >= upstream[q]
  BY <1>0, <1>1 DEF TypeOK
<1>3. /\ Alone' = Alone /\ \A q \in Roots : Servable(q) \subseteq Servable(q)'
      /\ \A root \in Roots : \A rev : Docs(root, rev)' = Docs(root, rev)
      /\ \A f : \A root \in Roots : ARevision(f, root) => ARevision(f, root)'
      /\ \A root, x, y : diffPaths(root, x, y)' = diffPaths(root, x, y)
  <2>1. upstream' \in [Roots -> Nat]
    BY <1>2
  <2>2. QED  BY <1>0, <1>1, <1>2, <2>1, SameRevisions
<1>4. TypeOK'
  BY <1>0, <1>1, <1>2 DEF TypeOK, IsJob
<1>5. MirrorSound'
  BY <1>0, <1>1, <1>3 DEF MirrorSound
<1>6. ASSUME Alone PROVE WalkSound' /\ DeltaSound' /\ IndexSound' /\ EntriesSound'
  <2>1. WalkSound /\ DeltaSound /\ IndexSound /\ EntriesSound
    BY <1>6 DEF Sound
  <2>2. WalkSound'
    BY <1>1, <1>3, <2>1 DEF WalkSound, Over, Roots
  <2>3. DeltaSound'
    BY <1>1, <1>3, <2>1 DEF DeltaSound, Roots
  <2>4. IndexSound'
    BY <1>1, <2>1 DEF IndexSound, Agree
  <2>5. EntriesSound'
    <3>1. \A root \in Roots : ARevision(entries, root)'
      <4>1. \A root \in Roots : ARevision(entries, root)
        BY <2>1 DEF EntriesSound
      <4>2. QED  BY <1>1, <1>3, <4>1 DEF ARevision
    <3>2. QED  BY <1>1, <2>1, <3>1 DEF EntriesSound, IsDocs
  <2>6. QED  BY <2>2, <2>3, <2>4, <2>5
<1>7. QED  BY <1>3, <1>4, <1>5, <1>6 DEF Sound

\* The commons' syncer starts with the root set.
LEMMA ArmSound == ASSUME Sound, armCommons PROVE Sound'
<1>0. TypeOK /\ MirrorSound
  BY DEF Sound
<1>1. /\ scene.commons /\ armed' = TRUE /\ pc' = [pc EXCEPT !["commons"] = "tick"]
      /\ pc["commons"] = "off"
      /\ UNCHANGED <<scene, upstream, mirror, lastRev, job, index, entries, torn>>
  BY <1>0 DEF armCommons, Goto, catalog, MirrorSound
<1>2. "commons" \in scene.synced /\ scene.synced \subseteq Roots
  BY <1>0, <1>1, ScenesAssumption DEF TypeOK
<1>3. pc'["commons"] = "tick" /\ pc'["own"] = pc["own"]
  BY <1>0, <1>1 DEF TypeOK, Roots
<1>4. TypeOK'
  BY <1>0, <1>1 DEF TypeOK, Idle, IsJob, Roots
<1>5. MirrorSound'
  <2>1. \A r \in Roots : Servable(r)' = Servable(r)
    BY <1>1 DEF Servable, Pinned
  <2>2. QED  BY <1>0, <1>1, <1>2, <1>3, <2>1 DEF MirrorSound, Roots, ByDelta
<1>6. ASSUME Alone PROVE WalkSound' /\ DeltaSound' /\ IndexSound' /\ EntriesSound'
  <2>1. WalkSound /\ DeltaSound /\ IndexSound /\ EntriesSound
    BY <1>6 DEF Sound
  <2>2. pc["own"] = "off"
    BY <1>0, <1>2, <1>6 DEF Alone, MirrorSound, Roots
  <2>3. WalkSound' /\ DeltaSound'
    BY <1>3, <2>2 DEF WalkSound, DeltaSound, Roots, Whole, ByDelta
  <2>4. IndexSound'
    BY <1>1, <1>3, <2>1, <2>2 DEF IndexSound, Idle
  <2>5. QED  BY <1>0, <1>1, <2>1, <2>3, <2>4, EntriesKept
<1>7. QED  BY <1>1, <1>4, <1>5, <1>6 DEF Sound, Alone

\* A process that starts again starts with what its directories hold.
LEMMA CrashSound == ASSUME Sound, Crash PROVE Sound'
<1>0. TypeOK /\ MirrorSound
  BY DEF Sound
<1>1. /\ mirror' = [r \in Roots |-> IF pc[r] = "checkout" /\ job[r].cloned THEN Unreadable ELSE mirror[r]]
      /\ lastRev' = [r \in Roots |-> Absent]
      /\ pc' = [r \in Roots |-> IF r = "own" /\ r \in scene.synced THEN "tick" ELSE "off"]
      /\ job' = [r \in Roots |-> NoJob] /\ armed' = FALSE /\ torn' = FALSE
      /\ entries' = IF "own" \in scene.synced THEN NoDocs ELSE Docs("own", mirror["own"])
      /\ index' = entries' /\ UNCHANGED <<scene, upstream>>
  BY DEF Crash
<1>2. TypeOK'
  <2>1. IsJob(NoJob)
    BY DEF IsJob, NoJob, NewJob, Job, Absent
  <2>2. job' = [r \in Roots |-> job'[r]] /\ \A r \in Roots : IsJob(job'[r])
    BY <1>1, <2>1
  <2>3. mirror' \in [Roots -> Nat \cup {Unreadable}] /\ lastRev' \in [Roots -> Nat]
    BY <1>0, <1>1 DEF TypeOK, Absent
  <2>4. pc' \in [Roots -> Idle \cup Whole \cup ByDelta]
    BY <1>1 DEF Idle
  <2>5. QED  BY <1>0, <1>1, <2>2, <2>3, <2>4 DEF TypeOK
<1>3. MirrorSound'
  BY <1>0, <1>1 DEF MirrorSound, Roots, ByDelta
<1>4. WalkSound' /\ DeltaSound' /\ IndexSound'
  BY <1>1 DEF WalkSound, DeltaSound, IndexSound, Whole, ByDelta, Roots
<1>5. EntriesSound'
  <2>1. PICK rev : /\ entries' = Docs("own", rev)
                   /\ rev = Absent \/ (rev = 1 /\ ~Pinned("own") /\ 1 \in 1..upstream["own"])
    <3>1. CASE "own" \in scene.synced
      BY <1>1, <3>1 DEF Docs
    <3>2. CASE "own" \notin scene.synced
      <4>1. mirror["own"] = 1
        BY <1>0, <3>2 DEF MirrorSound, Roots
      <4>2. ~Pinned("own") /\ 1 \in 1..upstream["own"]
        BY <1>0, <3>2, ScenesAssumption DEF TypeOK, Pinned, Roots
      <4>3. QED  BY <1>1, <3>2, <4>1, <4>2
    <3>3. QED  BY <3>1, <3>2
  <2>2. Part(entries', "own") = Docs("own", rev) /\ Part(entries', "commons") = Docs("commons", Absent)
    BY <2>1, DocsOfOneRoot DEF Docs, Roots
  <2>3. \A root \in Roots : ARevision(entries', root)
    BY <2>1, <2>2 DEF ARevision, Absent, Roots
  <2>4. \A root \in Roots : ARevision(entries, root)'
    <3>1. \A f : \A root \in Roots : ARevision(f, root) => ARevision(f, root)'
      BY <1>0, <1>1, SameRevisions DEF TypeOK
    <3>2. QED  BY <2>3, <3>1 DEF ARevision
  <2>5. IsDocs(entries')
    BY <2>1, DocsAreDocs
  <2>6. QED  BY <1>1, <2>4, <2>5 DEF EntriesSound, IsDocs
<1>6. QED  BY <1>2, <1>3, <1>4, <1>5 DEF Sound

\* Nothing changes.
LEMMA StutterSound == Sound /\ UNCHANGED vars => Sound'
<1> SUFFICES ASSUME Sound, UNCHANGED vars PROVE Sound'
  OBVIOUS
<1> USE DEF vars
<1>1. TypeOK' /\ MirrorSound'
  BY DEF Sound, TypeOK, IsJob, MirrorSound, Servable, Pinned
<1>2. \A root, rev : Docs(root, rev)' = Docs(root, rev)
  BY DEF Docs, Tree
<1>3. \A root, x, y : diffPaths(root, x, y)' = diffPaths(root, x, y)
  BY DEF diffPaths, Tree
<1>4. ASSUME Alone PROVE WalkSound' /\ DeltaSound' /\ IndexSound' /\ EntriesSound'
  <2>1. TypeOK /\ WalkSound /\ DeltaSound /\ IndexSound /\ EntriesSound
    BY <1>4 DEF Sound
  <2>2. WalkSound'
    BY <1>2, <2>1 DEF WalkSound
  <2>3. DeltaSound'
    BY <1>2, <1>3, <2>1 DEF DeltaSound
  <2>4. IndexSound'
    BY <2>1 DEF IndexSound
  <2>5. EntriesSound'
    BY <2>1, EntriesKept
  <2>6. QED  BY <2>2, <2>3, <2>4, <2>5
<1>5. QED  BY <1>1, <1>4 DEF Sound, Alone

-----------------------------------------------------------------------------
\* Every step keeps the invariant.
LEMMA SoundNext == Sound /\ [Next]_vars => Sound'
<1> SUFFICES ASSUME Sound, [Next]_vars PROVE Sound'
  OBVIOUS
<1>1. ASSUME NEW s \in Roots, Step(s) PROVE Sound'
  BY <1>1, TickSound, SyncFailsSound, CheckoutSound, CompareSound, ReloadSound, LoadOwnSound,
     LoadCommonsSound, BuildSound, EmbedSound, MutateSound, SwapSound DEF Step
<1>2. QED  BY <1>1, PushSound, ArmSound, CrashSound, StutterSound DEF Next

\* Of one syncer: what is served is one revision of each root, and between two
\* reloads the index is exactly what its hits are resolved to.
THEOREM ServesRevisions == Spec => []IndexIsOneRevision
<1>1. Sound => IndexIsOneRevision
  BY DEF Sound, Alone, EntriesSound, IndexSound, IndexIsOneRevision, Idle
<1>2. QED  BY <1>1, SoundInit, SoundNext, PTL DEF Spec

=============================================================================
