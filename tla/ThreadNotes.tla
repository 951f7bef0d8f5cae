---------------------------- MODULE ThreadNotes ----------------------------
(***************************************************************************)
(* Notes captured from chat threads.  A registry maps the root message of  *)
(* a thread to what RunLore knows of it; it lives in memory and in an      *)
(* append-only file that a start replays.  A note addressed to RunLore is  *)
(* written to the forge: as a comment on the curator's pull request, into  *)
(* the entry of the pull request an earlier note of the thread opened, or  *)
(* into a new one.                                                         *)
(*                                                                         *)
(* Every message is handled by a goroutine of its own.  A step is what     *)
(* happens between two calls of the forge, or around the per-root guard.   *)
(***************************************************************************)
EXTENDS ChatBudget, Functions

CONSTANTS
    Processes,      \* the replicas that open the registry file
    Workers,        \* Dispatcher.slots of a process
    Roots, Keys,    \* thread roots, and notes by noteKey
    None,           \* what an idle goroutine works for
    Fallbacks,      \* the roots whose transport rebuilds a lost context
    TTL,            \* Registry.ttl
    MaxNotes,       \* notes per thread
    MaxWrites,      \* forge writes per window
    Estimates,      \* what a chat call may be estimated to cost
    Scenes          \* what may happen, and how often: [faults, failures, roots,
                    \*  births, messages, deliveries, ticks, slides, chat, drafts, maxLive]

ASSUME BoundsAssumption ==
    /\ {MaxNotes, MaxWrites} \cup {s.maxLive : s \in Scenes} \subseteq Nat \ {0} /\ TTL \in Nat
    /\ Fallbacks \subseteq Roots /\ \A s \in Scenes : s.roots \subseteq Roots
    /\ Estimates \subseteq Nat \ {0}
    /\ IsFiniteSet(Workers)

VARIABLES
    scene,       \* the faults and bounds of this behaviour
    clock,       \* in units of the registry's TTL
    memory,      \* Registry.byID and Registry.order of every process
    file,        \* the lines of threads.jsonl that parse
    torn,        \* the file ends in a line without its newline
    born,        \* every context ever made: its root, the notes that landed, those not counted
    active,      \* the process that holds the Lease and handles the messages
    writeLocks,  \* Registry.writeLocks of every process: an index into locks
    locks,       \* the rootLocks, those without a reference free to be made again
    budget,      \* Chat.Budget of every process
    chats,       \* every call admitted: by whom, when, what it cost, whether that was recorded
    chatCut,     \* entries of the budget up to this one are older than its window
    silences,    \* silences written to the ledger
    work,        \* what every goroutine is doing
    deliveries,  \* messages handled so far
    reserved,    \* forge-write reservations made so far; an index is its time
    recent,      \* Window.recent of every process, a set of reservation indices
    charged,     \* the reservations a landed write paid with
    slid,        \* reservations up to this one are older than the window
    prs,         \* the pull requests of the forge
    failures     \* the faults that have happened

chatting == <<budget, chats, chatCut, silences>>

vars == <<scene, clock, memory, file, torn, born, active, writeLocks, locks,
          chatting, work, deliveries, reserved, recent, charged, slid, prs, failures>>

\* A failure the instance has switched on happens.
Fault(kind) ==
    /\ kind \in scene.faults /\ Len(failures) < scene.failures
    /\ failures' = Append(failures, kind)

NoFault == UNCHANGED failures

-----------------------------------------------------------------------------
(* The registry.                                                           *)

Tracked(mem) == DOMAIN mem.byId

Forget(mem, gone) ==
    [byId |-> [r \in Tracked(mem) \ gone |-> mem.byId[r]],
     order |-> Kept(mem.order, Tracked(mem) \ gone)]

\* A new root goes to the end of the eviction queue, a known one keeps its place;
\* over maxLive the head of the queue is evicted.
putLocked(mem, c) ==
    LET queue == IF c.root \in Tracked(mem) THEN mem.order ELSE Append(mem.order, c.root)
        put == [byId |-> [r \in Tracked(mem) \cup {c.root} |-> IF r = c.root THEN c ELSE mem.byId[r]],
                order |-> queue]
    IN IF Len(queue) > scene.maxLive THEN Forget(put, {Head(queue)}) ELSE put

expireLocked(mem) == Forget(mem, {r \in Tracked(mem) : clock - mem.byId[r].at > TTL})

NoMemory == [byId |-> <<>>, order |-> <<>>]

\* The memory that a number of lines of a file put together.
Replay(lines) ==
    LET mem[i \in 0..Len(lines)] == IF i = 0 THEN NoMemory ELSE putLocked(mem[i - 1], lines[i])
    IN mem[Len(lines)]

\* load: the last line of a root wins, then what is past the TTL goes.
Replayed == expireLocked(Replay(file))

\* compactLocked writes the live contexts in queue order.
Compacted(mem) == [i \in DOMAIN mem.order |-> mem.byId[mem.order[i]]]

\* appendLocked: a line written after a torn one is glued to it, and neither parses.
appendLocked(c) ==
    \/ /\ NoFault
       /\ file' = IF torn THEN file ELSE Append(file, c)
       /\ torn' = FALSE
    \/ /\ Fault("append")
       /\ UNCHANGED <<file, torn>>

\* Mutant: only the memory is changed.
StoreMemory(p, mem, c) ==
    /\ memory' = [memory EXCEPT ![p] = putLocked(mem, c)]
    /\ NoFault /\ UNCHANGED <<file, torn>>

\* Put and Update change the memory first and keep it whatever the file answers.
Store(p, mem, c) ==
    /\ memory' = [memory EXCEPT ![p] = putLocked(mem, c)]
    /\ appendLocked(c)

NoStore == NoFault /\ UNCHANGED <<memory, file, torn>>

NoPR == 0

NewContext(root, curated) ==
    [root |-> root, notes |-> 0, noteUrl |-> NoPR, curated |-> curated, at |-> clock,
     inc |-> Len(born) + 1]

Born(root) == Append(born, [root |-> root, landed |-> 0, lost |-> 0])

-----------------------------------------------------------------------------
NoLock == [refs |-> 0, held |-> FALSE]

NoWork == [pc |-> "idle", at |-> None, key |-> None,
           tc |-> [root |-> None, notes |-> 0, noteUrl |-> NoPR, curated |-> NoPR, at |-> 0, inc |-> 0],
           lock |-> 0, target |-> NoPR, token |-> 0, chat |-> 0]

Init ==
    /\ scene \in Scenes
    /\ clock = 0
    /\ memory = [p \in Processes |-> NoMemory]
    /\ file = <<>> /\ torn = FALSE
    /\ born = <<>>
    /\ active \in Processes
    /\ writeLocks = [p \in Processes |-> [r \in Roots |-> 0]]
    /\ locks = [l \in 1..Cardinality(Workers) |-> NoLock]
    /\ budget = [p \in Processes |-> NoBudget]
    /\ chats = <<>> /\ chatCut = 0
    /\ silences = 0
    /\ work = [w \in Workers |-> NoWork]
    /\ deliveries = 0
    /\ reserved = 0
    /\ recent = [p \in Processes |-> {}]
    /\ charged = {}
    /\ slid = 0
    /\ prs = <<>>
    /\ failures = <<>>

\* Register: a delivered finding makes its message a thread root, with the
\* curator's pull request if there is one.
Register(root, hasCurated) ==
    /\ \A i \in DOMAIN born : born[i].root # root
    /\ Len(born) < scene.births
    /\ prs' = IF hasCurated
              THEN Append(prs, [inc |-> 0, open |-> TRUE, entry |-> <<>>, comments |-> <<>>, orphan |-> FALSE])
              ELSE prs
    /\ LET c == NewContext(root, IF hasCurated THEN Len(prs') ELSE NoPR)
       IN Store(active, memory[active], c)
    /\ born' = Born(root)
    /\ UNCHANGED <<scene, chatting, clock, active, writeLocks, locks, work, deliveries, reserved, recent, charged, slid>>

-----------------------------------------------------------------------------
(* What is asked: a message is a sequence of words, of which "reinvestigate", *)
(* "silence" and "note" are the command tokens.                             *)

Commands == <<"reinvestigate", "silence", "note">>

\* Parse: the first command token, in this order and wherever in the message it
\* stands; the text is what follows it.
Parse(m) ==
    LET found == SelectSeq(Commands, LAMBDA c : c \in Range(m))
        i == CHOOSE n \in DOMAIN m : m[n] = Head(found) /\ \A k \in 1..n - 1 : m[k] # Head(found)
    IN IF found = <<>> THEN [intent |-> "freeform", text |-> m, anchored |-> FALSE]
       ELSE [intent |-> Head(found), text |-> SubSeq(m, i + 1, Len(m)), anchored |-> i = 1]

\* Handle: where a message goes.  "reply" answers and changes nothing.
Handle(m) ==
    LET p == Parse(m)
        prose == p.intent = "freeform" \/ (p.intent = "note" /\ ~p.anchored /\ ~scene.chat)
    IN CASE prose /\ scene.chat /\ p.text # <<>>               -> "chat"
         [] p.intent = "silence" /\ p.anchored                 -> "silence"
         [] p.intent = "note" /\ ~prose /\ p.text # <<>>       -> "lockRoot"
         [] OTHER                                              -> "reply"

\* HandleMention: the thread's context from the registry, or made from the
\* transport's fallback; without either the message is refused.
HandleMention(w, root, m, key) ==
    LET mem == expireLocked(memory[active])
        pc == Handle(m)
        start(c) == IF pc \in {"reply", "silence"} THEN NoWork
                    ELSE [NoWork EXCEPT !.pc = pc, !.at = active, !.key = key, !.tc = c]
    IN /\ work[w].pc = "idle" /\ deliveries < scene.deliveries
       /\ deliveries' = deliveries + 1
       /\ \/ /\ root \in Tracked(mem)
             /\ memory' = [memory EXCEPT ![active] = mem]
             /\ work' = [work EXCEPT ![w] = start(mem.byId[root])]
             /\ silences' = IF pc = "silence" THEN silences + 1 ELSE silences
             /\ NoFault /\ UNCHANGED <<file, torn, born>>
          \/ /\ root \in Fallbacks \ Tracked(mem) /\ Len(born) < scene.births
             /\ Store(active, mem, NewContext(root, NoPR))
             /\ born' = Born(root)
             /\ work' = [work EXCEPT ![w] = start(NewContext(root, NoPR))]
             /\ silences' = IF pc = "silence" THEN silences + 1 ELSE silences
          \/ /\ root \notin Fallbacks \cup Tracked(mem)
             /\ memory' = [memory EXCEPT ![active] = mem]
             /\ NoFault /\ UNCHANGED <<file, torn, born, work, silences>>
       /\ UNCHANGED <<scene, budget, chats, chatCut, clock, active, writeLocks, locks,
                      reserved, recent, charged, slid, prs>>

-----------------------------------------------------------------------------
(* Chat.Answer: one model call, paid for before and after.                 *)

Now == Len(chats) + 1

ChatUnchanged ==
    UNCHANGED <<scene, clock, memory, file, torn, born, active, writeLocks, locks, silences,
                deliveries, reserved, recent, charged, slid, prs, failures>>

\* Budget.Allow; a refusal is answered without a model.
Allow(w, estimate) ==
    LET p == work[w].at
        b == slideLocked(budget[p], chatCut)
    IN /\ work[w].pc = "chat"
       /\ IF Admits(b)
          THEN /\ budget' = [budget EXCEPT ![p] = attempt(b, estimate, Now)]
               /\ chats' = Append(chats, [at |-> p, estimate |-> estimate, cost |-> 0, state |-> "flying"])
               /\ work' = [work EXCEPT ![w].pc = "complete", ![w].chat = Now]
          ELSE /\ budget' = [budget EXCEPT ![p] = b]
               /\ work' = [work EXCEPT ![w] = NoWork]
               /\ UNCHANGED chats
       /\ UNCHANGED chatCut /\ ChatUnchanged

\* The call returns, whatever it returns: what it cost is recorded, and the reply may
\* carry a note, which takes the way of every other note.
Answer(w, cost, noted) ==
    LET x == work[w]
    IN /\ x.pc = "complete" /\ cost <= chats[x.chat].estimate
       /\ budget' = [budget EXCEPT ![x.at] = Record(slideLocked(@, chatCut), cost, Len(chats))]
       /\ chats' = [chats EXCEPT ![x.chat].cost = cost, ![x.chat].state = "recorded"]
       /\ work' = [work EXCEPT ![w] = IF noted THEN [x EXCEPT !.pc = "lockRoot"] ELSE NoWork]
       /\ UNCHANGED chatCut /\ ChatUnchanged

\* A panic between the two leaves the reservation to the window.
Panic(w) ==
    /\ work[w].pc = "complete"
    /\ chats' = [chats EXCEPT ![work[w].chat].state = "abandoned"]
    /\ work' = [work EXCEPT ![w] = NoWork]
    /\ UNCHANGED <<budget, chatCut>> /\ ChatUnchanged

\* Entries leave the window; no call is in flight that long.
ChatSlide ==
    /\ \E t \in chatCut + 1 .. Len(chats) :
          /\ \A i \in chatCut + 1 .. t : chats[i].state # "flying"
          /\ chatCut' = t
    /\ UNCHANGED <<budget, chats, work>> /\ ChatUnchanged

-----------------------------------------------------------------------------
(* The per-root guard.                                                     *)

\* A guard that nobody refers to, to be made anew.
FreeLock == CHOOSE l \in DOMAIN locks : locks[l] = NoLock

\* lockRoot up to the wait: the guard is found or made, and counted, under r.mu.
LockRoot(w) ==
    LET p == work[w].at
        root == work[w].tc.root
        l == IF writeLocks[p][root] = 0 THEN FreeLock ELSE writeLocks[p][root]
    IN /\ work[w].pc = "lockRoot"
       /\ locks' = [locks EXCEPT ![l].refs = @ + 1]
       /\ writeLocks' = [writeLocks EXCEPT ![p][root] = l]
       /\ work' = [work EXCEPT ![w].pc = "wait", ![w].lock = l]
       /\ UNCHANGED <<scene, chatting, clock, memory, file, torn, born, active, deliveries, reserved, recent, charged, slid, prs, failures>>

\* Where a note goes: the curator's pull request, then the thread's own, each the next one
\* tried when the target n before it is closed; NoPR for a new one.
After(c, n) ==
    CASE n = NoPR /\ c.curated # NoPR            -> c.curated
      [] n = c.curated /\ c.noteUrl # c.curated  -> c.noteUrl
      [] OTHER                                   -> NoPR

Route(x, n) == [x EXCEPT !.target = n, !.pc = IF n = NoPR THEN "openPR" ELSE "isOpen"]

\* record with the guard: the context is read again, the thread's cap is decided,
\* and write takes a forge-write token before it chooses where the note goes.
Enter(w) ==
    LET x == work[w]
        p == x.at
        mem == expireLocked(memory[p])
        c == IF x.tc.root \in Tracked(mem) THEN mem.byId[x.tc.root] ELSE x.tc
        window == {i \in recent[p] : i > slid}
        capped == c.notes >= MaxNotes
        throttled == Cardinality(window) >= MaxWrites
    IN /\ x.pc = "wait" /\ ~locks[x.lock].held
       /\ locks' = [locks EXCEPT ![x.lock].held = TRUE]
       /\ memory' = [memory EXCEPT ![p] = mem]
       /\ IF capped \/ throttled
          THEN /\ work' = [work EXCEPT ![w] = [x EXCEPT !.pc = "unlock", !.tc = c]]
               /\ recent' = [recent EXCEPT ![p] = IF capped THEN @ ELSE window]
               /\ UNCHANGED reserved
          ELSE /\ reserved' = reserved + 1
               /\ recent' = [recent EXCEPT ![p] = window \cup {reserved'}]
               /\ work' = [work EXCEPT ![w] = Route([x EXCEPT !.tc = c, !.token = reserved'], After(c, NoPR))]
       /\ UNCHANGED <<scene, chatting, clock, file, torn, born, active, writeLocks, deliveries, charged, slid, prs, failures>>

\* The guard is unlocked.
Unlock(w) ==
    /\ work[w].pc = "unlock"
    /\ locks' = [locks EXCEPT ![work[w].lock].held = FALSE]
    /\ work' = [work EXCEPT ![w].pc = "drop"]
    /\ UNCHANGED <<scene, chatting, clock, memory, file, torn, born, active, writeLocks, deliveries, reserved, recent, charged, slid, prs, failures>>

\* Mutant: whoever releases deletes the guard.
DropAlways(w) ==
    LET x == work[w]
    IN /\ x.pc = "drop"
       /\ locks' = [locks EXCEPT ![x.lock].refs = @ - 1]
       /\ writeLocks' = [writeLocks EXCEPT ![x.at][x.tc.root] = 0]
       /\ work' = [work EXCEPT ![w] = NoWork]
       /\ UNCHANGED <<scene, chatting, clock, memory, file, torn, born, active, deliveries, reserved, recent, charged, slid, prs, failures>>

\* Then, under r.mu, the last one to leave deletes it.
Drop(w) ==
    LET x == work[w]
        last == locks[x.lock].refs = 1
    IN /\ x.pc = "drop"
       /\ locks' = [locks EXCEPT ![x.lock].refs = @ - 1]
       /\ writeLocks' = IF last THEN [writeLocks EXCEPT ![x.at][x.tc.root] = 0] ELSE writeLocks
       /\ work' = [work EXCEPT ![w] = NoWork]
       /\ UNCHANGED <<scene, chatting, clock, memory, file, torn, born, active, deliveries, reserved, recent, charged, slid, prs, failures>>

-----------------------------------------------------------------------------
(* write: one step for every call of the forge.                            *)

\* Window.Refund gives back the newest token, whoever took it.
Refund(p) ==
    recent' = [recent EXCEPT ![p] = IF @ = {} THEN @ ELSE @ \ {Max(@)}]

\* Nothing landed: the token goes back and the guard is released.
GiveUp(w) ==
    /\ Refund(work[w].at)
    /\ work' = [work EXCEPT ![w].pc = "unlock", ![w].token = 0]

\* A note is on the forge, and its token is spent if RunLore has heard of it.
Land(w, pc, target, heard) ==
    LET x == work[w]
    IN /\ born' = [born EXCEPT ![x.tc.inc].landed = @ + 1, ![x.tc.inc].lost = IF heard THEN @ ELSE @ + 1]
       /\ IF heard
          THEN /\ charged' = charged \cup {x.token}
               /\ work' = [work EXCEPT ![w].pc = pc, ![w].target = target, ![w].token = 0]
               /\ UNCHANGED recent
          ELSE GiveUp(w) /\ UNCHANGED charged

NoLand == UNCHANGED <<born, charged>>

\* IsPROpen: a closed target is passed over, and a check that fails is no answer.
IsOpen(w) ==
    LET x == work[w]
        ours == x.target = x.tc.noteUrl
    IN /\ x.pc = "isOpen"
       /\ \/ /\ NoFault /\ UNCHANGED recent
             /\ work' = [work EXCEPT ![w] =
                   IF ~prs[x.target].open THEN Route(x, After(x.tc, x.target))
                   ELSE [x EXCEPT !.pc = IF ours THEN "append" ELSE "comment"]]
          \/ Fault("forge") /\ GiveUp(w)
       /\ UNCHANGED <<scene, chatting, clock, memory, file, torn, born, active, writeLocks, locks, deliveries, reserved, charged, slid, prs>>

\* AppendToEntryOnPR writes a note its marker does not already show.
WithNote(pr, key) == IF key \in Range(pr.entry) THEN pr ELSE [pr EXCEPT !.entry = Append(@, key)]

\* The thread's own pull request: the note goes into its entry; one closed in the
\* meantime is passed over; any other failure degrades to a comment.
AppendToEntry(w) ==
    LET x == work[w]
        pr == prs[x.target]
    IN /\ x.pc = "append"
       /\ \/ /\ NoFault
             /\ IF pr.open
                THEN /\ prs' = [prs EXCEPT ![x.target] = WithNote(pr, x.key)]
                     /\ Land(w, "count", x.target, TRUE)
                ELSE /\ work' = [work EXCEPT ![w] = Route(x, After(x.tc, x.target))]
                     /\ NoLand /\ UNCHANGED <<recent, prs>>
          \/ /\ Fault("forge")
             /\ work' = [work EXCEPT ![w].pc = "comment"]
             /\ NoLand /\ UNCHANGED <<recent, prs>>
          \/ /\ Fault("lost") /\ pr.open
             /\ prs' = [prs EXCEPT ![x.target] = WithNote(pr, x.key)]
             /\ work' = [work EXCEPT ![w].pc = "comment"]
             /\ NoLand /\ UNCHANGED recent
       /\ UNCHANGED <<scene, chatting, clock, memory, file, torn, active, writeLocks, locks, deliveries, reserved, slid>>

\* CommentOnPR takes a comment on a closed pull request too.
CommentOnPR(w) ==
    LET x == work[w]
        posted == [prs EXCEPT ![x.target].comments = Append(@, x.key)]
    IN /\ x.pc = "comment"
       /\ \/ /\ NoFault
             /\ prs' = posted /\ Land(w, "count", x.target, TRUE)
          \/ Fault("forge") /\ GiveUp(w) /\ NoLand /\ UNCHANGED prs
          \/ Fault("lost") /\ prs' = posted /\ Land(w, "unlock", NoPR, FALSE)
       /\ UNCHANGED <<scene, chatting, clock, memory, file, torn, active, writeLocks, locks, deliveries, reserved, slid>>

\* OpenPR with an entry that carries the note and its marker.
OpenPR(w) ==
    LET x == work[w]
        opened(heard) == Append(prs, [inc |-> x.tc.inc, open |-> TRUE, entry |-> <<x.key>>,
                                      comments |-> <<>>, orphan |-> ~heard])
    IN /\ x.pc = "openPR"
       /\ \/ NoFault /\ prs' = opened(TRUE) /\ Land(w, "writeBack", Len(prs'), TRUE)
          \/ Fault("forge") /\ GiveUp(w) /\ NoLand /\ UNCHANGED prs
          \/ Fault("lost") /\ prs' = opened(FALSE) /\ Land(w, "unlock", NoPR, FALSE)
       /\ UNCHANGED <<scene, chatting, clock, memory, file, torn, active, writeLocks, locks, deliveries, reserved, slid>>

\* Update(NoteURL): a root that is no longer tracked leaves the pull request unknown.
WriteBack(w) ==
    LET x == work[w]
        mem == memory[x.at]
        root == x.tc.root
    IN /\ x.pc = "writeBack"
       /\ IF root \in Tracked(mem)
          THEN Store(x.at, mem, [mem.byId[root] EXCEPT !.noteUrl = x.target]) /\ UNCHANGED prs
          ELSE NoStore /\ prs' = [prs EXCEPT ![x.target].orphan = TRUE]
       /\ work' = [work EXCEPT ![w].pc = "count"]
       /\ UNCHANGED <<scene, chatting, clock, born, active, writeLocks, locks, deliveries, reserved, recent, charged, slid>>

\* Mutant: the count written back is the one read before the forge call.
CountStale(w) ==
    LET x == work[w]
        mem == memory[x.at]
        root == x.tc.root
    IN /\ x.pc = "count"
       /\ IF root \in Tracked(mem) THEN Store(x.at, mem, x.tc) ELSE NoStore
       /\ work' = [work EXCEPT ![w].pc = "unlock"]
       /\ UNCHANGED <<scene, chatting, clock, born, active, writeLocks, locks, deliveries, reserved, recent, charged, slid, prs>>

\* Update(Notes++), the last thing before the release.
Count(w) ==
    LET x == work[w]
        mem == memory[x.at]
        root == x.tc.root
    IN /\ x.pc = "count"
       /\ IF root \in Tracked(mem)
          THEN Store(x.at, mem, [mem.byId[root] EXCEPT !.notes = @ + 1]) /\ UNCHANGED born
          ELSE NoStore /\ born' = [born EXCEPT ![x.tc.inc].lost = @ + 1]
       /\ work' = [work EXCEPT ![w].pc = "unlock"]
       /\ UNCHANGED <<scene, chatting, clock, active, writeLocks, locks, deliveries, reserved, recent, charged, slid, prs>>

-----------------------------------------------------------------------------
(* The environment: time, reviewers, crashes and the Lease.                *)

Tick ==
    /\ clock < scene.ticks
    /\ clock' = clock + 1
    /\ UNCHANGED <<scene, chatting, memory, file, torn, born, active, writeLocks, locks, work, deliveries,
                   reserved, recent, charged, slid, prs, failures>>

\* Reservations leave the window; a handler's timeout is far shorter than that.
Slide ==
    /\ scene.slides
    /\ \E i \in slid + 1 .. reserved :
          /\ \A w \in Workers : work[w].token \notin slid + 1 .. i
          /\ slid' = i
    /\ UNCHANGED <<scene, chatting, clock, memory, file, torn, born, active, writeLocks, locks, work,
                   deliveries, reserved, recent, charged, prs, failures>>

\* A reviewer merges or closes a pull request.
Close(n) ==
    /\ prs[n].open
    /\ prs' = [prs EXCEPT ![n].open = FALSE]
    /\ UNCHANGED <<scene, chatting, clock, memory, file, torn, born, active, writeLocks, locks, work,
                   deliveries, reserved, recent, charged, slid, failures>>

\* A process dies and starts again: load replays the file, and rewrites it when it
\* holds more lines than contexts.  A death inside an append may tear the line.
\* What the restart no longer knows is marked on the contexts and pull requests.
Restart(p, tear) ==
    LET mem == Replayed
        mine == {w \in Workers : work[w].pc # "idle" /\ work[w].at = p}
        compacts == Len(file) > Cardinality(Tracked(mem))
        kept == {mem.byId[r] : r \in Tracked(mem)}
    IN /\ Fault(IF tear THEN "torn" ELSE "crash")
       /\ tear => \E w \in mine : work[w].pc \in {"writeBack", "count"}
       /\ memory' = [memory EXCEPT ![p] = mem]
       /\ file' = IF compacts THEN Compacted(mem) ELSE file
       /\ torn' = (~compacts /\ (torn \/ tear))
       /\ work' = [w \in Workers |-> IF w \in mine THEN NoWork ELSE work[w]]
       /\ writeLocks' = [writeLocks EXCEPT ![p] = [r \in Roots |-> 0]]
       /\ locks' = [l \in DOMAIN locks |-> IF \E w \in mine : work[w].lock = l THEN NoLock ELSE locks[l]]
       /\ recent' = [recent EXCEPT ![p] = {}]
       /\ slid' = IF p = active THEN reserved ELSE slid
       /\ born' = [i \in DOMAIN born |-> [born[i] EXCEPT !.lost =
                      IF \E c \in kept : c.inc = i
                      THEN @ + Cardinality({w \in mine : work[w].tc.inc = i /\ work[w].pc \in {"writeBack", "count"}})
                      ELSE @]]
       /\ prs' = [n \in DOMAIN prs |-> [prs[n] EXCEPT !.orphan =
                      @ \/ \E w \in mine : work[w].pc = "writeBack" /\ work[w].target = n]]
       /\ budget' = [budget EXCEPT ![p] = NoBudget]
       /\ chats' = [i \in DOMAIN chats |->
                       IF chats[i].at = p THEN [chats[i] EXCEPT !.state = "forgotten"] ELSE chats[i]]
       /\ UNCHANGED <<scene, chatCut, silences, clock, active, deliveries, reserved, charged>>

\* The Lease moves: the messages now reach a process that loaded the file when it
\* started, and loads nothing when it begins to lead.
Failover(p) ==
    /\ p # active /\ Fault("failover")
    /\ active' = p
    /\ UNCHANGED <<scene, chatting, clock, memory, file, torn, born, writeLocks, locks, work,
                   deliveries, reserved, recent, charged, slid, prs>>

Handler(w) ==
    \/ \E root \in scene.roots, m \in scene.messages, key \in Keys : HandleMention(w, root, m, key)
    \/ (\E e \in Estimates : Allow(w, e)) \/ Panic(w)
    \/ \E e \in Estimates, noted \in scene.drafts : Answer(w, e, noted)
    \/ LockRoot(w) \/ Enter(w) \/ Unlock(w) \/ Drop(w)
    \/ IsOpen(w) \/ AppendToEntry(w) \/ CommentOnPR(w) \/ OpenPR(w)
    \/ WriteBack(w) \/ Count(w)

Next ==
    \/ \E w \in Workers : Handler(w)
    \/ \E root \in scene.roots, c \in BOOLEAN : Register(root, c)
    \/ \E n \in DOMAIN prs : Close(n)
    \/ Tick \/ Slide \/ ChatSlide
    \/ \E p \in Processes : (\E tear \in BOOLEAN : Restart(p, tear)) \/ Failover(p)

Spec == Init /\ [][Next]_vars

-----------------------------------------------------------------------------
Context == [root : Roots, notes : Nat, noteUrl : Nat, curated : Nat, at : Nat, inc : Nat]

TypeOK ==
    /\ clock \in Nat /\ torn \in BOOLEAN /\ active \in Processes
    /\ \A p \in Processes :
          /\ Tracked(memory[p]) = Range(memory[p].order) /\ IsInjective(memory[p].order)
          /\ \A r \in Tracked(memory[p]) : memory[p].byId[r] \in Context /\ memory[p].byId[r].root = r
          /\ Len(memory[p].order) <= scene.maxLive
          /\ \A r \in Roots : writeLocks[p][r] \in 0..Len(locks)
    /\ \A i \in DOMAIN file : file[i] \in Context
    /\ \A l \in DOMAIN locks : locks[l].refs \in Nat /\ locks[l].held \in BOOLEAN
    /\ \A w \in Workers : work[w] # NoWork => work[w].tc \in Context

Guarded == {"isOpen", "append", "comment", "openPR", "writeBack", "count", "unlock"}

\* One note at a time is decided and written for a thread, however the guard of an
\* earlier one is being deleted; and a guard is there only while it is held or awaited,
\* referenced once by every handler that uses it (registry.go:91-147).
OneWriterPerRoot ==
    /\ \A v, w \in Workers :
          work[v].pc \in Guarded /\ work[w].pc \in Guarded /\ work[v].at = work[w].at
          /\ work[v].tc.root = work[w].tc.root => v = w
    /\ \A p \in Processes, r \in Roots :
          LET l == writeLocks[p][r]
              users == {w \in Workers : work[w].lock = l}
          IN l # 0 => /\ users # {} /\ locks[l].refs = Cardinality(users)
                      /\ locks[l].held => \E w \in users : work[w].pc \in Guarded

\* Every append has succeeded and the Lease has not moved: what the process that leads
\* has written, it knows.
Steady == Range(failures) \cap {"append", "torn", "failover"} = {}

\* Handlers whose note is on the forge and not yet counted.
Uncounted(i) ==
    Cardinality({w \in Workers : work[w].tc.inc = i /\ work[w].pc \in {"writeBack", "count"}})

\* The per-thread cap binds on what has landed for a tracked thread: every note is
\* counted, but for one still being written back and those whose count went with a
\* crash or a lost reply (responder.go:1296-1345).
CapBinds ==
    Steady => \A r \in Tracked(memory[active]) :
        LET c == memory[active].byId[r]
            landed == born[c.inc].landed
        IN /\ landed <= c.notes + Uncounted(c.inc) + born[c.inc].lost
           /\ landed <= MaxNotes + born[c.inc].lost

\* A tracked thread knows its one open pull request: a second one is opened only for
\* a thread whose first was never written back (responder.go:1703).
OneOwnPR ==
    Steady => \A r \in Tracked(memory[active]) : \A n \in DOMAIN prs :
        LET c == memory[active].byId[r]
        IN prs[n].inc = c.inc /\ prs[n].open /\ ~prs[n].orphan =>
               \/ c.noteUrl = n
               \/ \E w \in Workers : work[w].pc = "writeBack" /\ work[w].target = n

\* The guard makes the decision to open a pull request and its record one step.
OneWriterOnePR == OneWriterPerRoot /\ OneOwnPR

\* A forge outage costs no allowance: the tokens in the window are those of handlers
\* still at it and of writes that landed (window.go:56).
OutageIsFree ==
    \A p \in Processes :
        Cardinality({i \in recent[p] : i > slid})
        <= Cardinality({w \in Workers : work[w].token # 0 /\ work[w].at = p})
           + Cardinality({t \in charged : t > slid})

\* The caps count what was written, all of it and nothing else.
CapsCountWrites == CapBinds /\ OutageIsFree

\* What a budget holds in the window: a reservation for no more than the calls in
\* flight and those that never came back; and when every call of the process has come
\* back and none has left the window, exactly what they cost (budget.go:361-380).
BudgetSettles ==
    \A p \in Processes :
        LET b == slideLocked(budget[p], chatCut)
            mine == {i \in DOMAIN chats : chats[i].at = p /\ chats[i].state # "forgotten"}
            inWindow(st) == {i \in mine : i > chatCut /\ chats[i].state = st}
            cost == [i \in DOMAIN chats |-> IF i \in inWindow("recorded") THEN chats[i].cost ELSE 0]
        IN /\ Cardinality(Pending(b)) <= Cardinality(inWindow("flying")) + Cardinality(inWindow("abandoned"))
           /\ MaxTokens > 0 /\ inWindow("recorded") = mine =>
                  spentLocked(b) = Total(cost, Len(chats))

\* What the file replays to is what the process that leads knows.
ThreadsSurvive == expireLocked(memory[active]).byId = Replayed.byId

\* A restart forgets no thread, no count and no pull request, as long as every append
\* has succeeded and the Lease has not moved (registry.go:48-52), and unless threads have
\* both been evicted and expired: a replay evicts in the file's order and expires last.
RestartKeepsThreads == Steady /\ (Len(born) <= scene.maxLive \/ clock <= TTL) => ThreadsSurvive

\* Without that exception: "replays the JSONL, last-write-wins per root, dropping expired
\* entries" (registry.go:166).
ReplayIsExact == Steady => ThreadsSurvive

\* Neither does the Lease that moves to another replica with the same file
\* (configuration.md:738-742).
FailoverKeepsThreads == Range(failures) \subseteq {"failover"} => ThreadsSurvive
=============================================================================
