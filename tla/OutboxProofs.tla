----------------------------- MODULE OutboxProofs -----------------------------
(***************************************************************************)
(* Proofs about the change outbox, for any number of paths, writers, jobs,   *)
(* intents, edits from outside and faults.                                  *)
(***************************************************************************)
EXTENDS ChangeOutbox, SequenceTheorems, TLAPS

-----------------------------------------------------------------------------
(* The inductive invariant.                                                 *)

Content == Text \cup {Missing}

Row == [state: State, path: Path, old: Path \cup {NoPath}, kind: Kind,
        before: Content, after: Content, fence: Nat, by: 0 .. MaxIntent]

Tables ==
    /\ file \in [Path -> Content]
    /\ intents \in [Id -> Row \cup {NoIntent}]
    /\ nextId \in 0 .. MaxIntent
    /\ stage \in [Id -> Content]
    /\ recovery \subseteq Id /\ mail \subseteq Id /\ applied \subseteq Id
    /\ forward \subseteq [id: Id, fence: Nat, sent: BOOLEAN]

(* Contents a batch may have noted.                                         *)
Snapshot == UNION {[S -> Content] : S \in SUBSET Path}

Threads ==
    /\ lock \in [Path -> Writer \cup {NoPath}]
    /\ writers \in [Writer -> [pc: Pc, mode: {"one", "many"}, todo: Seq(Change), pos: Nat,
                               own: Seq([id: Id, fence: Nat]), snapshot: Snapshot]]

Undoing == {"restore", "discard"}

(* A writer is at one of its changes; how many intents it holds goes with    *)
(* the phase it is in.                                                      *)
PlacedAt(r) ==
    r.pc # "idle" =>
      /\ r.pos \in 1 .. Len(r.todo)
      /\ r.mode = "one" => /\ Len(r.todo) = 1 /\ r.todo[1].kind # "rename"
                           /\ r.pc \notin Undoing \cup {"unlink"}
      /\ r.pc = "reserve" => Len(r.own) = r.pos - 1
      /\ r.pc \in {"stage", "mark"} => Len(r.own) = r.pos
      /\ r.pc \in {"replace", "unlink", "ready", "cleanup"} => Len(r.own) = Len(r.todo)
      /\ Len(r.own) <= Len(r.todo)

Placed == \A w \in Writer : PlacedAt(writers[w])

(* A commit keeps the locks of its paths until it is over.                   *)
LocksHeld ==
    \A w \in Writer : writers[w].pc # "idle" =>
      \A k \in 1 .. Len(writers[w].todo) : lock[writers[w].todo[k].path] = w

(* What the k-th intent of a writer may be, by the phase it is in.           *)
PhaseStates(r, k) ==
    CASE r.pc = "reserve" -> {"COMMITTING"}
      [] r.pc \in {"stage", "mark"} -> IF k = r.pos THEN {"RESERVED"} ELSE {"COMMITTING"}
      [] r.pc \in {"replace", "unlink"} -> {"COMMITTING"}
      [] r.pc \in {"ready", "cleanup"} -> {"COMMITTING", "READY", "DELIVERED"}
      [] OTHER -> {"RESERVED", "COMMITTING", "READY", "DELIVERED"}

(* The intents of a running commit are there, each for its path: nobody else *)
(* settles, supersedes or deletes them.                                     *)
OwnRows ==
    \A w \in Writer : writers[w].pc # "idle" =>
      \A k \in 1 .. Len(writers[w].own) :
        LET row == intents[writers[w].own[k].id] IN
        /\ row.path = writers[w].todo[k].path
        /\ row.state \in PhaseStates(writers[w], k)

(* Before the rows of a failed batch are deleted its files are put back: a   *)
(* change that was made still has its snapshot until it is undone.          *)
UndoableAt(r, done) ==
    r.pc # "idle" =>
      /\ r.pc \notin Undoing =>
           \A k \in 1 .. Len(r.todo) : r.todo[k].path \in DOMAIN r.snapshot
      /\ r.pc \in Undoing =>
           \A k \in 1 .. Len(r.own) : r.own[k].id \in done =>
             r.pc = "restore" /\ r.todo[k].path \in DOMAIN r.snapshot

Undoable == \A w \in Writer : UndoableAt(writers[w], applied)

(* No id beyond the last one has a row.                                     *)
Fresh == \A i \in Id : i > nextId => intents[i] = NoIntent

(* The forwarder knows as sent only what the mailbox has.                   *)
SentIsMail == \A f \in forward : f.sent => f.id \in mail

OutboxInv ==
    /\ Tables /\ Threads /\ OneInflightPerPath /\ WrittenIsRecorded
    /\ Placed /\ LocksHeld /\ OwnRows /\ Undoable /\ Fresh /\ SentIsMail

(* For single files: an intent is READY only for a change that was made, and *)
(* so is one that its commit or the forwarder is about to make READY or send. *)
SingleFiles == \A w \in Writer : writers[w].mode = "one"

RowsMade == \A i \in Id : intents[i].state \in {"READY", "DELIVERED"} => i \in applied

CommitsMade ==
    \A w \in Writer : writers[w].pc \in {"ready", "cleanup"} =>
      writers[w].own[1].id \in applied

EventsMade == \A f \in forward : f.id \in applied

EventInv ==
    /\ OutboxInv /\ NoFalseEvent
    /\ SingleFiles /\ RowsMade /\ CommitsMade /\ EventsMade


-----------------------------------------------------------------------------
(* Types.                                                                   *)

LEMMA EmptySnapshot == <<>> \in Snapshot
  <1>1. <<>> \in [{} -> Content]
    OBVIOUS
  <1>2. QED BY <1>1 DEF Snapshot

LEMMA IdleType == Idle \in [pc: Pc, mode: {"one", "many"}, todo: Seq(Change), pos: Nat,
                            own: Seq([id: Id, fence: Nat]), snapshot: Snapshot]
  BY EmptySnapshot DEF Idle, Pc

LEMMA OutboxInit == Init => Tables /\ Threads
  BY OutboxAssumption, IdleType DEF Init, Tables, Threads, Content

(* What a writer works at.                                                  *)
LEMMA AtWork ==
    ASSUME Threads, Placed, NEW w \in Writer, writers[w].pc # "idle"
    PROVE  /\ writers[w].pos \in 1 .. Len(writers[w].todo)
           /\ Current(w) \in Change
           /\ writers[w].pc \in {"stage", "mark", "replace", "unlink", "ready", "cleanup"} =>
                /\ writers[w].pos \in 1 .. Len(writers[w].own)
                /\ Held(w) \in [id: Id, fence: Nat]
  <1> DEFINE r == writers[w]
  <1>1. /\ r.todo \in Seq(Change) /\ r.own \in Seq([id: Id, fence: Nat])
        /\ r.pos \in Nat /\ r.pos \in 1 .. Len(r.todo)
    BY DEF Threads, Placed, PlacedAt
  <1>2. Current(w) \in Change
    BY <1>1, ElementOfSeq DEF Current
  <1>3. ASSUME r.pc \in {"stage", "mark", "replace", "unlink", "ready", "cleanup"}
        PROVE  r.pos \in 1 .. Len(r.own) /\ Held(w) \in [id: Id, fence: Nat]
    <2>1. r.pos \in 1 .. Len(r.own)
      BY <1>1, <1>3, LenProperties DEF Placed, PlacedAt
    <2>2. QED BY <1>1, <2>1, ElementOfSeq DEF Held
  <1>4. QED BY <1>1, <1>2, <1>3


WriterType == [pc: Pc, mode: {"one", "many"}, todo: Seq(Change), pos: Nat,
               own: Seq([id: Id, fence: Nat]), snapshot: Snapshot]

(* A writer that only moves on keeps what it works at.                       *)
SameWork(w) ==
    /\ writers' \in [Writer -> WriterType]
    /\ \A v \in Writer : v # w => writers'[v] = writers[v]
    /\ writers'[w].mode = writers[w].mode /\ writers'[w].todo = writers[w].todo
    /\ writers'[w].own = writers[w].own

LEMMA GotoEffect ==
    ASSUME Threads, NEW w \in Writer, NEW pc \in Pc, Goto(w, pc)
    PROVE  /\ SameWork(w) /\ writers'[w].snapshot = writers[w].snapshot
           /\ writers'[w].pc = pc /\ writers'[w].pos = writers[w].pos
  BY DEF Goto, SameWork, Threads, WriterType

LEMMA AdvanceEffect ==
    ASSUME Threads, Placed, NEW w \in Writer, writers[w].pc # "idle",
           NEW again \in Pc, NEW next \in Pc, Advance(w, again, next)
    PROVE  /\ SameWork(w) /\ writers'[w].snapshot = writers[w].snapshot
           /\ \/ /\ writers[w].pos < Len(writers[w].todo)
                 /\ writers'[w].pc = again /\ writers'[w].pos = writers[w].pos + 1
              \/ /\ writers[w].pos = Len(writers[w].todo)
                 /\ writers'[w].pc = next /\ writers'[w].pos = 1
  <1>1. writers[w].pos \in 1 .. Len(writers[w].todo) /\ Len(writers[w].todo) \in Nat
    BY AtWork, LenProperties DEF Threads
  <1>2. writers[w] \in WriterType BY DEF Threads, WriterType
  <1>3. ASSUME NEW n \in Nat, NEW pc \in Pc, writers' = [writers EXCEPT ![w].pos = n, ![w].pc = pc]
        PROVE  /\ SameWork(w) /\ writers'[w].snapshot = writers[w].snapshot
               /\ writers'[w].pc = pc /\ writers'[w].pos = n
    <2>1. writers'[w] = [writers[w] EXCEPT !.pos = n, !.pc = pc]
      BY <1>3 DEF Threads
    <2>2. /\ writers'[w] \in WriterType /\ writers'[w].mode = writers[w].mode
          /\ writers'[w].todo = writers[w].todo /\ writers'[w].own = writers[w].own
          /\ writers'[w].snapshot = writers[w].snapshot
          /\ writers'[w].pc = pc /\ writers'[w].pos = n
      BY <1>2, <2>1 DEF WriterType
    <2>3. /\ \A v \in Writer : v # w => writers'[v] = writers[v]
          /\ writers' = [v \in Writer |-> writers'[v]]
          /\ \A v \in Writer : writers[v] \in WriterType
      BY <1>3 DEF Threads, WriterType
    <2>4. QED BY <2>2, <2>3 DEF SameWork
  <1>4. CASE writers[w].pos < Len(writers[w].todo)
    <2>1. writers' = [writers EXCEPT ![w].pos = writers[w].pos + 1, ![w].pc = again]
      BY <1>4 DEF Advance
    <2>2. writers[w].pos + 1 \in Nat BY <1>1
    <2>3. QED BY <1>3, <1>4, <2>1, <2>2
  <1>5. CASE ~(writers[w].pos < Len(writers[w].todo))
    <2>1. writers' = [writers EXCEPT ![w].pos = 1, ![w].pc = next]
      BY <1>5 DEF Advance
    <2>2. writers[w].pos = Len(writers[w].todo) BY <1>1, <1>5
    <2>3. QED BY <1>3, <2>1, <2>2
  <1>6. QED BY <1>4, <1>5

LEMMA FinishEffect ==
    ASSUME Threads, NEW w \in Writer, Finish(w)
    PROVE  /\ writers' \in [Writer -> WriterType] /\ writers'[w].pc = "idle"
           /\ \A v \in Writer : v # w => writers'[v] = writers[v]
           /\ lock' \in [Path -> Writer \cup {NoPath}]
           /\ \A p \in Path : lock[p] # w => lock'[p] = lock[p]
  BY IdleType DEF Finish, Released, Threads, WriterType, Idle


(* The records a step writes.                                               *)
LEMMA ChangeFields ==
    ASSUME NEW c \in Change
    PROVE  /\ c.kind \in Kind /\ c.path \in Path /\ c.old \in Path \cup {NoPath}
           /\ c.text \in Content
           /\ c.kind = "rename" => c.old \in Path
           /\ c.kind = "remove" => c.text = Missing
  BY DEF Change, Content

LEMMA StartEffect ==
    ASSUME Tables, Threads, NEW w \in Writer, NEW job \in Jobs, Start(w, job)
    PROVE  /\ writers' \in [Writer -> WriterType]
           /\ \A v \in Writer : v # w => writers'[v] = writers[v]
           /\ writers'[w].pc = "reserve" /\ writers'[w].mode = job.mode
           /\ writers'[w].todo = job.changes /\ writers'[w].pos = 1 /\ writers'[w].own = <<>>
           /\ DOMAIN writers'[w].snapshot = Affected(job.changes)
           /\ job.changes \in Seq(Change) /\ Len(job.changes) \in Nat \ {0}
           /\ \A k \in 1 .. Len(job.changes) : job.changes[k].path \in Affected(job.changes)
  <1> DEFINE snap == [p \in Affected(job.changes) |-> file[p]]
             new == [pc |-> "reserve", mode |-> job.mode, todo |-> job.changes, pos |-> 1,
                     own |-> <<>>, snapshot |-> snap]
  <1>1. job.changes \in Seq(Change) /\ job.changes # <<>> /\ job.mode \in {"one", "many"}
    BY OutboxAssumption
  <1>2. /\ Len(job.changes) \in Nat \ {0} /\ DOMAIN job.changes = 1 .. Len(job.changes)
        /\ \A k \in 1 .. Len(job.changes) : job.changes[k] \in Change
    BY <1>1, LenProperties, EmptySeq, ElementOfSeq
  <1>3. /\ Affected(job.changes) \subseteq Path
        /\ \A k \in 1 .. Len(job.changes) : job.changes[k].path \in Affected(job.changes)
    BY <1>2, ChangeFields DEF Affected
  <1>4. snap \in Snapshot
    <2>1. snap \in [Affected(job.changes) -> Content]
      BY <1>3 DEF Tables
    <2>2. QED BY <1>3, <2>1 DEF Snapshot
  <1>5. new \in WriterType
    BY <1>1, <1>4 DEF WriterType, Pc
  <1>6. writers' = [writers EXCEPT ![w] = new]
    BY DEF Start
  <1>7. QED BY <1>1, <1>2, <1>3, <1>5, <1>6 DEF Threads, WriterType



(* The row that reserve() inserts, and what it does to the others.           *)
LEMMA ReserveEffect ==
    ASSUME Tables, Threads, Placed, Fresh, NEW w \in Writer, Reserve(w)
    PROVE  LET new == nextId + 1
               p == Current(w).path IN
           /\ new \in Id /\ nextId' = new
           /\ intents' \in [Id -> Row \cup {NoIntent}]
           /\ intents'[new].state = "RESERVED" /\ intents'[new].by = 0 /\ intents'[new].path = p
           /\ \A i \in Id : i # new =>
                \/ intents'[i] = intents[i]
                \/ /\ i \in Blocker(p) /\ intents[i].state = "REBASE_REQUIRED"
                   /\ intents'[i].state = "REBASE_REQUIRED"
                   /\ intents'[i].path = intents[i].path /\ intents'[i].by = new
           /\ \A i \in Blocker(p) : i # new =>
                intents[i].state = "REBASE_REQUIRED" /\ intents'[i].by = new
           /\ \E held \in [id: Id, fence: Nat] :
                /\ held.id = new
                /\ writers' = [writers EXCEPT ![w].pc = "stage", ![w].own = Append(@, held)]
  <1> DEFINE new == nextId + 1
             c == Current(w)
             row(f) == [state |-> "RESERVED", path |-> c.path, old |-> c.old,
                        kind |-> c.kind, after |-> c.text,
                        before |-> file[IF c.kind = "rename" THEN c.old ELSE c.path],
                        fence |-> f + 1, by |-> 0]
  <1>1. new \in Id /\ nextId' = new /\ CanReserve(c.path)
    BY OutboxAssumption DEF Reserve, Tables, Id
  <1>2. c \in Change
    BY AtWork DEF Reserve
  <1>3. PICK f \in 0 .. 2 * MaxIntent :
          /\ intents' =
               [i \in Id |->
                  CASE i = new -> row(f)
                    [] i \in Blocker(c.path) /\ intents[i].state = "REBASE_REQUIRED" ->
                         [intents[i] EXCEPT !.by = new]
                    [] OTHER -> intents[i]]
          /\ writers' = [writers EXCEPT ![w].pc = "stage",
                                        ![w].own = Append(@, [id |-> new, fence |-> f + 1])]
    BY DEF Reserve
  <1>4. f + 1 \in Nat
    BY OutboxAssumption
  <1>5. row(f) \in Row
    <2>1. file[IF c.kind = "rename" THEN c.old ELSE c.path] \in Content
      BY <1>2, ChangeFields DEF Tables
    <2>2. 0 \in 0 .. MaxIntent BY OutboxAssumption
    <2>3. QED BY <1>2, <1>4, <2>1, <2>2, ChangeFields DEF Row, State
  <1>6. ASSUME NEW i \in Id, i # new, i \in Blocker(c.path)
        PROVE  /\ intents[i].state = "REBASE_REQUIRED" /\ intents'[i] \in Row
               /\ intents'[i].state = "REBASE_REQUIRED"
               /\ intents'[i].path = intents[i].path /\ intents'[i].by = new
    <2>1. intents[i].state = "REBASE_REQUIRED"
      BY <1>1, <1>6 DEF CanReserve
    <2>2. intents[i] \in Row
      BY <2>1 DEF Tables, NoIntent
    <2>3. intents'[i] = [intents[i] EXCEPT !.by = new]
      BY <1>3, <1>6, <2>1
    <2>4. new \in 0 .. MaxIntent
      BY <1>1 DEF Id
    <2>5. QED BY <2>1, <2>2, <2>3, <2>4 DEF Row
  <1>7. ASSUME NEW i \in Id, i # new, i \notin Blocker(c.path)
        PROVE  intents'[i] = intents[i]
    BY <1>3, <1>7
  <1>8. intents'[new] = row(f)
    <2>1. new \notin Blocker(c.path)
      BY <1>1 DEF Fresh, Tables, Blocker, Inflight, Live, Rows, NoIntent
    <2>2. QED BY <1>1, <1>3, <2>1
  <1>9. intents' \in [Id -> Row \cup {NoIntent}]
    BY <1>3, <1>5, <1>6, <1>7, <1>8 DEF Tables
  <1>10. [id |-> new, fence |-> f + 1] \in [id: Id, fence: Nat]
    BY <1>1, <1>4
  <1>11. \E held \in [id: Id, fence: Nat] :
            /\ held.id = new
            /\ writers' = [writers EXCEPT ![w].pc = "stage", ![w].own = Append(@, held)]
    <2> WITNESS [id |-> new, fence |-> f + 1] \in [id: Id, fence: Nat]
    <2>1. QED BY <1>3
  <1>12. intents'[new].state = "RESERVED" /\ intents'[new].by = 0 /\ intents'[new].path = c.path
    BY <1>8
  <1>13. \A i \in Blocker(c.path) : i \in Id
    BY DEF Blocker, Inflight, Live, Rows
  <1>14. QED BY <1>1, <1>6, <1>7, <1>9, <1>11, <1>12, <1>13


LEMMA OwnUpdated ==
    ASSUME Threads, NEW w \in Writer, NEW pc \in Pc, NEW own \in Seq([id: Id, fence: Nat])
    PROVE  writers' = [writers EXCEPT ![w].pc = pc, ![w].own = own] =>
             /\ writers' \in [Writer -> WriterType]
             /\ \A v \in Writer : v # w => writers'[v] = writers[v]
             /\ writers'[w].pc = pc /\ writers'[w].own = own
             /\ writers'[w].mode = writers[w].mode /\ writers'[w].todo = writers[w].todo
             /\ writers'[w].pos = writers[w].pos /\ writers'[w].snapshot = writers[w].snapshot
  <1>1. ASSUME writers' = [writers EXCEPT ![w].pc = pc, ![w].own = own]
        PROVE  /\ writers' \in [Writer -> WriterType]
               /\ \A v \in Writer : v # w => writers'[v] = writers[v]
               /\ writers'[w].pc = pc /\ writers'[w].own = own
               /\ writers'[w].mode = writers[w].mode /\ writers'[w].todo = writers[w].todo
               /\ writers'[w].pos = writers[w].pos /\ writers'[w].snapshot = writers[w].snapshot
    <2>1. writers[w] \in WriterType BY DEF Threads, WriterType
    <2>2. writers'[w] = [writers[w] EXCEPT !.pc = pc, !.own = own]
      BY <1>1 DEF Threads
    <2>3. /\ writers'[w] \in WriterType /\ writers'[w].mode = writers[w].mode
          /\ writers'[w].todo = writers[w].todo /\ writers'[w].own = own
          /\ writers'[w].snapshot = writers[w].snapshot
          /\ writers'[w].pc = pc /\ writers'[w].pos = writers[w].pos
      BY <2>1, <2>2 DEF WriterType
    <2>4. /\ \A v \in Writer : v # w => writers'[v] = writers[v]
          /\ writers' = [v \in Writer |-> writers'[v]]
          /\ \A v \in Writer : writers[v] \in WriterType
      BY <1>1 DEF Threads, WriterType
    <2>5. QED BY <2>3, <2>4
  <1>2. QED BY <1>1

LEMMA SnapshotUpdated ==
    ASSUME Threads, NEW w \in Writer, NEW pc \in Pc, NEW snap \in Snapshot
    PROVE  writers' = [writers EXCEPT ![w].snapshot = snap, ![w].pc = pc] =>
             /\ SameWork(w) /\ writers'[w].pos = writers[w].pos
             /\ writers'[w].pc = pc /\ writers'[w].snapshot = snap
  <1>1. ASSUME writers' = [writers EXCEPT ![w].snapshot = snap, ![w].pc = pc]
        PROVE  /\ SameWork(w) /\ writers'[w].pos = writers[w].pos
               /\ writers'[w].pc = pc /\ writers'[w].snapshot = snap
    <2>1. writers[w] \in WriterType BY DEF Threads, WriterType
    <2>2. writers'[w] = [writers[w] EXCEPT !.snapshot = snap, !.pc = pc]
      BY <1>1 DEF Threads
    <2>3. /\ writers'[w] \in WriterType /\ writers'[w].mode = writers[w].mode
          /\ writers'[w].todo = writers[w].todo /\ writers'[w].own = writers[w].own
          /\ writers'[w].snapshot = snap
          /\ writers'[w].pc = pc /\ writers'[w].pos = writers[w].pos
      BY <2>1, <2>2 DEF WriterType
    <2>4. /\ \A v \in Writer : v # w => writers'[v] = writers[v]
          /\ writers' = [v \in Writer |-> writers'[v]]
          /\ \A v \in Writer : writers[v] \in WriterType
      BY <1>1 DEF Threads, WriterType
    <2>5. QED BY <2>3, <2>4 DEF SameWork
  <1>2. QED BY <1>1

(* What reserve() and the undoing of one file make of the writer.            *)
LEMMA ReserveMoves ==
    ASSUME Threads, NEW w \in Writer, NEW held \in [id: Id, fence: Nat],
           writers' = [writers EXCEPT ![w].pc = "stage", ![w].own = Append(@, held)]
    PROVE  /\ writers' \in [Writer -> WriterType]
           /\ \A v \in Writer : v # w => writers'[v] = writers[v]
           /\ writers'[w].pc = "stage" /\ writers'[w].own = Append(writers[w].own, held)
           /\ writers'[w].mode = writers[w].mode /\ writers'[w].todo = writers[w].todo
           /\ writers'[w].pos = writers[w].pos /\ writers'[w].snapshot = writers[w].snapshot
           /\ Len(writers'[w].own) = Len(writers[w].own) + 1
           /\ writers'[w].own[Len(writers[w].own) + 1] = held
           /\ \A k \in 1 .. Len(writers[w].own) : writers'[w].own[k] = writers[w].own[k]
  <1>1. writers[w].own \in Seq([id: Id, fence: Nat])
    BY DEF Threads
  <1>2. \E own \in Seq([id: Id, fence: Nat]) :
          /\ own = Append(writers[w].own, held)
          /\ Len(own) = Len(writers[w].own) + 1
          /\ own[Len(writers[w].own) + 1] = held
          /\ \A k \in 1 .. Len(writers[w].own) : own[k] = writers[w].own[k]
    <2>1. /\ Append(writers[w].own, held) \in Seq([id: Id, fence: Nat])
          /\ Len(Append(writers[w].own, held)) = Len(writers[w].own) + 1
          /\ Append(writers[w].own, held)[Len(writers[w].own) + 1] = held
          /\ \A k \in 1 .. Len(writers[w].own) :
               Append(writers[w].own, held)[k] = writers[w].own[k]
      BY <1>1, AppendProperties
    <2>2. QED BY <2>1, Zenon
  <1>3. PICK own \in Seq([id: Id, fence: Nat]) :
          /\ own = Append(writers[w].own, held)
          /\ Len(own) = Len(writers[w].own) + 1
          /\ own[Len(writers[w].own) + 1] = held
          /\ \A k \in 1 .. Len(writers[w].own) : own[k] = writers[w].own[k]
    BY <1>2
  <1>4. writers' = [writers EXCEPT ![w].pc = "stage", ![w].own = own]
    BY <1>3
  <1>5. "stage" \in Pc BY DEF Pc
  <1>6. /\ writers' \in [Writer -> WriterType]
        /\ \A v \in Writer : v # w => writers'[v] = writers[v]
        /\ writers'[w].pc = "stage" /\ writers'[w].own = own
        /\ writers'[w].mode = writers[w].mode /\ writers'[w].todo = writers[w].todo
        /\ writers'[w].pos = writers[w].pos /\ writers'[w].snapshot = writers[w].snapshot
    BY <1>4, <1>5, OwnUpdated, Zenon
  <1>7. QED BY <1>3, <1>6

LEMMA RestoreMoves ==
    ASSUME Threads, NEW w \in Writer, NEW p \in DOMAIN writers[w].snapshot,
           writers' = [writers EXCEPT
              ![w].snapshot = [q \in DOMAIN @ \ {p} |-> @[q]],
              ![w].pc = IF DOMAIN writers[w].snapshot = {p} THEN "discard" ELSE "restore"]
    PROVE  /\ SameWork(w) /\ writers'[w].pos = writers[w].pos
           /\ writers'[w].pc =
                IF DOMAIN writers[w].snapshot = {p} THEN "discard" ELSE "restore"
           /\ DOMAIN writers'[w].snapshot = DOMAIN writers[w].snapshot \ {p}
           /\ p \in Path /\ writers[w].snapshot[p] \in Content
  <1> DEFINE old == writers[w].snapshot
  <1>1. old \in Snapshot BY DEF Threads
  <1>2. PICK S \in SUBSET Path : old \in [S -> Content]
    BY <1>1 DEF Snapshot
  <1>3. [q \in DOMAIN old \ {p} |-> old[q]] \in [S \ {p} -> Content]
    BY <1>2
  <1>4. PICK new \in Snapshot :
          new = [q \in DOMAIN old \ {p} |-> old[q]] /\ DOMAIN new = DOMAIN old \ {p}
    BY <1>2, <1>3 DEF Snapshot
  <1>5. p \in Path /\ old[p] \in Content
    BY <1>2
  <1>6. PICK pc \in Pc : pc = IF DOMAIN old = {p} THEN "discard" ELSE "restore"
    BY DEF Pc
  <1>7. writers' = [writers EXCEPT ![w].snapshot = new, ![w].pc = pc]
    BY <1>4, <1>6
  <1>8. SameWork(w) /\ writers'[w].pos = writers[w].pos /\ writers'[w].pc = pc
        /\ writers'[w].snapshot = new
    BY <1>7, SnapshotUpdated, Zenon
  <1>9. QED BY <1>4, <1>5, <1>6, <1>8

LEMMA ThreadsStep ==
    ASSUME Tables, Threads, Placed, Fresh, [Next]_vars
    PROVE  Threads'
  <1>1. ASSUME NEW w \in Writer, NEW job \in Jobs, Start(w, job)
        PROVE  Threads'
    BY <1>1, StartEffect DEF Threads, WriterType, Start
  <1>2. ASSUME NEW w \in Writer, Reserve(w)
        PROVE  Threads'
    <2>1. PICK held \in [id: Id, fence: Nat] :
            writers' = [writers EXCEPT ![w].pc = "stage", ![w].own = Append(@, held)]
      BY <1>2, ReserveEffect
    <2>2. QED BY <1>2, <2>1, ReserveMoves DEF Reserve, Threads, WriterType
  <1>3. ASSUME NEW w \in Writer, Stage(w)
        PROVE  Threads'
    BY <1>3, GotoEffect DEF Threads, WriterType, Stage, SameWork, Pc
  <1>4. ASSUME NEW w \in Writer, MarkCommitting(w)
        PROVE  Threads'
    <2>1. writers[w].pc # "idle" BY <1>4 DEF MarkCommitting
    <2>2. QED BY <1>4, <2>1, AdvanceEffect DEF MarkCommitting, Threads, SameWork, WriterType, Pc
  <1>5. ASSUME NEW w \in Writer, Replace(w)
        PROVE  Threads'
    <2>1. CASE Goto(w, "unlink")
      BY <1>5, <2>1, GotoEffect DEF Replace, Threads, SameWork, WriterType, Pc
    <2>2. CASE Advance(w, "replace", "ready")
      BY <1>5, <2>2, AdvanceEffect DEF Replace, Threads, SameWork, WriterType, Pc
    <2>3. QED BY <1>5, <2>1, <2>2 DEF Replace
  <1>6. ASSUME NEW w \in Writer, UnlinkOld(w)
        PROVE  Threads'
    <2>1. writers[w].pc # "idle" BY <1>6 DEF UnlinkOld
    <2>2. QED BY <1>6, <2>1, AdvanceEffect DEF UnlinkOld, Threads, SameWork, WriterType, Pc
  <1>7. ASSUME NEW w \in Writer, MarkReady(w)
        PROVE  Threads'
    BY <1>7, GotoEffect DEF Threads, WriterType, MarkReady, SameWork, Pc
  <1>8. ASSUME NEW w \in Writer, Cleanup(w)
        PROVE  Threads'
    <2>1. CASE Finish(w)
      BY <2>1, FinishEffect DEF Threads, WriterType
    <2>2. CASE ~Finish(w)
      <3>1. Advance(w, "ready", "ready") /\ UNCHANGED lock
        BY <1>8, <2>2 DEF Cleanup, Advance
      <3>2. QED BY <1>8, <3>1, AdvanceEffect DEF Cleanup, Threads, SameWork, WriterType, Pc
    <2>3. QED BY <2>1, <2>2
  <1>9. ASSUME NEW w \in Writer, Restore(w)
        PROVE  Threads'
    <2>1. PICK p \in DOMAIN writers[w].snapshot : writers' = [writers EXCEPT
              ![w].snapshot = [q \in DOMAIN @ \ {p} |-> @[q]],
              ![w].pc = IF DOMAIN writers[w].snapshot = {p} THEN "discard" ELSE "restore"]
      BY <1>9 DEF Restore
    <2>2. QED BY <1>9, <2>1, RestoreMoves DEF Restore, Threads, SameWork, WriterType
  <1>10. ASSUME NEW w \in Writer, Discard(w)
        PROVE  Threads'
    BY <1>10, FinishEffect DEF Threads, WriterType, Discard
  <1>11. ASSUME NEW w \in Writer, FailOne(w)
        PROVE  Threads'
    BY <1>11, FinishEffect DEF Threads, WriterType, FailOne
  <1>12. ASSUME NEW w \in Writer, FailMany(w)
        PROVE  Threads'
    BY <1>12, GotoEffect DEF Threads, WriterType, FailMany, SameWork, Pc
  <1>13. ASSUME NEW w \in Writer, RollbackFails(w)
        PROVE  Threads'
    BY <1>13, FinishEffect DEF Threads, WriterType, RollbackFails
  <1>14. ASSUME NEW i \in recovery, Replay(i)
        PROVE  Threads'
    BY <1>14 DEF Threads, WriterType, Replay
  <1>15. ASSUME NEW i \in recovery, Recover(i)
        PROVE  Threads'
    BY <1>15 DEF Threads, WriterType, Recover
  <1>16. CASE ReadReady
    BY <1>16 DEF Threads, WriterType, ReadReady
  <1>17. ASSUME NEW f \in forward, Send(f)
        PROVE  Threads'
    BY <1>17 DEF Threads, WriterType, Send
  <1>18. ASSUME NEW f \in forward, MarkDelivered(f)
        PROVE  Threads'
    BY <1>18 DEF Threads, WriterType, MarkDelivered
  <1>19. ASSUME NEW f \in forward, GiveUp(f)
        PROVE  Threads'
    BY <1>19 DEF Threads, WriterType, GiveUp
  <1>20. CASE ForwarderRestart
    BY <1>20 DEF Threads, WriterType, ForwarderRestart
  <1>21. ASSUME NEW p \in Path, NEW text \in Text \cup {Missing}, Edit(p, text)
        PROVE  Threads'
    BY <1>21 DEF Threads, WriterType, Edit
  <1>22. CASE Crash
    BY <1>22, IdleType DEF Threads, WriterType, Crash, WriterType
  <1>23. CASE UNCHANGED vars
    BY <1>23 DEF Threads, WriterType, vars
  <1>24. QED BY <1>1, <1>2, <1>3, <1>4, <1>5, <1>6, <1>7, <1>8, <1>9, <1>10, <1>11, <1>12, <1>13,
    <1>14, <1>15, <1>16, <1>17, <1>18, <1>19, <1>20, <1>21, <1>22, <1>23 DEF Next, WriterNext,
    ForwarderNext

-----------------------------------------------------------------------------
(* Commits keep out of each other's way.                                    *)

(* The intent of a running commit is a row of a path it has locked.          *)
LEMMA OwnLocked ==
    ASSUME Tables, Threads, Placed, LocksHeld, OwnRows, NEW v \in Writer,
           writers[v].pc # "idle", NEW k \in 1 .. Len(writers[v].own)
    PROVE  LET i == writers[v].own[k].id IN
           /\ i \in Id /\ k \in 1 .. Len(writers[v].todo)
           /\ intents[i] \in Row /\ intents[i].path = writers[v].todo[k].path
           /\ lock[intents[i].path] = v /\ lock[intents[i].path] # NoPath
           /\ intents[i].state \in PhaseStates(writers[v], k)
           /\ intents[i].state \in {"RESERVED", "COMMITTING", "READY", "DELIVERED"}
  <1> DEFINE i == writers[v].own[k].id
  <1>1. /\ writers[v].own \in Seq([id: Id, fence: Nat]) /\ writers[v].todo \in Seq(Change)
        /\ Len(writers[v].own) <= Len(writers[v].todo)
    BY DEF Threads, Placed, PlacedAt
  <1>2. i \in Id /\ k \in 1 .. Len(writers[v].todo)
    <2>1. writers[v].own[k] \in [id: Id, fence: Nat]
      BY <1>1, ElementOfSeq
    <2>2. QED BY <1>1, <2>1, LenProperties
  <1>3. intents[i].path = writers[v].todo[k].path /\ intents[i].state \in PhaseStates(writers[v], k)
    BY DEF OwnRows
  <1>4. intents[i].state \in {"RESERVED", "COMMITTING", "READY", "DELIVERED"}
    BY <1>3 DEF PhaseStates
  <1>5. intents[i] \in Row
    BY <1>2, <1>4 DEF Tables, NoIntent
  <1>6. lock[intents[i].path] = v
    BY <1>2, <1>3 DEF LocksHeld
  <1>7. v # NoPath
    BY OutboxAssumption
  <1>8. QED BY <1>2, <1>3, <1>4, <1>5, <1>6, <1>7

LEMMA OwnApart ==
    ASSUME Tables, Threads, Placed, LocksHeld, OwnRows,
           NEW v \in Writer, writers[v].pc # "idle", NEW k \in 1 .. Len(writers[v].own),
           NEW w \in Writer, writers[w].pc # "idle", NEW l \in 1 .. Len(writers[w].own), v # w
    PROVE  writers[v].own[k].id # writers[w].own[l].id
  <1>1. lock[intents[writers[v].own[k].id].path] = v
    BY OwnLocked
  <1>2. lock[intents[writers[w].own[l].id].path] = w
    BY OwnLocked
  <1>3. QED BY <1>1, <1>2

(* A step of one writer leaves the intents of the others as they are.        *)
WriterStep(w) == WriterNext(w) \/ FailOne(w) \/ FailMany(w) \/ RollbackFails(w)

OutsideOwn(w, i) == \A l \in 1 .. Len(writers[w].own) : writers[w].own[l].id # i

LEMMA NotOwn ==
    ASSUME Threads, NEW w \in Writer, NEW i, OutsideOwn(w, i)
    PROVE  i \notin OwnIds(w)
  <1>1. writers[w].own \in Seq([id: Id, fence: Nat])
    BY DEF Threads
  <1>2. DOMAIN writers[w].own = 1 .. Len(writers[w].own)
    BY <1>1, LenProperties
  <1>3. QED BY <1>2 DEF OutsideOwn, OwnIds

LEMMA OthersKept ==
    ASSUME Tables, Threads, Placed, LocksHeld, OwnRows, Fresh, NEW w \in Writer, WriterStep(w),
           NEW v \in Writer, v # w, writers[v].pc # "idle", NEW k \in 1 .. Len(writers[v].own)
    PROVE  /\ intents'[writers[v].own[k].id] = intents[writers[v].own[k].id]
           /\ writers[v].own[k].id \in applied' <=> writers[v].own[k].id \in applied
  <1> DEFINE i == writers[v].own[k].id
  <1>1. writers[w].pc # "idle"
    BY DEF WriterStep, WriterNext, Reserve, Stage, MarkCommitting, Replace, UnlinkOld, MarkReady,
           Cleanup, Restore, Discard, FailOne, FailMany, RollbackFails
  <1>2. OutsideOwn(w, i)
    BY <1>1, OwnApart DEF OutsideOwn
  <1>3. i \in Id /\ i \notin OwnIds(w)
    BY <1>2, OwnLocked, NotOwn
  <1>4. ASSUME writers[w].pc \in {"stage", "mark", "replace", "unlink", "ready", "cleanup"}
        PROVE  Held(w).id # i
    BY <1>1, <1>2, <1>4, AtWork DEF OutsideOwn, Held
  <1>5. CASE Reserve(w)
    <2>1. i # nextId + 1
      <3>1. intents[i].state # "none"
        BY OwnLocked
      <3>2. QED BY <1>3, <3>1 DEF Fresh, Tables, NoIntent
    <2>2. i \notin Blocker(Current(w).path)
      <3>1. lock[Current(w).path] = w
        BY <1>1, AtWork DEF LocksHeld, Current
      <3>2. QED BY <3>1, OwnLocked DEF Blocker
    <2>3. intents'[i] = intents[i]
      BY <1>3, <1>5, <2>1, <2>2, ReserveEffect
    <2>4. QED BY <1>5, <2>3 DEF Reserve
  <1>6. CASE Stage(w) \/ Cleanup(w) \/ UnlinkOld(w) \/ FailMany(w) \/ RollbackFails(w)
    BY <1>6 DEF Stage, Cleanup, UnlinkOld, FailMany, RollbackFails
  <1>7. CASE MarkCommitting(w) \/ MarkReady(w) \/ Replace(w)
    BY <1>3, <1>4, <1>7 DEF MarkCommitting, MarkReady, Replace, Tables
  <1>8. CASE FailOne(w)
    BY <1>3, <1>4, <1>8 DEF FailOne, Tables
  <1>9. CASE Restore(w)
    BY <1>3, <1>9 DEF Restore
  <1>10. CASE Discard(w)
    BY <1>3, <1>10 DEF Discard
  <1>11. QED
    BY <1>5, <1>6, <1>7, <1>8, <1>9, <1>10 DEF WriterStep, WriterNext

(* recover() waits for the lock of the path, so it never looks at the intent *)
(* of a running commit.                                                     *)
LEMMA RecoveryElsewhere ==
    ASSUME Tables, Threads, Placed, LocksHeld, OwnRows, NEW i \in Id, Unlocked(i),
           NEW v \in Writer, writers[v].pc # "idle", NEW k \in 1 .. Len(writers[v].own)
    PROVE  writers[v].own[k].id # i
  BY OwnLocked DEF Unlocked

-----------------------------------------------------------------------------
(* The tables.                                                              *)

(* The intent a writer works at.                                            *)
LEMMA AtIntent ==
    ASSUME Tables, Threads, Placed, LocksHeld, OwnRows, NEW w \in Writer,
           writers[w].pc \in {"stage", "mark", "replace", "unlink", "ready", "cleanup"}
    PROVE  LET i == Held(w).id IN
           /\ i \in Id /\ intents[i] \in Row /\ intents[i].path = Current(w).path
           /\ writers[w].pos \in 1 .. Len(writers[w].own)
           /\ intents[i].state \in PhaseStates(writers[w], writers[w].pos)
           /\ intents[i].state \in {"RESERVED", "COMMITTING", "READY", "DELIVERED"}
           /\ Current(w) \in Change
  <1>1. writers[w].pc # "idle"
    OBVIOUS
  <1>2. writers[w].pos \in 1 .. Len(writers[w].own) /\ Current(w) \in Change
    BY <1>1, AtWork
  <1>3. QED BY <1>1, <1>2, OwnLocked DEF Held, Current

(* A row in another state, its fence token kept or raised.                   *)
Moved(row, s, new) ==
    \/ new = [row EXCEPT !.state = s]
    \/ new = [row EXCEPT !.state = s, !.fence = @ + 1]

LEMMA RowMoved ==
    ASSUME NEW row \in Row, NEW s \in State, NEW new, Moved(row, s, new)
    PROVE  new \in Row /\ new.state = s /\ new.path = row.path /\ new.by = row.by
  <1>1. CASE new = [row EXCEPT !.state = s]
    BY <1>1 DEF Row
  <1>2. CASE new = [row EXCEPT !.state = s, !.fence = @ + 1]
    <2>1. row.fence \in Nat /\ row.fence + 1 \in Nat
      BY DEF Row
    <2>2. PICK n \in Nat : n = row.fence + 1
      BY <2>1
    <2>3. new = [row EXCEPT !.state = s, !.fence = n]
      BY <1>2, <2>2
    <2>4. QED BY <2>3 DEF Row
  <1>3. QED BY <1>1, <1>2 DEF Moved

(* One row moves to another state, the others stay.                         *)
RowTo(i, s) ==
    /\ intents' \in [Id -> Row \cup {NoIntent}]
    /\ intents'[i].state = s /\ intents'[i].path = intents[i].path
    /\ intents'[i].by = intents[i].by
    /\ \A j \in Id : j # i => intents'[j] = intents[j]

LEMMA MovesRow ==
    ASSUME Tables, NEW i \in Id, intents[i] \in Row, NEW s \in State,
           \/ intents' = [intents EXCEPT ![i].state = s]
           \/ intents' = [intents EXCEPT ![i] = [intents[i] EXCEPT !.state = s, !.fence = @ + 1]]
    PROVE  RowTo(i, s)
  <1> DEFINE new == intents'[i]
  <1>1. \/ intents'[i] = [intents[i] EXCEPT !.state = s]
        \/ intents'[i] = [intents[i] EXCEPT !.state = s, !.fence = @ + 1]
    BY DEF Tables
  <1>2. /\ intents'[i] \in Row /\ intents'[i].state = s
        /\ intents'[i].path = intents[i].path /\ intents'[i].by = intents[i].by
    <2>1. Moved(intents[i], s, intents'[i])
      BY <1>1 DEF Moved
    <2>2. QED BY <2>1, RowMoved
  <1>3. \A j \in Id : j # i => intents'[j] = intents[j]
    BY DEF Tables
  <1>4. intents' = [j \in Id |-> intents'[j]]
    BY DEF Tables
  <1>5. \A j \in Id : intents'[j] \in Row \cup {NoIntent}
    BY <1>2, <1>3 DEF Tables
  <1>6. QED BY <1>2, <1>3, <1>4, <1>5 DEF RowTo

LEMMA MarkCommittingMoves ==
    ASSUME Tables, Threads, Placed, LocksHeld, OwnRows, NEW w \in Writer, MarkCommitting(w)
    PROVE  /\ intents[Held(w).id].state = "RESERVED" /\ intents[Held(w).id].by = 0
           /\ RowTo(Held(w).id, "COMMITTING") /\ Held(w).id \in Id
  BY AtIntent, MovesRow DEF MarkCommitting, Owned, State

LEMMA MarkReadyMoves ==
    ASSUME Tables, Threads, Placed, LocksHeld, OwnRows, NEW w \in Writer, MarkReady(w)
    PROVE  /\ intents[Held(w).id].state = "COMMITTING" /\ intents[Held(w).id].by = 0
           /\ RowTo(Held(w).id, "READY") /\ Held(w).id \in Id
  BY AtIntent, MovesRow DEF MarkReady, Owned, State

LEMMA MarkDeliveredMoves ==
    ASSUME Tables, NEW f \in forward, MarkDelivered(f)
    PROVE  \/ intents' = intents
           \/ intents[f.id].state = "READY" /\ RowTo(f.id, "DELIVERED") /\ f.id \in Id
  <1>1. CASE Owned(f, "READY")
    <2>1. f.id \in Id /\ intents[f.id].state = "READY"
      BY <1>1 DEF Tables, Owned
    <2>2. intents[f.id] \in Row
      BY <2>1 DEF Tables, NoIntent
    <2>3. intents' = [intents EXCEPT ![f.id].state = "DELIVERED"]
      BY <1>1 DEF MarkDelivered
    <2>4. "DELIVERED" \in State BY DEF State
    <2>5. QED BY <2>1, <2>2, <2>3, <2>4, MovesRow
  <1>2. CASE ~Owned(f, "READY")
    BY <1>2 DEF MarkDelivered
  <1>3. QED BY <1>1, <1>2

(* recover() settles a row, drops it or leaves it.                          *)
LEMMA RecoverMoves ==
    ASSUME Tables, NEW i \in recovery, Recover(i)
    PROVE  /\ i \in Id
           /\ \/ /\ Committing(i)
                 /\ \/ RowTo(i, "READY") /\ applied' = applied \cup {i}
                    \/ RowTo(i, "REBASE_REQUIRED") /\ applied' = applied
              \/ /\ intents[i].state = "RESERVED" /\ applied' = applied
                 /\ intents' = [intents EXCEPT ![i] = NoIntent]
              \/ intents' = intents /\ applied' = applied
  <1>1. i \in Id
    BY DEF Tables
  <1>2. CASE Committing(i)
    <2>1. intents[i] \in Row
      BY <1>1, <1>2 DEF Committing, Tables, NoIntent
    <2>2. CASE file[intents[i].path] = intents[i].after
      <3>1. /\ intents' = [intents EXCEPT ![i] =
                           [intents[i] EXCEPT !.state = "READY", !.fence = @ + 1]]
            /\ applied' = applied \cup {i}
        BY <1>2, <2>2 DEF Recover, Committing
      <3>2. "READY" \in State BY DEF State
      <3>3. RowTo(i, "READY")
        BY <1>1, <2>1, <3>1, <3>2, MovesRow
      <3>4. QED BY <1>1, <1>2, <3>1, <3>3
    <2>3. CASE file[intents[i].path] # intents[i].after
      <3>1. /\ intents' = [intents EXCEPT ![i] =
                           [intents[i] EXCEPT !.state = "REBASE_REQUIRED", !.fence = @ + 1]]
            /\ applied' = applied
        BY <1>2, <2>3 DEF Recover, Committing
      <3>2. "REBASE_REQUIRED" \in State BY DEF State
      <3>3. RowTo(i, "REBASE_REQUIRED")
        BY <1>1, <2>1, <3>1, <3>2, MovesRow
      <3>4. QED BY <1>1, <1>2, <3>1, <3>3
    <2>4. QED BY <2>2, <2>3
  <1>3. CASE ~Committing(i)
    <2>1. applied' = applied
      BY <1>3 DEF Recover
    <2>2. CASE intents[i].state = "RESERVED" /\ intents[i].by = 0
      BY <1>1, <1>3, <2>1, <2>2 DEF Recover
    <2>3. CASE ~(intents[i].state = "RESERVED" /\ intents[i].by = 0)
      <3>1. intents' = [intents EXCEPT ![i] = intents[i]]
        BY <1>3, <2>3 DEF Recover
      <3>2. intents' = intents
        BY <3>1 DEF Tables
      <3>3. QED BY <1>1, <2>1, <3>2
    <2>4. QED BY <2>2, <2>3
  <1>4. QED BY <1>2, <1>3

LEMMA TablesStep ==
    ASSUME Tables, Threads, Placed, LocksHeld, OwnRows, Fresh, [Next]_vars
    PROVE  Tables'
  <1>1. ASSUME NEW w \in Writer, NEW job \in Jobs, Start(w, job)
        PROVE  Tables'
    BY <1>1 DEF Tables, Content, Start
  <1>2. ASSUME NEW w \in Writer, Reserve(w)
        PROVE  Tables'
    <2>1. nextId + 1 \in 0 .. MaxIntent
      BY <1>2, OutboxAssumption DEF Reserve, Tables
    <2>2. QED BY <1>2, <2>1, ReserveEffect DEF Reserve, Tables
  <1>3. ASSUME NEW w \in Writer, Stage(w)
        PROVE  Tables'
    <2>1. Held(w).id \in Id /\ Current(w).text \in Content
      BY <1>3, AtIntent, ChangeFields DEF Stage
    <2>2. QED BY <1>3, <2>1 DEF Stage, Tables, Content
  <1>4. ASSUME NEW w \in Writer, MarkCommitting(w)
        PROVE  Tables'
    BY <1>4, MarkCommittingMoves DEF Tables, Content, MarkCommitting, RowTo
  <1>5. ASSUME NEW w \in Writer, Replace(w)
        PROVE  Tables'
    <2>1. /\ Held(w).id \in Id /\ Current(w).path \in Path /\ Current(w).text \in Content
          /\ file[Current(w).path] \in Content
      BY <1>5, AtIntent, ChangeFields DEF Replace, Tables
    <2>2. /\ file' = [file EXCEPT ![Current(w).path] = Current(w).text]
          /\ stage' = [stage EXCEPT ![Held(w).id] =
               IF Current(w).kind = "remove" THEN file[Current(w).path] ELSE Missing]
          /\ applied' = applied \cup {Held(w).id}
          /\ UNCHANGED <<intents, nextId, recovery, forward, mail>>
      BY <1>5 DEF Replace
    <2>3. QED BY <2>1, <2>2 DEF Tables, Content
  <1>6. ASSUME NEW w \in Writer, UnlinkOld(w)
        PROVE  Tables'
    BY <1>6 DEF Tables, Content, UnlinkOld
  <1>7. ASSUME NEW w \in Writer, MarkReady(w)
        PROVE  Tables'
    BY <1>7, MarkReadyMoves DEF Tables, Content, MarkReady, RowTo
  <1>8. ASSUME NEW w \in Writer, Cleanup(w)
        PROVE  Tables'
    BY <1>8 DEF Tables, Content, Cleanup
  <1>9. ASSUME NEW w \in Writer, Restore(w)
        PROVE  Tables'
    <2>1. PICK p \in DOMAIN writers[w].snapshot :
            /\ file' = [file EXCEPT ![p] = writers[w].snapshot[p]]
            /\ writers' = [writers EXCEPT
                 ![w].snapshot = [q \in DOMAIN @ \ {p} |-> @[q]],
                 ![w].pc = IF DOMAIN writers[w].snapshot = {p} THEN "discard" ELSE "restore"]
            /\ applied' = {i \in applied : ~(i \in OwnIds(w) /\ intents[i].path = p)}
      BY <1>9 DEF Restore
    <2>2. p \in Path /\ writers[w].snapshot[p] \in Content
      BY <2>1, RestoreMoves
    <2>3. QED BY <1>9, <2>1, <2>2 DEF Restore, Tables
  <1>10. ASSUME NEW w \in Writer, Discard(w)
        PROVE  Tables'
    BY <1>10 DEF Tables, Content, Discard
  <1>11. ASSUME NEW w \in Writer, FailOne(w)
        PROVE  Tables'
    BY <1>11 DEF Tables, Content, FailOne
  <1>12. ASSUME NEW w \in Writer, FailMany(w)
        PROVE  Tables'
    BY <1>12 DEF Tables, Content, FailMany
  <1>13. ASSUME NEW w \in Writer, RollbackFails(w)
        PROVE  Tables'
    BY <1>13 DEF Tables, Content, RollbackFails
  <1>14. ASSUME NEW i \in recovery, Replay(i)
        PROVE  Tables'
    <2>1. i \in Id /\ intents[i] \in Row
      BY <1>14 DEF Replay, Committing, Tables, NoIntent
    <2>2. intents[i].path \in Path /\ intents[i].before \in Content /\ intents[i].after \in Content
      BY <2>1 DEF Row
    <2>3. QED BY <1>14, <2>1, <2>2 DEF Replay, Tables, Content
  <1>15. ASSUME NEW i \in recovery, Recover(i)
        PROVE  Tables'
    <2>1. intents' \in [Id -> Row \cup {NoIntent}] /\ applied' \subseteq Id
      BY <1>15, RecoverMoves DEF Tables, RowTo
    <2>2. QED BY <1>15, <2>1 DEF Recover, Tables, Content
  <1>16. CASE ReadReady
    <2>1. ASSUME NEW j \in Id, intents[j].state = "READY"
          PROVE  intents[j].fence \in Nat
      BY <2>1 DEF Tables, NoIntent, Row
    <2>2. forward' \subseteq [id: Id, fence: Nat, sent: BOOLEAN]
      <3>1. ASSUME NEW g \in forward'
            PROVE  g \in [id: Id, fence: Nat, sent: BOOLEAN]
        <4>1. PICK j \in Id : /\ intents[j].state = "READY"
                              /\ g = [id |-> j, fence |-> intents[j].fence, sent |-> FALSE]
          BY <1>16 DEF ReadReady, Live, Rows
        <4>2. QED BY <2>1, <4>1
      <3>2. QED BY <3>1
    <2>3. QED BY <1>16, <2>2 DEF ReadReady, Tables
  <1>17. ASSUME NEW f \in forward, Send(f)
        PROVE  Tables'
    <2>1. f \in [id: Id, fence: Nat, sent: BOOLEAN]
      BY DEF Tables
    <2>2. f.id \in Id /\ [f EXCEPT !.sent = TRUE] \in [id: Id, fence: Nat, sent: BOOLEAN]
      BY <2>1
    <2>3. QED BY <1>17, <2>2 DEF Send, Tables
  <1>18. ASSUME NEW f \in forward, MarkDelivered(f)
        PROVE  Tables'
    BY <1>18, MarkDeliveredMoves DEF Tables, Content, MarkDelivered, RowTo
  <1>19. ASSUME NEW f \in forward, GiveUp(f)
        PROVE  Tables'
    BY <1>19 DEF Tables, Content, GiveUp
  <1>20. CASE ForwarderRestart
    BY <1>20 DEF Tables, Content, ForwarderRestart, Rows
  <1>21. ASSUME NEW p \in Path, NEW text \in Text \cup {Missing}, Edit(p, text)
        PROVE  Tables'
    BY <1>21 DEF Tables, Content, Edit
  <1>22. CASE Crash
    BY <1>22 DEF Tables, Content, Crash, Rows
  <1>23. CASE UNCHANGED vars
    BY <1>23 DEF Tables, Content, vars
  <1>24. QED BY <1>1, <1>2, <1>3, <1>4, <1>5, <1>6, <1>7, <1>8, <1>9, <1>10, <1>11, <1>12, <1>13,
    <1>14, <1>15, <1>16, <1>17, <1>18, <1>19, <1>20, <1>21, <1>22, <1>23 DEF Next, WriterNext,
    ForwarderNext


-----------------------------------------------------------------------------
(* One unfinished change per path.                                          *)

LEMMA FewerInflight ==
    ASSUME OneInflightPerPath,
           \A i \in Inflight' : i \in Inflight /\ intents'[i].path = intents[i].path
    PROVE  OneInflightPerPath'
  BY DEF OneInflightPerPath

LEMMA InflightIds == ASSUME NEW i \in Inflight PROVE i \in Id
  BY DEF Inflight, Live, Rows

LEMMA FewerWhenMoved ==
    ASSUME OneInflightPerPath, NEW i \in Id, NEW s, RowTo(i, s),
           i \in Inflight \/ s \in {"READY", "DELIVERED"}
    PROVE  OneInflightPerPath'
  <1>1. ASSUME NEW j \in Inflight'
        PROVE  j \in Inflight /\ intents'[j].path = intents[j].path
    <2>1. j \in Id
      BY DEF Inflight, Live, Rows
    <2>2. CASE j # i
      BY <2>1, <2>2 DEF RowTo, Inflight, Live, Rows
    <2>3. CASE j = i
      BY <2>1, <2>3 DEF RowTo, Inflight, Live, Rows
    <2>4. QED BY <2>2, <2>3
  <1>2. QED BY <1>1, FewerInflight

LEMMA FewerWhenDropped ==
    ASSUME Tables, OneInflightPerPath,
           \A j \in Id : intents'[j] = NoIntent \/ intents'[j] = intents[j]
    PROVE  OneInflightPerPath'
  <1>1. ASSUME NEW j \in Inflight'
        PROVE  j \in Inflight /\ intents'[j].path = intents[j].path
    <2>1. j \in Id
      BY DEF Inflight, Live, Rows
    <2>2. CASE intents'[j] = intents[j]
      BY <2>1, <2>2 DEF Inflight, Live, Rows
    <2>3. CASE intents'[j] = NoIntent
      BY <2>1, <2>3 DEF Inflight, Live, Rows, NoIntent
    <2>4. QED BY <2>1, <2>2, <2>3
  <1>2. QED BY <1>1, FewerInflight

(* reserve() supersedes the one intent that waits for a rebase of the path.  *)
LEMMA ReserveReplaces ==
    ASSUME Tables, Threads, Placed, Fresh, OneInflightPerPath, NEW w \in Writer, Reserve(w)
    PROVE  OneInflightPerPath'
  <1> DEFINE new == nextId + 1
             p == Current(w).path
  <1>1. /\ new \in Id /\ intents'[new].path = p
        /\ \A i \in Id : i # new =>
             \/ intents'[i] = intents[i]
             \/ i \in Blocker(p) /\ intents'[i].by = new
        /\ \A i \in Blocker(p) : i # new => intents'[i].by = new
    BY ReserveEffect
  <1>2. new # 0
    BY DEF Tables
  <1>3. ASSUME NEW i \in Inflight', i # new
        PROVE  i \in Inflight /\ intents'[i] = intents[i] /\ i \notin Blocker(p)
    <2>1. i \in Id /\ intents'[i].by = 0
      BY DEF Inflight, Live, Rows
    <2>2. intents'[i] = intents[i] /\ i \notin Blocker(p)
      BY <1>1, <1>2, <1>3, <2>1
    <2>3. QED BY <2>1, <2>2 DEF Inflight, Live, Rows
  <1>4. ASSUME NEW i \in Inflight', i # new
        PROVE  intents'[i].path # p
    <2>1. i \in Inflight /\ intents'[i] = intents[i] /\ i \notin Blocker(p)
      BY <1>3, <1>4
    <2>2. ASSUME intents[i].path = p
          PROVE  \A j \in Inflight : intents[j].path = p => j <= i
      BY <2>1, <2>2, InflightIds DEF OneInflightPerPath, Id
    <2>3. QED BY <2>1, <2>2 DEF Blocker
  <1>5. QED BY <1>1, <1>3, <1>4 DEF OneInflightPerPath

LEMMA OneInflightStep ==
    ASSUME Tables, Threads, Placed, LocksHeld, OwnRows, Fresh, OneInflightPerPath,
           [Next]_vars
    PROVE  OneInflightPerPath'
  <1>1. ASSUME NEW w \in Writer, NEW job \in Jobs, Start(w, job)
        PROVE  OneInflightPerPath'
    BY <1>1 DEF OneInflightPerPath, Inflight, Live, Rows, Start
  <1>2. ASSUME NEW w \in Writer, Reserve(w)
        PROVE  OneInflightPerPath'
    BY <1>2, ReserveReplaces DEF OneInflightPerPath, Inflight, Live, Rows, Reserve
  <1>3. ASSUME NEW w \in Writer, Stage(w)
        PROVE  OneInflightPerPath'
    BY <1>3 DEF OneInflightPerPath, Inflight, Live, Rows, Stage
  <1>4. ASSUME NEW w \in Writer, MarkCommitting(w)
        PROVE  OneInflightPerPath'
    <2>1. Held(w).id \in Inflight
      BY <1>4, MarkCommittingMoves DEF Inflight, Live, Rows
    <2>2. QED BY <1>4, <2>1, MarkCommittingMoves, FewerWhenMoved
  <1>5. ASSUME NEW w \in Writer, Replace(w)
        PROVE  OneInflightPerPath'
    BY <1>5 DEF OneInflightPerPath, Inflight, Live, Rows, Replace
  <1>6. ASSUME NEW w \in Writer, UnlinkOld(w)
        PROVE  OneInflightPerPath'
    BY <1>6 DEF OneInflightPerPath, Inflight, Live, Rows, UnlinkOld
  <1>7. ASSUME NEW w \in Writer, MarkReady(w)
        PROVE  OneInflightPerPath'
    <2>1. QED BY <1>7, MarkReadyMoves, FewerWhenMoved
  <1>8. ASSUME NEW w \in Writer, Cleanup(w)
        PROVE  OneInflightPerPath'
    BY <1>8 DEF OneInflightPerPath, Inflight, Live, Rows, Cleanup
  <1>9. ASSUME NEW w \in Writer, Restore(w)
        PROVE  OneInflightPerPath'
    BY <1>9 DEF OneInflightPerPath, Inflight, Live, Rows, Restore
  <1>10. ASSUME NEW w \in Writer, Discard(w)
        PROVE  OneInflightPerPath'
    <2>1. \A j \in Id : intents'[j] = NoIntent \/ intents'[j] = intents[j]
      BY <1>10 DEF Discard
    <2>2. QED BY <2>1, FewerWhenDropped
  <1>11. ASSUME NEW w \in Writer, FailOne(w)
        PROVE  OneInflightPerPath'
    <2>1. \A j \in Id : intents'[j] = NoIntent \/ intents'[j] = intents[j]
      BY <1>11 DEF FailOne, Tables
    <2>2. QED BY <2>1, FewerWhenDropped
  <1>12. ASSUME NEW w \in Writer, FailMany(w)
        PROVE  OneInflightPerPath'
    BY <1>12 DEF OneInflightPerPath, Inflight, Live, Rows, FailMany
  <1>13. ASSUME NEW w \in Writer, RollbackFails(w)
        PROVE  OneInflightPerPath'
    BY <1>13 DEF OneInflightPerPath, Inflight, Live, Rows, RollbackFails
  <1>14. ASSUME NEW i \in recovery, Replay(i)
        PROVE  OneInflightPerPath'
    BY <1>14 DEF OneInflightPerPath, Inflight, Live, Rows, Replay
  <1>15. ASSUME NEW i \in recovery, Recover(i)
        PROVE  OneInflightPerPath'
    <2>1. i \in Id
      BY DEF Tables
    <2>2. CASE Committing(i) /\ (RowTo(i, "READY") \/ RowTo(i, "REBASE_REQUIRED"))
      <3>1. i \in Inflight
        BY <2>1, <2>2 DEF Committing, Inflight, Live, Rows
      <3>2. QED BY <2>1, <2>2, <3>1, FewerWhenMoved
    <2>3. CASE intents' = [intents EXCEPT ![i] = NoIntent] \/ intents' = intents
      <3>1. \A j \in Id : intents'[j] = NoIntent \/ intents'[j] = intents[j]
        BY <2>3 DEF Tables
      <3>2. QED BY <3>1, FewerWhenDropped
    <2>4. QED BY <1>15, <2>2, <2>3, RecoverMoves
  <1>16. CASE ReadReady
    BY <1>16 DEF OneInflightPerPath, Inflight, Live, Rows, ReadReady
  <1>17. ASSUME NEW f \in forward, Send(f)
        PROVE  OneInflightPerPath'
    BY <1>17 DEF OneInflightPerPath, Inflight, Live, Rows, Send
  <1>18. ASSUME NEW f \in forward, MarkDelivered(f)
        PROVE  OneInflightPerPath'
    <2>1. CASE intents' = intents
      BY <2>1 DEF OneInflightPerPath, Inflight, Live, Rows
    <2>2. CASE RowTo(f.id, "DELIVERED") /\ f.id \in Id
      BY <2>2, FewerWhenMoved
    <2>3. QED BY <1>18, <2>1, <2>2, MarkDeliveredMoves
  <1>19. ASSUME NEW f \in forward, GiveUp(f)
        PROVE  OneInflightPerPath'
    BY <1>19 DEF OneInflightPerPath, Inflight, Live, Rows, GiveUp
  <1>20. CASE ForwarderRestart
    BY <1>20 DEF OneInflightPerPath, Inflight, Live, Rows, ForwarderRestart
  <1>21. ASSUME NEW p \in Path, NEW text \in Text \cup {Missing}, Edit(p, text)
        PROVE  OneInflightPerPath'
    BY <1>21 DEF OneInflightPerPath, Inflight, Live, Rows, Edit
  <1>22. CASE Crash
    BY <1>22 DEF OneInflightPerPath, Inflight, Live, Rows, Crash
  <1>23. CASE UNCHANGED vars
    BY <1>23 DEF OneInflightPerPath, Inflight, Live, Rows, vars
  <1>24. QED BY <1>1, <1>2, <1>3, <1>4, <1>5, <1>6, <1>7, <1>8, <1>9, <1>10, <1>11, <1>12, <1>13,
    <1>14, <1>15, <1>16, <1>17, <1>18, <1>19, <1>20, <1>21, <1>22, <1>23 DEF Next, WriterNext,
    ForwarderNext

-----------------------------------------------------------------------------
(* A change that was made keeps its intent.                                 *)

LEMMA RecordedWhenMoved ==
    ASSUME Tables, WrittenIsRecorded, NEW i \in Id, NEW s, RowTo(i, s), applied' = applied,
           mail' = mail, s \in {"COMMITTING", "READY", "REBASE_REQUIRED", "DELIVERED"},
           s = "DELIVERED" => i \in mail
    PROVE  WrittenIsRecorded'
  BY DEF WrittenIsRecorded, RowTo

(* Rows of changes that were not made may go.                               *)
LEMMA RecordedWhenDropped ==
    ASSUME Tables, WrittenIsRecorded, applied' \subseteq applied, mail' = mail,
           \A j \in Id : \/ intents'[j] = intents[j]
                         \/ intents'[j] = NoIntent /\ j \notin applied'
    PROVE  WrittenIsRecorded'
  BY DEF WrittenIsRecorded, NoIntent

LEMMA WrittenStep ==
    ASSUME Tables, Threads, Placed, LocksHeld, OwnRows, Fresh, WrittenIsRecorded, Undoable,
           SentIsMail, [Next]_vars
    PROVE  WrittenIsRecorded'
  <1>1. ASSUME NEW w \in Writer, NEW job \in Jobs, Start(w, job)
        PROVE  WrittenIsRecorded'
    BY <1>1 DEF WrittenIsRecorded, Start
  <1>2. ASSUME NEW w \in Writer, Reserve(w)
        PROVE  WrittenIsRecorded'
    <2>1. /\ nextId + 1 \in Id /\ intents'[nextId + 1].state = "RESERVED"
          /\ \A i \in Id : i # nextId + 1 => intents'[i].state = intents[i].state
      BY <1>2, ReserveEffect
    <2>2. nextId + 1 \notin applied
      BY <2>1 DEF Fresh, Tables, WrittenIsRecorded, NoIntent
    <2>3. QED BY <1>2, <2>1, <2>2 DEF Reserve, WrittenIsRecorded
  <1>3. ASSUME NEW w \in Writer, Stage(w)
        PROVE  WrittenIsRecorded'
    BY <1>3 DEF WrittenIsRecorded, Stage
  <1>4. ASSUME NEW w \in Writer, MarkCommitting(w)
        PROVE  WrittenIsRecorded'
    <2>1. mail' = mail /\ applied' = applied
      BY <1>4 DEF MarkCommitting
    <2>2. QED BY <1>4, <2>1, MarkCommittingMoves, RecordedWhenMoved
  <1>5. ASSUME NEW w \in Writer, Replace(w)
        PROVE  WrittenIsRecorded'
    <2>1. intents[Held(w).id].state = "COMMITTING"
      BY <1>5, AtIntent DEF Replace, PhaseStates
    <2>2. QED BY <1>5, <2>1 DEF Replace, WrittenIsRecorded
  <1>6. ASSUME NEW w \in Writer, UnlinkOld(w)
        PROVE  WrittenIsRecorded'
    BY <1>6 DEF WrittenIsRecorded, UnlinkOld
  <1>7. ASSUME NEW w \in Writer, MarkReady(w)
        PROVE  WrittenIsRecorded'
    <2>1. mail' = mail /\ applied' = applied
      BY <1>7 DEF MarkReady
    <2>2. QED BY <1>7, <2>1, MarkReadyMoves, RecordedWhenMoved
  <1>8. ASSUME NEW w \in Writer, Cleanup(w)
        PROVE  WrittenIsRecorded'
    BY <1>8 DEF WrittenIsRecorded, Cleanup
  <1>9. ASSUME NEW w \in Writer, Restore(w)
        PROVE  WrittenIsRecorded'
    BY <1>9 DEF WrittenIsRecorded, Restore
  <1>10. ASSUME NEW w \in Writer, Discard(w)
        PROVE  WrittenIsRecorded'
    <2>1. ASSUME NEW j \in OwnIds(w)
          PROVE  j \notin applied
      <3>1. PICK k \in 1 .. Len(writers[w].own) : j = writers[w].own[k].id
        BY LenProperties DEF OwnIds, Threads
      <3>2. QED BY <1>10, <3>1 DEF Undoable, UndoableAt, Undoing, Discard
    <2>2. \A j \in Id : \/ intents'[j] = intents[j]
                        \/ intents'[j] = NoIntent /\ j \notin applied
      <3>1. intents' = [j \in Id |-> IF j \in OwnIds(w) THEN NoIntent ELSE intents[j]]
        BY <1>10 DEF Discard
      <3>2. ASSUME NEW j \in Id
            PROVE  /\ j \in OwnIds(w) => intents'[j] = NoIntent
                   /\ j \notin OwnIds(w) => intents'[j] = intents[j]
        BY <3>1
      <3>3. QED BY <2>1, <3>2, Zenon
    <2>3. mail' = mail /\ applied' = applied
      BY <1>10 DEF Discard
    <2>4. QED BY <2>2, <2>3, RecordedWhenDropped
  <1>11. ASSUME NEW w \in Writer, FailOne(w)
        PROVE  WrittenIsRecorded'
    <2>1. CASE writers[w].pc = "stage"
      <3>1. Held(w).id \in Id /\ intents[Held(w).id].state = "RESERVED"
        BY <2>1, AtIntent DEF PhaseStates
      <3>2. Held(w).id \notin applied
        BY <3>1 DEF WrittenIsRecorded
      <3>3. QED BY <1>11, <2>1, <3>1, <3>2, RecordedWhenDropped DEF FailOne, Tables
    <2>2. CASE writers[w].pc # "stage"
      BY <1>11, <2>2 DEF FailOne, WrittenIsRecorded
    <2>3. QED BY <2>1, <2>2
  <1>12. ASSUME NEW w \in Writer, FailMany(w)
        PROVE  WrittenIsRecorded'
    BY <1>12 DEF WrittenIsRecorded, FailMany
  <1>13. ASSUME NEW w \in Writer, RollbackFails(w)
        PROVE  WrittenIsRecorded'
    BY <1>13 DEF WrittenIsRecorded, RollbackFails
  <1>14. ASSUME NEW i \in recovery, Replay(i)
        PROVE  WrittenIsRecorded'
    BY <1>14 DEF WrittenIsRecorded, Replay, Committing
  <1>15. ASSUME NEW i \in recovery, Recover(i)
        PROVE  WrittenIsRecorded'
    <2>1. i \in Id /\ mail' = mail
      BY <1>15 DEF Tables, Recover
    <2>2. CASE RowTo(i, "READY") /\ applied' = applied \cup {i}
      BY <2>1, <2>2 DEF WrittenIsRecorded, RowTo
    <2>3. CASE RowTo(i, "REBASE_REQUIRED") /\ applied' = applied
      BY <2>1, <2>3, RecordedWhenMoved
    <2>4. CASE /\ intents[i].state = "RESERVED" /\ applied' = applied
               /\ intents' = [intents EXCEPT ![i] = NoIntent]
      <3>1. i \notin applied
        BY <2>1, <2>4 DEF WrittenIsRecorded
      <3>2. QED BY <2>1, <2>4, <3>1, RecordedWhenDropped DEF Tables
    <2>5. CASE intents' = intents /\ applied' = applied
      BY <2>1, <2>5 DEF WrittenIsRecorded
    <2>6. QED BY <1>15, <2>2, <2>3, <2>4, <2>5, RecoverMoves
  <1>16. CASE ReadReady
    BY <1>16 DEF WrittenIsRecorded, ReadReady
  <1>17. ASSUME NEW f \in forward, Send(f)
        PROVE  WrittenIsRecorded'
    BY <1>17 DEF WrittenIsRecorded, Send
  <1>18. ASSUME NEW f \in forward, MarkDelivered(f)
        PROVE  WrittenIsRecorded'
    <2>1. mail' = mail /\ applied' = applied /\ f.id \in mail
      BY <1>18 DEF MarkDelivered, SentIsMail
    <2>2. CASE intents' = intents
      BY <2>1, <2>2 DEF WrittenIsRecorded
    <2>3. CASE RowTo(f.id, "DELIVERED") /\ f.id \in Id
      BY <2>1, <2>3, RecordedWhenMoved
    <2>4. QED BY <1>18, <2>2, <2>3, MarkDeliveredMoves
  <1>19. ASSUME NEW f \in forward, GiveUp(f)
        PROVE  WrittenIsRecorded'
    BY <1>19 DEF WrittenIsRecorded, GiveUp
  <1>20. CASE ForwarderRestart
    BY <1>20 DEF WrittenIsRecorded, ForwarderRestart
  <1>21. ASSUME NEW p \in Path, NEW text \in Text \cup {Missing}, Edit(p, text)
        PROVE  WrittenIsRecorded'
    BY <1>21 DEF WrittenIsRecorded, Edit
  <1>22. CASE Crash
    BY <1>22 DEF WrittenIsRecorded, Crash
  <1>23. CASE UNCHANGED vars
    BY <1>23 DEF WrittenIsRecorded, vars
  <1>24. QED BY <1>1, <1>2, <1>3, <1>4, <1>5, <1>6, <1>7, <1>8, <1>9, <1>10, <1>11, <1>12, <1>13,
    <1>14, <1>15, <1>16, <1>17, <1>18, <1>19, <1>20, <1>21, <1>22, <1>23 DEF Next, WriterNext,
    ForwarderNext


LEMMA FreshWhenMoved ==
    ASSUME Fresh, NEW i \in Id, intents[i].state # "none", NEW s, RowTo(i, s), nextId' = nextId
    PROVE  Fresh'
  BY DEF Fresh, RowTo, NoIntent

LEMMA FreshStep ==
    ASSUME Tables, Threads, Placed, LocksHeld, OwnRows, Fresh, [Next]_vars
    PROVE  Fresh'
  <1>1. ASSUME NEW w \in Writer, NEW job \in Jobs, Start(w, job)
        PROVE  Fresh'
    BY <1>1 DEF Fresh, Start
  <1>2. ASSUME NEW w \in Writer, Reserve(w)
        PROVE  Fresh'
    <2>1. /\ nextId' = nextId + 1
          /\ \A i \in Id : i # nextId + 1 => \/ intents'[i] = intents[i]
                                           \/ i \in Blocker(Current(w).path)
      BY <1>2, ReserveEffect
    <2>2. ASSUME NEW i \in Id, i > nextId'
          PROVE  intents'[i] = NoIntent
      <3>1. i > nextId /\ i # nextId + 1
        BY <2>1, <2>2 DEF Tables, Id
      <3>2. intents[i] = NoIntent
        BY <3>1 DEF Fresh
      <3>3. i \notin Blocker(Current(w).path)
        BY <3>2 DEF Blocker, Inflight, Live, Rows, NoIntent
      <3>4. QED BY <2>1, <3>1, <3>2, <3>3
    <2>3. QED BY <2>2 DEF Fresh
  <1>3. ASSUME NEW w \in Writer, Stage(w)
        PROVE  Fresh'
    BY <1>3 DEF Fresh, Stage
  <1>4. ASSUME NEW w \in Writer, MarkCommitting(w)
        PROVE  Fresh'
    <2>1. nextId' = nextId
      BY <1>4 DEF MarkCommitting
    <2>2. QED BY <1>4, <2>1, MarkCommittingMoves, FreshWhenMoved
  <1>5. ASSUME NEW w \in Writer, Replace(w)
        PROVE  Fresh'
    BY <1>5 DEF Fresh, Replace
  <1>6. ASSUME NEW w \in Writer, UnlinkOld(w)
        PROVE  Fresh'
    BY <1>6 DEF Fresh, UnlinkOld
  <1>7. ASSUME NEW w \in Writer, MarkReady(w)
        PROVE  Fresh'
    <2>1. nextId' = nextId
      BY <1>7 DEF MarkReady
    <2>2. QED BY <1>7, <2>1, MarkReadyMoves, FreshWhenMoved
  <1>8. ASSUME NEW w \in Writer, Cleanup(w)
        PROVE  Fresh'
    BY <1>8 DEF Fresh, Cleanup
  <1>9. ASSUME NEW w \in Writer, Restore(w)
        PROVE  Fresh'
    BY <1>9 DEF Fresh, Restore
  <1>10. ASSUME NEW w \in Writer, Discard(w)
        PROVE  Fresh'
    BY <1>10 DEF Fresh, Discard
  <1>11. ASSUME NEW w \in Writer, FailOne(w)
        PROVE  Fresh'
    BY <1>11 DEF Fresh, FailOne, Tables
  <1>12. ASSUME NEW w \in Writer, FailMany(w)
        PROVE  Fresh'
    BY <1>12 DEF Fresh, FailMany
  <1>13. ASSUME NEW w \in Writer, RollbackFails(w)
        PROVE  Fresh'
    BY <1>13 DEF Fresh, RollbackFails
  <1>14. ASSUME NEW i \in recovery, Replay(i)
        PROVE  Fresh'
    BY <1>14 DEF Fresh, Replay
  <1>15. ASSUME NEW i \in recovery, Recover(i)
        PROVE  Fresh'
    <2>1. i \in Id /\ nextId' = nextId
      BY <1>15 DEF Tables, Recover
    <2>2. CASE Committing(i) /\ (RowTo(i, "READY") \/ RowTo(i, "REBASE_REQUIRED"))
      BY <2>1, <2>2, FreshWhenMoved DEF Committing
    <2>3. CASE intents' = [intents EXCEPT ![i] = NoIntent] \/ intents' = intents
      BY <2>1, <2>3 DEF Fresh, Tables
    <2>4. QED BY <1>15, <2>2, <2>3, RecoverMoves
  <1>16. CASE ReadReady
    BY <1>16 DEF Fresh, ReadReady
  <1>17. ASSUME NEW f \in forward, Send(f)
        PROVE  Fresh'
    BY <1>17 DEF Fresh, Send
  <1>18. ASSUME NEW f \in forward, MarkDelivered(f)
        PROVE  Fresh'
    BY <1>18, MarkDeliveredMoves DEF Fresh, MarkDelivered, RowTo, NoIntent
  <1>19. ASSUME NEW f \in forward, GiveUp(f)
        PROVE  Fresh'
    BY <1>19 DEF Fresh, GiveUp
  <1>20. CASE ForwarderRestart
    BY <1>20 DEF Fresh, ForwarderRestart
  <1>21. ASSUME NEW p \in Path, NEW text \in Text \cup {Missing}, Edit(p, text)
        PROVE  Fresh'
    BY <1>21 DEF Fresh, Edit
  <1>22. CASE Crash
    BY <1>22 DEF Fresh, Crash
  <1>23. CASE UNCHANGED vars
    BY <1>23 DEF Fresh, vars
  <1>24. QED BY <1>1, <1>2, <1>3, <1>4, <1>5, <1>6, <1>7, <1>8, <1>9, <1>10, <1>11, <1>12, <1>13,
    <1>14, <1>15, <1>16, <1>17, <1>18, <1>19, <1>20, <1>21, <1>22, <1>23 DEF Next, WriterNext,
    ForwarderNext

LEMMA SentStep ==
    ASSUME Tables, Threads, Placed, LocksHeld, OwnRows, Fresh, SentIsMail, [Next]_vars
    PROVE  SentIsMail'
  <1>1. ASSUME NEW w \in Writer, NEW job \in Jobs, Start(w, job)
        PROVE  SentIsMail'
    BY <1>1 DEF SentIsMail, Start
  <1>2. ASSUME NEW w \in Writer, Reserve(w)
        PROVE  SentIsMail'
    BY <1>2 DEF SentIsMail, Reserve
  <1>3. ASSUME NEW w \in Writer, Stage(w)
        PROVE  SentIsMail'
    BY <1>3 DEF SentIsMail, Stage
  <1>4. ASSUME NEW w \in Writer, MarkCommitting(w)
        PROVE  SentIsMail'
    BY <1>4 DEF SentIsMail, MarkCommitting
  <1>5. ASSUME NEW w \in Writer, Replace(w)
        PROVE  SentIsMail'
    BY <1>5 DEF SentIsMail, Replace
  <1>6. ASSUME NEW w \in Writer, UnlinkOld(w)
        PROVE  SentIsMail'
    BY <1>6 DEF SentIsMail, UnlinkOld
  <1>7. ASSUME NEW w \in Writer, MarkReady(w)
        PROVE  SentIsMail'
    BY <1>7 DEF SentIsMail, MarkReady
  <1>8. ASSUME NEW w \in Writer, Cleanup(w)
        PROVE  SentIsMail'
    BY <1>8 DEF SentIsMail, Cleanup
  <1>9. ASSUME NEW w \in Writer, Restore(w)
        PROVE  SentIsMail'
    BY <1>9 DEF SentIsMail, Restore
  <1>10. ASSUME NEW w \in Writer, Discard(w)
        PROVE  SentIsMail'
    BY <1>10 DEF SentIsMail, Discard
  <1>11. ASSUME NEW w \in Writer, FailOne(w)
        PROVE  SentIsMail'
    BY <1>11 DEF SentIsMail, FailOne
  <1>12. ASSUME NEW w \in Writer, FailMany(w)
        PROVE  SentIsMail'
    BY <1>12 DEF SentIsMail, FailMany
  <1>13. ASSUME NEW w \in Writer, RollbackFails(w)
        PROVE  SentIsMail'
    BY <1>13 DEF SentIsMail, RollbackFails
  <1>14. ASSUME NEW i \in recovery, Replay(i)
        PROVE  SentIsMail'
    BY <1>14 DEF SentIsMail, Replay
  <1>15. ASSUME NEW i \in recovery, Recover(i)
        PROVE  SentIsMail'
    BY <1>15 DEF SentIsMail, Recover
  <1>16. CASE ReadReady
    BY <1>16 DEF SentIsMail, ReadReady
  <1>17. ASSUME NEW f \in forward, Send(f)
        PROVE  SentIsMail'
    <2>1. f \in [id: Id, fence: Nat, sent: BOOLEAN]
      BY DEF Tables
    <2>2. [f EXCEPT !.sent = TRUE].id = f.id
      BY <2>1
    <2>3. QED BY <1>17, <2>2 DEF Send, SentIsMail
  <1>18. ASSUME NEW f \in forward, MarkDelivered(f)
        PROVE  SentIsMail'
    BY <1>18 DEF SentIsMail, MarkDelivered
  <1>19. ASSUME NEW f \in forward, GiveUp(f)
        PROVE  SentIsMail'
    BY <1>19 DEF SentIsMail, GiveUp
  <1>20. CASE ForwarderRestart
    BY <1>20 DEF SentIsMail, ForwarderRestart
  <1>21. ASSUME NEW p \in Path, NEW text \in Text \cup {Missing}, Edit(p, text)
        PROVE  SentIsMail'
    BY <1>21 DEF SentIsMail, Edit
  <1>22. CASE Crash
    BY <1>22 DEF SentIsMail, Crash
  <1>23. CASE UNCHANGED vars
    BY <1>23 DEF SentIsMail, vars
  <1>24. QED BY <1>1, <1>2, <1>3, <1>4, <1>5, <1>6, <1>7, <1>8, <1>9, <1>10, <1>11, <1>12, <1>13,
    <1>14, <1>15, <1>16, <1>17, <1>18, <1>19, <1>20, <1>21, <1>22, <1>23 DEF Next, WriterNext,
    ForwarderNext

-----------------------------------------------------------------------------
(* Where a writer is.                                                       *)

LEMMA PlacedWhen ==
    ASSUME Placed, NEW w \in Writer, \A v \in Writer : v # w => writers'[v] = writers[v],
           PlacedAt(writers'[w])
    PROVE  Placed'
  BY DEF Placed

LEMMA Lengths ==
    ASSUME Threads, NEW w \in Writer
    PROVE  /\ Len(writers[w].todo) \in Nat /\ Len(writers[w].own) \in Nat
           /\ writers[w].pos \in Nat
  BY LenProperties DEF Threads

LEMMA PlacedStep ==
    ASSUME Tables, Threads, Placed, LocksHeld, OwnRows, Fresh, [Next]_vars
    PROVE  Placed'
  <1>1. ASSUME NEW w \in Writer, NEW job \in Jobs, Start(w, job)
        PROVE  Placed'
    <2>1. PlacedAt(writers'[w])
      <3>1. job.mode = "one" => Len(job.changes) = 1 /\ job.changes[1].kind # "rename"
        BY OutboxAssumption
      <3>2. QED BY <1>1, <3>1, StartEffect DEF PlacedAt, Undoing
    <2>2. QED BY <1>1, <2>1, StartEffect, PlacedWhen
  <1>2. ASSUME NEW w \in Writer, Reserve(w)
        PROVE  Placed'
    <2>1. writers[w].pc = "reserve" /\ PlacedAt(writers[w])
      BY <1>2 DEF Reserve, Placed
    <2>2. PICK held \in [id: Id, fence: Nat] :
            writers' = [writers EXCEPT ![w].pc = "stage", ![w].own = Append(@, held)]
      BY <1>2, ReserveEffect
    <2>3. /\ writers'[w].pc = "stage" /\ Len(writers'[w].own) = Len(writers[w].own) + 1
          /\ writers'[w].mode = writers[w].mode /\ writers'[w].todo = writers[w].todo
          /\ writers'[w].pos = writers[w].pos
          /\ \A v \in Writer : v # w => writers'[v] = writers[v]
      BY <2>2, ReserveMoves
    <2>4. PlacedAt(writers'[w])
      BY <2>1, <2>3, Lengths DEF PlacedAt, Undoing
    <2>5. QED BY <2>3, <2>4, PlacedWhen
  <1>3. ASSUME NEW w \in Writer, Stage(w)
        PROVE  Placed'
    <2>1. writers[w].pc # "idle" /\ PlacedAt(writers[w])
      BY <1>3 DEF Placed, Stage
    <2>2. PlacedAt(writers'[w])
      BY <1>3, <2>1, GotoEffect, Lengths DEF Stage, SameWork, PlacedAt, Pc, Undoing
    <2>3. \A v \in Writer : v # w => writers'[v] = writers[v]
      BY <1>3, <2>1, GotoEffect DEF Stage, SameWork, Pc
    <2>4. QED BY <2>2, <2>3, PlacedWhen
  <1>4. ASSUME NEW w \in Writer, MarkCommitting(w)
        PROVE  Placed'
    <2>1. writers[w].pc = "mark" /\ PlacedAt(writers[w]) /\ Advance(w, "reserve", "replace")
      BY <1>4 DEF Placed, MarkCommitting
    <2>2. /\ SameWork(w)
          /\ \/ /\ writers[w].pos < Len(writers[w].todo)
                /\ writers'[w].pc = "reserve" /\ writers'[w].pos = writers[w].pos + 1
             \/ /\ writers[w].pos = Len(writers[w].todo)
                /\ writers'[w].pc = "replace" /\ writers'[w].pos = 1
      BY <2>1, AdvanceEffect DEF Pc
    <2>3. PlacedAt(writers'[w])
      <3>1. /\ writers[w].pos \in 1 .. Len(writers[w].todo)
            /\ writers[w].mode = "one" => /\ Len(writers[w].todo) = 1
                                          /\ writers[w].todo[1].kind # "rename"
            /\ Len(writers[w].own) = writers[w].pos
        BY <2>1 DEF PlacedAt
      <3>2. CASE writers[w].pos < Len(writers[w].todo)
        BY <2>2, <3>1, <3>2, Lengths DEF PlacedAt, SameWork, Undoing
      <3>3. CASE writers[w].pos = Len(writers[w].todo)
        BY <2>2, <3>1, <3>3, Lengths DEF PlacedAt, SameWork, Undoing
      <3>4. QED BY <2>2, <3>2, <3>3
    <2>4. QED BY <2>2, <2>3, PlacedWhen DEF SameWork
  <1>5. ASSUME NEW w \in Writer, Replace(w)
        PROVE  Placed'
    <2>1. writers[w].pc = "replace" /\ PlacedAt(writers[w])
      BY <1>5 DEF Replace, Placed
    <2>2. CASE Goto(w, "unlink") /\ Current(w).kind = "rename"
      <3>1. /\ SameWork(w) /\ writers'[w].pc = "unlink" /\ writers'[w].pos = writers[w].pos
        BY <2>2, GotoEffect DEF Pc
      <3>2. PlacedAt(writers'[w])
        BY <2>1, <2>2, <3>1, Lengths DEF PlacedAt, SameWork, Current, Undoing
      <3>3. QED BY <3>1, <3>2, PlacedWhen DEF SameWork
    <2>3. CASE Advance(w, "replace", "ready")
      <3>1. /\ SameWork(w) /\ writers'[w].pc \in {"replace", "ready"}
            /\ writers'[w].pos \in 1 .. Len(writers[w].todo)
        BY <2>1, <2>3, AdvanceEffect, Lengths DEF Pc, PlacedAt
      <3>2. PlacedAt(writers'[w])
        BY <2>1, <3>1, Lengths DEF PlacedAt, SameWork, Undoing
      <3>3. QED BY <3>1, <3>2, PlacedWhen DEF SameWork
    <2>4. QED BY <1>5, <2>2, <2>3 DEF Replace
  <1>6. ASSUME NEW w \in Writer, UnlinkOld(w)
        PROVE  Placed'
    <2>1. writers[w].pc = "unlink" /\ PlacedAt(writers[w]) /\ Advance(w, "replace", "ready")
      BY <1>6 DEF Placed, UnlinkOld
    <2>2. /\ SameWork(w)
          /\ \/ /\ writers[w].pos < Len(writers[w].todo)
                /\ writers'[w].pc = "replace" /\ writers'[w].pos = writers[w].pos + 1
             \/ /\ writers[w].pos = Len(writers[w].todo)
                /\ writers'[w].pc = "ready" /\ writers'[w].pos = 1
      BY <2>1, AdvanceEffect DEF Pc
    <2>3. PlacedAt(writers'[w])
      <3>1. /\ writers[w].pos \in 1 .. Len(writers[w].todo)
            /\ writers[w].mode = "one" => /\ Len(writers[w].todo) = 1
                                          /\ writers[w].todo[1].kind # "rename"
            /\ Len(writers[w].own) = Len(writers[w].todo)
        BY <2>1 DEF PlacedAt
      <3>2. CASE writers[w].pos < Len(writers[w].todo)
        BY <2>2, <3>1, <3>2, Lengths DEF PlacedAt, SameWork, Undoing
      <3>3. CASE writers[w].pos = Len(writers[w].todo)
        BY <2>2, <3>1, <3>3, Lengths DEF PlacedAt, SameWork, Undoing
      <3>4. QED BY <2>2, <3>2, <3>3
    <2>4. QED BY <2>2, <2>3, PlacedWhen DEF SameWork
  <1>7. ASSUME NEW w \in Writer, MarkReady(w)
        PROVE  Placed'
    <2>1. writers[w].pc # "idle" /\ PlacedAt(writers[w])
      BY <1>7 DEF Placed, MarkReady
    <2>2. PlacedAt(writers'[w])
      BY <1>7, <2>1, GotoEffect, Lengths DEF MarkReady, SameWork, PlacedAt, Pc, Undoing
    <2>3. \A v \in Writer : v # w => writers'[v] = writers[v]
      BY <1>7, <2>1, GotoEffect DEF MarkReady, SameWork, Pc
    <2>4. QED BY <2>2, <2>3, PlacedWhen
  <1>8. ASSUME NEW w \in Writer, Cleanup(w)
        PROVE  Placed'
    <2>1. CASE Finish(w)
      BY <2>1, FinishEffect, PlacedWhen DEF PlacedAt
    <2>2. CASE Advance(w, "ready", "ready")
      <3>1. writers[w].pc = "cleanup" /\ PlacedAt(writers[w])
        BY <1>8 DEF Cleanup, Placed
      <3>2. /\ SameWork(w) /\ writers'[w].pc = "ready"
            /\ writers'[w].pos \in 1 .. Len(writers[w].todo)
        BY <2>2, <3>1, AdvanceEffect, Lengths DEF Pc, PlacedAt
      <3>3. PlacedAt(writers'[w])
        BY <3>1, <3>2, Lengths DEF PlacedAt, SameWork, Undoing
      <3>4. QED BY <3>2, <3>3, PlacedWhen DEF SameWork
    <2>3. QED BY <1>8, <2>1, <2>2 DEF Cleanup, Advance
  <1>9. ASSUME NEW w \in Writer, Restore(w)
        PROVE  Placed'
    <2>1. writers[w].pc = "restore" /\ PlacedAt(writers[w])
      BY <1>9 DEF Restore, Placed
    <2>2. PICK p \in DOMAIN writers[w].snapshot : writers' = [writers EXCEPT
              ![w].snapshot = [q \in DOMAIN @ \ {p} |-> @[q]],
              ![w].pc = IF DOMAIN writers[w].snapshot = {p} THEN "discard" ELSE "restore"]
      BY <1>9 DEF Restore
    <2>3. /\ SameWork(w) /\ writers'[w].pos = writers[w].pos
          /\ writers'[w].pc \in {"discard", "restore"}
      BY <2>2, RestoreMoves
    <2>4. PlacedAt(writers'[w])
      BY <2>1, <2>3 DEF PlacedAt, SameWork, Undoing
    <2>5. QED BY <2>3, <2>4, PlacedWhen DEF SameWork
  <1>10. ASSUME NEW w \in Writer, Discard(w)
        PROVE  Placed'
    <2>1. /\ writers'[w].pc = "idle"
          /\ \A v \in Writer : v # w => writers'[v] = writers[v]
      BY <1>10, FinishEffect DEF Discard
    <2>2. QED BY <2>1, PlacedWhen DEF PlacedAt
  <1>11. ASSUME NEW w \in Writer, FailOne(w)
        PROVE  Placed'
    <2>1. /\ writers'[w].pc = "idle"
          /\ \A v \in Writer : v # w => writers'[v] = writers[v]
      BY <1>11, FinishEffect DEF FailOne
    <2>2. QED BY <2>1, PlacedWhen DEF PlacedAt
  <1>12. ASSUME NEW w \in Writer, FailMany(w)
        PROVE  Placed'
    <2>1. writers[w].pc # "idle" /\ PlacedAt(writers[w])
      BY <1>12 DEF Placed, FailMany
    <2>2. PlacedAt(writers'[w])
      BY <1>12, <2>1, GotoEffect, Lengths DEF FailMany, SameWork, PlacedAt, Pc, Undoing
    <2>3. \A v \in Writer : v # w => writers'[v] = writers[v]
      BY <1>12, <2>1, GotoEffect DEF FailMany, SameWork, Pc
    <2>4. QED BY <2>2, <2>3, PlacedWhen
  <1>13. ASSUME NEW w \in Writer, RollbackFails(w)
        PROVE  Placed'
    <2>1. /\ writers'[w].pc = "idle"
          /\ \A v \in Writer : v # w => writers'[v] = writers[v]
      BY <1>13, FinishEffect DEF RollbackFails
    <2>2. QED BY <2>1, PlacedWhen DEF PlacedAt
  <1>14. ASSUME NEW i \in recovery, Replay(i)
        PROVE  Placed'
    BY <1>14 DEF Placed, Replay
  <1>15. ASSUME NEW i \in recovery, Recover(i)
        PROVE  Placed'
    BY <1>15 DEF Placed, Recover
  <1>16. CASE ReadReady
    BY <1>16 DEF Placed, ReadReady
  <1>17. ASSUME NEW f \in forward, Send(f)
        PROVE  Placed'
    BY <1>17 DEF Placed, Send
  <1>18. ASSUME NEW f \in forward, MarkDelivered(f)
        PROVE  Placed'
    BY <1>18 DEF Placed, MarkDelivered
  <1>19. ASSUME NEW f \in forward, GiveUp(f)
        PROVE  Placed'
    BY <1>19 DEF Placed, GiveUp
  <1>20. CASE ForwarderRestart
    BY <1>20 DEF Placed, ForwarderRestart
  <1>21. ASSUME NEW p \in Path, NEW text \in Text \cup {Missing}, Edit(p, text)
        PROVE  Placed'
    BY <1>21 DEF Placed, Edit
  <1>22. CASE Crash
    BY <1>22 DEF Placed, Crash, PlacedAt, Idle
  <1>23. CASE UNCHANGED vars
    BY <1>23 DEF Placed, vars
  <1>24. QED BY <1>1, <1>2, <1>3, <1>4, <1>5, <1>6, <1>7, <1>8, <1>9, <1>10, <1>11, <1>12, <1>13,
    <1>14, <1>15, <1>16, <1>17, <1>18, <1>19, <1>20, <1>21, <1>22, <1>23 DEF Next, WriterNext,
    ForwarderNext

-----------------------------------------------------------------------------
(* Locks.                                                                   *)

LEMMA LocksKept ==
    ASSUME LocksHeld, NEW w \in Writer, SameWork(w), lock' = lock, writers[w].pc # "idle"
    PROVE  LocksHeld'
  BY DEF LocksHeld, SameWork

LEMMA LocksReleased ==
    ASSUME Threads, LocksHeld, NEW w \in Writer, Finish(w)
    PROVE  LocksHeld'
  <1>1. ASSUME NEW v \in Writer, writers'[v].pc # "idle", NEW k \in 1 .. Len(writers'[v].todo)
        PROVE  lock'[writers'[v].todo[k].path] = v
    <2>1. v # w /\ writers'[v] = writers[v]
      BY <1>1, FinishEffect
    <2>2. writers[v].todo[k].path \in Path
      BY <1>1, <2>1, ElementOfSeq, ChangeFields DEF Threads
    <2>3. lock[writers[v].todo[k].path] = v
      BY <1>1, <2>1 DEF LocksHeld
    <2>4. QED BY <2>1, <2>2, <2>3, FinishEffect
  <1>2. QED BY <1>1 DEF LocksHeld

LEMMA LocksStep ==
    ASSUME Tables, Threads, Placed, LocksHeld, OwnRows, Fresh, [Next]_vars
    PROVE  LocksHeld'
  <1>1. ASSUME NEW w \in Writer, NEW job \in Jobs, Start(w, job)
        PROVE  LocksHeld'
    <2>1. ASSUME NEW v \in Writer, writers'[v].pc # "idle", NEW k \in 1 .. Len(writers'[v].todo)
          PROVE  lock'[writers'[v].todo[k].path] = v
      <3>1. CASE v = w
        <4>1. writers'[w].todo = job.changes /\ job.changes[k].path \in Affected(job.changes)
          BY <1>1, <2>1, <3>1, StartEffect
        <4>2. job.changes[k].path \in Path
          BY <1>1, <2>1, <3>1, <4>1, StartEffect, ElementOfSeq, ChangeFields
        <4>3. QED BY <1>1, <3>1, <4>1, <4>2 DEF Start
      <3>2. CASE v # w
        <4>1. writers'[v] = writers[v]
          BY <1>1, <3>2, StartEffect
        <4>2. lock[writers[v].todo[k].path] = v /\ writers[v].todo[k].path \in Path
          BY <2>1, <4>1, ElementOfSeq, ChangeFields DEF LocksHeld, Threads
        <4>3. v # NoPath
          BY OutboxAssumption
        <4>4. QED BY <1>1, <4>1, <4>2, <4>3 DEF Start
      <3>3. QED BY <3>1, <3>2
    <2>2. QED BY <2>1 DEF LocksHeld
  <1>2. ASSUME NEW w \in Writer, Reserve(w)
        PROVE  LocksHeld'
    <2>1. PICK held \in [id: Id, fence: Nat] :
            writers' = [writers EXCEPT ![w].pc = "stage", ![w].own = Append(@, held)]
      BY <1>2, ReserveEffect
    <2>2. /\ writers'[w].todo = writers[w].todo
          /\ \A v \in Writer : v # w => writers'[v] = writers[v]
      BY <2>1, ReserveMoves
    <2>3. writers[w].pc # "idle" /\ lock' = lock
      BY <1>2 DEF Reserve
    <2>4. ASSUME NEW v \in Writer, writers'[v].pc # "idle"
          PROVE  writers[v].pc # "idle" /\ writers'[v].todo = writers[v].todo
      BY <2>2, <2>3, <2>4
    <2>5. QED BY <2>3, <2>4 DEF LocksHeld
  <1>3. ASSUME NEW w \in Writer, Stage(w)
        PROVE  LocksHeld'
    <2>1. writers[w].pc # "idle" /\ lock' = lock
      BY <1>3 DEF Stage
    <2>2. SameWork(w)
      BY <1>3, <2>1, GotoEffect DEF Stage, Pc
    <2>3. QED BY <2>1, <2>2, LocksKept
  <1>4. ASSUME NEW w \in Writer, MarkCommitting(w)
        PROVE  LocksHeld'
    <2>1. writers[w].pc # "idle" /\ lock' = lock
      BY <1>4 DEF MarkCommitting
    <2>2. SameWork(w)
      BY <1>4, <2>1, AdvanceEffect DEF MarkCommitting, Pc
    <2>3. QED BY <2>1, <2>2, LocksKept
  <1>5. ASSUME NEW w \in Writer, Replace(w)
        PROVE  LocksHeld'
    <2>1. writers[w].pc # "idle" /\ lock' = lock
      BY <1>5 DEF Replace
    <2>2. Goto(w, "unlink") \/ Advance(w, "replace", "ready")
      BY <1>5 DEF Replace
    <2>3. SameWork(w)
      BY <2>1, <2>2, GotoEffect, AdvanceEffect DEF Pc
    <2>4. QED BY <2>1, <2>3, LocksKept
  <1>6. ASSUME NEW w \in Writer, UnlinkOld(w)
        PROVE  LocksHeld'
    <2>1. writers[w].pc # "idle" /\ lock' = lock
      BY <1>6 DEF UnlinkOld
    <2>2. SameWork(w)
      BY <1>6, <2>1, AdvanceEffect DEF UnlinkOld, Pc
    <2>3. QED BY <2>1, <2>2, LocksKept
  <1>7. ASSUME NEW w \in Writer, MarkReady(w)
        PROVE  LocksHeld'
    <2>1. writers[w].pc # "idle" /\ lock' = lock
      BY <1>7 DEF MarkReady
    <2>2. SameWork(w)
      BY <1>7, <2>1, GotoEffect DEF MarkReady, Pc
    <2>3. QED BY <2>1, <2>2, LocksKept
  <1>8. ASSUME NEW w \in Writer, Cleanup(w)
        PROVE  LocksHeld'
    <2>1. CASE Finish(w)
      BY <2>1, LocksReleased
    <2>2. CASE Advance(w, "ready", "ready") /\ lock' = lock
      <3>1. writers[w].pc # "idle"
        BY <1>8 DEF Cleanup
      <3>2. SameWork(w)
        BY <2>2, <3>1, AdvanceEffect DEF Pc
      <3>3. QED BY <2>2, <3>1, <3>2, LocksKept
    <2>3. QED BY <1>8, <2>1, <2>2 DEF Cleanup, Advance
  <1>9. ASSUME NEW w \in Writer, Restore(w)
        PROVE  LocksHeld'
    <2>1. PICK p \in DOMAIN writers[w].snapshot : writers' = [writers EXCEPT
              ![w].snapshot = [q \in DOMAIN @ \ {p} |-> @[q]],
              ![w].pc = IF DOMAIN writers[w].snapshot = {p} THEN "discard" ELSE "restore"]
      BY <1>9 DEF Restore
    <2>2. SameWork(w)
      BY <2>1, RestoreMoves
    <2>3. writers[w].pc # "idle" /\ lock' = lock
      BY <1>9 DEF Restore
    <2>4. QED BY <2>2, <2>3, LocksKept
  <1>10. ASSUME NEW w \in Writer, Discard(w)
        PROVE  LocksHeld'
    BY <1>10, LocksReleased DEF LocksHeld, Discard
  <1>11. ASSUME NEW w \in Writer, FailOne(w)
        PROVE  LocksHeld'
    BY <1>11, LocksReleased DEF LocksHeld, FailOne
  <1>12. ASSUME NEW w \in Writer, FailMany(w)
        PROVE  LocksHeld'
    <2>1. writers[w].pc # "idle" /\ lock' = lock
      BY <1>12 DEF FailMany
    <2>2. SameWork(w)
      BY <1>12, <2>1, GotoEffect DEF FailMany, Pc
    <2>3. QED BY <2>1, <2>2, LocksKept
  <1>13. ASSUME NEW w \in Writer, RollbackFails(w)
        PROVE  LocksHeld'
    BY <1>13, LocksReleased DEF LocksHeld, RollbackFails
  <1>14. ASSUME NEW i \in recovery, Replay(i)
        PROVE  LocksHeld'
    BY <1>14 DEF LocksHeld, Replay
  <1>15. ASSUME NEW i \in recovery, Recover(i)
        PROVE  LocksHeld'
    BY <1>15 DEF LocksHeld, Recover
  <1>16. CASE ReadReady
    BY <1>16 DEF LocksHeld, ReadReady
  <1>17. ASSUME NEW f \in forward, Send(f)
        PROVE  LocksHeld'
    BY <1>17 DEF LocksHeld, Send
  <1>18. ASSUME NEW f \in forward, MarkDelivered(f)
        PROVE  LocksHeld'
    BY <1>18 DEF LocksHeld, MarkDelivered
  <1>19. ASSUME NEW f \in forward, GiveUp(f)
        PROVE  LocksHeld'
    BY <1>19 DEF LocksHeld, GiveUp
  <1>20. CASE ForwarderRestart
    BY <1>20 DEF LocksHeld, ForwarderRestart
  <1>21. ASSUME NEW p \in Path, NEW text \in Text \cup {Missing}, Edit(p, text)
        PROVE  LocksHeld'
    BY <1>21 DEF LocksHeld, Edit
  <1>22. CASE Crash
    BY <1>22 DEF LocksHeld, Crash, Idle
  <1>23. CASE UNCHANGED vars
    BY <1>23 DEF LocksHeld, vars
  <1>24. QED BY <1>1, <1>2, <1>3, <1>4, <1>5, <1>6, <1>7, <1>8, <1>9, <1>10, <1>11, <1>12, <1>13,
    <1>14, <1>15, <1>16, <1>17, <1>18, <1>19, <1>20, <1>21, <1>22, <1>23 DEF Next, WriterNext,
    ForwarderNext

-----------------------------------------------------------------------------
(* The intents of running commits.                                          *)

OwnRowsAt(r, rows) ==
    \A k \in 1 .. Len(r.own) :
      /\ rows[r.own[k].id].path = r.todo[k].path
      /\ rows[r.own[k].id].state \in PhaseStates(r, k)

LEMMA OwnRowsWhen ==
    ASSUME Tables, Threads, Placed, LocksHeld, OwnRows, Fresh, NEW w \in Writer, WriterStep(w),
           \A v \in Writer : v # w => writers'[v] = writers[v],
           writers'[w].pc # "idle" => OwnRowsAt(writers'[w], intents')
    PROVE  OwnRows'
  <1>1. ASSUME NEW v \in Writer, writers'[v].pc # "idle", NEW k \in 1 .. Len(writers'[v].own)
        PROVE  /\ intents'[writers'[v].own[k].id].path = writers'[v].todo[k].path
               /\ intents'[writers'[v].own[k].id].state \in PhaseStates(writers'[v], k)
    <2>1. CASE v = w
      BY <1>1, <2>1 DEF OwnRowsAt
    <2>2. CASE v # w
      <3>1. writers'[v] = writers[v]
        BY <2>2
      <3>2. intents'[writers[v].own[k].id] = intents[writers[v].own[k].id]
        BY <1>1, <2>2, <3>1, OthersKept
      <3>3. /\ intents[writers[v].own[k].id].path = writers[v].todo[k].path
            /\ intents[writers[v].own[k].id].state \in PhaseStates(writers[v], k)
        BY <1>1, <3>1 DEF OwnRows
      <3>4. QED BY <3>1, <3>2, <3>3
    <2>3. QED BY <2>1, <2>2
  <1>2. QED BY <1>1 DEF OwnRows

LEMMA OwnRowsKept ==
    ASSUME Tables, Threads, Placed, LocksHeld, OwnRows, Fresh, NEW w \in Writer, WriterStep(w),
           SameWork(w), intents' = intents, writers[w].pc # "idle",
           \A k \in 1 .. Len(writers[w].own) :
             PhaseStates(writers[w], k) \subseteq PhaseStates(writers'[w], k)
    PROVE  OwnRows'
  <1>1. OwnRowsAt(writers'[w], intents')
    BY DEF OwnRowsAt, OwnRows, SameWork
  <1>2. QED BY <1>1, OwnRowsWhen DEF SameWork

LEMMA OwnRowsStep ==
    ASSUME Tables, Threads, Placed, LocksHeld, OwnRows, Fresh, [Next]_vars
    PROVE  OwnRows'
  <1>1. ASSUME NEW w \in Writer, NEW job \in Jobs, Start(w, job)
        PROVE  OwnRows'
    <2>1. ASSUME NEW v \in Writer, writers'[v].pc # "idle", NEW k \in 1 .. Len(writers'[v].own)
          PROVE  writers'[v] = writers[v]
      <3>1. CASE v = w
        BY <1>1, <2>1, <3>1, StartEffect
      <3>2. CASE v # w
        BY <1>1, <3>2, StartEffect
      <3>3. QED BY <3>1, <3>2
    <2>2. intents' = intents
      BY <1>1 DEF Start
    <2>3. QED BY <2>1, <2>2 DEF OwnRows
  <1>2. ASSUME NEW w \in Writer, Reserve(w)
        PROVE  OwnRows'
    <2>1. PICK held \in [id: Id, fence: Nat] :
            /\ held.id = nextId + 1
            /\ writers' = [writers EXCEPT ![w].pc = "stage", ![w].own = Append(@, held)]
      BY <1>2, ReserveEffect
    <2>2. /\ writers'[w].pc = "stage" /\ writers'[w].pos = writers[w].pos
          /\ writers'[w].todo = writers[w].todo
          /\ Len(writers'[w].own) = Len(writers[w].own) + 1
          /\ writers'[w].own[Len(writers[w].own) + 1] = held
          /\ \A k \in 1 .. Len(writers[w].own) : writers'[w].own[k] = writers[w].own[k]
          /\ \A v \in Writer : v # w => writers'[v] = writers[v]
      BY <2>1, ReserveMoves
    <2>3. writers[w].pc = "reserve" /\ Len(writers[w].own) = writers[w].pos - 1
      BY <1>2 DEF Reserve, Placed, PlacedAt
    <2>4. ASSUME NEW k \in 1 .. Len(writers'[w].own)
          PROVE  /\ intents'[writers'[w].own[k].id].path = writers'[w].todo[k].path
                 /\ intents'[writers'[w].own[k].id].state \in PhaseStates(writers'[w], k)
      <3>1. CASE k = writers[w].pos
        <4>1. writers'[w].own[k] = held
          BY <2>2, <2>3, <3>1, Lengths
        <4>2. /\ intents'[nextId + 1].state = "RESERVED"
              /\ intents'[nextId + 1].path = writers[w].todo[k].path
          BY <1>2, <3>1, ReserveEffect DEF Current
        <4>3. QED BY <2>1, <2>2, <3>1, <4>1, <4>2 DEF PhaseStates
      <3>2. CASE k # writers[w].pos
        <4>1. k \in 1 .. Len(writers[w].own)
          BY <2>2, <2>3, <3>2, Lengths
        <4>2. /\ intents[writers[w].own[k].id].state = "COMMITTING"
              /\ intents[writers[w].own[k].id].path = writers[w].todo[k].path
              /\ writers[w].own[k].id \in Id
          <5>1. PhaseStates(writers[w], k) = {"COMMITTING"}
            BY <2>3 DEF PhaseStates
          <5>2. writers[w].pc # "idle"
            BY <2>3
          <5>3. QED BY <4>1, <5>1, <5>2, OwnLocked
        <4>3. writers[w].own[k].id # nextId + 1
          BY <4>2 DEF Fresh, Tables, NoIntent
        <4>4. intents'[writers[w].own[k].id] = intents[writers[w].own[k].id]
          BY <1>2, <4>2, <4>3, ReserveEffect
        <4>5. QED BY <2>2, <3>2, <4>1, <4>2, <4>4 DEF PhaseStates
      <3>3. QED BY <3>1, <3>2
    <2>5. WriterStep(w)
      BY <1>2 DEF WriterStep, WriterNext
    <2>6. QED BY <2>2, <2>4, <2>5, OwnRowsWhen DEF OwnRowsAt
  <1>3. ASSUME NEW w \in Writer, Stage(w)
        PROVE  OwnRows'
    <2>1. writers[w].pc = "stage" /\ intents' = intents /\ WriterStep(w)
      BY <1>3 DEF Stage, WriterStep, WriterNext
    <2>2. SameWork(w) /\ writers'[w].pc = "mark" /\ writers'[w].pos = writers[w].pos
      BY <1>3, GotoEffect DEF Stage, Pc
    <2>3. \A k \in 1 .. Len(writers[w].own) :
            PhaseStates(writers[w], k) \subseteq PhaseStates(writers'[w], k)
      BY <2>1, <2>2 DEF PhaseStates
    <2>4. QED BY <2>1, <2>2, <2>3, OwnRowsKept
  <1>4. ASSUME NEW w \in Writer, MarkCommitting(w)
        PROVE  OwnRows'
    <2>1. /\ writers[w].pc = "mark" /\ WriterStep(w) /\ RowTo(Held(w).id, "COMMITTING")
          /\ intents[Held(w).id].state = "RESERVED"
      BY <1>4, MarkCommittingMoves DEF MarkCommitting, WriterStep, WriterNext
    <2>2. SameWork(w) /\ writers'[w].pc \in {"reserve", "replace"}
      BY <1>4, <2>1, AdvanceEffect DEF MarkCommitting, Pc
    <2>3. ASSUME NEW k \in 1 .. Len(writers[w].own)
          PROVE  /\ intents'[writers[w].own[k].id].path = writers[w].todo[k].path
                 /\ intents'[writers[w].own[k].id].state = "COMMITTING"
      <3>1. /\ writers[w].own[k].id \in Id
            /\ intents[writers[w].own[k].id].path = writers[w].todo[k].path
        BY <2>1, OwnLocked
      <3>2. CASE writers[w].own[k].id = Held(w).id
        BY <2>1, <3>1, <3>2 DEF RowTo
      <3>3. CASE writers[w].own[k].id # Held(w).id
        <4>1. k # writers[w].pos
          BY <3>3 DEF Held
        <4>2. intents[writers[w].own[k].id].state = "COMMITTING"
          BY <2>1, <4>1, OwnLocked DEF PhaseStates
        <4>3. QED BY <2>1, <3>1, <3>3, <4>2 DEF RowTo
      <3>4. QED BY <3>2, <3>3
    <2>4. OwnRowsAt(writers'[w], intents')
      BY <2>2, <2>3 DEF OwnRowsAt, SameWork, PhaseStates
    <2>5. QED BY <2>1, <2>2, <2>4, OwnRowsWhen DEF SameWork
  <1>5. ASSUME NEW w \in Writer, Replace(w)
        PROVE  OwnRows'
    <2>1. writers[w].pc = "replace" /\ intents' = intents /\ WriterStep(w)
      BY <1>5 DEF Replace, WriterStep, WriterNext
    <2>2. Goto(w, "unlink") \/ Advance(w, "replace", "ready")
      BY <1>5 DEF Replace
    <2>3. SameWork(w) /\ writers'[w].pc \in {"unlink", "replace", "ready"}
      BY <2>1, <2>2, GotoEffect, AdvanceEffect DEF Pc
    <2>4. \A k \in 1 .. Len(writers[w].own) :
            PhaseStates(writers[w], k) \subseteq PhaseStates(writers'[w], k)
      BY <2>1, <2>3 DEF PhaseStates
    <2>5. QED BY <2>1, <2>3, <2>4, OwnRowsKept
  <1>6. ASSUME NEW w \in Writer, UnlinkOld(w)
        PROVE  OwnRows'
    <2>1. writers[w].pc # "idle" /\ intents' = intents /\ WriterStep(w)
      BY <1>6 DEF UnlinkOld, WriterStep, WriterNext
    <2>2. SameWork(w) /\ writers'[w].pc \in {"replace", "ready"}
      BY <1>6, <2>1, AdvanceEffect DEF UnlinkOld, Pc
    <2>3. \A k \in 1 .. Len(writers[w].own) :
            PhaseStates(writers[w], k) \subseteq PhaseStates(writers'[w], k)
      BY <1>6, <2>2 DEF UnlinkOld, PhaseStates
    <2>4. QED BY <2>1, <2>2, <2>3, OwnRowsKept
  <1>7. ASSUME NEW w \in Writer, MarkReady(w)
        PROVE  OwnRows'
    <2>1. /\ writers[w].pc = "ready" /\ WriterStep(w) /\ RowTo(Held(w).id, "READY")
      BY <1>7, MarkReadyMoves DEF MarkReady, WriterStep, WriterNext
    <2>2. SameWork(w) /\ writers'[w].pc = "cleanup"
      BY <1>7, GotoEffect DEF MarkReady, Pc
    <2>3. ASSUME NEW k \in 1 .. Len(writers[w].own)
          PROVE  /\ intents'[writers[w].own[k].id].path = writers[w].todo[k].path
                 /\ intents'[writers[w].own[k].id].state \in {"COMMITTING", "READY", "DELIVERED"}
      <3>1. /\ writers[w].own[k].id \in Id
            /\ intents[writers[w].own[k].id].path = writers[w].todo[k].path
            /\ intents[writers[w].own[k].id].state \in {"COMMITTING", "READY", "DELIVERED"}
        BY <2>1, OwnLocked DEF PhaseStates
      <3>2. CASE writers[w].own[k].id = Held(w).id
        BY <2>1, <3>1, <3>2 DEF RowTo
      <3>3. CASE writers[w].own[k].id # Held(w).id
        BY <2>1, <3>1, <3>3 DEF RowTo
      <3>4. QED BY <3>2, <3>3
    <2>4. OwnRowsAt(writers'[w], intents')
      BY <2>2, <2>3 DEF OwnRowsAt, SameWork, PhaseStates
    <2>5. QED BY <2>1, <2>2, <2>4, OwnRowsWhen DEF SameWork
  <1>8. ASSUME NEW w \in Writer, Cleanup(w)
        PROVE  OwnRows'
    <2>1. writers[w].pc = "cleanup" /\ intents' = intents /\ WriterStep(w)
      BY <1>8 DEF Cleanup, WriterStep, WriterNext
    <2>2. CASE Finish(w)
      BY <2>1, <2>2, FinishEffect, OwnRowsWhen
    <2>3. CASE Advance(w, "ready", "ready")
      <3>1. SameWork(w) /\ writers'[w].pc = "ready"
        BY <2>1, <2>3, AdvanceEffect DEF Pc
      <3>2. \A k \in 1 .. Len(writers[w].own) :
              PhaseStates(writers[w], k) \subseteq PhaseStates(writers'[w], k)
        BY <2>1, <3>1 DEF PhaseStates
      <3>3. QED BY <2>1, <3>1, <3>2, OwnRowsKept
    <2>4. QED BY <1>8, <2>2, <2>3 DEF Cleanup, Advance
  <1>9. ASSUME NEW w \in Writer, Restore(w)
        PROVE  OwnRows'
    <2>1. PICK p \in DOMAIN writers[w].snapshot : writers' = [writers EXCEPT
              ![w].snapshot = [q \in DOMAIN @ \ {p} |-> @[q]],
              ![w].pc = IF DOMAIN writers[w].snapshot = {p} THEN "discard" ELSE "restore"]
      BY <1>9 DEF Restore
    <2>2. SameWork(w) /\ writers'[w].pc \in {"discard", "restore"}
      BY <2>1, RestoreMoves
    <2>3. writers[w].pc = "restore" /\ intents' = intents /\ WriterStep(w)
      BY <1>9 DEF Restore, WriterStep, WriterNext
    <2>4. \A k \in 1 .. Len(writers[w].own) :
            PhaseStates(writers[w], k) \subseteq PhaseStates(writers'[w], k)
      BY <2>2, <2>3 DEF PhaseStates
    <2>5. QED BY <2>2, <2>3, <2>4, OwnRowsKept
  <1>10. ASSUME NEW w \in Writer, Discard(w)
        PROVE  OwnRows'
    <2>1. WriterStep(w) /\ writers'[w].pc = "idle"
          /\ \A v \in Writer : v # w => writers'[v] = writers[v]
      BY <1>10, FinishEffect DEF Discard, WriterStep, WriterNext
    <2>2. QED BY <2>1, OwnRowsWhen
  <1>11. ASSUME NEW w \in Writer, FailOne(w)
        PROVE  OwnRows'
    <2>1. WriterStep(w) /\ writers'[w].pc = "idle"
          /\ \A v \in Writer : v # w => writers'[v] = writers[v]
      BY <1>11, FinishEffect DEF FailOne, WriterStep, WriterNext
    <2>2. QED BY <2>1, OwnRowsWhen
  <1>12. ASSUME NEW w \in Writer, FailMany(w)
        PROVE  OwnRows'
    <2>1. writers[w].pc # "idle" /\ intents' = intents /\ WriterStep(w)
      BY <1>12 DEF FailMany, WriterStep, WriterNext
    <2>2. SameWork(w) /\ writers'[w].pc = "restore"
      BY <1>12, <2>1, GotoEffect DEF FailMany, Pc
    <2>3. \A k \in 1 .. Len(writers[w].own) :
            PhaseStates(writers[w], k) \subseteq PhaseStates(writers'[w], k)
      BY <1>12, <2>2 DEF FailMany, PhaseStates
    <2>4. QED BY <2>1, <2>2, <2>3, OwnRowsKept
  <1>13. ASSUME NEW w \in Writer, RollbackFails(w)
        PROVE  OwnRows'
    <2>1. WriterStep(w) /\ writers'[w].pc = "idle"
          /\ \A v \in Writer : v # w => writers'[v] = writers[v]
      BY <1>13, FinishEffect DEF RollbackFails, WriterStep, WriterNext
    <2>2. QED BY <2>1, OwnRowsWhen
  <1>14. ASSUME NEW i \in recovery, Replay(i)
        PROVE  OwnRows'
    BY <1>14 DEF OwnRows, Replay
  <1>15. ASSUME NEW i \in recovery, Recover(i)
        PROVE  OwnRows'
    <2>1. i \in Id /\ Unlocked(i) /\ writers' = writers
      BY <1>15 DEF Tables, Recover
    <2>2. \A j \in Id : j # i => intents'[j] = intents[j]
      BY <1>15, RecoverMoves DEF RowTo, Tables
    <2>3. ASSUME NEW v \in Writer, writers[v].pc # "idle", NEW k \in 1 .. Len(writers[v].own)
          PROVE  intents'[writers[v].own[k].id] = intents[writers[v].own[k].id]
      BY <2>1, <2>2, <2>3, OwnLocked, RecoveryElsewhere
    <2>4. QED BY <2>1, <2>3 DEF OwnRows
  <1>16. CASE ReadReady
    BY <1>16 DEF OwnRows, ReadReady
  <1>17. ASSUME NEW f \in forward, Send(f)
        PROVE  OwnRows'
    BY <1>17 DEF OwnRows, Send
  <1>18. ASSUME NEW f \in forward, MarkDelivered(f)
        PROVE  OwnRows'
    <2>1. writers' = writers
      BY <1>18 DEF MarkDelivered
    <2>2. CASE intents' = intents
      BY <2>1, <2>2 DEF OwnRows
    <2>3. CASE f.id \in Id /\ intents[f.id].state = "READY" /\ RowTo(f.id, "DELIVERED")
      <3>1. ASSUME NEW v \in Writer, writers[v].pc # "idle", NEW k \in 1 .. Len(writers[v].own)
            PROVE  /\ intents'[writers[v].own[k].id].path = writers[v].todo[k].path
                   /\ intents'[writers[v].own[k].id].state \in PhaseStates(writers[v], k)
        <4>1. /\ writers[v].own[k].id \in Id
              /\ intents[writers[v].own[k].id].path = writers[v].todo[k].path
              /\ intents[writers[v].own[k].id].state \in PhaseStates(writers[v], k)
          BY <3>1, OwnLocked
        <4>2. CASE writers[v].own[k].id = f.id
          <5>1. "READY" \in PhaseStates(writers[v], k)
            BY <2>3, <4>1, <4>2
          <5>2. "DELIVERED" \in PhaseStates(writers[v], k)
            BY <5>1 DEF PhaseStates
          <5>3. QED BY <2>3, <4>1, <4>2, <5>2 DEF RowTo
        <4>3. CASE writers[v].own[k].id # f.id
          BY <2>3, <4>1, <4>3 DEF RowTo
        <4>4. QED BY <4>2, <4>3
      <3>2. QED BY <2>1, <3>1 DEF OwnRows
    <2>4. QED BY <1>18, <2>2, <2>3, MarkDeliveredMoves
  <1>19. ASSUME NEW f \in forward, GiveUp(f)
        PROVE  OwnRows'
    BY <1>19 DEF OwnRows, GiveUp
  <1>20. CASE ForwarderRestart
    BY <1>20 DEF OwnRows, ForwarderRestart
  <1>21. ASSUME NEW p \in Path, NEW text \in Text \cup {Missing}, Edit(p, text)
        PROVE  OwnRows'
    BY <1>21 DEF OwnRows, Edit
  <1>22. CASE Crash
    BY <1>22 DEF OwnRows, Crash, Idle
  <1>23. CASE UNCHANGED vars
    BY <1>23 DEF OwnRows, vars
  <1>24. QED BY <1>1, <1>2, <1>3, <1>4, <1>5, <1>6, <1>7, <1>8, <1>9, <1>10, <1>11, <1>12, <1>13,
    <1>14, <1>15, <1>16, <1>17, <1>18, <1>19, <1>20, <1>21, <1>22, <1>23 DEF Next, WriterNext,
    ForwarderNext

-----------------------------------------------------------------------------
(* Failed batches.                                                          *)

LEMMA UndoableWhen ==
    ASSUME Tables, Threads, Placed, LocksHeld, OwnRows, Fresh, Undoable, NEW w \in Writer,
           WriterStep(w), \A v \in Writer : v # w => writers'[v] = writers[v],
           UndoableAt(writers'[w], applied')
    PROVE  Undoable'
  <1>1. ASSUME NEW v \in Writer, v # w
        PROVE  UndoableAt(writers'[v], applied')
    <2>1. UndoableAt(writers[v], applied) /\ writers'[v] = writers[v]
      BY <1>1 DEF Undoable
    <2>2. ASSUME writers[v].pc # "idle"
          PROVE  \A k \in 1 .. Len(writers[v].own) :
                   writers[v].own[k].id \in applied' => writers[v].own[k].id \in applied
      BY <1>1, <2>2, OthersKept
    <2>3. QED BY <2>1, <2>2 DEF UndoableAt
  <1>2. QED BY <1>1 DEF Undoable

LEMMA UndoableKept ==
    ASSUME Tables, Threads, Placed, LocksHeld, OwnRows, Fresh, Undoable, NEW w \in Writer,
           WriterStep(w), SameWork(w), writers'[w].snapshot = writers[w].snapshot,
           writers[w].pc \notin Undoing \cup {"idle"}, writers'[w].pc \notin Undoing
    PROVE  Undoable'
  <1>1. UndoableAt(writers'[w], applied')
    BY DEF Undoable, UndoableAt, SameWork
  <1>2. QED BY <1>1, UndoableWhen DEF SameWork

LEMMA UndoableElsewhere ==
    ASSUME Tables, Threads, Placed, LocksHeld, OwnRows, Undoable, NEW i \in Id, Unlocked(i),
           writers' = writers, applied' \subseteq applied \cup {i}
    PROVE  Undoable'
  <1>1. ASSUME NEW v \in Writer
        PROVE  UndoableAt(writers[v], applied')
    <2>1. ASSUME writers[v].pc # "idle"
          PROVE  \A k \in 1 .. Len(writers[v].own) :
                   writers[v].own[k].id \in applied' => writers[v].own[k].id \in applied
      BY <2>1, RecoveryElsewhere
    <2>2. QED BY <2>1 DEF Undoable, UndoableAt
  <1>2. QED BY <1>1 DEF Undoable

LEMMA UndoableStep ==
    ASSUME Tables, Threads, Placed, LocksHeld, OwnRows, Fresh, Undoable, [Next]_vars
    PROVE  Undoable'
  <1>1. ASSUME NEW w \in Writer, NEW job \in Jobs, Start(w, job)
        PROVE  Undoable'
    <2>1. UndoableAt(writers'[w], applied')
      BY <1>1, StartEffect DEF UndoableAt, Undoing
    <2>2. applied' = applied /\ \A v \in Writer : v # w => writers'[v] = writers[v]
      BY <1>1, StartEffect DEF Start
    <2>3. QED BY <2>1, <2>2 DEF Undoable
  <1>2. ASSUME NEW w \in Writer, Reserve(w)
        PROVE  Undoable'
    <2>1. PICK held \in [id: Id, fence: Nat] :
            writers' = [writers EXCEPT ![w].pc = "stage", ![w].own = Append(@, held)]
      BY <1>2, ReserveEffect
    <2>2. /\ writers'[w].pc = "stage" /\ writers'[w].todo = writers[w].todo
          /\ writers'[w].snapshot = writers[w].snapshot
          /\ \A v \in Writer : v # w => writers'[v] = writers[v]
      BY <2>1, ReserveMoves
    <2>3. writers[w].pc = "reserve" /\ WriterStep(w)
      BY <1>2 DEF Reserve, WriterStep, WriterNext
    <2>4. UndoableAt(writers'[w], applied')
      BY <2>2, <2>3 DEF Undoable, UndoableAt, Undoing
    <2>5. QED BY <2>2, <2>3, <2>4, UndoableWhen
  <1>3. ASSUME NEW w \in Writer, Stage(w)
        PROVE  Undoable'
    <2>1. WriterStep(w) /\ writers[w].pc \notin Undoing \cup {"idle"}
      BY <1>3 DEF Stage, WriterStep, WriterNext, Undoing
    <2>2. /\ SameWork(w) /\ writers'[w].snapshot = writers[w].snapshot
          /\ writers'[w].pc \notin Undoing
      BY <1>3, <2>1, GotoEffect DEF Stage, Pc, Undoing
    <2>3. QED BY <2>1, <2>2, UndoableKept
  <1>4. ASSUME NEW w \in Writer, MarkCommitting(w)
        PROVE  Undoable'
    <2>1. WriterStep(w) /\ writers[w].pc \notin Undoing \cup {"idle"}
      BY <1>4 DEF MarkCommitting, WriterStep, WriterNext, Undoing
    <2>2. /\ SameWork(w) /\ writers'[w].snapshot = writers[w].snapshot
          /\ writers'[w].pc \notin Undoing
      BY <1>4, <2>1, AdvanceEffect DEF MarkCommitting, Pc, Undoing
    <2>3. QED BY <2>1, <2>2, UndoableKept
  <1>5. ASSUME NEW w \in Writer, Replace(w)
        PROVE  Undoable'
    <2>1. WriterStep(w) /\ writers[w].pc \notin Undoing \cup {"idle"}
      BY <1>5 DEF Replace, WriterStep, WriterNext, Undoing
    <2>2. Goto(w, "unlink") \/ Advance(w, "replace", "ready")
      BY <1>5 DEF Replace
    <2>3. /\ SameWork(w) /\ writers'[w].snapshot = writers[w].snapshot
          /\ writers'[w].pc \notin Undoing
      BY <2>1, <2>2, GotoEffect, AdvanceEffect DEF Pc, Undoing
    <2>4. QED BY <2>1, <2>3, UndoableKept
  <1>6. ASSUME NEW w \in Writer, UnlinkOld(w)
        PROVE  Undoable'
    <2>1. WriterStep(w) /\ writers[w].pc \notin Undoing \cup {"idle"}
      BY <1>6 DEF UnlinkOld, WriterStep, WriterNext, Undoing
    <2>2. /\ SameWork(w) /\ writers'[w].snapshot = writers[w].snapshot
          /\ writers'[w].pc \notin Undoing
      BY <1>6, <2>1, AdvanceEffect DEF UnlinkOld, Pc, Undoing
    <2>3. QED BY <2>1, <2>2, UndoableKept
  <1>7. ASSUME NEW w \in Writer, MarkReady(w)
        PROVE  Undoable'
    <2>1. WriterStep(w) /\ writers[w].pc \notin Undoing \cup {"idle"}
      BY <1>7 DEF MarkReady, WriterStep, WriterNext, Undoing
    <2>2. /\ SameWork(w) /\ writers'[w].snapshot = writers[w].snapshot
          /\ writers'[w].pc \notin Undoing
      BY <1>7, <2>1, GotoEffect DEF MarkReady, Pc, Undoing
    <2>3. QED BY <2>1, <2>2, UndoableKept
  <1>8. ASSUME NEW w \in Writer, Cleanup(w)
        PROVE  Undoable'
    <2>1. WriterStep(w) /\ writers[w].pc \notin Undoing \cup {"idle"}
      BY <1>8 DEF Cleanup, WriterStep, WriterNext, Undoing
    <2>2. CASE Finish(w)
      <3>1. UndoableAt(writers'[w], applied')
        BY <2>2, FinishEffect DEF UndoableAt
      <3>2. QED BY <2>1, <2>2, <3>1, FinishEffect, UndoableWhen
    <2>3. CASE Advance(w, "ready", "ready")
      <3>1. /\ SameWork(w) /\ writers'[w].snapshot = writers[w].snapshot
            /\ writers'[w].pc \notin Undoing
        BY <2>1, <2>3, AdvanceEffect DEF Pc, Undoing
      <3>2. QED BY <2>1, <3>1, UndoableKept
    <2>4. QED BY <1>8, <2>2, <2>3 DEF Cleanup, Advance
  <1>9. ASSUME NEW w \in Writer, Restore(w)
        PROVE  Undoable'
    <2>1. PICK p \in DOMAIN writers[w].snapshot :
            /\ writers' = [writers EXCEPT
                 ![w].snapshot = [q \in DOMAIN @ \ {p} |-> @[q]],
                 ![w].pc = IF DOMAIN writers[w].snapshot = {p} THEN "discard" ELSE "restore"]
            /\ applied' = {i \in applied : ~(i \in OwnIds(w) /\ intents[i].path = p)}
      BY <1>9 DEF Restore
    <2>2. /\ SameWork(w)
          /\ writers'[w].pc =
               IF DOMAIN writers[w].snapshot = {p} THEN "discard" ELSE "restore"
          /\ DOMAIN writers'[w].snapshot = DOMAIN writers[w].snapshot \ {p}
      BY <2>1, RestoreMoves
    <2>3. writers[w].pc = "restore" /\ WriterStep(w) /\ UndoableAt(writers[w], applied)
      BY <1>9 DEF Restore, WriterStep, WriterNext, Undoable
    <2>4. ASSUME NEW k \in 1 .. Len(writers[w].own), writers[w].own[k].id \in applied'
          PROVE  writers[w].todo[k].path \in DOMAIN writers[w].snapshot \ {p}
      <3>1. writers[w].own[k].id \in OwnIds(w)
        BY LenProperties DEF OwnIds, Threads
      <3>2. /\ writers[w].own[k].id \in applied
            /\ intents[writers[w].own[k].id].path # p
        BY <2>1, <2>4, <3>1
      <3>3. intents[writers[w].own[k].id].path = writers[w].todo[k].path
        BY <2>3, OwnLocked
      <3>4. writers[w].todo[k].path \in DOMAIN writers[w].snapshot
        BY <2>3, <3>2 DEF UndoableAt, Undoing
      <3>5. QED BY <3>2, <3>3, <3>4
    <2>5. UndoableAt(writers'[w], applied')
      <3>1. ASSUME NEW k \in 1 .. Len(writers'[w].own), writers'[w].own[k].id \in applied'
            PROVE  /\ writers'[w].pc = "restore"
                   /\ writers'[w].todo[k].path \in DOMAIN writers'[w].snapshot
        <4>1. writers[w].todo[k].path \in DOMAIN writers[w].snapshot \ {p}
          BY <2>2, <2>4, <3>1 DEF SameWork
        <4>2. DOMAIN writers[w].snapshot # {p}
          BY <4>1
        <4>3. QED BY <2>2, <4>1, <4>2 DEF SameWork
      <3>2. writers'[w].pc \in Undoing
        BY <2>2 DEF Undoing
      <3>3. QED BY <3>1, <3>2 DEF UndoableAt
    <2>6. QED BY <2>2, <2>3, <2>5, UndoableWhen DEF SameWork
  <1>10. ASSUME NEW w \in Writer, Discard(w)
        PROVE  Undoable'
    <2>1. WriterStep(w) /\ writers'[w].pc = "idle"
          /\ \A v \in Writer : v # w => writers'[v] = writers[v]
      BY <1>10, FinishEffect DEF Discard, WriterStep, WriterNext
    <2>2. UndoableAt(writers'[w], applied')
      BY <2>1 DEF UndoableAt
    <2>3. QED BY <2>1, <2>2, UndoableWhen
  <1>11. ASSUME NEW w \in Writer, FailOne(w)
        PROVE  Undoable'
    <2>1. WriterStep(w) /\ writers'[w].pc = "idle"
          /\ \A v \in Writer : v # w => writers'[v] = writers[v]
      BY <1>11, FinishEffect DEF FailOne, WriterStep, WriterNext
    <2>2. UndoableAt(writers'[w], applied')
      BY <2>1 DEF UndoableAt
    <2>3. QED BY <2>1, <2>2, UndoableWhen
  <1>12. ASSUME NEW w \in Writer, FailMany(w)
        PROVE  Undoable'
    <2>1. /\ WriterStep(w) /\ writers[w].pc \notin Undoing \cup {"idle"}
          /\ UndoableAt(writers[w], applied) /\ PlacedAt(writers[w])
      BY <1>12 DEF FailMany, WriterStep, WriterNext, Undoing, Undoable, Placed
    <2>2. /\ SameWork(w) /\ writers'[w].snapshot = writers[w].snapshot
          /\ writers'[w].pc = "restore"
      BY <1>12, GotoEffect DEF FailMany, Pc
    <2>3. \A k \in 1 .. Len(writers[w].own) :
            k \in 1 .. Len(writers[w].todo) /\ writers[w].todo[k].path \in DOMAIN writers[w].snapshot
      BY <2>1, Lengths DEF UndoableAt, PlacedAt
    <2>4. UndoableAt(writers'[w], applied')
      BY <2>2, <2>3 DEF UndoableAt, SameWork, Undoing
    <2>5. QED BY <2>1, <2>2, <2>4, UndoableWhen DEF SameWork
  <1>13. ASSUME NEW w \in Writer, RollbackFails(w)
        PROVE  Undoable'
    <2>1. WriterStep(w) /\ writers'[w].pc = "idle"
          /\ \A v \in Writer : v # w => writers'[v] = writers[v]
      BY <1>13, FinishEffect DEF RollbackFails, WriterStep, WriterNext
    <2>2. UndoableAt(writers'[w], applied')
      BY <2>1 DEF UndoableAt
    <2>3. QED BY <2>1, <2>2, UndoableWhen
  <1>14. ASSUME NEW i \in recovery, Replay(i)
        PROVE  Undoable'
    <2>1. /\ i \in Id /\ Unlocked(i) /\ writers' = writers
          /\ applied' \subseteq applied \cup {i}
      BY <1>14 DEF Tables, Replay
    <2>2. QED BY <2>1, UndoableElsewhere
  <1>15. ASSUME NEW i \in recovery, Recover(i)
        PROVE  Undoable'
    <2>1. i \in Id /\ Unlocked(i) /\ writers' = writers
      BY <1>15 DEF Tables, Recover
    <2>2. applied' \subseteq applied \cup {i}
      BY <1>15 DEF Recover
    <2>3. QED BY <2>1, <2>2, UndoableElsewhere
  <1>16. CASE ReadReady
    BY <1>16 DEF Undoable, ReadReady
  <1>17. ASSUME NEW f \in forward, Send(f)
        PROVE  Undoable'
    BY <1>17 DEF Undoable, Send
  <1>18. ASSUME NEW f \in forward, MarkDelivered(f)
        PROVE  Undoable'
    BY <1>18 DEF Undoable, MarkDelivered
  <1>19. ASSUME NEW f \in forward, GiveUp(f)
        PROVE  Undoable'
    BY <1>19 DEF Undoable, GiveUp
  <1>20. CASE ForwarderRestart
    BY <1>20 DEF Undoable, ForwarderRestart
  <1>21. ASSUME NEW p \in Path, NEW text \in Text \cup {Missing}, Edit(p, text)
        PROVE  Undoable'
    BY <1>21 DEF Undoable, Edit
  <1>22. CASE Crash
    BY <1>22 DEF Undoable, Crash, UndoableAt, Idle
  <1>23. CASE UNCHANGED vars
    BY <1>23 DEF Undoable, vars
  <1>24. QED BY <1>1, <1>2, <1>3, <1>4, <1>5, <1>6, <1>7, <1>8, <1>9, <1>10, <1>11, <1>12, <1>13,
    <1>14, <1>15, <1>16, <1>17, <1>18, <1>19, <1>20, <1>21, <1>22, <1>23 DEF Next, WriterNext,
    ForwarderNext

-----------------------------------------------------------------------------
(* The invariant of every execution.                                        *)

LEMMA InvInit == Init => OutboxInv
  <1>1. ASSUME Init PROVE Tables /\ Threads
    BY <1>1, OutboxInit
  <1>2. ASSUME Init PROVE \A w \in Writer : writers[w].pc = "idle"
    BY <1>2 DEF Init, Idle
  <1>3. ASSUME Init PROVE Placed /\ LocksHeld /\ OwnRows /\ Undoable
    BY <1>2, <1>3 DEF Placed, PlacedAt, LocksHeld, OwnRows, Undoable, UndoableAt
  <1>4. ASSUME Init PROVE OneInflightPerPath
    BY <1>4 DEF Init, OneInflightPerPath, Inflight, Live, Rows, NoIntent
  <1>5. ASSUME Init PROVE WrittenIsRecorded /\ Fresh /\ SentIsMail
    BY <1>5 DEF Init, WrittenIsRecorded, Fresh, SentIsMail, NoIntent
  <1>6. QED BY <1>1, <1>3, <1>4, <1>5 DEF OutboxInv

LEMMA InvStep == OutboxInv /\ [Next]_vars => OutboxInv'
  BY TablesStep, ThreadsStep, OneInflightStep, WrittenStep, PlacedStep, LocksStep, OwnRowsStep,
     UndoableStep, FreshStep, SentStep DEF OutboxInv

LEMMA OutboxInvariant == Spec => []OutboxInv
  BY InvInit, InvStep, PTL DEF Spec

(* reserve() leaves no path with two unfinished changes, and the tables,     *)
(* locks and writers stay in order, whatever fails, dies or is recovered.   *)
THEOREM OnePathOneChangeAlways == Spec => []OnePathOneChange
  <1>1. OutboxInv => OnePathOneChange
    <2>1. ASSUME OutboxInv PROVE TypeOK
      <3>1. Tables /\ Threads
        BY <2>1 DEF OutboxInv
      <3>2. DOMAIN intents = Id /\ stage \in [Id -> Text \cup {Missing}]
        BY <3>1 DEF Tables, Content
      <3>3. \A w \in Writer : writers[w].pc \in Pc
        BY <3>1 DEF Threads
      <3>4. \A i \in Id : \/ intents[i] = NoIntent
                          \/ /\ intents[i].state \in State /\ intents[i].path \in Path
                             /\ intents[i].kind \in Kind /\ intents[i].by \in 0 .. MaxIntent
        BY <3>1 DEF Tables, Row
      <3>5. QED BY <3>1, <3>2, <3>3, <3>4 DEF Tables, Threads, TypeOK, Content
    <2>2. QED BY <2>1 DEF OutboxInv, OnePathOneChange
  <1>2. QED BY <1>1, OutboxInvariant, PTL

(* A change that is in the project keeps its durable intent until the        *)
(* mailbox has it: no error path, no undone batch and no recovery drops it. *)
THEOREM WrittenIsRecordedAlways == Spec => []WrittenIsRecorded
  <1>1. OutboxInv => WrittenIsRecorded
    BY DEF OutboxInv
  <1>2. QED BY <1>1, OutboxInvariant, PTL

-----------------------------------------------------------------------------
(* Single files.                                                            *)

LEMMA Modes ==
    ASSUME Threads, Placed, Tables, Fresh, SingleFiles, NEW w \in Writer, WriterStep(w)
    PROVE  writers[w].mode = "one" /\ writers[w].pc \notin Undoing \cup {"unlink"}
  <1>1. writers[w].mode = "one"
    BY DEF SingleFiles
  <1>2. writers[w].pc # "idle"
    BY DEF WriterStep, WriterNext, Reserve, Stage, MarkCommitting, Replace, UnlinkOld, MarkReady,
           Cleanup, Restore, Discard, FailOne, FailMany, RollbackFails
  <1>3. QED BY <1>1, <1>2 DEF Placed, PlacedAt

(* No step takes a change of a single file back.                            *)
LEMMA AppliedGrows ==
    ASSUME Tables, Threads, Placed, Fresh, SingleFiles, [Next]_vars
    PROVE  applied \subseteq applied'
  <1>1. ASSUME NEW w \in Writer, WriterStep(w)
        PROVE  applied \subseteq applied'
    <2>1. ~Restore(w)
      BY <1>1, Modes DEF Restore, Undoing
    <2>2. QED BY <1>1, <2>1 DEF WriterStep, WriterNext, Reserve, Stage, MarkCommitting, Replace,
           UnlinkOld, MarkReady, Cleanup, Discard, FailOne, FailMany, RollbackFails
  <1>2. QED BY <1>1 DEF Next, WriterStep, ForwarderNext, Start, Replay, Recover, ReadReady, Send,
           MarkDelivered, GiveUp, ForwarderRestart, Edit, Crash, vars


LEMMA SingleWhen ==
    ASSUME SingleFiles, NEW w \in Writer, \A v \in Writer : v # w => writers'[v] = writers[v],
           writers'[w].mode = "one"
    PROVE  SingleFiles'
  BY DEF SingleFiles

LEMMA SingleFinish ==
    ASSUME Threads, SingleFiles, NEW w \in Writer, Finish(w)
    PROVE  SingleFiles'
  BY DEF Finish, Threads, SingleFiles, Idle

LEMMA SingleStep ==
    ASSUME \A job \in Jobs : job.mode = "one", Tables, Threads, Placed, Fresh, SingleFiles,
           [Next]_vars
    PROVE  SingleFiles'
  <1>1. ASSUME NEW w \in Writer, NEW job \in Jobs, Start(w, job)
        PROVE  SingleFiles'
    BY <1>1, StartEffect, SingleWhen
  <1>2. ASSUME NEW w \in Writer, WriterStep(w)
        PROVE  SingleFiles'
    <2>1. ~Restore(w) /\ ~FailMany(w) /\ ~RollbackFails(w) /\ ~Discard(w)
      BY <1>2, Modes DEF Restore, FailMany, RollbackFails, Discard, Undoing
    <2>2. CASE SameWork(w)
      BY <2>2, SingleWhen DEF SameWork, SingleFiles
    <2>3. CASE Finish(w)
      BY <2>3, SingleFinish
    <2>4. CASE Reserve(w)
      <3>1. PICK held \in [id: Id, fence: Nat] :
              writers' = [writers EXCEPT ![w].pc = "stage", ![w].own = Append(@, held)]
        BY <2>4, ReserveEffect
      <3>2. QED BY <3>1, ReserveMoves, SingleWhen DEF SingleFiles
    <2>5. CASE Stage(w) \/ MarkReady(w)
      BY <2>2, <2>5, GotoEffect DEF Stage, MarkReady, Pc
    <2>6. CASE MarkCommitting(w) \/ UnlinkOld(w)
      <3>1. writers[w].pc # "idle"
        BY <2>6 DEF MarkCommitting, UnlinkOld
      <3>2. Advance(w, "reserve", "replace") \/ Advance(w, "replace", "ready")
        BY <2>6 DEF MarkCommitting, UnlinkOld
      <3>3. QED BY <2>2, <3>1, <3>2, AdvanceEffect DEF Pc
    <2>7. CASE Replace(w)
      <3>1. writers[w].pc # "idle"
        BY <2>7 DEF Replace
      <3>2. Goto(w, "unlink") \/ Advance(w, "replace", "ready")
        BY <2>7 DEF Replace
      <3>3. QED BY <2>2, <3>1, <3>2, GotoEffect, AdvanceEffect DEF Pc
    <2>8. CASE Cleanup(w)
      <3>1. writers[w].pc # "idle"
        BY <2>8 DEF Cleanup
      <3>2. Finish(w) \/ Advance(w, "ready", "ready")
        BY <2>8 DEF Cleanup, Advance
      <3>3. QED BY <2>2, <2>3, <3>1, <3>2, AdvanceEffect DEF Pc
    <2>9. CASE FailOne(w)
      BY <2>3, <2>9 DEF FailOne
    <2>10. QED BY <1>2, <2>1, <2>4, <2>5, <2>6, <2>7, <2>8, <2>9 DEF WriterStep, WriterNext
  <1>3. CASE Crash
    BY <1>3 DEF Crash, SingleFiles, Idle
  <1>4. QED BY <1>1, <1>2, <1>3 DEF Next, WriterStep, ForwarderNext, Replay, Recover, ReadReady,
           Send, MarkDelivered, GiveUp, ForwarderRestart, Edit, vars, SingleFiles

(* The one intent of a single-file commit.                                  *)
LEMMA OnlyIntent ==
    ASSUME Tables, Threads, Placed, Fresh, SingleFiles, NEW w \in Writer, WriterStep(w)
    PROVE  /\ writers[w].pos = 1 /\ Len(writers[w].todo) = 1
           /\ Current(w).kind # "rename" /\ Held(w) = writers[w].own[1]
  <1>1. writers[w].pc # "idle"
    BY DEF WriterStep, WriterNext, Reserve, Stage, MarkCommitting, Replace, UnlinkOld, MarkReady,
           Cleanup, Restore, Discard, FailOne, FailMany, RollbackFails
  <1>2. writers[w].mode = "one" /\ PlacedAt(writers[w])
    BY Modes DEF Placed
  <1>3. /\ Len(writers[w].todo) = 1 /\ writers[w].todo[1].kind # "rename"
        /\ writers[w].pos \in 1 .. Len(writers[w].todo)
    BY <1>1, <1>2 DEF PlacedAt
  <1>4. writers[w].pos = 1
    BY <1>3
  <1>5. QED BY <1>3, <1>4 DEF Current, Held

LEMMA RowsMadeWhenMoved ==
    ASSUME Tables, RowsMade, NEW i \in Id, NEW s, RowTo(i, s), applied \subseteq applied',
           s \in {"READY", "DELIVERED"} => i \in applied'
    PROVE  RowsMade'
  BY DEF RowsMade, RowTo

LEMMA RowsMadeWhenDropped ==
    ASSUME RowsMade, applied \subseteq applied',
           \A j \in Id : intents'[j] = NoIntent \/ intents'[j] = intents[j]
    PROVE  RowsMade'
  BY DEF RowsMade, NoIntent

LEMMA RowsMadeStep ==
    ASSUME Tables, Threads, Placed, LocksHeld, OwnRows, Fresh, SingleFiles, RowsMade,
           CommitsMade, EventsMade, [Next]_vars
    PROVE  RowsMade'
  <1>1. ASSUME NEW w \in Writer, NEW job \in Jobs, Start(w, job)
        PROVE  RowsMade'
    BY <1>1 DEF RowsMade, Start
  <1>2. ASSUME NEW w \in Writer, Reserve(w)
        PROVE  RowsMade'
    <2>1. /\ nextId + 1 \in Id /\ intents'[nextId + 1].state = "RESERVED"
          /\ \A i \in Id : i # nextId + 1 => intents'[i].state = intents[i].state
      BY <1>2, ReserveEffect
    <2>2. QED BY <1>2, <2>1 DEF Reserve, RowsMade
  <1>3. ASSUME NEW w \in Writer, Stage(w)
        PROVE  RowsMade'
    BY <1>3 DEF RowsMade, Stage
  <1>4. ASSUME NEW w \in Writer, MarkCommitting(w)
        PROVE  RowsMade'
    <2>1. QED BY <1>4, AppliedGrows, MarkCommittingMoves, RowsMadeWhenMoved
  <1>5. ASSUME NEW w \in Writer, Replace(w)
        PROVE  RowsMade'
    BY <1>5, AppliedGrows DEF RowsMade, Replace
  <1>6. ASSUME NEW w \in Writer, UnlinkOld(w)
        PROVE  RowsMade'
    BY <1>6 DEF RowsMade, UnlinkOld
  <1>7. ASSUME NEW w \in Writer, MarkReady(w)
        PROVE  RowsMade'
    <2>1. WriterStep(w) /\ writers[w].pc = "ready"
      BY <1>7 DEF MarkReady, WriterStep, WriterNext
    <2>2. Held(w).id \in applied
      BY <2>1, OnlyIntent DEF CommitsMade
    <2>3. QED BY <1>7, <2>2, AppliedGrows, MarkReadyMoves, RowsMadeWhenMoved
  <1>8. ASSUME NEW w \in Writer, Cleanup(w)
        PROVE  RowsMade'
    BY <1>8 DEF RowsMade, Cleanup
  <1>9. ASSUME NEW w \in Writer, Restore(w)
        PROVE  RowsMade'
    BY <1>9, AppliedGrows DEF RowsMade, Restore
  <1>10. ASSUME NEW w \in Writer, Discard(w)
        PROVE  RowsMade'
    <2>1. \A j \in Id : intents'[j] = NoIntent \/ intents'[j] = intents[j]
      BY <1>10 DEF Discard
    <2>2. QED BY <2>1, AppliedGrows, RowsMadeWhenDropped
  <1>11. ASSUME NEW w \in Writer, FailOne(w)
        PROVE  RowsMade'
    <2>1. \A j \in Id : intents'[j] = NoIntent \/ intents'[j] = intents[j]
      BY <1>11 DEF FailOne, Tables
    <2>2. QED BY <2>1, AppliedGrows, RowsMadeWhenDropped
  <1>12. ASSUME NEW w \in Writer, FailMany(w)
        PROVE  RowsMade'
    BY <1>12 DEF RowsMade, FailMany
  <1>13. ASSUME NEW w \in Writer, RollbackFails(w)
        PROVE  RowsMade'
    BY <1>13 DEF RowsMade, RollbackFails
  <1>14. ASSUME NEW i \in recovery, Replay(i)
        PROVE  RowsMade'
    BY <1>14 DEF RowsMade, Replay
  <1>15. ASSUME NEW i \in recovery, Recover(i)
        PROVE  RowsMade'
    <2>1. i \in Id
      BY DEF Tables
    <2>2. CASE RowTo(i, "READY") /\ applied' = applied \cup {i}
      BY <2>1, <2>2, RowsMadeWhenMoved
    <2>3. CASE RowTo(i, "REBASE_REQUIRED")
      BY <2>1, <2>3, AppliedGrows, RowsMadeWhenMoved
    <2>4. CASE intents' = [intents EXCEPT ![i] = NoIntent] \/ intents' = intents
      <3>1. \A j \in Id : intents'[j] = NoIntent \/ intents'[j] = intents[j]
        BY <2>4 DEF Tables
      <3>2. QED BY <3>1, AppliedGrows, RowsMadeWhenDropped
    <2>5. QED BY <1>15, <2>2, <2>3, <2>4, RecoverMoves
  <1>16. CASE ReadReady
    BY <1>16 DEF RowsMade, ReadReady
  <1>17. ASSUME NEW f \in forward, Send(f)
        PROVE  RowsMade'
    BY <1>17 DEF RowsMade, Send
  <1>18. ASSUME NEW f \in forward, MarkDelivered(f)
        PROVE  RowsMade'
    <2>1. CASE intents' = intents
      BY <2>1, AppliedGrows DEF RowsMade
    <2>2. CASE f.id \in Id /\ RowTo(f.id, "DELIVERED")
      <3>1. f.id \in applied'
        BY AppliedGrows DEF EventsMade
      <3>2. QED BY <2>2, <3>1, AppliedGrows, RowsMadeWhenMoved
    <2>3. QED BY <1>18, <2>1, <2>2, MarkDeliveredMoves
  <1>19. ASSUME NEW f \in forward, GiveUp(f)
        PROVE  RowsMade'
    BY <1>19 DEF RowsMade, GiveUp
  <1>20. CASE ForwarderRestart
    BY <1>20 DEF RowsMade, ForwarderRestart
  <1>21. ASSUME NEW p \in Path, NEW text \in Text \cup {Missing}, Edit(p, text)
        PROVE  RowsMade'
    BY <1>21 DEF RowsMade, Edit
  <1>22. CASE Crash
    BY <1>22 DEF RowsMade, Crash
  <1>23. CASE UNCHANGED vars
    BY <1>23 DEF RowsMade, vars
  <1>24. QED BY <1>1, <1>2, <1>3, <1>4, <1>5, <1>6, <1>7, <1>8, <1>9, <1>10, <1>11, <1>12, <1>13,
    <1>14, <1>15, <1>16, <1>17, <1>18, <1>19, <1>20, <1>21, <1>22, <1>23 DEF Next, WriterNext,
    ForwarderNext


LEMMA CommitsMadeWhen ==
    ASSUME CommitsMade, applied \subseteq applied', NEW w \in Writer,
           \A v \in Writer : v # w => writers'[v] = writers[v],
           writers'[w].pc \in {"ready", "cleanup"} => writers'[w].own[1].id \in applied'
    PROVE  CommitsMade'
  BY DEF CommitsMade

LEMMA CommitsMadeStep ==
    ASSUME Tables, Threads, Placed, LocksHeld, OwnRows, Fresh, SingleFiles, CommitsMade,
           [Next]_vars
    PROVE  CommitsMade'
  <1>1. ASSUME NEW w \in Writer, NEW job \in Jobs, Start(w, job)
        PROVE  CommitsMade'
    BY <1>1, StartEffect, AppliedGrows, CommitsMadeWhen
  <1>2. ASSUME NEW w \in Writer, WriterStep(w)
        PROVE  CommitsMade'
    <2>1. ~Restore(w) /\ ~FailMany(w) /\ ~RollbackFails(w) /\ ~Discard(w) /\ ~UnlinkOld(w)
      BY <1>2, Modes DEF Restore, FailMany, RollbackFails, Discard, UnlinkOld, Undoing
    <2>2. CASE Finish(w)
      BY <2>2, AppliedGrows, FinishEffect, CommitsMadeWhen
    <2>3. CASE Reserve(w)
      <3>1. PICK held \in [id: Id, fence: Nat] :
              writers' = [writers EXCEPT ![w].pc = "stage", ![w].own = Append(@, held)]
        BY <2>3, ReserveEffect
      <3>2. QED BY <3>1, ReserveMoves, AppliedGrows, CommitsMadeWhen
    <2>4. CASE Stage(w)
      <3>1. SameWork(w) /\ writers'[w].pc = "mark"
        BY <2>4, GotoEffect DEF Stage, Pc
      <3>2. QED BY <3>1, AppliedGrows, CommitsMadeWhen DEF SameWork
    <2>5. CASE MarkCommitting(w)
      <3>1. SameWork(w) /\ writers'[w].pc \in {"reserve", "replace"}
        BY <2>5, AdvanceEffect DEF MarkCommitting, Pc
      <3>2. QED BY <3>1, AppliedGrows, CommitsMadeWhen DEF SameWork
    <2>6. CASE Replace(w)
      <3>1. Held(w) = writers[w].own[1] /\ Current(w).kind # "rename"
        BY <1>2, OnlyIntent
      <3>2. writers[w].pc # "idle" /\ Advance(w, "replace", "ready") /\ Held(w).id \in applied'
        BY <2>6, <3>1 DEF Replace
      <3>3. SameWork(w)
        BY <3>2, AdvanceEffect DEF Pc
      <3>4. QED BY <3>1, <3>2, <3>3, AppliedGrows, CommitsMadeWhen DEF SameWork
    <2>7. CASE MarkReady(w) \/ Cleanup(w)
      <3>1. writers[w].pc \in {"ready", "cleanup"}
        BY <2>7 DEF MarkReady, Cleanup
      <3>2. writers[w].own[1].id \in applied'
        BY <3>1, AppliedGrows DEF CommitsMade
      <3>3. Goto(w, "cleanup") \/ Finish(w) \/ Advance(w, "ready", "ready")
        BY <2>7 DEF MarkReady, Cleanup, Advance
      <3>4. Finish(w) \/ SameWork(w)
        BY <3>1, <3>3, GotoEffect, AdvanceEffect DEF Pc
      <3>5. QED BY <2>2, <3>2, <3>4, AppliedGrows, CommitsMadeWhen DEF SameWork
    <2>8. CASE FailOne(w)
      BY <2>2, <2>8 DEF FailOne
    <2>9. QED BY <1>2, <2>1, <2>3, <2>4, <2>5, <2>6, <2>7, <2>8 DEF WriterStep, WriterNext
  <1>3. CASE Crash
    BY <1>3 DEF Crash, CommitsMade, Idle
  <1>4. ASSUME writers' = writers
        PROVE  CommitsMade'
    BY <1>4, AppliedGrows DEF CommitsMade
  <1>5. QED BY <1>1, <1>2, <1>3, <1>4 DEF Next, WriterStep, ForwarderNext, Replay, Recover,
           ReadReady, Send, MarkDelivered, GiveUp, ForwarderRestart, Edit, vars

(* What the forwarder read, sent or is about to send was made.              *)
LEMMA EventsMadeStep ==
    ASSUME Tables, Threads, Placed, Fresh, SingleFiles, RowsMade, EventsMade, NoFalseEvent,
           [Next]_vars
    PROVE  EventsMade' /\ NoFalseEvent'
  <1>1. CASE ReadReady
    <2>1. \A g \in forward' : g.id \in Id /\ intents[g.id].state = "READY"
      BY <1>1 DEF ReadReady, Live, Rows
    <2>2. mail' = mail /\ applied' = applied
      BY <1>1 DEF ReadReady
    <2>3. QED BY <2>1, <2>2 DEF RowsMade, EventsMade, NoFalseEvent
  <1>2. ASSUME NEW f \in forward, Send(f)
        PROVE  EventsMade' /\ NoFalseEvent'
    <2>1. f \in [id: Id, fence: Nat, sent: BOOLEAN]
      BY DEF Tables
    <2>2. [f EXCEPT !.sent = TRUE].id = f.id /\ f.id \in applied
      BY <2>1 DEF EventsMade
    <2>3. QED BY <1>2, <2>2 DEF Send, EventsMade, NoFalseEvent
  <1>3. ASSUME forward' \subseteq forward, mail' = mail
        PROVE  EventsMade' /\ NoFalseEvent'
    BY <1>3, AppliedGrows DEF EventsMade, NoFalseEvent
  <1>4. QED BY <1>1, <1>2, <1>3 DEF Next, WriterNext, ForwarderNext, Start, Reserve, Stage,
           MarkCommitting, Replace, UnlinkOld, MarkReady, Cleanup, Restore, Discard, FailOne,
           FailMany, RollbackFails, Replay, Recover, MarkDelivered, GiveUp, ForwarderRestart,
           Edit, Crash, vars

(* A CodeChanged message goes out if and only if the change was made, as     *)
(* long as files are committed one by one (commit()); a batch that is undone *)
(* takes back changes the forwarder may have announced.                     *)
THEOREM EventIffChangeAlways ==
    ASSUME \A job \in Jobs : job.mode = "one"
    PROVE  Spec => []EventIffChange
  <1>1. Init => EventInv
    <2>1. ASSUME Init PROVE NoFalseEvent /\ SingleFiles /\ RowsMade /\ CommitsMade /\ EventsMade
      BY <2>1 DEF Init, NoFalseEvent, SingleFiles, RowsMade, CommitsMade, EventsMade, Idle, NoIntent
    <2>2. QED BY <2>1, InvInit DEF EventInv
  <1>2. EventInv /\ [Next]_vars => EventInv'
    <2>1. ASSUME EventInv, [Next]_vars
          PROVE  EventInv'
      <3>1. /\ Tables /\ Threads /\ Placed /\ LocksHeld /\ OwnRows /\ Fresh
            /\ SingleFiles /\ RowsMade /\ CommitsMade /\ EventsMade /\ NoFalseEvent /\ OutboxInv
        BY <2>1 DEF EventInv, OutboxInv
      <3>2. OutboxInv'
        BY <2>1, <3>1, InvStep
      <3>3. SingleFiles'
        BY <2>1, <3>1, SingleStep
      <3>4. RowsMade' /\ CommitsMade'
        BY <2>1, <3>1, RowsMadeStep, CommitsMadeStep
      <3>5. EventsMade' /\ NoFalseEvent'
        BY <2>1, <3>1, EventsMadeStep
      <3>6. QED BY <3>2, <3>3, <3>4, <3>5 DEF EventInv
    <2>2. QED BY <2>1
  <1>3. EventInv => EventIffChange
    BY DEF EventInv, OutboxInv, EventIffChange
  <1>4. QED BY <1>1, <1>2, <1>3, PTL DEF Spec

-----------------------------------------------------------------------------
(* Batches.                                                                 *)

(* The files a change is about, and whether they are as it leaves them.      *)
PathsOf(c) == {c.path} \cup ({c.old} \ {NoPath})
MadeIn(f, c) == f[c.path] = c.text /\ (c.kind = "rename" => f[c.old] = Missing)

(* All of them or none.                                                     *)
Even(f, changes) ==
    \A i, j \in DOMAIN changes : MadeIn(f, changes[i]) <=> MadeIn(f, changes[j])

(* A batch that is its files' only author: no change of it is about a file   *)
(* of another change, of another job, or of an editor, and the project does *)
(* not start with half of it.                                               *)
Apart(changes) ==
    /\ \A i, j \in DOMAIN changes : i # j => PathsOf(changes[i]) \cap PathsOf(changes[j]) = {}
    /\ \A i \in DOMAIN changes : changes[i].old # changes[i].path

Undisturbed ==
    /\ MaxEdit = 0
    /\ \A job \in Jobs : job.mode = "many" =>
         /\ Apart(job.changes) /\ Even(InitialFile, job.changes)
         /\ \A other \in Jobs : other # job =>
              Affected(other.changes) \cap Affected(job.changes) = {}

(* A running commit is one of the jobs, and what it noted are files of it.   *)
WorkAt(r) ==
    r.pc # "idle" =>
      /\ \E job \in Jobs : job.mode = r.mode /\ job.changes = r.todo
      /\ DOMAIN r.snapshot \subseteq Affected(r.todo)

(* A commit holds the locks of all its files, and nobody holds any other.    *)
LocksExact ==
    /\ \A w \in Writer : writers[w].pc # "idle" =>
         \A p \in Affected(writers[w].todo) : lock[p] = w
    /\ \A p \in Path : lock[p] # NoPath =>
         writers[lock[p]].pc # "idle" /\ p \in Affected(writers[lock[p]].todo)

WorkInv == (\A w \in Writer : WorkAt(writers[w])) /\ LocksExact

(* The project as it was before the batch, as far as that is not put back.   *)
Before(r, f) == [p \in Path |-> IF p \in DOMAIN r.snapshot THEN r.snapshot[p] ELSE f[p]]

(* How far a batch is.                                                      *)
BatchAt(r, f) ==
    r.pc # "idle" /\ r.mode = "many" =>
      /\ Even(Before(r, f), r.todo)
      /\ r.pc \notin Undoing => DOMAIN r.snapshot = Affected(r.todo)
      /\ r.pc = "discard" => DOMAIN r.snapshot = {}
      /\ r.pc \in {"replace", "unlink"} =>
           \A k \in DOMAIN r.todo : k < r.pos => MadeIn(f, r.todo[k])
      /\ r.pc = "unlink" => f[r.todo[r.pos].path] = r.todo[r.pos].text
      /\ r.pc \in {"ready", "cleanup"} => \A k \in DOMAIN r.todo : MadeIn(f, r.todo[k])

(* The batches that are not being committed are there or not.               *)
Settled ==
    \A job \in Jobs :
        job.mode = "many" /\ (\A p \in Affected(job.changes) : lock[p] = NoPath) =>
            Even(file, job.changes)

Counts == faults \in Nat /\ edits = 0

BatchInv ==
    /\ OutboxInv /\ WorkInv /\ Counts
    /\ faults = 0 => /\ recovery = {}
                     /\ \A w \in Writer : BatchAt(writers[w], file)
                     /\ Settled

LEMMA EvenSame ==
    ASSUME NEW changes \in Seq(Change), NEW f, NEW g,
           \A p \in Affected(changes) : g[p] = f[p]
    PROVE  /\ Even(g, changes) <=> Even(f, changes)
           /\ \A k \in DOMAIN changes : MadeIn(g, changes[k]) <=> MadeIn(f, changes[k])
  <1>1. \A k \in DOMAIN changes : MadeIn(g, changes[k]) <=> MadeIn(f, changes[k])
    <2> SUFFICES ASSUME NEW k \in DOMAIN changes
                 PROVE  MadeIn(g, changes[k]) <=> MadeIn(f, changes[k])
      OBVIOUS
    <2>1. changes[k] \in Change
      BY LenProperties, ElementOfSeq
    <2>2. changes[k].path \in Affected(changes)
      BY DEF Affected
    <2>3. changes[k].kind = "rename" => changes[k].old \in Affected(changes)
      BY <2>1, ChangeFields, OutboxAssumption DEF Affected
    <2>4. QED BY <2>2, <2>3 DEF MadeIn
  <1>2. QED BY <1>1 DEF Even

LEMMA AffectedPaths ==
    ASSUME NEW changes \in Seq(Change)
    PROVE  /\ Affected(changes) \subseteq Path
           /\ \A k \in DOMAIN changes : PathsOf(changes[k]) \subseteq Affected(changes)
  <1>1. \A k \in DOMAIN changes : changes[k] \in Change
    BY LenProperties, ElementOfSeq
  <1>2. Affected(changes) \subseteq Path
    BY <1>1, ChangeFields DEF Affected
  <1>3. QED BY <1>2 DEF Affected, PathsOf

(* A step inside a commit: the writer stays at its job, the locks stay.      *)
Works(w) ==
    /\ writers' \in [Writer -> WriterType] /\ lock' = lock
    /\ \A v \in Writer : v # w => writers'[v] = writers[v]
    /\ writers'[w].mode = writers[w].mode /\ writers'[w].todo = writers[w].todo
    /\ writers'[w].pc # "idle"
    /\ DOMAIN writers'[w].snapshot \subseteq DOMAIN writers[w].snapshot

LEMMA WorksOrFinishes ==
    ASSUME Tables, Threads, Placed, Fresh, NEW w \in Writer, WriterStep(w)
    PROVE  /\ writers[w].pc # "idle"
           /\ \/ Works(w)
              \/ Finish(w) /\ (Cleanup(w) \/ Discard(w) \/ FailOne(w) \/ RollbackFails(w))
  <1>1. writers[w].pc # "idle"
    BY DEF WriterStep, WriterNext, Reserve, Stage, MarkCommitting, Replace, UnlinkOld, MarkReady,
           Cleanup, Restore, Discard, FailOne, FailMany, RollbackFails
  <1>2. ASSUME SameWork(w), writers'[w].pc # "idle", lock' = lock,
               writers'[w].snapshot = writers[w].snapshot
        PROVE  Works(w)
    BY <1>2 DEF SameWork, Works
  <1>3. CASE Reserve(w)
    <2>1. PICK held \in [id: Id, fence: Nat] :
            writers' = [writers EXCEPT ![w].pc = "stage", ![w].own = Append(@, held)]
      BY <1>3, ReserveEffect
    <2>2. lock' = lock
      BY <1>3 DEF Reserve
    <2>3. QED BY <1>1, <2>1, <2>2, ReserveMoves DEF Works
  <1>4. CASE Stage(w) \/ MarkReady(w) \/ FailMany(w)
    <2>1. lock' = lock /\ \E pc \in {"mark", "cleanup", "restore"} : Goto(w, pc)
      BY <1>4 DEF Stage, MarkReady, FailMany
    <2>2. PICK pc \in {"mark", "cleanup", "restore"} : Goto(w, pc)
      BY <2>1
    <2>3. QED BY <1>1, <1>2, <2>1, <2>2, GotoEffect DEF Pc
  <1>5. CASE MarkCommitting(w) \/ UnlinkOld(w) \/ (Replace(w) /\ Advance(w, "replace", "ready"))
    <2>1. lock' = lock /\ (Advance(w, "reserve", "replace") \/ Advance(w, "replace", "ready"))
      BY <1>5 DEF MarkCommitting, UnlinkOld, Replace
    <2>2. QED BY <1>1, <1>2, <2>1, AdvanceEffect DEF Pc
  <1>6. CASE Replace(w) /\ Goto(w, "unlink")
    <2>1. lock' = lock
      BY <1>6 DEF Replace
    <2>2. QED BY <1>1, <1>2, <1>6, <2>1, GotoEffect DEF Pc
  <1>7. CASE Cleanup(w)
    <2>1. CASE Finish(w)
      BY <1>1, <1>7, <2>1
    <2>2. CASE Advance(w, "ready", "ready") /\ lock' = lock
      <3>1. /\ SameWork(w) /\ writers'[w].pc = "ready"
            /\ writers'[w].snapshot = writers[w].snapshot
        BY <1>1, <2>2, AdvanceEffect DEF Pc
      <3>2. QED BY <1>1, <1>2, <2>2, <3>1
    <2>3. QED BY <1>7, <2>1, <2>2 DEF Cleanup, Advance
  <1>8. CASE Restore(w)
    <2>1. PICK p \in DOMAIN writers[w].snapshot : writers' = [writers EXCEPT
              ![w].snapshot = [q \in DOMAIN @ \ {p} |-> @[q]],
              ![w].pc = IF DOMAIN writers[w].snapshot = {p} THEN "discard" ELSE "restore"]
      BY <1>8 DEF Restore
    <2>2. lock' = lock
      BY <1>8 DEF Restore
    <2>3. /\ SameWork(w) /\ writers'[w].pc \in {"discard", "restore"}
          /\ DOMAIN writers'[w].snapshot = DOMAIN writers[w].snapshot \ {p}
      BY <2>1, RestoreMoves
    <2>4. QED BY <1>1, <2>2, <2>3 DEF SameWork, Works
  <1>9. CASE Discard(w) \/ FailOne(w) \/ RollbackFails(w)
    BY <1>1, <1>9 DEF Discard, FailOne, RollbackFails
  <1>10. Replace(w) => Goto(w, "unlink") \/ Advance(w, "replace", "ready")
    BY DEF Replace
  <1>11. QED BY <1>3, <1>4, <1>5, <1>6, <1>7, <1>8, <1>9, <1>10 DEF WriterStep, WriterNext

(* Jobs, notes and locks go together, in every execution.                    *)
LEMMA WorkStep ==
    ASSUME Tables, Threads, Placed, Fresh, WorkInv, [Next]_vars
    PROVE  WorkInv'
  <1>1. ASSUME NEW w \in Writer, NEW job \in Jobs, Start(w, job)
        PROVE  WorkInv'
    <2>1. /\ writers' \in [Writer -> WriterType] /\ writers[w].pc = "idle"
          /\ \A v \in Writer : v # w => writers'[v] = writers[v]
          /\ writers'[w].pc = "reserve" /\ writers'[w].mode = job.mode
          /\ writers'[w].todo = job.changes
          /\ DOMAIN writers'[w].snapshot = Affected(job.changes)
          /\ Affected(job.changes) \subseteq Path
      BY <1>1, StartEffect, AffectedPaths DEF Start
    <2>2. /\ \A p \in Affected(job.changes) : lock[p] = NoPath
          /\ lock' = [p \in Path |-> IF p \in Affected(job.changes) THEN w ELSE lock[p]]
      BY <1>1 DEF Start
    <2>3. \A v \in Writer : WorkAt(writers'[v])
      <3>1. WorkAt(writers'[w])
        BY <2>1 DEF WorkAt
      <3>2. QED BY <2>1, <3>1 DEF WorkInv
    <2>4. ASSUME NEW v \in Writer, writers'[v].pc # "idle", NEW p \in Affected(writers'[v].todo)
          PROVE  lock'[p] = v
      <3>1. CASE v = w
        BY <2>1, <2>2, <2>4, <3>1
      <3>2. CASE v # w
        <4>1. writers'[v] = writers[v] /\ lock[p] = v /\ v # NoPath
          BY <2>1, <2>4, <3>2, OutboxAssumption DEF WorkInv, LocksExact
        <4>2. p \in Path
          BY <2>4, <4>1, AffectedPaths DEF Threads
        <4>3. QED BY <2>2, <4>1, <4>2
      <3>3. QED BY <3>1, <3>2
    <2>5. ASSUME NEW p \in Path, lock'[p] # NoPath
          PROVE  writers'[lock'[p]].pc # "idle" /\ p \in Affected(writers'[lock'[p]].todo)
      <3>1. CASE p \in Affected(job.changes)
        BY <2>1, <2>2, <3>1
      <3>2. CASE p \notin Affected(job.changes)
        <4>1. /\ lock'[p] = lock[p] /\ writers[lock[p]].pc # "idle"
              /\ p \in Affected(writers[lock[p]].todo)
          BY <2>2, <2>5, <3>2 DEF WorkInv, LocksExact
        <4>2. lock[p] \in Writer /\ lock[p] # w
          BY <2>1, <2>5, <4>1 DEF Threads
        <4>3. QED BY <2>1, <4>1, <4>2
      <3>3. QED BY <3>1, <3>2
    <2>6. QED BY <2>3, <2>4, <2>5 DEF WorkInv, LocksExact
  <1>2. ASSUME NEW w \in Writer, WriterStep(w)
        PROVE  WorkInv'
    <2>1. writers[w].pc # "idle" /\ (Works(w) \/ Finish(w))
      BY <1>2, WorksOrFinishes
    <2>2. CASE Works(w)
      <3>1. \A v \in Writer : WorkAt(writers'[v])
        BY <2>1, <2>2 DEF Works, WorkInv, WorkAt
      <3>2. \A v \in Writer : (writers'[v].pc # "idle" <=> writers[v].pc # "idle")
                              /\ writers'[v].todo = writers[v].todo
        BY <2>1, <2>2 DEF Works
      <3>3. \A p \in Path : lock[p] # NoPath => lock[p] \in Writer
        BY DEF Threads
      <3>4. LocksExact'
        BY <2>2, <3>2, <3>3 DEF Works, WorkInv, LocksExact
      <3>5. QED BY <3>1, <3>4 DEF WorkInv
    <2>3. CASE Finish(w)
      <3>1. /\ writers'[w].pc = "idle" /\ \A v \in Writer : v # w => writers'[v] = writers[v]
            /\ lock' = [p \in Path |-> IF lock[p] = w THEN NoPath ELSE lock[p]]
        BY <2>3, FinishEffect DEF Finish, Released
      <3>2. \A v \in Writer : WorkAt(writers'[v])
        BY <3>1 DEF WorkInv, WorkAt
      <3>3. ASSUME NEW v \in Writer, writers'[v].pc # "idle", NEW p \in Affected(writers'[v].todo)
            PROVE  lock'[p] = v
        <4>1. v # w /\ writers'[v] = writers[v] /\ lock[p] = v
          BY <3>1, <3>3 DEF WorkInv, LocksExact
        <4>2. p \in Path
          BY <3>3, <4>1, AffectedPaths DEF Threads
        <4>3. QED BY <3>1, <4>1, <4>2
      <3>4. ASSUME NEW p \in Path, lock'[p] # NoPath
            PROVE  writers'[lock'[p]].pc # "idle" /\ p \in Affected(writers'[lock'[p]].todo)
        <4>1. lock'[p] = lock[p] /\ lock[p] # w /\ lock[p] \in Writer
          BY <3>1, <3>4 DEF Threads
        <4>2. QED BY <3>1, <3>4, <4>1 DEF WorkInv, LocksExact
      <3>5. QED BY <3>2, <3>3, <3>4 DEF WorkInv, LocksExact
    <2>4. QED BY <2>1, <2>2, <2>3
  <1>3. CASE Crash
    BY <1>3 DEF Crash, WorkInv, WorkAt, LocksExact, Idle
  <1>4. ASSUME UNCHANGED <<lock, writers>>
        PROVE  WorkInv'
    BY <1>4 DEF WorkInv, LocksExact
  <1>5. ASSUME NEW i \in recovery, Replay(i) \/ Recover(i)
        PROVE  WorkInv'
    <2>1. UNCHANGED <<lock, writers>>
      BY <1>5, Zenon DEF Replay, Recover
    <2>2. QED BY <1>4, <2>1
  <1>6. QED BY <1>1, <1>2, <1>3, <1>4, <1>5 DEF Next, WriterStep, ForwarderNext, ReadReady, Send,
           MarkDelivered, GiveUp, ForwarderRestart, Edit, vars

(* A commit writes only files it has locked.                                *)
LEMMA FilesTouched ==
    ASSUME Tables, Threads, Placed, Fresh, WorkInv, NEW w \in Writer, WriterStep(w)
    PROVE  \A p \in Path : file'[p] # file[p] => lock[p] = w
  <1>1. /\ writers[w].pc # "idle" /\ writers[w].todo \in Seq(Change)
        /\ \A p \in Affected(writers[w].todo) : lock[p] = w
        /\ DOMAIN writers[w].snapshot \subseteq Affected(writers[w].todo)
    BY WorksOrFinishes DEF WorkInv, LocksExact, WorkAt, Threads
  <1>2. PathsOf(Current(w)) \subseteq Affected(writers[w].todo)
    <2>1. writers[w].pos \in DOMAIN writers[w].todo
      BY <1>1, AtWork, LenProperties
    <2>2. QED BY <1>1, <2>1, AffectedPaths DEF Current
  <1>3. CASE Replace(w)
    <2>1. file' = [file EXCEPT ![Current(w).path] = Current(w).text]
      BY <1>3 DEF Replace
    <2>2. QED BY <1>1, <1>2, <2>1 DEF PathsOf, Tables
  <1>4. CASE UnlinkOld(w)
    <2>1. file' = [file EXCEPT ![Current(w).old] = Missing]
      BY <1>4 DEF UnlinkOld
    <2>2. QED BY <1>1, <1>2, <2>1, OutboxAssumption DEF PathsOf, Tables
  <1>5. CASE Restore(w)
    <2>1. PICK p \in DOMAIN writers[w].snapshot :
            file' = [file EXCEPT ![p] = writers[w].snapshot[p]]
      BY <1>5 DEF Restore
    <2>2. QED BY <1>1, <2>1 DEF Tables
  <1>6. ASSUME file' = file
        PROVE  \A p \in Path : file'[p] # file[p] => lock[p] = w
    BY <1>6
  <1>7. QED BY <1>3, <1>4, <1>5, <1>6 DEF WriterStep, WriterNext, Reserve, Stage, MarkCommitting,
           MarkReady, Cleanup, Discard, FailOne, FailMany, RollbackFails

(* Files it is not about do not matter to a batch.                          *)
LEMMA BatchKept ==
    ASSUME Threads, Placed, NEW w \in Writer, NEW f, NEW g, BatchAt(writers[w], f),
           \A p \in Affected(writers[w].todo) : g[p] = f[p]
    PROVE  BatchAt(writers[w], g)
  <1> DEFINE r == writers[w]
  <1>1. SUFFICES ASSUME r.pc # "idle", r.mode = "many" PROVE BatchAt(r, g)
    BY DEF BatchAt
  <1>2. r.todo \in Seq(Change) /\ r.pos \in DOMAIN r.todo
    BY <1>1, AtWork, LenProperties DEF Threads
  <1>3. Even(Before(r, g), r.todo) <=> Even(Before(r, f), r.todo)
    <2>1. \A p \in Affected(r.todo) : Before(r, g)[p] = Before(r, f)[p]
      BY <1>2, AffectedPaths DEF Before
    <2>2. QED BY <1>2, <2>1, EvenSame
  <1>4. \A k \in DOMAIN r.todo : MadeIn(g, r.todo[k]) <=> MadeIn(f, r.todo[k])
    BY <1>2, EvenSame
  <1>5. g[r.todo[r.pos].path] = f[r.todo[r.pos].path]
    BY <1>2 DEF Affected
  <1>6. QED BY <1>1, <1>3, <1>4, <1>5 DEF BatchAt

(* One change made leaves the others as they are.                           *)
LEMMA MadeElsewhere ==
    ASSUME NEW changes \in Seq(Change), Apart(changes), NEW k \in DOMAIN changes,
           NEW l \in DOMAIN changes, k # l, NEW f, NEW g,
           \A p \in Path : p \notin PathsOf(changes[l]) => g[p] = f[p]
    PROVE  MadeIn(g, changes[k]) <=> MadeIn(f, changes[k])
  <1>1. changes[k] \in Change
    BY LenProperties, ElementOfSeq
  <1>2. \A p \in PathsOf(changes[k]) : p \in Path /\ p \notin PathsOf(changes[l])
    BY AffectedPaths DEF Apart
  <1>3. g[changes[k].path] = f[changes[k].path]
    BY <1>2 DEF PathsOf
  <1>4. changes[k].kind = "rename" => g[changes[k].old] = f[changes[k].old]
    BY <1>1, <1>2, ChangeFields, OutboxAssumption DEF PathsOf
  <1>5. QED BY <1>3, <1>4 DEF MadeIn

(* Each step takes its batch on.                                            *)
LEMMA BatchOn ==
    ASSUME Tables, Threads, Placed, Fresh, WorkInv, Undisturbed, NEW w \in Writer, WriterStep(w),
           BatchAt(writers[w], file)
    PROVE  BatchAt(writers'[w], file')
  <1> DEFINE r == writers[w]
  <1>1. r.pc # "idle" /\ (Works(w) \/ Finish(w))
    BY WorksOrFinishes
  <1>2. SUFFICES ASSUME Works(w), r.mode = "many" PROVE BatchAt(writers'[w], file')
    BY <1>1, FinishEffect DEF BatchAt, Works
  <1>3. /\ r.todo \in Seq(Change) /\ r.pos \in DOMAIN r.todo /\ r.pos \in 1 .. Len(r.todo)
        /\ DOMAIN r.todo = 1 .. Len(r.todo) /\ Len(r.todo) \in Nat /\ Current(w) = r.todo[r.pos]
        /\ Current(w) \in Change
    BY <1>1, AtWork, LenProperties DEF Threads, Current
  <1>4. Apart(r.todo) /\ Affected(r.todo) \subseteq Path
    BY <1>1, <1>2, <1>3, AffectedPaths DEF Undisturbed, WorkInv, WorkAt
  <1>5. /\ Even(Before(r, file), r.todo)
        /\ r.pc \notin Undoing => DOMAIN r.snapshot = Affected(r.todo)
        /\ r.pc \in {"replace", "unlink"} =>
             \A k \in DOMAIN r.todo : k < r.pos => MadeIn(file, r.todo[k])
        /\ r.pc = "unlink" => file[r.todo[r.pos].path] = r.todo[r.pos].text
        /\ r.pc \in {"ready", "cleanup"} => \A k \in DOMAIN r.todo : MadeIn(file, r.todo[k])
    BY <1>1, <1>2 DEF BatchAt
  (* The snapshots are all there: what the files hold does not matter.      *)
  <1>6. ASSUME DOMAIN r.snapshot = Affected(r.todo)
        PROVE  Even(Before(r, file'), r.todo)
    <2>1. \A p \in Affected(r.todo) : Before(r, file')[p] = Before(r, file)[p]
      BY <1>4, <1>6 DEF Before
    <2>2. QED BY <1>3, <1>5, <2>1, EvenSame
  <1>7. ASSUME writers'[w].snapshot = r.snapshot, writers'[w].todo = r.todo,
               r.pc \notin Undoing, writers'[w].pc \in Pc,
               writers'[w].pc \in {"replace", "unlink"} =>
                 \A k \in DOMAIN r.todo : k < writers'[w].pos => MadeIn(file', r.todo[k]),
               writers'[w].pc = "unlink" =>
                 file'[r.todo[writers'[w].pos].path] = r.todo[writers'[w].pos].text,
               writers'[w].pc \in {"ready", "cleanup"} =>
                 \A k \in DOMAIN r.todo : MadeIn(file', r.todo[k]),
               writers'[w].pc # "discard"
        PROVE  BatchAt(writers'[w], file')
    <2>1. DOMAIN r.snapshot = Affected(r.todo)
      BY <1>5, <1>7
    <2>2. Even(Before(r, file'), r.todo)
      BY <1>6, <2>1
    <2>3. Before(writers'[w], file') = Before(r, file')
      BY <1>7 DEF Before
    <2>4. QED BY <1>7, <2>1, <2>2, <2>3 DEF BatchAt
  (* One change further in the replacing phase.                             *)
  <1>8. ASSUME Advance(w, "replace", "ready"), r.pc \in {"replace", "unlink"},
               \A k \in DOMAIN r.todo : k < r.pos => MadeIn(file', r.todo[k]),
               MadeIn(file', r.todo[r.pos])
        PROVE  BatchAt(writers'[w], file')
    <2>1. /\ writers'[w].snapshot = r.snapshot /\ writers'[w].todo = r.todo
          /\ \/ /\ r.pos < Len(r.todo)
                /\ writers'[w].pc = "replace" /\ writers'[w].pos = r.pos + 1
             \/ /\ r.pos = Len(r.todo)
                /\ writers'[w].pc = "ready" /\ writers'[w].pos = 1
      <3>1. "replace" \in Pc /\ "ready" \in Pc
        BY DEF Pc
      <3>2. QED BY <1>1, <1>8, <3>1, AdvanceEffect DEF SameWork
    <2>2. \A k \in DOMAIN r.todo : k <= r.pos => MadeIn(file', r.todo[k])
      BY <1>3, <1>8
    <2>3. \A k \in DOMAIN r.todo : k < r.pos + 1 => k <= r.pos
      BY <1>3
    <2>4. r.pos = Len(r.todo) => \A k \in DOMAIN r.todo : k <= r.pos
      BY <1>3
    <2>5. QED BY <1>7, <1>8, <2>1, <2>2, <2>3, <2>4 DEF Undoing, Pc
  <1>9. CASE Reserve(w)
    <2>1. PICK held \in [id: Id, fence: Nat] :
            writers' = [writers EXCEPT ![w].pc = "stage", ![w].own = Append(@, held)]
      BY <1>9, ReserveEffect
    <2>2. /\ writers'[w].pc = "stage" /\ writers'[w].todo = r.todo
          /\ writers'[w].snapshot = r.snapshot
      BY <2>1, ReserveMoves
    <2>3. QED BY <1>7, <1>9, <2>2 DEF Reserve, Undoing, Pc
  <1>10. CASE Stage(w)
    <2>1. /\ writers'[w].pc = "mark" /\ writers'[w].todo = r.todo
          /\ writers'[w].snapshot = r.snapshot
      BY <1>10, GotoEffect DEF Stage, Pc, SameWork
    <2>2. QED BY <1>7, <1>10, <2>1 DEF Stage, Undoing, Pc
  <1>11. CASE FailMany(w)
    <2>1. /\ writers'[w].pc = "restore" /\ writers'[w].todo = r.todo
          /\ writers'[w].snapshot = r.snapshot
      BY <1>11, GotoEffect DEF FailMany, Pc, SameWork
    <2>2. QED BY <1>7, <1>11, <2>1 DEF FailMany, Undoing, Pc
  <1>12. CASE MarkReady(w)
    <2>1. /\ writers'[w].pc = "cleanup" /\ writers'[w].todo = r.todo
          /\ writers'[w].snapshot = r.snapshot
      BY <1>12, GotoEffect DEF MarkReady, Pc, SameWork
    <2>2. file' = file /\ r.pc = "ready"
      BY <1>12 DEF MarkReady
    <2>3. QED BY <1>5, <1>7, <2>1, <2>2 DEF Undoing, Pc
  <1>13. CASE MarkCommitting(w)
    <2>1. /\ writers'[w].snapshot = r.snapshot /\ writers'[w].todo = r.todo
          /\ \/ writers'[w].pc = "reserve"
             \/ writers'[w].pc = "replace" /\ writers'[w].pos = 1
      <3>1. "reserve" \in Pc /\ "replace" \in Pc
        BY DEF Pc
      <3>2. Advance(w, "reserve", "replace")
        BY <1>13 DEF MarkCommitting
      <3>3. QED BY <1>1, <3>1, <3>2, AdvanceEffect DEF SameWork
    <2>2. \A k \in DOMAIN r.todo : ~(k < 1)
      BY <1>3
    <2>3. r.pc = "mark"
      BY <1>13 DEF MarkCommitting
    <2>4. QED BY <1>7, <2>1, <2>2, <2>3 DEF Undoing, Pc
  <1>14. CASE Replace(w)
    <2>1. file' = [file EXCEPT ![Current(w).path] = Current(w).text] /\ r.pc = "replace"
      BY <1>14 DEF Replace
    <2>2. Current(w).path \in Path /\ Current(w).path \in PathsOf(Current(w))
      BY <1>3, ChangeFields DEF PathsOf
    <2>3. /\ file'[Current(w).path] = Current(w).text
          /\ \A p \in Path : p \notin PathsOf(Current(w)) => file'[p] = file[p]
      BY <2>1, <2>2 DEF Tables
    <2>4. ASSUME NEW k \in DOMAIN r.todo, k < r.pos
          PROVE  MadeIn(file', r.todo[k])
      <3>1. MadeIn(file, r.todo[k]) /\ k # r.pos
        BY <1>3, <1>5, <2>1, <2>4
      <3>2. \A p \in Path : p \notin PathsOf(r.todo[r.pos]) => file'[p] = file[p]
        BY <1>3, <2>3
      <3>3. QED BY <1>3, <1>4, <3>1, <3>2, MadeElsewhere, Zenon
    <2>5. CASE Current(w).kind = "rename"
      <3>1. Goto(w, "unlink")
        BY <1>14, <2>5 DEF Replace
      <3>2. /\ writers'[w].pc = "unlink" /\ writers'[w].todo = r.todo
            /\ writers'[w].snapshot = r.snapshot /\ writers'[w].pos = r.pos
        BY <3>1, GotoEffect DEF Pc, SameWork
      <3>3. QED BY <1>3, <1>7, <2>1, <2>3, <2>4, <3>2 DEF Undoing, Pc
    <2>6. CASE Current(w).kind # "rename"
      <3>1. Advance(w, "replace", "ready")
        BY <1>14, <2>6 DEF Replace
      <3>2. MadeIn(file', r.todo[r.pos])
        BY <1>3, <2>3, <2>6 DEF MadeIn
      <3>3. QED BY <1>8, <2>1, <2>4, <3>1, <3>2
    <2>7. QED BY <2>5, <2>6
  <1>15. CASE UnlinkOld(w)
    <2>1. /\ file' = [file EXCEPT ![Current(w).old] = Missing] /\ r.pc = "unlink"
          /\ Advance(w, "replace", "ready")
      BY <1>15 DEF UnlinkOld
    <2>2. \A p \in Path : p # Current(w).old => file'[p] = file[p]
      BY <2>1 DEF Tables
    <2>3. \A p \in Path : p \notin PathsOf(Current(w)) => file'[p] = file[p]
      BY <2>2, OutboxAssumption DEF PathsOf
    <2>4. ASSUME NEW k \in DOMAIN r.todo, k < r.pos
          PROVE  MadeIn(file', r.todo[k])
      <3>1. MadeIn(file, r.todo[k]) /\ k # r.pos
        BY <1>3, <1>5, <2>1, <2>4
      <3>2. \A p \in Path : p \notin PathsOf(r.todo[r.pos]) => file'[p] = file[p]
        BY <1>3, <2>3
      <3>3. QED BY <1>3, <1>4, <3>1, <3>2, MadeElsewhere, Zenon
    <2>5. MadeIn(file', r.todo[r.pos])
      <3>1. file'[Current(w).path] = Current(w).text
        <4>1. Current(w).path # Current(w).old /\ Current(w).path \in Path
          BY <1>3, <1>4, ChangeFields DEF Apart
        <4>2. QED BY <1>3, <1>5, <2>1, <2>2, <4>1
      <3>2. Current(w).kind = "rename" => file'[Current(w).old] = Missing
        BY <1>3, <2>1, ChangeFields DEF Tables
      <3>3. QED BY <1>3, <3>1, <3>2 DEF MadeIn
    <2>6. QED BY <1>8, <2>1, <2>4, <2>5
  <1>16. CASE Cleanup(w)
    <2>1. writers'[w].pc # "idle" /\ r.pc = "cleanup" /\ file' = file
      BY <1>2, <1>16 DEF Cleanup, Works
    <2>2. ~Finish(w)
      BY <2>1, FinishEffect
    <2>3. Advance(w, "ready", "ready")
      BY <1>16, <2>2 DEF Cleanup, Advance
    <2>4. /\ writers'[w].snapshot = r.snapshot /\ writers'[w].todo = r.todo
          /\ writers'[w].pc = "ready"
      BY <1>1, <2>3, AdvanceEffect DEF Pc, SameWork
    <2>5. QED BY <1>5, <1>7, <2>1, <2>4 DEF Undoing, Pc
  <1>17. CASE Restore(w)
    <2>1. PICK p \in DOMAIN r.snapshot :
            /\ file' = [file EXCEPT ![p] = r.snapshot[p]]
            /\ writers' = [writers EXCEPT
                 ![w].snapshot = [q \in DOMAIN @ \ {p} |-> @[q]],
                 ![w].pc = IF DOMAIN writers[w].snapshot = {p} THEN "discard" ELSE "restore"]
      BY <1>17 DEF Restore
    <2>2. /\ writers'[w].todo = r.todo
          /\ writers'[w].pc = IF DOMAIN r.snapshot = {p} THEN "discard" ELSE "restore"
          /\ DOMAIN writers'[w].snapshot = DOMAIN r.snapshot \ {p}
          /\ p \in Path
      BY <2>1, RestoreMoves DEF SameWork
    <2>3. writers'[w].snapshot = [q \in DOMAIN r.snapshot \ {p} |-> r.snapshot[q]]
      BY <2>1 DEF Threads
    <2>4. \A q \in Path : Before(writers'[w], file')[q] = Before(r, file)[q]
      BY <2>1, <2>2, <2>3 DEF Before, Tables
    <2>5. Even(Before(writers'[w], file'), r.todo)
      BY <1>3, <1>4, <1>5, <2>4, EvenSame
    <2>6. QED BY <2>2, <2>5 DEF BatchAt, Undoing
  <1>18. ~Discard(w) /\ ~FailOne(w) /\ ~RollbackFails(w)
    BY <1>2, FinishEffect DEF Discard, FailOne, RollbackFails, Works
  <1>19. QED BY <1>9, <1>10, <1>11, <1>12, <1>13, <1>14, <1>15, <1>16, <1>17, <1>18
           DEF WriterStep, WriterNext

(* A batch that returns is there as a whole, or not at all.                  *)
LEMMA BatchReturns ==
    ASSUME Tables, Threads, Placed, Fresh, WorkInv, Counts, NEW w \in Writer, WriterStep(w),
           ~Works(w), BatchAt(writers[w], file), writers[w].mode = "many", faults' = 0
    PROVE  Even(file', writers[w].todo)
  <1> DEFINE r == writers[w]
  <1>1. /\ r.pc # "idle" /\ r.todo \in Seq(Change)
        /\ Cleanup(w) \/ Discard(w) \/ FailOne(w) \/ RollbackFails(w)
    BY WorksOrFinishes DEF Threads
  <1>2. ~FailOne(w) /\ ~RollbackFails(w)
    BY DEF FailOne, RollbackFails, Counts
  <1>3. CASE Cleanup(w)
    <2>1. file' = file /\ r.pc = "cleanup"
      BY <1>3 DEF Cleanup
    <2>2. \A k \in DOMAIN r.todo : MadeIn(file, r.todo[k])
      BY <1>1, <2>1 DEF BatchAt
    <2>3. QED BY <2>1, <2>2 DEF Even
  <1>4. CASE Discard(w)
    <2>1. file' = file /\ r.pc = "discard"
      BY <1>4 DEF Discard
    <2>2. DOMAIN r.snapshot = {} /\ Even(Before(r, file), r.todo)
      BY <1>1, <2>1 DEF BatchAt
    <2>3. \A p \in Affected(r.todo) : Before(r, file)[p] = file[p]
      BY <1>1, <2>2, AffectedPaths DEF Before
    <2>4. Even(file, r.todo)
      BY <1>1, <2>2, <2>3, EvenSame
    <2>5. QED BY <2>1, <2>4
  <1>5. QED BY <1>1, <1>2, <1>3, <1>4

LEMMA JobChanges ==
    ASSUME NEW job \in Jobs
    PROVE  job.changes \in Seq(Change) /\ Affected(job.changes) \subseteq Path
  BY OutboxAssumption, AffectedPaths

(* What is settled stays so, and a batch that returns is.                    *)
LEMMA SettledStep ==
    ASSUME Tables, Threads, Placed, Fresh, WorkInv, Counts, Undisturbed, Settled,
           NEW w \in Writer, WriterStep(w), BatchAt(writers[w], file), faults' = 0
    PROVE  Settled'
  <1> SUFFICES ASSUME NEW job \in Jobs, job.mode = "many",
                      \A p \in Affected(job.changes) : lock'[p] = NoPath
               PROVE  Even(file', job.changes)
    BY DEF Settled
  <1>1. job.changes \in Seq(Change) /\ Affected(job.changes) \subseteq Path
    BY JobChanges
  <1>2. \A p \in Path : file'[p] # file[p] => lock[p] = w
    BY FilesTouched
  <1>3. w # NoPath
    BY OutboxAssumption
  <1>4. ASSUME \A p \in Affected(job.changes) : lock[p] = NoPath
        PROVE  Even(file', job.changes)
    <2>1. Even(file, job.changes)
      BY <1>4 DEF Settled
    <2>2. \A p \in Affected(job.changes) : file'[p] = file[p]
      BY <1>1, <1>2, <1>3, <1>4
    <2>3. QED BY <1>1, <2>1, <2>2, EvenSame
  <1>5. CASE Works(w)
    BY <1>4, <1>5 DEF Works
  <1>6. CASE ~Works(w)
    <2>1. Finish(w) /\ writers[w].pc # "idle"
      BY <1>6, WorksOrFinishes
    <2>2. \A p \in Path : lock'[p] = NoPath => lock[p] \in {w, NoPath}
      BY <2>1, FinishEffect
    <2>3. PICK own \in Jobs : own.mode = writers[w].mode /\ own.changes = writers[w].todo
      BY <2>1 DEF WorkInv, WorkAt
    <2>4. CASE own = job
      BY <1>6, <2>3, <2>4, BatchReturns
    <2>5. CASE own # job
      <3>1. Affected(own.changes) \cap Affected(job.changes) = {}
        BY <2>5 DEF Undisturbed
      <3>2. \A p \in Path : lock[p] = w => p \in Affected(own.changes)
        BY <1>3, <2>3 DEF WorkInv, LocksExact
      <3>3. \A p \in Affected(job.changes) : lock[p] = NoPath
        BY <1>1, <2>2, <3>1, <3>2
      <3>4. QED BY <1>4, <3>3
    <2>6. QED BY <2>4, <2>5
  <1>7. QED BY <1>5, <1>6

(* A batch that begins notes its files as they are.                         *)
LEMMA BatchBegins ==
    ASSUME Tables, Threads, Settled, NEW w \in Writer, NEW job \in Jobs, Start(w, job)
    PROVE  BatchAt(writers'[w], file') /\ Settled'
  <1>1. /\ writers'[w].pc = "reserve" /\ writers'[w].mode = job.mode
        /\ writers'[w].todo = job.changes
        /\ DOMAIN writers'[w].snapshot = Affected(job.changes)
        /\ job.changes \in Seq(Change) /\ Affected(job.changes) \subseteq Path
    BY StartEffect, JobChanges
  <1>2. /\ \A p \in Affected(job.changes) : lock[p] = NoPath
        /\ lock' = [p \in Path |-> IF p \in Affected(job.changes) THEN w ELSE lock[p]]
        /\ file' = file
    BY DEF Start
  <1>3. writers'[w].snapshot = [p \in Affected(job.changes) |-> file[p]]
    BY DEF Start, Threads
  <1>4. \A p \in Affected(job.changes) : Before(writers'[w], file)[p] = file[p]
    BY <1>1, <1>3 DEF Before
  <1>5. job.mode = "many" => Even(Before(writers'[w], file), job.changes)
    BY <1>1, <1>2, <1>4, EvenSame DEF Settled
  <1>6. BatchAt(writers'[w], file')
    BY <1>1, <1>2, <1>5 DEF BatchAt, Undoing
  <1>7. ASSUME NEW other \in Jobs, other.mode = "many",
               \A p \in Affected(other.changes) : lock'[p] = NoPath
        PROVE  Even(file', other.changes)
    <2>1. Affected(other.changes) \subseteq Path /\ w # NoPath
      BY JobChanges, OutboxAssumption
    <2>2. \A p \in Affected(other.changes) : lock[p] = NoPath
      BY <1>2, <1>7, <2>1
    <2>3. QED BY <1>2, <1>7, <2>2 DEF Settled
  <1>8. QED BY <1>6, <1>7 DEF Settled

(* Without a fault nothing is left to recover, and nobody edits.             *)
LEMMA CountsStep ==
    ASSUME Counts, Undisturbed, [Next]_vars
    PROVE  Counts' /\ (faults' = 0 => faults = 0 /\ ~Crash /\ ~ForwarderRestart)
  <1>1. \A p \in Path, text \in Text \cup {Missing} : ~Edit(p, text)
    BY DEF Edit, Counts, Undisturbed
  <1>2. CASE Crash \/ ForwarderRestart \/ \E w \in Writer : RollbackFails(w)
    BY <1>2 DEF Crash, ForwarderRestart, RollbackFails, Counts
  <1>3. CASE \E i \in recovery : Replay(i) \/ Recover(i)
    <2>1. UNCHANGED <<edits, faults>>
      BY <1>3, Zenon DEF Replay, Recover
    <2>2. QED BY <2>1 DEF Counts, Crash, ForwarderRestart
  <1>4. ASSUME UNCHANGED <<edits, faults>>
        PROVE  Counts' /\ (faults' = 0 => faults = 0 /\ ~Crash /\ ~ForwarderRestart)
    BY <1>4 DEF Counts, Crash, ForwarderRestart
  <1>5. QED BY <1>1, <1>2, <1>3, <1>4 DEF Next, WriterNext, ForwarderNext, Start, Reserve, Stage,
           MarkCommitting, Replace, UnlinkOld, MarkReady, Cleanup, Restore, Discard, FailOne,
           FailMany, ReadReady, Send, MarkDelivered, GiveUp, vars

LEMMA BatchStep ==
    ASSUME Tables, Threads, Placed, Fresh, WorkInv, Counts, Undisturbed, recovery = {},
           \A w \in Writer : BatchAt(writers[w], file), Settled, [Next]_vars, faults' = 0
    PROVE  /\ recovery' = {}
           /\ \A w \in Writer : BatchAt(writers'[w], file')
           /\ Settled'
  <1>1. ~Crash /\ ~ForwarderRestart /\ \A p \in Path, text \in Text \cup {Missing} : ~Edit(p, text)
    BY CountsStep DEF Edit, Counts, Undisturbed
  <1>2. recovery' = {}
    BY <1>1 DEF Next, WriterNext, ForwarderNext, Start, Reserve, Stage,
           MarkCommitting, Replace, UnlinkOld, MarkReady, Cleanup, Restore, Discard, FailOne,
           FailMany, RollbackFails, ReadReady, Send, MarkDelivered, GiveUp, vars
  <1>3. ASSUME NEW w \in Writer, NEW job \in Jobs, Start(w, job)
        PROVE  (\A v \in Writer : BatchAt(writers'[v], file')) /\ Settled'
    <2>1. \A v \in Writer : v # w => writers'[v] = writers[v]
      BY <1>3, StartEffect
    <2>2. BatchAt(writers'[w], file') /\ Settled' /\ file' = file
      BY <1>3, BatchBegins DEF Start
    <2>3. QED BY <2>1, <2>2
  <1>4. ASSUME NEW w \in Writer, WriterStep(w)
        PROVE  (\A v \in Writer : BatchAt(writers'[v], file')) /\ Settled'
    <2>1. BatchAt(writers'[w], file') /\ Settled'
      BY <1>4, BatchOn, SettledStep
    <2>2. ASSUME NEW v \in Writer, v # w
          PROVE  BatchAt(writers'[v], file')
      <3>1. writers'[v] = writers[v]
        BY <1>4, <2>2, WorksOrFinishes, FinishEffect DEF Works
      <3>2. CASE writers[v].pc = "idle"
        BY <3>1, <3>2 DEF BatchAt
      <3>3. CASE writers[v].pc # "idle"
        <4>1. /\ \A p \in Affected(writers[v].todo) : lock[p] = v
              /\ Affected(writers[v].todo) \subseteq Path
          BY <3>3, AffectedPaths DEF WorkInv, LocksExact, Threads
        <4>2. \A p \in Affected(writers[v].todo) : file'[p] = file[p]
          BY <1>4, <2>2, <4>1, FilesTouched
        <4>3. BatchAt(writers[v], file')
          BY <4>2, BatchKept
        <4>4. QED BY <3>1, <4>3
      <3>4. QED BY <3>2, <3>3
    <2>3. QED BY <2>1, <2>2
  <1>5. ASSUME UNCHANGED <<file, lock, writers>>
        PROVE  (\A w \in Writer : BatchAt(writers'[w], file')) /\ Settled'
    <2>1. file' = file /\ lock' = lock /\ writers' = writers
      BY <1>5
    <2>2. Settled'
      BY <2>1 DEF Settled
    <2>3. ASSUME NEW w \in Writer
          PROVE  BatchAt(writers'[w], file')
      <3>1. BatchAt(writers[w], file)
        OBVIOUS
      <3>2. QED BY <2>1, <3>1
    <2>4. QED BY <2>2, <2>3
  <1>6. (\A w \in Writer : BatchAt(writers'[w], file')) /\ Settled'
    BY <1>1, <1>3, <1>4, <1>5 DEF Next, WriterStep, ForwarderNext, ReadReady, Send,
           MarkDelivered, GiveUp, vars
  <1>7. QED BY <1>2, <1>6

(* commit_many() leaves its batch in the project as a whole or not at all,   *)
(* whichever step of it failed and whatever other commits do meanwhile, as   *)
(* long as nobody else writes the files of the batch.                       *)
THEOREM AllOrNothingAlways ==
    ASSUME Undisturbed
    PROVE  Spec => []AllOrNothing
  <1>1. Init => BatchInv
    <2>1. ASSUME Init
          PROVE  BatchInv
      <3>1. OutboxInv /\ Counts /\ recovery = {} /\ file = InitialFile
        BY <2>1, InvInit DEF Init, Counts
      <3>2. \A w \in Writer : writers[w].pc = "idle"
        BY <2>1 DEF Init, Idle
      <3>3. WorkInv
        BY <2>1, <3>2 DEF Init, WorkInv, WorkAt, LocksExact
      <3>4. \A w \in Writer : BatchAt(writers[w], file)
        BY <3>2 DEF BatchAt
      <3>5. Settled
        BY <3>1 DEF Settled, Undisturbed
      <3>6. QED BY <3>1, <3>3, <3>4, <3>5 DEF BatchInv
    <2>2. QED BY <2>1
  <1>2. BatchInv /\ [Next]_vars => BatchInv'
    <2>1. ASSUME BatchInv, [Next]_vars
          PROVE  BatchInv'
      <3>1. /\ OutboxInv /\ Tables /\ Threads /\ Placed /\ Fresh /\ WorkInv /\ Counts
        BY <2>1 DEF BatchInv, OutboxInv
      <3>2. OutboxInv' /\ WorkInv' /\ Counts'
        BY <2>1, <3>1, InvStep, WorkStep, CountsStep
      <3>3. ASSUME faults' = 0
            PROVE  /\ recovery' = {}
                   /\ \A w \in Writer : BatchAt(writers'[w], file')
                   /\ Settled'
        <4>1. faults = 0
          BY <2>1, <3>1, <3>3, CountsStep
        <4>2. recovery = {} /\ Settled /\ \A w \in Writer : BatchAt(writers[w], file)
          BY <2>1, <4>1 DEF BatchInv
        <4>3. QED BY <2>1, <3>1, <3>3, <4>2, BatchStep
      <3>4. QED BY <3>2, <3>3 DEF BatchInv
    <2>2. QED BY <2>1
  <1>3. BatchInv => AllOrNothing
    BY DEF BatchInv, Settled, AllOrNothing, Even, MadeIn, Made
  <1>4. QED BY <1>1, <1>2, <1>3, PTL DEF Spec
===============================================================================
