----------------------------- MODULE ChangeOutbox -----------------------------
(***************************************************************************)
(* The change outbox of one project: AtomicPatchCommitter writes formal     *)
(* file changes together with durable intents (change_intents in            *)
(* change_outbox.db), recover() settles what a dead process left behind,    *)
(* publish_ready() turns READY intents into CodeChanged mail.               *)
(* (backend/src/bridle/agent/runtime/change_outbox.py)                      *)
(*                                                                         *)
(* Every SQL transaction and every rename or unlink is one step, so writers *)
(* (threads), the forwarder (event loop), recovery, edits from outside and  *)
(* a crash interleave between them.  A digest is the content itself.  The   *)
(* mailbox is its promise: it takes a message_id once (DurableQueue).       *)
(***************************************************************************)
EXTENDS Naturals, Sequences, FiniteSets

CONSTANTS
    Path,        \* project files
    Text,        \* file contents
    Missing,     \* the digest of no file
    Writer,      \* committing threads
    Jobs,        \* commits a writer may be asked for
    InitialFile, \* project files at the start
    Capacity,    \* most unpublished intents
    MaxIntent,   \* bound: message_ids
    MaxEdit,     \* bound: edits from outside
    MaxFault     \* bound: crashes, forwarder deaths and failed rollbacks

Kind == {"add", "modify", "remove", "rename"}
NoPath == "none"

(* One change of a patch; old is the source of a rename, and only a removal  *)
(* has no text.                                                             *)
Change ==
    {c \in [kind: Kind, path: Path, old: Path \cup {NoPath}, text: Text \cup {Missing}] :
       /\ c.kind = "rename" <=> c.old # NoPath
       /\ c.kind = "remove" <=> c.text = Missing}

(* commit() is mode "one", commit_many() mode "many"; an empty batch is left *)
(* out, it changes nothing.                                                 *)
ASSUME OutboxAssumption ==
    /\ Missing \notin Text
    /\ NoPath \notin Path \cup Writer
    /\ InitialFile \in [Path -> Text \cup {Missing}]
    /\ \A job \in Jobs : /\ job.mode \in {"one", "many"}
                         /\ job.changes \in Seq(Change) \ {<<>>}
                         /\ job.mode = "one" => /\ Len(job.changes) = 1
                                               /\ job.changes[1].kind # "rename"
    /\ Capacity \in Nat \ {0}
    /\ MaxIntent \in Nat /\ MaxEdit \in Nat /\ MaxFault \in Nat

VARIABLES
    file,      \* content of every project file
    intents,   \* table change_intents, by message_id
    nextId,    \* message_ids used so far
    stage,     \* staging file or tombstone of every intent
    lock,      \* path locks held: path -> writer, in this process
    writers,   \* program counter and locals of the writers
    recovery,  \* message_ids recover() has still to look at
    forward,   \* READY intents publish_ready() has read and not handled
    mail,      \* message_ids the mailbox has accepted
    applied,   \* history: intents whose change is in the file system
    edits,     \* edits from outside so far
    faults     \* crashes, forwarder deaths and failed rollbacks so far

vars == <<file, intents, nextId, stage, lock, writers, recovery, forward, mail,
          applied, edits, faults>>

Id == 1 .. MaxIntent
State == {"RESERVED", "COMMITTING", "READY", "DELIVERED", "REBASE_REQUIRED"}

(* No row: never inserted, or deleted.                                      *)
NoIntent == [state |-> "none", path |-> NoPath, old |-> NoPath, kind |-> "none",
             before |-> Missing, after |-> Missing, fence |-> 0, by |-> 0]

Idle == [pc |-> "idle", mode |-> "one", todo |-> <<>>, pos |-> 0, own |-> <<>>,
         snapshot |-> <<>>]

Pc == {"idle", "reserve", "stage", "mark", "replace", "unlink", "ready",
       "cleanup", "restore", "discard"}

TypeOK ==
    /\ file \in [Path -> Text \cup {Missing}]
    /\ DOMAIN intents = Id
    /\ \A i \in Id : \/ intents[i] = NoIntent
                     \/ /\ intents[i].state \in State
                        /\ intents[i].path \in Path
                        /\ intents[i].kind \in Kind
                        /\ intents[i].by \in 0 .. MaxIntent
    /\ nextId \in 0 .. MaxIntent
    /\ stage \in [Id -> Text \cup {Missing}]
    /\ lock \in [Path -> Writer \cup {NoPath}]
    /\ \A w \in Writer : writers[w].pc \in Pc
    /\ recovery \subseteq Id
    /\ mail \subseteq Id
    /\ applied \subseteq Id

Init ==
    /\ file = InitialFile
    /\ intents = [i \in Id |-> NoIntent]
    /\ nextId = 0
    /\ stage = [i \in Id |-> Missing]
    /\ lock = [p \in Path |-> NoPath]
    /\ writers = [w \in Writer |-> Idle]
    /\ recovery = {}
    /\ forward = {}
    /\ mail = {}
    /\ applied = {}
    /\ edits = 0
    /\ faults = 0

-----------------------------------------------------------------------------
(* Helpers.                                                                 *)

Rows == {i \in Id : intents[i].state # "none"}
Live == {i \in Rows : intents[i].by = 0}
Inflight == {i \in Live : intents[i].state \in {"RESERVED", "COMMITTING", "REBASE_REQUIRED"}}
Active == Inflight \cup {i \in Live : intents[i].state = "READY"}

(* ORDER BY created_at DESC LIMIT 1: at most one.                           *)
Blocker(p) ==
    {i \in Inflight : /\ intents[i].path = p
                      /\ \A j \in Inflight : intents[j].path = p => j <= i}

(* SELECT COALESCE(MAX(fence_token), 0) ... WHERE relative_path = p          *)
IsMaxFence(p, f) ==
    LET fences == {intents[i].fence : i \in {j \in Rows : intents[j].path = p}}
    IN  f \in fences \cup {0} /\ \A g \in fences : g <= f

(* The row of an intent held in memory still is what its holder read.       *)
Owned(held, state) ==
    /\ intents[held.id].state = state
    /\ intents[held.id].fence = held.fence
    /\ intents[held.id].by = 0

Affected(changes) ==
    {changes[i].path : i \in DOMAIN changes}
        \cup ({changes[i].old : i \in DOMAIN changes} \ {NoPath})

Current(w) == writers[w].todo[writers[w].pos]
Held(w) == writers[w].own[writers[w].pos]
Goto(w, pc) == writers' = [writers EXCEPT ![w].pc = pc]

Released(w) == [p \in Path |-> IF lock[p] = w THEN NoPath ELSE lock[p]]

(* The writer returns to its caller; finally releases the locks.            *)
Finish(w) ==
    /\ writers' = [writers EXCEPT ![w] = Idle]
    /\ lock' = Released(w)

(* The next change of a phase, or the first change of the next phase.       *)
Advance(w, again, next) ==
    IF writers[w].pos < Len(writers[w].todo)
    THEN writers' = [writers EXCEPT ![w].pos = @ + 1, ![w].pc = again]
    ELSE writers' = [writers EXCEPT ![w].pos = 1, ![w].pc = next]

-----------------------------------------------------------------------------
(* Writers: commit(), commit_many().                                        *)

(* Takes the path locks without waiting; a lock in other hands makes the    *)
(* call answer path_busy and changes nothing.                               *)
Start(w, job) ==
    /\ writers[w].pc = "idle"
    /\ \A p \in Affected(job.changes) : lock[p] = NoPath
    /\ lock' = [p \in Path |-> IF p \in Affected(job.changes) THEN w ELSE lock[p]]
    /\ writers' = [writers EXCEPT ![w] =
         [pc |-> "reserve", mode |-> job.mode, todo |-> job.changes, pos |-> 1,
          own |-> <<>>, snapshot |-> [p \in Affected(job.changes) |-> file[p]]]]
    /\ UNCHANGED <<file, intents, nextId, stage, recovery, forward, mail, applied,
                   edits, faults>>

(* Fault: a blocker that is still being committed does not refuse.          *)
CanReserveAnyway(p) == Cardinality(Active) - Cardinality(Blocker(p)) < Capacity

(* reserve(): one transaction.  A REBASE_REQUIRED intent of the path is      *)
(* superseded by the new one; any other blocker, or a full outbox, refuses. *)
CanReserve(p) ==
    /\ \A i \in Blocker(p) : intents[i].state = "REBASE_REQUIRED"
    /\ Cardinality(Active) - Cardinality(Blocker(p)) < Capacity

Reserve(w) ==
    /\ writers[w].pc = "reserve"
    /\ nextId < MaxIntent
    /\ LET c == Current(w)
           new == nextId + 1
       IN  /\ CanReserve(c.path)
           /\ \E f \in 0 .. 2 * MaxIntent :
                /\ IsMaxFence(c.path, f)
                /\ intents' =
                     [i \in Id |->
                        CASE i = new -> [state |-> "RESERVED", path |-> c.path, old |-> c.old,
                                         kind |-> c.kind, after |-> c.text,
                                         before |-> file[IF c.kind = "rename" THEN c.old ELSE c.path],
                                         fence |-> f + 1, by |-> 0]
                          [] i \in Blocker(c.path) /\ intents[i].state = "REBASE_REQUIRED" ->
                               [intents[i] EXCEPT !.by = new]
                          [] OTHER -> intents[i]]
                /\ writers' = [writers EXCEPT ![w].pc = "stage",
                                              ![w].own = Append(@, [id |-> new, fence |-> f + 1])]
           /\ nextId' = new
    /\ UNCHANGED <<file, stage, lock, recovery, forward, mail, applied, edits, faults>>

(* The new text goes to a fresh staging file, flushed and synced.           *)
Stage(w) ==
    /\ writers[w].pc = "stage"
    /\ stage' = [stage EXCEPT ![Held(w).id] =
                   IF Current(w).kind = "remove" THEN Missing ELSE Current(w).text]
    /\ Goto(w, "mark")
    /\ UNCHANGED <<file, intents, nextId, lock, recovery, forward, mail, applied,
                   edits, faults>>

MarkCommitting(w) ==
    /\ writers[w].pc = "mark"
    /\ Owned(Held(w), "RESERVED")
    /\ intents' = [intents EXCEPT ![Held(w).id].state = "COMMITTING"]
    /\ Advance(w, "reserve", "replace")
    /\ UNCHANGED <<file, nextId, stage, lock, recovery, forward, mail, applied,
                   edits, faults>>

(* os.replace: the staging file becomes the target, or, for a removal, the   *)
(* target becomes the tombstone.  commit_many() tolerates a missing target; *)
(* commit() does not (see Fail).                                            *)
Replace(w) ==
    /\ writers[w].pc = "replace"
    /\ LET c == Current(w)
           i == Held(w).id
       IN  /\ c.kind = "remove" /\ writers[w].mode = "one" => file[c.path] # Missing
           /\ file' = [file EXCEPT ![c.path] = c.text]
           /\ stage' = [stage EXCEPT ![i] = IF c.kind = "remove" THEN file[c.path] ELSE Missing]
           /\ applied' = applied \cup {i}
           /\ IF c.kind = "rename" THEN Goto(w, "unlink") ELSE Advance(w, "replace", "ready")
    /\ UNCHANGED <<intents, nextId, lock, recovery, forward, mail, edits, faults>>

UnlinkOld(w) ==
    /\ writers[w].pc = "unlink"
    /\ file' = [file EXCEPT ![Current(w).old] = Missing]
    /\ Advance(w, "replace", "ready")
    /\ UNCHANGED <<intents, nextId, stage, lock, recovery, forward, mail, applied,
                   edits, faults>>

MarkReady(w) ==
    /\ writers[w].pc = "ready"
    /\ Owned(Held(w), "COMMITTING")
    /\ intents' = [intents EXCEPT ![Held(w).id].state = "READY"]
    /\ Goto(w, "cleanup")
    /\ UNCHANGED <<file, nextId, stage, lock, recovery, forward, mail, applied,
                   edits, faults>>

(* The staging file goes; after the last change the commit answers "ready". *)
Cleanup(w) ==
    /\ writers[w].pc = "cleanup"
    /\ stage' = [stage EXCEPT ![Held(w).id] = Missing]
    /\ IF writers[w].pos < Len(writers[w].todo)
       THEN writers' = [writers EXCEPT ![w].pos = @ + 1, ![w].pc = "ready"] /\ UNCHANGED lock
       ELSE Finish(w)
    /\ UNCHANGED <<file, intents, nextId, recovery, forward, mail, applied, edits, faults>>

(* Fault: the error path abandons the intent in every state.                *)
FailOneAbandoning(w) ==
    /\ writers[w].mode = "one"
    /\ writers[w].pc \in {"stage", "mark", "replace", "ready"}
    /\ intents' = [intents EXCEPT ![Held(w).id] = NoIntent]
    /\ stage' = [stage EXCEPT ![Held(w).id] = Missing]
    /\ Finish(w)
    /\ UNCHANGED <<file, nextId, recovery, forward, mail, applied, edits, faults>>

(* commit() fails.  A refused reservation leaves nothing; an OSError while   *)
(* staging abandons the reservation; a busy database or an OSError of the    *)
(* replace leaves the row as it is.                                         *)
FailOne(w) ==
    /\ writers[w].mode = "one"
    /\ writers[w].pc \in {"reserve", "stage", "mark", "replace", "ready"}
    /\ IF writers[w].pc = "stage"
       THEN /\ intents' = [intents EXCEPT ![Held(w).id] = NoIntent]
            /\ stage' = [stage EXCEPT ![Held(w).id] = Missing]
       ELSE UNCHANGED <<intents, stage>>
    /\ Finish(w)
    /\ UNCHANGED <<file, nextId, recovery, forward, mail, applied, edits, faults>>

(* Fault: no snapshots are restored.                                        *)
FailManyKeepingFiles(w) ==
    /\ writers[w].mode = "many"
    /\ writers[w].pc \in {"reserve", "stage", "mark", "replace", "unlink", "ready"}
    /\ Goto(w, "discard")
    /\ UNCHANGED <<file, intents, nextId, stage, lock, recovery, forward, mail, applied,
                   edits, faults>>

(* commit_many() fails at any step: everything is undone.                   *)
FailMany(w) ==
    /\ writers[w].mode = "many"
    /\ writers[w].pc \in {"reserve", "stage", "mark", "replace", "unlink", "ready"}
    /\ Goto(w, "restore")
    /\ UNCHANGED <<file, intents, nextId, stage, lock, recovery, forward, mail, applied,
                   edits, faults>>

OwnIds(w) == {writers[w].own[i].id : i \in DOMAIN writers[w].own}

(* _restore_snapshots(): one file after the other.                          *)
Restore(w) ==
    /\ writers[w].pc = "restore"
    /\ \E p \in DOMAIN writers[w].snapshot :
         /\ file' = [file EXCEPT ![p] = writers[w].snapshot[p]]
         /\ writers' = [writers EXCEPT
              ![w].snapshot = [q \in DOMAIN @ \ {p} |-> @[q]],
              ![w].pc = IF DOMAIN writers[w].snapshot = {p} THEN "discard" ELSE "restore"]
         /\ applied' = {i \in applied : ~(i \in OwnIds(w) /\ intents[i].path = p)}
    /\ UNCHANGED <<intents, nextId, stage, lock, recovery, forward, mail, edits, faults>>

(* An error while restoring leaves commit_many() with the batch half undone. *)
RollbackFails(w) ==
    /\ writers[w].pc = "restore"
    /\ faults < MaxFault
    /\ faults' = faults + 1
    /\ Finish(w)
    /\ UNCHANGED <<file, intents, nextId, stage, recovery, forward, mail, applied, edits>>

(* _discard_intents() deletes the rows of the batch, whatever their state,   *)
(* and the staging files go.                                                *)
Discard(w) ==
    /\ writers[w].pc = "discard"
    /\ intents' = [i \in Id |-> IF i \in OwnIds(w) THEN NoIntent ELSE intents[i]]
    /\ stage' = [i \in Id |-> IF i \in OwnIds(w) THEN Missing ELSE stage[i]]
    /\ Finish(w)
    /\ UNCHANGED <<file, nextId, recovery, forward, mail, applied, edits, faults>>

-----------------------------------------------------------------------------
(* Recovery: recover() looks at every row, under its path lock.             *)

CanReplay(i) ==
    IF intents[i].kind = "remove"
    THEN file[intents[i].path] # Missing /\ stage[i] = Missing
    ELSE stage[i] = intents[i].after /\ stage[i] # Missing

Committing(i) == intents[i].state = "COMMITTING" /\ intents[i].by = 0

(* recover() waits for the path lock.                                       *)
Unlocked(i) == intents[i].state # "none" => lock[intents[i].path] = NoPath

(* _replay(): the file is still the old one, its rename is made up for.      *)
Replay(i) ==
    /\ Unlocked(i)
    /\ Committing(i)
    /\ file[intents[i].path] = intents[i].before
    /\ file[intents[i].path] # intents[i].after
    /\ CanReplay(i)
    /\ file' = [file EXCEPT ![intents[i].path] = intents[i].after]
    /\ stage' = [stage EXCEPT ![i] = IF intents[i].kind = "remove" THEN intents[i].before
                                                                   ELSE Missing]
    /\ applied' = applied \cup {i}
    /\ UNCHANGED <<intents, nextId, lock, writers, recovery, forward, mail, edits, faults>>

(* Fault: a COMMITTING row counts as done whatever the file holds.          *)
RecoverTrusting(i) ==
    /\ Unlocked(i)
    /\ recovery' = recovery \ {i}
    /\ intents' = [intents EXCEPT ![i] =
         CASE Committing(i) -> [intents[i] EXCEPT !.state = "READY", !.fence = @ + 1]
           [] intents[i].state = "RESERVED" /\ intents[i].by = 0 -> NoIntent
           [] OTHER -> intents[i]]
    /\ stage' = [stage EXCEPT ![i] = Missing]
    /\ UNCHANGED <<file, nextId, lock, writers, forward, mail, applied, edits, faults>>

(* RESERVED rows go.  COMMITTING rows get a new fence token and, by what     *)
(* the file holds, end READY or, replay impossible or failed, waiting for a  *)
(* rebase.  Their staging files go, and those of superseded and READY rows. *)
Recover(i) ==
    /\ Unlocked(i)
    /\ recovery' = recovery \ {i}
    /\ LET row == intents[i]
           done == file[row.path] = row.after
           state == IF done THEN "READY" ELSE "REBASE_REQUIRED"
       IN  /\ intents' = [intents EXCEPT ![i] =
                CASE Committing(i) -> [row EXCEPT !.state = state, !.fence = @ + 1]
                  [] row.state = "RESERVED" /\ row.by = 0 -> NoIntent
                  [] OTHER -> row]
           /\ applied' = IF Committing(i) /\ done THEN applied \cup {i} ELSE applied
           /\ stage' = IF row.by # 0 \/ row.state \in {"RESERVED", "COMMITTING", "READY"}
                       THEN [stage EXCEPT ![i] = Missing] ELSE stage
    /\ UNCHANGED <<file, nextId, lock, writers, forward, mail, edits, faults>>

(* The process dies; the next one recovers what the tables and files say.   *)
Crash ==
    /\ faults < MaxFault
    /\ faults' = faults + 1
    /\ lock' = [p \in Path |-> NoPath]
    /\ writers' = [w \in Writer |-> Idle]
    /\ forward' = {}
    /\ recovery' = Rows
    /\ UNCHANGED <<file, intents, nextId, stage, mail, applied, edits>>

-----------------------------------------------------------------------------
(* The forwarder: publish_ready() reads all intents, then handles the READY  *)
(* ones one by one: into the mailbox, then DELIVERED.                       *)

ReadReady ==
    /\ forward = {}
    /\ recovery = {}
    /\ forward' = {[id |-> i, fence |-> intents[i].fence, sent |-> FALSE] :
                     i \in {j \in Live : intents[j].state = "READY"}}
    /\ UNCHANGED <<file, intents, nextId, stage, lock, writers, recovery, mail, applied,
                   edits, faults>>

(* inserted, or existing when an earlier round died before DELIVERED.       *)
Send(f) ==
    /\ \A g \in forward : ~g.sent
    /\ mail' = mail \cup {f.id}
    /\ forward' = (forward \ {f}) \cup {[f EXCEPT !.sent = TRUE]}
    /\ UNCHANGED <<file, intents, nextId, stage, lock, writers, recovery, applied,
                   edits, faults>>

(* Fault: a refused message counts as delivered.                            *)
GiveUpDelivered(f) ==
    /\ intents' = IF Owned(f, "READY") THEN [intents EXCEPT ![f.id].state = "DELIVERED"]
                                       ELSE intents
    /\ forward' = forward \ {f}
    /\ UNCHANGED <<file, nextId, stage, lock, writers, recovery, mail, applied,
                   edits, faults>>

(* backpressure, busy, closed, a retry not yet due, or an error of the       *)
(* round: the intent stays READY for a later round.                         *)
GiveUp(f) ==
    /\ forward' = forward \ {f}
    /\ UNCHANGED <<file, intents, nextId, stage, lock, writers, recovery, mail, applied,
                   edits, faults>>

MarkDelivered(f) ==
    /\ f.sent
    /\ intents' = IF Owned(f, "READY") THEN [intents EXCEPT ![f.id].state = "DELIVERED"]
                                       ELSE intents
    /\ forward' = forward \ {f}
    /\ UNCHANGED <<file, nextId, stage, lock, writers, recovery, mail, applied,
                   edits, faults>>

(* The forwarder task died: its successor begins with a recovery, while     *)
(* writers go on.                                                           *)
ForwarderRestart ==
    /\ faults < MaxFault
    /\ faults' = faults + 1
    /\ forward' = {}
    /\ recovery' = Rows
    /\ UNCHANGED <<file, intents, nextId, stage, lock, writers, mail, applied, edits>>

(* An editor, git or a user writes or deletes a file: no formal change.     *)
Edit(p, text) ==
    /\ edits < MaxEdit
    /\ file[p] # text
    /\ file' = [file EXCEPT ![p] = text]
    /\ edits' = edits + 1
    /\ UNCHANGED <<intents, nextId, stage, lock, writers, recovery, forward, mail,
                   applied, faults>>

WriterNext(w) ==
    \/ Reserve(w) \/ Stage(w) \/ MarkCommitting(w) \/ Replace(w) \/ UnlinkOld(w)
    \/ MarkReady(w) \/ Cleanup(w) \/ Restore(w) \/ Discard(w)

ForwarderNext == ReadReady \/ \E f \in forward : Send(f) \/ MarkDelivered(f)

Next ==
    \/ \E w \in Writer, job \in Jobs : Start(w, job)
    \/ \E w \in Writer : WriterNext(w) \/ FailOne(w) \/ FailMany(w) \/ RollbackFails(w)
    \/ \E i \in recovery : Replay(i) \/ Recover(i)
    \/ ForwarderNext
    \/ \E f \in forward : GiveUp(f)
    \/ ForwarderRestart
    \/ \E p \in Path, text \in Text \cup {Missing} : Edit(p, text)
    \/ Crash

Spec == Init /\ [][Next]_vars

-----------------------------------------------------------------------------
(* The loop of ChangeOutboxForwarder.run() never ends, a started commit or   *)
(* recovery goes on, a blocking lock is got at last, and a mailbox that is   *)
(* drained accepts an intent that is offered again and again.               *)
Fairness ==
    /\ WF_vars(ReadReady)
    /\ WF_vars(\E f \in forward : Send(f) \/ MarkDelivered(f) \/ GiveUp(f))
    /\ \A i \in Id : SF_vars(\E f \in forward : f.id = i /\ Send(f))
    /\ \A i \in Id : SF_vars(i \in recovery /\ Recover(i))
    /\ \A w \in Writer : WF_vars(WriterNext(w) \/ FailOne(w) \/ FailMany(w))

FairSpec == Spec /\ Fairness

(* reserve() admits no second change of a path while one is unfinished or    *)
(* waits for its rebase, whatever failures, crashes and recoveries leave.   *)
OneInflightPerPath ==
    \A i, j \in Inflight : intents[i].path = intents[j].path => i = j

(* A CodeChanged message reports a change that was made: neither an error,   *)
(* nor a crash before the replace, nor an edit from outside lets recover()   *)
(* and publish_ready() announce a change that is not in the project.        *)
NoFalseEvent == mail \subseteq applied

(* A change in the project keeps its durable intent, hence its event, until  *)
(* the mailbox has it: no error path and no recovery forgets it.            *)
WrittenIsRecorded ==
    \A i \in Id :
        /\ i \in applied =>
              intents[i].state \in {"COMMITTING", "READY", "DELIVERED", "REBASE_REQUIRED"}
        /\ intents[i].state = "DELIVERED" => i \in mail

(* The table of intents is in order: its rows are what reserve() and its     *)
(* successors may leave, and none of them shares its path.                  *)
OnePathOneChange == TypeOK /\ OneInflightPerPath

(* A change of the project is announced if and only if it was made.          *)
EventIffChange == NoFalseEvent /\ WrittenIsRecorded

(* Every READY intent reaches the mailbox (or is discarded with its batch),  *)
(* through forwarder deaths, crashes and refused attempts.                  *)
ReadyReachesMail ==
    \A i \in Id :
        (intents[i].state = "READY") ~> (i \in mail \/ intents[i].state = "none")

(* Once commit_many() is over and no process died in it, the changes of its  *)
(* batch are in the project together or not at all, whichever step failed.  *)
Made(c) == file[c.path] = c.text /\ (c.kind = "rename" => file[c.old] = Missing)

AllOrNothing ==
    \A job \in {j \in Jobs : j.mode = "many"} :
        faults = 0 /\ recovery = {} /\ (\A p \in Affected(job.changes) : lock[p] = NoPath) =>
            \A i, j \in DOMAIN job.changes : Made(job.changes[i]) <=> Made(job.changes[j])
===============================================================================
