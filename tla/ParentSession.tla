---------------------------- MODULE ParentSession ----------------------------
(***************************************************************************)
(* One project session of the gateway (agent/runtime/gateway.py): turns of  *)
(* the user, the parent worker that claims their input from the mailbox and *)
(* answers it, the relay of pending input, the child of a turn and its      *)
(* result, the session's memory window, closing, crash and restart.         *)
(*                                                                         *)
(* Everything runs on one event loop; an action is what happens between two *)
(* awaits, or a stretch of them that no other task can tell from one step.  *)
(* What Mailbox promises is used here: a claim is held until its lease ends *)
(* and a late ack is refused.                                               *)
(***************************************************************************)
EXTENDS Naturals, Sequences, FiniteSets

CONSTANTS
    MaxTurn,       \* bound: inputs of the session
    MaxGen,        \* bound: generations of the parent runtime
    MaxFault,      \* bound: failing steps
    MaxCrash,      \* bound: crashes of the process
    RecentWindow   \* recent_window of the short-term memory

ASSUME SessionAssumption ==
    /\ MaxTurn \in Nat \ {0} /\ MaxGen \in Nat \ {0}
    /\ MaxFault \in Nat /\ MaxCrash \in Nat /\ RecentWindow \in Nat \ {0}

VARIABLES
    session,   \* status of the session row; "closing": close_session() is under way
    lastGen,   \* highest generation in the runtime records of the session
    input,     \* runtime_input_deliveries: "none", "pending", "delivered"
    mail,      \* the rows of the mailbox for this session
    log,       \* project_messages, in order of their creation
    failed,    \* history: inputs whose provider call failed
    node,      \* the plan node of the child: its status; receipts of the result in
               \* plan.db and in the session database; the outcome in its mail;
               \* again: dispatched once more after a result
    handle,    \* generation of the registered parent runtime, 0: none
    worker,    \* _ParentRuntimeWorker of that runtime
    jobs,      \* its submitted jobs
    settled,   \* its _settled_message_ids
    turn,      \* the turn that holds the turn lock
    child,     \* the child of this turn
    mem,       \* the memory window: hot, win, sum (indices of log)
    ckpt,      \* the persisted checkpoint: anchor and what its summary covers
    seen,      \* history: messages that were part of the window
    faults, crashes

durable == <<session, lastGen, input, mail, log, failed, node, ckpt, seen>>
runtime == <<handle, worker, jobs, settled>>
vars == <<session, lastGen, input, mail, log, failed, node, ckpt, seen, handle,
          worker, jobs, settled, turn, child, mem, faults, crashes>>

Input == 1 .. MaxTurn
ChildResult == 0                  \* message id of the result of the child
Item == Input \cup {ChildResult}

NoWorker == [pc |-> "off", item |-> ChildResult, how |-> "none", recovery |-> TRUE]
NoTurn == [pc |-> "idle", msg |-> 0, gen |-> 0, ok |-> FALSE]
NoChild == [pc |-> "none", ok |-> FALSE, attempt |-> 0]
Cold == [hot |-> FALSE, win |-> {}, sum |-> {}]
NoMail == [st |-> "none", gen |-> 0, seq |-> 0]

TypeOK ==
    /\ session \in {"active", "closing", "closed"}
    /\ lastGen \in 0 .. MaxGen /\ handle \in 0 .. MaxGen
    /\ input \in [Input -> {"none", "pending", "delivered"}]
    /\ mail \in [Item -> [st: {"none", "due", "leased", "waiting", "acked"},
                          gen: 0 .. MaxGen, seq: 0 .. MaxTurn + 1]]
    /\ log \in Seq([msg: Input, role: {"user", "assistant"}])
    /\ failed \subseteq Input /\ jobs \subseteq Input /\ settled \subseteq Item
    /\ node \in [status: {"pending", "mapping", "completed", "failed"},
                 receipt: BOOLEAN, delivered: BOOLEAN, mailed: BOOLEAN, again: BOOLEAN]
    /\ worker \in [pc: {"off", "claim", "job", "handle", "ack", "dead"}, item: Item,
                   how: {"none", "reply", "failed", "settled", "child"}, recovery: BOOLEAN]
    /\ turn \in [pc: {"idle", "admitted", "persisted", "queued", "marked", "remembered",
                      "prepared", "ready", "wait", "answered", "children"},
                 msg: 0 .. MaxTurn, gen: 0 .. MaxGen, ok: BOOLEAN]
    /\ child \in [pc: {"none", "wait", "deliver", "done"}, ok: BOOLEAN, attempt: 0 .. 3]
    /\ mem \in [hot: BOOLEAN, win: SUBSET (1 .. Len(log)), sum: SUBSET (1 .. Len(log))]
    /\ ckpt \in [anchor: 0 .. Len(log), sum: SUBSET (1 .. Len(log))]
    /\ seen \subseteq 1 .. Len(log)
    /\ faults \in 0 .. MaxFault /\ crashes \in 0 .. MaxCrash

Init ==
    /\ session = "active" /\ lastGen = 0 /\ handle = 0
    /\ input = [m \in Input |-> "none"]
    /\ mail = [i \in Item |-> NoMail]
    /\ log = <<>> /\ failed = {} /\ jobs = {} /\ settled = {} /\ seen = {}
    /\ node = [status |-> "pending", receipt |-> FALSE, delivered |-> FALSE,
               mailed |-> FALSE, again |-> FALSE]
    /\ worker = NoWorker /\ turn = NoTurn /\ child = NoChild /\ mem = Cold
    /\ ckpt = [anchor |-> 0, sum |-> {}]
    /\ faults = 0 /\ crashes = 0

Fault == faults < MaxFault /\ faults' = faults + 1
NoFault == UNCHANGED faults

-----------------------------------------------------------------------------
(* The mailbox.                                                             *)

NextSeq == 1 + Cardinality({i \in Item : mail[i].st # "none"})

(* enqueue(): a message id that is there already is left alone.             *)
Enqueued(i, g) ==
    IF mail[i].st # "none" THEN mail
    ELSE [mail EXCEPT ![i] = [st |-> "due", gen |-> g, seq |-> NextSeq]]

FirstDue(g, i) ==
    /\ mail[i].st = "due" /\ mail[i].gen = g
    /\ \A j \in Item : mail[j].st = "due" /\ mail[j].gen = g => mail[i].seq <= mail[j].seq

(* _claim_targets: the mailboxes of generations 1 to its own, in this order. *)
Claimable(i) ==
    /\ mail[i].gen \in 1 .. handle
    /\ FirstDue(mail[i].gen, i)
    /\ \A j \in Item : mail[j].st = "due" => mail[i].gen <= mail[j].gen

(* A lease runs out under a dead holder; under a working one that is late    *)
(* with its answer it counts as a fault.                                    *)
Holds(i) == worker.pc \in {"job", "handle", "ack"} /\ worker.item = i

LeaseEnds(i) ==
    /\ mail[i].st = "leased"
    /\ IF Holds(i) THEN Fault ELSE NoFault
    /\ mail' = [mail EXCEPT ![i].st = "due"]
    /\ UNCHANGED <<session, lastGen, input, log, failed, node, ckpt, seen,
                   runtime, turn, child, mem, crashes>>

(* The retry delay of a nacked message is over.                             *)
RetryDue(i) ==
    /\ mail[i].st = "waiting"
    /\ mail' = [mail EXCEPT ![i].st = "due"]
    /\ UNCHANGED <<session, lastGen, input, log, failed, node, ckpt, seen,
                   runtime, turn, child, mem, faults, crashes>>

-----------------------------------------------------------------------------
(* The memory window of the session.                                        *)

Replies(m) == {n \in 1 .. Len(log) : log[n] = [msg |-> m, role |-> "assistant"]}

(* Fault: the anchor is the newest message of the window.                   *)
AnchorAtEnd(win, evicted) == win \cup evicted

(* anchor = evicted[-1]: the summary reaches to the last evicted message.   *)
Anchor(win, evicted) == evicted

Largest(S) == IF S = {} THEN 0 ELSE CHOOSE n \in S : \A k \in S : k <= n

(* ShortTermMemory.append(): the messages above the budget (their sizes are *)
(* left open: `over`) but for the recent window go into the summary.        *)
Evicted(win, over) ==
    IF over THEN {n \in win : Cardinality({k \in win : k > n}) >= RecentWindow} ELSE {}

(* restore(): the persisted summary, and what list_messages_after(anchor)   *)
(* reads of the log.                                                        *)
Restored(m) ==
    IF m.hot THEN m
    ELSE [hot |-> FALSE, win |-> ckpt.anchor + 1 .. Len(log), sum |-> ckpt.sum]

(* append() and, when the anchor moved, update_memory_checkpoint(); the      *)
(* latter may fail after the window has changed.                            *)
Append1(m, new, over, saved, hot) ==
    LET win == m.win \cup new
        out == Evicted(win, over)
    IN  /\ mem' = [hot |-> hot, win |-> win \ out, sum |-> m.sum \cup out]
        /\ seen' = seen \cup win
        /\ ckpt' = IF saved /\ out # {}
                   THEN [anchor |-> Largest(Anchor(win \ out, out)), sum |-> m.sum \cup out]
                   ELSE ckpt

-----------------------------------------------------------------------------
(* The turn: converse() and _converse_serialized().                         *)

(* _parent_generation(): the live runtime's, or one more than any record's. *)
ParentGeneration == IF handle # 0 THEN handle ELSE lastGen + 1

NewInput == Cardinality({m \in Input : input[m] # "none"}) + 1

(* The end of converse(), with or without an error: the lock is released.    *)
LeaveTurn == turn' = NoTurn /\ child' = NoChild

(* Admission under the turn lock: session row, readiness, node, generation. *)
Admit ==
    /\ turn.pc = "idle" /\ session # "closed"
    /\ NewInput \in Input /\ ParentGeneration <= MaxGen
    /\ turn' = [NoTurn EXCEPT !.pc = "admitted", !.gen = ParentGeneration]
    /\ child' = NoChild
    /\ UNCHANGED <<durable, runtime, mem, faults, crashes>>

(* create_runtime_input(): message and pending delivery in one transaction. *)
CreateRuntimeInput ==
    /\ turn.pc = "admitted"
    /\ input' = [input EXCEPT ![NewInput] = "pending"]
    /\ log' = Append(log, [msg |-> NewInput, role |-> "user"])
    /\ turn' = [turn EXCEPT !.pc = "persisted", !.msg = NewInput]
    /\ mail' = [mail EXCEPT ![NewInput].gen = turn.gen]     \* target_generation
    /\ UNCHANGED <<session, lastGen, failed, node, ckpt, seen, runtime, child, mem,
                   faults, crashes>>

EnqueueInput ==
    /\ turn.pc = "persisted"
    /\ mail' = Enqueued(turn.msg, turn.gen)
    /\ turn' = [turn EXCEPT !.pc = "queued"]
    /\ UNCHANGED <<session, lastGen, input, log, failed, node, ckpt, seen, runtime,
                   child, mem, faults, crashes>>

(* The delivery row, by the turn or by the relay.                           *)
MarkDelivered ==
    /\ turn.pc = "queued"
    /\ input' = [input EXCEPT ![turn.msg] = "delivered"]
    /\ turn' = [turn EXCEPT !.pc = "marked"]
    /\ UNCHANGED <<session, lastGen, mail, log, failed, node, ckpt, seen, runtime,
                   child, mem, faults, crashes>>

(* context_for_turn(): a cold window is restored first; a hot one gets only *)
(* the current message.  A failing checkpoint leaves the window changed, a  *)
(* cancelled turn makes it cold.                                            *)
ContextForTurn ==
    /\ turn.pc = "marked"
    /\ \E over \in BOOLEAN :
         LET cur == {n \in 1 .. Len(log) : log[n] = [msg |-> turn.msg, role |-> "user"]}
         IN  \/ NoFault /\ Append1(Restored(mem), cur, over, TRUE, TRUE)
                /\ turn' = [turn EXCEPT !.pc = "remembered"] /\ UNCHANGED child
             \/ Fault /\ \E hot \in {mem.hot, FALSE} :
                           Append1(Restored(mem), cur, over, FALSE, hot)
                /\ LeaveTurn
    /\ UNCHANGED <<session, lastGen, input, mail, log, failed, node, runtime, crashes>>

(* Execution snapshot, contract, candidate and container backend; the       *)
(* context and the tools of the turn.                                       *)
PrepareTurn ==
    /\ turn.pc = "remembered"
    /\ turn' = [turn EXCEPT !.pc = "prepared"]
    /\ UNCHANGED <<durable, runtime, child, mem, faults, crashes>>

(* _ensure_parent_runtime(): the live one and its worker, or a new one of    *)
(* the generation read at admission.                                        *)
EnsureParentRuntime ==
    /\ turn.pc = "prepared"
    /\ IF handle # 0 THEN UNCHANGED <<lastGen, runtime>>
       ELSE /\ handle' = turn.gen
            /\ lastGen' = IF turn.gen > lastGen THEN turn.gen ELSE lastGen
            /\ worker' = [NoWorker EXCEPT !.pc = "claim"] /\ jobs' = {} /\ settled' = {}
    /\ turn' = [turn EXCEPT !.pc = "ready"]
    /\ UNCHANGED <<session, input, mail, log, failed, node, ckpt, seen, child, mem,
                   faults, crashes>>

(* submit(): the job, and then the future.  A runtime that was destroyed     *)
(* while it was handed over has cancelled its jobs already.                 *)
Submit ==
    /\ turn.pc = "ready"
    /\ jobs' = IF handle # 0 THEN jobs \cup {turn.msg} ELSE jobs
    /\ turn' = [turn EXCEPT !.pc = "wait"]
    /\ UNCHANGED <<durable, handle, worker, settled, child, mem, faults, crashes>>

(* A full mailbox, a missing snapshot, a candidate that cannot be prepared,  *)
(* a record that cannot be written: the turn raises; its input stays.       *)
TurnFails ==
    /\ turn.pc \in {"admitted", "persisted", "queued", "remembered", "prepared"}
    /\ Fault
    /\ LeaveTurn
    /\ UNCHANGED <<durable, runtime, mem, crashes>>

(* The caller goes away while it waits (the request task is cancelled).     *)
TurnCancelled ==
    /\ turn.pc = "wait"
    /\ Fault
    /\ turn' = [turn EXCEPT !.pc = "answered", !.ok = FALSE]
    /\ UNCHANGED <<durable, runtime, child, mem, crashes>>

(* record_persisted_message() after a reply; on failure the tasks of the     *)
(* children are cancelled.  Then child_result_start is set.                 *)
RecordReply ==
    /\ turn.pc = "answered"
    /\ IF turn.ok /\ mem.hot
       THEN \E over \in BOOLEAN :
              \/ NoFault /\ Append1(mem, Replies(turn.msg), over, TRUE, TRUE)
              \/ Fault /\ \E hot \in BOOLEAN : Append1(mem, Replies(turn.msg), over, FALSE, hot)
       ELSE NoFault /\ UNCHANGED <<mem, ckpt, seen>>
    /\ turn' = [turn EXCEPT !.pc = "children"]
    /\ UNCHANGED <<session, lastGen, input, mail, log, failed, node, runtime, child,
                   crashes>>

(* The task of the child has ended and the child is destroyed; what is left  *)
(* of the turn hands the candidate to verification (see Verification).      *)
EndTurn ==
    /\ turn.pc = "children" /\ child.pc \in {"none", "done"}
    /\ LeaveTurn
    /\ UNCHANGED <<durable, runtime, mem, faults, crashes>>

-----------------------------------------------------------------------------
(* The relay of pending input, at startup and once per interval.            *)

(* Fault: pending rows are relayed only if their generation is live.        *)
RelayLive(m) ==
    /\ input[m] = "pending" /\ mail[m].gen = handle
    /\ mail' = Enqueued(m, mail[m].gen)
    /\ UNCHANGED <<session, lastGen, input, log, failed, node, ckpt, seen, runtime,
                   turn, child, mem, faults, crashes>>

RelayEnqueue(m) ==
    /\ input[m] = "pending" /\ mail[m].st = "none"
    /\ mail' = Enqueued(m, mail[m].gen)
    /\ UNCHANGED <<session, lastGen, input, log, failed, node, ckpt, seen, runtime,
                   turn, child, mem, faults, crashes>>

RelayMark(m) ==
    /\ input[m] = "pending" /\ mail[m].st # "none"
    /\ input' = [input EXCEPT ![m] = "delivered"]
    /\ UNCHANGED <<session, lastGen, mail, log, failed, node, ckpt, seen, runtime,
                   turn, child, mem, faults, crashes>>

-----------------------------------------------------------------------------
(* The parent worker: _ParentRuntimeWorker.run().                           *)

Own(i) == mail[i].gen = handle

(* Recovery ends when nothing is due any more; from then on the worker       *)
(* claims only while a job is there.                                        *)
ClaimNothing ==
    /\ worker.pc = "claim" /\ worker.recovery
    /\ \A i \in Item : ~Claimable(i)
    /\ worker' = [worker EXCEPT !.recovery = FALSE]
    /\ UNCHANGED <<durable, handle, jobs, settled, turn, child, mem, faults, crashes>>

(* apply_child_result(): status and receipt in one transaction, once.       *)
Applied(ok) ==
    IF node.receipt THEN node
    ELSE [node EXCEPT !.status = IF ok THEN "completed" ELSE "failed", !.receipt = TRUE]

(* What the worker does with what it claimed: acknowledge what is settled,   *)
(* apply the result of a child, answer an input of an older generation      *)
(* itself, wait for the job of one of its own.                              *)
ClaimNext(i) ==
    /\ worker.pc = "claim" /\ (worker.recovery \/ jobs # {})
    /\ Claimable(i)
    /\ mail' = [mail EXCEPT ![i].st = "leased"]
    /\ \/ /\ i \in settled
          /\ worker' = [worker EXCEPT !.pc = "ack", !.item = i, !.how = "settled"]
          /\ UNCHANGED node
       \/ /\ i \notin settled /\ i = ChildResult
          /\ node' = Applied(node.mailed)
          /\ worker' = [worker EXCEPT !.pc = "ack", !.item = i, !.how = "child"]
       \/ /\ i \notin settled /\ i # ChildResult
          /\ worker' = [worker EXCEPT !.pc = IF Own(i) THEN "job" ELSE "handle", !.item = i]
          /\ UNCHANGED node
    /\ UNCHANGED <<session, lastGen, input, log, failed, ckpt, seen, handle, jobs, settled,
                   turn, child, mem, faults, crashes>>

(* _job_for()                                                               *)
TakeJob ==
    /\ worker.pc = "job" /\ worker.item \in jobs
    /\ jobs' = jobs \ {worker.item}
    /\ worker' = [worker EXCEPT !.pc = "handle"]
    /\ UNCHANGED <<durable, handle, settled, turn, child, mem, faults, crashes>>

(* Fault: a retried input is answered again.                                *)
HandleInputAgain ==
    /\ worker.pc = "handle"
    /\ log' = Append(log, [msg |-> worker.item, role |-> "assistant"])
    /\ worker' = [worker EXCEPT !.pc = "ack", !.how = "reply"]
    /\ UNCHANGED <<session, lastGen, input, mail, failed, node, ckpt, seen, handle, jobs,
                   settled, turn, child, mem, faults, crashes>>

(* handle_input() and _run_provider_and_persist(): an input with a result    *)
(* gets that result; otherwise the provider's reply and the result row are  *)
(* written in one transaction.                                              *)
HandleInput ==
    /\ worker.pc = "handle"
    /\ log' = IF Replies(worker.item) # {} THEN log
              ELSE Append(log, [msg |-> worker.item, role |-> "assistant"])
    /\ worker' = [worker EXCEPT !.pc = "ack", !.how = "reply"]
    /\ UNCHANGED <<session, lastGen, input, mail, failed, node, ckpt, seen, handle, jobs,
                   settled, turn, child, mem, faults, crashes>>

ProviderFails ==
    /\ worker.pc = "handle" /\ Replies(worker.item) = {}
    /\ Fault
    /\ failed' = failed \cup {worker.item}
    /\ worker' = [worker EXCEPT !.pc = "ack", !.how = "failed"]
    /\ UNCHANGED <<session, lastGen, input, mail, log, node, ckpt, seen, handle, jobs,
                   settled, turn, child, mem, crashes>>

(* Fault: the future of whatever turn waits is resolved.                    *)
ResolveAny ==
    turn' = IF turn.pc = "wait" /\ worker.how \in {"reply", "failed"}
            THEN [turn EXCEPT !.pc = "answered", !.ok = worker.how = "reply"]
            ELSE turn

(* The future of the job, if its turn still waits.                          *)
Resolve ==
    turn' = IF turn.pc = "wait" /\ turn.msg = worker.item /\ Own(worker.item)
               /\ worker.how \in {"reply", "failed"}
            THEN [turn EXCEPT !.pc = "answered", !.ok = worker.how = "reply"]
            ELSE turn

NextClaim == worker' = [worker EXCEPT !.pc = "claim", !.how = "none"]

(* _ack_with_retry() after a lost lease: remembered as settled.             *)
AckLostLease ==
    /\ worker.pc = "ack" /\ mail[worker.item].st # "leased"
    /\ settled' = settled \cup {worker.item}
    /\ Resolve /\ NextClaim
    /\ UNCHANGED <<durable, handle, jobs, child, mem, faults, crashes>>

Acked ==
    /\ worker.pc = "ack" /\ mail[worker.item].st = "leased"
    /\ mail' = [mail EXCEPT ![worker.item].st = "acked"]
    /\ settled' = settled \ {worker.item}
    /\ Resolve /\ NextClaim
    /\ UNCHANGED <<session, lastGen, input, log, failed, node, ckpt, seen, handle, jobs,
                   child, mem, faults, crashes>>

(* Fault: the job is not put back.                                          *)
AckDeferredDropping ==
    /\ worker.pc = "ack" /\ mail[worker.item].st = "leased"
    /\ Fault
    /\ mail' = [mail EXCEPT ![worker.item].st = "waiting"]
    /\ NextClaim
    /\ UNCHANGED <<session, lastGen, input, log, failed, node, ckpt, seen, handle, jobs,
                   settled, turn, child, mem, crashes>>

(* Three answers of "busy": nack, and the job is put back.                  *)
AckDeferred ==
    /\ worker.pc = "ack" /\ mail[worker.item].st = "leased"
    /\ Fault
    /\ mail' = [mail EXCEPT ![worker.item].st = "waiting"]
    /\ jobs' = IF Own(worker.item) /\ worker.how \in {"reply", "failed"}
               THEN jobs \cup {worker.item} ELSE jobs
    /\ NextClaim
    /\ UNCHANGED <<session, lastGen, input, log, failed, node, ckpt, seen, handle, settled,
                   turn, child, mem, crashes>>

(* An error that run() does not handle: the task ends, the handle stays.    *)
WorkerDies ==
    /\ worker.pc \in {"claim", "ack"} /\ (worker.recovery \/ jobs # {})
    /\ Fault
    /\ worker' = [worker EXCEPT !.pc = "dead"]
    /\ UNCHANGED <<durable, handle, jobs, settled, turn, child, mem, crashes>>

-----------------------------------------------------------------------------
(* The child of a turn: dispatch_child_agent(), run_child().                *)

(* A node that was dispatched before keeps its spawn message id.            *)
DispatchChild ==
    /\ worker.pc = "handle" /\ turn.pc = "wait" /\ turn.msg = worker.item
    /\ Replies(worker.item) = {} /\ child.pc = "none"
    /\ child' = [pc |-> "wait", ok |-> FALSE, attempt |-> 0]
    /\ node' = [node EXCEPT !.status = "mapping", !.again = @ \/ node.receipt]
    /\ UNCHANGED <<session, lastGen, input, mail, log, failed, ckpt, seen, runtime, turn,
                   mem, faults, crashes>>

(* _execute_child_work() once the turn has its answer; a turn without one    *)
(* has cancelled the child.                                                 *)
ChildWorks(ok) ==
    /\ child.pc = "wait" /\ turn.pc = "children" /\ (ok => turn.ok)
    /\ child' = [child EXCEPT !.pc = "deliver", !.ok = ok]
    /\ UNCHANGED <<durable, runtime, turn, mem, faults, crashes>>

(* The claims of deliver_child_result() up to its own message: what else is  *)
(* due for the target is nacked.                                            *)
Skipped(box) ==
    [i \in Item |-> IF i # ChildResult /\ box[i].gen = turn.gen /\ box[i].st = "due"
                    THEN [box[i] EXCEPT !.st = "waiting"] ELSE box[i]]

Mailed == IF mail[ChildResult].st = "none" THEN child.ok ELSE node.mailed

(* deliver_child_result(): enqueue, claim, apply, ack, receipt.  A result    *)
(* with a receipt is done.                                                  *)
DeliverChildResult ==
    /\ child.pc = "deliver"
    /\ IF node.delivered THEN UNCHANGED <<mail, node>>
       ELSE /\ mail[ChildResult].st \in {"none", "due"}
            /\ mail' = [Skipped(Enqueued(ChildResult, turn.gen)) EXCEPT
                          ![ChildResult].st = "acked"]
            /\ node' = [Applied(child.ok) EXCEPT !.delivered = TRUE, !.mailed = Mailed]
    /\ child' = [child EXCEPT !.pc = "done"]
    /\ UNCHANGED <<session, lastGen, input, log, failed, ckpt, seen, runtime, turn, mem,
                   faults, crashes>>

(* A refused enqueue or ack, or a result that is leased, delayed or done:    *)
(* another try.                                                             *)
DeliverRefused ==
    /\ child.pc = "deliver" /\ ~node.delivered /\ child.attempt < 3
    /\ \/ /\ mail[ChildResult].st \in {"leased", "waiting", "acked"}
          /\ NoFault /\ mail' = Skipped(mail) /\ UNCHANGED node
       \/ /\ IF child.attempt = 0 THEN Fault ELSE NoFault      \* the mailbox is full
          /\ UNCHANGED <<mail, node>>
       \/ /\ Fault /\ mail[ChildResult].st \in {"none", "due"}
          /\ mail' = [Skipped(Enqueued(ChildResult, turn.gen)) EXCEPT ![ChildResult].st = "leased"]
          /\ node' = [Applied(child.ok) EXCEPT !.mailed = Mailed]
    /\ child' = [child EXCEPT !.attempt = @ + 1]
    /\ UNCHANGED <<session, lastGen, input, log, failed, ckpt, seen, runtime, turn,
                   mem, crashes>>

(* Fault: a result that found no room in the mailbox is dropped.            *)
DropResult ==
    /\ child.pc = "deliver" /\ ~node.delivered /\ child.attempt = 3
    /\ child' = [child EXCEPT !.pc = "done"]
    /\ UNCHANGED <<durable, runtime, turn, mem, faults, crashes>>

(* After the third: the result is applied without mail.                     *)
ApplyWithoutMail ==
    /\ child.pc = "deliver" /\ ~node.delivered /\ child.attempt = 3
    /\ node' = Applied(child.ok)
    /\ child' = [child EXCEPT !.pc = "done"]
    /\ UNCHANGED <<session, lastGen, input, mail, log, failed, ckpt, seen, runtime, turn,
                   mem, faults, crashes>>

-----------------------------------------------------------------------------
(* Closing, crash, restart.                                                 *)

(* The cancelled worker nacks its claim; its mailbox gives back what is      *)
(* leased under its name, by earlier processes too.                         *)
GivenBack ==
    [i \in Item |-> IF mail[i].st # "leased" THEN mail[i]
                    ELSE [mail[i] EXCEPT !.st = IF Holds(i) THEN "waiting" ELSE "due"]]

(* close_session() destroys the runtimes without waiting for the turn.  The  *)
(* worker cancels the futures of its jobs; a child that waits reports       *)
(* "cancelled", one that delivers has ended for the host and goes on.        *)
CloseRuntimes ==
    /\ session = "active"
    /\ session' = "closing"
    /\ mail' = IF handle # 0 THEN GivenBack ELSE mail
    /\ handle' = 0 /\ worker' = NoWorker /\ jobs' = {} /\ settled' = {}
    /\ turn' = IF turn.pc = "wait" /\ worker.pc # "dead"
               THEN [turn EXCEPT !.pc = "answered"] ELSE turn
    /\ UNCHANGED <<lastGen, input, log, failed, node, ckpt, seen, child, mem, faults, crashes>>

CloseSession ==
    /\ session = "closing"
    /\ session' = "closed"
    /\ mem' = Cold
    /\ UNCHANGED <<lastGen, input, mail, log, failed, node, ckpt, seen, runtime, turn, child,
                   faults, crashes>>

(* The process ends; recover_before_requests() of the next one interrupts    *)
(* the runtime records.  Leases stay until they end.                        *)
Crash ==
    /\ crashes < MaxCrash
    /\ crashes' = crashes + 1
    /\ handle' = 0 /\ worker' = NoWorker /\ jobs' = {} /\ settled' = {}
    /\ turn' = NoTurn /\ child' = NoChild /\ mem' = Cold
    /\ session' = IF session = "closing" THEN "active" ELSE session
    /\ UNCHANGED <<lastGen, input, mail, log, failed, node, ckpt, seen, faults>>

Next ==
    \/ Admit \/ CreateRuntimeInput \/ EnqueueInput \/ MarkDelivered \/ ContextForTurn
    \/ PrepareTurn \/ EnsureParentRuntime \/ Submit \/ TurnFails \/ TurnCancelled
    \/ RecordReply \/ EndTurn
    \/ ClaimNothing \/ TakeJob \/ HandleInput \/ ProviderFails \/ AckLostLease \/ Acked
    \/ AckDeferred \/ WorkerDies
    \/ \E i \in Item : LeaseEnds(i) \/ RetryDue(i) \/ ClaimNext(i)
    \/ \E m \in Input : RelayEnqueue(m) \/ RelayMark(m)
    \/ DispatchChild \/ \E ok \in BOOLEAN : ChildWorks(ok)
    \/ DeliverChildResult \/ DeliverRefused \/ ApplyWithoutMail
    \/ CloseRuntimes \/ CloseSession \/ Crash

(* Tasks that can run do run, leases and delays end, the relay repeats.     *)
Fairness ==
    /\ WF_vars(CreateRuntimeInput \/ EnqueueInput \/ MarkDelivered \/ ContextForTurn)
    /\ WF_vars(PrepareTurn \/ EnsureParentRuntime \/ Submit \/ RecordReply \/ EndTurn)
    /\ WF_vars(ClaimNothing \/ TakeJob \/ HandleInput \/ AckLostLease \/ Acked
               \/ \E i \in Item : ClaimNext(i))
    /\ WF_vars(\E ok \in BOOLEAN : ChildWorks(ok))
    /\ WF_vars(DeliverChildResult \/ DeliverRefused \/ ApplyWithoutMail)
    /\ \A i \in Item : WF_vars(~Holds(i) /\ LeaseEnds(i)) /\ WF_vars(RetryDue(i))
    /\ \A m \in Input : WF_vars(RelayEnqueue(m)) /\ WF_vars(RelayMark(m))

Spec == Init /\ [][Next]_vars /\ Fairness

-----------------------------------------------------------------------------
(* One reply per input, however often it is redelivered, recovered by a      *)
(* later generation or retried after a lost ack (handle_input).             *)
OneReply == \A m \in Input : Cardinality(Replies(m)) <= 1

(* An input leaves the mailbox only with a reply or after its provider call  *)
(* failed, and a turn that reports success has a reply to its own input.    *)
AckedIsSettled ==
    /\ \A m \in Input : mail[m].st = "acked" => Replies(m) # {} \/ m \in failed
    /\ turn.pc \in {"answered", "children"} /\ turn.ok => Replies(turn.msg) # {}

(* A message that was once part of the context stays part of it or of the    *)
(* summary, over evictions, failed checkpoints, closes and restarts.        *)
Context == IF mem.hot THEN mem.win \cup mem.sum
           ELSE ckpt.sum \cup (ckpt.anchor + 1 .. Len(log))

ContextKept == seen \subseteq Context /\ (mem.hot => mem.win \cap mem.sum = {})

(* The node of a child that ended has the status of its result, unless it    *)
(* had a result from an earlier dispatch already.                           *)
ChildSettlesNode ==
    child.pc = "done" /\ ~node.again => node.status # "mapping"

(* Input and the result of a child are settled once: replied to or known to  *)
(* have failed before they leave the mailbox, and never a second time.      *)
SettledOnce == TypeOK /\ OneReply /\ AckedIsSettled /\ ChildSettlesNode

(* A turn that waits gets an answer, or the worker cannot give one: its task *)
(* has died, its runtime is gone, or it waits for the job of an input whose *)
(* turn failed before it submitted one.                                     *)
Stuck ==
    \/ handle = 0 \/ worker.pc = "dead"
    \/ worker.pc = "job" /\ worker.item \notin jobs /\ worker.item # turn.msg

TurnAnswered == turn.pc = "wait" ~> (turn.pc # "wait" \/ Stuck)

(* Input that was accepted reaches the mailbox, whatever becomes of its     *)
(* turn: the relay sees to it.                                              *)
InputDelivered ==
    (\E m \in Input : input[m] = "pending") ~> (\A m \in Input : input[m] # "pending")

(* What a user sends is answered, or at least kept for the worker.          *)
InputServed == TurnAnswered /\ InputDelivered
=============================================================================
