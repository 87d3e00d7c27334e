---------------------------- MODULE SessionProofs ----------------------------
(***************************************************************************)
(* Proofs about one session of the gateway, for any number of inputs,        *)
(* generations, faults and crashes and any recent window.                    *)
(***************************************************************************)
EXTENDS ParentSession, FiniteSetTheorems, TLAPS

-----------------------------------------------------------------------------
(* The inductive invariant.                                                 *)

Known == {m \in Input : input[m] # "none"}

(* Inputs are numbered in the order they arrive; an admitted turn has room.  *)
Numbered ==
    \E n \in 0..MaxTurn : Known = 1..n /\ (turn.pc = "admitted" => n < MaxTurn)

(* What the session works on was sent to it.                                 *)
KnownOnly ==
    /\ \A n \in 1..Len(log) : log[n].msg \in Known
    /\ failed \subseteq Known /\ jobs \subseteq Known
    /\ \A m \in Input : mail[m].st # "none" => m \in Known
    /\ worker.pc \in {"job", "handle"} => worker.item \in Known
    /\ turn.pc \notin {"idle", "admitted"} => turn.msg \in Known

RepliedOnce == \A m \in Input : \A a, b \in Replies(m) : a = b

(* The runtime of a turn is the one it was admitted for, until its job is    *)
(* handed over; until then nobody answers its input.                         *)
BeforeJob == {"persisted", "queued", "marked", "remembered", "prepared", "ready"}

Unserved ==
    /\ turn.pc \in BeforeJob \cup {"admitted"} => handle \in {0, turn.gen}
    /\ turn.pc \in BeforeJob =>
         /\ mail[turn.msg].gen = turn.gen
         /\ turn.msg \notin jobs \cup failed /\ Replies(turn.msg) = {}
         /\ ~(worker.pc = "handle" /\ worker.item = turn.msg)

Done(m) == Replies(m) # {} \/ m \in failed

(* What the worker is about to acknowledge, and what it acknowledged before. *)
WorkerIsRight ==
    /\ worker.pc \in {"claim", "job", "handle"} => worker.how = "none"
    /\ worker.pc = "ack" => worker.item = ChildResult \/ Done(worker.item)
    /\ worker.how = "reply" => worker.item \in Input /\ Replies(worker.item) # {}
    /\ worker.how = "failed" => worker.item \in failed
    /\ \A m \in settled \cap Input : Done(m)

(* Only a turn whose input has a reply reports success.                      *)
Answers ==
    /\ \A m \in Input : mail[m].st = "acked" => Done(m)
    /\ turn.ok => turn.pc \in {"answered", "children"} /\ Replies(turn.msg) # {}

NodeIsRight ==
    /\ node.delivered => node.receipt
    /\ node.receipt /\ ~node.again => node.status # "mapping"
    /\ child.pc = "done" => node.receipt

(* The window continues where the summary ends, in memory and on disk.       *)
Later(n) == n > ckpt.anchor /\ (mem.hot => \A s \in mem.sum : s < n)

Asked(m) == {n \in 1 .. Len(log) : log[n] = [msg |-> m, role |-> "user"]}

Remembered ==
    /\ \A s \in ckpt.sum : s <= ckpt.anchor
    /\ \A n \in seen : n \in ckpt.sum \/ n > ckpt.anchor
    /\ mem.hot =>
         /\ \A s \in mem.sum, w \in mem.win : s < w
         /\ mem.win \subseteq seen /\ seen \subseteq mem.win \cup mem.sum
    /\ turn.pc \in {"persisted", "queued", "marked"} => \A n \in Asked(turn.msg) : Later(n)
    /\ turn.pc \in {"remembered", "prepared", "ready", "wait", "answered"} =>
         \A n \in Replies(turn.msg) : Later(n)

SessionInv ==
    /\ TypeOK /\ Numbered /\ KnownOnly /\ RepliedOnce /\ Unserved /\ WorkerIsRight
    /\ Answers /\ NodeIsRight /\ Remembered

-----------------------------------------------------------------------------
(* What the steps leave alone.                                               *)

(* Only the admission of an input and its relay touch the delivery rows.     *)
LEMMA InputSteps ==
    ASSUME Next
    PROVE  \/ UNCHANGED input
           \/ CreateRuntimeInput
           \/ MarkDelivered
           \/ \E m \in Input : RelayMark(m)
BY DEF Next, durable, runtime, Admit, EnqueueInput, ContextForTurn, PrepareTurn,
  EnsureParentRuntime, Submit, TurnFails, TurnCancelled, RecordReply, EndTurn, ClaimNothing,
  TakeJob, HandleInput, ProviderFails, AckLostLease, Acked, AckDeferred, WorkerDies, LeaseEnds,
  RetryDue, ClaimNext, RelayEnqueue, DispatchChild, ChildWorks, DeliverChildResult,
  DeliverRefused, ApplyWithoutMail, CloseRuntimes, CloseSession, Crash

(* The dialogue grows by an input and by a reply.                            *)
LEMMA LogSteps ==
    ASSUME Next
    PROVE  UNCHANGED log \/ CreateRuntimeInput \/ HandleInput
BY DEF Next, durable, runtime, Admit, EnqueueInput, MarkDelivered, ContextForTurn, PrepareTurn,
  EnsureParentRuntime, Submit, TurnFails, TurnCancelled, RecordReply, EndTurn, ClaimNothing,
  TakeJob, ProviderFails, AckLostLease, Acked, AckDeferred, WorkerDies, LeaseEnds,
  RetryDue, ClaimNext, RelayEnqueue, RelayMark, DispatchChild, ChildWorks, DeliverChildResult,
  DeliverRefused, ApplyWithoutMail, CloseRuntimes, CloseSession, Crash

(* Inputs are given up by the worker alone.                                 *)
LEMMA FailedSteps ==
    ASSUME Next
    PROVE  UNCHANGED failed \/ ProviderFails
BY DEF Next, durable, runtime, Admit, CreateRuntimeInput, EnqueueInput, MarkDelivered,
  ContextForTurn, PrepareTurn, EnsureParentRuntime, Submit, TurnFails, TurnCancelled,
  RecordReply, EndTurn, ClaimNothing, TakeJob, HandleInput, AckLostLease, Acked, AckDeferred,
  WorkerDies, LeaseEnds, RetryDue, ClaimNext, RelayEnqueue, RelayMark, DispatchChild, ChildWorks,
  DeliverChildResult, DeliverRefused, ApplyWithoutMail, CloseRuntimes, CloseSession, Crash

(* The window and its checkpoint change with a turn; a window gets cold.     *)
LEMMA MemorySteps ==
    ASSUME Next
    PROVE  \/ UNCHANGED <<mem, ckpt, seen>>
           \/ ContextForTurn
           \/ RecordReply
           \/ mem' = Cold /\ UNCHANGED <<ckpt, seen>> /\ UNCHANGED log
              /\ (UNCHANGED turn \/ turn' = NoTurn)
BY DEF Next, durable, runtime, Admit, CreateRuntimeInput, EnqueueInput, MarkDelivered,
  PrepareTurn, EnsureParentRuntime, Submit, TurnFails, TurnCancelled,
  EndTurn, ClaimNothing, TakeJob, HandleInput, ProviderFails, AckLostLease, Acked,
  AckDeferred, WorkerDies, LeaseEnds, RetryDue, ClaimNext, RelayEnqueue, RelayMark,
  DispatchChild, ChildWorks, DeliverChildResult, DeliverRefused, ApplyWithoutMail,
  CloseRuntimes, CloseSession, Crash

(* Jobs come with a turn that hands its own over, and back from an ack.      *)
LEMMA JobSteps ==
    ASSUME Next
    PROVE  jobs' \subseteq jobs \/ Submit \/ AckDeferred
BY DEF Next, durable, runtime, Admit, CreateRuntimeInput, EnqueueInput, MarkDelivered,
  ContextForTurn, PrepareTurn, EnsureParentRuntime, TurnFails, TurnCancelled,
  RecordReply, EndTurn, ClaimNothing, TakeJob, HandleInput, ProviderFails, AckLostLease, Acked,
  WorkerDies, LeaseEnds, RetryDue, ClaimNext, RelayEnqueue, RelayMark, DispatchChild, ChildWorks,
  DeliverChildResult, DeliverRefused, ApplyWithoutMail, CloseRuntimes, CloseSession, Crash

(* A lost lease makes the worker remember what it settled.                  *)
LEMMA SettledSteps ==
    ASSUME Next
    PROVE  settled' \subseteq settled \/ AckLostLease
BY DEF Next, durable, runtime, Admit, CreateRuntimeInput, EnqueueInput, MarkDelivered,
  ContextForTurn, PrepareTurn, EnsureParentRuntime, Submit, TurnFails, TurnCancelled,
  RecordReply, EndTurn, ClaimNothing, TakeJob, HandleInput, ProviderFails, Acked, AckDeferred,
  WorkerDies, LeaseEnds, RetryDue, ClaimNext, RelayEnqueue, RelayMark, DispatchChild, ChildWorks,
  DeliverChildResult, DeliverRefused, ApplyWithoutMail, CloseRuntimes, CloseSession, Crash

(* A runtime comes with the turn that needs it.                              *)
LEMMA HandleSteps ==
    ASSUME Next
    PROVE  UNCHANGED handle \/ handle' = 0 \/ EnsureParentRuntime
BY DEF Next, durable, runtime, Admit, CreateRuntimeInput, EnqueueInput, MarkDelivered,
  ContextForTurn, PrepareTurn, Submit, TurnFails, TurnCancelled,
  RecordReply, EndTurn, ClaimNothing, TakeJob, HandleInput, ProviderFails, AckLostLease, Acked,
  AckDeferred, WorkerDies, LeaseEnds, RetryDue, ClaimNext, RelayEnqueue, RelayMark,
  DispatchChild, ChildWorks, DeliverChildResult, DeliverRefused, ApplyWithoutMail,
  CloseRuntimes, CloseSession, Crash

(* The worker starts, claims, does its job, acknowledges, dies or is gone.   *)
LEMMA WorkerSteps ==
    ASSUME Next
    PROVE  \/ UNCHANGED worker
           \/ worker' = NoWorker \/ worker' = [NoWorker EXCEPT !.pc = "claim"]
           \/ NextClaim \/ worker' = [worker EXCEPT !.recovery = FALSE]
           \/ worker' = [worker EXCEPT !.pc = "dead"]
           \/ TakeJob \/ HandleInput \/ ProviderFails
           \/ \E i \in Item : ClaimNext(i)
BY DEF Next, durable, runtime, Admit, CreateRuntimeInput, EnqueueInput, MarkDelivered,
  ContextForTurn, PrepareTurn, EnsureParentRuntime, Submit, TurnFails, TurnCancelled,
  RecordReply, EndTurn, ClaimNothing, AckLostLease, Acked, AckDeferred, WorkerDies, LeaseEnds,
  RetryDue, RelayEnqueue, RelayMark, DispatchChild, ChildWorks, DeliverChildResult,
  DeliverRefused, ApplyWithoutMail, CloseRuntimes, CloseSession, Crash

(* The child and its node change with the child's own steps and its result. *)
LEMMA NodeSteps ==
    ASSUME Next
    PROVE  \/ UNCHANGED <<node, child>>
           \/ UNCHANGED node /\ child' = NoChild
           \/ DispatchChild \/ DeliverChildResult \/ DeliverRefused \/ ApplyWithoutMail
           \/ \E ok \in BOOLEAN : ChildWorks(ok)
           \/ \E i \in Item : ClaimNext(i)
BY DEF Next, durable, runtime, LeaveTurn, Admit, CreateRuntimeInput, EnqueueInput, MarkDelivered,
  ContextForTurn, PrepareTurn, EnsureParentRuntime, Submit, TurnFails, TurnCancelled,
  RecordReply, EndTurn, ClaimNothing, TakeJob, HandleInput, ProviderFails, AckLostLease, Acked,
  AckDeferred, WorkerDies, LeaseEnds, RetryDue, RelayEnqueue, RelayMark, CloseRuntimes,
  CloseSession, Crash

(* Where a turn can come from.                                               *)
LEMMA TurnSteps ==
    ASSUME Next
    PROVE  \/ UNCHANGED turn
           \/ turn' = NoTurn
           \/ Admit \/ CreateRuntimeInput \/ EnqueueInput \/ MarkDelivered \/ ContextForTurn
           \/ PrepareTurn \/ EnsureParentRuntime \/ Submit \/ TurnCancelled \/ RecordReply
           \/ worker.pc = "ack" /\ Resolve /\ UNCHANGED <<log, failed, handle, mem, ckpt, jobs>>
           \/ CloseRuntimes
BY DEF Next, durable, runtime, LeaveTurn, TurnFails, EndTurn, ClaimNothing, TakeJob, HandleInput,
  ProviderFails, AckLostLease, Acked, AckDeferred, WorkerDies, LeaseEnds, RetryDue, ClaimNext,
  RelayEnqueue, RelayMark, DispatchChild, ChildWorks, DeliverChildResult, DeliverRefused,
  ApplyWithoutMail, CloseSession, Crash

-----------------------------------------------------------------------------
(* The data.                                                                *)

MailRow == [st: {"none", "due", "leased", "waiting", "acked"},
            gen: 0 .. MaxGen, seq: 0 .. MaxTurn + 1]
Message == [msg: Input, role: {"user", "assistant"}]

(* A message in the mailbox for the first time gets a number of its own.     *)
LEMMA SeqBound ==
    ASSUME NEW i \in Item, mail[i].st = "none"
    PROVE  NextSeq \in 0 .. MaxTurn + 1
<1> DEFINE S == {j \in Item : mail[j].st # "none"}
<1>1. Item = 0..MaxTurn
  BY SessionAssumption DEF Item, Input, ChildResult
<1>2. IsFiniteSet(Item) /\ Cardinality(Item) = MaxTurn + 1
  BY <1>1, FS_Interval, SessionAssumption
<1>3. IsFiniteSet(Item \ {i}) /\ Cardinality(Item \ {i}) = MaxTurn
  BY <1>2, FS_RemoveElement, SessionAssumption
<1>4. S \in SUBSET (Item \ {i})
  OBVIOUS
<1>5. IsFiniteSet(S) /\ Cardinality(S) <= MaxTurn
  BY <1>3, <1>4, FS_Subset
<1>6. Cardinality(S) \in Nat
  BY <1>5, FS_CardinalityType
<1> QED BY <1>5, <1>6, SessionAssumption DEF NextSeq

(* enqueue() writes a row of the mailbox.                                   *)
LEMMA EnqueuedType ==
    ASSUME mail \in [Item -> MailRow], NEW i \in Item, NEW g \in 0..MaxGen
    PROVE  Enqueued(i, g) \in [Item -> MailRow]
<1>1. CASE mail[i].st # "none"
  BY <1>1 DEF Enqueued
<1>2. CASE mail[i].st = "none"
  <2>1. NextSeq \in 0 .. MaxTurn + 1
    BY <1>2, SeqBound
  <2>2. [st |-> "due", gen |-> g, seq |-> NextSeq] \in MailRow
    BY <2>1 DEF MailRow
  <2> QED BY <1>2, <2>2 DEF Enqueued
<1> QED BY <1>1, <1>2

(* Nacking what is due keeps the rows of the mailbox.                       *)
LEMMA SkippedType ==
    ASSUME NEW box \in [Item -> MailRow]
    PROVE  Skipped(box) \in [Item -> MailRow]
BY DEF Skipped, MailRow

(* The next input continues the numbering.                                   *)
LEMMA NextInput ==
    ASSUME NEW n \in 0..MaxTurn, Known = 1..n
    PROVE  NewInput = n + 1
<1>1. Cardinality(1..n) = n
  BY FS_Interval, SessionAssumption
<1> QED BY <1>1 DEF NewInput, Known

(* What appending a message to the dialogue does.                            *)
LEMMA Grown ==
    ASSUME NEW e \in Message, log \in Seq(Message), log' = Append(log, e)
    PROVE  /\ log' \in Seq(Message) /\ Len(log) \in Nat /\ Len(log') = Len(log) + 1
           /\ log'[Len(log) + 1] = e
           /\ \A n \in 1..Len(log) : log'[n] = log[n]
OBVIOUS

(* Evictions are the older part of the window.                               *)
LEMMA EvictedOlder ==
    ASSUME NEW win \in SUBSET (1..Len(log)), Len(log) \in Nat, NEW over \in BOOLEAN
    PROVE  /\ Evicted(win, over) \subseteq win
           /\ \A a \in Evicted(win, over), b \in win : b < a => b \in Evicted(win, over)
<1>1. Evicted(win, over) \subseteq win
  BY DEF Evicted
<1>2. ASSUME NEW a \in Evicted(win, over), NEW b \in win, b < a
      PROVE  b \in Evicted(win, over)
  <2> DEFINE A == {k \in win : k > a}
             B == {k \in win : k > b}
  <2>1. over /\ a \in win /\ Cardinality(A) >= RecentWindow
    BY <1>2 DEF Evicted
  <2>2. IsFiniteSet(1..Len(log))
    BY FS_Interval
  <2>3. IsFiniteSet(B) /\ IsFiniteSet(A)
    BY <2>2, FS_Subset
  <2>4. A \in SUBSET B
    <3>1. a \in Int /\ b \in Int /\ b < a /\ \A k \in win : k \in Int
      BY <2>1, <1>2
    <3>2. \A k \in win : k > a => k > b
      BY <3>1
    <3> QED BY <3>2
  <2>5. Cardinality(A) <= Cardinality(B) /\ Cardinality(A) \in Nat /\ Cardinality(B) \in Nat
    BY <2>3, <2>4, FS_Subset, FS_CardinalityType
  <2>6. Cardinality(B) >= RecentWindow
    BY <2>1, <2>5, SessionAssumption
  <2> QED BY <2>1, <2>6, <1>2 DEF Evicted
<1> QED BY <1>1, <1>2

-----------------------------------------------------------------------------
(* Type correctness.                                                        *)

(* The session row, the highest generation and the bounds.                  *)
LEMMA OtherSteps ==
    ASSUME Next
    PROVE  /\ UNCHANGED lastGen \/ EnsureParentRuntime
           /\ UNCHANGED session \/ session' \in {"active", "closing", "closed"}
           /\ UNCHANGED faults \/ (faults < MaxFault /\ faults' = faults + 1)
           /\ UNCHANGED crashes \/ (crashes < MaxCrash /\ crashes' = crashes + 1)
BY DEF Next, durable, runtime, Fault, NoFault, LeaveTurn, Admit, CreateRuntimeInput, EnqueueInput,
  MarkDelivered, ContextForTurn, PrepareTurn, EnsureParentRuntime, Submit, TurnFails,
  TurnCancelled, RecordReply, EndTurn, ClaimNothing, TakeJob, HandleInput, ProviderFails,
  AckLostLease, Acked, AckDeferred, WorkerDies, LeaseEnds, RetryDue, ClaimNext, RelayEnqueue,
  RelayMark, DispatchChild, ChildWorks, DeliverChildResult, DeliverRefused, ApplyWithoutMail,
  CloseRuntimes, CloseSession, Crash

MailType == mail \in [Item -> MailRow]
LogType == log \in Seq(Message)
MemType ==
    /\ mem \in [hot: BOOLEAN, win: SUBSET (1 .. Len(log)), sum: SUBSET (1 .. Len(log))]
    /\ ckpt \in [anchor: 0 .. Len(log), sum: SUBSET (1 .. Len(log))]
    /\ seen \subseteq 1 .. Len(log)
TurnType ==
    turn \in [pc: {"idle", "admitted", "persisted", "queued", "marked", "remembered",
                   "prepared", "ready", "wait", "answered", "children"},
              msg: 0 .. MaxTurn, gen: 0 .. MaxGen, ok: BOOLEAN]
WorkerType ==
    worker \in [pc: {"off", "claim", "job", "handle", "ack", "dead"}, item: Item,
                how: {"none", "reply", "failed", "settled", "child"}, recovery: BOOLEAN]
NodeType ==
    /\ node \in [status: {"pending", "mapping", "completed", "failed"},
                 receipt: BOOLEAN, delivered: BOOLEAN, mailed: BOOLEAN, again: BOOLEAN]
    /\ child \in [pc: {"none", "wait", "deliver", "done"}, ok: BOOLEAN, attempt: 0 .. 3]
SetType ==
    /\ session \in {"active", "closing", "closed"}
    /\ lastGen \in 0 .. MaxGen /\ handle \in 0 .. MaxGen
    /\ input \in [Input -> {"none", "pending", "delivered"}]
    /\ failed \subseteq Input /\ jobs \subseteq Input /\ settled \subseteq Item
    /\ faults \in 0 .. MaxFault /\ crashes \in 0 .. MaxCrash

(* TypeOK in the parts the lemmas use.                                      *)
LEMMA TypeParts ==
    TypeOK <=> /\ SetType /\ MailType /\ LogType /\ NodeType /\ WorkerType /\ TurnType
               /\ MemType
BY DEF TypeOK, SetType, MailType, MailRow, LogType, Message, NodeType, WorkerType, TurnType,
  MemType

(* The worker holds an item of the mailbox.                                 *)
LEMMA WorkerTypeStep ==
    ASSUME WorkerType, Next
    PROVE  WorkerType'
<1> DEFINE W == [pc: {"off", "claim", "job", "handle", "ack", "dead"}, item: Item,
                 how: {"none", "reply", "failed", "settled", "child"}, recovery: BOOLEAN]
<1> SUFFICES worker' \in W
  BY DEF WorkerType
<1>1. ASSUME NEW i \in Item, ClaimNext(i)
      PROVE  worker' \in W
  BY <1>1 DEF ClaimNext, WorkerType
<1>2. CASE TakeJob \/ HandleInput \/ ProviderFails
  BY <1>2 DEF TakeJob, HandleInput, ProviderFails, WorkerType
<1>3. CASE NextClaim
  BY <1>3 DEF NextClaim, WorkerType
<1>4. CASE UNCHANGED worker
  BY <1>4 DEF WorkerType
<1>5. CASE worker' = [worker EXCEPT !.recovery = FALSE] \/ worker' = [worker EXCEPT !.pc = "dead"]
  BY <1>5 DEF WorkerType
<1>6. NoWorker \in W
  BY DEF NoWorker, Item
<1>7. \A w \in W : [w EXCEPT !.pc = "claim"] \in W
  OBVIOUS
<1>8. CASE worker' = NoWorker \/ worker' = [NoWorker EXCEPT !.pc = "claim"]
  <2> HIDE DEF W
  <2> QED BY <1>6, <1>7, <1>8 DEF WorkerType
<1> HIDE DEF W
<1> QED BY <1>1, <1>2, <1>3, <1>4, <1>5, <1>8, WorkerSteps

(* The node and the child keep their types.                                 *)
LEMMA NodeTypeStep ==
    ASSUME NodeType, Next
    PROVE  NodeType'
<1> USE DEF NodeType, NoChild
<1>1. ASSUME NEW ok \in BOOLEAN
      PROVE  /\ Applied(ok) \in [status: {"pending", "mapping", "completed", "failed"},
                 receipt: BOOLEAN, delivered: BOOLEAN, mailed: BOOLEAN, again: BOOLEAN]
             /\ Mailed \in BOOLEAN /\ node.mailed \in BOOLEAN /\ child.ok \in BOOLEAN
  BY DEF Applied, Mailed
<1>2. ASSUME NEW i \in Item, ClaimNext(i)
      PROVE  NodeType'
  BY <1>1, <1>2 DEF ClaimNext
<1>3. CASE DispatchChild
  <2>1. (node.again \/ node.receipt) \in BOOLEAN
    BY Zenon
  <2>2. node' = [node EXCEPT !.status = "mapping", !.again = node.again \/ node.receipt]
    BY <1>3 DEF DispatchChild
  <2>3. node' \in [status: {"pending", "mapping", "completed", "failed"},
                 receipt: BOOLEAN, delivered: BOOLEAN, mailed: BOOLEAN, again: BOOLEAN]
    <3>1. PICK x \in BOOLEAN : x = (node.again \/ node.receipt)
      BY <2>1, Zenon
    <3>2. node' = [node EXCEPT !.status = "mapping", !.again = x]
      BY <2>2, <3>1, Zenon
    <3> QED BY <3>2
  <2> QED BY <2>3, <1>3 DEF DispatchChild
<1>4. CASE DeliverChildResult
  BY <1>1, <1>4 DEF DeliverChildResult
<1>5. CASE DeliverRefused
  BY <1>1, <1>5 DEF DeliverRefused
<1>6. CASE ApplyWithoutMail
  BY <1>1, <1>6 DEF ApplyWithoutMail
<1>7. ASSUME NEW ok \in BOOLEAN, ChildWorks(ok)
      PROVE  NodeType'
  BY <1>7 DEF ChildWorks, durable
<1>8. CASE UNCHANGED <<node, child>>
  BY <1>8
<1>9. CASE UNCHANGED node /\ child' = NoChild
  BY <1>9
<1> HIDE DEF NodeType, NoChild
<1> QED BY <1>2, <1>3, <1>4, <1>5, <1>6, <1>7, <1>8, <1>9, NodeSteps

(* Rows, jobs and generations stay in range.                                *)
LEMMA SetTypeStep ==
    ASSUME SetType, TurnType, WorkerType, KnownOnly, WorkerIsRight, Next
    PROVE  SetType'
<1>1. input' \in [Input -> {"none", "pending", "delivered"}]
  BY InputSteps DEF SetType, CreateRuntimeInput, MarkDelivered, RelayMark
<1>2. failed' \subseteq Input
  BY FailedSteps DEF SetType, ProviderFails, KnownOnly, Known
<1>3. jobs' \subseteq Input
  <2>1. CASE Submit
    BY <2>1 DEF SetType, Submit, KnownOnly, Known
  <2>2. CASE AckDeferred
    BY <2>2 DEF SetType, AckDeferred, KnownOnly, Known, WorkerIsRight
  <2> QED BY <2>1, <2>2, JobSteps DEF SetType
<1>4. handle' \in 0..MaxGen
  <2>1. CASE EnsureParentRuntime
    BY <2>1 DEF SetType, TurnType, EnsureParentRuntime, runtime
  <2> QED BY <2>1, HandleSteps, SessionAssumption DEF SetType
<1>5. lastGen' \in 0..MaxGen
  <2>1. CASE EnsureParentRuntime
    BY <2>1 DEF SetType, TurnType, EnsureParentRuntime
  <2> QED BY <2>1, OtherSteps DEF SetType
<1>6. settled' \subseteq Item
  <2>1. CASE AckLostLease
    BY <2>1 DEF SetType, WorkerType, AckLostLease
  <2> QED BY <2>1, SettledSteps DEF SetType
<1>7. session' \in {"active", "closing", "closed"} /\ faults' \in 0 .. MaxFault
      /\ crashes' \in 0 .. MaxCrash
  BY OtherSteps, SessionAssumption DEF SetType
<1> QED BY <1>1, <1>2, <1>3, <1>4, <1>5, <1>6, <1>7 DEF SetType

(* The actions that write to the mailbox.                                   *)
LEMMA MailSteps ==
    ASSUME Next
    PROVE  \/ UNCHANGED mail
           \/ CreateRuntimeInput \/ EnqueueInput \/ Acked \/ AckDeferred
           \/ DeliverChildResult \/ DeliverRefused \/ CloseRuntimes
           \/ \E i \in Item : LeaseEnds(i) \/ RetryDue(i) \/ ClaimNext(i)
           \/ \E m \in Input : RelayEnqueue(m)
BY DEF Next, durable, runtime, Admit, MarkDelivered, ContextForTurn, PrepareTurn,
  EnsureParentRuntime, Submit, TurnFails, TurnCancelled, RecordReply, EndTurn, ClaimNothing,
  TakeJob, HandleInput, ProviderFails, AckLostLease, WorkerDies, RelayMark, DispatchChild,
  ChildWorks, ApplyWithoutMail, CloseSession, Crash

(* A new status in a row of the mailbox.                                    *)
LEMMA RowType ==
    ASSUME NEW box \in [Item -> MailRow], NEW i \in Item,
           NEW s \in {"none", "due", "leased", "waiting", "acked"}
    PROVE  /\ [box[i] EXCEPT !.st = s] \in MailRow
           /\ [box EXCEPT ![i].st = s] \in [Item -> MailRow]
<1>1. \A r \in MailRow : [r EXCEPT !.st = s] \in MailRow
  BY DEF MailRow
<1>2. box[i] \in MailRow
  OBVIOUS
<1>3. [box[i] EXCEPT !.st = s] \in MailRow
  BY <1>1, <1>2
<1> QED BY <1>3

(* The rows of the mailbox keep their type.                                 *)
LEMMA MailTypeStep ==
    ASSUME MailType, TurnType, WorkerType, Next
    PROVE  MailType'
<1> SUFFICES mail' \in [Item -> MailRow]
  BY DEF MailType
<1>0. mail \in [Item -> MailRow] /\ turn.gen \in 0..MaxGen /\ turn.msg \in 0..MaxTurn
      /\ worker.item \in Item /\ ChildResult \in Item /\ Item = 0..MaxTurn
  BY SessionAssumption DEF MailType, TurnType, WorkerType, Item, ChildResult, Input
<1>1. CASE CreateRuntimeInput
  BY <1>0, <1>1 DEF CreateRuntimeInput, MailRow
<1>2. CASE EnqueueInput
  BY <1>0, <1>2, EnqueuedType DEF EnqueueInput
<1>3. CASE Acked
  BY <1>0, <1>3 DEF Acked, MailRow
<1>4. CASE AckDeferred
  BY <1>0, <1>4 DEF AckDeferred, MailRow
<1>5. ASSUME NEW box \in [Item -> MailRow], NEW s \in {"leased", "acked"}
      PROVE  [Skipped(box) EXCEPT ![ChildResult].st = s] \in [Item -> MailRow]
  <2>1. PICK b \in [Item -> MailRow] : b = Skipped(box)
    BY SkippedType
  <2>2. [b EXCEPT ![ChildResult].st = s] \in [Item -> MailRow]
    BY <1>0 DEF MailRow
  <2> QED BY <2>1, <2>2
<1>6. PICK box \in [Item -> MailRow] : box = Enqueued(ChildResult, turn.gen)
  BY <1>0, EnqueuedType
<1>7. CASE DeliverChildResult
  <2>1. CASE node.delivered
    BY <1>0, <1>7, <2>1 DEF DeliverChildResult
  <2>2. CASE ~node.delivered
    <3>1. mail' = [Skipped(box) EXCEPT ![ChildResult].st = "acked"]
      BY <1>6, <1>7, <2>2 DEF DeliverChildResult
    <3> QED BY <1>5, <3>1
  <2> QED BY <2>1, <2>2
<1>8. CASE DeliverRefused
  <2>1. CASE mail' = [Skipped(Enqueued(ChildResult, turn.gen)) EXCEPT ![ChildResult].st = "leased"]
    <3>1. mail' = [Skipped(box) EXCEPT ![ChildResult].st = "leased"]
      BY <1>6, <2>1
    <3> QED BY <1>5, <3>1
  <2>2. Skipped(mail) \in [Item -> MailRow]
    BY <1>0, SkippedType
  <2> QED BY <1>0, <1>8, <2>1, <2>2 DEF DeliverRefused
<1>9. CASE CloseRuntimes
  <2>1. ASSUME NEW i \in Item
        PROVE  [mail[i] EXCEPT !.st = "waiting"] \in MailRow /\ [mail[i] EXCEPT !.st = "due"] \in MailRow
               /\ mail[i] \in MailRow
    BY <1>0, RowType
  <2>2. ASSUME NEW i \in Item
        PROVE  GivenBack[i] \in MailRow
    BY <2>1, Zenon DEF GivenBack
  <2>3. GivenBack \in [Item -> MailRow]
    BY <2>2 DEF GivenBack
  <2> QED BY <1>0, <1>9, <2>3 DEF CloseRuntimes
<1>10. ASSUME NEW i \in Item, LeaseEnds(i) \/ RetryDue(i) \/ ClaimNext(i)
       PROVE  mail' \in [Item -> MailRow]
  <2>1. mail' = [mail EXCEPT ![i].st = "due"] \/ mail' = [mail EXCEPT ![i].st = "leased"]
    BY <1>10 DEF LeaseEnds, RetryDue, ClaimNext
  <2>2. mail \in [Item -> MailRow]
    BY <1>0
  <2>3. [mail EXCEPT ![i].st = "due"] \in [Item -> MailRow]
    BY <2>2, RowType
  <2>4. [mail EXCEPT ![i].st = "leased"] \in [Item -> MailRow]
    BY <2>2, RowType
  <2> QED BY <2>1, <2>3, <2>4, Zenon
<1>11. ASSUME NEW m \in Input, RelayEnqueue(m)
       PROVE  mail' \in [Item -> MailRow]
  <2>1. m \in Item /\ mail[m].gen \in 0..MaxGen
    BY <1>0 DEF Item, MailRow
  <2> QED BY <1>0, <1>11, <2>1, EnqueuedType DEF RelayEnqueue
<1> QED BY <1>0, <1>1, <1>2, <1>3, <1>4, <1>7, <1>8, <1>9, <1>10, <1>11, MailSteps

(* The dialogue grows by one message at a time.                             *)
LEMMA LogTypeStep ==
    ASSUME LogType, TurnType, WorkerType, Numbered, KnownOnly, Next
    PROVE  LogType' /\ (UNCHANGED log \/ \E e \in Message : log' = Append(log, e))
<1>1. CASE CreateRuntimeInput
  <2>1. PICK n \in 0..MaxTurn : Known = 1..n /\ (turn.pc = "admitted" => n < MaxTurn)
    BY DEF Numbered
  <2>2. NewInput \in Input
    BY <1>1, <2>1, NextInput, SessionAssumption DEF CreateRuntimeInput, Input
  <2>3. [msg |-> NewInput, role |-> "user"] \in Message
    BY <2>2 DEF Message
  <2> QED BY <1>1, <2>3 DEF CreateRuntimeInput, LogType
<1>2. CASE HandleInput
  <2>1. [msg |-> worker.item, role |-> "assistant"] \in Message
    BY <1>2 DEF HandleInput, KnownOnly, Known, Message
  <2> QED BY <1>2, <2>1 DEF HandleInput, LogType
<1> QED BY <1>1, <1>2, LogSteps DEF LogType

(* The turn names an input and a generation in range.                       *)
LEMMA TurnTypeStep ==
    ASSUME TurnType, SetType, Numbered, WorkerType, Next
    PROVE  TurnType'
<1> DEFINE T == [pc: {"idle", "admitted", "persisted", "queued", "marked", "remembered",
                      "prepared", "ready", "wait", "answered", "children"},
                 msg: 0 .. MaxTurn, gen: 0 .. MaxGen, ok: BOOLEAN]
<1> SUFFICES turn' \in T
  BY DEF TurnType
<1>0. turn \in T
  BY DEF TurnType
<1>1. NoTurn \in T
  BY SessionAssumption DEF NoTurn
<1>2. CASE Admit
  <2>1. ParentGeneration \in 0..MaxGen
    BY <1>2, SessionAssumption DEF Admit, ParentGeneration, SetType
  <2>2. \A t \in T, g \in 0..MaxGen : [t EXCEPT !.pc = "admitted", !.gen = g] \in T
    OBVIOUS
  <2> HIDE DEF T
  <2> QED BY <1>1, <1>2, <2>1, <2>2 DEF Admit
<1>3. CASE CreateRuntimeInput
  <2>1. PICK n \in 0..MaxTurn : Known = 1..n /\ (turn.pc = "admitted" => n < MaxTurn)
    BY DEF Numbered
  <2>2. NewInput \in 0..MaxTurn
    BY <1>3, <2>1, NextInput, SessionAssumption DEF CreateRuntimeInput
  <2> QED BY <1>0, <1>3, <2>2 DEF CreateRuntimeInput
<1>4. CASE EnqueueInput \/ MarkDelivered \/ PrepareTurn \/ EnsureParentRuntime \/ Submit
           \/ TurnCancelled \/ RecordReply
  BY <1>0, <1>4 DEF EnqueueInput, MarkDelivered, PrepareTurn, EnsureParentRuntime, Submit,
    TurnCancelled, RecordReply
<1>5. CASE ContextForTurn
  BY <1>0, <1>1, <1>5 DEF ContextForTurn, LeaveTurn
<1>6. CASE Resolve
  BY <1>0, <1>6 DEF Resolve
<1>7. CASE CloseRuntimes
  BY <1>0, <1>7 DEF CloseRuntimes
<1> HIDE DEF T
<1> QED BY <1>0, <1>1, <1>2, <1>3, <1>4, <1>5, <1>6, <1>7, TurnSteps

-----------------------------------------------------------------------------
(* The memory window.                                                       *)

(* The anchor: a set of messages has a newest one.                           *)
LEMMA HasLargest ==
    ASSUME NEW L \in Nat, NEW S \in SUBSET (1..L), S # {}
    PROVE  Largest(S) \in S /\ \A k \in S : k <= Largest(S)
<1> DEFINE Above(n) == {k \in S : k > n}
<1> DEFINE T == {Above(n) : n \in S}
<1>1. IsFiniteSet(1..L)
  BY FS_Interval
<1>2. IsFiniteSet(S)
  BY <1>1, FS_Subset
<1>3. T \subseteq FiniteSubsetsOf(S) /\ T # {}
  <2>1. \A n \in S : Above(n) \in SUBSET S /\ IsFiniteSet(Above(n))
    BY <1>2, FS_Subset
  <2> QED BY <2>1 DEF FiniteSubsetsOf
<1>4. PICK X \in T : \A Y \in T : ~(<<Y, X>> \in StrictSubsetOrdering(S))
  <2> HIDE DEF T
  <2> QED BY <1>3, FS_StrictSubsetOrderingWellFounded, WFMin
<1>5. PICK n \in S : X = Above(n)
  OBVIOUS
<1>6. \A k \in S : k <= n
  <2> SUFFICES ASSUME NEW k \in S, k > n PROVE FALSE
    OBVIOUS
  <2>0. k \in Int /\ n \in Int /\ \A j \in S : j \in Int
    OBVIOUS
  <2>1. Above(k) \in T /\ Above(k) \subseteq X /\ k \in X /\ k \notin Above(k)
    <3>1. Above(k) \in T
      OBVIOUS
    <3>2. \A j \in S : j > k => j > n
      BY <2>0
    <3>3. Above(k) \subseteq X
      BY <1>5, <3>2
    <3>4. k \in X
      BY <1>5
    <3>5. ~(k > k)
      BY <2>0
    <3>6. k \notin Above(k)
      BY <3>5
    <3> HIDE DEF Above, T
    <3> QED BY <3>1, <3>3, <3>4, <3>6
  <2>2. <<Above(k), X>> \in StrictSubsetOrdering(S)
    <3>1. Above(k) \in SUBSET S /\ X \in SUBSET S /\ Above(k) # X
      BY <2>1
    <3> HIDE DEF Above, T
    <3> QED BY <3>1, <2>1 DEF StrictSubsetOrdering
  <2> QED BY <1>4, <2>1, <2>2
<1>7. \E m \in S : \A k \in S : k <= m
  BY <1>6
<1> QED BY <1>7 DEF Largest

(* append(): what is evicted is older than what stays, and the checkpoint    *)
(* that is written names the newest of it.                                   *)
AppendsTo(m, new, hot, out) ==
    /\ \A a \in out, b \in m.win \cup new : b < a => b \in out
    /\ mem' = [hot |-> hot, win |-> (m.win \cup new) \ out, sum |-> m.sum \cup out]
    /\ seen' = seen \cup m.win \cup new
    /\ \/ UNCHANGED ckpt
       \/ \E a \in out : /\ \A k \in out : k <= a
                         /\ ckpt' = [anchor |-> a, sum |-> m.sum \cup out]

(* append(), when the set of evicted messages is given a name.              *)
LEMMA Appended ==
    ASSUME MemType, Len(log) \in Nat,
           NEW m \in [hot: BOOLEAN, win: SUBSET (1 .. Len(log)), sum: SUBSET (1 .. Len(log))],
           NEW new \in SUBSET (1..Len(log)), NEW over \in BOOLEAN, NEW saved \in BOOLEAN,
           NEW hot \in BOOLEAN, Append1(m, new, over, saved, hot)
    PROVE  \E out \in SUBSET (m.win \cup new) : AppendsTo(m, new, hot, out)
<1> DEFINE win == m.win \cup new
<1>1. win \in SUBSET (1..Len(log))
  OBVIOUS
<1>2. PICK out : out = Evicted(win, over)
  OBVIOUS
<1>3. out \subseteq win /\ \A a \in out, b \in win : b < a => b \in out
  BY <1>1, <1>2, EvictedOlder
<1>4. /\ mem' = [hot |-> hot, win |-> win \ out, sum |-> m.sum \cup out]
      /\ seen' = seen \cup win
      /\ ckpt' = IF saved /\ out # {}
                 THEN [anchor |-> Largest(out), sum |-> m.sum \cup out] ELSE ckpt
  BY <1>2 DEF Append1, Anchor
<1>5. CASE saved /\ out # {}
  <2>1. Largest(out) \in out /\ \A k \in out : k <= Largest(out)
    <3>1. out \in SUBSET (1..Len(log))
      BY <1>1, <1>3
    <3> HIDE DEF win
    <3> QED BY <1>5, <3>1, HasLargest
  <2>2. \E a \in out : /\ \A k \in out : k <= a
                       /\ ckpt' = [anchor |-> a, sum |-> m.sum \cup out]
    BY <1>4, <1>5, <2>1
  <2> QED BY <1>3, <1>4, <2>2 DEF AppendsTo
<1>6. CASE ~(saved /\ out # {})
  BY <1>3, <1>4, <1>6 DEF AppendsTo
<1> QED BY <1>5, <1>6

(* A restored window consists of messages of the dialogue.                  *)
LEMMA RestoredType ==
    ASSUME MemType, Len(log) \in Nat
    PROVE  Restored(mem)
             \in [hot: BOOLEAN, win: SUBSET (1 .. Len(log)), sum: SUBSET (1 .. Len(log))]
<1>1. ckpt.anchor \in 0..Len(log) /\ ckpt.sum \in SUBSET (1..Len(log))
  BY DEF MemType
<1>2. (ckpt.anchor + 1 .. Len(log)) \in SUBSET (1..Len(log))
  BY <1>1
<1> QED BY <1>1, <1>2 DEF MemType, Restored

(* The dialogue only grows under the window.                                 *)
LEMMA MemTypeStep ==
    ASSUME MemType, LogType, Next,
           UNCHANGED log \/ \E e \in Message : log' = Append(log, e)
    PROVE  MemType'
<1>1. Len(log) \in Nat /\ Len(log') \in Nat /\ Len(log) <= Len(log')
  BY Grown DEF LogType
<1>2. 1..Len(log) \subseteq 1..Len(log') /\ 0..Len(log) \subseteq 0..Len(log')
  BY <1>1
<1>3. ASSUME NEW m \in [hot: BOOLEAN, win: SUBSET (1 .. Len(log)), sum: SUBSET (1 .. Len(log))],
             NEW new \in SUBSET (1..Len(log)), NEW over \in BOOLEAN, NEW saved \in BOOLEAN,
             NEW hot \in BOOLEAN, Append1(m, new, over, saved, hot), UNCHANGED log
      PROVE  MemType'
  <2>1. PICK out \in SUBSET (m.win \cup new) : AppendsTo(m, new, hot, out)
    BY <1>1, <1>3, Appended
  <2>2. m.win \in SUBSET (1..Len(log)) /\ m.sum \in SUBSET (1..Len(log))
        /\ out \in SUBSET (1..Len(log))
    OBVIOUS
  <2>3. (m.win \cup new) \ out \in SUBSET (1..Len(log)) /\ m.sum \cup out \in SUBSET (1..Len(log))
    BY <2>2
  <2>4. mem' \in [hot: BOOLEAN, win: SUBSET (1 .. Len(log)), sum: SUBSET (1 .. Len(log))]
    BY <2>1, <2>3 DEF AppendsTo
  <2>5. seen' \subseteq 1..Len(log)
    BY <2>1, <2>2 DEF AppendsTo, MemType
  <2>6. \A a \in out : a \in 0..Len(log)
    BY <2>2
  <2>7. ckpt' \in [anchor: 0 .. Len(log), sum: SUBSET (1 .. Len(log))]
    BY <2>1, <2>3, <2>6 DEF AppendsTo, MemType
  <2> QED BY <1>3, <2>4, <2>5, <2>7 DEF MemType
<1>4. CASE ContextForTurn
  <2>1. PICK m \in [hot: BOOLEAN, win: SUBSET (1 .. Len(log)), sum: SUBSET (1 .. Len(log))] :
          m = Restored(mem)
    BY <1>1, RestoredType
  <2>2. mem.hot \in BOOLEAN
    BY DEF MemType
  <2>3. PICK over \in BOOLEAN, saved \in BOOLEAN, hot \in BOOLEAN :
          Append1(m, Asked(turn.msg), over, saved, hot)
    BY <1>4, <2>1, <2>2 DEF ContextForTurn, Asked
  <2>4. PICK new \in SUBSET (1..Len(log)) : new = Asked(turn.msg)
    BY DEF Asked
  <2>5. Append1(m, new, over, saved, hot)
    BY <2>3, <2>4
  <2> QED BY <1>3, <1>4, <2>5 DEF ContextForTurn
<1>5. CASE RecordReply
  <2>1. CASE turn.ok /\ mem.hot
    <3>1. PICK m \in [hot: BOOLEAN, win: SUBSET (1 .. Len(log)), sum: SUBSET (1 .. Len(log))] :
            m = mem
      BY DEF MemType
    <3>2. PICK over \in BOOLEAN, saved \in BOOLEAN, hot \in BOOLEAN :
            Append1(m, Replies(turn.msg), over, saved, hot)
      BY <1>5, <2>1, <3>1 DEF RecordReply
    <3>3. PICK new \in SUBSET (1..Len(log)) : new = Replies(turn.msg)
      BY DEF Replies
    <3>4. Append1(m, new, over, saved, hot)
      BY <3>2, <3>3
    <3> QED BY <1>3, <1>5, <3>4 DEF RecordReply
  <2>2. CASE ~(turn.ok /\ mem.hot)
    BY <1>5, <2>2 DEF RecordReply, MemType
  <2> QED BY <2>1, <2>2
<1>6. CASE UNCHANGED <<mem, ckpt, seen>>
  BY <1>2, <1>6 DEF MemType
<1>7. CASE mem' = Cold /\ UNCHANGED <<ckpt, seen>>
  BY <1>2, <1>7 DEF MemType, Cold
<1> QED BY <1>4, <1>5, <1>6, <1>7, MemorySteps

-----------------------------------------------------------------------------
(* Inputs, replies and the mailbox.                                         *)

(* A new message is a reply to, or asked by, the input it names.            *)
LEMMA RepliesGrow ==
    ASSUME LogType, NEW e \in Message, log' = Append(log, e), NEW m
    PROVE  /\ Replies(m)' = IF e = [msg |-> m, role |-> "assistant"]
                            THEN Replies(m) \cup {Len(log) + 1} ELSE Replies(m)
           /\ Asked(m)' = IF e = [msg |-> m, role |-> "user"]
                         THEN Asked(m) \cup {Len(log) + 1} ELSE Asked(m)
<1>1. /\ Len(log) \in Nat /\ Len(log') = Len(log) + 1
      /\ log'[Len(log) + 1] = e
      /\ \A n \in 1..Len(log) : log'[n] = log[n]
  BY Grown DEF LogType
<1>2. PICK L \in Nat : L = Len(log)
  BY <1>1
<1>3. 1..Len(log') = 1..L \cup {L + 1} /\ L + 1 \notin 1..L
  BY <1>1, <1>2
<1>4. /\ Replies(m) = {n \in 1..L : log[n] = [msg |-> m, role |-> "assistant"]}
      /\ Asked(m) = {n \in 1..L : log[n] = [msg |-> m, role |-> "user"]}
  BY <1>2 DEF Replies, Asked
<1>5. /\ Replies(m)' = {n \in 1..L \cup {L + 1} : log'[n] = [msg |-> m, role |-> "assistant"]}
      /\ Asked(m)' = {n \in 1..L \cup {L + 1} : log'[n] = [msg |-> m, role |-> "user"]}
  BY <1>3 DEF Replies, Asked
<1>6. log'[L + 1] = e /\ \A n \in 1..L : log'[n] = log[n]
  BY <1>1, <1>2
<1> HIDE <1>1
<1>7. Replies(m)' = IF e = [msg |-> m, role |-> "assistant"]
                    THEN Replies(m) \cup {L + 1} ELSE Replies(m)
  BY <1>3, <1>4, <1>5, <1>6
<1>8. Asked(m)' = IF e = [msg |-> m, role |-> "user"] THEN Asked(m) \cup {L + 1} ELSE Asked(m)
  BY <1>3, <1>4, <1>5, <1>6
<1> QED BY <1>2, <1>7, <1>8

(* What the rest of the proof knows of the parts that are typed already.     *)
Typed == TypeOK /\ Numbered /\ KnownOnly

(* One step's effect on replies: the reply of the input that is handled.     *)
LEMMA RepliesOf ==
    ASSUME Typed, Next, NEW m
    PROVE  /\ \/ Replies(m)' = Replies(m)
              \/ /\ HandleInput /\ Replies(m) = {} /\ m = worker.item
                 /\ Replies(m)' = {Len(log) + 1}
           /\ \/ Asked(m)' = Asked(m)
              \/ /\ CreateRuntimeInput /\ m = NewInput
                 /\ Asked(m)' = Asked(m) \cup {Len(log) + 1}
           /\ m \in failed => m \in failed'
           /\ Done(m) => Done(m)'
<1>0. LogType /\ WorkerType /\ TurnType /\ KnownOnly /\ Numbered
  BY TypeParts DEF Typed
<1>1. CASE CreateRuntimeInput
  <2>1. PICK e \in Message : log' = Append(log, e)
    BY <1>0, <1>1, LogTypeStep DEF CreateRuntimeInput, LogType
  <2>2. e = [msg |-> NewInput, role |-> "user"]
    <3>1. log'[Len(log) + 1] = e
      BY <1>0, <2>1, Grown DEF LogType
    <3>2. PICK f : f = [msg |-> NewInput, role |-> "user"]
      OBVIOUS
    <3>3. log' = Append(log, f)
      BY <1>1, <3>2 DEF CreateRuntimeInput
    <3>4. log'[Len(log) + 1] = f
      BY <1>0, <3>3 DEF LogType
    <3> QED BY <3>1, <3>2, <3>4
  <2>3. Replies(m)' = Replies(m)
    BY <1>0, <2>1, <2>2, RepliesGrow
  <2>4. Asked(m)' = Asked(m) \/ (m = NewInput /\ Asked(m)' = Asked(m) \cup {Len(log) + 1})
    BY <1>0, <2>1, <2>2, RepliesGrow
  <2>5. UNCHANGED failed
    BY <1>1 DEF CreateRuntimeInput
  <2> QED BY <1>1, <2>3, <2>4, <2>5 DEF Done
<1>2. CASE HandleInput /\ Replies(worker.item) = {}
  <2>1. PICK e : e = [msg |-> worker.item, role |-> "assistant"]
    OBVIOUS
  <2>2. e \in Message /\ log' = Append(log, e)
    BY <1>0, <1>2, <2>1 DEF HandleInput, KnownOnly, Known, Message
  <2>3. Asked(m)' = Asked(m)
    BY <1>0, <2>1, <2>2, RepliesGrow
  <2>4. \/ Replies(m)' = Replies(m)
        \/ m = worker.item /\ Replies(m)' = Replies(m) \cup {Len(log) + 1}
    BY <1>0, <2>1, <2>2, RepliesGrow
  <2>5. UNCHANGED failed
    BY <1>2 DEF HandleInput
  <2> QED BY <1>2, <2>3, <2>4, <2>5 DEF Done
<1>3. CASE UNCHANGED log
  <2>1. Replies(m)' = Replies(m) /\ Asked(m)' = Asked(m)
    BY <1>3 DEF Replies, Asked
  <2>2. failed \subseteq failed'
    BY FailedSteps DEF ProviderFails
  <2> QED BY <2>1, <2>2 DEF Done
<1> QED BY <1>1, <1>2, <1>3, LogSteps DEF HandleInput

(* An input that has a reply gets no other.                                 *)
LEMMA RepliedOnceStep ==
    ASSUME Typed, RepliedOnce, Next
    PROVE  RepliedOnce'
<1> SUFFICES ASSUME NEW m \in Input PROVE \A a, b \in Replies(m)' : a = b
  BY DEF RepliedOnce
<1>1. Replies(m)' = Replies(m) \/ Replies(m)' = {Len(log) + 1}
  BY RepliesOf
<1> QED BY <1>1 DEF RepliedOnce

(* What a step does to the row of an input in the mailbox.                   *)
LEMMA MailOf ==
    ASSUME Typed, Next, NEW m \in Input
    PROVE  /\ mail'[m].st # "none" => \/ mail[m].st # "none"
                                      \/ EnqueueInput /\ m = turn.msg
                                      \/ input[m] = "pending"
           /\ \/ mail'[m].gen = mail[m].gen
              \/ CreateRuntimeInput /\ m = NewInput /\ mail'[m].gen = turn.gen
              \/ EnqueueInput /\ m = turn.msg /\ mail'[m].gen = turn.gen
           /\ mail'[m].st = "acked" =>
                \/ mail[m].st = "acked"
                \/ worker.pc = "ack" /\ m = worker.item
<1>0. mail \in [Item -> MailRow] /\ m \in Item /\ m # ChildResult
  BY TypeParts, SessionAssumption DEF Typed, MailType, Item, ChildResult, Input
<1> USE DEF MailRow
<1>1. CASE CreateRuntimeInput
  BY <1>0, <1>1 DEF CreateRuntimeInput
<1>2. CASE EnqueueInput
  BY <1>0, <1>2 DEF EnqueueInput, Enqueued
<1>3. CASE Acked \/ AckDeferred
  BY <1>0, <1>3 DEF Acked, AckDeferred
<1>4. ASSUME NEW box \in [Item -> MailRow], box[m] = mail[m], NEW s,
             mail' = [Skipped(box) EXCEPT ![ChildResult].st = s]
      PROVE  /\ mail'[m].gen = mail[m].gen
             /\ mail'[m].st \in {mail[m].st, "waiting"}
             /\ mail'[m].st # "none" => mail[m].st # "none"
  BY <1>0, <1>4 DEF Skipped
<1>5. Enqueued(ChildResult, turn.gen)[m] = mail[m]
  BY <1>0 DEF Enqueued
<1>6. PICK box : box = Enqueued(ChildResult, turn.gen)
  OBVIOUS
<1>7. box \in [Item -> MailRow] /\ box[m] = mail[m]
  BY <1>5, <1>6, EnqueuedType, TypeParts DEF Typed, MailType, TurnType, Item
<1>8. CASE DeliverChildResult
  <2>1. \/ UNCHANGED mail
        \/ mail' = [Skipped(box) EXCEPT ![ChildResult].st = "acked"]
    BY <1>6, <1>8 DEF DeliverChildResult
  <2> QED BY <1>4, <1>7, <2>1
<1>9. CASE DeliverRefused
  <2>1. \/ UNCHANGED mail
        \/ mail' = [Skipped(box) EXCEPT ![ChildResult].st = "leased"]
        \/ mail' = Skipped(mail)
    BY <1>6, <1>9 DEF DeliverRefused
  <2>2. CASE mail' = Skipped(mail)
    BY <1>0, <2>2 DEF Skipped
  <2> QED BY <1>4, <1>7, <2>1, <2>2
<1>10. CASE CloseRuntimes
  BY <1>0, <1>10 DEF CloseRuntimes, GivenBack
<1>11. ASSUME NEW i \in Item, LeaseEnds(i) \/ RetryDue(i) \/ ClaimNext(i)
       PROVE  mail'[m].gen = mail[m].gen
              /\ mail'[m].st \in {mail[m].st, "due", "leased"}
              /\ (mail'[m].st # "none" => mail[m].st # "none")
  BY <1>0, <1>11 DEF LeaseEnds, RetryDue, ClaimNext, Claimable, FirstDue
<1>12. ASSUME NEW k \in Input, RelayEnqueue(k)
       PROVE  mail'[m] = mail[m]
              \/ (k = m /\ mail'[m].st = "due" /\ mail'[m].gen = mail[m].gen)
  BY <1>0, <1>12 DEF RelayEnqueue, Enqueued
<1>13. ASSUME NEW k \in Input, RelayEnqueue(k)
       PROVE  input[k] = "pending"
  BY <1>13 DEF RelayEnqueue
<1> QED BY <1>1, <1>2, <1>3, <1>8, <1>9, <1>10, <1>11, <1>12, <1>13, MailSteps

(* How a turn moves on.                                                      *)
Moved(from, to) ==
    /\ turn.pc = from /\ turn'.pc = to
    /\ turn'.msg = turn.msg /\ turn'.gen = turn.gen

(* Every step leaves the turn alone, ends it, or moves it one stage on.      *)
LEMMA TurnOf ==
    ASSUME TurnType, Next
    PROVE  \/ UNCHANGED turn /\ ~CreateRuntimeInput /\ ~ContextForTurn
              /\ ~RecordReply /\ ~EnsureParentRuntime /\ ~Submit /\ ~EnqueueInput
           \/ turn'.pc = "idle" /\ turn'.ok = FALSE
           \/ Admit /\ turn'.pc = "admitted" /\ turn'.gen = ParentGeneration /\ turn'.ok = FALSE
           \/ CreateRuntimeInput /\ turn.pc = "admitted" /\ turn'.pc = "persisted"
              /\ turn'.msg = NewInput /\ turn'.gen = turn.gen /\ turn'.ok = turn.ok
           \/ turn'.ok = turn.ok /\
              \/ EnqueueInput /\ Moved("persisted", "queued")
              \/ MarkDelivered /\ Moved("queued", "marked")
              \/ ContextForTurn /\ Moved("marked", "remembered")
              \/ PrepareTurn /\ Moved("remembered", "prepared")
              \/ EnsureParentRuntime /\ Moved("prepared", "ready")
              \/ Submit /\ Moved("ready", "wait")
              \/ RecordReply /\ Moved("answered", "children")
           \/ /\ Moved("wait", "answered") /\ UNCHANGED <<log, mem, ckpt>>
              /\ \/ turn'.ok \in {FALSE, turn.ok}
                 \/ worker.pc = "ack" /\ worker.item = turn.msg
                    /\ turn'.ok = (worker.how = "reply")
<1> USE DEF TurnType, Moved
<1>1. CASE Admit
  <2>1. PICK g : g = ParentGeneration
    OBVIOUS
  <2>2. turn' = [pc |-> "admitted", msg |-> 0, gen |-> g, ok |-> FALSE]
    BY <1>1, <2>1 DEF Admit, NoTurn
  <2> QED BY <1>1, <2>1, <2>2
<1>2. CASE CreateRuntimeInput
  BY <1>2 DEF CreateRuntimeInput
<1>3. CASE turn' = NoTurn
  BY <1>3 DEF NoTurn
<1>4. CASE EnqueueInput
  BY <1>4 DEF EnqueueInput
<1>5. CASE MarkDelivered
  BY <1>5 DEF MarkDelivered
<1>6. CASE ContextForTurn
  <2>1. turn.pc = "marked" /\ (turn' = [turn EXCEPT !.pc = "remembered"] \/ turn' = NoTurn)
    BY <1>6 DEF ContextForTurn, LeaveTurn
  <2> QED BY <1>3, <1>6, <2>1
<1>7. CASE PrepareTurn
  BY <1>7 DEF PrepareTurn
<1>8. CASE EnsureParentRuntime
  BY <1>8 DEF EnsureParentRuntime
<1>9. CASE Submit
  BY <1>9 DEF Submit
<1>10. CASE RecordReply
  BY <1>10 DEF RecordReply
<1>11. CASE TurnCancelled
  BY <1>11 DEF TurnCancelled, durable
<1>12. CASE CloseRuntimes /\ turn' # turn
  BY <1>12 DEF CloseRuntimes
<1>13. CASE Resolve /\ turn' # turn /\ worker.pc = "ack" /\ UNCHANGED <<log, mem, ckpt>>
  BY <1>13 DEF Resolve
<1> HIDE DEF TurnType, Moved
<1>14. CASE UNCHANGED turn
  <2>1. ~CreateRuntimeInput /\ ~RecordReply /\ ~EnsureParentRuntime /\ ~Submit /\ ~EnqueueInput
    BY <1>14 DEF TurnType, CreateRuntimeInput, RecordReply, EnsureParentRuntime, Submit,
      EnqueueInput
  <2>2. ~ContextForTurn
    <3> SUFFICES ASSUME ContextForTurn PROVE FALSE
      OBVIOUS
    <3>1. turn.pc = "marked" /\ (turn' = [turn EXCEPT !.pc = "remembered"] \/ turn' = NoTurn)
      BY DEF ContextForTurn, LeaveTurn
    <3> QED BY <1>14, <3>1 DEF TurnType, NoTurn
  <2> QED BY <1>14, <2>1, <2>2
<1> QED BY <1>1, <1>2, <1>3, <1>4, <1>5, <1>6, <1>7, <1>8, <1>9, <1>10, <1>11, <1>12, <1>13, <1>14,
    TurnSteps

-----------------------------------------------------------------------------
(* What the session knows.                                                  *)

(* Inputs become known one by one and stay known.                            *)
LEMMA KnownOf ==
    ASSUME Typed, Next
    PROVE  \/ Known' = Known
           \/ /\ CreateRuntimeInput /\ NewInput \in Input /\ NewInput \notin Known
              /\ Known' = Known \cup {NewInput}
              /\ \A n \in 0..MaxTurn : Known = 1..n => NewInput = n + 1
<1>0. input \in [Input -> {"none", "pending", "delivered"}]
  BY TypeParts DEF Typed, SetType
<1>1. CASE CreateRuntimeInput
  <2>1. PICK n \in 0..MaxTurn : Known = 1..n /\ (turn.pc = "admitted" => n < MaxTurn)
    BY DEF Typed, Numbered
  <2>2. NewInput = n + 1 /\ \A k \in 0..MaxTurn : Known = 1..k => NewInput = k + 1
    BY <2>1, NextInput
  <2>3. NewInput \in Input /\ NewInput \notin Known
    BY <1>1, <2>1, <2>2, SessionAssumption DEF CreateRuntimeInput, Input
  <2>4. Known' = Known \cup {NewInput}
    BY <1>0, <1>1, <2>3 DEF CreateRuntimeInput, Known
  <2> QED BY <1>1, <2>2, <2>3, <2>4
<1>2. CASE MarkDelivered
  BY <1>0, <1>2 DEF MarkDelivered, Known, Typed, KnownOnly
<1>3. ASSUME NEW m \in Input, RelayMark(m)
      PROVE  Known' = Known
  BY <1>0, <1>3 DEF RelayMark, Known
<1>4. CASE UNCHANGED input
  BY <1>4 DEF Known
<1> QED BY <1>1, <1>2, <1>3, <1>4, InputSteps

(* The numbering goes on as inputs are admitted one at a time.              *)
LEMMA NumberedStep ==
    ASSUME Typed, Next
    PROVE  Numbered'
<1>1. PICK n \in 0..MaxTurn : Known = 1..n /\ (turn.pc = "admitted" => n < MaxTurn)
  BY DEF Typed, Numbered
<1>2. TurnType
  BY TypeParts DEF Typed
<1>3. CASE Known' = Known
  <2>1. turn'.pc = "admitted" => n < MaxTurn
    <3>1. CASE Admit
      BY <1>1, <3>1, NextInput, SessionAssumption DEF Admit, Input
    <3>2. turn'.pc = "admitted" => turn.pc = "admitted" \/ Admit
      BY <1>2, TurnOf DEF Moved
    <3> QED BY <1>1, <3>1, <3>2
  <2> QED BY <1>1, <1>3, <2>1 DEF Numbered
<1>4. CASE CreateRuntimeInput /\ NewInput = n + 1 /\ Known' = Known \cup {NewInput}
  <2>1. n + 1 \in 0..MaxTurn /\ 1..(n + 1) = (1..n) \cup {n + 1}
    BY <1>1, <1>4, SessionAssumption DEF CreateRuntimeInput
  <2>2. turn'.pc = "persisted"
    BY <1>2, <1>4 DEF CreateRuntimeInput, TurnType
  <2> QED BY <1>1, <1>4, <2>1, <2>2 DEF Numbered
<1> QED BY <1>1, <1>3, <1>4, KnownOf

(* Nothing but known input enters the dialogue, the jobs and the mailbox.   *)
LEMMA KnownOnlyStep ==
    ASSUME Typed, WorkerIsRight, Next
    PROVE  KnownOnly'
<1>0. /\ LogType /\ WorkerType /\ TurnType /\ MailType /\ SetType
      /\ \A n \in 1..Len(log) : log[n].msg \in Known
      /\ failed \subseteq Known /\ jobs \subseteq Known
      /\ \A m \in Input : mail[m].st # "none" => m \in Known
      /\ worker.pc \in {"job", "handle"} => worker.item \in Known
      /\ turn.pc \notin {"idle", "admitted"} => turn.msg \in Known
  BY TypeParts DEF Typed, KnownOnly
<1>1. Known \subseteq Known' /\ (CreateRuntimeInput => NewInput \in Known' /\ NewInput \in Input)
  <2>1. CASE CreateRuntimeInput
    <3>1. NewInput \in Input
      <4>1. PICK n \in 0..MaxTurn : Known = 1..n /\ (turn.pc = "admitted" => n < MaxTurn)
        BY DEF Typed, Numbered
      <4> QED BY <2>1, <4>1, NextInput, SessionAssumption DEF CreateRuntimeInput, Input
    <3>2. NewInput \in Known'
      BY <1>0, <2>1, <3>1 DEF CreateRuntimeInput, Known, SetType
    <3> QED BY <3>1, <3>2, KnownOf
  <2> QED BY <2>1, KnownOf
<1>2. \A n \in 1..Len(log') : log'[n].msg \in Known'
  <2>1. CASE UNCHANGED log
    BY <1>0, <1>1, <2>1
  <2>2. ASSUME NEW e \in Message, log' = Append(log, e), e.msg \in Known'
        PROVE  \A n \in 1..Len(log') : log'[n].msg \in Known'
    BY <1>0, <1>1, <2>2, Grown DEF LogType
  <2>3. CASE CreateRuntimeInput
    <3>1. [msg |-> NewInput, role |-> "user"] \in Message
      BY <1>1, <2>3 DEF Message
    <3> QED BY <1>1, <2>2, <2>3, <3>1 DEF CreateRuntimeInput
  <2>4. CASE HandleInput
    <3>1. [msg |-> worker.item, role |-> "assistant"] \in Message /\ worker.item \in Known'
      BY <1>0, <1>1, <2>4 DEF HandleInput, Message, Known
    <3> QED BY <2>1, <2>2, <2>4, <3>1 DEF HandleInput
  <2> QED BY <2>1, <2>3, <2>4, LogSteps
<1>3. failed' \subseteq Known'
  BY <1>0, <1>1, FailedSteps DEF ProviderFails
<1>4. jobs' \subseteq Known'
  <2>1. CASE Submit
    BY <1>0, <1>1, <2>1 DEF Submit
  <2>2. CASE AckDeferred
    <3>1. worker.how \in {"reply", "failed"} => worker.item \in Known
      BY <1>0 DEF WorkerIsRight, Replies
    <3> QED BY <1>0, <1>1, <2>2, <3>1 DEF AckDeferred
  <2> QED BY <1>0, <1>1, <2>1, <2>2, JobSteps
<1>5. \A m \in Input : mail'[m].st # "none" => m \in Known'
  <2> SUFFICES ASSUME NEW m \in Input, mail'[m].st # "none" PROVE m \in Known'
    OBVIOUS
  <2>1. \/ mail[m].st # "none"
        \/ EnqueueInput /\ m = turn.msg
        \/ input[m] = "pending"
    BY MailOf
  <2> QED BY <1>0, <1>1, <2>1 DEF EnqueueInput, Known
<1>6. worker'.pc \in {"job", "handle"} => worker'.item \in Known'
  <2>1. ASSUME NEW i \in Item, ClaimNext(i)
        PROVE  worker'.pc \in {"job", "handle"} => worker'.item \in Known'
    <3>1. mail[i].st = "due"
      BY <2>1 DEF ClaimNext, Claimable, FirstDue
    <3>2. i # ChildResult => i \in Known
      BY <1>0, <3>1 DEF Item
    <3> QED BY <1>0, <1>1, <2>1, <3>2 DEF ClaimNext, WorkerType
  <2>2. CASE TakeJob
    BY <1>0, <1>1, <2>2 DEF TakeJob, WorkerType
  <2>3. CASE UNCHANGED worker \/ worker' = [worker EXCEPT !.recovery = FALSE]
    BY <1>0, <1>1, <2>3 DEF WorkerType
  <2>4. CASE \/ worker' = NoWorker \/ worker' = [NoWorker EXCEPT !.pc = "claim"] \/ NextClaim
             \/ worker' = [worker EXCEPT !.pc = "dead"] \/ HandleInput \/ ProviderFails
    <3>1. worker'.pc \notin {"job", "handle"}
      <4>1. CASE worker' = NoWorker
        BY <4>1 DEF NoWorker
      <4>2. CASE worker' = [NoWorker EXCEPT !.pc = "claim"]
        BY <4>2 DEF NoWorker
      <4>3. CASE NextClaim \/ worker' = [worker EXCEPT !.pc = "dead"] \/ HandleInput \/ ProviderFails
        BY <1>0, <4>3 DEF NextClaim, HandleInput, ProviderFails, WorkerType
      <4> QED BY <2>4, <4>1, <4>2, <4>3
    <3> QED BY <3>1
  <2> QED BY <2>1, <2>2, <2>3, <2>4, WorkerSteps
<1>7. turn'.pc \notin {"idle", "admitted"} => turn'.msg \in Known'
  BY <1>0, <1>1, TurnOf DEF Moved
<1> QED BY <1>2, <1>3, <1>4, <1>5, <1>6, <1>7 DEF KnownOnly

-----------------------------------------------------------------------------
(* Who answers what.                                                        *)

(* How the worker moves on.                                                  *)
LEMMA WorkerOf ==
    ASSUME WorkerType, Next
    PROVE  \/ UNCHANGED worker
           \/ worker'.pc = "off" /\ worker'.how = "none"
           \/ worker'.pc = "claim" /\ worker'.how = "none"
           \/ worker'.pc \in {worker.pc, "dead"} /\ worker'.item = worker.item
              /\ worker'.how = worker.how
           \/ TakeJob /\ worker'.pc = "handle" /\ worker'.item = worker.item
              /\ worker'.how = worker.how
           \/ HandleInput /\ worker'.pc = "ack" /\ worker'.item = worker.item
              /\ worker'.how = "reply"
           \/ ProviderFails /\ worker'.pc = "ack" /\ worker'.item = worker.item
              /\ worker'.how = "failed"
           \/ \E i \in Item : ClaimNext(i) /\ worker'.item = i
<1> USE DEF WorkerType
<1>1. CASE worker' = NoWorker
  BY <1>1 DEF NoWorker
<1>2. CASE worker' = [NoWorker EXCEPT !.pc = "claim"]
  BY <1>2 DEF NoWorker
<1>3. CASE NextClaim
  BY <1>3 DEF NextClaim
<1>4. CASE worker' = [worker EXCEPT !.recovery = FALSE] \/ worker' = [worker EXCEPT !.pc = "dead"]
  BY <1>4
<1>5. CASE TakeJob
  BY <1>5 DEF TakeJob
<1>6. CASE HandleInput
  BY <1>6 DEF HandleInput
<1>7. CASE ProviderFails
  BY <1>7 DEF ProviderFails
<1>8. ASSUME NEW i \in Item, ClaimNext(i)
      PROVE  worker'.item = i
  BY <1>8 DEF ClaimNext
<1> HIDE DEF WorkerType
<1> QED BY <1>1, <1>2, <1>3, <1>4, <1>5, <1>6, <1>7, <1>8, WorkerSteps

(* A result is applied to the node once, and with its receipt.              *)
LEMMA NodeIsRightStep ==
    ASSUME Typed, NodeIsRight, Next
    PROVE  NodeIsRight'
<1>0. NodeType
  BY TypeParts DEF Typed
<1> USE DEF NodeType, NodeIsRight
<1>1. ASSUME NEW ok \in BOOLEAN
      PROVE  /\ Applied(ok).receipt /\ Applied(ok).again = node.again
             /\ Applied(ok).delivered = node.delivered
             /\ ~node.again => Applied(ok).status # "mapping"
             /\ Applied(ok) \in [status: {"pending", "mapping", "completed", "failed"},
                   receipt: BOOLEAN, delivered: BOOLEAN, mailed: BOOLEAN, again: BOOLEAN]
  BY <1>0, <1>1 DEF Applied
<1>2. ASSUME NEW i \in Item, ClaimNext(i)
      PROVE  NodeIsRight'
  <2>1. UNCHANGED child /\ (UNCHANGED node \/ node' = Applied(node.mailed))
    BY <1>2 DEF ClaimNext
  <2>2. node.mailed \in BOOLEAN
    BY <1>0
  <2> QED BY <1>0, <1>1, <2>1, <2>2
<1>3. CASE DispatchChild
  <2>1. /\ node'.status = "mapping" /\ node'.receipt = node.receipt
        /\ node'.delivered = node.delivered /\ (node.receipt => node'.again)
        /\ child'.pc = "wait"
    BY <1>0, <1>3 DEF DispatchChild
  <2> QED BY <2>1
<1>4. child.ok \in BOOLEAN /\ Applied(child.ok).receipt
  BY <1>0, <1>1
<1>5. PICK a \in [status: {"pending", "mapping", "completed", "failed"},
                  receipt: BOOLEAN, delivered: BOOLEAN, mailed: BOOLEAN, again: BOOLEAN] :
        /\ a = Applied(child.ok)
        /\ a.receipt /\ a.delivered = node.delivered /\ (~a.again => a.status # "mapping")
  BY <1>1, <1>4
<1>6. CASE DeliverChildResult
  BY <1>0, <1>5, <1>6 DEF DeliverChildResult
<1>7. CASE DeliverRefused
  BY <1>0, <1>5, <1>7 DEF DeliverRefused
<1>8. CASE ApplyWithoutMail
  BY <1>0, <1>5, <1>8 DEF ApplyWithoutMail
<1>9. ASSUME NEW ok \in BOOLEAN, ChildWorks(ok)
      PROVE  NodeIsRight'
  BY <1>0, <1>9 DEF ChildWorks, durable
<1>10. CASE UNCHANGED <<node, child>>
  BY <1>10
<1>11. CASE UNCHANGED node /\ child' = NoChild
  BY <1>11 DEF NoChild
<1> HIDE DEF NodeType, NodeIsRight
<1> QED BY <1>2, <1>3, <1>6, <1>7, <1>8, <1>9, <1>10, <1>11, NodeSteps

(* The worker acknowledges only what it settled.                            *)
LEMMA WorkerIsRightStep ==
    ASSUME Typed, WorkerIsRight, Next
    PROVE  WorkerIsRight'
<1>0. /\ WorkerType /\ Known \subseteq Input
      /\ worker.pc \in {"job", "handle"} => worker.item \in Known
  BY TypeParts DEF Typed, KnownOnly, Known
<1>1. /\ worker.pc \in {"claim", "job", "handle"} => worker.how = "none"
      /\ worker.pc = "ack" => worker.item = ChildResult \/ Done(worker.item)
      /\ worker.how = "reply" => worker.item \in Input /\ Replies(worker.item) # {}
      /\ worker.how = "failed" => worker.item \in failed
      /\ \A m \in settled \cap Input : Done(m)
  BY DEF WorkerIsRight
<1>2. \A m : /\ Done(m) => Done(m)'
             /\ Replies(m) # {} => Replies(m)' # {}
             /\ m \in failed => m \in failed'
  BY RepliesOf
<1>5. ASSUME NEW w, worker'.item = w
      PROVE  Replies(worker.item)' = Replies(w)' /\ Done(worker.item)' = Done(w)'
  BY <1>5 DEF Replies, Done
<1>3. \A m \in settled' \cap Input : Done(m)'
  <2>1. CASE AckLostLease
    BY <1>1, <1>2, <2>1, SessionAssumption DEF AckLostLease, Input, ChildResult
  <2> QED BY <1>1, <1>2, <2>1, SettledSteps
<1>4. /\ worker'.pc \in {"claim", "job", "handle"} => worker'.how = "none"
      /\ worker'.how = "reply" => worker'.item \in Input /\ Replies(worker.item)' # {}
      /\ worker'.how = "failed" => worker'.item \in failed'
      /\ worker'.pc = "ack" => worker'.item = ChildResult \/ Done(worker.item)'
  <2>1. CASE HandleInput
    <3>1. UNCHANGED failed /\ worker'.pc = "ack" /\ worker'.item = worker.item
          /\ worker'.how = "reply" /\ worker.item \in Input
      BY <1>0, <2>1 DEF HandleInput, WorkerType
    <3>2. PICK w : w = worker.item
      OBVIOUS
    <3>3. Replies(w)' # {}
      <4>1. log' = (IF Replies(w) # {} THEN log
                    ELSE Append(log, [msg |-> w, role |-> "assistant"]))
        BY <2>1, <3>2 DEF HandleInput
      <4>2. CASE Replies(w) # {}
        BY <1>2, <4>2
      <4>3. CASE Replies(w) = {}
        <5>1. [msg |-> w, role |-> "assistant"] \in Message
          BY <3>1, <3>2 DEF Message
        <5>2. LogType
          BY TypeParts DEF Typed
        <5>3. PICK e \in Message : e = [msg |-> w, role |-> "assistant"]
          BY <5>1
        <5>4. log' = Append(log, e)
          BY <4>1, <4>3, <5>3
        <5>5. Replies(w)' = Replies(w) \cup {Len(log) + 1}
          BY <5>2, <5>3, <5>4, RepliesGrow
        <5> QED BY <5>5
      <4> QED BY <4>2, <4>3
    <3>4. Replies(worker.item)' # {}
      BY <1>5, <3>1, <3>2, <3>3
    <3> QED BY <3>1, <3>4 DEF Done
  <2>2. CASE ProviderFails
    <3>1. worker'.pc = "ack" /\ worker'.how = "failed" /\ worker'.item \in failed'
      BY <1>0, <2>2 DEF ProviderFails, WorkerType
    <3> QED BY <3>1 DEF Done
  <2>3. ASSUME NEW i \in Item, ClaimNext(i)
        PROVE  /\ worker'.item = i
               /\ worker'.how \in {"none", "settled", "child"}
               /\ \/ worker'.pc \in {"job", "handle"} /\ worker'.how = "none"
                  \/ worker'.pc = "ack" /\ (i \in settled \/ i = ChildResult)
    <3>1. worker.pc = "claim" /\ worker.how = "none"
      BY <1>1, <2>3 DEF ClaimNext
    <3>2. CASE i \in settled /\ worker' = [worker EXCEPT !.pc = "ack", !.item = i, !.how = "settled"]
      BY <1>0, <3>2 DEF WorkerType
    <3>3. CASE i = ChildResult /\ worker' = [worker EXCEPT !.pc = "ack", !.item = i, !.how = "child"]
      BY <1>0, <3>3 DEF WorkerType
    <3>4. CASE worker' = [worker EXCEPT !.pc = IF Own(i) THEN "job" ELSE "handle", !.item = i]
      BY <1>0, <3>1, <3>4 DEF WorkerType
    <3> QED BY <2>3, <3>2, <3>3, <3>4 DEF ClaimNext
  <2>4. ASSUME NEW i \in Item, ClaimNext(i)
        PROVE  worker'.pc = "ack" => worker'.item = ChildResult \/ Done(worker.item)'
    <3>1. i \in settled => i = ChildResult \/ Done(i)'
      BY <1>1, <1>2 DEF Item
    <3>2. worker'.item = i /\ (worker'.pc = "ack" => i = ChildResult \/ Done(i)')
      BY <2>3, <2>4, <3>1
    <3> QED BY <1>5, <3>2
  <2>5. CASE /\ worker'.how = "none" /\ worker'.pc \in {"off", "claim"}
    BY <2>5
  <2>6. CASE /\ worker'.item = worker.item /\ worker'.how = worker.how
             /\ worker'.pc \in {worker.pc, "dead"}
    <3>1. PICK w : w = worker.item
      OBVIOUS
    <3>2. Replies(worker.item)' = Replies(w)' /\ Done(worker.item)' = Done(w)'
      BY <1>5, <2>6, <3>1
    <3>3. /\ worker.pc = "ack" => w = ChildResult \/ Done(w)'
          /\ worker.how = "reply" => w \in Input /\ Replies(w)' # {}
          /\ worker.how = "failed" => w \in failed'
      BY <1>1, <1>2, <3>1
    <3> QED BY <1>1, <2>6, <3>1, <3>2, <3>3
  <2>7. CASE TakeJob
    BY <1>0, <1>1, <2>7 DEF TakeJob, WorkerType
  <2> QED BY <1>0, <2>1, <2>2, <2>3, <2>4, <2>5, <2>6, <2>7, WorkerOf
<1> QED BY <1>3, <1>4 DEF WorkerIsRight

(* Input leaves the mailbox settled, a turn succeeds with its reply.        *)
LEMMA AnswersStep ==
    ASSUME Typed, WorkerIsRight, Answers, Next
    PROVE  Answers'
<1>0. TurnType /\ WorkerType
  BY TypeParts DEF Typed
<1>1. \A m : /\ Done(m) => Done(m)'
             /\ Replies(m) # {} => Replies(m)' # {}
  BY RepliesOf
<1>2. ASSUME NEW m \in Input, mail'[m].st = "acked"
      PROVE  Done(m)'
  <2>1. mail[m].st = "acked" \/ (worker.pc = "ack" /\ m = worker.item)
    BY <1>2, MailOf
  <2>2. Done(m)
    BY <2>1, SessionAssumption DEF Answers, WorkerIsRight, Input, ChildResult
  <2> QED BY <1>1, <2>2
<1>3. ASSUME turn'.ok
      PROVE  turn'.pc \in {"answered", "children"} /\ Replies(turn.msg)' # {}
  <2>1. turn.ok => turn.pc \in {"answered", "children"} /\ Replies(turn.msg) # {}
    BY DEF Answers
  <2>2. worker.how = "reply" => Replies(worker.item) # {}
    BY DEF WorkerIsRight
  <2>3. /\ turn'.pc \in {"answered", "children"} /\ turn'.msg = turn.msg
        /\ turn.ok \/ (worker.item = turn.msg /\ worker.how = "reply")
    BY <1>0, <1>3, <2>1, TurnOf DEF Moved, TurnType
  <2>4. PICK t : t = turn.msg
    OBVIOUS
  <2>5. Replies(t) # {}
    BY <2>1, <2>2, <2>3, <2>4
  <2>6. Replies(t)' # {}
    BY <1>1, <2>5
  <2>7. Replies(turn.msg)' = Replies(t)'
    BY <2>3, <2>4 DEF Replies
  <2> QED BY <2>3, <2>6, <2>7
<1> QED BY <1>2, <1>3 DEF Answers

(* The runtime a turn was admitted for is not replaced before its job.       *)
LEMMA RuntimeKept ==
    ASSUME Typed, Unserved, Next
    PROVE  turn'.pc \in BeforeJob \cup {"admitted"} => handle' \in {0, turn'.gen}
<1> USE DEF BeforeJob
<1>0. TurnType /\ SetType
  BY TypeParts DEF Typed
<1>1. turn.pc \in BeforeJob \cup {"admitted"} => handle \in {0, turn.gen}
  BY DEF Unserved
<1>2. CASE Admit
  <2>1. handle' = handle
    BY <1>2 DEF Admit, runtime
  <2>2. turn'.gen = ParentGeneration
    BY <1>0, <1>2, TurnOf DEF Admit, Moved, CreateRuntimeInput, EnqueueInput, MarkDelivered,
      ContextForTurn, PrepareTurn, EnsureParentRuntime, Submit, RecordReply
  <2> QED BY <2>1, <2>2 DEF ParentGeneration
<1>3. CASE EnsureParentRuntime
  <2>1. turn.pc = "prepared" /\ turn'.gen = turn.gen
    BY <1>0, <1>3 DEF EnsureParentRuntime, TurnType
  <2>2. handle' \in {handle, turn.gen}
    BY <1>3 DEF EnsureParentRuntime, runtime
  <2> QED BY <1>1, <2>1, <2>2
<1>4. CASE ~Admit /\ ~EnsureParentRuntime
  <2>1. handle' \in {0, handle}
    BY <1>4, HandleSteps
  <2>2. turn'.pc \in BeforeJob \cup {"admitted"} =>
          turn.pc \in BeforeJob \cup {"admitted"} /\ turn'.gen = turn.gen
    BY <1>0, <1>4, TurnOf DEF Moved
  <2> QED BY <1>1, <2>1, <2>2
<1> QED BY <1>2, <1>3, <1>4

(* Nobody answers the input of a turn before its job is handed over.        *)
LEMMA UnservedStep ==
    ASSUME Typed, WorkerIsRight, Unserved, Next
    PROVE  Unserved'
<1> USE DEF BeforeJob
<1>0. /\ TurnType /\ SetType /\ WorkerType /\ MailType /\ KnownOnly
      /\ failed \subseteq Known /\ jobs \subseteq Known
      /\ worker.pc \in {"job", "handle"} => worker.item \in Known
      /\ turn.pc \notin {"idle", "admitted"} => turn.msg \in Known
  BY TypeParts DEF Typed, KnownOnly
<1>1. turn'.pc \in BeforeJob \cup {"admitted"} => handle' \in {0, turn'.gen}
  BY RuntimeKept
<1>2. ASSUME turn'.pc \in BeforeJob
      PROVE  /\ mail'[turn'.msg].gen = turn'.gen
             /\ turn'.msg \notin jobs' \cup failed' /\ Replies(turn.msg)' = {}
             /\ ~(worker'.pc = "handle" /\ worker'.item = turn'.msg)
  <2>1. CASE CreateRuntimeInput
    <3>1. PICK m : m = NewInput
      OBVIOUS
    <3>2. turn'.msg = m /\ turn'.gen = turn.gen /\ UNCHANGED <<jobs, failed, worker>>
      BY <1>0, <2>1, <3>1 DEF CreateRuntimeInput, TurnType, runtime
    <3>3. m \in Input /\ m \notin Known
      <4>1. PICK n \in 0..MaxTurn : Known = 1..n /\ (turn.pc = "admitted" => n < MaxTurn)
        BY DEF Typed, Numbered
      <4> QED BY <2>1, <3>1, <4>1, NextInput, SessionAssumption DEF CreateRuntimeInput, Input
    <3>4. mail'[m].gen = turn.gen
      <4>1. m \in Item
        BY <3>3 DEF Item
      <4> QED BY <1>0, <2>1, <3>1, <4>1 DEF CreateRuntimeInput, MailType, MailRow
    <3>5. Replies(m)' = {}
      <4>1. Replies(m) = {}
        BY <1>0, <3>3 DEF KnownOnly, Replies
      <4>2. Replies(m)' = Replies(m) \/ HandleInput
        BY RepliesOf
      <4>3. ~HandleInput
        <5>1. turn' # turn
          BY <1>0, <2>1 DEF CreateRuntimeInput, TurnType
        <5> QED BY <5>1 DEF HandleInput
      <4> QED BY <4>1, <4>2, <4>3
    <3>6. Replies(turn.msg)' = {}
      BY <3>2, <3>5 DEF Replies
    <3> QED BY <1>0, <3>2, <3>3, <3>4, <3>6
  <2>2. CASE turn.pc \in BeforeJob /\ turn'.msg = turn.msg /\ turn'.gen = turn.gen /\ ~Submit
             /\ ~CreateRuntimeInput
    <3>1. PICK m : m = turn.msg
      OBVIOUS
    <3>2. /\ m \in Known /\ m \in Input /\ mail[m].gen = turn.gen /\ handle \in {0, turn.gen}
          /\ m \notin jobs \cup failed /\ Replies(m) = {}
          /\ ~(worker.pc = "handle" /\ worker.item = m)
      BY <1>0, <2>2, <3>1 DEF Unserved, Known
    <3>3. mail'[m].gen = turn.gen
      BY <2>2, <3>2, MailOf
    <3>4. m \notin failed'
      BY <3>2, FailedSteps DEF ProviderFails
    <3>5. m \notin jobs'
      <4>1. CASE AckDeferred
        <5>1. worker.how \in {"reply", "failed"} => worker.item # m
          BY <3>2 DEF WorkerIsRight
        <5> QED BY <3>2, <4>1, <5>1 DEF AckDeferred
      <4> QED BY <2>2, <3>2, <4>1, JobSteps
    <3>6. Replies(m)' = {}
      <4>1. ~(HandleInput /\ m = worker.item)
        BY <3>2 DEF HandleInput
      <4> QED BY <3>2, <4>1, RepliesOf
    <3>7. ~(worker'.pc = "handle" /\ worker'.item = m)
      <4>1. ASSUME NEW i \in Item, ClaimNext(i), worker'.item = i, i = m
            PROVE  worker'.pc # "handle"
        <5>1. mail[m].gen \in 1..handle
          BY <4>1 DEF ClaimNext, Claimable
        <5>2. handle \in Nat /\ turn.gen \in Nat
          BY <1>0, SessionAssumption DEF SetType, TurnType
        <5>3. Own(m)
          BY <3>2, <5>1, <5>2 DEF Own
        <5>4. CASE worker' = [worker EXCEPT !.pc = "ack", !.item = i, !.how = "settled"]
                   \/ worker' = [worker EXCEPT !.pc = "ack", !.item = i, !.how = "child"]
          BY <1>0, <5>4 DEF WorkerType
        <5>5. CASE worker' = [worker EXCEPT !.pc = IF Own(i) THEN "job" ELSE "handle", !.item = i]
          <6>1. worker' = [worker EXCEPT !.pc = "job", !.item = i]
            BY <4>1, <5>3, <5>5
          <6> QED BY <1>0, <6>1 DEF WorkerType
        <5> QED BY <4>1, <5>4, <5>5 DEF ClaimNext
      <4>2. CASE TakeJob
        <5>1. worker.item \in jobs /\ worker'.item = worker.item
          BY <1>0, <4>2 DEF TakeJob, WorkerType
        <5> QED BY <3>2, <5>1
      <4> QED BY <1>0, <3>2, <4>1, <4>2, WorkerOf
    <3>8. Replies(turn.msg)' = {}
      BY <2>2, <3>1, <3>6 DEF Replies
    <3> QED BY <2>2, <3>1, <3>3, <3>4, <3>5, <3>7, <3>8
  <2>3. \/ CreateRuntimeInput
        \/ turn.pc \in BeforeJob /\ turn'.msg = turn.msg /\ turn'.gen = turn.gen /\ ~Submit
           /\ ~CreateRuntimeInput
    <3>1. Submit => turn'.pc = "wait"
      BY <1>0 DEF Submit, TurnType
    <3> QED BY <1>0, <1>2, <3>1, TurnOf DEF Moved
  <2> QED BY <2>1, <2>2, <2>3
<1> QED BY <1>1, <1>2 DEF Unserved

-----------------------------------------------------------------------------
(* What the session remembers.                                              *)

(* The summary and the anchor fit each other, and nothing is between them.   *)
Anchored ==
    /\ \A s \in ckpt.sum : s <= ckpt.anchor
    /\ \A n \in seen : n \in ckpt.sum \/ n > ckpt.anchor

Continued ==
    mem.hot => /\ \A s \in mem.sum, w \in mem.win : s < w
               /\ mem.win \subseteq seen /\ seen \subseteq mem.win \cup mem.sum

NewestLater ==
    /\ turn.pc \in {"persisted", "queued", "marked"} => \A n \in Asked(turn.msg) : Later(n)
    /\ turn.pc \in {"remembered", "prepared", "ready", "wait", "answered"} =>
         \A n \in Replies(turn.msg) : Later(n)

(* The parts of Remembered.                                                 *)
LEMMA RememberedParts == Remembered <=> Anchored /\ Continued /\ NewestLater
BY DEF Remembered, Anchored, Continued, NewestLater

(* A window that continues its summary does so with newer messages added.    *)
LEMMA AppendKeeps ==
    ASSUME NEW L \in Nat, NEW m, m.win \in SUBSET (1..L), m.sum \in SUBSET (1..L),
           NEW new \in SUBSET (1..L), NEW hot, NEW out \in SUBSET (m.win \cup new),
           ckpt.anchor \in 0..L, ckpt.sum \in SUBSET (1..L), seen \in SUBSET (1..L),
           Anchored, AppendsTo(m, new, hot, out),
           \A s \in m.sum, w \in m.win : s < w,
           seen \subseteq m.win \cup m.sum,
           \A w \in m.win : w \in ckpt.sum \/ w > ckpt.anchor,
           \A n \in new : n > ckpt.anchor /\ \A s \in m.sum : s < n
    PROVE  Anchored' /\ Continued'
<1> DEFINE win == m.win \cup new
<1>1. /\ win \in SUBSET (1..L) /\ out \in SUBSET (1..L) /\ \A x \in 1..L : x \in Int
      /\ \A s \in m.sum, w \in win : s < w
  <2>1. win \in SUBSET (1..L)
    OBVIOUS
  <2>4. \A x \in 1..L : x \in Int
    OBVIOUS
  <2>2. out \in SUBSET (1..L)
    BY <2>1
  <2>3. \A s \in m.sum, w \in win : s < w
    OBVIOUS
  <2> QED BY <2>1, <2>2, <2>3, <2>4
<1>2. /\ \A a \in out, b \in win : b < a => b \in out
      /\ mem' = [hot |-> hot, win |-> win \ out, sum |-> m.sum \cup out]
      /\ seen' = seen \cup win
      /\ \/ UNCHANGED ckpt
         \/ \E a \in out : /\ \A k \in out : k <= a
                           /\ ckpt' = [anchor |-> a, sum |-> m.sum \cup out]
  BY DEF AppendsTo
<1>3. \A s \in m.sum \cup out, w \in win \ out : s < w
  <2> SUFFICES ASSUME NEW s \in m.sum \cup out, NEW w \in win \ out PROVE s < w
    OBVIOUS
  <2>1. CASE s \in m.sum
    BY <1>1, <2>1
  <2>2. CASE s \in out
    <3>1. s # w /\ ~(w < s)
      BY <1>2, <2>2
    <3>2. s \in Int /\ w \in Int
      BY <1>1, <2>2
    <3> QED BY <3>1, <3>2
  <2> QED BY <2>1, <2>2
<1>4. Continued'
  <2>1. /\ mem'.win = win \ out /\ mem'.sum = m.sum \cup out
    BY <1>2
  <2>2. /\ \A s \in mem'.sum, w \in mem'.win : s < w
        /\ mem'.win \subseteq seen' /\ seen' \subseteq mem'.win \cup mem'.sum
    BY <1>2, <1>3, <2>1
  <2> QED BY <2>2 DEF Continued
<1>5. Anchored'
  <2>1. CASE UNCHANGED ckpt
    <3>1. \A n \in seen' : n \in ckpt.sum \/ n > ckpt.anchor
      BY <1>2 DEF Anchored
    <3> QED BY <2>1, <3>1 DEF Anchored
  <2>2. CASE \E a \in out : /\ \A k \in out : k <= a
                            /\ ckpt' = [anchor |-> a, sum |-> m.sum \cup out]
    <3>1. PICK a \in out : /\ \A k \in out : k <= a
                           /\ ckpt' = [anchor |-> a, sum |-> m.sum \cup out]
      BY <2>2
    <3>2. a \in Int /\ a \in win
      BY <1>1
    <3>3. \A s \in m.sum \cup out : s <= a
      <4> SUFFICES ASSUME NEW s \in m.sum \cup out PROVE s <= a
        OBVIOUS
      <4>1. CASE s \in out
        BY <3>1, <4>1
      <4>2. CASE s \in m.sum
        <5>1. s < a /\ s \in Int
          BY <1>1, <3>2, <4>2
        <5> QED BY <3>2, <5>1
      <4> QED BY <4>1, <4>2
    <3>4. \A n \in seen \cup win : n \in m.sum \cup out \/ n > a
      <4> SUFFICES ASSUME NEW n \in win, ~(n > a) PROVE n \in out
        OBVIOUS
      <4>1. n \in Int
        BY <1>1
      <4>2. n = a \/ n < a
        BY <3>2, <4>1
      <4> QED BY <1>2, <4>2
    <3>5. ckpt'.anchor = a /\ ckpt'.sum = m.sum \cup out /\ seen' = seen \cup win
      BY <1>2, <3>1
    <3> QED BY <3>3, <3>4, <3>5 DEF Anchored
  <2> QED BY <1>2, <2>1, <2>2
<1> QED BY <1>4, <1>5

(* context_for_turn(): the window restored or kept, and the input added.    *)
LEMMA ContextForTurnKeeps ==
    ASSUME Typed, Remembered, Unserved, Next, ContextForTurn
    PROVE  Remembered'
<1>0. MemType /\ LogType /\ TurnType /\ Anchored /\ Continued /\ NewestLater
  BY TypeParts, RememberedParts DEF Typed
<1>1. PICK L \in Nat : L = Len(log)
  BY <1>0 DEF LogType
<1>2. PICK m \in [hot: BOOLEAN, win: SUBSET (1 .. L), sum: SUBSET (1 .. L)] : m = Restored(mem)
  BY <1>0, <1>1, RestoredType
<1>3. PICK new \in SUBSET (1..L) : new = Asked(turn.msg)
  BY <1>1 DEF Asked
<1>4. mem.hot \in BOOLEAN /\ ckpt.anchor \in 0..L /\ ckpt.sum \in SUBSET (1..L)
      /\ seen \in SUBSET (1..L)
  BY <1>0, <1>1 DEF MemType
<1>5. PICK over \in BOOLEAN, saved \in BOOLEAN, hot \in BOOLEAN :
        Append1(m, new, over, saved, hot)
  BY <1>2, <1>3, <1>4 DEF ContextForTurn, Asked
<1>6. PICK out \in SUBSET (m.win \cup new) : AppendsTo(m, new, hot, out)
  BY <1>0, <1>1, <1>5, Appended
<1>7. \A n \in new : n > ckpt.anchor /\ (mem.hot => \A s \in mem.sum : s < n)
  BY <1>0, <1>3 DEF ContextForTurn, NewestLater, Later
<1>8. /\ \A s \in m.sum, w \in m.win : s < w
      /\ seen \subseteq m.win \cup m.sum
      /\ \A w \in m.win : w \in ckpt.sum \/ w > ckpt.anchor
      /\ \A n \in new : \A s \in m.sum : s < n
  <2>1. CASE mem.hot
    <3>1. m = mem
      BY <1>2, <2>1 DEF Restored
    <3> QED BY <1>0, <1>7, <2>1, <3>1 DEF Anchored, Continued
  <2>2. CASE ~mem.hot
    <3>1. m.win = ckpt.anchor + 1 .. L /\ m.sum = ckpt.sum
      BY <1>1, <1>2, <2>2 DEF Restored
    <3>2. \A s \in ckpt.sum : s <= ckpt.anchor /\ s \in Int
      BY <1>0, <1>4 DEF Anchored
    <3>3. \A w \in ckpt.anchor + 1 .. L : w > ckpt.anchor
      BY <1>4
    <3>4. \A n \in seen : n \in ckpt.sum \/ n \in ckpt.anchor + 1 .. L
      BY <1>0, <1>4 DEF Anchored
    <3>5. \A s \in m.sum, w \in 1..L : w > ckpt.anchor => s < w
      BY <1>4, <3>1, <3>2
    <3>6. m.win \in SUBSET (1..L) /\ new \in SUBSET (1..L)
      OBVIOUS
    <3>7. \A s \in m.sum, w \in m.win : s < w
      BY <3>1, <3>3, <3>5, <3>6
    <3>8. \A n \in new : \A s \in m.sum : s < n
      BY <1>7, <3>5, <3>6
    <3> QED BY <3>1, <3>3, <3>4, <3>7, <3>8
  <2> QED BY <1>4, <2>1, <2>2
<1>9. Anchored' /\ Continued'
  <2>1. m.win \in SUBSET (1..L) /\ m.sum \in SUBSET (1..L)
    OBVIOUS
  <2> QED BY <1>0, <1>4, <1>6, <1>7, <1>8, <2>1, AppendKeeps
<1>10. NewestLater'
  <2>1. turn.pc = "marked" /\ UNCHANGED log
        /\ (turn' = [turn EXCEPT !.pc = "remembered"] \/ turn' = NoTurn)
    BY DEF ContextForTurn, LeaveTurn
  <2>2. Replies(turn.msg) = {}
    BY <2>1 DEF Unserved, BeforeJob
  <2>3. CASE turn' = NoTurn
    BY <2>3 DEF NoTurn, NewestLater
  <2>4. CASE turn' = [turn EXCEPT !.pc = "remembered"]
    <3>1. turn'.pc = "remembered" /\ turn'.msg = turn.msg
      BY <1>0, <2>4 DEF TurnType
    <3>2. Replies(turn.msg)' = {}
      BY <2>1, <2>2, <3>1 DEF Replies
    <3> QED BY <3>1, <3>2 DEF NewestLater
  <2> QED BY <2>1, <2>3, <2>4
<1> QED BY <1>9, <1>10 DEF Remembered, Anchored, Continued, NewestLater

(* record_persisted_message(): the reply added to a window in memory.       *)
LEMMA RecordReplyKeeps ==
    ASSUME Typed, Remembered, Next, RecordReply
    PROVE  Remembered'
<1>0. MemType /\ LogType /\ TurnType /\ Anchored /\ Continued /\ NewestLater
  BY TypeParts, RememberedParts DEF Typed
<1>1. NewestLater'
  <2>1. turn'.pc = "children"
    BY <1>0 DEF RecordReply, TurnType
  <2> QED BY <2>1 DEF NewestLater
<1>2. CASE turn.ok /\ mem.hot
  <2>1. PICK L \in Nat : L = Len(log)
    BY <1>0 DEF LogType
  <2>2. PICK m \in [hot: BOOLEAN, win: SUBSET (1 .. L), sum: SUBSET (1 .. L)] : m = mem
    BY <1>0, <2>1 DEF MemType
  <2>3. PICK new \in SUBSET (1..L) : new = Replies(turn.msg)
    BY <2>1 DEF Replies
  <2>4. ckpt.anchor \in 0..L /\ ckpt.sum \in SUBSET (1..L) /\ seen \in SUBSET (1..L)
    BY <1>0, <2>1 DEF MemType
  <2>5. PICK over \in BOOLEAN, saved \in BOOLEAN, hot \in BOOLEAN :
          Append1(m, new, over, saved, hot)
    BY <1>2, <2>2, <2>3 DEF RecordReply
  <2>6. PICK out \in SUBSET (m.win \cup new) : AppendsTo(m, new, hot, out)
    BY <1>0, <2>1, <2>5, Appended
  <2>7. \A n \in new : n > ckpt.anchor /\ \A s \in m.sum : s < n
    BY <1>0, <1>2, <2>2, <2>3 DEF RecordReply, NewestLater, Later
  <2>8. /\ \A s \in m.sum, w \in m.win : s < w
        /\ seen \subseteq m.win \cup m.sum
        /\ \A w \in m.win : w \in ckpt.sum \/ w > ckpt.anchor
    BY <1>0, <1>2, <2>2 DEF Anchored, Continued
  <2>9. m.win \in SUBSET (1..L) /\ m.sum \in SUBSET (1..L)
    OBVIOUS
  <2>10. Anchored' /\ Continued'
    BY <1>0, <2>4, <2>6, <2>7, <2>8, <2>9, AppendKeeps
  <2> QED BY <1>1, <2>10 DEF Remembered, Anchored, Continued, NewestLater
<1>3. CASE ~(turn.ok /\ mem.hot)
  <2>1. UNCHANGED <<mem, ckpt, seen>>
    BY <1>3 DEF RecordReply
  <2> QED BY <1>0, <1>1, <2>1 DEF Remembered, Anchored, Continued, NewestLater
<1> QED BY <1>2, <1>3

(* The summary and the window stay adjacent, whatever else happens.         *)
LEMMA RememberedStep ==
    ASSUME Typed, Remembered, Unserved, Next
    PROVE  Remembered'
<1>0. MemType /\ LogType /\ TurnType /\ Anchored /\ Continued /\ NewestLater
  BY TypeParts, RememberedParts DEF Typed
<1>1. CASE ContextForTurn
  BY <1>1, ContextForTurnKeeps
<1>2. CASE RecordReply
  BY <1>2, RecordReplyKeeps
<1>3. CASE mem' = Cold /\ UNCHANGED <<ckpt, seen, log>> /\ (UNCHANGED turn \/ turn' = NoTurn)
  <2>1. mem'.hot = FALSE
    BY <1>3 DEF Cold
  <2>2. Anchored' /\ Continued'
    BY <1>0, <1>3, <2>1 DEF Anchored, Continued
  <2>3. CASE turn' = NoTurn
    BY <2>2, <2>3 DEF NoTurn, Remembered, Anchored, Continued
  <2>4. CASE UNCHANGED turn
    <3>1. Asked(turn.msg)' = Asked(turn.msg) /\ Replies(turn.msg)' = Replies(turn.msg)
      BY <1>3, <2>4 DEF Asked, Replies
    <3>2. \A n : Later(n) => Later(n)'
      BY <1>3, <2>1 DEF Later
    <3>3. NewestLater'
      BY <1>0, <2>4, <3>1, <3>2 DEF NewestLater
    <3> QED BY <2>2, <3>3 DEF Remembered, Anchored, Continued, NewestLater
  <2> QED BY <1>3, <2>3, <2>4
<1>4. CASE UNCHANGED <<mem, ckpt, seen>> /\ ~ContextForTurn /\ ~RecordReply
  <2>1. Anchored' /\ Continued'
    BY <1>0, <1>4 DEF Anchored, Continued
  <2>2. \A n : Later(n)' = Later(n)
    BY <1>4 DEF Later
  <2>3. Later(Len(log) + 1)
    <3>1. /\ Len(log) \in Nat /\ ckpt.anchor \in 0..Len(log)
          /\ mem.sum \in SUBSET (1..Len(log))
      BY <1>0 DEF MemType, LogType
    <3>2. ckpt.anchor < Len(log) + 1 /\ \A s \in 1..Len(log) : s < Len(log) + 1
      BY <3>1
    <3> QED BY <3>1, <3>2 DEF Later
  <2>4. PICK m : m = turn'.msg
    OBVIOUS
  <2>5. Asked(turn.msg)' = Asked(m)' /\ Replies(turn.msg)' = Replies(m)'
    BY <2>4 DEF Asked, Replies
  <2>6. ASSUME turn'.pc \in {"persisted", "queued", "marked"}
        PROVE  \A n \in Asked(m)' : Later(n)
    <3>1. CASE CreateRuntimeInput
      <4>1. m = NewInput
        BY <1>0, <2>4, <3>1 DEF CreateRuntimeInput, TurnType
      <4>2. NewInput \notin Known
        <5>1. PICK n \in 0..MaxTurn : Known = 1..n /\ (turn.pc = "admitted" => n < MaxTurn)
          BY DEF Typed, Numbered
        <5> QED BY <5>1, NextInput, SessionAssumption
      <4>3. Asked(m) = {}
        BY <4>1, <4>2 DEF Typed, KnownOnly, Asked
      <4> QED BY <2>3, <4>3, RepliesOf
    <3>2. CASE ~CreateRuntimeInput
      <4>1. turn.pc \in {"persisted", "queued", "marked"} /\ turn.msg = m
        BY <1>0, <1>4, <2>4, <2>6, <3>2, TurnOf DEF Moved
      <4>2. Asked(m)' = Asked(m)
        BY <3>2, RepliesOf
      <4> QED BY <1>0, <4>1, <4>2 DEF NewestLater
    <3> QED BY <3>1, <3>2
  <2>7. ASSUME turn'.pc \in {"remembered", "prepared", "ready", "wait", "answered"}
        PROVE  \A n \in Replies(m)' : Later(n)
    <3>1. turn.pc \in {"remembered", "prepared", "ready", "wait", "answered"} /\ turn.msg = m
      BY <1>0, <1>4, <2>4, <2>7, TurnOf DEF Moved
    <3>2. \A n \in Replies(m) : Later(n)
      BY <1>0, <3>1 DEF NewestLater
    <3> QED BY <2>3, <3>2, RepliesOf
  <2>8. NewestLater'
    <3>1. \A n : Later(n) => Later(n)'
      BY <2>2
    <3> QED BY <2>5, <2>6, <2>7, <3>1 DEF NewestLater
  <2> QED BY <2>1, <2>8 DEF Remembered, Anchored, Continued, NewestLater
<1> QED BY <1>1, <1>2, <1>3, <1>4, MemorySteps

-----------------------------------------------------------------------------
(* The invariant, and what follows from it.                                 *)

(* An empty session.                                                        *)
LEMMA TypeInit ==
    ASSUME Init
    PROVE  TypeOK
<1> USE SessionAssumption DEF Init
<1>1. SetType
  BY DEF SetType, Item
<1>2. MailType
  <2>1. NoMail \in MailRow
    BY DEF NoMail, MailRow
  <2> QED BY <2>1 DEF MailType
<1>3. LogType /\ MemType
  <2>1. log = <<>> /\ Len(log) = 0 /\ log \in Seq(Message)
    OBVIOUS
  <2>2. mem = [hot |-> FALSE, win |-> {}, sum |-> {}]
    BY DEF Cold
  <2>3. 0 \in 0..Len(log)
    BY <2>1
  <2> QED BY <2>1, <2>2, <2>3 DEF LogType, MemType
<1>4. NodeType
  BY DEF NodeType, NoChild
<1>5. WorkerType
  BY DEF WorkerType, NoWorker, Item
<1>6. TurnType
  BY DEF TurnType, NoTurn
<1> HIDE DEF Init
<1> QED BY <1>1, <1>2, <1>3, <1>4, <1>5, <1>6, TypeParts

(* A new session satisfies the invariant.                                   *)
LEMMA SessionInit ==
    ASSUME Init
    PROVE  SessionInv
<1> USE SessionAssumption
<1>1. TypeOK
  BY TypeInit
<1>2. /\ turn.pc = "idle" /\ turn.ok = FALSE /\ worker.pc = "off" /\ worker.how = "none"
      /\ child.pc = "none" /\ mem.hot = FALSE
  BY DEF Init, NoTurn, NoWorker, NoChild, Cold
<1>3. log = <<>> /\ Len(log) = 0 /\ failed = {} /\ jobs = {} /\ settled = {} /\ seen = {}
      /\ ckpt.sum = {}
  BY DEF Init
<1>4. \A m \in Input : input[m] = "none" /\ mail[m].st = "none"
  BY DEF Init, NoMail, Item
<1>5. Known = {}
  BY <1>4 DEF Known
<1>6. \A m : Replies(m) = {}
  BY <1>3 DEF Replies
<1>7. Numbered
  <2>1. 0 \in 0..MaxTurn /\ 1..0 = {}
    OBVIOUS
  <2> QED BY <1>2, <1>5, <2>1 DEF Numbered
<1>8. KnownOnly
  BY <1>2, <1>3, <1>4 DEF KnownOnly
<1>9. RepliedOnce
  BY <1>6 DEF RepliedOnce
<1>10. Unserved
  BY <1>2 DEF Unserved, BeforeJob
<1>11. WorkerIsRight
  BY <1>2, <1>3 DEF WorkerIsRight
<1>12. Answers
  BY <1>2, <1>4 DEF Answers
<1>13. NodeIsRight
  BY DEF NodeIsRight, Init, NoChild
<1>14. Remembered
  BY <1>2, <1>3 DEF Remembered
<1> QED BY <1>1, <1>7, <1>8, <1>9, <1>10, <1>11, <1>12, <1>13, <1>14 DEF SessionInv

(* Every step keeps the types.                                              *)
LEMMA TypeStep ==
    ASSUME Typed, WorkerIsRight, Next
    PROVE  TypeOK'
<1>1. /\ SetType /\ MailType /\ LogType /\ NodeType /\ WorkerType /\ TurnType /\ MemType
      /\ Numbered /\ KnownOnly
  BY TypeParts DEF Typed
<1>2. SetType' /\ MailType' /\ NodeType' /\ WorkerType' /\ TurnType'
  BY <1>1, SetTypeStep, MailTypeStep, NodeTypeStep, WorkerTypeStep, TurnTypeStep
<1>3. LogType' /\ (UNCHANGED log \/ \E e \in Message : log' = Append(log, e))
  BY <1>1, LogTypeStep
<1>4. MemType'
  BY <1>1, <1>3, MemTypeStep
<1> QED BY <1>2, <1>3, <1>4 DEF TypeOK, SetType, MailType, MailRow, LogType, Message, NodeType,
      WorkerType, TurnType, MemType

(* Every step keeps the invariant.                                          *)
LEMMA SessionStep ==
    ASSUME SessionInv, [Next]_vars
    PROVE  SessionInv'
<1>1. CASE Next
  <2>1. /\ Typed /\ RepliedOnce /\ Unserved /\ WorkerIsRight /\ Answers /\ NodeIsRight
        /\ Remembered
    BY DEF SessionInv, Typed
  <2> QED BY <1>1, <2>1, TypeStep, NumberedStep, KnownOnlyStep, RepliedOnceStep, UnservedStep,
        WorkerIsRightStep, AnswersStep, NodeIsRightStep, RememberedStep DEF SessionInv
<1>2. CASE UNCHANGED vars
  <2>1. TypeOK'
    BY <1>2 DEF SessionInv, vars, TypeOK
  <2>2. Numbered' /\ KnownOnly' /\ RepliedOnce'
    BY <1>2 DEF SessionInv, vars, Numbered, KnownOnly, Known, RepliedOnce, Replies
  <2>3. Unserved' /\ WorkerIsRight' /\ Answers'
    BY <1>2 DEF SessionInv, vars, Unserved, WorkerIsRight, Answers, Done, Replies
  <2>4. NodeIsRight' /\ Remembered'
    BY <1>2 DEF SessionInv, vars, NodeIsRight, Remembered, Asked, Replies, Later
  <2> QED BY <2>1, <2>2, <2>3, <2>4 DEF SessionInv
<1> QED BY <1>1, <1>2

(* The invariant implies that input is settled once.                        *)
LEMMA SessionSettles ==
    ASSUME SessionInv
    PROVE  SettledOnce
<1>1. OneReply
  <2> SUFFICES ASSUME NEW m \in Input PROVE Cardinality(Replies(m)) <= 1
    BY DEF OneReply
  <2>1. \A a, b \in Replies(m) : a = b
    BY DEF SessionInv, RepliedOnce
  <2>2. Replies(m) = {} \/ \E n : Replies(m) = {n}
    BY <2>1
  <2>3. Cardinality({}) = 0 /\ \A n : Cardinality({n}) = 1
    BY FS_EmptySet, FS_Singleton
  <2>4. Cardinality(Replies(m)) \in {0, 1}
    <3>1. CASE Replies(m) = {}
      BY <2>3, <3>1
    <3>2. ASSUME NEW n, Replies(m) = {n} PROVE Cardinality(Replies(m)) = 1
      BY <2>3, <3>2
    <3> QED BY <2>2, <3>1, <3>2
  <2> QED BY <2>4
<1>2. AckedIsSettled
  BY DEF SessionInv, Answers, Done, AckedIsSettled
<1>3. ChildSettlesNode
  BY DEF SessionInv, NodeIsRight, ChildSettlesNode
<1> QED BY <1>1, <1>2, <1>3 DEF SettledOnce, SessionInv

(* The invariant implies that the context is kept.                          *)
LEMMA SessionRemembers ==
    ASSUME SessionInv
    PROVE  ContextKept
<1>1. Anchored /\ Continued /\ MemType /\ LogType
  BY RememberedParts, TypeParts DEF SessionInv
<1>2. CASE mem.hot
  <2>1. seen \subseteq mem.win \cup mem.sum
    BY <1>1, <1>2 DEF Continued
  <2>2. \A s \in mem.sum, w \in mem.win : s < w /\ s \in Int
    BY <1>1, <1>2 DEF Continued, MemType
  <2>3. mem.win \cap mem.sum = {}
    <3>1. \A s \in mem.sum, w \in mem.win : s # w
      BY <2>2
    <3> QED BY <3>1
  <2> QED BY <1>2, <2>1, <2>3 DEF ContextKept, Context
<1>3. CASE ~mem.hot
  <2>1. Len(log) \in Nat /\ ckpt.anchor \in 0..Len(log) /\ seen \subseteq 1..Len(log)
    BY <1>1 DEF MemType, LogType
  <2>2. \A n \in seen : n \in ckpt.sum \/ n \in ckpt.anchor + 1 .. Len(log)
    BY <1>1, <2>1 DEF Anchored
  <2> QED BY <1>3, <2>2 DEF ContextKept, Context
<1> QED BY <1>2, <1>3

(* The invariant holds in every reachable state.                            *)
LEMMA SessionInvariant == Spec => []SessionInv
<1>1. Init => SessionInv
  BY SessionInit
<1>2. SessionInv /\ [Next]_vars => SessionInv'
  BY SessionStep
<1> QED BY <1>1, <1>2, PTL DEF Spec

(* handle_input() answers an input once, the worker acknowledges only what   *)
(* it settled, and the node of a child takes the result: whatever is         *)
(* redelivered, deferred, cancelled, closed or lost in a crash.              *)
THEOREM SettledOnceAlways == Spec => []SettledOnce
<1>1. SessionInv => SettledOnce
  BY SessionSettles
<1> QED BY <1>1, SessionInvariant, PTL

(* ShortTermMemory and its checkpoint lose no message that was part of the   *)
(* context once, and keep none twice.                                       *)
THEOREM ContextKeptAlways == Spec => []ContextKept
<1>1. SessionInv => ContextKept
  BY SessionRemembers
<1> QED BY <1>1, SessionInvariant, PTL

=============================================================================
