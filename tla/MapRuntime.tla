------------------------------ MODULE MapRuntime ------------------------------
(***************************************************************************)
(* From a READY intent to the project map: ChangeOutboxForwarder            *)
(* (change_outbox.py) puts CodeChanged mail into the mailbox and wakes the   *)
(* map runtime, ProjectRuntimeRegistry (project_registry.py) owns at most    *)
(* one generation of it, ProjectMapAgent (project_map_agent.py) claims       *)
(* batches, applies them to plan.db with receipts, acknowledges them and     *)
(* retires when idle; startup and shutdown (gateway.py) go around it.       *)
(*                                                                         *)
(* All of it but the apply thread runs on one event loop: an action is what *)
(* runs between two awaits or, in the forwarder, one transaction.  The mail  *)
(* table is the one of module Mailbox without its clock: leases expire and   *)
(* retries fall due at any time.  An instance is one generation of the map   *)
(* runtime; instances are numbered through, over restarts too.              *)
(***************************************************************************)
EXTENDS Naturals, FiniteSets

CONSTANTS
    Message,     \* message_ids of the intents
    BatchSize,   \* most messages of one batch
    MaxInst,     \* bound: instances of the map runtime
    MaxCrash,    \* bound: crashes and shutdowns
    MaxRetry,    \* bound: failed rounds of the forwarder and failed wakes
    MaxStrand    \* bound: failures that nothing retries (see Stranding)

ASSUME MapAssumption ==
    /\ BatchSize \in Nat \ {0}
    /\ MaxInst \in Nat /\ MaxCrash \in Nat /\ MaxRetry \in Nat /\ MaxStrand \in Nat

VARIABLES
    outbox,   \* intents: "none", "ready", "sent" (in mail, not yet marked), "delivered"
    mail,     \* rows of mail_messages
    holder,   \* the instance that leases a row, or 0
    applied,  \* times a message changed the map; > 0 exactly with its receipt
    round,    \* messages delivered in the forwarder's current round
    wakes,    \* _pending_wakes of the forwarder
    signal,   \* a wake signal is scheduled on the loop
    pc,       \* where the task of every instance is
    batch,    \* the messages it has claimed
    fresh,    \* the wake version is the one it noted
    thread,   \* its apply thread runs
    cur,      \* the instance the registry has registered, or 0
    last,     \* instances made so far
    waking,   \* the instance wake() is making, or 0: it holds the registry lock
    wakeFor,  \* the messages whose wake makes it
    mode,     \* "startup", "draining", "up", "stopping"
    crashes, retries, strands

registryVars == <<cur, last, waking, wakeFor>>
agentVars == <<pc, batch, fresh, thread>>
tableVars == <<outbox, mail, holder, applied>>
loopVars == <<round, wakes, signal>>
faultVars == <<crashes, retries, strands>>
vars == <<tableVars, loopVars, registryVars, agentVars, mode, faultVars>>

Inst == 1 .. MaxInst
Pc == {"none", "new", "receive", "apply", "ack", "idle", "failing", "done"}

TypeOK ==
    /\ outbox \in [Message -> {"none", "ready", "sent", "delivered"}]
    /\ mail \in [Message -> {"none", "pending", "leased", "retry_wait", "delivered"}]
    /\ holder \in [Message -> 0 .. MaxInst]
    /\ applied \in [Message -> Nat]
    /\ round \subseteq Message /\ wakes \subseteq Message /\ signal \in BOOLEAN
    /\ pc \in [Inst -> Pc] /\ batch \in [Inst -> SUBSET Message]
    /\ fresh \in [Inst -> BOOLEAN] /\ thread \in [Inst -> BOOLEAN]
    /\ cur \in 0 .. MaxInst /\ last \in 0 .. MaxInst /\ waking \in 0 .. MaxInst
    /\ wakeFor \subseteq Message
    /\ mode \in {"startup", "draining", "up", "stopping"}
    /\ crashes \in 0 .. MaxCrash /\ retries \in 0 .. MaxRetry /\ strands \in 0 .. MaxStrand

Init ==
    /\ outbox = [m \in Message |-> "none"]
    /\ mail = [m \in Message |-> "none"]
    /\ holder = [m \in Message |-> 0]
    /\ applied = [m \in Message |-> 0]
    /\ round = {} /\ wakes = {} /\ signal = FALSE
    /\ pc = [g \in Inst |-> "none"] /\ batch = [g \in Inst |-> {}]
    /\ fresh = [g \in Inst |-> FALSE] /\ thread = [g \in Inst |-> FALSE]
    /\ cur = 0 /\ last = 0 /\ waking = 0 /\ wakeFor = {}
    /\ mode = "startup"
    /\ crashes = 0 /\ retries = 0 /\ strands = 0

-----------------------------------------------------------------------------
(* Helpers.                                                                 *)

(* has_pending(): rows that are not delivered, leased and waiting ones too. *)
Undelivered == {m \in Message : mail[m] \notin {"none", "delivered"}}
Claimable == {m \in Message : mail[m] = "pending"}

(* Intents the forwarder will offer again, and wake for.                    *)
Owed == {m \in Message : outbox[m] \in {"ready", "sent"}}

Goto(g, label) == pc' = [pc EXCEPT ![g] = label]

(* close() of the mailbox instance of g: its leases go back.                *)
GiveBack(g) ==
    /\ mail' = [m \in Message |-> IF mail[m] = "leased" /\ holder[m] = g THEN "pending" ELSE mail[m]]
    /\ holder' = [m \in Message |-> IF holder[m] = g THEN 0 ELSE holder[m]]

(* The conditions under which wake() keeps the registered instance.         *)
Running(g) == g # 0 /\ pc[g] \notin {"none", "new", "done"}

-----------------------------------------------------------------------------
(* The outbox and its forwarder.                                            *)

(* A commit makes an intent READY (module ChangeOutbox).                    *)
Produce(m) ==
    /\ mode = "up"
    /\ outbox[m] = "none"
    /\ outbox' = [outbox EXCEPT ![m] = "ready"]
    /\ UNCHANGED <<mail, holder, applied, loopVars, registryVars, agentVars, mode, faultVars>>

(* mailbox.enqueue(): a message_id that is there already changes nothing;   *)
(* a new one signals the mailbox instances of the process.                  *)
Enqueue(m) ==
    /\ mode = "up"
    /\ outbox[m] = "ready"
    /\ \A n \in Message : outbox[n] # "sent"
    /\ outbox' = [outbox EXCEPT ![m] = "sent"]
    /\ mail' = IF mail[m] = "none" THEN [mail EXCEPT ![m] = "pending"] ELSE mail
    /\ signal' = (signal \/ mail[m] = "none")
    /\ UNCHANGED <<holder, applied, round, wakes, registryVars, agentVars, mode, faultVars>>

MarkDelivered(m) ==
    /\ mode = "up"
    /\ outbox[m] = "sent"
    /\ outbox' = [outbox EXCEPT ![m] = "delivered"]
    /\ round' = round \cup {m}
    /\ UNCHANGED <<mail, holder, applied, wakes, signal, registryVars, agentVars, mode, faultVars>>

(* Fault: the forwarder leaves the wake to the signal.                      *)
EndRoundSilently ==
    /\ round # {}
    /\ round' = {}
    /\ UNCHANGED <<tableVars, wakes, signal, registryVars, agentVars, mode, faultVars>>

(* publish_ready() returns: what it delivered is to be woken for.           *)
EndRound ==
    /\ round # {}
    /\ \A m \in Message : outbox[m] # "sent"
    /\ wakes' = wakes \cup round
    /\ round' = {}
    /\ UNCHANGED <<tableVars, signal, registryVars, agentVars, mode, faultVars>>

(* publish_ready() raises at a later intent, which stays READY: the results  *)
(* of the round are lost.                                                   *)
RoundFails ==
    /\ mode = "up"
    /\ retries < MaxRetry
    /\ Owed # {}
    /\ round' = {}
    /\ outbox' = [m \in Message |-> IF outbox[m] = "sent" THEN "ready" ELSE outbox[m]]
    /\ retries' = retries + 1
    /\ UNCHANGED <<mail, holder, applied, wakes, signal, registryVars, agentVars, mode, crashes, strands>>

(* call_soon_threadsafe(_advance_on_loop): every version moves on.          *)
Advance ==
    /\ signal
    /\ signal' = FALSE
    /\ fresh' = [g \in Inst |-> FALSE]
    /\ UNCHANGED <<tableVars, round, wakes, registryVars, pc, batch, thread, mode, faultVars>>

-----------------------------------------------------------------------------
(* The registry.                                                            *)

WakeReused(m) ==
    /\ mode = "up"
    /\ m \in wakes
    /\ waking = 0
    /\ Running(cur)
    /\ wakes' = wakes \ {m}
    /\ UNCHANGED <<tableVars, round, signal, registryVars, agentVars, mode, faultVars>>

(* wake() removes what is left of the registered instance and makes the     *)
(* next one, under the registry lock.                                       *)
MakeInstance(for) ==
    /\ waking = 0
    /\ ~Running(cur)
    /\ last < MaxInst
    /\ last' = last + 1
    /\ waking' = last + 1
    /\ wakeFor' = for
    /\ cur' = 0
    /\ Goto(last + 1, "new")
    /\ UNCHANGED <<batch, fresh, thread>>

WakeCreates(m) ==
    /\ mode = "up"
    /\ m \in wakes
    /\ MakeInstance({m})
    /\ UNCHANGED <<tableVars, loopVars, mode, faultVars>>

(* READY, RUNNING, registered, activated.                                   *)
WakeEnds ==
    /\ waking # 0
    /\ cur' = waking
    /\ Goto(waking, "receive")
    /\ wakes' = wakes \ wakeFor
    /\ waking' = 0
    /\ wakeFor' = {}
    /\ UNCHANGED <<tableVars, round, signal, last, batch, fresh, thread, mode, faultVars>>

(* Creating the runtime fails: the forwarder keeps the wake for its next     *)
(* round.  At startup nobody does.                                          *)
WakeFails ==
    /\ waking # 0
    /\ Goto(waking, "done")
    /\ waking' = 0
    /\ wakeFor' = {}
    /\ \/ /\ mode = "up" /\ retries < MaxRetry
          /\ retries' = retries + 1
          /\ UNCHANGED <<mode, strands>>
       \/ /\ mode = "draining" /\ strands < MaxStrand
          /\ strands' = strands + 1
          /\ mode' = "up"
          /\ UNCHANGED retries
    /\ UNCHANGED <<tableVars, loopVars, cur, last, batch, fresh, thread, crashes>>

(* Fault: the idle check trusts the version alone.                          *)
RetireByVersion(g) ==
    /\ pc[g] = "idle"
    /\ waking = 0
    /\ IF cur = g /\ ~fresh[g]
       THEN Goto(g, "receive") /\ UNCHANGED cur
       ELSE Goto(g, "done") /\ cur' = IF cur = g THEN 0 ELSE cur
    /\ UNCHANGED <<tableVars, loopVars, last, waking, wakeFor, batch, fresh, thread, mode, faultVars>>

(* Fault: the result of a successful retirement reads as "not idle".        *)
RetireUnnoticed(g) ==
    /\ pc[g] = "idle"
    /\ waking = 0
    /\ Goto(g, "receive")
    /\ cur' = IF cur = g /\ fresh[g] /\ Undelivered = {} THEN 0 ELSE cur
    /\ UNCHANGED <<tableVars, loopVars, last, waking, wakeFor, batch, fresh, thread, mode, faultVars>>

(* retire_if_idle(), once it has the registry lock; its two checks are one   *)
(* step of the loop.                                                        *)
Retire(g) ==
    /\ pc[g] = "idle"
    /\ waking = 0
    /\ IF cur = g /\ ~(fresh[g] /\ Undelivered = {})
       THEN Goto(g, "receive") /\ UNCHANGED cur
       ELSE Goto(g, "done") /\ cur' = IF cur = g THEN 0 ELSE cur
    /\ UNCHANGED <<tableVars, loopVars, last, waking, wakeFor, batch, fresh, thread, mode, faultVars>>

-----------------------------------------------------------------------------
(* The map agent and its apply thread.                                      *)

(* receive() and the claims after it; a busy claim ends the batch early.    *)
Claim(g, claims) ==
    /\ pc[g] = "receive"
    /\ claims # {} /\ claims \subseteq Claimable /\ Cardinality(claims) <= BatchSize
    /\ mail' = [m \in Message |-> IF m \in claims THEN "leased" ELSE mail[m]]
    /\ holder' = [m \in Message |-> IF m \in claims THEN g ELSE holder[m]]
    /\ Goto(g, "apply")
    /\ batch' = [batch EXCEPT ![g] = claims]
    /\ thread' = [thread EXCEPT ![g] = TRUE]
    /\ UNCHANGED <<outbox, applied, loopVars, registryVars, fresh, mode, faultVars>>

(* receive() answers empty; the agent notes the version and asks to retire. *)
Empty(g) ==
    /\ pc[g] = "receive"
    /\ Claimable = {}
    /\ Goto(g, "idle")
    /\ fresh' = [fresh EXCEPT ![g] = TRUE]
    /\ UNCHANGED <<tableVars, loopVars, registryVars, batch, thread, mode, faultVars>>

(* Fault: no receipts are looked up.                                        *)
ApplyBlindly(g) ==
    /\ thread[g]
    /\ applied' = [m \in Message |-> IF m \in batch[g] THEN applied[m] + 1 ELSE applied[m]]
    /\ thread' = [thread EXCEPT ![g] = FALSE]
    /\ Goto(g, IF pc[g] = "apply" THEN "ack" ELSE pc[g])
    /\ UNCHANGED <<outbox, mail, holder, loopVars, registryVars, batch, fresh, mode, faultVars>>

(* apply_code_changed_batch(): messages without a receipt change the map     *)
(* and get one, in one transaction.  The thread goes on when its agent is    *)
(* cancelled.                                                               *)
Apply(g) ==
    /\ thread[g]
    /\ applied' = [m \in Message |-> IF m \in batch[g] /\ applied[m] = 0 THEN 1 ELSE applied[m]]
    /\ thread' = [thread EXCEPT ![g] = FALSE]
    /\ Goto(g, IF pc[g] = "apply" THEN "ack" ELSE pc[g])
    /\ UNCHANGED <<outbox, mail, holder, loopVars, registryVars, batch, fresh, mode, faultVars>>

(* The transaction fails: the map is marked degraded, the batch is nacked.   *)
ApplyFails(g) ==
    /\ thread[g]
    /\ IF pc[g] = "apply"
       THEN /\ mail' = [m \in Message |->
                          IF m \in batch[g] /\ holder[m] = g THEN "retry_wait" ELSE mail[m]]
            /\ holder' = [m \in Message |-> IF holder[m] = g THEN 0 ELSE holder[m]]
            /\ Goto(g, "receive")
            /\ batch' = [batch EXCEPT ![g] = {}]
       ELSE UNCHANGED <<mail, holder, pc, batch>>
    /\ thread' = [thread EXCEPT ![g] = FALSE]
    /\ UNCHANGED <<outbox, applied, loopVars, registryVars, fresh, mode, faultVars>>

(* ack() of one message: refused when its lease has run out.                *)
Ack(g, m) ==
    /\ pc[g] = "ack"
    /\ m \in batch[g]
    /\ IF holder[m] = g
       THEN /\ mail' = [mail EXCEPT ![m] = "delivered"]
            /\ holder' = [holder EXCEPT ![m] = 0]
       ELSE UNCHANGED <<mail, holder>>
    /\ batch' = [batch EXCEPT ![g] = @ \ {m}]
    /\ Goto(g, IF batch[g] = {m} THEN "receive" ELSE "ack")
    /\ UNCHANGED <<outbox, applied, loopVars, registryVars, fresh, thread, mode, faultVars>>

(* Stranding: an error of the mailbox leaves _consume(); the agent persists  *)
(* the degradation and ends, its mailbox closed.                            *)
AgentFails(g) ==
    /\ pc[g] \in {"receive", "ack", "idle"}
    /\ strands < MaxStrand
    /\ strands' = strands + 1
    /\ Goto(g, "failing")
    /\ UNCHANGED <<tableVars, loopVars, registryVars, batch, fresh, thread, mode, crashes, retries>>

(* Fault: the agent ends in a state the registry does not know.             *)
AgentEndsDegraded(g) ==
    /\ pc[g] = "failing"
    /\ Goto(g, "degraded")
    /\ GiveBack(g)
    /\ UNCHANGED <<outbox, applied, loopVars, registryVars, batch, fresh, thread, mode, faultVars>>

AgentEnds(g) ==
    /\ pc[g] = "failing"
    /\ Goto(g, "done")
    /\ GiveBack(g)
    /\ UNCHANGED <<outbox, applied, loopVars, registryVars, batch, fresh, thread, mode, faultVars>>

(* The clock of the mailbox.                                                *)
LeaseExpires(m) ==
    /\ mail[m] = "leased"
    /\ mail' = [mail EXCEPT ![m] = "pending"]
    /\ holder' = [holder EXCEPT ![m] = 0]
    /\ UNCHANGED <<outbox, applied, loopVars, registryVars, agentVars, mode, faultVars>>

RetryDue(m) ==
    /\ mail[m] = "retry_wait"
    /\ mail' = [mail EXCEPT ![m] = "pending"]
    /\ UNCHANGED <<outbox, holder, applied, loopVars, registryVars, agentVars, mode, faultVars>>

-----------------------------------------------------------------------------
(* The process.                                                             *)

(* recover_project_runtime() publishes what is READY, waking nobody; full    *)
(* mail leaves it for the forwarder.                                        *)
StartupPublish(m) ==
    /\ mode = "startup"
    /\ outbox[m] = "ready"
    /\ outbox' = [outbox EXCEPT ![m] = "delivered"]
    /\ mail' = IF mail[m] = "none" THEN [mail EXCEPT ![m] = "pending"] ELSE mail
    /\ UNCHANGED <<holder, applied, loopVars, registryVars, agentVars, mode, faultVars>>

(* wake_if_pending(), then the forwarder is started when the agent is done. *)
StartupWake ==
    /\ mode = "startup"
    /\ Undelivered # {}
    /\ MakeInstance({})
    /\ mode' = "draining"
    /\ UNCHANGED <<tableVars, loopVars, faultVars>>

StartupEnds ==
    /\ \/ mode = "startup" /\ Undelivered = {}
       \/ mode = "draining" /\ waking = 0 /\ pc[last] = "done"
    /\ mode' = "up"
    /\ UNCHANGED <<tableVars, loopVars, registryVars, agentVars, faultVars>>

(* Stranding: an error before wake_if_pending() marks the project degraded;  *)
(* a later session only starts the forwarder.                               *)
StartupFails ==
    /\ mode = "startup"
    /\ strands < MaxStrand
    /\ strands' = strands + 1
    /\ mode' = "up"
    /\ UNCHANGED <<tableVars, loopVars, registryVars, agentVars, crashes, retries>>

(* Every task there is or was has ended.                                    *)
AllEnded == pc' = [g \in Inst |-> IF pc[g] = "none" THEN "none" ELSE "done"]

(* Memory is lost; tables stay.                                             *)
Crash ==
    /\ crashes < MaxCrash
    /\ crashes' = crashes + 1
    /\ mode' = "startup"
    /\ round' = {} /\ wakes' = {} /\ signal' = FALSE
    /\ outbox' = [m \in Message |-> IF outbox[m] = "sent" THEN "ready" ELSE outbox[m]]
    /\ AllEnded
    /\ thread' = [g \in Inst |-> FALSE]
    /\ cur' = 0 /\ waking' = 0 /\ wakeFor' = {}
    /\ UNCHANGED <<mail, holder, applied, last, batch, fresh, retries, strands>>

(* shutdown_gateway_runtimes(): the forwarder is joined, then the agent is   *)
(* cancelled and its mailbox closed; its thread goes on.                    *)
Shutdown ==
    /\ mode = "up"
    /\ crashes < MaxCrash
    /\ waking = 0 /\ round = {} /\ \A m \in Message : outbox[m] # "sent"
    /\ crashes' = crashes + 1
    /\ mode' = "stopping"
    /\ wakes' = {}
    /\ mail' = [m \in Message |-> IF holder[m] # 0 /\ holder[m] = cur THEN "pending" ELSE mail[m]]
    /\ holder' = [m \in Message |-> IF holder[m] = cur THEN 0 ELSE holder[m]]
    /\ AllEnded
    /\ cur' = 0
    /\ UNCHANGED <<outbox, applied, round, signal, last, waking, wakeFor, batch, fresh, thread,
                   retries, strands>>

(* The interpreter waits for its threads; the next process starts.          *)
Restart ==
    /\ mode = "stopping"
    /\ \A g \in Inst : ~thread[g]
    /\ mode' = "startup"
    /\ signal' = FALSE
    /\ UNCHANGED <<tableVars, round, wakes, registryVars, agentVars, faultVars>>

AgentNext(g) ==
    \/ \E claims \in SUBSET Message : Claim(g, claims)
    \/ Empty(g) \/ Retire(g) \/ AgentEnds(g)
    \/ \E m \in Message : Ack(g, m)

Next ==
    \/ \E m \in Message : Produce(m) \/ Enqueue(m) \/ MarkDelivered(m)
    \/ EndRound \/ RoundFails \/ Advance
    \/ \E m \in Message : WakeReused(m) \/ WakeCreates(m)
    \/ WakeEnds \/ WakeFails
    \/ \E g \in Inst : AgentNext(g) \/ Apply(g) \/ ApplyFails(g) \/ AgentFails(g)
    \/ \E m \in Message : LeaseExpires(m) \/ RetryDue(m) \/ StartupPublish(m)
    \/ StartupWake \/ StartupEnds \/ StartupFails
    \/ Crash \/ Shutdown \/ Restart

Spec == Init /\ [][Next]_vars

(* The forwarder's loop, the agent's loop and startup go on; asyncio.Lock is  *)
(* fair; rows are claimed in order, so none is passed over for ever; leases   *)
(* and retries end; a batch does not fail or outlive its lease for ever (the *)
(* second delivery finds receipts and is quick).                            *)
Fairness ==
    /\ \A m \in Message :
         /\ WF_vars(Enqueue(m)) /\ WF_vars(MarkDelivered(m))
         /\ SF_vars(WakeReused(m) \/ WakeCreates(m))
         /\ WF_vars(LeaseExpires(m)) /\ WF_vars(RetryDue(m))
    /\ WF_vars(EndRound) /\ WF_vars(WakeEnds)
    /\ \A g \in Inst :
         /\ WF_vars(AgentNext(g))
         /\ WF_vars(Apply(g) \/ ApplyFails(g))
         /\ SF_vars(Apply(g) /\ \A m \in batch[g] : holder[m] = g)
         /\ \A m \in Message : /\ SF_vars(\E claims \in SUBSET Message : m \in claims /\ Claim(g, claims))
                               /\ SF_vars(holder[m] = g /\ Ack(g, m))
    /\ WF_vars(StartupWake \/ StartupEnds)
    /\ WF_vars(Restart)

FairSpec == Spec /\ Fairness

-----------------------------------------------------------------------------
(* However often a message is delivered (lost leases, crashes between the    *)
(* commit of a batch and its acks, threads that outlive their agent), it     *)
(* changes the map once, and it is acknowledged only after it did.          *)
AppliedOnce ==
    \A m \in Message :
        /\ applied[m] <= 1
        /\ mail[m] = "delivered" => applied[m] = 1

(* The registry never lets two generations of the map runtime live at once. *)
OneRuntime == \A g, h \in Inst : {pc[g], pc[h]} \cap {"none", "done"} = {} => g = h

(* No message is stranded: while the process serves and mail is unfinished,  *)
(* an agent runs that will look again before it retires, or the forwarder    *)
(* still owes a wake (retire_if_idle() against enqueue() and wake()).  After *)
(* a stranding failure the code does not promise it.                        *)
Covered ==
    mode = "up" /\ strands = 0 =>
        \/ Undelivered = {}
        \/ Owed # {}
        \/ round \cup wakes # {}
        \/ Running(cur)

(* Every READY intent is in the map in the end, and its mail acknowledged.   *)
Drained == \A m \in Message : (outbox[m] # "none") ~> (mail[m] = "delivered")
===============================================================================
