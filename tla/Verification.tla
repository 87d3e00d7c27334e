----------------------------- MODULE Verification -----------------------------
(***************************************************************************)
(* The modification gates of plan nodes and their verification:            *)
(* ModificationWorkflow (modification_workflow.py) says which event moves a  *)
(* gate where, ProjectPlanStore (store.py) keeps gates, test contracts and   *)
(* verification runs in plan.db, VerificationOrchestrator                   *)
(* (verification_orchestrator.py) runs what a gate asks for under a lease    *)
(* and applies the result.                                                  *)
(*                                                                         *)
(* Every store operation is one transaction, hence one action.  A worker is  *)
(* a loop of recover() (gateway.py); the loops of several processes share a  *)
(* plan.db.  Leases run out and retries fall due at any time.  The events    *)
(* no code of the repository raises (the callers of the workflow) may come   *)
(* at any time.                                                             *)
(***************************************************************************)
EXTENDS Naturals, Sequences, FiniteSets

CONSTANTS
    Node,         \* plan nodes
    Version,      \* test contract versions
    NoVersion,    \* SQL NULL in test_contract_version
    Worker,       \* orchestrator loops
    Broken,       \* nodes whose candidate result cannot be written, ever
    MaxAttempts,  \* attempts a run gets (5)
    MaxEvent,     \* bound: events from outside
    MaxRun,       \* bound: verification runs
    MaxFault      \* bound: crashes, errors and infrastructure failures

ASSUME VerificationAssumption ==
    /\ NoVersion \notin Version
    /\ IsFiniteSet(Node) /\ Node # {} /\ Broken \subseteq Node
    /\ MaxAttempts \in Nat \ {0}
    /\ MaxEvent \in Nat /\ MaxRun \in Nat /\ MaxFault \in Nat

VARIABLES
    state, revision, contract,  \* modification_workflows: contract is test_contract_version
    order,                      \* the nodes, least recently updated first
    contracts,                  \* test_contracts
    runs,                       \* verification_runs: the columns that identify a run
    rstate, attempt, outcome,   \* ... and those that change; a claim's token is its attempt
    leased, waiting,            \* runs whose lease lasts, whose next_retry_at is to come
    started, results,           \* runs whose started and result events are recorded
    submitted,                  \* the revision of a node's last submission
    verified,                   \* nodes that verify_node() completed
    pc,                         \* where a worker is in reconcile_node()
    todo, list,                 \* the workflows its recover() has still to do, in this order
    node, phase, seen,          \* node, phase, revision and version it works with
    run, mine, answer,          \* its run, lease token (0: lost) and result
    events, faults

gateVars == <<state, revision, contract, order, contracts>>
runVars == <<runs, rstate, attempt, outcome, leased, waiting>>
eventVars == <<started, results, submitted, verified>>
jobVars == <<todo, list, node, phase, seen>>
workerVars == <<pc, jobVars, run, mine, answer>>
vars == <<gateVars, runVars, eventVars, workerVars, events, faults>>

State == {"none", "TEST_AUTHORING", "TEST_CONTRACT_APPROVED", "RED_ALLOWED", "RED_VERIFYING",
          "RED_CONFIRMED", "IMPLEMENTING", "SUBMITTED", "FINAL_VERIFYING", "READY_TO_PUBLISH",
          "PUBLISHED", "VERIFICATION_BLOCKED"}

(* _TRANSITIONS: the states an event is allowed in, and where it leads.     *)
From(event) ==
    CASE event = "start" -> {"none"}
      [] event = "test_contract_approved" -> {"TEST_AUTHORING"}
      [] event = "red_allowed" -> {"TEST_CONTRACT_APPROVED"}
      [] event = "red_verification_started" -> {"RED_ALLOWED"}
      [] event \in {"red_confirmed", "invalid_test", "infrastructure_failed"} -> {"RED_VERIFYING"}
      [] event = "implementation_started" -> {"RED_CONFIRMED"}
      [] event = "submitted" -> {"IMPLEMENTING"}
      [] event = "final_verification_started" -> {"SUBMITTED"}
      [] event \in {"final_verification_passed", "final_verification_failed"} -> {"FINAL_VERIFYING"}
      [] event = "published" -> {"READY_TO_PUBLISH"}
      [] event = "baseline_expired" ->
           State \ {"none", "TEST_AUTHORING", "PUBLISHED", "VERIFICATION_BLOCKED"}
      [] event = "verification_retry_exhausted" -> {"RED_VERIFYING", "FINAL_VERIFYING"}

To(event) ==
    CASE event \in {"start", "invalid_test", "baseline_expired"} -> "TEST_AUTHORING"
      [] event = "test_contract_approved" -> "TEST_CONTRACT_APPROVED"
      [] event \in {"red_allowed", "infrastructure_failed"} -> "RED_ALLOWED"
      [] event = "red_verification_started" -> "RED_VERIFYING"
      [] event = "red_confirmed" -> "RED_CONFIRMED"
      [] event \in {"implementation_started", "final_verification_failed"} -> "IMPLEMENTING"
      [] event = "submitted" -> "SUBMITTED"
      [] event = "final_verification_started" -> "FINAL_VERIFYING"
      [] event = "final_verification_passed" -> "READY_TO_PUBLISH"
      [] event = "published" -> "PUBLISHED"
      [] event = "verification_retry_exhausted" -> "VERIFICATION_BLOCKED"

(* _TRIGGER, _RUNNING_PHASE, _ALLOWED_RESULT_EVENTS                         *)
Trigger(p) == IF p = "red" THEN "RED_ALLOWED" ELSE "SUBMITTED"
StartEvent(p) ==
    IF p = "red" THEN "red_verification_started" ELSE "final_verification_started"
Running(p) == IF p = "red" THEN "RED_VERIFYING" ELSE "FINAL_VERIFYING"
Phase == {"red", "final"}
Result(p) ==
    IF p = "red" THEN {"red_confirmed", "invalid_test", "infrastructure_failed", "baseline_expired"}
    ELSE {"final_verification_passed", "final_verification_failed", "baseline_expired"}
Recoverable == {Trigger(p) : p \in Phase} \cup {Running(p) : p \in Phase}

Run == 1 .. MaxRun
RunKey == [node: Node, phase: Phase, source: Nat, version: Version]
Pc == {"idle", "next", "enqueue", "start", "latest", "claim", "execute", "finish", "apply"}
Outcome == {"none", "temporary"} \cup Result("red") \cup Result("final")
Listing == [1 .. Cardinality(Node) -> Node]

TypeOK ==
    /\ state \in [Node -> State] /\ revision \in [Node -> Nat]
    /\ contract \in [Node -> Version \cup {NoVersion}]
    /\ order \in Listing
    /\ contracts \in [Node -> [Version -> {"none", "frozen", "invalidated"}]]
    /\ runs \in Seq(RunKey) /\ Len(runs) <= MaxRun
    /\ rstate \in [Run -> {"none", "queued", "running", "completed", "failed"}]
    /\ attempt \in [Run -> Nat] /\ outcome \in [Run -> Outcome]
    /\ leased \subseteq Run /\ waiting \subseteq Run
    /\ started \subseteq Run /\ results \subseteq Run
    /\ submitted \in [Node -> Nat] /\ verified \subseteq Node
    /\ pc \in [Worker -> Pc] /\ todo \in [Worker -> SUBSET Node]
    /\ list \in [Worker -> Listing] /\ node \in [Worker -> Node]
    /\ phase \in [Worker -> Phase]
    /\ seen \in [Worker -> [revision: Nat, version: Version \cup {NoVersion}]]
    /\ run \in [Worker -> 0 .. MaxRun]
    /\ mine \in [Worker -> Nat] /\ answer \in [Worker -> Outcome]
    /\ events \in 0 .. MaxEvent /\ faults \in 0 .. MaxFault

(* What a worker that does nothing remembers is of no account.              *)
Idle(w) ==
    /\ pc' = [pc EXCEPT ![w] = "idle"]
    /\ todo' = [todo EXCEPT ![w] = {}]
    /\ run' = [run EXCEPT ![w] = 0]
    /\ mine' = [mine EXCEPT ![w] = 0]
    /\ answer' = [answer EXCEPT ![w] = "none"]
    /\ UNCHANGED <<list, node, phase, seen>>

Init ==
    /\ state = [n \in Node |-> "none"] /\ revision = [n \in Node |-> 0]
    /\ contract = [n \in Node |-> NoVersion]
    /\ order \in Listing /\ \A n \in Node : \E i \in DOMAIN order : order[i] = n
    /\ contracts = [n \in Node |-> [v \in Version |-> "none"]]
    /\ runs = <<>> /\ rstate = [r \in Run |-> "none"] /\ attempt = [r \in Run |-> 0]
    /\ outcome = [r \in Run |-> "none"]
    /\ leased = {} /\ waiting = {} /\ started = {} /\ results = {}
    /\ submitted = [n \in Node |-> 0] /\ verified = {}
    /\ pc = [w \in Worker |-> "idle"] /\ todo = [w \in Worker |-> {}]
    /\ list = [w \in Worker |-> order] /\ node = [w \in Worker |-> order[1]]
    /\ phase = [w \in Worker |-> "red"]
    /\ seen = [w \in Worker |-> [revision |-> 0, version |-> NoVersion]]
    /\ run = [w \in Worker |-> 0] /\ mine = [w \in Worker |-> 0]
    /\ answer = [w \in Worker |-> "none"]
    /\ events = 0 /\ faults = 0

-----------------------------------------------------------------------------
(* The store.                                                               *)

(* updated_at of n is now the latest.                                       *)
Touch(n) ==
    \E k \in DOMAIN order :
        /\ order[k] = n
        /\ order' = [i \in DOMAIN order |-> IF i < k THEN order[i]
                                            ELSE IF i < Cardinality(Node) THEN order[i + 1] ELSE n]

Frozen(n, v) == contracts[n][v] = "frozen"

(* What an event does to the contract a gate is bound to.                   *)
Rebind(n, event) ==
    CASE event = "test_contract_approved" ->
           /\ \E v \in Version : Frozen(n, v) /\ contract' = [contract EXCEPT ![n] = v]
           /\ UNCHANGED contracts
      [] event = "red_allowed" ->
           /\ \E v \in Version : Frozen(n, v) /\ contract[n] = v
           /\ UNCHANGED <<contract, contracts>>
      [] event \in {"invalid_test", "baseline_expired"} ->
           /\ contract' = [contract EXCEPT ![n] = NoVersion]
           /\ contracts' = [contracts EXCEPT ![n] =
                [v \in Version |-> IF v = contract[n] /\ Frozen(n, v) THEN "invalidated" ELSE @[v]]]
      [] OTHER -> UNCHANGED <<contract, contracts>>

(* apply_modification_transition() of an event that is not recorded yet.    *)
Transition(n, event) ==
    /\ state[n] \in From(event)
    /\ Rebind(n, event)
    /\ state' = [state EXCEPT ![n] = To(event)]
    /\ revision' = [revision EXCEPT ![n] = @ + 1]
    /\ Touch(n)

(* latest_verification_run()                                                *)
Latest(n, r) ==
    /\ r \in DOMAIN runs /\ runs[r].node = n
    /\ \A s \in DOMAIN runs : runs[s].node = n => s <= r

Owns(w) == rstate[run[w]] = "running" /\ attempt[run[w]] = mine[w]

-----------------------------------------------------------------------------
(* The callers of the workflow: planner, implementing agent, reviewers, and  *)
(* the gateway, which submits the candidate of a finished child.            *)

Outside == {"start", "test_contract_approved", "red_allowed", "implementation_started",
            "submitted", "published", "baseline_expired"}

Event(n, event) ==
    /\ events < MaxEvent
    /\ events' = events + 1
    /\ Transition(n, event)
    /\ submitted' = [submitted EXCEPT ![n] = IF event = "submitted" THEN revision[n] + 1 ELSE @]
    /\ UNCHANGED <<runVars, started, results, verified, workerVars, faults>>

FreezeTestContract(n, v) ==
    /\ events < MaxEvent
    /\ events' = events + 1
    /\ contracts[n][v] = "none"
    /\ \A u \in Version : ~Frozen(n, u)
    /\ contracts' = [contracts EXCEPT ![n][v] = "frozen"]
    /\ UNCHANGED <<state, revision, contract, order, runVars, eventVars, workerVars, faults>>

InvalidateTestContract(n, v) ==
    /\ events < MaxEvent
    /\ events' = events + 1
    /\ Frozen(n, v)
    /\ contracts' = [contracts EXCEPT ![n][v] = "invalidated"]
    /\ UNCHANGED <<state, revision, contract, order, runVars, eventVars, workerVars, faults>>

VerifyNode(n) ==
    /\ n \notin verified
    /\ state[n] \in {"READY_TO_PUBLISH", "PUBLISHED"}
    /\ verified' = verified \cup {n}
    /\ UNCHANGED <<gateVars, runVars, started, results, submitted, workerVars, events, faults>>

-----------------------------------------------------------------------------
(* The orchestrator.                                                        *)

Goto(w, label) == pc' = [pc EXCEPT ![w] = label]

(* recover() lists the workflows to look at; an empty list changes nothing. *)
Recover(w) ==
    /\ pc[w] = "idle"
    /\ \E n \in Node : state[n] \in Recoverable
    /\ todo' = [todo EXCEPT ![w] = {n \in Node : state[n] \in Recoverable}]
    /\ list' = [list EXCEPT ![w] = order]
    /\ Goto(w, "next")
    /\ UNCHANGED <<gateVars, runVars, eventVars, node, phase, seen, run, mine, answer, events, faults>>

Done(w) ==
    /\ pc[w] = "next"
    /\ todo[w] = {}
    /\ Idle(w)
    /\ UNCHANGED <<gateVars, runVars, eventVars, events, faults>>

FirstOf(w, n) ==
    /\ n \in todo[w]
    /\ \E i \in DOMAIN list[w] : list[w][i] = n /\ \A j \in 1 .. i - 1 : list[w][j] \notin todo[w]

(* reconcile_node() reads the gate; one that moved on is skipped.           *)
Read(w, n) ==
    /\ pc[w] = "next"
    /\ FirstOf(w, n)
    /\ todo' = [todo EXCEPT ![w] = @ \ {n}]
    /\ node' = [node EXCEPT ![w] = n]
    /\ seen' = [seen EXCEPT ![w] = [revision |-> revision[n], version |-> contract[n]]]
    /\ \/ \E p \in Phase : /\ state[n] = Trigger(p)
                           /\ phase' = [phase EXCEPT ![w] = p] /\ Goto(w, "enqueue")
       \/ \E p \in Phase : /\ state[n] = Running(p)
                           /\ phase' = [phase EXCEPT ![w] = p] /\ Goto(w, "latest")
       \/ state[n] \notin Recoverable /\ UNCHANGED <<phase, pc>>
    /\ UNCHANGED <<gateVars, runVars, eventVars, list, run, mine, answer, events, faults>>

(* Fault: source_revision and contract_version are missing from the key.    *)
EnqueueByPhase(w) ==
    /\ pc[w] = "enqueue"
    /\ LET key == [node |-> node[w], phase |-> phase[w],
                    source |-> seen[w].revision, version |-> seen[w].version]
           same == {r \in DOMAIN runs : runs[r].node = key.node /\ runs[r].phase = key.phase}
       IN  \/ \E r \in same : run' = [run EXCEPT ![w] = r] /\ UNCHANGED <<runs, rstate>>
           \/ /\ Len(runs) < MaxRun /\ same = {}
              /\ runs' = Append(runs, key)
              /\ rstate' = [rstate EXCEPT ![Len(runs) + 1] = "queued"]
              /\ run' = [run EXCEPT ![w] = Len(runs) + 1]
    /\ Goto(w, "start")
    /\ UNCHANGED <<gateVars, attempt, outcome, leased, waiting, eventVars, jobVars, mine, answer,
                   events, faults>>

(* enqueue_verification_run(): one run for a revision of a gate.            *)
Enqueue(w) ==
    /\ pc[w] = "enqueue"
    /\ LET key == [node |-> node[w], phase |-> phase[w],
                    source |-> seen[w].revision, version |-> seen[w].version]
       IN  \/ \E r \in DOMAIN runs : /\ runs[r] = key
                                    /\ run' = [run EXCEPT ![w] = r]
                                    /\ UNCHANGED <<runs, rstate>>
           \/ /\ Len(runs) < MaxRun /\ \A r \in DOMAIN runs : runs[r] # key
              /\ runs' = Append(runs, key)
              /\ rstate' = [rstate EXCEPT ![Len(runs) + 1] = "queued"]
              /\ run' = [run EXCEPT ![w] = Len(runs) + 1]
    /\ Goto(w, "start")
    /\ UNCHANGED <<gateVars, attempt, outcome, leased, waiting, eventVars, jobVars, mine, answer,
                   events, faults>>

(* The gate is moved into its verifying state.  If another worker recorded   *)
(* that event, its answer is repeated; if the gate is at another revision,   *)
(* it is read again.                                                        *)
Start(w) ==
    /\ pc[w] = "start"
    /\ \/ /\ run[w] \in started
          /\ Goto(w, "latest")
          /\ UNCHANGED <<gateVars, started, phase>>
       \/ /\ run[w] \notin started
          /\ revision[node[w]] = seen[w].revision
          /\ Transition(node[w], StartEvent(phase[w]))
          /\ started' = started \cup {run[w]}
          /\ Goto(w, "latest")
          /\ UNCHANGED phase
       \/ /\ run[w] \notin started
          /\ revision[node[w]] # seen[w].revision
          /\ \/ \E p \in Phase : /\ state[node[w]] = Running(p)
                                 /\ phase' = [phase EXCEPT ![w] = p] /\ Goto(w, "latest")
             \/ /\ \A p \in Phase : state[node[w]] # Running(p)
                /\ Goto(w, "next") /\ UNCHANGED phase
          /\ UNCHANGED <<gateVars, started>>
    /\ UNCHANGED <<runVars, results, submitted, verified, todo, list, node, seen, run, mine, answer,
                   events, faults>>

(* status(): the newest run must be of the phase, or recover() is given up. *)
LookUp(w) ==
    /\ pc[w] = "latest"
    /\ IF \E r \in DOMAIN runs : Latest(node[w], r) /\ runs[r].phase = phase[w]
       THEN \E r \in DOMAIN runs :
              /\ Latest(node[w], r)
              /\ run' = [run EXCEPT ![w] = r]
              /\ answer' = [answer EXCEPT ![w] = outcome[r]]
              /\ Goto(w, IF rstate[r] = "completed" THEN "apply" ELSE "claim")
              /\ UNCHANGED <<jobVars, mine>>
       ELSE Idle(w)
    /\ UNCHANGED <<gateVars, runVars, eventVars, events, faults>>

(* Fault: a run whose worker died is not taken over.                        *)
ClaimableQueued(r) == rstate[r] = "queued" /\ r \notin waiting

Claimable(r) ==
    \/ rstate[r] = "queued" /\ r \notin waiting
    \/ rstate[r] = "running" /\ r \notin leased

(* Fault: the lease token is not a fresh one.                               *)
ClaimSameToken(w) ==
    /\ pc[w] = "claim"
    /\ IF Claimable(run[w])
       THEN /\ rstate' = [rstate EXCEPT ![run[w]] = "running"]
            /\ attempt' = [attempt EXCEPT ![run[w]] = IF @ = 0 THEN 1 ELSE @]
            /\ leased' = leased \cup {run[w]}
            /\ mine' = [mine EXCEPT ![w] = attempt'[run[w]]]
            /\ Goto(w, "execute")
       ELSE Goto(w, "next") /\ UNCHANGED <<rstate, attempt, leased, mine>>
    /\ UNCHANGED <<gateVars, runs, outcome, waiting, eventVars, jobVars, run, answer, events, faults>>

Claim(w) ==
    /\ pc[w] = "claim"
    /\ IF Claimable(run[w])
       THEN /\ rstate' = [rstate EXCEPT ![run[w]] = "running"]
            /\ attempt' = [attempt EXCEPT ![run[w]] = @ + 1]
            /\ leased' = leased \cup {run[w]}
            /\ mine' = [mine EXCEPT ![w] = attempt[run[w]] + 1]
            /\ Goto(w, "execute")
       ELSE Goto(w, "next") /\ UNCHANGED <<rstate, attempt, leased, mine>>
    /\ UNCHANGED <<gateVars, runs, outcome, waiting, eventVars, jobVars, run, answer, events, faults>>

(* The executor answers; a container that is not available is "temporary".  *)
Execute(w, a) ==
    /\ pc[w] = "execute"
    /\ a \in Result(phase[w]) \cup {"temporary"}
    /\ a = "infrastructure_failed" => faults < MaxFault
    /\ faults' = IF a = "infrastructure_failed" THEN faults + 1 ELSE faults
    /\ answer' = [answer EXCEPT ![w] = a]
    /\ Goto(w, "finish")
    /\ UNCHANGED <<gateVars, runVars, eventVars, jobVars, run, mine, events>>

(* Any other error of the executor ends recover(); the run stays as it is.  *)
ExecuteRaises(w) ==
    /\ pc[w] = "execute"
    /\ faults < MaxFault
    /\ faults' = faults + 1
    /\ Idle(w)
    /\ UNCHANGED <<gateVars, runVars, eventVars, events>>

(* _renew_lease_until_stopped() finds that the lease ran out or went over to *)
(* another worker; a renewal in time changes nothing here.                  *)
LeaseLost(w) ==
    /\ pc[w] = "execute"
    /\ mine[w] # 0
    /\ ~(Owns(w) /\ run[w] \in leased)
    /\ mine' = [mine EXCEPT ![w] = 0]
    /\ UNCHANGED <<gateVars, runVars, eventVars, pc, jobVars, run, answer, events, faults>>

(* A result without a lease is dropped.                                     *)
Discard(w) ==
    /\ pc[w] = "finish"
    /\ mine[w] = 0
    /\ Goto(w, "next")
    /\ UNCHANGED <<gateVars, runVars, eventVars, jobVars, run, mine, answer, events, faults>>

(* Fault: a state that claim_verification_run() does not know.              *)
DeferUnknownState(w) ==
    /\ pc[w] = "finish" /\ mine[w] # 0 /\ answer[w] = "temporary"
    /\ Owns(w)
    /\ attempt[run[w]] < MaxAttempts
    /\ rstate' = [rstate EXCEPT ![run[w]] = "deferred"]
    /\ leased' = leased \ {run[w]}
    /\ waiting' = waiting \cup {run[w]}
    /\ Goto(w, "next")
    /\ UNCHANGED <<gateVars, runs, attempt, outcome, eventVars, jobVars, run, mine, answer, events, faults>>

(* defer_verification_run()                                                 *)
Defer(w) ==
    /\ pc[w] = "finish" /\ mine[w] # 0 /\ answer[w] = "temporary"
    /\ Owns(w)
    /\ attempt[run[w]] < MaxAttempts
    /\ rstate' = [rstate EXCEPT ![run[w]] = "queued"]
    /\ leased' = leased \ {run[w]}
    /\ waiting' = waiting \cup {run[w]}
    /\ Goto(w, "next")
    /\ UNCHANGED <<gateVars, runs, attempt, outcome, eventVars, jobVars, run, mine, answer, events, faults>>

(* ... whose last attempt it was: run and gate are closed in one             *)
(* transaction, or neither is.                                              *)
GiveUp(w) ==
    /\ pc[w] = "finish" /\ mine[w] # 0 /\ answer[w] = "temporary"
    /\ Owns(w)
    /\ attempt[run[w]] >= MaxAttempts
    /\ IF state[node[w]] = Running(phase[w])
       THEN /\ rstate' = [rstate EXCEPT ![run[w]] = "failed"]
            /\ leased' = leased \ {run[w]}
            /\ Transition(node[w], "verification_retry_exhausted")
            /\ Goto(w, "next")
            /\ UNCHANGED <<jobVars, run, mine, answer>>
       ELSE Idle(w) /\ UNCHANGED <<gateVars, rstate, leased>>
    /\ UNCHANGED <<runs, attempt, outcome, waiting, eventVars, events, faults>>

(* Fault: the UPDATE looks at the run alone.                                *)
CompleteUnfenced(w) ==
    /\ pc[w] = "finish" /\ mine[w] # 0 /\ answer[w] # "temporary"
    /\ rstate' = [rstate EXCEPT ![run[w]] = "completed"]
    /\ outcome' = [outcome EXCEPT ![run[w]] = answer[w]]
    /\ leased' = leased \ {run[w]}
    /\ Goto(w, "apply")
    /\ UNCHANGED <<gateVars, runs, attempt, waiting, eventVars, jobVars, run, mine, answer, events, faults>>

(* complete_verification_run(): the outcome is recorded under the lease; if  *)
(* the run has one already, that one stands.                                *)
Complete(w) ==
    /\ pc[w] = "finish" /\ mine[w] # 0 /\ answer[w] # "temporary"
    /\ Owns(w) \/ rstate[run[w]] = "completed"
    /\ rstate' = [rstate EXCEPT ![run[w]] = "completed"]
    /\ outcome' = [outcome EXCEPT ![run[w]] = IF Owns(w) THEN answer[w] ELSE @]
    /\ leased' = IF Owns(w) THEN leased \ {run[w]} ELSE leased
    /\ answer' = [answer EXCEPT ![w] = outcome'[run[w]]]
    /\ Goto(w, "apply")
    /\ UNCHANGED <<gateVars, runs, attempt, waiting, eventVars, jobVars, run, mine, events, faults>>

(* verification_lease_lost ends recover().                                  *)
FinishConflict(w) ==
    /\ pc[w] = "finish" /\ mine[w] # 0
    /\ ~Owns(w)
    /\ answer[w] # "temporary" => rstate[run[w]] # "completed"
    /\ Idle(w)
    /\ UNCHANGED <<gateVars, runVars, eventVars, events, faults>>

(* _apply_authoritative_result(): the result of a final run is written to    *)
(* the candidate first; an event that is recorded changes nothing, one that  *)
(* the gate does not allow ends recover().                                  *)
Apply(w) ==
    /\ pc[w] = "apply"
    /\ IF (phase[w] = "final" /\ node[w] \in Broken)
            \/ (run[w] \notin results /\ state[node[w]] \notin From(answer[w]))
       THEN Idle(w) /\ UNCHANGED <<gateVars, results>>
       ELSE /\ Goto(w, "next")
            /\ IF run[w] \in results
               THEN UNCHANGED <<gateVars, results>>
               ELSE /\ Transition(node[w], answer[w])
                    /\ results' = results \cup {run[w]}
            /\ UNCHANGED <<jobVars, run, mine, answer>>
    /\ UNCHANGED <<runVars, started, submitted, verified, events, faults>>

(* Writing the candidate's result fails this time.                          *)
PersistFails(w) ==
    /\ pc[w] = "apply" /\ phase[w] = "final"
    /\ faults < MaxFault
    /\ faults' = faults + 1
    /\ Idle(w)
    /\ UNCHANGED <<gateVars, runVars, eventVars, events>>

Crash(w) ==
    /\ pc[w] # "idle"
    /\ faults < MaxFault
    /\ faults' = faults + 1
    /\ Idle(w)
    /\ UNCHANGED <<gateVars, runVars, eventVars, events>>

(* The clock.  The lease of a worker that renews it runs out only when the    *)
(* worker is held up.                                                       *)
Renewed(r) == \E w \in Worker : pc[w] \in {"execute", "finish"} /\ run[w] = r /\ mine[w] = attempt[r]

LeaseExpires(r) ==
    /\ r \in leased
    /\ Renewed(r) => faults < MaxFault
    /\ faults' = IF Renewed(r) THEN faults + 1 ELSE faults
    /\ leased' = leased \ {r}
    /\ UNCHANGED <<gateVars, runs, rstate, attempt, outcome, waiting, eventVars, workerVars, events>>

RetryDue(r) ==
    /\ r \in waiting
    /\ waiting' = waiting \ {r}
    /\ UNCHANGED <<gateVars, runs, rstate, attempt, outcome, leased, eventVars, workerVars, events, faults>>

WorkerNext(w) ==
    \/ Recover(w) \/ Done(w) \/ \E n \in Node : Read(w, n)
    \/ Enqueue(w) \/ Start(w) \/ LookUp(w) \/ Claim(w)
    \/ \E a \in Outcome : Execute(w, a)
    \/ Discard(w) \/ Defer(w) \/ GiveUp(w) \/ Complete(w) \/ FinishConflict(w) \/ Apply(w)

Next ==
    \/ \E n \in Node, event \in Outside : Event(n, event)
    \/ \E n \in Node, v \in Version : FreezeTestContract(n, v) \/ InvalidateTestContract(n, v)
    \/ \E n \in Node : VerifyNode(n)
    \/ \E w \in Worker : WorkerNext(w) \/ ExecuteRaises(w) \/ LeaseLost(w) \/ PersistFails(w) \/ Crash(w)
    \/ \E r \in Run : LeaseExpires(r) \/ RetryDue(r)

Spec == Init /\ [][Next]_vars

(* The loop of the gateway goes on after every error, and time passes.      *)
Fairness ==
    /\ \A w \in Worker : WF_vars(WorkerNext(w))
    /\ \A r \in Run : WF_vars(LeaseExpires(r)) /\ WF_vars(RetryDue(r))

FairSpec == Spec /\ Fairness

-----------------------------------------------------------------------------
(* A completed run keeps its outcome: neither a worker whose lease ran out    *)
(* nor a second claim replaces the one authoritative result.                *)
OutcomeStays ==
    [][\A r \in Run : rstate[r] = "completed" =>
          rstate'[r] = "completed" /\ outcome'[r] = outcome[r]]_vars

(* However leases run out and are taken over, at most one worker can still    *)
(* record the outcome of a run.                                             *)
OneOwner ==
    \A w, x \in Worker :
        /\ pc[w] \in {"execute", "finish"} /\ mine[w] # 0 /\ Owns(w)
        /\ pc[x] \in {"execute", "finish"} /\ mine[x] # 0 /\ Owns(x)
        /\ run[w] = run[x]
        => w = x

Recorded(n, p, event, v) ==
    \E r \in DOMAIN runs : /\ runs[r].node = n /\ runs[r].phase = p /\ runs[r].version = v
                          /\ rstate[r] = "completed" /\ outcome[r] = event

(* The gates cannot be passed without the test: implementation starts only   *)
(* after the tests of the bound contract were seen failing, publication is   *)
(* ready only after they passed for the candidate that was submitted last,   *)
(* and a verified node had both.                                            *)
EvidenceOfGate ==
    \A n \in Node :
        /\ state[n] \in {"RED_CONFIRMED", "IMPLEMENTING", "SUBMITTED", "FINAL_VERIFYING",
                         "READY_TO_PUBLISH", "PUBLISHED"} =>
              Recorded(n, "red", "red_confirmed", contract[n])
        /\ state[n] \in {"READY_TO_PUBLISH", "PUBLISHED"} =>
              \E r \in DOMAIN runs :
                 /\ runs[r] = [node |-> n, phase |-> "final", source |-> submitted[n], version |-> contract[n]]
                 /\ outcome[r] = "final_verification_passed"
        /\ n \in verified => \E v \in Version : /\ Recorded(n, "red", "red_confirmed", v)
                                              /\ Recorded(n, "final", "final_verification_passed", v)

(* A gate that waits for its verification gets a decision in the end.       *)
GateDecides == \A n \in Node \ Broken : state[n] \in Recoverable ~> state[n] \notin Recoverable
===============================================================================
