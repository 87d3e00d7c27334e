--------------------------- MODULE VerificationProofs ---------------------------
(***************************************************************************)
(* Proofs about the verification gates, for any number of nodes, contracts, *)
(* runs, orchestrators and faults.                                          *)
(***************************************************************************)
EXTENDS Verification, FiniteSetTheorems, TLAPS

USE DEF gateVars, runVars, eventVars, jobVars, workerVars, Run

-----------------------------------------------------------------------------
(* Types.  They are not inductive by themselves: what a worker appends to    *)
(* the runs and which event it applies depend on where it is.               *)

GateType ==
    /\ state \in [Node -> State] /\ revision \in [Node -> Nat]
    /\ contract \in [Node -> Version \cup {NoVersion}]
    /\ order \in Listing
    /\ contracts \in [Node -> [Version -> {"none", "frozen", "invalidated"}]]

RunType ==
    /\ runs \in Seq(RunKey) /\ Len(runs) <= MaxRun
    /\ rstate \in [Run -> {"none", "queued", "running", "completed", "failed"}]
    /\ attempt \in [Run -> Nat] /\ outcome \in [Run -> Outcome]
    /\ leased \subseteq Run /\ waiting \subseteq Run

NoteType ==
    /\ started \subseteq Run /\ results \subseteq Run
    /\ submitted \in [Node -> Nat] /\ verified \subseteq Node
    /\ events \in 0 .. MaxEvent /\ faults \in 0 .. MaxFault

WorkerType ==
    /\ pc \in [Worker -> Pc] /\ todo \in [Worker -> SUBSET Node]
    /\ list \in [Worker -> Listing] /\ node \in [Worker -> Node]
    /\ phase \in [Worker -> Phase]
    /\ seen \in [Worker -> [revision: Nat, version: Version \cup {NoVersion}]]
    /\ run \in [Worker -> 0 .. MaxRun]
    /\ mine \in [Worker -> Nat] /\ answer \in [Worker -> Outcome]

LEMMA TypeParts == TypeOK <=> GateType /\ RunType /\ NoteType /\ WorkerType
  BY DEF TypeOK, GateType, RunType, NoteType, WorkerType

(* What a run may decide.                                                   *)
Decision == Result("red") \cup Result("final")

(* A gate beyond the authoring of its tests is bound to a contract.         *)
Bound == \A n \in Node : state[n] \notin {"none", "TEST_AUTHORING"} => contract[n] \in Version

(* A worker has a run, a contract, an answer where it uses them.            *)
WorksAt(w) ==
    /\ pc[w] = "enqueue" => seen[w].version \in Version
    /\ pc[w] \in {"start", "claim", "execute", "finish", "apply"} => run[w] \in 1 .. Len(runs)
    /\ pc[w] = "finish" => answer[w] \in Decision \cup {"temporary"}
    /\ pc[w] = "apply" => answer[w] \in Decision

Working == \A w \in Worker : WorksAt(w)

(* A completed run has an outcome.                                          *)
Decided == \A r \in Run : rstate[r] = "completed" => outcome[r] \in Decision

TypeInv == GateType /\ RunType /\ NoteType /\ WorkerType /\ Bound /\ Working /\ Decided

Happening == Outside \cup Decision \cup {"red_verification_started",
               "final_verification_started", "verification_retry_exhausted"}

LEMMA NodesAreCounted == Cardinality(Node) \in Nat \ {0} /\ \A o \in Listing : o[1] \in Node
  <1>1. Cardinality(Node) \in Nat BY VerificationAssumption, FS_CardinalityType
  <1>2. Cardinality(Node) # 0 BY VerificationAssumption, FS_EmptySet
  <1>3. QED BY <1>1, <1>2 DEF Listing

LEMMA DecisionType == Decision \subseteq Outcome /\ "temporary" \in Outcome /\ "none" \in Outcome
  BY DEF Decision, Outcome

(* Where events lead, and from where.                                       *)
LEMMA EventsLead ==
  ASSUME NEW event \in Happening
  PROVE  /\ To(event) \in State
         /\ event \notin {"start", "invalid_test", "baseline_expired", "test_contract_approved"}
              => From(event) \cap {"none", "TEST_AUTHORING"} = {}
         /\ event \in {"start", "invalid_test", "baseline_expired"} => To(event) = "TEST_AUTHORING"
  BY DEF Happening, Outside, Decision, Result, To, From, State

(* A transition keeps the types of the gate and binds it to a contract.     *)
LEMMA TransitionKeeps ==
  ASSUME GateType, Bound, NEW n \in Node, NEW event \in Happening, Transition(n, event)
  PROVE  GateType' /\ Bound'
  <1> DEFINE ends == event \in {"invalid_test", "baseline_expired"}
  <1>1. /\ To(event) \in State
        /\ event \notin {"start", "invalid_test", "baseline_expired", "test_contract_approved"}
             => From(event) \cap {"none", "TEST_AUTHORING"} = {}
        /\ event \in {"start", "invalid_test", "baseline_expired"} => To(event) = "TEST_AUTHORING"
    BY EventsLead
  <1>2. order' \in Listing
    <2>1. PICK k \in DOMAIN order :
            order' = [i \in DOMAIN order |-> IF i < k THEN order[i]
                                              ELSE IF i < Cardinality(Node) THEN order[i + 1] ELSE n]
      BY DEF Transition, Touch
    <2>2. DOMAIN order = 1 .. Cardinality(Node) BY DEF GateType, Listing
    <2>3. QED BY <2>1, <2>2, NodesAreCounted DEF GateType, Listing
  <1>3. /\ contract' \in [Node -> Version \cup {NoVersion}]
        /\ contracts' \in [Node -> [Version -> {"none", "frozen", "invalidated"}]]
    <2>1. CASE event = "test_contract_approved" BY <2>1 DEF GateType, Transition, Rebind
    <2>2. CASE event = "red_allowed" BY <2>2 DEF GateType, Transition, Rebind
    <2>3. CASE ends
      <3>1. contract' = [contract EXCEPT ![n] = NoVersion] BY <2>3 DEF Transition, Rebind
      <3>2. PICK f : /\ f = [v \in Version |-> IF v = contract[n] /\ Frozen(n, v) THEN "invalidated"
                                                ELSE contracts[n][v]]
                     /\ contracts' = [contracts EXCEPT ![n] = f]
        BY <2>3 DEF Transition, Rebind
      <3>3. contracts[n] \in [Version -> {"none", "frozen", "invalidated"}] BY DEF GateType
      <3>4. f \in [Version -> {"none", "frozen", "invalidated"}] BY <3>2, <3>3
      <3>5. QED BY <3>1, <3>2, <3>4 DEF GateType
    <2>4. CASE ~ends /\ event \notin {"test_contract_approved", "red_allowed"}
      BY <2>4 DEF GateType, Transition, Rebind
    <2>5. QED BY <2>1, <2>2, <2>3, <2>4
  <1>4. GateType'
    <2>1. state' \in [Node -> State] BY <1>1 DEF GateType, Transition
    <2>2. revision' \in [Node -> Nat] BY DEF GateType, Transition
    <2>3. QED BY <1>2, <1>3, <2>1, <2>2, Zenon DEF GateType
  <1>5. To(event) \notin {"none", "TEST_AUTHORING"} => contract'[n] \in Version
    <2>1. CASE event = "test_contract_approved" BY <2>1 DEF GateType, Transition, Rebind
    <2>2. CASE event = "red_allowed" BY <2>2 DEF GateType, Transition, Rebind
    <2>3. CASE event \in {"start", "invalid_test", "baseline_expired"} BY <1>1, <2>3
    <2>4. CASE event \notin {"start", "invalid_test", "baseline_expired", "test_contract_approved", "red_allowed"}
      BY <1>1, <2>4 DEF GateType, Bound, Transition, Rebind
    <2>5. QED BY <2>1, <2>2, <2>3, <2>4
  <1>6. \A m \in Node : m # n => contract'[m] = contract[m] /\ state'[m] = state[m]
    <2>1. CASE event = "test_contract_approved" BY <2>1 DEF GateType, Transition, Rebind
    <2>2. CASE event = "red_allowed" BY <2>2 DEF GateType, Transition, Rebind
    <2>3. CASE ends BY <2>3 DEF GateType, Transition, Rebind
    <2>4. CASE ~ends /\ event \notin {"test_contract_approved", "red_allowed"}
      BY <2>4 DEF GateType, Transition, Rebind
    <2>5. QED BY <2>1, <2>2, <2>3, <2>4
  <1>7. state'[n] = To(event) BY DEF GateType, Transition
  <1>8. QED BY <1>4, <1>5, <1>6, <1>7 DEF Bound

(* A worker that works on a run has one.                                    *)
LEMMA RunsExist ==
  ASSUME TypeInv
  PROVE  /\ Len(runs) \in Nat /\ DOMAIN runs = 1 .. Len(runs) /\ DOMAIN runs \subseteq Run
         /\ \A w \in Worker : pc[w] \in {"start", "claim", "execute", "finish", "apply"} =>
                              run[w] \in DOMAIN runs /\ run[w] \in Run
  BY VerificationAssumption DEF TypeInv, RunType, Working, WorksAt

(* A worker that stops keeps its types.                                     *)
LEMMA IdleKeeps ==
  ASSUME TypeInv, NEW w \in Worker, Idle(w)
  PROVE  WorkerType'
  BY VerificationAssumption, DecisionType DEF TypeInv, WorkerType, Idle, Pc

LEMMA TypeInit == Init => TypeInv
  <1> SUFFICES ASSUME Init PROVE TypeInv OBVIOUS
  <1>1. GateType BY VerificationAssumption DEF Init, GateType, State
  <1>2. RunType BY VerificationAssumption, DecisionType DEF Init, RunType
  <1>3. NoteType BY VerificationAssumption DEF Init, NoteType
  <1>4. WorkerType BY VerificationAssumption, NodesAreCounted, DecisionType DEF Init, WorkerType, Pc, Phase
  <1>5. Bound /\ Working /\ Decided BY DEF Init, Bound, Working, WorksAt, Decided
  <1>6. QED BY <1>1, <1>2, <1>3, <1>4, <1>5 DEF TypeInv

LEMMA GateStep ==
  ASSUME TypeInv, [Next]_vars
  PROVE  GateType' /\ Bound'
  <1>1. ASSUME NEW n \in Node, NEW event \in Outside, Event(n, event)
       PROVE  GateType' /\ Bound'
      <2>1. event \in Happening BY DEF Happening
      <2>2. QED BY <1>1, <2>1, TransitionKeeps DEF TypeInv, Event
  <1>2. ASSUME NEW n \in Node, NEW v \in Version, FreezeTestContract(n, v) \/
    InvalidateTestContract(n, v)
       PROVE  GateType' /\ Bound'
    <2>1. CASE FreezeTestContract(n, v) BY <2>1 DEF TypeInv, GateType, Bound, FreezeTestContract
    <2>2. CASE InvalidateTestContract(n, v) BY <2>2 DEF TypeInv, GateType, Bound,
      InvalidateTestContract
    <2>q. QED BY <1>2, <2>1, <2>2
  <1>3. ASSUME NEW n \in Node, VerifyNode(n)
       PROVE  GateType' /\ Bound'
    BY <1>3 DEF TypeInv, GateType, Bound, VerifyNode
  <1>4. ASSUME NEW w \in Worker, Recover(w) \/ Done(w) \/ Enqueue(w) \/ Start(w) \/ LookUp(w) \/
    Claim(w) \/ Discard(w) \/ Defer(w) \/ GiveUp(w) \/ Complete(w) \/ FinishConflict(w) \/
    Apply(w) \/ ExecuteRaises(w) \/ LeaseLost(w) \/ PersistFails(w) \/ Crash(w)
       PROVE  GateType' /\ Bound'
    <2>1. CASE Recover(w) BY <2>1 DEF TypeInv, GateType, Bound, Recover, Goto
    <2>2. CASE Done(w) BY <2>2 DEF TypeInv, GateType, Bound, Done, Idle
    <2>3. CASE Enqueue(w) BY <2>3 DEF TypeInv, GateType, Bound, Enqueue, Goto
    <2>4. CASE Start(w)
      <3>1. CASE UNCHANGED gateVars BY <3>1 DEF TypeInv, GateType, Bound
      <3>2. CASE Transition(node[w], StartEvent(phase[w]))
        <4>1. node[w] \in Node /\ StartEvent(phase[w]) \in Happening
          BY DEF TypeInv, WorkerType, Phase, StartEvent, Happening
        <4>2. QED BY <3>2, <4>1, TransitionKeeps DEF TypeInv
      <3>3. QED BY <2>4, <3>1, <3>2 DEF Start
    <2>5. CASE LookUp(w) BY <2>5 DEF TypeInv, GateType, Bound, LookUp, Goto, Idle
    <2>6. CASE Claim(w) BY <2>6 DEF TypeInv, GateType, Bound, Claim, Goto
    <2>7. CASE Discard(w) BY <2>7 DEF TypeInv, GateType, Bound, Discard, Goto
    <2>8. CASE Defer(w) BY <2>8 DEF TypeInv, GateType, Bound, Defer, Goto
    <2>9. CASE GiveUp(w)
      <3>1. CASE UNCHANGED gateVars BY <3>1 DEF TypeInv, GateType, Bound
      <3>2. CASE Transition(node[w], "verification_retry_exhausted")
        <4>1. node[w] \in Node BY DEF TypeInv, WorkerType
        <4>2. QED BY <3>2, <4>1, TransitionKeeps DEF TypeInv, Happening
      <3>3. QED BY <2>9, <3>1, <3>2 DEF GiveUp
    <2>10. CASE Complete(w) BY <2>10 DEF TypeInv, GateType, Bound, Complete, Goto
    <2>11. CASE FinishConflict(w) BY <2>11 DEF TypeInv, GateType, Bound, FinishConflict, Idle
    <2>12. CASE Apply(w)
      <3>1. CASE UNCHANGED gateVars BY <3>1 DEF TypeInv, GateType, Bound
      <3>2. CASE Transition(node[w], answer[w])
        <4>1. node[w] \in Node BY DEF TypeInv, WorkerType
        <4>2. answer[w] \in Happening BY <2>12 DEF TypeInv, Working, WorksAt, Apply, Happening
        <4>3. QED BY <3>2, <4>1, <4>2, TransitionKeeps DEF TypeInv
      <3>3. QED BY <2>12, <3>1, <3>2 DEF Apply
    <2>13. CASE ExecuteRaises(w) BY <2>13 DEF TypeInv, GateType, Bound, ExecuteRaises, Idle
    <2>14. CASE LeaseLost(w) BY <2>14 DEF TypeInv, GateType, Bound, LeaseLost
    <2>15. CASE PersistFails(w) BY <2>15 DEF TypeInv, GateType, Bound, PersistFails, Idle
    <2>16. CASE Crash(w) BY <2>16 DEF TypeInv, GateType, Bound, Crash, Idle
    <2>q. QED BY <1>4, <2>1, <2>2, <2>3, <2>4, <2>5, <2>6, <2>7, <2>8, <2>9, <2>10, <2>11,
      <2>12, <2>13, <2>14, <2>15, <2>16
  <1>5. ASSUME NEW w \in Worker, NEW n \in Node, Read(w, n)
       PROVE  GateType' /\ Bound'
    BY <1>5 DEF TypeInv, GateType, Bound, Read, Goto
  <1>6. ASSUME NEW w \in Worker, NEW a \in Outcome, Execute(w, a)
       PROVE  GateType' /\ Bound'
    BY <1>6 DEF TypeInv, GateType, Bound, Execute, Goto
  <1>7. ASSUME NEW r \in Run, LeaseExpires(r) \/ RetryDue(r)
       PROVE  GateType' /\ Bound'
    <2>1. CASE LeaseExpires(r) BY <2>1 DEF TypeInv, GateType, Bound, LeaseExpires
    <2>2. CASE RetryDue(r) BY <2>2 DEF TypeInv, GateType, Bound, RetryDue
    <2>q. QED BY <1>7, <2>1, <2>2
  <1>8. CASE UNCHANGED vars BY <1>8 DEF TypeInv, GateType, Bound, vars
  <1>9. QED BY <1>1, <1>2, <1>3, <1>4, <1>5, <1>6, <1>7, <1>8, Zenon DEF Next, WorkerNext

LEMMA RunStep ==
  ASSUME TypeInv, [Next]_vars
  PROVE  RunType' /\ Decided'
  <1>1. ASSUME NEW n \in Node, NEW event \in Outside, Event(n, event)
       PROVE  RunType' /\ Decided'
    BY <1>1 DEF TypeInv, RunType, Decided, Event
  <1>2. ASSUME NEW n \in Node, NEW v \in Version, FreezeTestContract(n, v) \/
    InvalidateTestContract(n, v)
       PROVE  RunType' /\ Decided'
    <2>1. CASE FreezeTestContract(n, v) BY <2>1 DEF TypeInv, RunType, Decided,
      FreezeTestContract
    <2>2. CASE InvalidateTestContract(n, v) BY <2>2 DEF TypeInv, RunType, Decided,
      InvalidateTestContract
    <2>q. QED BY <1>2, <2>1, <2>2
  <1>3. ASSUME NEW n \in Node, VerifyNode(n)
       PROVE  RunType' /\ Decided'
    BY <1>3 DEF TypeInv, RunType, Decided, VerifyNode
  <1>4. ASSUME NEW w \in Worker, Recover(w) \/ Done(w) \/ Enqueue(w) \/ Start(w) \/ LookUp(w) \/
    Claim(w) \/ Discard(w) \/ Defer(w) \/ GiveUp(w) \/ Complete(w) \/ FinishConflict(w) \/
    Apply(w) \/ ExecuteRaises(w) \/ LeaseLost(w) \/ PersistFails(w) \/ Crash(w)
       PROVE  RunType' /\ Decided'
    <2>1. CASE Recover(w) BY <2>1 DEF TypeInv, RunType, Decided, Recover, Goto
    <2>2. CASE Done(w) BY <2>2 DEF TypeInv, RunType, Decided, Done, Idle
    <2>3. CASE Enqueue(w)
      <3>1. PICK r \in Run \cup {0} : rstate' = rstate \/ rstate' = [rstate EXCEPT ![r] = "queued"]
        BY <2>3, SMT DEF Enqueue, TypeInv, RunType
      <3>2. runs' \in Seq(RunKey) /\ Len(runs') <= MaxRun
        <4>1. CASE runs' = runs BY <4>1 DEF TypeInv, RunType
        <4>2. ASSUME Len(runs) < MaxRun,
                    runs' = Append(runs, [node |-> node[w], phase |-> phase[w],
                                          source |-> seen[w].revision, version |-> seen[w].version])
             PROVE  runs' \in Seq(RunKey) /\ Len(runs') <= MaxRun
          BY <2>3, <4>2, VerificationAssumption DEF Enqueue, TypeInv, RunType, WorkerType, Working, WorksAt, RunKey
        <4>3. QED BY <2>3, <4>1, <4>2 DEF Enqueue
      <3>3. QED BY <2>3, <3>1, <3>2 DEF TypeInv, RunType, Decided, Enqueue
    <2>4. CASE Start(w) BY <2>4 DEF TypeInv, RunType, Decided, Start, Goto
    <2>5. CASE LookUp(w) BY <2>5 DEF TypeInv, RunType, Decided, LookUp, Goto, Idle
    <2>6. CASE Claim(w)
      <3>1. run[w] \in Run BY <2>6, RunsExist DEF Claim
      <3>2. CASE Claimable(run[w])
        <4>1. rstate' = [rstate EXCEPT ![run[w]] = "running"] /\ attempt' = [attempt EXCEPT ![run[w]] = attempt[run[w]] + 1]
          BY <2>6, <3>2 DEF Claim
        <4>2. leased' = leased \cup {run[w]} /\ UNCHANGED <<runs, outcome, waiting>> BY <2>6, <3>2 DEF Claim
        <4>3. attempt' \in [Run -> Nat]
          <5>1. attempt[run[w]] + 1 \in Nat /\ attempt \in [Run -> Nat] BY <3>1 DEF TypeInv, RunType
          <5>2. QED BY <3>1, <4>1, <5>1
        <4>4. QED BY <3>1, <4>1, <4>2, <4>3 DEF TypeInv, RunType, Decided
      <3>3. CASE ~Claimable(run[w]) BY <2>6, <3>3 DEF TypeInv, RunType, Decided, Claim
      <3>4. QED BY <3>2, <3>3
    <2>7. CASE Discard(w) BY <2>7 DEF TypeInv, RunType, Decided, Discard, Goto
    <2>8. CASE Defer(w)
      <3>1. run[w] \in Run BY <2>8, RunsExist DEF Defer
      <3>2. QED BY <2>8, <3>1 DEF TypeInv, RunType, Decided, Defer
    <2>9. CASE GiveUp(w)
      <3>1. rstate' = rstate \/ rstate' = [rstate EXCEPT ![run[w]] = "failed"] BY <2>9 DEF GiveUp
      <3>2. leased' \subseteq leased BY <2>9 DEF GiveUp
      <3>3. UNCHANGED <<runs, attempt, outcome, waiting>> BY <2>9 DEF GiveUp
      <3>4. QED BY <3>1, <3>2, <3>3 DEF TypeInv, RunType, Decided
    <2>10. CASE Complete(w)
      <3>1. run[w] \in Run BY <2>10, RunsExist DEF Complete
      <3>2. answer[w] \in Decision BY <2>10 DEF TypeInv, Working, WorksAt, Complete
      <3>3. CASE Owns(w) BY <2>10, <3>1, <3>2, <3>3, DecisionType DEF TypeInv, RunType, Decided, Complete
      <3>4. CASE ~Owns(w) BY <2>10, <3>1, <3>4 DEF TypeInv, RunType, Decided, Complete
      <3>5. QED BY <3>3, <3>4
    <2>11. CASE FinishConflict(w) BY <2>11 DEF TypeInv, RunType, Decided, FinishConflict, Idle
    <2>12. CASE Apply(w) BY <2>12 DEF TypeInv, RunType, Decided, Apply, Goto, Idle
    <2>13. CASE ExecuteRaises(w) BY <2>13 DEF TypeInv, RunType, Decided, ExecuteRaises, Idle
    <2>14. CASE LeaseLost(w) BY <2>14 DEF TypeInv, RunType, Decided, LeaseLost
    <2>15. CASE PersistFails(w) BY <2>15 DEF TypeInv, RunType, Decided, PersistFails, Idle
    <2>16. CASE Crash(w) BY <2>16 DEF TypeInv, RunType, Decided, Crash, Idle
    <2>q. QED BY <1>4, <2>1, <2>2, <2>3, <2>4, <2>5, <2>6, <2>7, <2>8, <2>9, <2>10, <2>11,
      <2>12, <2>13, <2>14, <2>15, <2>16
  <1>5. ASSUME NEW w \in Worker, NEW n \in Node, Read(w, n)
       PROVE  RunType' /\ Decided'
    BY <1>5 DEF TypeInv, RunType, Decided, Read, Goto
  <1>6. ASSUME NEW w \in Worker, NEW a \in Outcome, Execute(w, a)
       PROVE  RunType' /\ Decided'
    BY <1>6 DEF TypeInv, RunType, Decided, Execute, Goto
  <1>7. ASSUME NEW r \in Run, LeaseExpires(r) \/ RetryDue(r)
       PROVE  RunType' /\ Decided'
    <2>1. CASE LeaseExpires(r) BY <2>1 DEF TypeInv, RunType, Decided, LeaseExpires
    <2>2. CASE RetryDue(r) BY <2>2 DEF TypeInv, RunType, Decided, RetryDue
    <2>q. QED BY <1>7, <2>1, <2>2
  <1>8. CASE UNCHANGED vars BY <1>8 DEF TypeInv, RunType, Decided, vars
  <1>9. QED BY <1>1, <1>2, <1>3, <1>4, <1>5, <1>6, <1>7, <1>8, Zenon DEF Next, WorkerNext

LEMMA NoteStep ==
  ASSUME TypeInv, [Next]_vars
  PROVE  NoteType'
  <1>1. ASSUME NEW n \in Node, NEW event \in Outside, Event(n, event)
       PROVE  NoteType'
    BY <1>1, VerificationAssumption DEF TypeInv, NoteType, Event, GateType
  <1>2. ASSUME NEW n \in Node, NEW v \in Version, FreezeTestContract(n, v) \/
    InvalidateTestContract(n, v)
       PROVE  NoteType'
    <2>1. CASE FreezeTestContract(n, v) BY <2>1, VerificationAssumption DEF TypeInv, NoteType,
      FreezeTestContract
    <2>2. CASE InvalidateTestContract(n, v) BY <2>2, VerificationAssumption DEF TypeInv,
      NoteType, InvalidateTestContract
    <2>q. QED BY <1>2, <2>1, <2>2
  <1>3. ASSUME NEW n \in Node, VerifyNode(n)
       PROVE  NoteType'
    BY <1>3, VerificationAssumption DEF TypeInv, NoteType, VerifyNode
  <1>4. ASSUME NEW w \in Worker, Recover(w) \/ Done(w) \/ Enqueue(w) \/ Start(w) \/ LookUp(w) \/
    Claim(w) \/ Discard(w) \/ Defer(w) \/ GiveUp(w) \/ Complete(w) \/ FinishConflict(w) \/
    Apply(w) \/ ExecuteRaises(w) \/ LeaseLost(w) \/ PersistFails(w) \/ Crash(w)
       PROVE  NoteType'
    <2>1. CASE Recover(w) BY <2>1, VerificationAssumption DEF TypeInv, NoteType, Recover, Goto
    <2>2. CASE Done(w) BY <2>2, VerificationAssumption DEF TypeInv, NoteType, Done, Idle
    <2>3. CASE Enqueue(w) BY <2>3, VerificationAssumption DEF TypeInv, NoteType, Enqueue, Goto
    <2>4. CASE Start(w) BY <2>4, RunsExist DEF TypeInv, NoteType, Start, Goto
    <2>5. CASE LookUp(w) BY <2>5, VerificationAssumption DEF TypeInv, NoteType, LookUp, Goto,
      Idle
    <2>6. CASE Claim(w) BY <2>6, VerificationAssumption DEF TypeInv, NoteType, Claim, Goto
    <2>7. CASE Discard(w) BY <2>7, VerificationAssumption DEF TypeInv, NoteType, Discard, Goto
    <2>8. CASE Defer(w) BY <2>8, VerificationAssumption DEF TypeInv, NoteType, Defer, Goto
    <2>9. CASE GiveUp(w) BY <2>9, VerificationAssumption DEF TypeInv, NoteType, GiveUp, Goto,
      Idle
    <2>10. CASE Complete(w) BY <2>10, VerificationAssumption DEF TypeInv, NoteType, Complete,
      Goto
    <2>11. CASE FinishConflict(w) BY <2>11, VerificationAssumption DEF TypeInv, NoteType,
      FinishConflict, Idle
    <2>12. CASE Apply(w) BY <2>12, RunsExist DEF TypeInv, NoteType, Apply, Goto, Idle
    <2>13. CASE ExecuteRaises(w) BY <2>13, VerificationAssumption DEF TypeInv, NoteType,
      ExecuteRaises, Idle
    <2>14. CASE LeaseLost(w) BY <2>14, VerificationAssumption DEF TypeInv, NoteType, LeaseLost
    <2>15. CASE PersistFails(w) BY <2>15, VerificationAssumption DEF TypeInv, NoteType,
      PersistFails, Idle
    <2>16. CASE Crash(w) BY <2>16, VerificationAssumption DEF TypeInv, NoteType, Crash, Idle
    <2>q. QED BY <1>4, <2>1, <2>2, <2>3, <2>4, <2>5, <2>6, <2>7, <2>8, <2>9, <2>10, <2>11,
      <2>12, <2>13, <2>14, <2>15, <2>16
  <1>5. ASSUME NEW w \in Worker, NEW n \in Node, Read(w, n)
       PROVE  NoteType'
    BY <1>5, VerificationAssumption DEF TypeInv, NoteType, Read, Goto
  <1>6. ASSUME NEW w \in Worker, NEW a \in Outcome, Execute(w, a)
       PROVE  NoteType'
    BY <1>6, VerificationAssumption DEF TypeInv, NoteType, Execute, Goto
  <1>7. ASSUME NEW r \in Run, LeaseExpires(r) \/ RetryDue(r)
       PROVE  NoteType'
    <2>1. CASE LeaseExpires(r) BY <2>1, VerificationAssumption DEF TypeInv, NoteType,
      LeaseExpires
    <2>2. CASE RetryDue(r) BY <2>2, VerificationAssumption DEF TypeInv, NoteType, RetryDue
    <2>q. QED BY <1>7, <2>1, <2>2
  <1>8. CASE UNCHANGED vars BY <1>8, VerificationAssumption DEF TypeInv, NoteType, vars
  <1>9. QED BY <1>1, <1>2, <1>3, <1>4, <1>5, <1>6, <1>7, <1>8, Zenon DEF Next, WorkerNext

LEMMA WorkerStep ==
  ASSUME TypeInv, [Next]_vars
  PROVE  WorkerType'
  <1>1. ASSUME NEW n \in Node, NEW event \in Outside, Event(n, event)
       PROVE  WorkerType'
    BY <1>1 DEF TypeInv, WorkerType, Event
  <1>2. ASSUME NEW n \in Node, NEW v \in Version, FreezeTestContract(n, v) \/
    InvalidateTestContract(n, v)
       PROVE  WorkerType'
    <2>1. CASE FreezeTestContract(n, v) BY <2>1 DEF TypeInv, WorkerType, FreezeTestContract
    <2>2. CASE InvalidateTestContract(n, v) BY <2>2 DEF TypeInv, WorkerType,
      InvalidateTestContract
    <2>q. QED BY <1>2, <2>1, <2>2
  <1>3. ASSUME NEW n \in Node, VerifyNode(n)
       PROVE  WorkerType'
    BY <1>3 DEF TypeInv, WorkerType, VerifyNode
  <1>4. ASSUME NEW w \in Worker, Recover(w) \/ Done(w) \/ Enqueue(w) \/ Start(w) \/ LookUp(w) \/
    Claim(w) \/ Discard(w) \/ Defer(w) \/ GiveUp(w) \/ Complete(w) \/ FinishConflict(w) \/
    Apply(w) \/ ExecuteRaises(w) \/ LeaseLost(w) \/ PersistFails(w) \/ Crash(w)
       PROVE  WorkerType'
    <2>1. CASE Recover(w) BY <2>1 DEF TypeInv, WorkerType, Recover, Goto, Pc, GateType
    <2>2. CASE Done(w)
      <3>1. Idle(w) BY <2>2 DEF Done
      <3>2. QED BY <3>1, IdleKeeps
    <2>3. CASE Enqueue(w)
      <3>1. PICK r \in Run : run' = [run EXCEPT ![w] = r] /\ pc' = [pc EXCEPT ![w] = "start"]
        <4>1. CASE Len(runs) < MaxRun /\ run' = [run EXCEPT ![w] = Len(runs) + 1]
          <5>1. Len(runs) + 1 \in Run BY <4>1, RunsExist, VerificationAssumption
          <5>2. QED BY <2>3, <4>1, <5>1 DEF Enqueue, Goto
        <4>2. CASE \E r \in DOMAIN runs : run' = [run EXCEPT ![w] = r] BY <2>3, <4>2, RunsExist DEF Enqueue, Goto
        <4>3. QED BY <2>3, <4>1, <4>2, Zenon DEF Enqueue
      <3>2. QED BY <2>3, <3>1, VerificationAssumption DEF TypeInv, WorkerType, Enqueue, Pc
    <2>4. CASE Start(w)
      <3>1. pc' \in [Worker -> Pc]
        <4>1. pc' = [pc EXCEPT ![w] = "latest"] \/ pc' = [pc EXCEPT ![w] = "next"] BY <2>4, Zenon DEF Start, Goto
        <4>2. QED BY <4>1 DEF TypeInv, WorkerType, Pc
      <3>2. phase' \in [Worker -> Phase]
        <4>1. phase' = phase \/ \E p \in Phase : phase' = [phase EXCEPT ![w] = p] BY <2>4, Zenon DEF Start
        <4>2. QED BY <4>1 DEF TypeInv, WorkerType
      <3>3. QED BY <2>4, <3>1, <3>2 DEF TypeInv, WorkerType, Start
    <2>5. CASE LookUp(w)
      <3>1. CASE Idle(w) BY <3>1, IdleKeeps
      <3>2. CASE ~Idle(w)
        <4>1. PICK r \in DOMAIN runs :
               /\ run' = [run EXCEPT ![w] = r]
               /\ answer' = [answer EXCEPT ![w] = outcome[r]]
               /\ pc' = [pc EXCEPT ![w] = IF rstate[r] = "completed" THEN "apply" ELSE "claim"]
               /\ UNCHANGED <<jobVars, mine>>
          BY <2>5, <3>2 DEF LookUp, Goto
        <4>2. r \in Run BY RunsExist
        <4>3. QED BY <4>1, <4>2 DEF TypeInv, WorkerType, RunType, Pc
      <3>3. QED BY <3>1, <3>2
    <2>6. CASE Claim(w)
      <3>1. run[w] \in Run BY <2>6, RunsExist DEF Claim
      <3>2. attempt[run[w]] + 1 \in Nat BY <3>1 DEF TypeInv, RunType
      <3>3. mine' \in [Worker -> Nat] BY <2>6, <3>2 DEF TypeInv, WorkerType, Claim
      <3>4. pc' \in [Worker -> Pc] BY <2>6 DEF TypeInv, WorkerType, Claim, Goto, Pc
      <3>5. QED BY <2>6, <3>3, <3>4 DEF TypeInv, WorkerType, Claim
    <2>7. CASE Discard(w) BY <2>7 DEF TypeInv, WorkerType, Discard, Goto, Pc
    <2>8. CASE Defer(w) BY <2>8 DEF TypeInv, WorkerType, Defer, Goto, Pc
    <2>9. CASE GiveUp(w)
      <3>1. CASE Idle(w) BY <3>1, IdleKeeps
      <3>2. CASE ~Idle(w) BY <2>9, <3>2 DEF TypeInv, WorkerType, GiveUp, Goto, Pc
      <3>3. QED BY <3>1, <3>2
    <2>10. CASE Complete(w)
      <3>1. outcome' \in [Run -> Outcome] BY <2>10, RunStep DEF RunType
      <3>2. QED BY <2>10, <3>1 DEF TypeInv, WorkerType, Working, WorksAt, RunType, Complete, Goto, Pc
    <2>11. CASE FinishConflict(w)
      <3>1. Idle(w) BY <2>11 DEF FinishConflict
      <3>2. QED BY <3>1, IdleKeeps
    <2>12. CASE Apply(w)
      <3>1. CASE Idle(w) BY <3>1, IdleKeeps
      <3>2. CASE ~Idle(w) BY <2>12, <3>2 DEF TypeInv, WorkerType, Apply, Goto, Pc
      <3>3. QED BY <3>1, <3>2
    <2>13. CASE ExecuteRaises(w)
      <3>1. Idle(w) BY <2>13 DEF ExecuteRaises
      <3>2. QED BY <3>1, IdleKeeps
    <2>14. CASE LeaseLost(w) BY <2>14 DEF TypeInv, WorkerType, LeaseLost
    <2>15. CASE PersistFails(w)
      <3>1. Idle(w) BY <2>15 DEF PersistFails
      <3>2. QED BY <3>1, IdleKeeps
    <2>16. CASE Crash(w)
      <3>1. Idle(w) BY <2>16 DEF Crash
      <3>2. QED BY <3>1, IdleKeeps
    <2>q. QED BY <1>4, <2>1, <2>2, <2>3, <2>4, <2>5, <2>6, <2>7, <2>8, <2>9, <2>10, <2>11,
      <2>12, <2>13, <2>14, <2>15, <2>16
  <1>5. ASSUME NEW w \in Worker, NEW n \in Node, Read(w, n)
       PROVE  WorkerType'
      <2>1. pc' \in [Worker -> Pc] /\ phase' \in [Worker -> Phase] BY <1>5 DEF TypeInv, WorkerType, Read, Goto, Pc
      <2>2. todo' \in [Worker -> SUBSET Node]
        <3>1. todo[w] \ {n} \in SUBSET Node BY DEF TypeInv, WorkerType
        <3>2. QED BY <1>5, <3>1 DEF TypeInv, WorkerType, Read
      <2>3. seen' \in [Worker -> [revision: Nat, version: Version \cup {NoVersion}]]
        <3>1. [revision |-> revision[n], version |-> contract[n]] \in [revision: Nat, version: Version \cup {NoVersion}]
          BY DEF TypeInv, GateType
        <3>2. QED BY <1>5, <3>1 DEF TypeInv, WorkerType, Read
      <2>4. node' \in [Worker -> Node] BY <1>5 DEF TypeInv, WorkerType, Read
      <2>5. QED BY <1>5, <2>1, <2>2, <2>3, <2>4 DEF TypeInv, WorkerType, Read
  <1>6. ASSUME NEW w \in Worker, NEW a \in Outcome, Execute(w, a)
       PROVE  WorkerType'
    BY <1>6 DEF TypeInv, WorkerType, Execute, Goto, Pc
  <1>7. ASSUME NEW r \in Run, LeaseExpires(r) \/ RetryDue(r)
       PROVE  WorkerType'
    <2>1. CASE LeaseExpires(r) BY <2>1 DEF TypeInv, WorkerType, LeaseExpires
    <2>2. CASE RetryDue(r) BY <2>2 DEF TypeInv, WorkerType, RetryDue
    <2>q. QED BY <1>7, <2>1, <2>2
  <1>8. CASE UNCHANGED vars BY <1>8 DEF TypeInv, WorkerType, vars
  <1>9. QED BY <1>1, <1>2, <1>3, <1>4, <1>5, <1>6, <1>7, <1>8, Zenon DEF Next, WorkerNext

(* A step of one worker leaves the others where they are.                   *)
SameWorker(x) ==
    /\ pc'[x] = pc[x] /\ seen'[x] = seen[x] /\ run'[x] = run[x]
    /\ mine'[x] = mine[x] /\ answer'[x] = answer[x]

LEMMA OthersWork ==
  ASSUME TypeInv, NEW w \in Worker, \A x \in Worker \ {w} : SameWorker(x),
         Len(runs') \in Nat, Len(runs) <= Len(runs'), WorksAt(w)'
  PROVE  Working'
  <1>1. ASSUME NEW x \in Worker \ {w} PROVE WorksAt(x)'
    <2>1. WorksAt(x) /\ SameWorker(x) /\ Len(runs) \in Nat BY RunsExist DEF TypeInv, Working
    <2>2. QED BY <2>1 DEF WorksAt, SameWorker
  <1>2. QED BY <1>1 DEF Working

LEMMA IdleWorks ==
  ASSUME TypeInv, NEW w \in Worker, Idle(w), runs' = runs
  PROVE  Working'
  <1>1. \A x \in Worker \ {w} : SameWorker(x) BY DEF Idle, SameWorker, TypeInv, WorkerType
  <1>2. WorksAt(w)' BY DEF Idle, WorksAt, TypeInv, WorkerType
  <1>3. QED BY <1>1, <1>2, RunsExist, OthersWork

LEMMA WorkingStep ==
  ASSUME TypeInv, [Next]_vars
  PROVE  Working'
  <1>1. ASSUME NEW n \in Node, NEW event \in Outside, Event(n, event)
       PROVE  Working'
    BY <1>1 DEF TypeInv, Working, WorksAt, Event
  <1>2. ASSUME NEW n \in Node, NEW v \in Version, FreezeTestContract(n, v) \/
    InvalidateTestContract(n, v)
       PROVE  Working'
    <2>1. CASE FreezeTestContract(n, v) BY <2>1 DEF TypeInv, Working, WorksAt,
      FreezeTestContract
    <2>2. CASE InvalidateTestContract(n, v) BY <2>2 DEF TypeInv, Working, WorksAt,
      InvalidateTestContract
    <2>q. QED BY <1>2, <2>1, <2>2
  <1>3. ASSUME NEW n \in Node, VerifyNode(n)
       PROVE  Working'
    BY <1>3 DEF TypeInv, Working, WorksAt, VerifyNode
  <1>4. ASSUME NEW w \in Worker, Recover(w) \/ Done(w) \/ Enqueue(w) \/ Start(w) \/ LookUp(w) \/
    Claim(w) \/ Discard(w) \/ Defer(w) \/ GiveUp(w) \/ Complete(w) \/ FinishConflict(w) \/
    Apply(w) \/ ExecuteRaises(w) \/ LeaseLost(w) \/ PersistFails(w) \/ Crash(w)
       PROVE  Working'
    <2>1. CASE Recover(w)
      <3>1. \A x \in Worker \ {w} : SameWorker(x) BY <2>1 DEF Recover, Goto, Idle, SameWorker, TypeInv, WorkerType
      <3>2. runs' = runs BY <2>1 DEF Recover
      <3>3. WorksAt(w)' BY <2>1, <3>2 DEF Recover, Goto, WorksAt, Working, TypeInv, WorkerType
      <3>4. QED BY <3>1, <3>2, <3>3, RunsExist, OthersWork
    <2>2. CASE Done(w)
      <3>1. Idle(w) /\ runs' = runs BY <2>2 DEF Done
      <3>2. QED BY <3>1, IdleWorks
    <2>3. CASE Enqueue(w)
      <3>1. \A x \in Worker \ {w} : SameWorker(x) BY <2>3 DEF Enqueue, Goto, Idle, SameWorker, TypeInv, WorkerType
      <3>2. /\ Len(runs') \in Nat /\ Len(runs) <= Len(runs') /\ run'[w] \in 1 .. Len(runs')
        <4>1. CASE \E r \in DOMAIN runs : run' = [run EXCEPT ![w] = r] /\ runs' = runs
          BY <4>1, RunsExist DEF TypeInv, WorkerType
        <4>2. ASSUME NEW key \in RunKey, runs' = Append(runs, key), run' = [run EXCEPT ![w] = Len(runs) + 1]
             PROVE  Len(runs') \in Nat /\ Len(runs) <= Len(runs') /\ run'[w] \in 1 .. Len(runs')
          BY <4>2, RunsExist DEF TypeInv, RunType, WorkerType
        <4>3. [node |-> node[w], phase |-> phase[w], source |-> seen[w].revision, version |-> seen[w].version] \in RunKey
          BY <2>3 DEF Enqueue, TypeInv, WorkerType, Working, WorksAt, RunKey
        <4>4. QED BY <2>3, <4>1, <4>2, <4>3 DEF Enqueue
      <3>3. pc'[w] = "start" BY <2>3 DEF Enqueue, Goto, TypeInv, WorkerType
      <3>4. WorksAt(w)' BY <3>2, <3>3 DEF WorksAt
      <3>5. QED BY <3>1, <3>2, <3>4, OthersWork
    <2>4. CASE Start(w)
      <3>1. \A x \in Worker \ {w} : SameWorker(x) BY <2>4 DEF Start, Goto, Idle, SameWorker, TypeInv, WorkerType
      <3>2. runs' = runs BY <2>4 DEF Start
      <3>3. WorksAt(w)' 
        <4>1. pc'[w] \in {"latest", "next"} BY <2>4 DEF Start, Goto, TypeInv, WorkerType
        <4>2. QED BY <4>1 DEF WorksAt
      <3>4. QED BY <3>1, <3>2, <3>3, RunsExist, OthersWork
    <2>5. CASE LookUp(w)
      <3>0. runs' = runs BY <2>5 DEF LookUp
      <3>1. CASE Idle(w) BY <3>0, <3>1, IdleWorks
      <3>2. CASE ~Idle(w)
        <4>1. \A x \in Worker \ {w} : SameWorker(x) BY <2>5, <3>2 DEF LookUp, Goto, SameWorker, TypeInv, WorkerType
        <4>2. WorksAt(w)' 
          <5>1. PICK r \in DOMAIN runs :
                 /\ run' = [run EXCEPT ![w] = r]
                 /\ answer' = [answer EXCEPT ![w] = outcome[r]]
                 /\ pc' = [pc EXCEPT ![w] = IF rstate[r] = "completed" THEN "apply" ELSE "claim"]
            BY <2>5, <3>2 DEF LookUp, Goto
          <5>2. r \in Run /\ r \in 1 .. Len(runs) BY RunsExist
          <5>3. rstate[r] = "completed" => outcome[r] \in Decision BY <5>2 DEF TypeInv, Decided
          <5>4. QED BY <3>0, <5>1, <5>2, <5>3 DEF WorksAt, TypeInv, WorkerType
        <4>3. QED BY <3>0, <4>1, <4>2, RunsExist, OthersWork
      <3>3. QED BY <3>1, <3>2
    <2>6. CASE Claim(w)
      <3>1. \A x \in Worker \ {w} : SameWorker(x) BY <2>6 DEF Claim, Goto, Idle, SameWorker, TypeInv, WorkerType
      <3>2. runs' = runs BY <2>6 DEF Claim
      <3>3. WorksAt(w)' BY <2>6, <3>2 DEF Claim, Goto, WorksAt, Working, TypeInv, WorkerType
      <3>4. QED BY <3>1, <3>2, <3>3, RunsExist, OthersWork
    <2>7. CASE Discard(w)
      <3>1. \A x \in Worker \ {w} : SameWorker(x) BY <2>7 DEF Discard, Goto, Idle, SameWorker, TypeInv, WorkerType
      <3>2. runs' = runs BY <2>7 DEF Discard
      <3>3. WorksAt(w)' BY <2>7, <3>2 DEF Discard, Goto, WorksAt, Working, TypeInv, WorkerType
      <3>4. QED BY <3>1, <3>2, <3>3, RunsExist, OthersWork
    <2>8. CASE Defer(w)
      <3>1. \A x \in Worker \ {w} : SameWorker(x) BY <2>8 DEF Defer, Goto, Idle, SameWorker, TypeInv, WorkerType
      <3>2. runs' = runs BY <2>8 DEF Defer
      <3>3. WorksAt(w)' BY <2>8, <3>2 DEF Defer, Goto, WorksAt, Working, TypeInv, WorkerType
      <3>4. QED BY <3>1, <3>2, <3>3, RunsExist, OthersWork
    <2>9. CASE GiveUp(w)
      <3>0. runs' = runs BY <2>9 DEF GiveUp
      <3>1. CASE Idle(w) BY <3>0, <3>1, IdleWorks
      <3>2. CASE ~Idle(w)
        <4>1. \A x \in Worker \ {w} : SameWorker(x) BY <2>9, <3>2 DEF GiveUp, Goto, SameWorker, TypeInv, WorkerType
        <4>2. WorksAt(w)' BY <2>9, <3>0, <3>2 DEF GiveUp, Goto, WorksAt, TypeInv, WorkerType
        <4>3. QED BY <3>0, <4>1, <4>2, RunsExist, OthersWork
      <3>3. QED BY <3>1, <3>2
    <2>10. CASE Complete(w)
      <3>1. \A x \in Worker \ {w} : SameWorker(x) BY <2>10 DEF Complete, Goto, Idle, SameWorker, TypeInv, WorkerType
      <3>2. runs' = runs /\ run' = run /\ pc'[w] = "apply" BY <2>10 DEF Complete, Goto, TypeInv, WorkerType
      <3>3. run[w] \in 1 .. Len(runs) BY <2>10, RunsExist DEF Complete
      <3>4. answer'[w] \in Decision
        <4>1. run[w] \in Run /\ answer[w] \in Decision BY <2>10, RunsExist DEF Complete, TypeInv, Working, WorksAt
        <4>2. rstate'[run[w]] = "completed" BY <2>10, <4>1 DEF Complete, TypeInv, RunType
        <4>3. outcome'[run[w]] \in Decision BY <4>1, <4>2, RunStep DEF Decided
        <4>4. QED BY <2>10, <4>3 DEF Complete, TypeInv, WorkerType
      <3>5. WorksAt(w)' BY <3>2, <3>3, <3>4 DEF WorksAt
      <3>6. QED BY <3>1, <3>2, <3>5, RunsExist, OthersWork
    <2>11. CASE FinishConflict(w)
      <3>1. Idle(w) /\ runs' = runs BY <2>11 DEF FinishConflict
      <3>2. QED BY <3>1, IdleWorks
    <2>12. CASE Apply(w)
      <3>0. runs' = runs BY <2>12 DEF Apply
      <3>1. CASE Idle(w) BY <3>0, <3>1, IdleWorks
      <3>2. CASE ~Idle(w)
        <4>1. \A x \in Worker \ {w} : SameWorker(x) BY <2>12, <3>2 DEF Apply, Goto, SameWorker, TypeInv, WorkerType
        <4>2. WorksAt(w)' BY <2>12, <3>0, <3>2 DEF Apply, Goto, WorksAt, TypeInv, WorkerType
        <4>3. QED BY <3>0, <4>1, <4>2, RunsExist, OthersWork
      <3>3. QED BY <3>1, <3>2
    <2>13. CASE ExecuteRaises(w)
      <3>1. Idle(w) /\ runs' = runs BY <2>13 DEF ExecuteRaises
      <3>2. QED BY <3>1, IdleWorks
    <2>14. CASE LeaseLost(w)
      <3>1. \A x \in Worker \ {w} : SameWorker(x) BY <2>14 DEF LeaseLost, Goto, Idle, SameWorker, TypeInv, WorkerType
      <3>2. runs' = runs BY <2>14 DEF LeaseLost
      <3>3. WorksAt(w)' BY <2>14, <3>2 DEF LeaseLost, Goto, WorksAt, Working, TypeInv, WorkerType
      <3>4. QED BY <3>1, <3>2, <3>3, RunsExist, OthersWork
    <2>15. CASE PersistFails(w)
      <3>1. Idle(w) /\ runs' = runs BY <2>15 DEF PersistFails
      <3>2. QED BY <3>1, IdleWorks
    <2>16. CASE Crash(w)
      <3>1. Idle(w) /\ runs' = runs BY <2>16 DEF Crash
      <3>2. QED BY <3>1, IdleWorks
    <2>q. QED BY <1>4, <2>1, <2>2, <2>3, <2>4, <2>5, <2>6, <2>7, <2>8, <2>9, <2>10, <2>11,
      <2>12, <2>13, <2>14, <2>15, <2>16
  <1>5. ASSUME NEW w \in Worker, NEW n \in Node, Read(w, n)
       PROVE  Working'
      <2>1. \A x \in Worker \ {w} : SameWorker(x) BY <1>5 DEF Read, Goto, Idle, SameWorker, TypeInv, WorkerType
      <2>2. runs' = runs BY <1>5 DEF Read
      <2>3. WorksAt(w)' 
        <3>1. CASE \E p \in Phase : state[n] = Trigger(p) /\ Goto(w, "enqueue")
          <4>1. contract[n] \in Version BY <3>1 DEF TypeInv, Bound, Trigger, Phase
          <4>2. seen'[w].version = contract[n] /\ pc'[w] = "enqueue" BY <1>5, <3>1 DEF Read, Goto, TypeInv, WorkerType
          <4>3. QED BY <4>1, <4>2 DEF WorksAt
        <3>2. CASE pc'[w] \in {"latest", "next"} BY <3>2 DEF WorksAt
        <3>3. QED BY <1>5, <3>1, <3>2 DEF Read, Goto, TypeInv, WorkerType
      <2>4. QED BY <2>1, <2>2, <2>3, RunsExist, OthersWork
  <1>6. ASSUME NEW w \in Worker, NEW a \in Outcome, Execute(w, a)
       PROVE  Working'
      <2>1. \A x \in Worker \ {w} : SameWorker(x) BY <1>6 DEF Execute, Goto, Idle, SameWorker, TypeInv, WorkerType
      <2>2. runs' = runs BY <1>6 DEF Execute
      <2>3. WorksAt(w)' 
        <3>1. a \in Decision \cup {"temporary"} BY <1>6 DEF Execute, Decision, Result
        <3>2. QED BY <1>6, <2>2, <3>1 DEF Execute, Goto, WorksAt, Working, TypeInv, WorkerType
      <2>4. QED BY <2>1, <2>2, <2>3, RunsExist, OthersWork
  <1>7. ASSUME NEW r \in Run, LeaseExpires(r) \/ RetryDue(r)
       PROVE  Working'
    <2>1. CASE LeaseExpires(r) BY <2>1 DEF TypeInv, Working, WorksAt, LeaseExpires
    <2>2. CASE RetryDue(r) BY <2>2 DEF TypeInv, Working, WorksAt, RetryDue
    <2>q. QED BY <1>7, <2>1, <2>2
  <1>8. CASE UNCHANGED vars BY <1>8 DEF TypeInv, Working, WorksAt, vars
  <1>9. QED BY <1>1, <1>2, <1>3, <1>4, <1>5, <1>6, <1>7, <1>8, Zenon DEF Next, WorkerNext

LEMMA TypeStep == TypeInv /\ [Next]_vars => TypeInv'
  BY GateStep, RunStep, NoteStep, WorkerStep, WorkingStep DEF TypeInv

LEMMA TypeAlways == Spec => []TypeInv
  BY TypeInit, TypeStep, PTL DEF Spec

(* Whatever the workers, the callers and the clock do, every gate, run and   *)
(* worker holds values of its type: no event leads a gate out of the state   *)
(* table of modification_workflow.py, no run row gets a state the store does *)
(* not know, and a worker only ever works on a run that exists.             *)
THEOREM VerificationTypeCorrect == Spec => []TypeOK
  <1>1. TypeInv => TypeOK BY TypeParts DEF TypeInv
  <1>2. QED BY <1>1, TypeAlways, PTL

-----------------------------------------------------------------------------
(* The lease.  A token is the number of the attempt it was given for, so one  *)
(* held by a worker is never ahead of its run, and no two workers hold the   *)
(* same one.                                                                *)
Holds(w) == pc[w] \in {"execute", "finish"}

Tokens == \A w \in Worker : Holds(w) => mine[w] <= attempt[run[w]]

Apart ==
    \A w, x \in Worker :
        w # x /\ Holds(w) /\ Holds(x) /\ run[w] = run[x] /\ mine[w] = mine[x] => mine[w] = 0

(* A row that was not inserted yet is blank.                                *)
Blank == \A r \in Run : r > Len(runs) => rstate[r] = "none"

LEMMA TokensKept ==
  ASSUME TypeInv, Tokens, Apart, NEW w \in Worker, \A x \in Worker \ {w} : SameWorker(x),
         attempt' = attempt,
         Holds(w)' => Holds(w) /\ run'[w] = run[w] /\ mine'[w] \in {mine[w], 0}
  PROVE  Tokens' /\ Apart'
  <1>1. \A x \in Worker : Holds(x)' => Holds(x) /\ run'[x] = run[x] /\ mine'[x] \in {mine[x], 0}
    BY DEF SameWorker, Holds
  <1>2. \A x \in Worker : Holds(x) => attempt[run[x]] \in Nat /\ mine[x] \in Nat
    BY RunsExist DEF TypeInv, RunType, WorkerType, Holds
  <1>3. Tokens' BY <1>1, <1>2 DEF Tokens
  <1>4. Apart'
    <2>1. SUFFICES ASSUME NEW x \in Worker, NEW y \in Worker, x # y, Holds(x)', Holds(y)',
                          run'[x] = run'[y], mine'[x] = mine'[y]
                   PROVE  mine'[x] = 0
      BY DEF Apart
    <2>2. CASE mine'[x] = mine[x] /\ mine'[y] = mine[y] BY <1>1, <2>1, <2>2 DEF Apart
    <2>3. CASE mine'[x] = 0 \/ mine'[y] = 0 BY <2>1, <2>3
    <2>4. QED BY <1>1, <2>1, <2>2, <2>3
  <1>5. QED BY <1>3, <1>4

LEMMA ClaimKeepsTokens ==
  ASSUME TypeInv, Tokens, Apart, NEW w \in Worker, Claim(w)
  PROVE  Tokens' /\ Apart'
  <1>1. \A x \in Worker \ {w} : SameWorker(x)
    BY DEF Claim, Goto, SameWorker, TypeInv, WorkerType
  <1>2. CASE ~Claimable(run[w])
    <2>1. attempt' = attempt /\ ~Holds(w)' BY <1>2 DEF Claim, Goto, Holds, TypeInv, WorkerType
    <2>2. QED BY <1>1, <2>1, TokensKept
  <1>3. CASE Claimable(run[w])
    <2>1. run[w] \in Run BY RunsExist DEF Claim
    <2>2. attempt[run[w]] \in Nat BY <2>1 DEF TypeInv, RunType
    <2>3. /\ mine'[w] = attempt[run[w]] + 1 /\ attempt'[run[w]] = attempt[run[w]] + 1 /\ run' = run
          /\ \A r \in Run \ {run[w]} : attempt'[r] = attempt[r]
      BY <1>3, <2>1 DEF Claim, TypeInv, RunType, WorkerType
    <2>4. \A x \in Worker \ {w} : Holds(x)' => /\ Holds(x) /\ run[x] \in Run /\ mine'[x] = mine[x]
                                              /\ mine[x] \in Nat /\ attempt[run[x]] \in Nat
                                              /\ mine[x] <= attempt[run[x]]
      BY <1>1, RunsExist DEF SameWorker, Holds, Tokens, TypeInv, RunType, WorkerType
    <2>5. Tokens' BY <2>1, <2>2, <2>3, <2>4 DEF Tokens
    <2>6. Apart'
      <3>1. SUFFICES ASSUME NEW x \in Worker, NEW y \in Worker, x # y, Holds(x)', Holds(y)',
                            run'[x] = run'[y], mine'[x] = mine'[y]
                     PROVE  mine'[x] = 0
        BY DEF Apart
      <3>2. CASE x = w BY <2>2, <2>3, <2>4, <3>1, <3>2
      <3>3. CASE y = w BY <2>2, <2>3, <2>4, <3>1, <3>3
      <3>4. CASE x # w /\ y # w BY <2>3, <2>4, <3>1, <3>4 DEF Apart
      <3>5. QED BY <3>2, <3>3, <3>4
    <2>7. QED BY <2>5, <2>6
  <1>4. QED BY <1>2, <1>3

LEMMA TokenStep ==
  ASSUME TypeInv, Tokens, Apart, [Next]_vars
  PROVE  Tokens' /\ Apart'
  <1>1. ASSUME NEW n \in Node, NEW event \in Outside, Event(n, event)
       PROVE  Tokens' /\ Apart'
    BY <1>1 DEF Tokens, Apart, Holds, Event
  <1>2. ASSUME NEW n \in Node, NEW v \in Version, FreezeTestContract(n, v) \/
    InvalidateTestContract(n, v)
       PROVE  Tokens' /\ Apart'
    <2>1. CASE FreezeTestContract(n, v) BY <2>1 DEF Tokens, Apart, Holds, FreezeTestContract
    <2>2. CASE InvalidateTestContract(n, v) BY <2>2 DEF Tokens, Apart, Holds,
      InvalidateTestContract
    <2>q. QED BY <1>2, <2>1, <2>2
  <1>3. ASSUME NEW n \in Node, VerifyNode(n)
       PROVE  Tokens' /\ Apart'
    BY <1>3 DEF Tokens, Apart, Holds, VerifyNode
  <1>4. ASSUME NEW w \in Worker, Recover(w) \/ Done(w) \/ Enqueue(w) \/ Start(w) \/ LookUp(w) \/
    Claim(w) \/ Discard(w) \/ Defer(w) \/ GiveUp(w) \/ Complete(w) \/ FinishConflict(w) \/
    Apply(w) \/ ExecuteRaises(w) \/ LeaseLost(w) \/ PersistFails(w) \/ Crash(w)
       PROVE  Tokens' /\ Apart'
    <2>1. CASE Recover(w)
      <3>1. \A x \in Worker \ {w} : SameWorker(x) BY <2>1 DEF Recover, Goto, Idle, SameWorker, TypeInv, WorkerType
      <3>2. attempt' = attempt BY <2>1 DEF Recover
      <3>3. Holds(w)' => Holds(w) /\ run'[w] = run[w] /\ mine'[w] \in {mine[w], 0}
        BY <2>1 DEF Recover, Goto, Idle, Holds, TypeInv, WorkerType
      <3>4. QED BY <3>1, <3>2, <3>3, TokensKept
    <2>2. CASE Done(w)
      <3>1. \A x \in Worker \ {w} : SameWorker(x) BY <2>2 DEF Done, Goto, Idle, SameWorker, TypeInv, WorkerType
      <3>2. attempt' = attempt BY <2>2 DEF Done
      <3>3. Holds(w)' => Holds(w) /\ run'[w] = run[w] /\ mine'[w] \in {mine[w], 0}
        BY <2>2 DEF Done, Goto, Idle, Holds, TypeInv, WorkerType
      <3>4. QED BY <3>1, <3>2, <3>3, TokensKept
    <2>3. CASE Enqueue(w)
      <3>1. \A x \in Worker \ {w} : SameWorker(x) BY <2>3 DEF Enqueue, Goto, Idle, SameWorker, TypeInv, WorkerType
      <3>2. attempt' = attempt BY <2>3 DEF Enqueue
      <3>3. Holds(w)' => Holds(w) /\ run'[w] = run[w] /\ mine'[w] \in {mine[w], 0}
        BY <2>3 DEF Enqueue, Goto, Idle, Holds, TypeInv, WorkerType
      <3>4. QED BY <3>1, <3>2, <3>3, TokensKept
    <2>4. CASE Start(w)
      <3>1. \A x \in Worker \ {w} : SameWorker(x) BY <2>4 DEF Start, Goto, Idle, SameWorker, TypeInv, WorkerType
      <3>2. attempt' = attempt BY <2>4 DEF Start
      <3>3. Holds(w)' => Holds(w) /\ run'[w] = run[w] /\ mine'[w] \in {mine[w], 0}
        BY <2>4 DEF Start, Goto, Idle, Holds, TypeInv, WorkerType
      <3>4. QED BY <3>1, <3>2, <3>3, TokensKept
    <2>5. CASE LookUp(w)
      <3>1. \A x \in Worker \ {w} : SameWorker(x) BY <2>5 DEF LookUp, Goto, Idle, SameWorker, TypeInv, WorkerType
      <3>2. attempt' = attempt BY <2>5 DEF LookUp
      <3>3. Holds(w)' => Holds(w) /\ run'[w] = run[w] /\ mine'[w] \in {mine[w], 0}
        BY <2>5 DEF LookUp, Goto, Idle, Holds, TypeInv, WorkerType
      <3>4. QED BY <3>1, <3>2, <3>3, TokensKept
    <2>6. CASE Claim(w)
      <3>1. QED BY <2>6, ClaimKeepsTokens
    <2>7. CASE Discard(w)
      <3>1. \A x \in Worker \ {w} : SameWorker(x) BY <2>7 DEF Discard, Goto, Idle, SameWorker, TypeInv, WorkerType
      <3>2. attempt' = attempt BY <2>7 DEF Discard
      <3>3. Holds(w)' => Holds(w) /\ run'[w] = run[w] /\ mine'[w] \in {mine[w], 0}
        BY <2>7 DEF Discard, Goto, Idle, Holds, TypeInv, WorkerType
      <3>4. QED BY <3>1, <3>2, <3>3, TokensKept
    <2>8. CASE Defer(w)
      <3>1. \A x \in Worker \ {w} : SameWorker(x) BY <2>8 DEF Defer, Goto, Idle, SameWorker, TypeInv, WorkerType
      <3>2. attempt' = attempt BY <2>8 DEF Defer
      <3>3. Holds(w)' => Holds(w) /\ run'[w] = run[w] /\ mine'[w] \in {mine[w], 0}
        BY <2>8 DEF Defer, Goto, Idle, Holds, TypeInv, WorkerType
      <3>4. QED BY <3>1, <3>2, <3>3, TokensKept
    <2>9. CASE GiveUp(w)
      <3>1. \A x \in Worker \ {w} : SameWorker(x) BY <2>9 DEF GiveUp, Goto, Idle, SameWorker, TypeInv, WorkerType
      <3>2. attempt' = attempt BY <2>9 DEF GiveUp
      <3>3. Holds(w)' => Holds(w) /\ run'[w] = run[w] /\ mine'[w] \in {mine[w], 0}
        BY <2>9 DEF GiveUp, Goto, Idle, Holds, TypeInv, WorkerType
      <3>4. QED BY <3>1, <3>2, <3>3, TokensKept
    <2>10. CASE Complete(w)
      <3>1. \A x \in Worker \ {w} : SameWorker(x) BY <2>10 DEF Complete, Goto, Idle, SameWorker, TypeInv, WorkerType
      <3>2. attempt' = attempt BY <2>10 DEF Complete
      <3>3. Holds(w)' => Holds(w) /\ run'[w] = run[w] /\ mine'[w] \in {mine[w], 0}
        BY <2>10 DEF Complete, Goto, Idle, Holds, TypeInv, WorkerType
      <3>4. QED BY <3>1, <3>2, <3>3, TokensKept
    <2>11. CASE FinishConflict(w)
      <3>1. \A x \in Worker \ {w} : SameWorker(x) BY <2>11 DEF FinishConflict, Goto, Idle, SameWorker, TypeInv, WorkerType
      <3>2. attempt' = attempt BY <2>11 DEF FinishConflict
      <3>3. Holds(w)' => Holds(w) /\ run'[w] = run[w] /\ mine'[w] \in {mine[w], 0}
        BY <2>11 DEF FinishConflict, Goto, Idle, Holds, TypeInv, WorkerType
      <3>4. QED BY <3>1, <3>2, <3>3, TokensKept
    <2>12. CASE Apply(w)
      <3>1. \A x \in Worker \ {w} : SameWorker(x) BY <2>12 DEF Apply, Goto, Idle, SameWorker, TypeInv, WorkerType
      <3>2. attempt' = attempt BY <2>12 DEF Apply
      <3>3. Holds(w)' => Holds(w) /\ run'[w] = run[w] /\ mine'[w] \in {mine[w], 0}
        BY <2>12 DEF Apply, Goto, Idle, Holds, TypeInv, WorkerType
      <3>4. QED BY <3>1, <3>2, <3>3, TokensKept
    <2>13. CASE ExecuteRaises(w)
      <3>1. \A x \in Worker \ {w} : SameWorker(x) BY <2>13 DEF ExecuteRaises, Goto, Idle, SameWorker, TypeInv, WorkerType
      <3>2. attempt' = attempt BY <2>13 DEF ExecuteRaises
      <3>3. Holds(w)' => Holds(w) /\ run'[w] = run[w] /\ mine'[w] \in {mine[w], 0}
        BY <2>13 DEF ExecuteRaises, Goto, Idle, Holds, TypeInv, WorkerType
      <3>4. QED BY <3>1, <3>2, <3>3, TokensKept
    <2>14. CASE LeaseLost(w)
      <3>1. \A x \in Worker \ {w} : SameWorker(x) BY <2>14 DEF LeaseLost, Goto, Idle, SameWorker, TypeInv, WorkerType
      <3>2. attempt' = attempt BY <2>14 DEF LeaseLost
      <3>3. Holds(w)' => Holds(w) /\ run'[w] = run[w] /\ mine'[w] \in {mine[w], 0}
        BY <2>14 DEF LeaseLost, Goto, Idle, Holds, TypeInv, WorkerType
      <3>4. QED BY <3>1, <3>2, <3>3, TokensKept
    <2>15. CASE PersistFails(w)
      <3>1. \A x \in Worker \ {w} : SameWorker(x) BY <2>15 DEF PersistFails, Goto, Idle, SameWorker, TypeInv, WorkerType
      <3>2. attempt' = attempt BY <2>15 DEF PersistFails
      <3>3. Holds(w)' => Holds(w) /\ run'[w] = run[w] /\ mine'[w] \in {mine[w], 0}
        BY <2>15 DEF PersistFails, Goto, Idle, Holds, TypeInv, WorkerType
      <3>4. QED BY <3>1, <3>2, <3>3, TokensKept
    <2>16. CASE Crash(w)
      <3>1. \A x \in Worker \ {w} : SameWorker(x) BY <2>16 DEF Crash, Goto, Idle, SameWorker, TypeInv, WorkerType
      <3>2. attempt' = attempt BY <2>16 DEF Crash
      <3>3. Holds(w)' => Holds(w) /\ run'[w] = run[w] /\ mine'[w] \in {mine[w], 0}
        BY <2>16 DEF Crash, Goto, Idle, Holds, TypeInv, WorkerType
      <3>4. QED BY <3>1, <3>2, <3>3, TokensKept
    <2>q. QED BY <1>4, <2>1, <2>2, <2>3, <2>4, <2>5, <2>6, <2>7, <2>8, <2>9, <2>10, <2>11,
      <2>12, <2>13, <2>14, <2>15, <2>16
  <1>5. ASSUME NEW w \in Worker, NEW n \in Node, Read(w, n)
       PROVE  Tokens' /\ Apart'
      <2>1. \A x \in Worker \ {w} : SameWorker(x) BY <1>5 DEF Read, Goto, Idle, SameWorker, TypeInv, WorkerType
      <2>2. attempt' = attempt BY <1>5 DEF Read
      <2>3. Holds(w)' => Holds(w) /\ run'[w] = run[w] /\ mine'[w] \in {mine[w], 0}
        BY <1>5 DEF Read, Goto, Idle, Holds, TypeInv, WorkerType
      <2>4. QED BY <2>1, <2>2, <2>3, TokensKept
  <1>6. ASSUME NEW w \in Worker, NEW a \in Outcome, Execute(w, a)
       PROVE  Tokens' /\ Apart'
      <2>1. \A x \in Worker \ {w} : SameWorker(x) BY <1>6 DEF Execute, Goto, Idle, SameWorker, TypeInv, WorkerType
      <2>2. attempt' = attempt BY <1>6 DEF Execute
      <2>3. Holds(w)' => Holds(w) /\ run'[w] = run[w] /\ mine'[w] \in {mine[w], 0}
        BY <1>6 DEF Execute, Goto, Idle, Holds, TypeInv, WorkerType
      <2>4. QED BY <2>1, <2>2, <2>3, TokensKept
  <1>7. ASSUME NEW r \in Run, LeaseExpires(r) \/ RetryDue(r)
       PROVE  Tokens' /\ Apart'
    <2>1. CASE LeaseExpires(r) BY <2>1 DEF Tokens, Apart, Holds, LeaseExpires
    <2>2. CASE RetryDue(r) BY <2>2 DEF Tokens, Apart, Holds, RetryDue
    <2>q. QED BY <1>7, <2>1, <2>2
  <1>8. CASE UNCHANGED vars BY <1>8 DEF Tokens, Apart, Holds, vars
  <1>9. QED BY <1>1, <1>2, <1>3, <1>4, <1>5, <1>6, <1>7, <1>8, Zenon DEF Next, WorkerNext

LEMMA BlankStep ==
  ASSUME TypeInv, Blank, [Next]_vars
  PROVE  Blank'
  <1>1. ASSUME NEW n \in Node, NEW event \in Outside, Event(n, event)
       PROVE  Blank'
    BY <1>1 DEF Blank, Event
  <1>2. ASSUME NEW n \in Node, NEW v \in Version, FreezeTestContract(n, v) \/
    InvalidateTestContract(n, v)
       PROVE  Blank'
    <2>1. CASE FreezeTestContract(n, v) BY <2>1 DEF Blank, FreezeTestContract
    <2>2. CASE InvalidateTestContract(n, v) BY <2>2 DEF Blank, InvalidateTestContract
    <2>q. QED BY <1>2, <2>1, <2>2
  <1>3. ASSUME NEW n \in Node, VerifyNode(n)
       PROVE  Blank'
    BY <1>3 DEF Blank, VerifyNode
  <1>4. ASSUME NEW w \in Worker, Recover(w) \/ Done(w) \/ Enqueue(w) \/ Start(w) \/ LookUp(w) \/
    Claim(w) \/ Discard(w) \/ Defer(w) \/ GiveUp(w) \/ Complete(w) \/ FinishConflict(w) \/
    Apply(w) \/ ExecuteRaises(w) \/ LeaseLost(w) \/ PersistFails(w) \/ Crash(w)
       PROVE  Blank'
    <2>1. CASE Recover(w) BY <2>1 DEF Blank, Recover, Goto
    <2>2. CASE Done(w) BY <2>2 DEF Blank, Done, Idle
    <2>3. CASE Enqueue(w)
      <3>1. CASE UNCHANGED <<runs, rstate>> BY <3>1 DEF Blank
      <3>2. ASSUME NEW key \in RunKey, runs' = Append(runs, key),
                 rstate' = [rstate EXCEPT ![Len(runs) + 1] = "queued"]
          PROVE  Blank'
        <4>1. Len(runs') = Len(runs) + 1 /\ Len(runs) \in Nat BY <3>2, RunsExist DEF TypeInv, RunType
        <4>2. QED BY <3>2, <4>1 DEF Blank, TypeInv, RunType
      <3>3. [node |-> node[w], phase |-> phase[w], source |-> seen[w].revision, version |-> seen[w].version] \in RunKey
        BY <2>3 DEF Enqueue, TypeInv, WorkerType, Working, WorksAt, RunKey
      <3>4. QED BY <2>3, <3>1, <3>2, <3>3 DEF Enqueue
    <2>4. CASE Start(w) BY <2>4 DEF Blank, Start, Goto
    <2>5. CASE LookUp(w) BY <2>5 DEF Blank, LookUp, Goto, Idle
    <2>6. CASE Claim(w)
      <3>1. run[w] \in 1 .. Len(runs) /\ Len(runs) \in Nat BY <2>6, RunsExist DEF Claim
      <3>2. runs' = runs /\ \A r \in Run \ {run[w]} : rstate'[r] = rstate[r] BY <2>6 DEF Claim, TypeInv, RunType
      <3>3. QED BY <3>1, <3>2 DEF Blank
    <2>7. CASE Discard(w) BY <2>7 DEF Blank, Discard, Goto
    <2>8. CASE Defer(w)
      <3>1. run[w] \in 1 .. Len(runs) /\ Len(runs) \in Nat BY <2>8, RunsExist DEF Defer
      <3>2. runs' = runs /\ \A r \in Run \ {run[w]} : rstate'[r] = rstate[r] BY <2>8 DEF Defer, TypeInv, RunType
      <3>3. QED BY <3>1, <3>2 DEF Blank
    <2>9. CASE GiveUp(w)
      <3>1. run[w] \in 1 .. Len(runs) /\ Len(runs) \in Nat BY <2>9, RunsExist DEF GiveUp
      <3>2. runs' = runs /\ \A r \in Run \ {run[w]} : rstate'[r] = rstate[r] BY <2>9 DEF GiveUp, TypeInv, RunType
      <3>3. QED BY <3>1, <3>2 DEF Blank
    <2>10. CASE Complete(w)
      <3>1. run[w] \in 1 .. Len(runs) /\ Len(runs) \in Nat BY <2>10, RunsExist DEF Complete
      <3>2. runs' = runs /\ \A r \in Run \ {run[w]} : rstate'[r] = rstate[r] BY <2>10 DEF Complete, TypeInv, RunType
      <3>3. QED BY <3>1, <3>2 DEF Blank
    <2>11. CASE FinishConflict(w) BY <2>11 DEF Blank, FinishConflict, Idle
    <2>12. CASE Apply(w) BY <2>12 DEF Blank, Apply, Goto, Idle
    <2>13. CASE ExecuteRaises(w) BY <2>13 DEF Blank, ExecuteRaises, Idle
    <2>14. CASE LeaseLost(w) BY <2>14 DEF Blank, LeaseLost
    <2>15. CASE PersistFails(w) BY <2>15 DEF Blank, PersistFails, Idle
    <2>16. CASE Crash(w) BY <2>16 DEF Blank, Crash, Idle
    <2>q. QED BY <1>4, <2>1, <2>2, <2>3, <2>4, <2>5, <2>6, <2>7, <2>8, <2>9, <2>10, <2>11,
      <2>12, <2>13, <2>14, <2>15, <2>16
  <1>5. ASSUME NEW w \in Worker, NEW n \in Node, Read(w, n)
       PROVE  Blank'
    BY <1>5 DEF Blank, Read, Goto
  <1>6. ASSUME NEW w \in Worker, NEW a \in Outcome, Execute(w, a)
       PROVE  Blank'
    BY <1>6 DEF Blank, Execute, Goto
  <1>7. ASSUME NEW r \in Run, LeaseExpires(r) \/ RetryDue(r)
       PROVE  Blank'
    <2>1. CASE LeaseExpires(r) BY <2>1 DEF Blank, LeaseExpires
    <2>2. CASE RetryDue(r) BY <2>2 DEF Blank, RetryDue
    <2>q. QED BY <1>7, <2>1, <2>2
  <1>8. CASE UNCHANGED vars BY <1>8 DEF Blank, vars
  <1>9. QED BY <1>1, <1>2, <1>3, <1>4, <1>5, <1>6, <1>7, <1>8, Zenon DEF Next, WorkerNext

OwnerInv == Tokens /\ Apart /\ Blank

LEMMA OwnerAlways == Spec => [](TypeInv /\ OwnerInv)
  <1>1. Init => OwnerInv BY DEF Init, OwnerInv, Tokens, Apart, Blank, Holds
  <1>2. TypeInv /\ OwnerInv /\ [Next]_vars => OwnerInv' BY TokenStep, BlankStep DEF OwnerInv
  <1>3. QED BY <1>1, <1>2, TypeAlways, PTL DEF Spec

(* claim_verification_run() gives every claim a token of its own and          *)
(* complete_verification_run() and defer_verification_run() compare it: of    *)
(* all the workers that took a run for theirs, whenever their leases ran     *)
(* out, at most one can still decide it.                                    *)
THEOREM OneOwnerAtATime == Spec => []OneOwner
  <1>1. TypeInv /\ OwnerInv => OneOwner BY DEF OwnerInv, Apart, Holds, OneOwner, Owns
  <1>2. QED BY <1>1, OwnerAlways, PTL

-----------------------------------------------------------------------------
FinalStep == \A r \in Run : rstate[r] = "completed" => rstate'[r] = "completed" /\ outcome'[r] = outcome[r]

LEMMA FinalSteps ==
  ASSUME TypeInv, Blank, [Next]_vars
  PROVE  FinalStep
  <1>1. ASSUME NEW n \in Node, NEW event \in Outside, Event(n, event)
       PROVE  FinalStep
    BY <1>1 DEF FinalStep, Event
  <1>2. ASSUME NEW n \in Node, NEW v \in Version, FreezeTestContract(n, v) \/
    InvalidateTestContract(n, v)
       PROVE  FinalStep
    <2>1. CASE FreezeTestContract(n, v) BY <2>1 DEF FinalStep, FreezeTestContract
    <2>2. CASE InvalidateTestContract(n, v) BY <2>2 DEF FinalStep, InvalidateTestContract
    <2>q. QED BY <1>2, <2>1, <2>2
  <1>3. ASSUME NEW n \in Node, VerifyNode(n)
       PROVE  FinalStep
    BY <1>3 DEF FinalStep, VerifyNode
  <1>4. ASSUME NEW w \in Worker, Recover(w) \/ Done(w) \/ Enqueue(w) \/ Start(w) \/ LookUp(w) \/
    Claim(w) \/ Discard(w) \/ Defer(w) \/ GiveUp(w) \/ Complete(w) \/ FinishConflict(w) \/
    Apply(w) \/ ExecuteRaises(w) \/ LeaseLost(w) \/ PersistFails(w) \/ Crash(w)
       PROVE  FinalStep
    <2>1. CASE Recover(w) BY <2>1 DEF FinalStep, Recover, Goto
    <2>2. CASE Done(w) BY <2>2 DEF FinalStep, Done, Idle
    <2>3. CASE Enqueue(w)
      <3>1. UNCHANGED outcome /\ (rstate' = rstate \/ rstate' = [rstate EXCEPT ![Len(runs) + 1] = "queued"])
        BY <2>3 DEF Enqueue
      <3>2. \A r \in Run : r = Len(runs) + 1 => rstate[r] # "completed" BY RunsExist DEF Blank
      <3>3. QED BY <3>1, <3>2 DEF FinalStep, TypeInv, RunType
    <2>4. CASE Start(w) BY <2>4 DEF FinalStep, Start, Goto
    <2>5. CASE LookUp(w) BY <2>5 DEF FinalStep, LookUp, Goto, Idle
    <2>6. CASE Claim(w)
      <3>1. run[w] \in Run BY <2>6, RunsExist DEF Claim
      <3>2. UNCHANGED outcome /\ (rstate' = rstate \/ rstate[run[w]] # "completed") BY <2>6 DEF Claim, Claimable
      <3>3. \A r \in Run \ {run[w]} : rstate'[r] = rstate[r] BY <2>6 DEF Claim, TypeInv, RunType
      <3>4. QED BY <3>1, <3>2, <3>3 DEF FinalStep
    <2>7. CASE Discard(w) BY <2>7 DEF FinalStep, Discard, Goto
    <2>8. CASE Defer(w)
      <3>1. run[w] \in Run BY <2>8, RunsExist DEF Defer
      <3>2. UNCHANGED outcome /\ (rstate' = rstate \/ rstate[run[w]] # "completed") BY <2>8 DEF Defer, Owns
      <3>3. \A r \in Run \ {run[w]} : rstate'[r] = rstate[r] BY <2>8 DEF Defer, TypeInv, RunType
      <3>4. QED BY <3>1, <3>2, <3>3 DEF FinalStep
    <2>9. CASE GiveUp(w)
      <3>1. run[w] \in Run BY <2>9, RunsExist DEF GiveUp
      <3>2. UNCHANGED outcome /\ (rstate' = rstate \/ rstate[run[w]] # "completed") BY <2>9 DEF GiveUp, Owns
      <3>3. \A r \in Run \ {run[w]} : rstate'[r] = rstate[r] BY <2>9 DEF GiveUp, TypeInv, RunType
      <3>4. QED BY <3>1, <3>2, <3>3 DEF FinalStep
    <2>10. CASE Complete(w)
      <3>1. run[w] \in Run BY <2>10, RunsExist DEF Complete
      <3>2. CASE Owns(w) BY <2>10, <3>1, <3>2 DEF Complete, Owns, FinalStep, TypeInv, RunType
      <3>3. CASE ~Owns(w) BY <2>10, <3>1, <3>3 DEF Complete, FinalStep, TypeInv, RunType
      <3>4. QED BY <3>2, <3>3
    <2>11. CASE FinishConflict(w) BY <2>11 DEF FinalStep, FinishConflict, Idle
    <2>12. CASE Apply(w) BY <2>12 DEF FinalStep, Apply, Goto, Idle
    <2>13. CASE ExecuteRaises(w) BY <2>13 DEF FinalStep, ExecuteRaises, Idle
    <2>14. CASE LeaseLost(w) BY <2>14 DEF FinalStep, LeaseLost
    <2>15. CASE PersistFails(w) BY <2>15 DEF FinalStep, PersistFails, Idle
    <2>16. CASE Crash(w) BY <2>16 DEF FinalStep, Crash, Idle
    <2>q. QED BY <1>4, <2>1, <2>2, <2>3, <2>4, <2>5, <2>6, <2>7, <2>8, <2>9, <2>10, <2>11,
      <2>12, <2>13, <2>14, <2>15, <2>16
  <1>5. ASSUME NEW w \in Worker, NEW n \in Node, Read(w, n)
       PROVE  FinalStep
    BY <1>5 DEF FinalStep, Read, Goto
  <1>6. ASSUME NEW w \in Worker, NEW a \in Outcome, Execute(w, a)
       PROVE  FinalStep
    BY <1>6 DEF FinalStep, Execute, Goto
  <1>7. ASSUME NEW r \in Run, LeaseExpires(r) \/ RetryDue(r)
       PROVE  FinalStep
    <2>1. CASE LeaseExpires(r) BY <2>1 DEF FinalStep, LeaseExpires
    <2>2. CASE RetryDue(r) BY <2>2 DEF FinalStep, RetryDue
    <2>q. QED BY <1>7, <2>1, <2>2
  <1>8. CASE UNCHANGED vars BY <1>8 DEF FinalStep, vars
  <1>9. QED BY <1>1, <1>2, <1>3, <1>4, <1>5, <1>6, <1>7, <1>8, Zenon DEF Next, WorkerNext

(* What complete_verification_run() recorded is the authoritative result for  *)
(* good: no late worker, second claim, deferral or crash replaces it.        *)
THEOREM OutcomeIsFinal == Spec => OutcomeStays
  <1>1. TypeInv /\ OwnerInv /\ [Next]_vars =>
          [\A r \in Run : rstate[r] = "completed" =>
              rstate'[r] = "completed" /\ outcome'[r] = outcome[r]]_vars
    BY FinalSteps DEF OwnerInv, FinalStep
  <1>2. QED BY <1>1, OwnerAlways, PTL DEF Spec, OutcomeStays

-----------------------------------------------------------------------------
(* The evidence behind a gate, for one orchestrator.  Two of them lose it:    *)
(* one that is held up before it applies a result applies it to the contract *)
(* the gate is bound to by then.                                            *)
Alone == \A w, x \in Worker : w = x

Confirmed == {"RED_CONFIRMED", "IMPLEMENTING", "SUBMITTED", "FINAL_VERIFYING",
              "READY_TO_PUBLISH", "PUBLISHED"}
Publishable == {"READY_TO_PUBLISH", "PUBLISHED"}

Key(w) == [node |-> node[w], phase |-> phase[w], source |-> seen[w].revision,
           version |-> seen[w].version]

PassedBy(r, n, source, v) ==
    /\ runs[r] = [node |-> n, phase |-> "final", source |-> source, version |-> v]
    /\ rstate[r] = "completed" /\ outcome[r] = "final_verification_passed"

Evidence(n) ==
    /\ state[n] \in Confirmed => Recorded(n, "red", "red_confirmed", contract[n])
    /\ state[n] \in Publishable => \E r \in DOMAIN runs : PassedBy(r, n, submitted[n], contract[n])
    /\ n \in verified => \E v \in Version : /\ Recorded(n, "red", "red_confirmed", v)
                                            /\ Recorded(n, "final", "final_verification_passed", v)

(* A run is of a revision the gate had, and if it has it still, of its phase *)
(* and contract; later runs of a gate are of later revisions.               *)
OfItsGate(r) ==
    /\ runs[r].source <= revision[runs[r].node]
    /\ runs[r].source = revision[runs[r].node] =>
         state[runs[r].node] = Trigger(runs[r].phase) /\ contract[runs[r].node] = runs[r].version

Sources ==
    /\ \A r \in DOMAIN runs : OfItsGate(r)
    /\ \A r, s \in DOMAIN runs :
         r < s /\ runs[r].node = runs[s].node => runs[r].source < runs[s].source

Outcomes == \A r \in DOMAIN runs : rstate[r] = "completed" => outcome[r] \in Result(runs[r].phase)

(* A gate that is verified is so by its latest run.                          *)
TestedBy(r, n, p) ==
    /\ Latest(n, r) /\ runs[r].phase = p /\ runs[r].version = contract[n]
    /\ p = "final" => runs[r].source = submitted[n]

UnderTest(n) ==
    /\ \A p \in Phase : state[n] = Running(p) => \E r \in DOMAIN runs : TestedBy(r, n, p)
    /\ state[n] = "SUBMITTED" => submitted[n] = revision[n]

(* What the orchestrator read of the gate is the gate or the past; its run   *)
(* is the latest one of the gate.                                           *)
Serves(w) ==
    /\ pc[w] \in {"enqueue", "start"} =>
         /\ seen[w].revision <= revision[node[w]]
         /\ seen[w].revision = revision[node[w]] =>
              state[node[w]] = Trigger(phase[w]) /\ contract[node[w]] = seen[w].version
         /\ \A p \in Phase : state[node[w]] # Running(p)
    /\ pc[w] = "enqueue" =>
         \A r \in DOMAIN runs : runs[r].node = node[w] =>
            /\ runs[r].source <= seen[w].revision
            /\ runs[r].source = seen[w].revision => runs[r] = Key(w)
    /\ pc[w] = "start" => Latest(node[w], run[w]) /\ runs[run[w]] = Key(w)
    /\ pc[w] \in {"claim", "execute", "finish", "apply"} =>
         Latest(node[w], run[w]) /\ runs[run[w]].phase = phase[w]
    /\ pc[w] = "finish" => answer[w] \in Result(phase[w]) \cup {"temporary"}
    /\ pc[w] = "apply" => rstate[run[w]] = "completed" /\ outcome[run[w]] = answer[w]

GateInv == \A n \in Node : Evidence(n) /\ UnderTest(n)

EvidenceInv == Sources /\ Outcomes /\ GateInv /\ \A w \in Worker : Serves(w)

(* Which events lead where: only a confirmed red run, a passed final run and *)
(* the start of a verification lead into the states that need evidence.      *)
LEMMA EventsEarn ==
  ASSUME NEW event \in Happening
  PROVE  /\ To(event) \in Confirmed =>
              /\ event = "red_confirmed" \/ From(event) \subseteq Confirmed
              /\ event \notin {"test_contract_approved", "invalid_test", "baseline_expired"}
         /\ To(event) \in Publishable =>
              event # "submitted" /\ (event = "final_verification_passed" \/ From(event) \subseteq Publishable)
         /\ \A p \in Phase : To(event) = Running(p) => event = StartEvent(p)
         /\ To(event) = "SUBMITTED" => event = "submitted"
         /\ event \in Outside => \A p \in Phase : To(event) # Running(p)
  <1>1. /\ To(event) = "RED_CONFIRMED" => event = "red_confirmed"
        /\ To(event) = "IMPLEMENTING" =>
             event \in {"implementation_started", "final_verification_failed"}
        /\ To(event) = "SUBMITTED" => event = "submitted"
        /\ To(event) = "RED_VERIFYING" => event = "red_verification_started"
        /\ To(event) = "FINAL_VERIFYING" => event = "final_verification_started"
        /\ To(event) = "READY_TO_PUBLISH" => event = "final_verification_passed"
        /\ To(event) = "PUBLISHED" => event = "published"
    <2>1. event \in {"start", "test_contract_approved", "red_allowed", "implementation_started",
                      "submitted", "published", "baseline_expired", "red_confirmed", "invalid_test",
                      "infrastructure_failed", "final_verification_passed", "final_verification_failed",
                      "red_verification_started", "final_verification_started",
                      "verification_retry_exhausted"}
      BY DEF Happening, Outside, Decision, Result
    <2>2. /\ To("start") = "TEST_AUTHORING" /\ To("invalid_test") = "TEST_AUTHORING"
          /\ To("baseline_expired") = "TEST_AUTHORING"
          /\ To("test_contract_approved") = "TEST_CONTRACT_APPROVED"
          /\ To("red_allowed") = "RED_ALLOWED" /\ To("infrastructure_failed") = "RED_ALLOWED"
          /\ To("red_verification_started") = "RED_VERIFYING"
          /\ To("red_confirmed") = "RED_CONFIRMED"
          /\ To("implementation_started") = "IMPLEMENTING"
      BY DEF To
    <2>3. /\ To("final_verification_failed") = "IMPLEMENTING"
          /\ To("submitted") = "SUBMITTED"
          /\ To("final_verification_started") = "FINAL_VERIFYING"
          /\ To("final_verification_passed") = "READY_TO_PUBLISH"
          /\ To("published") = "PUBLISHED"
          /\ To("verification_retry_exhausted") = "VERIFICATION_BLOCKED"
      BY DEF To
    <2>4. QED BY <2>1, <2>2, <2>3
  <1>2. /\ From("implementation_started") = {"RED_CONFIRMED"}
        /\ From("final_verification_failed") = {"FINAL_VERIFYING"}
        /\ From("submitted") = {"IMPLEMENTING"} /\ From("final_verification_started") = {"SUBMITTED"}
        /\ From("final_verification_passed") = {"FINAL_VERIFYING"}
        /\ From("published") = {"READY_TO_PUBLISH"}
    BY DEF From
  <1>3. To(event) \in Confirmed =>
          event \in {"red_confirmed", "implementation_started", "final_verification_failed", "submitted",
                    "final_verification_started", "final_verification_passed", "published"}
    BY <1>1 DEF Confirmed
  <1>4. To(event) \in Publishable => event \in {"final_verification_passed", "published"}
    BY <1>1 DEF Publishable
  <1>5. \A p \in Phase : To(event) = Running(p) => event = StartEvent(p)
    BY <1>1 DEF Phase, Running, StartEvent
  <1>6. event \in Outside => To(event) \notin {"RED_VERIFYING", "FINAL_VERIFYING"}
    BY <1>1 DEF Outside
  <1>7. \A p \in Phase : Running(p) \in {"RED_VERIFYING", "FINAL_VERIFYING"}
    BY DEF Phase, Running
  <1>8. To(event) \in Confirmed => event = "red_confirmed" \/ From(event) \subseteq Confirmed
    BY <1>2, <1>3 DEF Confirmed
  <1>9. To(event) \in Publishable => event = "final_verification_passed" \/ From(event) \subseteq Publishable
    BY <1>2, <1>4 DEF Publishable
  <1>10. QED BY <1>1, <1>3, <1>4, <1>5, <1>6, <1>7, <1>8, <1>9

LEMMA TransitionMoves ==
  ASSUME TypeInv, NEW n \in Node, NEW event \in Happening, Transition(n, event)
  PROVE  /\ state[n] \in From(event) /\ state'[n] = To(event) /\ revision'[n] = revision[n] + 1
         /\ \A m \in Node : m # n => /\ state'[m] = state[m] /\ contract'[m] = contract[m]
                                     /\ revision'[m] = revision[m]
         /\ event \notin {"test_contract_approved", "invalid_test", "baseline_expired"}
              => contract' = contract
  <1>1. /\ state[n] \in From(event) /\ state'[n] = To(event) /\ revision'[n] = revision[n] + 1
        /\ \A m \in Node : m # n => state'[m] = state[m] /\ revision'[m] = revision[m]
    BY DEF Transition, TypeInv, GateType
  <1>2. /\ \A m \in Node : m # n => contract'[m] = contract[m]
        /\ event \notin {"test_contract_approved", "invalid_test", "baseline_expired"}
             => contract' = contract
    <2>1. CASE event = "test_contract_approved" BY <2>1 DEF TypeInv, GateType, Transition, Rebind
    <2>2. CASE event = "red_allowed" BY <2>2 DEF Transition, Rebind
    <2>3. CASE event \in {"invalid_test", "baseline_expired"}
      BY <2>3 DEF TypeInv, GateType, Transition, Rebind
    <2>4. CASE event \notin {"test_contract_approved", "red_allowed", "invalid_test", "baseline_expired"}
      BY <2>4 DEF Transition, Rebind
    <2>5. QED BY <2>1, <2>2, <2>3, <2>4
  <1>3. QED BY <1>1, <1>2

(* What is recorded stays recorded.                                         *)
RunsKept == /\ DOMAIN runs \subseteq DOMAIN runs'
            /\ \A r \in DOMAIN runs :
                 /\ runs'[r] = runs[r]
                 /\ rstate[r] = "completed" => rstate'[r] = "completed" /\ outcome'[r] = outcome[r]

LEMMA RecordsKept ==
  ASSUME RunsKept, NEW n \in Node, NEW p \in Phase, NEW event, NEW v, Recorded(n, p, event, v)
  PROVE  Recorded(n, p, event, v)'
  BY DEF RunsKept, Recorded

LEMMA PassesKept ==
  ASSUME RunsKept, NEW n \in Node, NEW source, NEW v, NEW r \in DOMAIN runs, PassedBy(r, n, source, v)
  PROVE  PassedBy(r, n, source, v)' /\ r \in DOMAIN runs'
  BY DEF RunsKept, PassedBy

(* A gate that does not move keeps its evidence.                             *)
LEMMA EvidenceKept ==
  ASSUME RunsKept, NEW n \in Node, Evidence(n), state'[n] = state[n], contract'[n] = contract[n],
         submitted'[n] = submitted[n], n \in verified' => n \in verified
  PROVE  Evidence(n)'
  <1>1. ASSUME state[n] \in Confirmed PROVE Recorded(n, "red", "red_confirmed", contract[n])'
    <2>1. PICK v : v = contract[n] OBVIOUS
    <2>2. Recorded(n, "red", "red_confirmed", v) BY <1>1, <2>1 DEF Evidence
    <2>3. Recorded(n, "red", "red_confirmed", v)' BY <2>2, RecordsKept DEF Phase
    <2>4. QED BY <2>1, <2>3 DEF Recorded
  <1>2. ASSUME state[n] \in Publishable
        PROVE  \E r \in DOMAIN runs' : PassedBy(r, n, submitted[n], contract[n])'
    <2>1. PICK v, source : v = contract[n] /\ source = submitted[n] OBVIOUS
    <2>2. PICK r \in DOMAIN runs : PassedBy(r, n, source, v) BY <1>2, <2>1 DEF Evidence
    <2>3. PassedBy(r, n, source, v)' /\ r \in DOMAIN runs' BY <2>2, PassesKept
    <2>4. QED BY <2>1, <2>3 DEF PassedBy
  <1>3. ASSUME n \in verified'
        PROVE  \E v \in Version : /\ Recorded(n, "red", "red_confirmed", v)'
                                  /\ Recorded(n, "final", "final_verification_passed", v)'
    BY <1>3, RecordsKept DEF Evidence, Phase
  <1>4. QED BY <1>1, <1>2, <1>3 DEF Evidence

LEMMA RunsTyped ==
  ASSUME TypeInv
  PROVE  \A r \in DOMAIN runs : /\ runs[r].node \in Node /\ runs[r].phase \in Phase
                                /\ runs[r].source \in Nat /\ runs[r].version \in Version
  <1>1. runs \in Seq(RunKey) BY DEF TypeInv, RunType
  <1>2. ASSUME NEW r \in DOMAIN runs PROVE runs[r] \in RunKey
    <2>1. r \in 1 .. Len(runs) BY <1>1
    <2>2. QED BY <1>1, <2>1
  <1>3. QED BY <1>2 DEF RunKey

(* A transition carries the evidence of its gate on, or earns it.            *)
LEMMA GateTransition ==
  ASSUME TypeInv, Sources, GateInv, NEW n \in Node, NEW event \in Happening, Transition(n, event),
         RunsKept, runs' = runs, verified' = verified,
         submitted' = [submitted EXCEPT ![n] = IF event = "submitted" THEN revision[n] + 1 ELSE @],
         event = "red_confirmed" => Recorded(n, "red", "red_confirmed", contract[n]),
         event = "final_verification_passed" =>
           \E r \in DOMAIN runs : PassedBy(r, n, submitted[n], contract[n]),
         \A p \in Phase : event = StartEvent(p) => \E r \in DOMAIN runs : TestedBy(r, n, p)
  PROVE  Sources' /\ GateInv'
  <1>1. /\ state[n] \in From(event) /\ state'[n] = To(event) /\ revision'[n] = revision[n] + 1
        /\ \A m \in Node : m # n => /\ state'[m] = state[m] /\ contract'[m] = contract[m]
                                    /\ revision'[m] = revision[m]
        /\ event \notin {"test_contract_approved", "invalid_test", "baseline_expired"}
             => contract' = contract
    BY TransitionMoves
  <1>2. /\ \A m \in Node : m # n => submitted'[m] = submitted[m]
        /\ event # "submitted" => submitted'[n] = submitted[n]
        /\ event = "submitted" => submitted'[n] = revision[n] + 1
    BY DEF TypeInv, NoteType
  <1>3. ASSUME NEW m \in Node, m # n PROVE Evidence(m)' /\ UnderTest(m)'
    <2>1. Evidence(m) /\ UnderTest(m) BY DEF GateInv
    <2>2. /\ state'[m] = state[m] /\ contract'[m] = contract[m] /\ submitted'[m] = submitted[m]
          /\ revision'[m] = revision[m]
      BY <1>1, <1>2, <1>3
    <2>3. Evidence(m)' BY <2>1, <2>2, EvidenceKept
    <2>4. UnderTest(m)' BY <2>1, <2>2 DEF UnderTest, TestedBy, Latest
    <2>5. QED BY <2>3, <2>4
  <1>4. Evidence(n)'
    <2>0. Evidence(n) BY DEF GateInv
    <2>1. ASSUME state'[n] \in Confirmed PROVE Recorded(n, "red", "red_confirmed", contract[n])'
      <3>1. contract'[n] = contract[n] BY <1>1, <2>1, EventsEarn
      <3>2. PICK v : v = contract[n] OBVIOUS
      <3>3. Recorded(n, "red", "red_confirmed", v)
        BY <1>1, <2>0, <2>1, <3>2, EventsEarn DEF Evidence
      <3>4. Recorded(n, "red", "red_confirmed", v)' BY <3>3, RecordsKept DEF Phase
      <3>5. QED BY <3>1, <3>2, <3>4 DEF Recorded
    <2>2. ASSUME state'[n] \in Publishable
          PROVE  \E r \in DOMAIN runs' : PassedBy(r, n, submitted[n], contract[n])'
      <3>1. contract'[n] = contract[n] /\ submitted'[n] = submitted[n]
        <4>1. To(event) \in Confirmed BY <1>1, <2>2 DEF Publishable, Confirmed
        <4>2. QED BY <1>1, <1>2, <2>2, <4>1, EventsEarn
      <3>2. PICK v, source : v = contract[n] /\ source = submitted[n] OBVIOUS
      <3>3. event = "final_verification_passed" \/ state[n] \in Publishable
        BY <1>1, <2>2, EventsEarn
      <3>4. \E r \in DOMAIN runs : PassedBy(r, n, source, v)
        BY <2>0, <3>2, <3>3 DEF Evidence
      <3>5. PICK r \in DOMAIN runs : PassedBy(r, n, source, v) BY <3>4
      <3>6. PassedBy(r, n, source, v)' /\ r \in DOMAIN runs' BY <3>5, PassesKept
      <3>7. QED BY <3>1, <3>2, <3>6 DEF PassedBy
    <2>3. ASSUME n \in verified'
          PROVE  \E v \in Version : /\ Recorded(n, "red", "red_confirmed", v)'
                                    /\ Recorded(n, "final", "final_verification_passed", v)'
      <3>1. PICK v \in Version : /\ Recorded(n, "red", "red_confirmed", v)
                                 /\ Recorded(n, "final", "final_verification_passed", v)
        BY <2>0, <2>3 DEF Evidence
      <3>2. QED BY <3>1, RecordsKept DEF Phase
    <2>4. QED BY <2>1, <2>2, <2>3 DEF Evidence
  <1>5. UnderTest(n)'
    <2>1. ASSUME NEW p \in Phase, state'[n] = Running(p)
          PROVE  \E r \in DOMAIN runs' : TestedBy(r, n, p)'
      <3>1. event = StartEvent(p) BY <1>1, <2>1, EventsEarn
      <3>2. event \in {"red_verification_started", "final_verification_started"}
        BY <3>1 DEF StartEvent
      <3>3. contract' = contract /\ submitted'[n] = submitted[n] BY <1>1, <1>2, <3>2
      <3>4. PICK r \in DOMAIN runs : TestedBy(r, n, p) BY <3>1
      <3>5. QED BY <3>3, <3>4 DEF TestedBy, Latest
    <2>2. state'[n] = "SUBMITTED" => submitted'[n] = revision'[n]
      BY <1>1, <1>2, EventsEarn
    <2>3. QED BY <2>1, <2>2 DEF UnderTest
  <1>6. Sources'
    <2>1. ASSUME NEW r \in DOMAIN runs PROVE OfItsGate(r)'
      <3>1. OfItsGate(r) /\ runs[r].node \in Node /\ runs[r].source \in Nat
        BY RunsTyped DEF Sources
      <3>2. revision[runs[r].node] \in Nat /\ revision[n] \in Nat BY <3>1 DEF TypeInv, GateType
      <3>3. CASE runs[r].node = n
        <4>1. runs[r].source < revision'[n] BY <1>1, <3>1, <3>2, <3>3 DEF OfItsGate
        <4>2. revision'[n] \in Nat BY <1>1, <3>2
        <4>3. QED BY <3>1, <3>3, <4>1, <4>2 DEF OfItsGate
      <3>4. CASE runs[r].node # n BY <1>1, <3>1, <3>4 DEF OfItsGate
      <3>5. QED BY <3>3, <3>4
    <2>2. QED BY <2>1 DEF Sources
  <1>7. QED BY <1>3, <1>4, <1>5, <1>6 DEF GateInv

(* A step that moves no gate and adds no run.                                *)
LEMMA GatesRest ==
  ASSUME TypeInv, Sources, GateInv, RunsKept, runs' = runs,
         UNCHANGED <<state, revision, contract, submitted, verified>>
  PROVE  Sources' /\ GateInv'
  <1>1. \A n \in Node : Evidence(n)' BY EvidenceKept DEF GateInv
  <1>2. \A n \in Node : UnderTest(n)' BY DEF GateInv, UnderTest, TestedBy, Latest
  <1>3. Sources' BY DEF Sources, OfItsGate
  <1>4. QED BY <1>1, <1>2, <1>3 DEF GateInv

(* A node is verified at a gate that had both verifications.                 *)
LEMMA NodeVerified ==
  ASSUME TypeInv, Sources, GateInv, RunsKept, NEW n \in Node, VerifyNode(n)
  PROVE  Sources' /\ GateInv'
  <1>1. /\ runs' = runs /\ rstate' = rstate /\ outcome' = outcome
        /\ UNCHANGED <<state, revision, contract, submitted>>
        /\ verified' = verified \cup {n} /\ state[n] \in Publishable
    BY DEF VerifyNode, Publishable
  <1>2. \A m \in Node : UnderTest(m)' BY <1>1 DEF GateInv, UnderTest, TestedBy, Latest
  <1>3. Sources' BY <1>1 DEF Sources, OfItsGate
  <1>4. ASSUME NEW m \in Node, m # n PROVE Evidence(m)'
    BY <1>1, <1>4, EvidenceKept DEF GateInv
  <1>5. Evidence(n)'
    <2>0. Evidence(n) BY DEF GateInv
    <2>1. state[n] \in Confirmed /\ contract[n] \in Version
      BY <1>1 DEF Publishable, Confirmed, TypeInv, Bound
    <2>2. PICK v \in Version : v = contract[n] BY <2>1
    <2>3. Recorded(n, "red", "red_confirmed", v) BY <2>0, <2>1, <2>2 DEF Evidence
    <2>4. Recorded(n, "final", "final_verification_passed", v)
      <3>1. PICK r \in DOMAIN runs : PassedBy(r, n, submitted[n], v) BY <1>1, <2>0, <2>2 DEF Evidence
      <3>2. runs[r].node = n /\ runs[r].phase = "final" /\ runs[r].version = v
        BY <3>1 DEF PassedBy
      <3>3. QED BY <3>1, <3>2 DEF PassedBy, Recorded
    <2>5. Recorded(n, "red", "red_confirmed", v)' /\ Recorded(n, "final", "final_verification_passed", v)'
      BY <2>3, <2>4, RecordsKept DEF Phase
    <2>6. (state[n] \in Confirmed => Recorded(n, "red", "red_confirmed", contract[n]))'
      BY <1>1, <2>2, <2>5 DEF Recorded
    <2>7. (state[n] \in Publishable => \E r \in DOMAIN runs : PassedBy(r, n, submitted[n], contract[n]))'
      BY <1>1, <2>0 DEF Evidence, PassedBy
    <2>8. QED BY <2>2, <2>5, <2>6, <2>7 DEF Evidence
  <1>6. QED BY <1>2, <1>3, <1>4, <1>5 DEF GateInv

(* Enqueueing: the run of the revision that was read becomes the latest run.  *)
LEMMA EnqueueServes ==
  ASSUME TypeInv, EvidenceInv, RunsKept, NEW w \in Worker, Enqueue(w)
  PROVE  Sources' /\ GateInv' /\ Outcomes' /\ Serves(w)'
  <1>0. /\ UNCHANGED <<state, revision, contract, submitted, verified, outcome, node, phase, seen>>
        /\ pc[w] = "enqueue" /\ pc'[w] = "start"
        /\ TypeInv /\ Serves(w) /\ Sources /\ Outcomes /\ GateInv
    BY DEF Enqueue, Goto, EvidenceInv, TypeInv, WorkerType
  <1>1. PICK key \in RunKey : key = Key(w)
    <2>1. /\ node[w] \in Node /\ phase[w] \in Phase /\ seen[w].revision \in Nat
          /\ seen[w].version \in Version
      BY <1>0 DEF TypeInv, WorkerType, Working, WorksAt
    <2>2. QED BY <2>1 DEF Key, RunKey
  <1>a. /\ key.node = node[w] /\ key.phase = phase[w] /\ key.source = seen[w].revision
        /\ key.version = seen[w].version /\ key.source \in Nat
    <2>1. seen[w].revision \in Nat BY DEF TypeInv, WorkerType
    <2>2. QED BY <1>1, <2>1 DEF Key
  <1>2. /\ \A r \in DOMAIN runs : runs[r].node = key.node =>
             runs[r].source <= key.source /\ (runs[r].source = key.source => runs[r] = key)
        /\ key.source <= revision[key.node]
        /\ key.source = revision[key.node] =>
             state[key.node] = Trigger(key.phase) /\ contract[key.node] = key.version
        /\ \A p \in Phase : state[key.node] # Running(p)
    BY <1>0, <1>1, <1>a DEF Serves
  <1>3. Len(runs) \in Nat /\ DOMAIN runs = 1 .. Len(runs) /\ DOMAIN runs \subseteq Run
    BY RunsExist
  <1>4. Key(w)' = key BY <1>0, <1>1 DEF Key
  <1>5. ASSUME NEW r \in DOMAIN runs', Latest(key.node, r)', run'[w] = r, runs'[r] = key
        PROVE  Serves(w)'
    <2>1. (Latest(node[w], run[w]) /\ runs[run[w]] = Key(w))'
      BY <1>0, <1>a, <1>4, <1>5 DEF Latest
    <2>2. (/\ seen[w].revision <= revision[node[w]]
           /\ seen[w].revision = revision[node[w]] =>
                state[node[w]] = Trigger(phase[w]) /\ contract[node[w]] = seen[w].version
           /\ \A p \in Phase : state[node[w]] # Running(p))'
      BY <1>0 DEF Serves
    <2>3. QED BY <1>0, <2>1, <2>2 DEF Serves
  <1>6. CASE \E r \in DOMAIN runs : /\ runs[r] = key /\ run' = [run EXCEPT ![w] = r]
                                    /\ UNCHANGED <<runs, rstate>>
    <2>1. PICK r \in DOMAIN runs : /\ runs[r] = key /\ run' = [run EXCEPT ![w] = r]
                                   /\ UNCHANGED <<runs, rstate>>
      BY <1>6
    <2>2. run'[w] = r BY <2>1 DEF TypeInv, WorkerType
    <2>3. ASSUME NEW s \in DOMAIN runs, runs[s].node = key.node PROVE s <= r
      <3>1. s \in Nat /\ r \in Nat BY <1>3
      <3>2. r < s => runs[r].source < runs[s].source BY <1>0, <2>1, <2>3 DEF Sources
      <3>3. runs[s].source <= key.source /\ runs[s].source \in Nat BY <1>2, <2>3, RunsTyped
      <3>4. ~(r < s) BY <1>a, <2>1, <3>2, <3>3
      <3>5. QED BY <3>1, <3>4
    <2>4. Latest(key.node, r)' BY <2>1, <2>3 DEF Latest
    <2>5. Sources' /\ GateInv' BY <1>0, <2>1, GatesRest
    <2>6. Outcomes' BY <1>0, <2>1 DEF Outcomes
    <2>7. Serves(w)' BY <1>5, <2>1, <2>2, <2>4
    <2>8. QED BY <2>5, <2>6, <2>7
  <1>7. CASE /\ \A r \in DOMAIN runs : runs[r] # key
             /\ runs' = Append(runs, key)
             /\ rstate' = [rstate EXCEPT ![Len(runs) + 1] = "queued"]
             /\ run' = [run EXCEPT ![w] = Len(runs) + 1]
             /\ Len(runs) < MaxRun
    <2>0. PICK new \in Nat : new = Len(runs) + 1 BY <1>3
    <2>1. /\ DOMAIN runs' = 1 .. new /\ runs'[new] = key
          /\ \A r \in DOMAIN runs : runs'[r] = runs[r]
      BY <1>3, <1>7, <2>0 DEF TypeInv, RunType
    <2>2. /\ new \in DOMAIN runs' /\ \A r \in DOMAIN runs' : r \in DOMAIN runs \/ r = new
          /\ \A r \in DOMAIN runs : r < new /\ r <= new
      BY <1>3, <2>0, <2>1
    <2>3. run'[w] = new BY <1>7, <2>0 DEF TypeInv, WorkerType
    <2>4. Latest(key.node, new)' BY <2>1, <2>2 DEF Latest
    <2>5. \A r \in DOMAIN runs : runs[r].node = key.node => runs[r].source < key.source
      BY <1>2, <1>7, <1>a, RunsTyped
    <2>6. Sources'
      <3>1. ASSUME NEW r \in DOMAIN runs' PROVE OfItsGate(r)'
        <4>1. CASE r = new BY <1>0, <1>2, <2>1, <4>1 DEF OfItsGate
        <4>2. CASE r \in DOMAIN runs BY <1>0, <2>1, <4>2 DEF Sources, OfItsGate
        <4>3. QED BY <2>2, <4>1, <4>2
      <3>2. ASSUME NEW r \in DOMAIN runs', NEW s \in DOMAIN runs', r < s, runs'[r].node = runs'[s].node
            PROVE  runs'[r].source < runs'[s].source
        <4>1. r \in DOMAIN runs BY <1>3, <2>0, <2>1, <3>2
        <4>2. CASE s = new BY <2>1, <2>5, <3>2, <4>1, <4>2
        <4>3. CASE s \in DOMAIN runs BY <1>0, <2>1, <3>2, <4>1, <4>3 DEF Sources
        <4>4. QED BY <2>2, <4>2, <4>3
      <3>3. QED BY <3>1, <3>2 DEF Sources
    <2>7. Outcomes'
      <3>1. rstate'[new] = "queued" /\ \A r \in DOMAIN runs : rstate'[r] = rstate[r]
        BY <1>3, <1>7, <2>0, <2>2, VerificationAssumption DEF TypeInv, RunType
      <3>2. QED BY <1>0, <2>1, <2>2, <3>1 DEF Outcomes
    <2>8. ASSUME NEW m \in Node PROVE Evidence(m)' /\ UnderTest(m)'
      <3>1. Evidence(m)' BY <1>0, EvidenceKept DEF GateInv
      <3>2. ASSUME NEW p \in Phase, state'[m] = Running(p)
            PROVE  \E r \in DOMAIN runs' : TestedBy(r, m, p)'
        <4>1. m # key.node BY <1>0, <1>2, <3>2
        <4>2. PICK r \in DOMAIN runs : TestedBy(r, m, p) BY <1>0, <3>2 DEF GateInv, UnderTest
        <4>3. Latest(m, r)'
          <5>1. \A s \in DOMAIN runs' : runs'[s].node = m => s \in DOMAIN runs /\ runs[s].node = m
            BY <2>1, <2>2, <4>1
          <5>2. r \in DOMAIN runs' /\ runs'[r].node = m
            BY <1>3, <2>0, <2>1, <4>2 DEF TestedBy, Latest
          <5>3. QED BY <4>2, <5>1, <5>2 DEF TestedBy, Latest
        <4>4. TestedBy(r, m, p)' BY <1>0, <2>1, <4>2, <4>3 DEF TestedBy
        <4>5. r \in DOMAIN runs' BY <4>3 DEF Latest
        <4>6. QED BY <4>4, <4>5
      <3>3. (state[m] = "SUBMITTED" => submitted[m] = revision[m])' BY <1>0 DEF GateInv, UnderTest
      <3>4. QED BY <3>1, <3>2, <3>3 DEF UnderTest
    <2>9. Serves(w)' BY <1>5, <2>1, <2>2, <2>3, <2>4
    <2>10. QED BY <2>6, <2>7, <2>8, <2>9 DEF GateInv
  <1>8. QED BY <1>1, <1>6, <1>7 DEF Enqueue, Key

LEMMA LatestIsOne ==
  ASSUME TypeInv, NEW n \in Node, NEW r, NEW s, Latest(n, r), Latest(n, s)
  PROVE  r = s
  BY RunsExist DEF Latest

LEMMA SubmittedStays ==
  ASSUME TypeInv, NEW n \in Node, NEW event, event # "submitted", submitted' = submitted
  PROVE  submitted' = [submitted EXCEPT ![n] = IF event = "submitted" THEN revision[n] + 1 ELSE @]
  BY DEF TypeInv, NoteType

(* The start of a verification is that of the run of the gate's revision.    *)
LEMMA StartEarns ==
  ASSUME TypeInv, EvidenceInv, RunsKept, NEW w \in Worker, Start(w)
  PROVE  Sources' /\ GateInv' /\ Serves(w)'
  <1>1. /\ runs' = runs /\ verified' = verified /\ submitted' = submitted
        /\ pc[w] = "start" /\ pc'[w] \in {"latest", "next"}
        /\ node[w] \in Node /\ phase[w] \in Phase
    BY DEF Start, Goto, TypeInv, WorkerType
  <1>2. Serves(w)' BY <1>1 DEF Serves
  <1>3. Sources /\ GateInv /\ Serves(w) BY DEF EvidenceInv
  <1>4. CASE UNCHANGED gateVars
    BY <1>1, <1>2, <1>3, <1>4, GatesRest
  <1>5. CASE revision[node[w]] = seen[w].revision /\ Transition(node[w], StartEvent(phase[w]))
    <2> DEFINE n == node[w]
               event == StartEvent(phase[w])
    <2>1. event \in Happening /\ event \in {"red_verification_started", "final_verification_started"}
      BY DEF StartEvent, Happening
    <2>2. Latest(n, run[w]) /\ runs[run[w]] = Key(w) BY <1>1, <1>3 DEF Serves
    <2>3. state[n] = Trigger(phase[w]) /\ contract[n] = seen[w].version
      BY <1>1, <1>3, <1>5 DEF Serves
    <2>4. phase[w] = "final" => submitted[n] = revision[n]
      <3>1. phase[w] = "final" => state[n] = "SUBMITTED" BY <2>3 DEF Trigger
      <3>2. QED BY <1>1, <1>3, <3>1 DEF GateInv, UnderTest
    <2>5. TestedBy(run[w], n, phase[w]) /\ run[w] \in DOMAIN runs
      <3>1. /\ runs[run[w]].phase = phase[w] /\ runs[run[w]].version = seen[w].version
            /\ runs[run[w]].source = seen[w].revision
        BY <2>2 DEF Key
      <3>2. QED BY <1>5, <2>2, <2>3, <2>4, <3>1 DEF TestedBy, Latest
    <2>6. \A p \in Phase : event = StartEvent(p) => p = phase[w]
      BY <1>1 DEF StartEvent, Phase
    <2>7. \A p \in Phase : event = StartEvent(p) => \E r \in DOMAIN runs : TestedBy(r, n, p)
      BY <2>5, <2>6
    <2>8. submitted' = [submitted EXCEPT ![n] = IF event = "submitted" THEN revision[n] + 1 ELSE @]
      BY <1>1, <2>1, SubmittedStays
    <2>9. Transition(n, event) BY <1>5
    <2>10. event # "red_confirmed" /\ event # "final_verification_passed" BY <2>1
    <2>11. PICK m \in Node, e \in Happening : m = n /\ e = event BY <1>1, <2>1
    <2>12. Sources' /\ GateInv'
      BY <1>1, <1>3, <2>7, <2>8, <2>9, <2>10, <2>11, GateTransition
    <2>13. QED BY <1>2, <2>12
  <1>6. QED BY <1>4, <1>5 DEF Start

(* A result is applied to the gate whose latest run it is.                   *)
LEMMA ApplyEarns ==
  ASSUME TypeInv, EvidenceInv, RunsKept, NEW w \in Worker, Apply(w)
  PROVE  Sources' /\ GateInv' /\ Serves(w)'
  <1>1. /\ runs' = runs /\ verified' = verified /\ submitted' = submitted
        /\ pc[w] = "apply" /\ pc'[w] \in {"idle", "next"}
        /\ node[w] \in Node /\ phase[w] \in Phase
    BY DEF Apply, Goto, Idle, TypeInv, WorkerType
  <1>2. Serves(w)' BY <1>1 DEF Serves
  <1>3. Sources /\ GateInv /\ Serves(w) BY DEF EvidenceInv
  <1>4. CASE UNCHANGED gateVars
    BY <1>1, <1>2, <1>3, <1>4, GatesRest
  <1>5. CASE Transition(node[w], answer[w])
    <2>1. PICK n \in Node, event \in Happening : n = node[w] /\ event = answer[w]
      BY <1>1 DEF TypeInv, Working, WorksAt, Happening
    <2>2. /\ Latest(n, run[w]) /\ runs[run[w]].phase = phase[w]
          /\ rstate[run[w]] = "completed" /\ outcome[run[w]] = event
      BY <1>1, <1>3, <2>1 DEF Serves
    <2>3. event \in Result("red") \cup Result("final")
      BY <1>1, <2>1 DEF TypeInv, Working, WorksAt, Decision
    <2>4. event # "submitted" /\ \A p \in Phase : event # StartEvent(p)
      BY <2>3 DEF Result, StartEvent
    <2>5. state[n] \in From(event) BY <1>5, <2>1, TransitionMoves
    <2>6. ASSUME NEW p \in Phase, state[n] = Running(p)
          PROVE  /\ run[w] \in DOMAIN runs /\ runs[run[w]].node = n
                 /\ runs[run[w]].phase = p /\ runs[run[w]].version = contract[n]
                 /\ p = "final" => runs[run[w]].source = submitted[n]
      <3>1. PICK r \in DOMAIN runs : TestedBy(r, n, p) BY <1>3, <2>6 DEF GateInv, UnderTest
      <3>2. r = run[w] BY <2>2, <3>1, LatestIsOne DEF TestedBy
      <3>3. QED BY <2>2, <3>1, <3>2 DEF TestedBy, Latest
    <2>7. event = "red_confirmed" => Recorded(n, "red", "red_confirmed", contract[n])
      <3>1. event = "red_confirmed" => state[n] = Running("red") BY <2>5 DEF From, Running
      <3>2. "red" \in Phase BY DEF Phase
      <3>3. QED BY <2>2, <2>6, <3>1, <3>2 DEF Recorded
    <2>8. event = "final_verification_passed" =>
            \E r \in DOMAIN runs : PassedBy(r, n, submitted[n], contract[n])
      <3>1. event = "final_verification_passed" => state[n] = Running("final")
        BY <2>5 DEF From, Running
      <3>2. "final" \in Phase BY DEF Phase
      <3>3. ASSUME event = "final_verification_passed"
            PROVE  runs[run[w]] = [node |-> n, phase |-> "final", source |-> submitted[n],
                                   version |-> contract[n]]
        <4>1. /\ run[w] \in DOMAIN runs /\ runs[run[w]].node = n /\ runs[run[w]].phase = "final"
              /\ runs[run[w]].version = contract[n] /\ runs[run[w]].source = submitted[n]
          BY <2>6, <3>1, <3>2, <3>3
        <4>2. runs[run[w]] \in RunKey BY <4>1, RunsExist DEF TypeInv, RunType
        <4>3. QED BY <4>1, <4>2 DEF RunKey
      <3>4. event = "final_verification_passed" => run[w] \in DOMAIN runs
        BY <2>6, <3>1, <3>2
      <3>5. QED BY <2>2, <3>3, <3>4 DEF PassedBy
    <2>9. submitted' = [submitted EXCEPT ![n] = IF event = "submitted" THEN revision[n] + 1 ELSE @]
      BY <1>1, <2>4, SubmittedStays
    <2>10. Transition(n, event) BY <1>5, <2>1
    <2>11. Sources' /\ GateInv'
      BY <1>1, <1>3, <2>4, <2>7, <2>8, <2>9, <2>10, GateTransition
    <2>12. QED BY <1>2, <2>11
  <1>6. QED BY <1>4, <1>5 DEF Apply

(* Only an enqueued run is a new one.                                        *)
LEMMA RunsKeep ==
  ASSUME TypeInv, FinalStep,
         runs' = runs \/ \E key \in RunKey : runs' = Append(runs, key)
  PROVE  RunsKept
  <1>1. DOMAIN runs = 1 .. Len(runs) /\ Len(runs) \in Nat /\ DOMAIN runs \subseteq Run
    BY RunsExist
  <1>2. \A r \in DOMAIN runs : rstate[r] = "completed" => rstate'[r] = "completed" /\ outcome'[r] = outcome[r]
    BY <1>1 DEF FinalStep
  <1>3. CASE runs' = runs BY <1>2, <1>3 DEF RunsKept
  <1>4. ASSUME NEW key \in RunKey, runs' = Append(runs, key) PROVE RunsKept
    <2>1. runs \in Seq(RunKey) BY DEF TypeInv, RunType
    <2>2. DOMAIN runs' = 1 .. (Len(runs) + 1) /\ \A r \in 1 .. Len(runs) : runs'[r] = runs[r]
      BY <1>4, <2>1
    <2>3. QED BY <1>1, <1>2, <2>2 DEF RunsKept
  <1>5. QED BY <1>3, <1>4

(* Where the orchestrator goes without deciding anything.                    *)
LEMMA ServesOn ==
  ASSUME TypeInv, EvidenceInv, NEW w \in Worker,
         \/ Recover(w) \/ Done(w) \/ LookUp(w) \/ Claim(w) \/ Discard(w) \/ FinishConflict(w)
         \/ ExecuteRaises(w) \/ LeaseLost(w) \/ PersistFails(w) \/ Crash(w) \/ Defer(w)
         \/ (\E n \in Node : Read(w, n)) \/ (\E a \in Outcome : Execute(w, a))
  PROVE  /\ Serves(w)'
         /\ UNCHANGED <<runs, state, revision, contract, submitted, verified, outcome>>
         /\ \A r \in Run : rstate'[r] = "completed" => rstate[r] = "completed"
  <1>0. /\ pc \in [Worker -> Pc] /\ run \in [Worker -> 0 .. MaxRun] /\ answer \in [Worker -> Outcome]
        /\ node \in [Worker -> Node] /\ phase \in [Worker -> Phase]
        /\ seen \in [Worker -> [revision: Nat, version: Version \cup {NoVersion}]]
        /\ rstate \in [Run -> {"none", "queued", "running", "completed", "failed"}]
        /\ Sources /\ Serves(w)
    BY DEF TypeInv, WorkerType, RunType, EvidenceInv
  <1>1. CASE \/ Recover(w) \/ Done(w) \/ Discard(w) \/ FinishConflict(w) \/ ExecuteRaises(w)
             \/ PersistFails(w) \/ Crash(w)
    <2>1. pc'[w] \in {"idle", "next"} /\ rstate' = rstate
      BY <1>0, <1>1 DEF Recover, Done, Discard, FinishConflict, ExecuteRaises, PersistFails, Crash,
                        Idle, Goto
    <2>2. UNCHANGED <<runs, state, revision, contract, submitted, verified, outcome>>
      BY <1>1 DEF Recover, Done, Discard, FinishConflict, ExecuteRaises, PersistFails, Crash
    <2>3. QED BY <2>1, <2>2 DEF Serves
  <1>2. CASE LookUp(w)
    <2>1. UNCHANGED <<runs, state, revision, contract, submitted, verified, outcome, rstate>>
      BY <1>2 DEF LookUp
    <2>2. CASE Idle(w)
      <3>1. pc'[w] = "idle" BY <1>0, <2>2 DEF Idle
      <3>2. QED BY <2>1, <3>1 DEF Serves
    <2>3. CASE ~Idle(w)
      <3>1. PICK r \in DOMAIN runs :
              /\ Latest(node[w], r) /\ run' = [run EXCEPT ![w] = r]
              /\ answer' = [answer EXCEPT ![w] = outcome[r]]
              /\ pc' = [pc EXCEPT ![w] = IF rstate[r] = "completed" THEN "apply" ELSE "claim"]
              /\ node' = node /\ phase' = phase
        BY <1>2, <2>3 DEF LookUp, Goto
      <3>2. runs[r].phase = phase[w]
        <4>1. PICK s \in DOMAIN runs : Latest(node[w], s) /\ runs[s].phase = phase[w]
          BY <1>2, <2>3 DEF LookUp
        <4>2. node[w] \in Node BY <1>0
        <4>3. r = s BY <3>1, <4>1, <4>2, LatestIsOne
        <4>4. QED BY <4>1, <4>3
      <3>3. run'[w] = r /\ answer'[w] = outcome[r] /\ node'[w] = node[w] /\ phase'[w] = phase[w]
            /\ pc'[w] = IF rstate[r] = "completed" THEN "apply" ELSE "claim"
        BY <1>0, <3>1
      <3>4. Latest(node[w], run[w])' BY <2>1, <3>1, <3>3 DEF Latest
      <3>5. QED BY <2>1, <3>2, <3>3, <3>4 DEF Serves
    <2>4. QED BY <2>2, <2>3
  <1>3. CASE Claim(w)
    <2>1. /\ UNCHANGED <<runs, state, revision, contract, submitted, verified, outcome>>
          /\ pc[w] = "claim" /\ pc'[w] \in {"execute", "next"} /\ UNCHANGED <<run, node, phase>>
      BY <1>0, <1>3 DEF Claim, Goto
    <2>2. \A r \in Run : rstate'[r] = "completed" => rstate[r] = "completed"
      BY <1>0, <1>3 DEF Claim
    <2>3. QED BY <1>0, <2>1, <2>2 DEF Serves, Latest
  <1>4. CASE LeaseLost(w)
    BY <1>0, <1>4 DEF LeaseLost, Serves, Latest
  <1>5. CASE Defer(w)
    <2>1. /\ UNCHANGED <<runs, state, revision, contract, submitted, verified, outcome>>
          /\ pc'[w] = "next" /\ rstate' = [rstate EXCEPT ![run[w]] = "queued"]
      BY <1>0, <1>5 DEF Defer, Goto
    <2>2. \A r \in Run : rstate'[r] = "completed" => rstate[r] = "completed"
      BY <1>0, <2>1
    <2>3. QED BY <2>1, <2>2 DEF Serves
  <1>6. ASSUME NEW n \in Node, Read(w, n)
        PROVE  Serves(w)' /\ UNCHANGED <<runs, state, revision, contract, submitted, verified,
                                         outcome, rstate>>
    <2>1. /\ UNCHANGED <<runs, state, revision, contract, submitted, verified, outcome, rstate>>
          /\ node'[w] = n /\ seen'[w].revision = revision[n] /\ seen'[w].version = contract[n]
          /\ revision[n] \in Nat
      BY <1>0, <1>6 DEF Read, TypeInv, GateType
    <2>2. CASE \E p \in Phase : /\ state[n] = Trigger(p) /\ phase' = [phase EXCEPT ![w] = p]
                                /\ Goto(w, "enqueue")
      <3>1. PICK p \in Phase : state[n] = Trigger(p) /\ phase'[w] = p /\ pc'[w] = "enqueue"
        BY <1>0, <2>2 DEF Goto
      <3>2. \A q \in Phase : state[n] # Running(q) BY <3>1 DEF Phase, Trigger, Running
      <3>3. PICK key \in [node : {n}, phase : {p}, source : {revision[n]}, version : {contract[n]}] :
              key = Key(w)'
        BY <2>1, <3>1 DEF Key
      <3>4. ASSUME NEW r \in DOMAIN runs, runs[r].node = n
            PROVE  /\ runs[r].source <= revision[n]
                   /\ runs[r].source = revision[n] => runs[r] = key
        <4>1. OfItsGate(r) BY <1>0 DEF Sources
        <4>2. runs[r] \in RunKey BY RunsExist DEF TypeInv, RunType
        <4>3. runs[r].source = revision[n] => runs[r].phase = p /\ runs[r].version = contract[n]
          BY <3>1, <3>4, <4>1, <4>2 DEF OfItsGate, Trigger, Phase, RunKey
        <4>4. QED BY <3>3, <3>4, <4>1, <4>2, <4>3 DEF OfItsGate, RunKey
      <3>5. QED BY <2>1, <3>1, <3>2, <3>3, <3>4 DEF Serves
    <2>3. CASE Goto(w, "latest") \/ pc' = pc
      <3>1. pc'[w] \in {"latest", "next"} BY <1>0, <1>6, <2>3 DEF Read, Goto
      <3>2. QED BY <2>1, <3>1 DEF Serves
    <2>4. QED BY <1>6, <2>2, <2>3 DEF Read
  <1>7. ASSUME NEW a \in Outcome, Execute(w, a)
        PROVE  Serves(w)' /\ UNCHANGED <<runs, state, revision, contract, submitted, verified,
                                         outcome, rstate>>
    <2>1. /\ UNCHANGED <<runs, state, revision, contract, submitted, verified, outcome, rstate>>
          /\ pc[w] = "execute" /\ pc'[w] = "finish" /\ UNCHANGED <<run, node, phase>>
          /\ answer'[w] = a /\ a \in Result(phase[w]) \cup {"temporary"}
      BY <1>0, <1>7 DEF Execute, Goto
    <2>2. QED BY <1>0, <2>1 DEF Serves, Latest
  <1>8. QED BY <1>1, <1>2, <1>3, <1>4, <1>5, <1>6, <1>7

(* Recording a result: the first one stands, and it is one of the phase.     *)
LEMMA CompleteServes ==
  ASSUME TypeInv, EvidenceInv, RunsKept, NEW w \in Worker, Complete(w)
  PROVE  Sources' /\ GateInv' /\ Outcomes' /\ Serves(w)'
  <1>1. /\ UNCHANGED <<runs, state, revision, contract, submitted, verified, node, phase, run>>
        /\ pc[w] = "finish" /\ answer[w] # "temporary" /\ pc'[w] = "apply"
        /\ Owns(w) \/ rstate[run[w]] = "completed"
        /\ rstate' = [rstate EXCEPT ![run[w]] = "completed"]
        /\ outcome' = [outcome EXCEPT ![run[w]] = IF Owns(w) THEN answer[w] ELSE outcome[run[w]]]
        /\ answer'[w] = outcome'[run[w]]
    BY DEF Complete, Goto, TypeInv, WorkerType
  <1>2. Sources /\ GateInv /\ Outcomes /\ Serves(w) BY DEF EvidenceInv
  <1>3. run[w] \in DOMAIN runs /\ run[w] \in Run /\ DOMAIN runs \subseteq Run BY <1>1, RunsExist
  <1>4. /\ rstate'[run[w]] = "completed" /\ outcome'[run[w]] = IF Owns(w) THEN answer[w] ELSE outcome[run[w]]
        /\ \A r \in Run : r # run[w] => rstate'[r] = rstate[r] /\ outcome'[r] = outcome[r]
    BY <1>1, <1>3 DEF TypeInv, RunType
  <1>5. runs[run[w]].phase = phase[w] /\ answer[w] \in Result(phase[w]) /\ Latest(node[w], run[w])
    BY <1>1, <1>2 DEF Serves
  <1>6. Outcomes'
    <2>1. ASSUME NEW r \in DOMAIN runs, rstate'[r] = "completed"
          PROVE  outcome'[r] \in Result(runs[r].phase)
      <3>1. CASE r = run[w] /\ Owns(w) BY <1>4, <1>5, <3>1
      <3>2. CASE r = run[w] /\ ~Owns(w) BY <1>1, <1>2, <1>4, <3>2 DEF Outcomes
      <3>3. CASE r # run[w] BY <1>2, <1>3, <1>4, <2>1, <3>3 DEF Outcomes
      <3>4. QED BY <3>1, <3>2, <3>3
    <2>2. QED BY <1>1, <2>1 DEF Outcomes
  <1>7. Serves(w)' BY <1>1, <1>4, <1>5 DEF Serves, Latest
  <1>8. Sources' /\ GateInv' BY <1>1, <1>2, GatesRest
  <1>9. QED BY <1>6, <1>7, <1>8

(* The last attempt failed.                                                 *)
LEMMA GiveUpServes ==
  ASSUME TypeInv, EvidenceInv, RunsKept, NEW w \in Worker, GiveUp(w)
  PROVE  /\ Sources' /\ GateInv' /\ Serves(w)' /\ runs' = runs /\ outcome' = outcome
         /\ \A r \in Run : rstate'[r] = "completed" => rstate[r] = "completed"
  <1>1. /\ runs' = runs /\ outcome' = outcome /\ verified' = verified /\ submitted' = submitted
        /\ pc'[w] \in {"idle", "next"}
        /\ rstate' = rstate \/ rstate' = [rstate EXCEPT ![run[w]] = "failed"]
    BY DEF GiveUp, Goto, Idle, TypeInv, WorkerType
  <1>2. Serves(w)' BY <1>1 DEF Serves
  <1>3. Sources /\ GateInv BY DEF EvidenceInv
  <1>4. Sources' /\ GateInv'
    <2>1. CASE UNCHANGED gateVars BY <1>1, <1>3, <2>1, GatesRest
    <2>2. CASE Transition(node[w], "verification_retry_exhausted")
      <3>1. PICK n \in Node, event \in Happening :
              n = node[w] /\ event = "verification_retry_exhausted"
        BY DEF TypeInv, WorkerType, Happening
      <3>2. submitted' = [submitted EXCEPT ![n] = IF event = "submitted" THEN revision[n] + 1 ELSE @]
        BY <1>1, <3>1, SubmittedStays
      <3>3. \A p \in Phase : event # StartEvent(p) BY <3>1 DEF StartEvent
      <3>4. event # "red_confirmed" /\ event # "final_verification_passed" BY <3>1
      <3>5. Transition(n, event) BY <2>2, <3>1
      <3>6. QED BY <1>1, <1>3, <3>2, <3>3, <3>4, <3>5, GateTransition
    <2>3. QED BY <2>1, <2>2 DEF GiveUp
  <1>5. \A r \in Run : rstate'[r] = "completed" => rstate[r] = "completed"
    BY <1>1 DEF TypeInv, RunType
  <1>6. QED BY <1>1, <1>2, <1>4, <1>5

(* An event from outside takes the gate to another revision than the one the *)
(* orchestrator read.                                                       *)
LEMMA EventServes ==
  ASSUME TypeInv, EvidenceInv, RunsKept, NEW n \in Node, NEW event \in Outside, Event(n, event)
  PROVE  Sources' /\ GateInv' /\ Outcomes' /\ \A w \in Worker : Serves(w)'
  <1>1. /\ Transition(n, event) /\ event \in Happening
        /\ UNCHANGED <<runs, rstate, outcome, verified, pc, node, phase, seen, run, answer>>
        /\ submitted' = [submitted EXCEPT ![n] = IF event = "submitted" THEN revision[n] + 1 ELSE @]
    BY DEF Event, Happening
  <1>2. Sources /\ GateInv /\ Outcomes /\ \A w \in Worker : Serves(w) BY DEF EvidenceInv
  <1>3. /\ event # "red_confirmed" /\ event # "final_verification_passed"
        /\ \A p \in Phase : event # StartEvent(p)
    BY DEF Outside, StartEvent
  <1>4. Sources' /\ GateInv' BY <1>1, <1>2, <1>3, GateTransition
  <1>5. Outcomes' BY <1>1, <1>2 DEF Outcomes
  <1>6. /\ state'[n] = To(event) /\ revision'[n] = revision[n] + 1
        /\ \A m \in Node : m # n => /\ state'[m] = state[m] /\ contract'[m] = contract[m]
                                    /\ revision'[m] = revision[m]
        /\ \A p \in Phase : To(event) # Running(p)
    BY <1>1, TransitionMoves, EventsEarn
  <1>7. ASSUME NEW w \in Worker PROVE Serves(w)'
    <2>1. Serves(w) /\ node[w] \in Node /\ seen[w].revision \in Nat /\ revision[node[w]] \in Nat
      BY <1>2 DEF TypeInv, WorkerType, GateType
    <2>2. ASSUME pc[w] \in {"enqueue", "start"}
          PROVE  /\ seen[w].revision <= revision'[node[w]]
                 /\ seen[w].revision = revision'[node[w]] =>
                      state'[node[w]] = Trigger(phase[w]) /\ contract'[node[w]] = seen[w].version
                 /\ \A p \in Phase : state'[node[w]] # Running(p)
      <3>1. CASE node[w] = n BY <1>6, <2>1, <2>2, <3>1 DEF Serves
      <3>2. CASE node[w] # n BY <1>6, <2>1, <2>2, <3>2 DEF Serves
      <3>3. QED BY <3>1, <3>2
    <2>3. QED BY <1>1, <2>1, <2>2 DEF Serves, Latest, Key
  <1>8. QED BY <1>4, <1>5, <1>7

LEMMA EvidenceStep ==
  ASSUME Alone, TypeInv, Blank, EvidenceInv, [Next]_vars
  PROVE  EvidenceInv'
  <1>1. FinalStep BY FinalSteps
  <1>2. runs' = runs => RunsKept BY <1>1, RunsKeep
  <1>3. Sources /\ GateInv /\ Outcomes /\ \A w \in Worker : Serves(w) BY DEF EvidenceInv
  <1>4. ASSUME NEW w \in Worker, Serves(w)' PROVE \A x \in Worker : Serves(x)'
    BY <1>4 DEF Alone
  <1>5. ASSUME runs' = runs, outcome' = outcome,
               \A r \in Run : rstate'[r] = "completed" => rstate[r] = "completed"
        PROVE  Outcomes'
    BY <1>3, <1>5, RunsExist DEF Outcomes
  <1>6. ASSUME UNCHANGED <<runs, rstate, outcome, state, revision, contract, submitted, pc, node,
                           phase, seen, run, answer>>
        PROVE  Outcomes' /\ \A w \in Worker : Serves(w)'
    BY <1>3, <1>6 DEF Outcomes, Serves, Latest, Key
  <1>7. ASSUME UNCHANGED <<runs, rstate, outcome, state, revision, contract, submitted, verified,
                           pc, node, phase, seen, run, answer>>
        PROVE  EvidenceInv'
    BY <1>2, <1>3, <1>6, <1>7, GatesRest DEF EvidenceInv
  <1>8. ASSUME NEW n \in Node, NEW event \in Outside, Event(n, event) PROVE EvidenceInv'
    <2>1. runs' = runs BY <1>8 DEF Event
    <2>2. QED BY <1>2, <1>8, <2>1, EventServes DEF EvidenceInv
  <1>9. ASSUME \/ \E n \in Node, v \in Version : FreezeTestContract(n, v) \/ InvalidateTestContract(n, v)
               \/ \E r \in Run : LeaseExpires(r) \/ RetryDue(r)
               \/ UNCHANGED vars
        PROVE  EvidenceInv'
    BY <1>7, <1>9 DEF FreezeTestContract, InvalidateTestContract, LeaseExpires, RetryDue, vars
  <1>10. ASSUME NEW n \in Node, VerifyNode(n) PROVE EvidenceInv'
    <2>1. UNCHANGED <<runs, rstate, outcome, state, revision, contract, submitted, pc, node, phase,
                      seen, run, answer>>
      BY <1>10 DEF VerifyNode
    <2>2. QED BY <1>2, <1>3, <1>6, <1>10, <2>1, NodeVerified DEF EvidenceInv
  <1>11. ASSUME NEW w \in Worker,
                \/ Recover(w) \/ Done(w) \/ LookUp(w) \/ Claim(w) \/ Discard(w) \/ FinishConflict(w)
                \/ ExecuteRaises(w) \/ LeaseLost(w) \/ PersistFails(w) \/ Crash(w) \/ Defer(w)
                \/ (\E n \in Node : Read(w, n)) \/ (\E a \in Outcome : Execute(w, a))
         PROVE  EvidenceInv'
    <2>1. /\ Serves(w)'
          /\ UNCHANGED <<runs, state, revision, contract, submitted, verified, outcome>>
          /\ \A r \in Run : rstate'[r] = "completed" => rstate[r] = "completed"
      BY <1>11, ServesOn
    <2>2. Sources' /\ GateInv' BY <1>2, <1>3, <2>1, GatesRest
    <2>3. QED BY <1>4, <1>5, <2>1, <2>2 DEF EvidenceInv
  <1>12. ASSUME NEW w \in Worker, Enqueue(w) PROVE EvidenceInv'
    <2>1. Key(w) \in RunKey
      <3>1. pc[w] = "enqueue" BY <1>12 DEF Enqueue
      <3>2. /\ node[w] \in Node /\ phase[w] \in Phase /\ seen[w].revision \in Nat
            /\ seen[w].version \in Version
        BY <3>1 DEF TypeInv, WorkerType, Working, WorksAt
      <3>3. QED BY <3>2 DEF Key, RunKey
    <2>2. runs' = runs \/ runs' = Append(runs, Key(w)) BY <1>12 DEF Enqueue, Key
    <2>3. RunsKept BY <1>1, <2>1, <2>2, RunsKeep
    <2>4. QED BY <1>4, <1>12, <2>3, EnqueueServes DEF EvidenceInv
  <1>13. ASSUME NEW w \in Worker, Start(w) PROVE EvidenceInv'
    <2>1. runs' = runs /\ outcome' = outcome /\ rstate' = rstate BY <1>13 DEF Start
    <2>2. QED BY <1>2, <1>4, <1>5, <1>13, <2>1, StartEarns DEF EvidenceInv
  <1>14. ASSUME NEW w \in Worker, Apply(w) PROVE EvidenceInv'
    <2>1. runs' = runs /\ outcome' = outcome /\ rstate' = rstate BY <1>14 DEF Apply
    <2>2. QED BY <1>2, <1>4, <1>5, <1>14, <2>1, ApplyEarns DEF EvidenceInv
  <1>15. ASSUME NEW w \in Worker, Complete(w) PROVE EvidenceInv'
    <2>1. runs' = runs BY <1>15 DEF Complete
    <2>2. QED BY <1>2, <1>4, <1>15, <2>1, CompleteServes DEF EvidenceInv
  <1>16. ASSUME NEW w \in Worker, GiveUp(w) PROVE EvidenceInv'
    <2>1. runs' = runs BY <1>16 DEF GiveUp
    <2>2. QED BY <1>2, <1>4, <1>5, <1>16, <2>1, GiveUpServes DEF EvidenceInv
  <1>17. QED BY <1>8, <1>9, <1>10, <1>11, <1>12, <1>13, <1>14, <1>15, <1>16, Zenon
      DEF Next, WorkerNext

LEMMA EvidenceInit == Init => EvidenceInv
  <1> SUFFICES ASSUME Init PROVE EvidenceInv OBVIOUS
  <1>1. DOMAIN runs = {} BY DEF Init
  <1>2. \A n \in Node : state[n] = "none" /\ n \notin verified BY DEF Init
  <1>3. \A w \in Worker : pc[w] = "idle" BY DEF Init
  <1>4. Sources /\ Outcomes BY <1>1 DEF Sources, Outcomes
  <1>5. GateInv BY <1>2 DEF GateInv, Evidence, UnderTest, Confirmed, Publishable, Running, Phase
  <1>6. \A w \in Worker : Serves(w) BY <1>3 DEF Serves
  <1>7. QED BY <1>4, <1>5, <1>6 DEF EvidenceInv

(* With one orchestrator, a gate is passed only on evidence: whatever events, *)
(* crashes, lost leases and retries come between the enqueueing of a run and  *)
(* the application of its result, a confirmed gate has a completed red run   *)
(* of its contract, one that may be published a passed final run of the      *)
(* revision submitted last, and a verified node both (reconcile_node(),      *)
(* apply_modification_transition()).                                        *)
THEOREM GatesHaveEvidence ==
    ASSUME Alone
    PROVE  Spec => []EvidenceOfGate
  <1>1. EvidenceInv => EvidenceOfGate
    <2> SUFFICES ASSUME EvidenceInv, NEW n \in Node
                 PROVE  /\ state[n] \in Confirmed => Recorded(n, "red", "red_confirmed", contract[n])
                        /\ state[n] \in Publishable =>
                             \E r \in DOMAIN runs :
                               /\ runs[r] = [node |-> n, phase |-> "final", source |-> submitted[n],
                                             version |-> contract[n]]
                               /\ outcome[r] = "final_verification_passed"
                        /\ n \in verified =>
                             \E v \in Version : /\ Recorded(n, "red", "red_confirmed", v)
                                                /\ Recorded(n, "final", "final_verification_passed", v)
      BY DEF EvidenceOfGate, Confirmed, Publishable
    <2>1. QED BY DEF EvidenceInv, GateInv, Evidence, PassedBy
  <1>2. TypeInv /\ OwnerInv /\ EvidenceInv /\ [Next]_vars => EvidenceInv'
    BY EvidenceStep DEF OwnerInv
  <1>3. QED BY <1>1, <1>2, EvidenceInit, OwnerAlways, PTL DEF Spec

=================================================================================
