------------------------------ MODULE PlanGraph ------------------------------
(***************************************************************************)
(* The plan in plan.db: its nodes, hierarchy and dependencies, edited by   *)
(* patches while nodes run (features/project_map/store.py), and the        *)
(* durable executions of nodes with their completion mail                  *)
(* (features/project_map/modify_loop_service.py).                          *)
(*                                                                         *)
(* A patch is checked, applied and validated in one call that shares the   *)
(* event loop with every other caller, and a patch that fails is rolled    *)
(* back: it is one action.  Titles, goals and payloads are left out.       *)
(***************************************************************************)
EXTENDS Naturals, FiniteSets

CONSTANTS Node, Root,     \* plan nodes, and "no parent"
          Coordinator,    \* PlanNodeExecutionCoordinator objects, one per process
          MaxOp,          \* bound: operations of a patch
          MaxWait,        \* bound: executions ever created
          MaxRestart      \* bound: processes that end

ASSUME PlanAssumption == Root \notin Node /\ {MaxOp, MaxWait, MaxRestart} \subseteq Nat

Status == {"pending", "running", "completed", "failed", "mapping", "drifted"}
Outcome == {"completed", "failed", "cancelled"}
Wait == 1 .. MaxWait

VARIABLES
    node,      \* plan_nodes: [state, status, parent]; a removed node is archived
    dep,       \* plan_edges of kind depends_on: <<node, the node it needs>>
    wait,      \* node_executions, wait_signals and completion_outbox by wait id
    mail,      \* the owner's mailbox: the outcome sent under a wait's message id
    task,      \* per coordinator the executions it has a task for
    fwd,       \* per coordinator the row it has enqueued and not yet marked, 0 for none
    restarts

graphVars == <<node, dep>>
execVars == <<wait, mail, task, fwd, restarts>>
planVars == <<graphVars, execVars>>

NoNode == [state |-> "none", status |-> "pending", parent |-> Root]
NoWait == [node |-> Root, state |-> "none", outcome |-> "none", outbox |-> "none"]

PlanInit ==
    /\ node = [n \in Node |-> NoNode] /\ dep = {}
    /\ wait = [w \in Wait |-> NoWait]
    /\ mail = [w \in Wait |-> "none"]
    /\ task = [c \in Coordinator |-> {}]
    /\ fwd = [c \in Coordinator |-> 0]
    /\ restarts = 0

There == {n \in Node : node[n].state = "there"}
Running == {n \in There : node[n].status = "running"}

-----------------------------------------------------------------------------
(* The graph *)

(* A relation has a cycle iff some set of nodes has all its members point   *)
(* into it.                                                                *)
Acyclic(r) ==
    \A S \in (SUBSET Node) \ {{}} : \E n \in S : \A m \in S : <<n, m>> \notin r

Hierarchy(nd) == {e \in Node \X Node : nd[e[1]].state = "there" /\ nd[e[1]].parent = e[2]}

(* Fault: the dependencies are only looked at for missing ends. *)
HierarchyOnly(nd, dp) ==
    LET there == {n \in Node : nd[n].state = "there"}
    IN  /\ \A n \in there : nd[n].parent \in there \union {Root}
        /\ dp \subseteq there \X there
        /\ Acyclic(Hierarchy(nd))

(* _validate_graph: both ends of an edge are there, and neither the         *)
(* dependencies nor the hierarchy turn in a circle.                        *)
Validated(nd, dp) ==
    LET there == {n \in Node : nd[n].state = "there"}
    IN  /\ \A n \in there : nd[n].parent \in there \union {Root}
        /\ dp \subseteq there \X there
        /\ Acyclic(dp)
        /\ Acyclic(Hierarchy(nd))

(* Fault: only the named nodes are looked at. *)
DirectlyRunning(named, removed) == Running \intersect (named \union removed)

(* _assert_patch_mutable: the running nodes a patch would disturb, those    *)
(* that depend on a removed node or lie under it included.                 *)
Disturbed(named, removed) ==
    (Running \intersect (named \union removed))
        \union {n \in Running : \E r \in removed : <<n, r>> \in dep \/ node[n].parent = r}

(* Fault: an added node takes over the row of a removed one. *)
Revived(n) == node[n].state # "there"

New(n) == node[n].state = "none"

Reopened(status) == IF status \in {"completed", "failed"} THEN "pending" ELSE status

(* _apply_patch: nodes added under a parent, nodes updated, dependencies    *)
(* replaced, nodes removed, in this order.                                 *)
Patched(add, upd, rem, parent) ==
    [n \in Node |->
        IF n \in rem THEN [node[n] EXCEPT !.state = "archived"]
        ELSE IF n \in add THEN [state |-> "there", status |-> "pending", parent |-> parent]
        ELSE IF n \in upd THEN [node[n] EXCEPT !.parent = parent, !.status = Reopened(@)]
        ELSE node[n]]

Rewired(add, rep, rem, needs) ==
    {e \in (dep \ (rep \X Node)) \union ((add \union rep) \X needs) :
        e[1] \notin rem /\ e[2] \notin rem}

AtMostOne == {S \in SUBSET Node : Cardinality(S) <= 1}

(* patch().  Each of its lists names at most one node. *)
Patch ==
    \E add, upd, rep, rem \in AtMostOne :
      \E parent \in IF add \union upd = {} THEN {Root} ELSE Node \union {Root},
         needs \in IF add \union rep = {} THEN {{}} ELSE SUBSET Node :
        /\ Cardinality(add) + Cardinality(upd) + Cardinality(rep) + Cardinality(rem) \in 1 .. MaxOp
        /\ Disturbed(upd \union rep, rem) = {}
        /\ \A n \in add : New(n)
        /\ rem \intersect add = {}
        /\ upd \union rep \union rem \subseteq There \union add
        /\ node' = Patched(add, upd, rem, parent)
        /\ dep' = Rewired(add, rep, rem, needs)
        /\ Validated(node', dep')
        /\ UNCHANGED execVars

SetStatus(n, status) ==
    /\ n \in There
    /\ node' = [node EXCEPT ![n].status = status]
    /\ UNCHANGED <<dep, execVars>>

Satisfied(n) == \A e \in dep : e[1] = n => node[e[2]].status = "completed"

Startable(n) == n \in There /\ node[n].status = "pending" /\ Satisfied(n)

StartNode(n) == Startable(n) /\ SetStatus(n, "running")

(* dispatch_child_agent and mark_drifted look at nothing but the node. *)
Dispatch(n) == SetStatus(n, "mapping")

Drift(n) == SetStatus(n, "drifted")

(* set_node_status, the executor's. *)
EndNode(n) == \E status \in {"completed", "failed"} : SetStatus(n, status)

GraphNext == \/ Patch
             \/ \E n \in Node : StartNode(n) \/ Dispatch(n) \/ Drift(n) \/ EndNode(n)

-----------------------------------------------------------------------------
(* Executions *)

Waiting(n) == {w \in Wait : wait[w].node = n /\ wait[w].state = "waiting"}

Reusable(n) == Waiting(n)

(* execute_plan_node: the waiting execution of the node, or a new one, and  *)
(* a task for it unless the coordinator has one.                           *)
ExecutePlanNode(c, n) ==
    LET w == IF Reusable(n) # {} THEN CHOOSE x \in Reusable(n) : TRUE
             ELSE 1 + Cardinality({x \in Wait : wait[x].state # "none"})
    IN  /\ w \in Wait
        /\ wait' = IF Reusable(n) # {} THEN wait
                   ELSE [wait EXCEPT ![w] = [node |-> n, state |-> "waiting",
                                             outcome |-> "none", outbox |-> "none"]]
        /\ task' = [task EXCEPT ![c] = @ \union {w}]
        /\ UNCHANGED <<graphVars, mail, fwd, restarts>>

(* recover: a task for every waiting execution, also for one that another   *)
(* process is working on.                                                  *)
RecoverExecutions(c) ==
    /\ task' = [task EXCEPT ![c] = @ \union {w \in Wait : wait[w].state = "waiting"}]
    /\ UNCHANGED <<graphVars, wait, mail, fwd, restarts>>

(* Fault: the last one to finish is right. *)
CompletedAgain(w, outcome) ==
    [wait EXCEPT ![w].state = "ended", ![w].outcome = outcome,
                 ![w].outbox = IF @ = "none" THEN "pending" ELSE @]

(* complete_execution: the first outcome is kept, with one outbox row; any  *)
(* other is a conflict, the same one again changes nothing.                *)
Completed(w, outcome) ==
    IF wait[w].state = "ended" THEN wait
    ELSE [wait EXCEPT ![w].state = "ended", ![w].outcome = outcome, ![w].outbox = "pending"]

(* _run: the stage runner returned, raised or was cancelled. *)
RunEnds(c, w) ==
    /\ w \in task[c]
    /\ \E outcome \in Outcome : wait' = Completed(w, outcome)
    /\ task' = [task EXCEPT ![c] = @ \ {w}]
    /\ UNCHANGED <<graphVars, mail, fwd, restarts>>

(* forward_completion_mail: the row goes to the mailbox, which knows its    *)
(* message id or inserts it (or is full: nothing but an attempt is noted)  *)
ForwardCompletion(c, w) ==
    /\ fwd[c] = 0
    /\ wait[w].outbox = "pending"
    /\ mail' = [mail EXCEPT ![w] = IF @ = "none" THEN wait[w].outcome ELSE @]
    /\ fwd' = [fwd EXCEPT ![c] = w]
    /\ UNCHANGED <<graphVars, wait, task, restarts>>

(* ... and is then marked sent. *)
MarkCompletion(c) ==
    /\ fwd[c] # 0
    /\ wait' = [wait EXCEPT ![fwd[c]].outbox = "sent"]
    /\ fwd' = [fwd EXCEPT ![c] = 0]
    /\ UNCHANGED <<graphVars, mail, task, restarts>>

(* A process ends; its tasks and what it was forwarding are gone. *)
EndProcess(c) ==
    /\ restarts < MaxRestart /\ restarts' = restarts + 1
    /\ task' = [task EXCEPT ![c] = {}]
    /\ fwd' = [fwd EXCEPT ![c] = 0]
    /\ UNCHANGED <<graphVars, wait, mail>>

ExecNext ==
    \E c \in Coordinator :
        \/ RecoverExecutions(c) \/ MarkCompletion(c) \/ EndProcess(c)
        \/ \E n \in Node : ExecutePlanNode(c, n)
        \/ \E w \in Wait : RunEnds(c, w) \/ ForwardCompletion(c, w)

PlanNext == GraphNext \/ ExecNext

PlanSpec == PlanInit /\ [][PlanNext]_planVars

-----------------------------------------------------------------------------
(* Properties *)

PlanTypeOK ==
    /\ node \in [Node -> [state : {"none", "there", "archived"}, status : Status,
                          parent : Node \union {Root}]]
    /\ dep \subseteq Node \X Node
    /\ wait \in [Wait -> [node : Node \union {Root}, state : {"none", "waiting", "ended"},
                          outcome : Outcome \union {"none"},
                          outbox : {"none", "pending", "sent"}]]
    /\ mail \in [Wait -> Outcome \union {"none"}]
    /\ task \in [Coordinator -> SUBSET Wait]
    /\ fwd \in [Coordinator -> Wait \union {0}]
    /\ restarts \in 0 .. MaxRestart

(* However patches have rearranged it, a plan that nothing has failed in    *)
(* and nobody is working on can go on: some node can be started, until all *)
(* are completed (start_node, _validate_graph).                            *)
PlanGoesOn ==
    (\A n \in There : node[n].status \in {"pending", "completed"})
        => \/ \A n \in There : node[n].status = "completed"
           \/ \E n \in There : Startable(n)

(* What a running node was started for stays as it is while it runs: its    *)
(* place, what it depends on and that those are there                      *)
(* (node_running_immutable).                                               *)
RunningStable ==
    [][\A n \in Running :
          /\ node'[n].state = "there"
          /\ node'[n].parent = node[n].parent
          /\ {e \in dep : e[1] = n} = {e \in dep' : e[1] = n}
          /\ node[n].parent # Root => node'[node[n].parent].state = "there"]_planVars

(* A removed node never comes back, under its id or as an end of an edge.   *)
RemovedStaysOut ==
    [][\A n \in Node : node[n].state = "archived" =>
          node'[n].state = "archived" /\ \A e \in dep' : n \notin {e[1], e[2]}]_planVars

(* An execution is done once, whoever does it: a node has one waiting       *)
(* execution, the mail that goes out names the outcome on record, and a     *)
(* row is marked sent only when its mail is there, across restarts and two  *)
(* processes that recovered the same execution.                            *)
CompletionOnce ==
    /\ \A n \in Node : Cardinality(Waiting(n)) <= 1
    /\ \A w \in Wait :
          /\ mail[w] # "none" => mail[w] = wait[w].outcome
          /\ wait[w].outbox = "sent" => mail[w] # "none"
          /\ wait[w].state = "ended" <=> wait[w].outbox # "none"

(* The plan can be worked off, and each piece of work is done once.         *)
PlanSound == PlanTypeOK /\ PlanGoesOn /\ CompletionOnce
=============================================================================
