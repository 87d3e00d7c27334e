----------------------------- MODULE RuntimeHost -----------------------------
(***************************************************************************)
(* AgentRuntimeHost (agent/runtime/host.py): creation, transitions, stop,   *)
(* destruction and revocation of runtimes and their children, with the      *)
(* create lock, the finalizer tasks and the rows of agent_runtimes.         *)
(*                                                                         *)
(* A transition is persisted first and then made in memory, both under the  *)
(* lock of its handle: one action, or an error that leaves the handle as it *)
(* was.  An error may come after the commit (a cancelled await): then the   *)
(* row is ahead of the handle.                                              *)
(***************************************************************************)
EXTENDS Grants

CONSTANTS
    ParentGrant,    \* the grant that resolve() gives a parent
    ChildGrants,    \* the grants a parent asks derive() for
    Parent,     \* parent (or map) runtimes; all of them have one singleton key
    Child,      \* child runtimes
    None,
    MaxFault    \* bound: failing writes, failing or self-ending tasks

ASSUME HostAssumption ==
    /\ IsFiniteSet(Parent) /\ IsFiniteSet(Child)
    /\ Parent \cap Child = {} /\ None \notin Parent \cup Child
    /\ MaxFault \in Nat
    /\ ParentGrant \in Grant /\ ChildGrants \subseteq Grant

Runtime == Parent \cup Child

VARIABLES
    state,      \* RuntimeHandle.state; "none": not created yet
    record,     \* status of the row; "none": no row
    handles,    \* AgentRuntimeHost._handles
    singleton,  \* AgentRuntimeHost._singletons of the key
    parentOf,   \* spec.parent_runtime_id, and the children sets
    task,       \* handle.task: "none", "running", "ended"
    closed,     \* handles whose resources are closed
    lock,       \* holder of the create lock: the runtime being created, or None
    stopping,   \* handle._stop_task: where _finish_stop is
    destroying, \* handle._destroy_task: where _finish_destroy is
    waits,      \* <<k, w, h>>: finalizer w awaits the stop or destroy task of h
    grant,      \* the scopes of the grant of a child
    revoked,    \* runtimes whose own revocation token is set
    faults

vars == <<state, record, handles, singleton, parentOf, task, closed, lock, stopping,
          destroying, waits, grant, revoked, faults>>

Terminal == {"COMPLETED", "FAILED", "CANCELLED", "INTERRUPTED"}
Active == {"CREATING", "READY", "RUNNING", "STOPPING"}
State == {"none", "DESTROYED"} \cup Active \cup Terminal

ALLOWED_TRANSITIONS ==
    [s \in State |->
       CASE s = "CREATING" -> {"READY", "FAILED", "CANCELLED"}
         [] s = "READY" -> {"RUNNING", "STOPPING", "FAILED", "CANCELLED"}
         [] s = "RUNNING" -> {"STOPPING", "COMPLETED", "FAILED", "CANCELLED", "INTERRUPTED"}
         [] s = "STOPPING" -> {"COMPLETED", "FAILED", "CANCELLED", "INTERRUPTED"}
         [] s \in Terminal -> {"DESTROYED"}
         [] OTHER -> {}]

StopStep == {"idle", "children", "cancel", "close", "complete", "failed", "done"}
DestroyStep == {"idle", "stop", "children", "mark", "remove", "failed", "done"}

TypeOK ==
    /\ state \in [Runtime -> State] /\ record \in [Runtime -> State]
    /\ handles \subseteq Runtime /\ singleton \in Parent \cup {None}
    /\ parentOf \in [Child -> Parent \cup {None}]
    /\ task \in [Runtime -> {"none", "running", "ended"}]
    /\ closed \subseteq Runtime /\ lock \in Runtime \cup {None}
    /\ stopping \in [Runtime -> StopStep] /\ destroying \in [Runtime -> DestroyStep]
    /\ waits \subseteq {"stop", "destroy"} \X Runtime \X Runtime
    /\ grant \in [Child -> ChildGrants \cup {None}]
    /\ revoked \subseteq Runtime /\ faults \in 0 .. MaxFault

Init ==
    /\ state = [h \in Runtime |-> "none"] /\ record = [h \in Runtime |-> "none"]
    /\ handles = {} /\ singleton = None /\ parentOf = [c \in Child |-> None]
    /\ task = [h \in Runtime |-> "none"] /\ closed = {} /\ lock = None
    /\ stopping = [h \in Runtime |-> "idle"] /\ destroying = [h \in Runtime |-> "idle"]
    /\ waits = {} /\ grant = [c \in Child |-> None]
    /\ revoked = {} /\ faults = 0

Fault == faults < MaxFault /\ faults' = faults + 1

-----------------------------------------------------------------------------
(* Fault: the handle moves although the row could not be written.           *)
TransitionInMemory(h, target) ==
    /\ target \in ALLOWED_TRANSITIONS[state[h]]
    /\ state' = [state EXCEPT ![h] = target]
    /\ record' \in {record, [record EXCEPT ![h] = target]}

(* transition(): row and handle.                                            *)
Transition(h, target) ==
    /\ target \in ALLOWED_TRANSITIONS[state[h]]
    /\ state' = [state EXCEPT ![h] = target]
    /\ record' = [record EXCEPT ![h] = target]

(* transition() raises: the write failed, before or after its commit.       *)
TransitionFails(h, target) ==
    /\ target \in ALLOWED_TRANSITIONS[state[h]]
    /\ Fault
    /\ record' \in {record, [record EXCEPT ![h] = target]}
    /\ UNCHANGED state

Children(h) == {c \in Child : parentOf[c] = h /\ c \in handles}

IsActiveParent(h) == state[h] \in {"READY", "RUNNING"}

-----------------------------------------------------------------------------
(* create_runtime()                                                         *)

(* Fault: the parent is looked at before the lock is waited for only.       *)
CreateChildUnchecked(c, p) ==
    /\ lock = None /\ state[c] = "none" /\ record[c] = "none"
    /\ state[p] # "none"
    /\ \E g \in ChildGrants :
         Derivable(ParentGrant, g) /\ grant' = [grant EXCEPT ![c] = g]
    /\ lock' = c /\ parentOf' = [parentOf EXCEPT ![c] = p]
    /\ UNCHANGED <<state, record, handles, singleton, task, closed, stopping, destroying,
                   revoked, faults, waits>>

(* The grant is derived, from a parent that is not revoked; under the create *)
(* lock the parent must be active; the row is then written, while the         *)
(* parent's state may change.                                               *)
CreateChild(c, p) ==
    /\ lock = None /\ state[c] = "none" /\ record[c] = "none"
    /\ IsActiveParent(p) /\ p \notin revoked
    /\ \E g \in ChildGrants :
         Derivable(ParentGrant, g) /\ grant' = [grant EXCEPT ![c] = g]
    /\ lock' = c /\ parentOf' = [parentOf EXCEPT ![c] = p]
    /\ UNCHANGED <<state, record, handles, singleton, task, closed, stopping, destroying,
                   revoked, faults, waits>>

(* Fault: the singleton of the key is not looked at.                        *)
CreateSecondParent(h) ==
    /\ lock = None /\ state[h] = "none" /\ record[h] = "none"
    /\ lock' = h
    /\ UNCHANGED <<state, record, handles, singleton, parentOf, task, closed, stopping,
                   destroying, revoked, faults, waits, grant>>

(* A second parent is refused (runtime_conflict) or the live one returned   *)
(* until that one is destroyed.                                             *)
CreateParent(h) ==
    /\ lock = None /\ state[h] = "none" /\ record[h] = "none"
    /\ (singleton # None => state[singleton] = "DESTROYED")
    /\ lock' = h
    /\ UNCHANGED <<state, record, handles, singleton, parentOf, task, closed, stopping,
                   destroying, revoked, faults, waits, grant>>

(* _create_record() and the registration of the handle, or its failure.     *)
CreateRecord(h) ==
    /\ lock = h /\ state[h] = "none"
    /\ state' = [state EXCEPT ![h] = "CREATING"]
    /\ record' = [record EXCEPT ![h] = "CREATING"]
    /\ handles' = handles \cup {h}
    /\ singleton' = IF h \in Parent THEN h ELSE singleton
    /\ task' = [task EXCEPT ![h] = "running"]
    /\ UNCHANGED <<parentOf, closed, lock, stopping, destroying, revoked, faults, waits,
                   grant>>

CreateRecordFails(h) ==
    /\ lock = h /\ state[h] = "none"
    /\ Fault
    /\ lock' = None
    /\ parentOf' = IF h \in Child THEN [parentOf EXCEPT ![h] = None] ELSE parentOf
    /\ UNCHANGED <<state, record, handles, singleton, task, closed, stopping, destroying,
                   revoked, waits, grant>>

CreateReady(h) ==
    /\ lock = h /\ state[h] = "CREATING"
    /\ Transition(h, "READY")
    /\ lock' = None
    /\ UNCHANGED <<handles, singleton, parentOf, task, closed, stopping, destroying,
                   revoked, faults, waits, grant>>

(* _remove_handle()                                                         *)
Removed(h) ==
    /\ handles' = handles \ {h}
    /\ singleton' = IF singleton = h THEN None ELSE singleton

(* READY cannot be written, or the caller is cancelled: the handle is        *)
(* FAILED or CANCELLED if at least that can be written, is forgotten, its    *)
(* task is cancelled and its resources are closed (_cleanup_failed_creation), *)
(* and a cancelled one is DESTROYED.                                        *)
CreateFails(h, target) ==
    /\ lock = h /\ state[h] = "CREATING"
    /\ Fault
    /\ \/ state' = [state EXCEPT ![h] = target] /\ record' = [record EXCEPT ![h] = target]
       \/ target = "DESTROYED" /\ state' = [state EXCEPT ![h] = "CANCELLED"]
          /\ record' = [record EXCEPT ![h] = "CANCELLED"]
       \/ UNCHANGED state /\ record' \in {record, [record EXCEPT ![h] = "READY"]}
    /\ Removed(h)
    /\ task' = [task EXCEPT ![h] = "ended"] /\ closed' = closed \cup {h}
    /\ lock' = None
    /\ UNCHANGED <<parentOf, stopping, destroying, revoked, waits, grant>>

-----------------------------------------------------------------------------
(* The tasks.                                                               *)

(* run_child() begins its work, ends it by itself, and goes on to deliver    *)
(* its result; the map agent fails by itself.                               *)
Work(h) ==
    /\ task[h] = "running" /\ state[h] = "READY"
    /\ Transition(h, "RUNNING")
    /\ UNCHANGED <<handles, singleton, parentOf, task, closed, lock, stopping, destroying,
                   revoked, faults, waits, grant>>

EndWork(h, target) ==
    /\ task[h] = "running" /\ state[h] \in {"RUNNING", "STOPPING"}
    /\ (target = "COMPLETED" => h \in Child)
    /\ IF target = "FAILED" THEN Fault ELSE UNCHANGED faults
    /\ Transition(h, target)
    /\ UNCHANGED <<handles, singleton, parentOf, task, closed, lock, stopping, destroying,
                   revoked, waits, grant>>

TaskEnds(h) ==
    /\ task[h] = "running" /\ state[h] \in Terminal \cup {"DESTROYED"}
    /\ task' = [task EXCEPT ![h] = "ended"]
    /\ UNCHANGED <<state, record, handles, singleton, parentOf, closed, lock, stopping,
                   destroying, revoked, faults, waits, grant>>

-----------------------------------------------------------------------------
(* stop() and _finish_stop()                                                *)

Ended(h) == state[h] \in Terminal \cup {"DESTROYED"}

(* Finalizer w is at its call of stop(h): the destroyer of h, or the stop of *)
(* its parent, which stops its children one after the other.                *)
CallsStop(w, h) ==
    \/ w = h /\ destroying[h] = "stop" /\ <<"stop", h, h>> \notin waits
    \/ /\ stopping[w] = "children" /\ h \in Children(w)
       /\ \A c \in Child : <<"stop", w, c>> \notin waits

NoFinalizer(h) == stopping[h] \in {"idle", "failed"} /\ \A w \in Runtime : <<"stop", w, h>> \notin waits

(* Fault: STOPPING is entered without the create lock.                      *)
StopUnlocked(w, h) ==
    /\ CallsStop(w, h) /\ ~Ended(h) /\ NoFinalizer(h)
    /\ IF state[h] = "STOPPING" THEN UNCHANGED <<state, record>> ELSE Transition(h, "STOPPING")
    /\ stopping' = [stopping EXCEPT ![h] = "children"]
    /\ waits' = waits \cup {<<"stop", w, h>>}
    /\ UNCHANGED <<handles, singleton, parentOf, task, closed, lock, destroying, grant, revoked,
                   faults>>

(* stop(): under the create lock, so that no child is being created.  A      *)
(* finalizer that failed is started again.                                  *)
Stop(w, h) ==
    /\ CallsStop(w, h) /\ ~Ended(h) /\ NoFinalizer(h)
    /\ lock = None
    /\ IF state[h] = "STOPPING" THEN UNCHANGED <<state, record>> ELSE Transition(h, "STOPPING")
    /\ stopping' = [stopping EXCEPT ![h] = "children"]
    /\ waits' = waits \cup {<<"stop", w, h>>}
    /\ UNCHANGED <<handles, singleton, parentOf, task, closed, lock, destroying, grant, revoked,
                   faults>>

(* A stop task that runs is awaited.                                        *)
JoinStop(w, h) ==
    /\ CallsStop(w, h) /\ ~Ended(h) /\ stopping[h] \notin {"idle", "failed"} /\ lock = None
    /\ waits' = waits \cup {<<"stop", w, h>>}
    /\ UNCHANGED <<state, record, handles, singleton, parentOf, task, closed, lock, stopping,
                   destroying, grant, revoked, faults>>

(* What the failure of its call does to finalizer w: the stop of h for h     *)
(* itself is a call of its destroyer, that of a child a call of its stop.    *)
CallFails(w, h) ==
    IF w = h THEN destroying' = [destroying EXCEPT ![h] = "failed"] /\ UNCHANGED stopping
             ELSE stopping' = [stopping EXCEPT ![w] = "failed"] /\ UNCHANGED destroying

(* STOPPING cannot be written: the call raises.                             *)
StopRaises(w, h) ==
    /\ CallsStop(w, h) /\ ~Ended(h) /\ NoFinalizer(h) /\ lock = None
    /\ state[h] # "STOPPING" /\ TransitionFails(h, "STOPPING")
    /\ CallFails(w, h)
    /\ UNCHANGED <<handles, singleton, parentOf, task, closed, lock, waits, grant, revoked>>

(* The stop task that w awaited has ended.                                  *)
StopReturns(w, h) ==
    /\ <<"stop", w, h>> \in waits /\ stopping[h] \in {"done", "failed"}
    /\ waits' = waits \ {<<"stop", w, h>>}
    /\ IF stopping[h] = "failed"
       THEN CallFails(w, h)
       ELSE /\ destroying' = IF w = h THEN [destroying EXCEPT ![h] = "children"] ELSE destroying
            /\ UNCHANGED stopping
    /\ UNCHANGED <<state, record, handles, singleton, parentOf, task, closed, lock, grant,
                   revoked, faults>>

(* stop() of a child that has ended returns at once.                        *)
StopChildren(h) ==
    /\ stopping[h] = "children" /\ (Children(h) # {} => lock = None)
    /\ \A c \in Children(h) : Ended(c) /\ <<"stop", h, c>> \notin waits
    /\ stopping' = [stopping EXCEPT ![h] = "cancel"]
    /\ UNCHANGED <<state, record, handles, singleton, parentOf, task, closed, lock, destroying,
                   waits, grant, revoked, faults>>

(* Fault: the task of a parent swallows its cancellation.                   *)
CancelSwallowed(h) ==
    /\ stopping[h] = "cancel" /\ task[h] = "running" /\ ~Ended(h)
    /\ \/ h \in Child /\ Transition(h, "CANCELLED") /\ UNCHANGED <<faults, task>>
       \/ h \in Parent /\ UNCHANGED <<state, record, faults, task>>
    /\ UNCHANGED <<handles, singleton, parentOf, closed, lock, stopping, destroying, waits, grant,
                   revoked>>

(* _cancel_task(): the cancelled run_child() makes itself CANCELLED and goes *)
(* on to deliver that, or fails to; other tasks just end.                   *)
CancelTask(h) ==
    /\ stopping[h] = "cancel" /\ task[h] = "running" /\ ~Ended(h)
    /\ \/ h \in Child /\ Transition(h, "CANCELLED") /\ UNCHANGED <<faults, task>>
       \/ h \in Child /\ TransitionFails(h, "CANCELLED") /\ task' = [task EXCEPT ![h] = "ended"]
       \/ h \in Parent /\ task' = [task EXCEPT ![h] = "ended"] /\ UNCHANGED <<state, record, faults>>
    /\ UNCHANGED <<handles, singleton, parentOf, closed, lock, stopping, destroying, waits, grant,
                   revoked>>

(* Fault: the resources are closed while the task still uses them.          *)
CloseUnderTask(h) ==
    /\ stopping[h] = "cancel"
    /\ closed' = closed \cup {h}
    /\ stopping' = [stopping EXCEPT ![h] = "complete"]
    /\ UNCHANGED <<state, record, handles, singleton, parentOf, task, lock, destroying, waits,
                   grant, revoked, faults>>

(* The task has been awaited; close_resources().                            *)
CloseResources(h) ==
    /\ stopping[h] = "cancel" /\ task[h] # "running"
    /\ closed' = closed \cup {h}
    /\ stopping' = [stopping EXCEPT ![h] = "complete"]
    /\ UNCHANGED <<state, record, handles, singleton, parentOf, task, lock, destroying, waits,
                   grant, revoked, faults>>

FinishStop(h) ==
    /\ stopping[h] = "complete"
    /\ \/ /\ state[h] = "STOPPING" /\ Transition(h, "COMPLETED")
          /\ stopping' = [stopping EXCEPT ![h] = "done"] /\ UNCHANGED faults
       \/ /\ state[h] = "STOPPING" /\ TransitionFails(h, "COMPLETED")
          /\ stopping' = [stopping EXCEPT ![h] = "failed"]
       \/ /\ state[h] # "STOPPING"
          /\ stopping' = [stopping EXCEPT ![h] = "done"] /\ UNCHANGED <<state, record, faults>>
    /\ UNCHANGED <<handles, singleton, parentOf, task, closed, lock, destroying, waits, grant,
                   revoked>>

-----------------------------------------------------------------------------
(* destroy(), revoke() and _finish_destroy()                                *)

(* By the turn, by close_session(), at shutdown; again after a failure.      *)
Destroy(h) ==
    /\ h \in handles /\ state[h] # "CREATING" /\ destroying[h] \in {"idle", "failed"}
    /\ destroying' = [destroying EXCEPT ![h] = "stop"]
    /\ UNCHANGED <<state, record, handles, singleton, parentOf, task, closed, lock, stopping,
                   waits, grant, revoked, faults>>

(* revoke() of a parent: the token first.                                   *)
Revoke(h) ==
    /\ h \in Parent \cap handles /\ state[h] # "CREATING" /\ destroying[h] \in {"idle", "failed"}
    /\ h \notin revoked
    /\ revoked' = revoked \cup {h}
    /\ destroying' = [destroying EXCEPT ![h] = "stop"]
    /\ UNCHANGED <<state, record, handles, singleton, parentOf, task, closed, lock, stopping,
                   waits, grant, faults>>

(* stop() of a handle that has ended returns at once, although a stop task   *)
(* may still await its task or close its resources.                         *)
DestroyEnded(h) ==
    /\ destroying[h] = "stop" /\ <<"stop", h, h>> \notin waits
    /\ lock = None /\ Ended(h)
    /\ destroying' = [destroying EXCEPT ![h] = "children"]
    /\ UNCHANGED <<state, record, handles, singleton, parentOf, task, closed, lock, stopping,
                   waits, grant, revoked, faults>>

(* The children are destroyed one by one; the finalizer of each is its own.  *)
DestroyChild(h, c) ==
    /\ destroying[h] = "children" /\ c \in Children(h)
    /\ \A d \in Child : <<"destroy", h, d>> \notin waits
    /\ destroying' = [destroying EXCEPT ![c] = IF @ \in {"idle", "failed"} THEN "stop" ELSE @]
    /\ waits' = waits \cup {<<"destroy", h, c>>}
    /\ UNCHANGED <<state, record, handles, singleton, parentOf, task, closed, lock, stopping,
                   grant, revoked, faults>>

DestroyReturns(h, c) ==
    /\ <<"destroy", h, c>> \in waits /\ destroying[c] \in {"done", "failed"}
    /\ waits' = waits \ {<<"destroy", h, c>>}
    /\ destroying' = IF destroying[c] = "failed" THEN [destroying EXCEPT ![h] = "failed"]
                     ELSE destroying
    /\ UNCHANGED <<state, record, handles, singleton, parentOf, task, closed, lock, stopping,
                   grant, revoked, faults>>

DestroyChildren(h) ==
    /\ destroying[h] = "children" /\ Children(h) = {}
    /\ \A d \in Child : <<"destroy", h, d>> \notin waits
    /\ destroying' = [destroying EXCEPT ![h] = "mark"]
    /\ UNCHANGED <<state, record, handles, singleton, parentOf, task, closed, lock, stopping,
                   waits, grant, revoked, faults>>

MarkDestroyed(h) ==
    /\ destroying[h] = "mark"
    /\ \/ /\ state[h] # "DESTROYED" /\ Transition(h, "DESTROYED")
          /\ destroying' = [destroying EXCEPT ![h] = "remove"] /\ UNCHANGED faults
       \/ /\ state[h] # "DESTROYED" /\ TransitionFails(h, "DESTROYED")
          /\ destroying' = [destroying EXCEPT ![h] = "failed"]
    /\ UNCHANGED <<handles, singleton, parentOf, task, closed, lock, stopping, waits, grant,
                   revoked>>

RemoveDestroyed(h) ==
    /\ destroying[h] = "remove" /\ lock = None
    /\ Removed(h)
    /\ destroying' = [destroying EXCEPT ![h] = "done"]
    /\ UNCHANGED <<state, record, parentOf, task, closed, lock, stopping, waits, grant, revoked,
                   faults>>

-----------------------------------------------------------------------------
Creation(h) ==
    \/ CreateRecord(h) \/ CreateRecordFails(h) \/ CreateReady(h)
    \/ \E t \in {"FAILED", "DESTROYED"} : CreateFails(h, t)

Tasks(h) == Work(h) \/ (\E t \in {"COMPLETED", "FAILED"} : EndWork(h, t)) \/ TaskEnds(h)

StopCall(w, h) == Stop(w, h) \/ JoinStop(w, h) \/ StopRaises(w, h) \/ StopReturns(w, h)

Stopping(h) ==
    \/ StopChildren(h) \/ CancelTask(h) \/ CloseResources(h) \/ FinishStop(h)

Destroying(h) ==
    \/ DestroyEnded(h) \/ DestroyChildren(h) \/ MarkDestroyed(h) \/ RemoveDestroyed(h)
    \/ \E c \in Child : DestroyChild(h, c) \/ DestroyReturns(h, c)

Next ==
    \/ \E p \in Parent : CreateParent(p) \/ (\E c \in Child : CreateChild(c, p))
    \/ \E h \in Runtime : Creation(h) \/ Tasks(h) \/ Destroy(h) \/ Revoke(h)
                          \/ Stopping(h) \/ Destroying(h) \/ \E w \in Runtime : StopCall(w, h)

(* Tasks and finalizers run on the event loop until they end; nobody has to  *)
(* create or to destroy a runtime.                                          *)
Fairness ==
    \A h \in Runtime :
      /\ WF_vars(Creation(h)) /\ WF_vars(TaskEnds(h))
      /\ WF_vars(Stopping(h)) /\ WF_vars(Destroying(h))
      /\ \A w \in Parent \cup {h} : WF_vars(StopCall(w, h))

Spec == Init /\ [][Next]_vars /\ Fairness

-----------------------------------------------------------------------------
(* A destroyed runtime leaves no child behind: none is registered under it,  *)
(* and none is being created under the create lock (create_runtime() checks  *)
(* the parent, then awaits the row; stop() takes the same lock).             *)
NoOrphans ==
    \A c \in Child : parentOf[c] # None /\ state[parentOf[c]] = "DESTROYED" =>
      c \notin handles /\ lock # c

(* At most one live runtime of the singleton key is registered, and the key  *)
(* leads to it, whatever creations failed or were cancelled.                 *)
OneSingleton ==
    \A h \in Parent \cap handles : state[h] # "DESTROYED" => singleton = h

(* A runtime whose finalizer stopped it is quiet: its task has ended, its     *)
(* resources are closed and no child of it is active (_finish_stop()); and   *)
(* resources are never closed under a task that still runs.                  *)
StoppedIsQuiet ==
    /\ \A h \in Runtime : stopping[h] = "done" =>
         /\ task[h] # "running" /\ h \in closed
         /\ \A c \in Children(h) : Ended(c)
    /\ \A h \in closed : task[h] # "running"

(* Every request that the grant of a child allows, its parent's grant allows. *)
NoEscalation == \A c \in Child : grant[c] # None => NoEscalationOf(ParentGrant, grant[c])

(* The row is at the state of its handle, or ahead of it by one transition   *)
(* that raised after its commit, never behind: a runtime that has ended is    *)
(* not found active by a restart (transition()).                            *)
RowAhead ==
    \A h \in Runtime : record[h] # state[h] /\ state[h] # "none" =>
      record[h] \in ALLOWED_TRANSITIONS[state[h]]

(* What create_runtime(), transition() and the finalizers keep together: the *)
(* registry, the tree of runtimes and their rows.                           *)
RegistryIntact == TypeOK /\ NoOrphans /\ OneSingleton /\ RowAhead

(* A destruction that was asked for ends, with the runtime gone or with an   *)
(* error to its caller: finalizers that await each other never block.        *)
DestroyEnds ==
    \A h \in Runtime : destroying[h] = "stop" ~> destroying[h] \in {"done", "failed"}
=============================================================================
