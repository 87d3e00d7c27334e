------------------------------ MODULE HostProofs ------------------------------
(***************************************************************************)
(* Proofs about the runtime host and its grants, for any number of runtimes, *)
(* children, scopes and paths, of failing writes and of tasks, and about the *)
(* tool-call loop of a turn, for any tools, limits and deadline.             *)
(***************************************************************************)
EXTENDS RuntimeHost, AgentLoop, FiniteSetTheorems, TLAPS

-----------------------------------------------------------------------------
(* The inductive invariant.                                                 *)

(* A parent that is being created replaces one that was destroyed; nothing   *)
(* else can be registered under the key while it holds the create lock.     *)
NewParentAlone ==
    lock \in Parent /\ state[lock] = "none" =>
      \A p \in Parent \cap handles : state[p] = "DESTROYED"

(* A child has a parent that was active once.                               *)
ParentStarted ==
    \A c \in Child : parentOf[c] # None => state[parentOf[c]] \notin {"none", "CREATING"}

(* A finalizer of stop() or destroy() entered while nobody held the create   *)
(* lock, and since then no child can be created under its runtime.          *)
Unattended(p) == \A c \in Child : parentOf[c] = p => lock # c

Winding(h) == state[h] = "STOPPING" \/ Ended(h)

StoppingAlone == \A h \in Runtime : stopping[h] # "idle" => Winding(h) /\ Unattended(h)

(* A finalizer that waits for the stop of a child is one of stop().          *)
WaitingStops ==
    \A w, h \in Runtime : <<"stop", w, h>> \in waits /\ w # h => stopping[w] # "idle"

DestroyingAlone ==
    \A h \in Runtime :
      /\ destroying[h] \in {"children", "mark"} => Ended(h) /\ Unattended(h)
      /\ destroying[h] = "mark" => Children(h) = {}

(* A stop that is done is done with a runtime that has ended; from "cancel"  *)
(* on no child is active, from "complete" on the resources are closed.      *)
StopProgress ==
    \A h \in Runtime :
      /\ stopping[h] = "done" => Ended(h)
      /\ stopping[h] \in {"cancel", "complete", "done"} => \A c \in Children(h) : Ended(c)
      /\ stopping[h] \in {"complete", "done"} => h \in closed

ClosedIsQuiet == \A h \in closed : task[h] # "running" /\ state[h] # "none"

(* What derive() accepted.                                                  *)
Derived == \A c \in Child : grant[c] # None => Derivable(ParentGrant, grant[c])

HostInv ==
    /\ TypeOK /\ RowAhead
    /\ OneSingleton /\ NewParentAlone
    /\ NoOrphans /\ ParentStarted /\ StoppingAlone /\ WaitingStops /\ DestroyingAlone
    /\ StopProgress /\ ClosedIsQuiet
    /\ Derived
-----------------------------------------------------------------------------
(* Grants.                                                                  *)

(* What lies inside a scope that lies inside another lies inside that one.   *)
LEMMA ContainedMatches ==
    ASSUME NEW p \in Scope, NEW c \in Scope, NEW r \in Request,
           _scope_contains(p, c), _scope_matches_request(c, r)
    PROVE  _scope_matches_request(p, r)
  <1>1. p.type = r.type /\ r.action \in p.actions
    BY DEF _scope_contains, _scope_matches_request
  <1>2. ASSUME NEW k \in Key, p.attrs[k] # NoValue
        PROVE  r.attrs[k] # NoValue /\ Covers(k, p.attrs[k], r.attrs[k])
    <2>1. /\ c.attrs[k] # NoValue /\ Covers(k, p.attrs[k], c.attrs[k])
          /\ r.attrs[k] # NoValue /\ Covers(k, c.attrs[k], r.attrs[k])
      BY <1>2 DEF _scope_contains, _scope_matches_request
    <2>2. p.attrs[k] \in Value /\ c.attrs[k] \in Value /\ r.attrs[k] \in Value
      BY <1>2, <2>1 DEF Scope, Request, Attributes
    <2>3. CASE k = PathKey BY <2>1, <2>2, <2>3, InsideAssumption DEF Covers
    <2>4. CASE k # PathKey BY <2>1, <2>4 DEF Covers
    <2>5. QED BY <2>1, <2>3, <2>4
  <1>3. QED BY <1>1, <1>2 DEF _scope_matches_request

(* Two scopes that match one request overlap.                               *)
LEMMA MatchingOverlap ==
    ASSUME NEW d \in Scope, NEW c \in Scope, NEW r \in Request,
           _scope_matches_request(d, r), _scope_matches_request(c, r)
    PROVE  _scopes_overlap(d, c)
  <1>1. d.type = c.type /\ d.actions \cap c.actions # {}
    BY DEF _scope_matches_request
  <1>2. ASSUME NEW k \in Key, d.attrs[k] # NoValue, c.attrs[k] # NoValue
        PROVE  Covers(k, d.attrs[k], c.attrs[k]) \/ Covers(k, c.attrs[k], d.attrs[k])
    <2>1. /\ r.attrs[k] # NoValue
          /\ Covers(k, d.attrs[k], r.attrs[k]) /\ Covers(k, c.attrs[k], r.attrs[k])
      BY <1>2 DEF _scope_matches_request
    <2>2. d.attrs[k] \in Value /\ c.attrs[k] \in Value /\ r.attrs[k] \in Value
      BY <1>2, <2>1 DEF Scope, Request, Attributes
    <2>3. CASE k = PathKey BY <2>1, <2>2, <2>3, InsideAssumption DEF Covers
    <2>4. CASE k # PathKey BY <2>1, <2>4 DEF Covers
    <2>5. QED BY <2>3, <2>4
  <1>3. QED BY <1>1, <1>2 DEF _scopes_overlap

(* derive() never widens: what the grant of a child allows, the grant it was *)
(* derived from allows.                                                     *)
THEOREM DerivedIsNarrower ==
    ASSUME NEW p \in Grant, NEW c \in Grant, Derivable(p, c)
    PROVE  NoEscalationOf(p, c)
  <1> SUFFICES ASSUME NEW r \in Request, Allowed(c, r)
               PROVE  Allowed(p, r)
    BY DEF NoEscalationOf
  <1>1. PICK s \in c.scopes : _scope_matches_request(s, r) /\ s.effect = "allow"
    BY DEF Allowed
  <1>2. s \in Scope /\ p.scopes \subseteq Scope
    BY DEF Grant
  <1>3. PICK a \in p.scopes : a.effect = "allow" /\ _scope_contains(a, s)
    BY <1>1 DEF Derivable
  <1>4. _scope_matches_request(a, r)
    BY <1>1, <1>2, <1>3, ContainedMatches
  <1>5. ASSUME NEW d \in p.scopes, _scope_matches_request(d, r)
        PROVE  d.effect # "deny"
    <2>1. _scopes_overlap(d, s)
      BY <1>1, <1>2, <1>5, MatchingOverlap
    <2>2. QED BY <1>1, <2>1 DEF Derivable
  <1>6. QED BY <1>3, <1>4, <1>5 DEF Allowed

-----------------------------------------------------------------------------
(* Types.                                                                   *)

LEMMA Transitions ==
    \A s \in State : \A t \in ALLOWED_TRANSITIONS[s] :
      /\ t \in State /\ t # "none" /\ t # "CREATING"
      /\ s \notin {"none", "DESTROYED"}
      /\ s \in Terminal => t = "DESTROYED"
      /\ t = "DESTROYED" => s \in Terminal
      /\ s = "STOPPING" => t \in Terminal
  BY DEF State, Active, Terminal, ALLOWED_TRANSITIONS

LEMMA TypeInit == Init => TypeOK
  BY HostAssumption DEF Init, TypeOK, State, StopStep, DestroyStep, Runtime

(* What a transition, made or failing, does to the types.                    *)
LEMMA TransitionTypes ==
    ASSUME TypeOK, NEW h \in Runtime, NEW t
    PROVE  /\ Transition(h, t) \/ TransitionFails(h, t) =>
                state' \in [Runtime -> State] /\ record' \in [Runtime -> State]
           /\ TransitionFails(h, t) => faults' \in 0 .. MaxFault
  <1>1. t \in ALLOWED_TRANSITIONS[state[h]] => t \in State
    BY Transitions DEF TypeOK
  <1>2. QED BY <1>1, HostAssumption DEF TypeOK, Transition, TransitionFails, Fault

LEMMA TypeStep ==
    ASSUME TypeOK, [Next]_vars
    PROVE  TypeOK'
  <1>1. ASSUME NEW p \in Parent, CreateParent(p)
        PROVE  TypeOK'
    BY <1>1, HostAssumption DEF TypeOK, StopStep, DestroyStep, Runtime, CreateParent
  <1>2. ASSUME NEW c \in Child, NEW p \in Parent, CreateChild(c, p)
        PROVE  TypeOK'
    BY <1>2, HostAssumption DEF TypeOK, StopStep, DestroyStep, Runtime, CreateChild
  <1>3. ASSUME NEW h \in Runtime, CreateRecord(h)
        PROVE  TypeOK'
    BY <1>3, HostAssumption DEF TypeOK, StopStep, DestroyStep, Runtime, CreateRecord, State,
      Active
  <1>4. ASSUME NEW h \in Runtime, CreateRecordFails(h)
        PROVE  TypeOK'
    BY <1>4, HostAssumption DEF TypeOK, StopStep, DestroyStep, Runtime, CreateRecordFails, Fault
  <1>5. ASSUME NEW h \in Runtime, CreateReady(h)
        PROVE  TypeOK'
    BY <1>5, HostAssumption, TransitionTypes DEF TypeOK, StopStep, DestroyStep, Runtime,
      CreateReady
  <1>6. ASSUME NEW h \in Runtime, NEW t \in {"FAILED", "DESTROYED"}, CreateFails(h, t)
        PROVE  TypeOK'
    BY <1>6, HostAssumption DEF TypeOK, StopStep, DestroyStep, Runtime, CreateFails, Fault,
      Removed, State, Active, Terminal
  <1>7. ASSUME NEW h \in Runtime, Work(h)
        PROVE  TypeOK'
    BY <1>7, HostAssumption, TransitionTypes DEF TypeOK, StopStep, DestroyStep, Runtime, Work
  <1>8. ASSUME NEW h \in Runtime, NEW t \in {"COMPLETED", "FAILED"}, EndWork(h, t)
        PROVE  TypeOK'
    BY <1>8, HostAssumption, TransitionTypes DEF TypeOK, StopStep, DestroyStep, Runtime, EndWork,
      Fault
  <1>9. ASSUME NEW h \in Runtime, TaskEnds(h)
        PROVE  TypeOK'
    BY <1>9, HostAssumption DEF TypeOK, StopStep, DestroyStep, Runtime, TaskEnds
  <1>10. ASSUME NEW h \in Runtime, Destroy(h)
        PROVE  TypeOK'
    BY <1>10, HostAssumption DEF TypeOK, StopStep, DestroyStep, Runtime, Destroy
  <1>11. ASSUME NEW h \in Runtime, Revoke(h)
        PROVE  TypeOK'
    BY <1>11, HostAssumption DEF TypeOK, StopStep, DestroyStep, Runtime, Revoke
  <1>12. ASSUME NEW h \in Runtime, StopChildren(h)
        PROVE  TypeOK'
    BY <1>12, HostAssumption DEF TypeOK, StopStep, DestroyStep, Runtime, StopChildren
  <1>13. ASSUME NEW h \in Runtime, CancelTask(h)
        PROVE  TypeOK'
    BY <1>13, HostAssumption, TransitionTypes DEF TypeOK, StopStep, DestroyStep, Runtime,
      CancelTask
  <1>14. ASSUME NEW h \in Runtime, CloseResources(h)
        PROVE  TypeOK'
    BY <1>14, HostAssumption DEF TypeOK, StopStep, DestroyStep, Runtime, CloseResources
  <1>15. ASSUME NEW h \in Runtime, FinishStop(h)
        PROVE  TypeOK'
    BY <1>15, HostAssumption, TransitionTypes DEF TypeOK, StopStep, DestroyStep, Runtime,
      FinishStop
  <1>16. ASSUME NEW h \in Runtime, DestroyEnded(h)
        PROVE  TypeOK'
    BY <1>16, HostAssumption DEF TypeOK, StopStep, DestroyStep, Runtime, DestroyEnded
  <1>17. ASSUME NEW h \in Runtime, DestroyChildren(h)
        PROVE  TypeOK'
    BY <1>17, HostAssumption DEF TypeOK, StopStep, DestroyStep, Runtime, DestroyChildren
  <1>18. ASSUME NEW h \in Runtime, MarkDestroyed(h)
        PROVE  TypeOK'
    BY <1>18, HostAssumption, TransitionTypes DEF TypeOK, StopStep, DestroyStep, Runtime,
      MarkDestroyed
  <1>19. ASSUME NEW h \in Runtime, RemoveDestroyed(h)
        PROVE  TypeOK'
    BY <1>19, HostAssumption DEF TypeOK, StopStep, DestroyStep, Runtime, RemoveDestroyed, Removed
  <1>20. ASSUME NEW h \in Runtime, NEW c \in Child, DestroyChild(h, c)
        PROVE  TypeOK'
    BY <1>20, HostAssumption DEF TypeOK, StopStep, DestroyStep, Runtime, DestroyChild
  <1>21. ASSUME NEW h \in Runtime, NEW c \in Child, DestroyReturns(h, c)
        PROVE  TypeOK'
    BY <1>21, HostAssumption DEF TypeOK, StopStep, DestroyStep, Runtime, DestroyReturns
  <1>22. ASSUME NEW w \in Runtime, NEW h \in Runtime, Stop(w, h)
        PROVE  TypeOK'
    BY <1>22, HostAssumption, TransitionTypes DEF TypeOK, StopStep, DestroyStep, Runtime, Stop
  <1>23. ASSUME NEW w \in Runtime, NEW h \in Runtime, JoinStop(w, h)
        PROVE  TypeOK'
    BY <1>23, HostAssumption DEF TypeOK, StopStep, DestroyStep, Runtime, JoinStop
  <1>24. ASSUME NEW w \in Runtime, NEW h \in Runtime, StopRaises(w, h)
        PROVE  TypeOK'
    BY <1>24, HostAssumption, TransitionTypes DEF TypeOK, StopStep, DestroyStep, Runtime,
      StopRaises, CallFails
  <1>25. ASSUME NEW w \in Runtime, NEW h \in Runtime, StopReturns(w, h)
        PROVE  TypeOK'
    BY <1>25, HostAssumption DEF TypeOK, StopStep, DestroyStep, Runtime, StopReturns, CallFails
  <1>26. CASE UNCHANGED vars
    BY <1>26, HostAssumption DEF TypeOK, StopStep, DestroyStep, Runtime, vars
  <1>27. QED BY <1>1, <1>2, <1>3, <1>4, <1>5, <1>6, <1>7, <1>8, <1>9, <1>10, <1>11, <1>12, <1>13,
    <1>14, <1>15, <1>16, <1>17, <1>18, <1>19, <1>20, <1>21, <1>22, <1>23, <1>24, <1>25, <1>26 DEF
    Next, Creation, Tasks, StopCall, Stopping, Destroying


(* Runtimes, their rows, tasks, finalizers and grants keep their types: no   *)
(* transition leaves the state machine of a runtime.                        *)
THEOREM HostTypeCorrect == Spec => []TypeOK
  BY TypeInit, TypeStep, PTL DEF Spec

-----------------------------------------------------------------------------
(* What a step does to the state of one runtime.                            *)
Moves(h) ==
    \/ state'[h] = state[h]
    \/ /\ state'[h] \in ALLOWED_TRANSITIONS[state[h]]
       /\ state'[h] = "DESTROYED" => destroying[h] = "mark"
    \/ state[h] = "none" /\ state'[h] = "CREATING" /\ lock = h
    \/ state[h] = "CREATING" /\ state'[h] = "DESTROYED" /\ lock = h

LEMMA CreatingMayFail == {"FAILED", "CANCELLED"} \subseteq ALLOWED_TRANSITIONS["CREATING"]
  BY DEF State, Active, Terminal, ALLOWED_TRANSITIONS

LEMMA StateMoves ==
    ASSUME TypeOK, [Next]_vars, NEW g \in Runtime
    PROVE  Moves(g)
  <1>1. ASSUME NEW p \in Parent, CreateParent(p)
        PROVE  Moves(g)
    BY <1>1 DEF TypeOK, Moves, CreateParent
  <1>2. ASSUME NEW c \in Child, NEW p \in Parent, CreateChild(c, p)
        PROVE  Moves(g)
    BY <1>2 DEF TypeOK, Moves, CreateChild
  <1>3. ASSUME NEW h \in Runtime, CreateRecord(h)
        PROVE  Moves(g)
    BY <1>3 DEF TypeOK, Moves, CreateRecord
  <1>4. ASSUME NEW h \in Runtime, CreateRecordFails(h)
        PROVE  Moves(g)
    BY <1>4 DEF TypeOK, Moves, CreateRecordFails
  <1>5. ASSUME NEW h \in Runtime, CreateReady(h)
        PROVE  Moves(g)
    BY <1>5 DEF TypeOK, Moves, CreateReady, Transition
  <1>6. ASSUME NEW h \in Runtime, NEW t \in {"FAILED", "DESTROYED"}, CreateFails(h, t)
        PROVE  Moves(g)
    BY <1>6, CreatingMayFail DEF TypeOK, Moves, CreateFails
  <1>7. ASSUME NEW h \in Runtime, Work(h)
        PROVE  Moves(g)
    BY <1>7 DEF TypeOK, Moves, Work, Transition
  <1>8. ASSUME NEW h \in Runtime, NEW t \in {"COMPLETED", "FAILED"}, EndWork(h, t)
        PROVE  Moves(g)
    BY <1>8 DEF TypeOK, Moves, EndWork, Transition
  <1>9. ASSUME NEW h \in Runtime, TaskEnds(h)
        PROVE  Moves(g)
    BY <1>9 DEF TypeOK, Moves, TaskEnds
  <1>10. ASSUME NEW h \in Runtime, Destroy(h)
        PROVE  Moves(g)
    BY <1>10 DEF TypeOK, Moves, Destroy
  <1>11. ASSUME NEW h \in Runtime, Revoke(h)
        PROVE  Moves(g)
    BY <1>11 DEF TypeOK, Moves, Revoke
  <1>12. ASSUME NEW h \in Runtime, StopChildren(h)
        PROVE  Moves(g)
    BY <1>12 DEF TypeOK, Moves, StopChildren
  <1>13. ASSUME NEW h \in Runtime, CancelTask(h)
        PROVE  Moves(g)
    BY <1>13 DEF TypeOK, Moves, CancelTask, Transition, TransitionFails
  <1>14. ASSUME NEW h \in Runtime, CloseResources(h)
        PROVE  Moves(g)
    BY <1>14 DEF TypeOK, Moves, CloseResources
  <1>15. ASSUME NEW h \in Runtime, FinishStop(h)
        PROVE  Moves(g)
    BY <1>15 DEF TypeOK, Moves, FinishStop, Transition, TransitionFails
  <1>16. ASSUME NEW h \in Runtime, DestroyEnded(h)
        PROVE  Moves(g)
    BY <1>16 DEF TypeOK, Moves, DestroyEnded
  <1>17. ASSUME NEW h \in Runtime, DestroyChildren(h)
        PROVE  Moves(g)
    BY <1>17 DEF TypeOK, Moves, DestroyChildren
  <1>18. ASSUME NEW h \in Runtime, MarkDestroyed(h)
        PROVE  Moves(g)
    BY <1>18 DEF TypeOK, Moves, MarkDestroyed, Transition, TransitionFails
  <1>19. ASSUME NEW h \in Runtime, RemoveDestroyed(h)
        PROVE  Moves(g)
    BY <1>19 DEF TypeOK, Moves, RemoveDestroyed
  <1>20. ASSUME NEW h \in Runtime, NEW c \in Child, DestroyChild(h, c)
        PROVE  Moves(g)
    BY <1>20 DEF TypeOK, Moves, DestroyChild
  <1>21. ASSUME NEW h \in Runtime, NEW c \in Child, DestroyReturns(h, c)
        PROVE  Moves(g)
    BY <1>21 DEF TypeOK, Moves, DestroyReturns
  <1>22. ASSUME NEW w \in Runtime, NEW h \in Runtime, Stop(w, h)
        PROVE  Moves(g)
    BY <1>22 DEF TypeOK, Moves, Stop, Transition
  <1>23. ASSUME NEW w \in Runtime, NEW h \in Runtime, JoinStop(w, h)
        PROVE  Moves(g)
    BY <1>23 DEF TypeOK, Moves, JoinStop
  <1>24. ASSUME NEW w \in Runtime, NEW h \in Runtime, StopRaises(w, h)
        PROVE  Moves(g)
    BY <1>24 DEF TypeOK, Moves, StopRaises, TransitionFails
  <1>25. ASSUME NEW w \in Runtime, NEW h \in Runtime, StopReturns(w, h)
        PROVE  Moves(g)
    BY <1>25 DEF TypeOK, Moves, StopReturns
  <1>26. CASE UNCHANGED vars
    BY <1>26 DEF TypeOK, Moves, vars
  <1>27. QED BY <1>1, <1>2, <1>3, <1>4, <1>5, <1>6, <1>7, <1>8, <1>9, <1>10, <1>11, <1>12, <1>13,
    <1>14, <1>15, <1>16, <1>17, <1>18, <1>19, <1>20, <1>21, <1>22, <1>23, <1>24, <1>25, <1>26 DEF
    Next, Creation, Tasks, StopCall, Stopping, Destroying


(* Some states are never left, and "none" and CREATING are never come back to. *)
Lasts(h) ==
    /\ state[h] # "none" => state'[h] # "none"
    /\ state[h] \notin {"none", "CREATING"} => state'[h] \notin {"none", "CREATING"}
    /\ Winding(h) => Winding(h)'
    /\ Ended(h) => Ended(h)'
    /\ state[h] = "DESTROYED" => state'[h] = "DESTROYED"

LEMMA StateLasts ==
    ASSUME TypeOK, [Next]_vars, NEW g \in Runtime
    PROVE  Lasts(g)
  <1>1. state[g] \in State BY DEF TypeOK
  <1>2. CASE state'[g] = state[g] BY <1>2 DEF Lasts, Winding, Ended
  <1>3. CASE state'[g] \in ALLOWED_TRANSITIONS[state[g]]
    BY <1>1, <1>3, Transitions DEF Lasts, Winding, Ended, Terminal
  <1>4. CASE state[g] = "none" /\ state'[g] = "CREATING"
    BY <1>4 DEF Lasts, Winding, Ended, Terminal
  <1>5. CASE state[g] = "CREATING" /\ state'[g] = "DESTROYED"
    BY <1>5 DEF Lasts, Winding, Ended, Terminal
  <1>6. QED BY <1>2, <1>3, <1>4, <1>5, StateMoves DEF Moves

-----------------------------------------------------------------------------
(* The row and its handle.                                                  *)

LEMMA RowStep ==
    ASSUME TypeOK, RowAhead, [Next]_vars
    PROVE  RowAhead'
  <1>1. ASSUME NEW p \in Parent, CreateParent(p)
        PROVE  RowAhead'
    BY <1>1 DEF TypeOK, RowAhead, CreateParent
  <1>2. ASSUME NEW c \in Child, NEW p \in Parent, CreateChild(c, p)
        PROVE  RowAhead'
    BY <1>2 DEF TypeOK, RowAhead, CreateChild
  <1>3. ASSUME NEW h \in Runtime, CreateRecord(h)
        PROVE  RowAhead'
    BY <1>3 DEF TypeOK, RowAhead, CreateRecord
  <1>4. ASSUME NEW h \in Runtime, CreateRecordFails(h)
        PROVE  RowAhead'
    BY <1>4 DEF TypeOK, RowAhead, CreateRecordFails
  <1>5. ASSUME NEW h \in Runtime, CreateReady(h)
        PROVE  RowAhead'
    BY <1>5 DEF TypeOK, RowAhead, CreateReady, Transition
  <1>6. ASSUME NEW h \in Runtime, NEW t \in {"FAILED", "DESTROYED"}, CreateFails(h, t)
        PROVE  RowAhead'
    BY <1>6 DEF TypeOK, RowAhead, CreateFails, State, Active, Terminal, ALLOWED_TRANSITIONS
  <1>7. ASSUME NEW h \in Runtime, Work(h)
        PROVE  RowAhead'
    BY <1>7 DEF TypeOK, RowAhead, Work, Transition
  <1>8. ASSUME NEW h \in Runtime, NEW t \in {"COMPLETED", "FAILED"}, EndWork(h, t)
        PROVE  RowAhead'
    BY <1>8 DEF TypeOK, RowAhead, EndWork, Transition
  <1>9. ASSUME NEW h \in Runtime, TaskEnds(h)
        PROVE  RowAhead'
    BY <1>9 DEF TypeOK, RowAhead, TaskEnds
  <1>10. ASSUME NEW h \in Runtime, Destroy(h)
        PROVE  RowAhead'
    BY <1>10 DEF TypeOK, RowAhead, Destroy
  <1>11. ASSUME NEW h \in Runtime, Revoke(h)
        PROVE  RowAhead'
    BY <1>11 DEF TypeOK, RowAhead, Revoke
  <1>12. ASSUME NEW h \in Runtime, StopChildren(h)
        PROVE  RowAhead'
    BY <1>12 DEF TypeOK, RowAhead, StopChildren
  <1>13. ASSUME NEW h \in Runtime, CancelTask(h)
        PROVE  RowAhead'
    BY <1>13 DEF TypeOK, RowAhead, CancelTask, Transition, TransitionFails
  <1>14. ASSUME NEW h \in Runtime, CloseResources(h)
        PROVE  RowAhead'
    BY <1>14 DEF TypeOK, RowAhead, CloseResources
  <1>15. ASSUME NEW h \in Runtime, FinishStop(h)
        PROVE  RowAhead'
    BY <1>15 DEF TypeOK, RowAhead, FinishStop, Transition, TransitionFails
  <1>16. ASSUME NEW h \in Runtime, DestroyEnded(h)
        PROVE  RowAhead'
    BY <1>16 DEF TypeOK, RowAhead, DestroyEnded
  <1>17. ASSUME NEW h \in Runtime, DestroyChildren(h)
        PROVE  RowAhead'
    BY <1>17 DEF TypeOK, RowAhead, DestroyChildren
  <1>18. ASSUME NEW h \in Runtime, MarkDestroyed(h)
        PROVE  RowAhead'
    BY <1>18 DEF TypeOK, RowAhead, MarkDestroyed, Transition, TransitionFails
  <1>19. ASSUME NEW h \in Runtime, RemoveDestroyed(h)
        PROVE  RowAhead'
    BY <1>19 DEF TypeOK, RowAhead, RemoveDestroyed
  <1>20. ASSUME NEW h \in Runtime, NEW c \in Child, DestroyChild(h, c)
        PROVE  RowAhead'
    BY <1>20 DEF TypeOK, RowAhead, DestroyChild
  <1>21. ASSUME NEW h \in Runtime, NEW c \in Child, DestroyReturns(h, c)
        PROVE  RowAhead'
    BY <1>21 DEF TypeOK, RowAhead, DestroyReturns
  <1>22. ASSUME NEW w \in Runtime, NEW h \in Runtime, Stop(w, h)
        PROVE  RowAhead'
    BY <1>22 DEF TypeOK, RowAhead, Stop, Transition
  <1>23. ASSUME NEW w \in Runtime, NEW h \in Runtime, JoinStop(w, h)
        PROVE  RowAhead'
    BY <1>23 DEF TypeOK, RowAhead, JoinStop
  <1>24. ASSUME NEW w \in Runtime, NEW h \in Runtime, StopRaises(w, h)
        PROVE  RowAhead'
    BY <1>24 DEF TypeOK, RowAhead, StopRaises, TransitionFails
  <1>25. ASSUME NEW w \in Runtime, NEW h \in Runtime, StopReturns(w, h)
        PROVE  RowAhead'
    BY <1>25 DEF TypeOK, RowAhead, StopReturns
  <1>26. CASE UNCHANGED vars
    BY <1>26 DEF TypeOK, RowAhead, vars
  <1>27. QED BY <1>1, <1>2, <1>3, <1>4, <1>5, <1>6, <1>7, <1>8, <1>9, <1>10, <1>11, <1>12, <1>13,
    <1>14, <1>15, <1>16, <1>17, <1>18, <1>19, <1>20, <1>21, <1>22, <1>23, <1>24, <1>25, <1>26 DEF
    Next, Creation, Tasks, StopCall, Stopping, Destroying

-----------------------------------------------------------------------------
(* One runtime of the key.                                                  *)

LEMMA SingletonStep ==
    ASSUME TypeOK, OneSingleton, NewParentAlone, [Next]_vars
    PROVE  OneSingleton' /\ NewParentAlone'
  <1> DEFINE Lasting == \A g \in Runtime : Lasts(g)
  <1>0. Lasting BY StateLasts
  <1>1. ASSUME NEW p \in Parent, CreateParent(p)
        PROVE  OneSingleton' /\ NewParentAlone'
    BY <1>1, <1>0, HostAssumption DEF TypeOK, OneSingleton, NewParentAlone, Lasts, CreateParent
  <1>2. ASSUME NEW c \in Child, NEW p \in Parent, CreateChild(c, p)
        PROVE  OneSingleton' /\ NewParentAlone'
    BY <1>2, <1>0, HostAssumption DEF TypeOK, OneSingleton, NewParentAlone, Lasts, CreateChild
  <1>3. ASSUME NEW h \in Runtime, CreateRecord(h)
        PROVE  OneSingleton' /\ NewParentAlone'
    BY <1>3, <1>0, HostAssumption DEF TypeOK, OneSingleton, NewParentAlone, Lasts, CreateRecord
  <1>4. ASSUME NEW h \in Runtime, CreateRecordFails(h)
        PROVE  OneSingleton' /\ NewParentAlone'
    BY <1>4, <1>0, HostAssumption DEF TypeOK, OneSingleton, NewParentAlone, Lasts,
      CreateRecordFails
  <1>5. ASSUME NEW h \in Runtime, CreateReady(h)
        PROVE  OneSingleton' /\ NewParentAlone'
    BY <1>5, <1>0, HostAssumption DEF TypeOK, OneSingleton, NewParentAlone, Lasts, CreateReady
  <1>6. ASSUME NEW h \in Runtime, NEW t \in {"FAILED", "DESTROYED"}, CreateFails(h, t)
        PROVE  OneSingleton' /\ NewParentAlone'
    BY <1>6, <1>0, HostAssumption DEF TypeOK, OneSingleton, NewParentAlone, Lasts, CreateFails,
      Removed
  <1>7. ASSUME NEW h \in Runtime, Work(h)
        PROVE  OneSingleton' /\ NewParentAlone'
    BY <1>7, <1>0, HostAssumption DEF TypeOK, OneSingleton, NewParentAlone, Lasts, Work
  <1>8. ASSUME NEW h \in Runtime, NEW t \in {"COMPLETED", "FAILED"}, EndWork(h, t)
        PROVE  OneSingleton' /\ NewParentAlone'
    BY <1>8, <1>0, HostAssumption DEF TypeOK, OneSingleton, NewParentAlone, Lasts, EndWork
  <1>9. ASSUME NEW h \in Runtime, TaskEnds(h)
        PROVE  OneSingleton' /\ NewParentAlone'
    BY <1>9, <1>0, HostAssumption DEF TypeOK, OneSingleton, NewParentAlone, Lasts, TaskEnds
  <1>10. ASSUME NEW h \in Runtime, Destroy(h)
        PROVE  OneSingleton' /\ NewParentAlone'
    BY <1>10, <1>0, HostAssumption DEF TypeOK, OneSingleton, NewParentAlone, Lasts, Destroy
  <1>11. ASSUME NEW h \in Runtime, Revoke(h)
        PROVE  OneSingleton' /\ NewParentAlone'
    BY <1>11, <1>0, HostAssumption DEF TypeOK, OneSingleton, NewParentAlone, Lasts, Revoke
  <1>12. ASSUME NEW h \in Runtime, StopChildren(h)
        PROVE  OneSingleton' /\ NewParentAlone'
    BY <1>12, <1>0, HostAssumption DEF TypeOK, OneSingleton, NewParentAlone, Lasts, StopChildren
  <1>13. ASSUME NEW h \in Runtime, CancelTask(h)
        PROVE  OneSingleton' /\ NewParentAlone'
    BY <1>13, <1>0, HostAssumption DEF TypeOK, OneSingleton, NewParentAlone, Lasts, CancelTask
  <1>14. ASSUME NEW h \in Runtime, CloseResources(h)
        PROVE  OneSingleton' /\ NewParentAlone'
    BY <1>14, <1>0, HostAssumption DEF TypeOK, OneSingleton, NewParentAlone, Lasts, CloseResources
  <1>15. ASSUME NEW h \in Runtime, FinishStop(h)
        PROVE  OneSingleton' /\ NewParentAlone'
    BY <1>15, <1>0, HostAssumption DEF TypeOK, OneSingleton, NewParentAlone, Lasts, FinishStop
  <1>16. ASSUME NEW h \in Runtime, DestroyEnded(h)
        PROVE  OneSingleton' /\ NewParentAlone'
    BY <1>16, <1>0, HostAssumption DEF TypeOK, OneSingleton, NewParentAlone, Lasts, DestroyEnded
  <1>17. ASSUME NEW h \in Runtime, DestroyChildren(h)
        PROVE  OneSingleton' /\ NewParentAlone'
    BY <1>17, <1>0, HostAssumption DEF TypeOK, OneSingleton, NewParentAlone, Lasts,
      DestroyChildren
  <1>18. ASSUME NEW h \in Runtime, MarkDestroyed(h)
        PROVE  OneSingleton' /\ NewParentAlone'
    BY <1>18, <1>0, HostAssumption DEF TypeOK, OneSingleton, NewParentAlone, Lasts, MarkDestroyed
  <1>19. ASSUME NEW h \in Runtime, RemoveDestroyed(h)
        PROVE  OneSingleton' /\ NewParentAlone'
    BY <1>19, <1>0, HostAssumption DEF TypeOK, OneSingleton, NewParentAlone, Lasts,
      RemoveDestroyed, Removed
  <1>20. ASSUME NEW h \in Runtime, NEW c \in Child, DestroyChild(h, c)
        PROVE  OneSingleton' /\ NewParentAlone'
    BY <1>20, <1>0, HostAssumption DEF TypeOK, OneSingleton, NewParentAlone, Lasts, DestroyChild
  <1>21. ASSUME NEW h \in Runtime, NEW c \in Child, DestroyReturns(h, c)
        PROVE  OneSingleton' /\ NewParentAlone'
    BY <1>21, <1>0, HostAssumption DEF TypeOK, OneSingleton, NewParentAlone, Lasts, DestroyReturns
  <1>22. ASSUME NEW w \in Runtime, NEW h \in Runtime, Stop(w, h)
        PROVE  OneSingleton' /\ NewParentAlone'
    BY <1>22, <1>0, HostAssumption DEF TypeOK, OneSingleton, NewParentAlone, Lasts, Stop
  <1>23. ASSUME NEW w \in Runtime, NEW h \in Runtime, JoinStop(w, h)
        PROVE  OneSingleton' /\ NewParentAlone'
    BY <1>23, <1>0, HostAssumption DEF TypeOK, OneSingleton, NewParentAlone, Lasts, JoinStop
  <1>24. ASSUME NEW w \in Runtime, NEW h \in Runtime, StopRaises(w, h)
        PROVE  OneSingleton' /\ NewParentAlone'
    BY <1>24, <1>0, HostAssumption DEF TypeOK, OneSingleton, NewParentAlone, Lasts, StopRaises
  <1>25. ASSUME NEW w \in Runtime, NEW h \in Runtime, StopReturns(w, h)
        PROVE  OneSingleton' /\ NewParentAlone'
    BY <1>25, <1>0, HostAssumption DEF TypeOK, OneSingleton, NewParentAlone, Lasts, StopReturns
  <1>26. CASE UNCHANGED vars
    BY <1>26, <1>0, HostAssumption DEF TypeOK, OneSingleton, NewParentAlone, Lasts, vars
  <1>27. QED BY <1>1, <1>2, <1>3, <1>4, <1>5, <1>6, <1>7, <1>8, <1>9, <1>10, <1>11, <1>12, <1>13,
    <1>14, <1>15, <1>16, <1>17, <1>18, <1>19, <1>20, <1>21, <1>22, <1>23, <1>24, <1>25, <1>26 DEF
    Next, Creation, Tasks, StopCall, Stopping, Destroying

-----------------------------------------------------------------------------
(* Parents, children and finalizers.                                        *)

LEMMA ParentStep ==
    ASSUME TypeOK, ParentStarted, [Next]_vars
    PROVE  ParentStarted'
  <1> DEFINE Lasting == \A g \in Runtime : Lasts(g)
  <1>0. Lasting BY StateLasts
  <1>1. ASSUME NEW p \in Parent, CreateParent(p)
        PROVE  ParentStarted'
    BY <1>1, <1>0, HostAssumption DEF TypeOK, ParentStarted, Lasts, Runtime, CreateParent
  <1>2. ASSUME NEW c \in Child, NEW p \in Parent, CreateChild(c, p)
        PROVE  ParentStarted'
    BY <1>2, <1>0, HostAssumption DEF TypeOK, ParentStarted, Lasts, Runtime, CreateChild,
      IsActiveParent
  <1>3. ASSUME NEW h \in Runtime, CreateRecord(h)
        PROVE  ParentStarted'
    BY <1>3, <1>0, HostAssumption DEF TypeOK, ParentStarted, Lasts, Runtime, CreateRecord
  <1>4. ASSUME NEW h \in Runtime, CreateRecordFails(h)
        PROVE  ParentStarted'
    BY <1>4, <1>0, HostAssumption DEF TypeOK, ParentStarted, Lasts, Runtime, CreateRecordFails
  <1>5. ASSUME NEW h \in Runtime, CreateReady(h)
        PROVE  ParentStarted'
    BY <1>5, <1>0, HostAssumption DEF TypeOK, ParentStarted, Lasts, Runtime, CreateReady
  <1>6. ASSUME NEW h \in Runtime, NEW t \in {"FAILED", "DESTROYED"}, CreateFails(h, t)
        PROVE  ParentStarted'
    BY <1>6, <1>0, HostAssumption DEF TypeOK, ParentStarted, Lasts, Runtime, CreateFails, Removed
  <1>7. ASSUME NEW h \in Runtime, Work(h)
        PROVE  ParentStarted'
    BY <1>7, <1>0, HostAssumption DEF TypeOK, ParentStarted, Lasts, Runtime, Work
  <1>8. ASSUME NEW h \in Runtime, NEW t \in {"COMPLETED", "FAILED"}, EndWork(h, t)
        PROVE  ParentStarted'
    BY <1>8, <1>0, HostAssumption DEF TypeOK, ParentStarted, Lasts, Runtime, EndWork
  <1>9. ASSUME NEW h \in Runtime, TaskEnds(h)
        PROVE  ParentStarted'
    BY <1>9, <1>0, HostAssumption DEF TypeOK, ParentStarted, Lasts, Runtime, TaskEnds
  <1>10. ASSUME NEW h \in Runtime, Destroy(h)
        PROVE  ParentStarted'
    BY <1>10, <1>0, HostAssumption DEF TypeOK, ParentStarted, Lasts, Runtime, Destroy
  <1>11. ASSUME NEW h \in Runtime, Revoke(h)
        PROVE  ParentStarted'
    BY <1>11, <1>0, HostAssumption DEF TypeOK, ParentStarted, Lasts, Runtime, Revoke
  <1>12. ASSUME NEW h \in Runtime, StopChildren(h)
        PROVE  ParentStarted'
    BY <1>12, <1>0, HostAssumption DEF TypeOK, ParentStarted, Lasts, Runtime, StopChildren
  <1>13. ASSUME NEW h \in Runtime, CancelTask(h)
        PROVE  ParentStarted'
    BY <1>13, <1>0, HostAssumption DEF TypeOK, ParentStarted, Lasts, Runtime, CancelTask
  <1>14. ASSUME NEW h \in Runtime, CloseResources(h)
        PROVE  ParentStarted'
    BY <1>14, <1>0, HostAssumption DEF TypeOK, ParentStarted, Lasts, Runtime, CloseResources
  <1>15. ASSUME NEW h \in Runtime, FinishStop(h)
        PROVE  ParentStarted'
    BY <1>15, <1>0, HostAssumption DEF TypeOK, ParentStarted, Lasts, Runtime, FinishStop
  <1>16. ASSUME NEW h \in Runtime, DestroyEnded(h)
        PROVE  ParentStarted'
    BY <1>16, <1>0, HostAssumption DEF TypeOK, ParentStarted, Lasts, Runtime, DestroyEnded
  <1>17. ASSUME NEW h \in Runtime, DestroyChildren(h)
        PROVE  ParentStarted'
    BY <1>17, <1>0, HostAssumption DEF TypeOK, ParentStarted, Lasts, Runtime, DestroyChildren
  <1>18. ASSUME NEW h \in Runtime, MarkDestroyed(h)
        PROVE  ParentStarted'
    BY <1>18, <1>0, HostAssumption DEF TypeOK, ParentStarted, Lasts, Runtime, MarkDestroyed
  <1>19. ASSUME NEW h \in Runtime, RemoveDestroyed(h)
        PROVE  ParentStarted'
    BY <1>19, <1>0, HostAssumption DEF TypeOK, ParentStarted, Lasts, Runtime, RemoveDestroyed,
      Removed
  <1>20. ASSUME NEW h \in Runtime, NEW c \in Child, DestroyChild(h, c)
        PROVE  ParentStarted'
    BY <1>20, <1>0, HostAssumption DEF TypeOK, ParentStarted, Lasts, Runtime, DestroyChild
  <1>21. ASSUME NEW h \in Runtime, NEW c \in Child, DestroyReturns(h, c)
        PROVE  ParentStarted'
    BY <1>21, <1>0, HostAssumption DEF TypeOK, ParentStarted, Lasts, Runtime, DestroyReturns
  <1>22. ASSUME NEW w \in Runtime, NEW h \in Runtime, Stop(w, h)
        PROVE  ParentStarted'
    BY <1>22, <1>0, HostAssumption DEF TypeOK, ParentStarted, Lasts, Runtime, Stop
  <1>23. ASSUME NEW w \in Runtime, NEW h \in Runtime, JoinStop(w, h)
        PROVE  ParentStarted'
    BY <1>23, <1>0, HostAssumption DEF TypeOK, ParentStarted, Lasts, Runtime, JoinStop
  <1>24. ASSUME NEW w \in Runtime, NEW h \in Runtime, StopRaises(w, h)
        PROVE  ParentStarted'
    BY <1>24, <1>0, HostAssumption DEF TypeOK, ParentStarted, Lasts, Runtime, StopRaises
  <1>25. ASSUME NEW w \in Runtime, NEW h \in Runtime, StopReturns(w, h)
        PROVE  ParentStarted'
    BY <1>25, <1>0, HostAssumption DEF TypeOK, ParentStarted, Lasts, Runtime, StopReturns
  <1>26. CASE UNCHANGED vars
    BY <1>26, <1>0, HostAssumption DEF TypeOK, ParentStarted, Lasts, Runtime, vars
  <1>27. QED BY <1>1, <1>2, <1>3, <1>4, <1>5, <1>6, <1>7, <1>8, <1>9, <1>10, <1>11, <1>12, <1>13,
    <1>14, <1>15, <1>16, <1>17, <1>18, <1>19, <1>20, <1>21, <1>22, <1>23, <1>24, <1>25, <1>26 DEF
    Next, Creation, Tasks, StopCall, Stopping, Destroying

LEMMA StoppingStep ==
    ASSUME TypeOK, StoppingAlone, WaitingStops, [Next]_vars
    PROVE  StoppingAlone' /\ WaitingStops'
  <1> DEFINE Lasting == \A g \in Runtime : Lasts(g)
  <1>0. Lasting BY StateLasts
  <1>1. ASSUME NEW p \in Parent, CreateParent(p)
        PROVE  StoppingAlone' /\ WaitingStops'
    BY <1>1, <1>0, HostAssumption DEF TypeOK, StoppingAlone, WaitingStops, Lasts, Unattended,
      Runtime, CreateParent
  <1>2. ASSUME NEW c \in Child, NEW p \in Parent, CreateChild(c, p)
        PROVE  StoppingAlone' /\ WaitingStops'
    BY <1>2, <1>0, HostAssumption DEF TypeOK, StoppingAlone, WaitingStops, Lasts, Unattended,
      Runtime, CreateChild, IsActiveParent, Winding, Ended, Terminal
  <1>3. ASSUME NEW h \in Runtime, CreateRecord(h)
        PROVE  StoppingAlone' /\ WaitingStops'
    BY <1>3, <1>0, HostAssumption DEF TypeOK, StoppingAlone, WaitingStops, Lasts, Unattended,
      Runtime, CreateRecord
  <1>4. ASSUME NEW h \in Runtime, CreateRecordFails(h)
        PROVE  StoppingAlone' /\ WaitingStops'
    BY <1>4, <1>0, HostAssumption DEF TypeOK, StoppingAlone, WaitingStops, Lasts, Unattended,
      Runtime, CreateRecordFails
  <1>5. ASSUME NEW h \in Runtime, CreateReady(h)
        PROVE  StoppingAlone' /\ WaitingStops'
    BY <1>5, <1>0, HostAssumption DEF TypeOK, StoppingAlone, WaitingStops, Lasts, Unattended,
      Runtime, CreateReady
  <1>6. ASSUME NEW h \in Runtime, NEW t \in {"FAILED", "DESTROYED"}, CreateFails(h, t)
        PROVE  StoppingAlone' /\ WaitingStops'
    BY <1>6, <1>0, HostAssumption DEF TypeOK, StoppingAlone, WaitingStops, Lasts, Unattended,
      Runtime, CreateFails, Removed
  <1>7. ASSUME NEW h \in Runtime, Work(h)
        PROVE  StoppingAlone' /\ WaitingStops'
    BY <1>7, <1>0, HostAssumption DEF TypeOK, StoppingAlone, WaitingStops, Lasts, Unattended,
      Runtime, Work
  <1>8. ASSUME NEW h \in Runtime, NEW t \in {"COMPLETED", "FAILED"}, EndWork(h, t)
        PROVE  StoppingAlone' /\ WaitingStops'
    BY <1>8, <1>0, HostAssumption DEF TypeOK, StoppingAlone, WaitingStops, Lasts, Unattended,
      Runtime, EndWork
  <1>9. ASSUME NEW h \in Runtime, TaskEnds(h)
        PROVE  StoppingAlone' /\ WaitingStops'
    BY <1>9, <1>0, HostAssumption DEF TypeOK, StoppingAlone, WaitingStops, Lasts, Unattended,
      Runtime, TaskEnds
  <1>10. ASSUME NEW h \in Runtime, Destroy(h)
        PROVE  StoppingAlone' /\ WaitingStops'
    BY <1>10, <1>0, HostAssumption DEF TypeOK, StoppingAlone, WaitingStops, Lasts, Unattended,
      Runtime, Destroy
  <1>11. ASSUME NEW h \in Runtime, Revoke(h)
        PROVE  StoppingAlone' /\ WaitingStops'
    BY <1>11, <1>0, HostAssumption DEF TypeOK, StoppingAlone, WaitingStops, Lasts, Unattended,
      Runtime, Revoke
  <1>12. ASSUME NEW h \in Runtime, StopChildren(h)
        PROVE  StoppingAlone' /\ WaitingStops'
    BY <1>12, <1>0, HostAssumption DEF TypeOK, StoppingAlone, WaitingStops, Lasts, Unattended,
      Runtime, StopChildren
  <1>13. ASSUME NEW h \in Runtime, CancelTask(h)
        PROVE  StoppingAlone' /\ WaitingStops'
    BY <1>13, <1>0, HostAssumption DEF TypeOK, StoppingAlone, WaitingStops, Lasts, Unattended,
      Runtime, CancelTask
  <1>14. ASSUME NEW h \in Runtime, CloseResources(h)
        PROVE  StoppingAlone' /\ WaitingStops'
    BY <1>14, <1>0, HostAssumption DEF TypeOK, StoppingAlone, WaitingStops, Lasts, Unattended,
      Runtime, CloseResources
  <1>15. ASSUME NEW h \in Runtime, FinishStop(h)
        PROVE  StoppingAlone' /\ WaitingStops'
    BY <1>15, <1>0, HostAssumption DEF TypeOK, StoppingAlone, WaitingStops, Lasts, Unattended,
      Runtime, FinishStop
  <1>16. ASSUME NEW h \in Runtime, DestroyEnded(h)
        PROVE  StoppingAlone' /\ WaitingStops'
    BY <1>16, <1>0, HostAssumption DEF TypeOK, StoppingAlone, WaitingStops, Lasts, Unattended,
      Runtime, DestroyEnded
  <1>17. ASSUME NEW h \in Runtime, DestroyChildren(h)
        PROVE  StoppingAlone' /\ WaitingStops'
    BY <1>17, <1>0, HostAssumption DEF TypeOK, StoppingAlone, WaitingStops, Lasts, Unattended,
      Runtime, DestroyChildren
  <1>18. ASSUME NEW h \in Runtime, MarkDestroyed(h)
        PROVE  StoppingAlone' /\ WaitingStops'
    BY <1>18, <1>0, HostAssumption DEF TypeOK, StoppingAlone, WaitingStops, Lasts, Unattended,
      Runtime, MarkDestroyed, Transition
  <1>19. ASSUME NEW h \in Runtime, RemoveDestroyed(h)
        PROVE  StoppingAlone' /\ WaitingStops'
    BY <1>19, <1>0, HostAssumption DEF TypeOK, StoppingAlone, WaitingStops, Lasts, Unattended,
      Runtime, RemoveDestroyed, Removed
  <1>20. ASSUME NEW h \in Runtime, NEW c \in Child, DestroyChild(h, c)
        PROVE  StoppingAlone' /\ WaitingStops'
    BY <1>20, <1>0, HostAssumption DEF TypeOK, StoppingAlone, WaitingStops, Lasts, Unattended,
      Runtime, DestroyChild
  <1>21. ASSUME NEW h \in Runtime, NEW c \in Child, DestroyReturns(h, c)
        PROVE  StoppingAlone' /\ WaitingStops'
    BY <1>21, <1>0, HostAssumption DEF TypeOK, StoppingAlone, WaitingStops, Lasts, Unattended,
      Runtime, DestroyReturns
  <1>22. ASSUME NEW w \in Runtime, NEW h \in Runtime, Stop(w, h)
        PROVE  StoppingAlone' /\ WaitingStops'
    BY <1>22, <1>0, HostAssumption DEF TypeOK, StoppingAlone, WaitingStops, Lasts, Unattended,
      Runtime, Stop, Transition, Winding, CallsStop, Children
  <1>23. ASSUME NEW w \in Runtime, NEW h \in Runtime, JoinStop(w, h)
        PROVE  StoppingAlone' /\ WaitingStops'
    BY <1>23, <1>0, HostAssumption DEF TypeOK, StoppingAlone, WaitingStops, Lasts, Unattended,
      Runtime, JoinStop, CallsStop
  <1>24. ASSUME NEW w \in Runtime, NEW h \in Runtime, StopRaises(w, h)
        PROVE  StoppingAlone' /\ WaitingStops'
    BY <1>24, <1>0, HostAssumption DEF TypeOK, StoppingAlone, WaitingStops, Lasts, Unattended,
      Runtime, StopRaises, CallFails, CallsStop
  <1>25. ASSUME NEW w \in Runtime, NEW h \in Runtime, StopReturns(w, h)
        PROVE  StoppingAlone' /\ WaitingStops'
    BY <1>25, <1>0, HostAssumption DEF TypeOK, StoppingAlone, WaitingStops, Lasts, Unattended,
      Runtime, StopReturns, CallFails
  <1>26. CASE UNCHANGED vars
    BY <1>26, <1>0, HostAssumption DEF TypeOK, StoppingAlone, WaitingStops, Lasts, Unattended,
      Runtime, vars
  <1>27. QED BY <1>1, <1>2, <1>3, <1>4, <1>5, <1>6, <1>7, <1>8, <1>9, <1>10, <1>11, <1>12, <1>13,
    <1>14, <1>15, <1>16, <1>17, <1>18, <1>19, <1>20, <1>21, <1>22, <1>23, <1>24, <1>25, <1>26 DEF
    Next, Creation, Tasks, StopCall, Stopping, Destroying

LEMMA DestroyingStep ==
    ASSUME TypeOK, StoppingAlone, DestroyingAlone, StopProgress, [Next]_vars
    PROVE  DestroyingAlone'
  <1> DEFINE Lasting == \A g \in Runtime : Lasts(g)
  <1>0. Lasting BY StateLasts
  <1>1. ASSUME NEW p \in Parent, CreateParent(p)
        PROVE  DestroyingAlone'
    BY <1>1, <1>0, HostAssumption DEF TypeOK, DestroyingAlone, Lasts, Unattended, Children,
      Runtime, CreateParent
  <1>2. ASSUME NEW c \in Child, NEW p \in Parent, CreateChild(c, p)
        PROVE  DestroyingAlone'
    BY <1>2, <1>0, HostAssumption DEF TypeOK, DestroyingAlone, Lasts, Unattended, Children,
      Runtime, CreateChild, IsActiveParent, Ended, Terminal
  <1>3. ASSUME NEW h \in Runtime, CreateRecord(h)
        PROVE  DestroyingAlone'
    BY <1>3, <1>0, HostAssumption DEF TypeOK, DestroyingAlone, Lasts, Unattended, Children,
      Runtime, CreateRecord
  <1>4. ASSUME NEW h \in Runtime, CreateRecordFails(h)
        PROVE  DestroyingAlone'
    BY <1>4, <1>0, HostAssumption DEF TypeOK, DestroyingAlone, Lasts, Unattended, Children,
      Runtime, CreateRecordFails
  <1>5. ASSUME NEW h \in Runtime, CreateReady(h)
        PROVE  DestroyingAlone'
    BY <1>5, <1>0, HostAssumption DEF TypeOK, DestroyingAlone, Lasts, Unattended, Children,
      Runtime, CreateReady
  <1>6. ASSUME NEW h \in Runtime, NEW t \in {"FAILED", "DESTROYED"}, CreateFails(h, t)
        PROVE  DestroyingAlone'
    BY <1>6, <1>0, HostAssumption DEF TypeOK, DestroyingAlone, Lasts, Unattended, Children,
      Runtime, CreateFails, Removed
  <1>7. ASSUME NEW h \in Runtime, Work(h)
        PROVE  DestroyingAlone'
    BY <1>7, <1>0, HostAssumption DEF TypeOK, DestroyingAlone, Lasts, Unattended, Children,
      Runtime, Work
  <1>8. ASSUME NEW h \in Runtime, NEW t \in {"COMPLETED", "FAILED"}, EndWork(h, t)
        PROVE  DestroyingAlone'
    BY <1>8, <1>0, HostAssumption DEF TypeOK, DestroyingAlone, Lasts, Unattended, Children,
      Runtime, EndWork
  <1>9. ASSUME NEW h \in Runtime, TaskEnds(h)
        PROVE  DestroyingAlone'
    BY <1>9, <1>0, HostAssumption DEF TypeOK, DestroyingAlone, Lasts, Unattended, Children,
      Runtime, TaskEnds
  <1>10. ASSUME NEW h \in Runtime, Destroy(h)
        PROVE  DestroyingAlone'
    BY <1>10, <1>0, HostAssumption DEF TypeOK, DestroyingAlone, Lasts, Unattended, Children,
      Runtime, Destroy
  <1>11. ASSUME NEW h \in Runtime, Revoke(h)
        PROVE  DestroyingAlone'
    BY <1>11, <1>0, HostAssumption DEF TypeOK, DestroyingAlone, Lasts, Unattended, Children,
      Runtime, Revoke
  <1>12. ASSUME NEW h \in Runtime, StopChildren(h)
        PROVE  DestroyingAlone'
    BY <1>12, <1>0, HostAssumption DEF TypeOK, DestroyingAlone, Lasts, Unattended, Children,
      Runtime, StopChildren
  <1>13. ASSUME NEW h \in Runtime, CancelTask(h)
        PROVE  DestroyingAlone'
    BY <1>13, <1>0, HostAssumption DEF TypeOK, DestroyingAlone, Lasts, Unattended, Children,
      Runtime, CancelTask
  <1>14. ASSUME NEW h \in Runtime, CloseResources(h)
        PROVE  DestroyingAlone'
    BY <1>14, <1>0, HostAssumption DEF TypeOK, DestroyingAlone, Lasts, Unattended, Children,
      Runtime, CloseResources
  <1>15. ASSUME NEW h \in Runtime, FinishStop(h)
        PROVE  DestroyingAlone'
    BY <1>15, <1>0, HostAssumption DEF TypeOK, DestroyingAlone, Lasts, Unattended, Children,
      Runtime, FinishStop
  <1>16. ASSUME NEW h \in Runtime, DestroyEnded(h)
        PROVE  DestroyingAlone'
    BY <1>16, <1>0, HostAssumption DEF TypeOK, DestroyingAlone, Lasts, Unattended, Children,
      Runtime, DestroyEnded
  <1>17. ASSUME NEW h \in Runtime, DestroyChildren(h)
        PROVE  DestroyingAlone'
    BY <1>17, <1>0, HostAssumption DEF TypeOK, DestroyingAlone, Lasts, Unattended, Children,
      Runtime, DestroyChildren
  <1>18. ASSUME NEW h \in Runtime, MarkDestroyed(h)
        PROVE  DestroyingAlone'
    BY <1>18, <1>0, HostAssumption DEF TypeOK, DestroyingAlone, Lasts, Unattended, Children,
      Runtime, MarkDestroyed, Transition
  <1>19. ASSUME NEW h \in Runtime, RemoveDestroyed(h)
        PROVE  DestroyingAlone'
    BY <1>19, <1>0, HostAssumption DEF TypeOK, DestroyingAlone, Lasts, Unattended, Children,
      Runtime, RemoveDestroyed, Removed
  <1>20. ASSUME NEW h \in Runtime, NEW c \in Child, DestroyChild(h, c)
        PROVE  DestroyingAlone'
    BY <1>20, <1>0, HostAssumption DEF TypeOK, DestroyingAlone, Lasts, Unattended, Children,
      Runtime, DestroyChild
  <1>21. ASSUME NEW h \in Runtime, NEW c \in Child, DestroyReturns(h, c)
        PROVE  DestroyingAlone'
    BY <1>21, <1>0, HostAssumption DEF TypeOK, DestroyingAlone, Lasts, Unattended, Children,
      Runtime, DestroyReturns
  <1>22. ASSUME NEW w \in Runtime, NEW h \in Runtime, Stop(w, h)
        PROVE  DestroyingAlone'
    BY <1>22, <1>0, HostAssumption DEF TypeOK, DestroyingAlone, Lasts, Unattended, Children,
      Runtime, Stop, Transition
  <1>23. ASSUME NEW w \in Runtime, NEW h \in Runtime, JoinStop(w, h)
        PROVE  DestroyingAlone'
    BY <1>23, <1>0, HostAssumption DEF TypeOK, DestroyingAlone, Lasts, Unattended, Children,
      Runtime, JoinStop
  <1>24. ASSUME NEW w \in Runtime, NEW h \in Runtime, StopRaises(w, h)
        PROVE  DestroyingAlone'
    BY <1>24, <1>0, HostAssumption DEF TypeOK, DestroyingAlone, Lasts, Unattended, Children,
      Runtime, StopRaises, CallFails
  <1>25. ASSUME NEW w \in Runtime, NEW h \in Runtime, StopReturns(w, h)
        PROVE  DestroyingAlone'
    BY <1>25, <1>0, HostAssumption DEF TypeOK, DestroyingAlone, Lasts, Unattended, Children,
      Runtime, StopReturns, CallFails, StoppingAlone, StopProgress
  <1>26. CASE UNCHANGED vars
    BY <1>26, <1>0, HostAssumption DEF TypeOK, DestroyingAlone, Lasts, Unattended, Children,
      Runtime, vars
  <1>27. QED BY <1>1, <1>2, <1>3, <1>4, <1>5, <1>6, <1>7, <1>8, <1>9, <1>10, <1>11, <1>12, <1>13,
    <1>14, <1>15, <1>16, <1>17, <1>18, <1>19, <1>20, <1>21, <1>22, <1>23, <1>24, <1>25, <1>26 DEF
    Next, Creation, Tasks, StopCall, Stopping, Destroying

LEMMA OrphanStep ==
    ASSUME TypeOK, ParentStarted, DestroyingAlone, NoOrphans, [Next]_vars
    PROVE  NoOrphans'
  <1> DEFINE Lasting == \A g \in Runtime : Lasts(g)
  <1>0. Lasting BY StateLasts
  <1>d. ASSUME NEW p \in Parent, state[p] # "DESTROYED", state'[p] = "DESTROYED"
        PROVE  \/ lock = p /\ \A c \in Child : parentOf[c] # p
               \/ destroying[p] = "mark" /\ \A c \in Child : parentOf[c] = p => c \notin handles /\ lock # c
    <2>1. Moves(p) BY StateMoves DEF Runtime
    <2>2. CASE lock = p /\ state[p] = "CREATING"
      BY <2>2, HostAssumption DEF ParentStarted
    <2>3. CASE destroying[p] = "mark"
      BY <2>3 DEF DestroyingAlone, Unattended, Children, Runtime
    <2>4. QED BY <1>d, <2>1, <2>2, <2>3 DEF Moves
  <1>1. ASSUME NEW p \in Parent, CreateParent(p)
        PROVE  NoOrphans'
    BY <1>1, <1>0, <1>d, HostAssumption DEF TypeOK, NoOrphans, Lasts, Runtime, CreateParent
  <1>2. ASSUME NEW c \in Child, NEW p \in Parent, CreateChild(c, p)
        PROVE  NoOrphans'
    BY <1>2, <1>0, <1>d, HostAssumption DEF TypeOK, NoOrphans, Lasts, Runtime, CreateChild,
      IsActiveParent, Ended, Terminal
  <1>3. ASSUME NEW h \in Runtime, CreateRecord(h)
        PROVE  NoOrphans'
    BY <1>3, <1>0, <1>d, HostAssumption DEF TypeOK, NoOrphans, Lasts, Runtime, CreateRecord
  <1>4. ASSUME NEW h \in Runtime, CreateRecordFails(h)
        PROVE  NoOrphans'
    BY <1>4, <1>0, <1>d, HostAssumption DEF TypeOK, NoOrphans, Lasts, Runtime, CreateRecordFails
  <1>5. ASSUME NEW h \in Runtime, CreateReady(h)
        PROVE  NoOrphans'
    BY <1>5, <1>0, <1>d, HostAssumption DEF TypeOK, NoOrphans, Lasts, Runtime, CreateReady
  <1>6. ASSUME NEW h \in Runtime, NEW t \in {"FAILED", "DESTROYED"}, CreateFails(h, t)
        PROVE  NoOrphans'
    BY <1>6, <1>0, <1>d, HostAssumption DEF TypeOK, NoOrphans, Lasts, Runtime, CreateFails,
      Removed
  <1>7. ASSUME NEW h \in Runtime, Work(h)
        PROVE  NoOrphans'
    BY <1>7, <1>0, <1>d, HostAssumption DEF TypeOK, NoOrphans, Lasts, Runtime, Work
  <1>8. ASSUME NEW h \in Runtime, NEW t \in {"COMPLETED", "FAILED"}, EndWork(h, t)
        PROVE  NoOrphans'
    BY <1>8, <1>0, <1>d, HostAssumption DEF TypeOK, NoOrphans, Lasts, Runtime, EndWork
  <1>9. ASSUME NEW h \in Runtime, TaskEnds(h)
        PROVE  NoOrphans'
    BY <1>9, <1>0, <1>d, HostAssumption DEF TypeOK, NoOrphans, Lasts, Runtime, TaskEnds
  <1>10. ASSUME NEW h \in Runtime, Destroy(h)
        PROVE  NoOrphans'
    BY <1>10, <1>0, <1>d, HostAssumption DEF TypeOK, NoOrphans, Lasts, Runtime, Destroy
  <1>11. ASSUME NEW h \in Runtime, Revoke(h)
        PROVE  NoOrphans'
    BY <1>11, <1>0, <1>d, HostAssumption DEF TypeOK, NoOrphans, Lasts, Runtime, Revoke
  <1>12. ASSUME NEW h \in Runtime, StopChildren(h)
        PROVE  NoOrphans'
    BY <1>12, <1>0, <1>d, HostAssumption DEF TypeOK, NoOrphans, Lasts, Runtime, StopChildren
  <1>13. ASSUME NEW h \in Runtime, CancelTask(h)
        PROVE  NoOrphans'
    BY <1>13, <1>0, <1>d, HostAssumption DEF TypeOK, NoOrphans, Lasts, Runtime, CancelTask
  <1>14. ASSUME NEW h \in Runtime, CloseResources(h)
        PROVE  NoOrphans'
    BY <1>14, <1>0, <1>d, HostAssumption DEF TypeOK, NoOrphans, Lasts, Runtime, CloseResources
  <1>15. ASSUME NEW h \in Runtime, FinishStop(h)
        PROVE  NoOrphans'
    BY <1>15, <1>0, <1>d, HostAssumption DEF TypeOK, NoOrphans, Lasts, Runtime, FinishStop
  <1>16. ASSUME NEW h \in Runtime, DestroyEnded(h)
        PROVE  NoOrphans'
    BY <1>16, <1>0, <1>d, HostAssumption DEF TypeOK, NoOrphans, Lasts, Runtime, DestroyEnded
  <1>17. ASSUME NEW h \in Runtime, DestroyChildren(h)
        PROVE  NoOrphans'
    BY <1>17, <1>0, <1>d, HostAssumption DEF TypeOK, NoOrphans, Lasts, Runtime, DestroyChildren
  <1>18. ASSUME NEW h \in Runtime, MarkDestroyed(h)
        PROVE  NoOrphans'
    BY <1>18, <1>0, <1>d, HostAssumption DEF TypeOK, NoOrphans, Lasts, Runtime, MarkDestroyed,
      Transition
  <1>19. ASSUME NEW h \in Runtime, RemoveDestroyed(h)
        PROVE  NoOrphans'
    BY <1>19, <1>0, <1>d, HostAssumption DEF TypeOK, NoOrphans, Lasts, Runtime, RemoveDestroyed,
      Removed
  <1>20. ASSUME NEW h \in Runtime, NEW c \in Child, DestroyChild(h, c)
        PROVE  NoOrphans'
    BY <1>20, <1>0, <1>d, HostAssumption DEF TypeOK, NoOrphans, Lasts, Runtime, DestroyChild
  <1>21. ASSUME NEW h \in Runtime, NEW c \in Child, DestroyReturns(h, c)
        PROVE  NoOrphans'
    BY <1>21, <1>0, <1>d, HostAssumption DEF TypeOK, NoOrphans, Lasts, Runtime, DestroyReturns
  <1>22. ASSUME NEW w \in Runtime, NEW h \in Runtime, Stop(w, h)
        PROVE  NoOrphans'
    BY <1>22, <1>0, <1>d, HostAssumption DEF TypeOK, NoOrphans, Lasts, Runtime, Stop, Transition
  <1>23. ASSUME NEW w \in Runtime, NEW h \in Runtime, JoinStop(w, h)
        PROVE  NoOrphans'
    BY <1>23, <1>0, <1>d, HostAssumption DEF TypeOK, NoOrphans, Lasts, Runtime, JoinStop
  <1>24. ASSUME NEW w \in Runtime, NEW h \in Runtime, StopRaises(w, h)
        PROVE  NoOrphans'
    BY <1>24, <1>0, <1>d, HostAssumption DEF TypeOK, NoOrphans, Lasts, Runtime, StopRaises,
      CallFails
  <1>25. ASSUME NEW w \in Runtime, NEW h \in Runtime, StopReturns(w, h)
        PROVE  NoOrphans'
    BY <1>25, <1>0, <1>d, HostAssumption DEF TypeOK, NoOrphans, Lasts, Runtime, StopReturns,
      CallFails, StoppingAlone, StopProgress
  <1>26. CASE UNCHANGED vars
    BY <1>26, <1>0, <1>d, HostAssumption DEF TypeOK, NoOrphans, Lasts, Runtime, vars
  <1>27. QED BY <1>1, <1>2, <1>3, <1>4, <1>5, <1>6, <1>7, <1>8, <1>9, <1>10, <1>11, <1>12, <1>13,
    <1>14, <1>15, <1>16, <1>17, <1>18, <1>19, <1>20, <1>21, <1>22, <1>23, <1>24, <1>25, <1>26 DEF
    Next, Creation, Tasks, StopCall, Stopping, Destroying

LEMMA QuietStep ==
    ASSUME TypeOK, StoppingAlone, StopProgress, ClosedIsQuiet, [Next]_vars
    PROVE  StopProgress' /\ ClosedIsQuiet'
  <1> DEFINE Lasting == \A g \in Runtime : Lasts(g)
  <1>0. Lasting BY StateLasts
  <1>1. ASSUME NEW p \in Parent, CreateParent(p)
        PROVE  StopProgress' /\ ClosedIsQuiet'
    BY <1>1, <1>0, HostAssumption DEF TypeOK, StopProgress, ClosedIsQuiet, Lasts, Children,
      Runtime, CreateParent
  <1>2. ASSUME NEW c \in Child, NEW p \in Parent, CreateChild(c, p)
        PROVE  StopProgress' /\ ClosedIsQuiet'
    BY <1>2, <1>0, HostAssumption DEF TypeOK, StopProgress, ClosedIsQuiet, Lasts, Children,
      Runtime, CreateChild, IsActiveParent, StoppingAlone, Winding, Ended, Terminal
  <1>3. ASSUME NEW h \in Runtime, CreateRecord(h)
        PROVE  StopProgress' /\ ClosedIsQuiet'
    BY <1>3, <1>0, HostAssumption DEF TypeOK, StopProgress, ClosedIsQuiet, Lasts, Children,
      Runtime, CreateRecord, StoppingAlone, Unattended, Winding, Ended, Terminal
  <1>4. ASSUME NEW h \in Runtime, CreateRecordFails(h)
        PROVE  StopProgress' /\ ClosedIsQuiet'
    BY <1>4, <1>0, HostAssumption DEF TypeOK, StopProgress, ClosedIsQuiet, Lasts, Children,
      Runtime, CreateRecordFails
  <1>5. ASSUME NEW h \in Runtime, CreateReady(h)
        PROVE  StopProgress' /\ ClosedIsQuiet'
    BY <1>5, <1>0, HostAssumption DEF TypeOK, StopProgress, ClosedIsQuiet, Lasts, Children,
      Runtime, CreateReady
  <1>6. ASSUME NEW h \in Runtime, NEW t \in {"FAILED", "DESTROYED"}, CreateFails(h, t)
        PROVE  StopProgress' /\ ClosedIsQuiet'
    BY <1>6, <1>0, HostAssumption DEF TypeOK, StopProgress, ClosedIsQuiet, Lasts, Children,
      Runtime, CreateFails, Removed
  <1>7. ASSUME NEW h \in Runtime, Work(h)
        PROVE  StopProgress' /\ ClosedIsQuiet'
    BY <1>7, <1>0, HostAssumption DEF TypeOK, StopProgress, ClosedIsQuiet, Lasts, Children,
      Runtime, Work
  <1>8. ASSUME NEW h \in Runtime, NEW t \in {"COMPLETED", "FAILED"}, EndWork(h, t)
        PROVE  StopProgress' /\ ClosedIsQuiet'
    BY <1>8, <1>0, HostAssumption DEF TypeOK, StopProgress, ClosedIsQuiet, Lasts, Children,
      Runtime, EndWork
  <1>9. ASSUME NEW h \in Runtime, TaskEnds(h)
        PROVE  StopProgress' /\ ClosedIsQuiet'
    BY <1>9, <1>0, HostAssumption DEF TypeOK, StopProgress, ClosedIsQuiet, Lasts, Children,
      Runtime, TaskEnds
  <1>10. ASSUME NEW h \in Runtime, Destroy(h)
        PROVE  StopProgress' /\ ClosedIsQuiet'
    BY <1>10, <1>0, HostAssumption DEF TypeOK, StopProgress, ClosedIsQuiet, Lasts, Children,
      Runtime, Destroy
  <1>11. ASSUME NEW h \in Runtime, Revoke(h)
        PROVE  StopProgress' /\ ClosedIsQuiet'
    BY <1>11, <1>0, HostAssumption DEF TypeOK, StopProgress, ClosedIsQuiet, Lasts, Children,
      Runtime, Revoke
  <1>12. ASSUME NEW h \in Runtime, StopChildren(h)
        PROVE  StopProgress' /\ ClosedIsQuiet'
    BY <1>12, <1>0, HostAssumption DEF TypeOK, StopProgress, ClosedIsQuiet, Lasts, Children,
      Runtime, StopChildren
  <1>13. ASSUME NEW h \in Runtime, CancelTask(h)
        PROVE  StopProgress' /\ ClosedIsQuiet'
    BY <1>13, <1>0, HostAssumption DEF TypeOK, StopProgress, ClosedIsQuiet, Lasts, Children,
      Runtime, CancelTask
  <1>14. ASSUME NEW h \in Runtime, CloseResources(h)
        PROVE  StopProgress' /\ ClosedIsQuiet'
    BY <1>14, <1>0, HostAssumption DEF TypeOK, StopProgress, ClosedIsQuiet, Lasts, Children,
      Runtime, CloseResources, StoppingAlone, Winding, Ended, Terminal
  <1>15. ASSUME NEW h \in Runtime, FinishStop(h)
        PROVE  StopProgress' /\ ClosedIsQuiet'
    BY <1>15, <1>0, HostAssumption DEF TypeOK, StopProgress, ClosedIsQuiet, Lasts, Children,
      Runtime, FinishStop, Transition, TransitionFails, Ended, Terminal, StoppingAlone, Winding
  <1>16. ASSUME NEW h \in Runtime, DestroyEnded(h)
        PROVE  StopProgress' /\ ClosedIsQuiet'
    BY <1>16, <1>0, HostAssumption DEF TypeOK, StopProgress, ClosedIsQuiet, Lasts, Children,
      Runtime, DestroyEnded
  <1>17. ASSUME NEW h \in Runtime, DestroyChildren(h)
        PROVE  StopProgress' /\ ClosedIsQuiet'
    BY <1>17, <1>0, HostAssumption DEF TypeOK, StopProgress, ClosedIsQuiet, Lasts, Children,
      Runtime, DestroyChildren
  <1>18. ASSUME NEW h \in Runtime, MarkDestroyed(h)
        PROVE  StopProgress' /\ ClosedIsQuiet'
    BY <1>18, <1>0, HostAssumption DEF TypeOK, StopProgress, ClosedIsQuiet, Lasts, Children,
      Runtime, MarkDestroyed, Transition
  <1>19. ASSUME NEW h \in Runtime, RemoveDestroyed(h)
        PROVE  StopProgress' /\ ClosedIsQuiet'
    BY <1>19, <1>0, HostAssumption DEF TypeOK, StopProgress, ClosedIsQuiet, Lasts, Children,
      Runtime, RemoveDestroyed, Removed
  <1>20. ASSUME NEW h \in Runtime, NEW c \in Child, DestroyChild(h, c)
        PROVE  StopProgress' /\ ClosedIsQuiet'
    BY <1>20, <1>0, HostAssumption DEF TypeOK, StopProgress, ClosedIsQuiet, Lasts, Children,
      Runtime, DestroyChild
  <1>21. ASSUME NEW h \in Runtime, NEW c \in Child, DestroyReturns(h, c)
        PROVE  StopProgress' /\ ClosedIsQuiet'
    BY <1>21, <1>0, HostAssumption DEF TypeOK, StopProgress, ClosedIsQuiet, Lasts, Children,
      Runtime, DestroyReturns
  <1>22. ASSUME NEW w \in Runtime, NEW h \in Runtime, Stop(w, h)
        PROVE  StopProgress' /\ ClosedIsQuiet'
    BY <1>22, <1>0, HostAssumption DEF TypeOK, StopProgress, ClosedIsQuiet, Lasts, Children,
      Runtime, Stop, Transition
  <1>23. ASSUME NEW w \in Runtime, NEW h \in Runtime, JoinStop(w, h)
        PROVE  StopProgress' /\ ClosedIsQuiet'
    BY <1>23, <1>0, HostAssumption DEF TypeOK, StopProgress, ClosedIsQuiet, Lasts, Children,
      Runtime, JoinStop
  <1>24. ASSUME NEW w \in Runtime, NEW h \in Runtime, StopRaises(w, h)
        PROVE  StopProgress' /\ ClosedIsQuiet'
    BY <1>24, <1>0, HostAssumption DEF TypeOK, StopProgress, ClosedIsQuiet, Lasts, Children,
      Runtime, StopRaises, CallFails
  <1>25. ASSUME NEW w \in Runtime, NEW h \in Runtime, StopReturns(w, h)
        PROVE  StopProgress' /\ ClosedIsQuiet'
    BY <1>25, <1>0, HostAssumption DEF TypeOK, StopProgress, ClosedIsQuiet, Lasts, Children,
      Runtime, StopReturns, CallFails
  <1>26. CASE UNCHANGED vars
    BY <1>26, <1>0, HostAssumption DEF TypeOK, StopProgress, ClosedIsQuiet, Lasts, Children,
      Runtime, vars
  <1>27. QED BY <1>1, <1>2, <1>3, <1>4, <1>5, <1>6, <1>7, <1>8, <1>9, <1>10, <1>11, <1>12, <1>13,
    <1>14, <1>15, <1>16, <1>17, <1>18, <1>19, <1>20, <1>21, <1>22, <1>23, <1>24, <1>25, <1>26 DEF
    Next, Creation, Tasks, StopCall, Stopping, Destroying

LEMMA DerivedStep ==
    ASSUME TypeOK, Derived, [Next]_vars
    PROVE  Derived'
  <1>1. ASSUME NEW p \in Parent, CreateParent(p)
        PROVE  Derived'
    BY <1>1, HostAssumption DEF TypeOK, Derived, CreateParent
  <1>2. ASSUME NEW c \in Child, NEW p \in Parent, CreateChild(c, p)
        PROVE  Derived'
    BY <1>2, HostAssumption DEF TypeOK, Derived, CreateChild
  <1>3. ASSUME NEW h \in Runtime, CreateRecord(h)
        PROVE  Derived'
    BY <1>3, HostAssumption DEF TypeOK, Derived, CreateRecord
  <1>4. ASSUME NEW h \in Runtime, CreateRecordFails(h)
        PROVE  Derived'
    BY <1>4, HostAssumption DEF TypeOK, Derived, CreateRecordFails
  <1>5. ASSUME NEW h \in Runtime, CreateReady(h)
        PROVE  Derived'
    BY <1>5, HostAssumption DEF TypeOK, Derived, CreateReady
  <1>6. ASSUME NEW h \in Runtime, NEW t \in {"FAILED", "DESTROYED"}, CreateFails(h, t)
        PROVE  Derived'
    BY <1>6, HostAssumption DEF TypeOK, Derived, CreateFails
  <1>7. ASSUME NEW h \in Runtime, Work(h)
        PROVE  Derived'
    BY <1>7, HostAssumption DEF TypeOK, Derived, Work
  <1>8. ASSUME NEW h \in Runtime, NEW t \in {"COMPLETED", "FAILED"}, EndWork(h, t)
        PROVE  Derived'
    BY <1>8, HostAssumption DEF TypeOK, Derived, EndWork
  <1>9. ASSUME NEW h \in Runtime, TaskEnds(h)
        PROVE  Derived'
    BY <1>9, HostAssumption DEF TypeOK, Derived, TaskEnds
  <1>10. ASSUME NEW h \in Runtime, Destroy(h)
        PROVE  Derived'
    BY <1>10, HostAssumption DEF TypeOK, Derived, Destroy
  <1>11. ASSUME NEW h \in Runtime, Revoke(h)
        PROVE  Derived'
    BY <1>11, HostAssumption DEF TypeOK, Derived, Revoke
  <1>12. ASSUME NEW h \in Runtime, StopChildren(h)
        PROVE  Derived'
    BY <1>12, HostAssumption DEF TypeOK, Derived, StopChildren
  <1>13. ASSUME NEW h \in Runtime, CancelTask(h)
        PROVE  Derived'
    BY <1>13, HostAssumption DEF TypeOK, Derived, CancelTask
  <1>14. ASSUME NEW h \in Runtime, CloseResources(h)
        PROVE  Derived'
    BY <1>14, HostAssumption DEF TypeOK, Derived, CloseResources
  <1>15. ASSUME NEW h \in Runtime, FinishStop(h)
        PROVE  Derived'
    BY <1>15, HostAssumption DEF TypeOK, Derived, FinishStop
  <1>16. ASSUME NEW h \in Runtime, DestroyEnded(h)
        PROVE  Derived'
    BY <1>16, HostAssumption DEF TypeOK, Derived, DestroyEnded
  <1>17. ASSUME NEW h \in Runtime, DestroyChildren(h)
        PROVE  Derived'
    BY <1>17, HostAssumption DEF TypeOK, Derived, DestroyChildren
  <1>18. ASSUME NEW h \in Runtime, MarkDestroyed(h)
        PROVE  Derived'
    BY <1>18, HostAssumption DEF TypeOK, Derived, MarkDestroyed
  <1>19. ASSUME NEW h \in Runtime, RemoveDestroyed(h)
        PROVE  Derived'
    BY <1>19, HostAssumption DEF TypeOK, Derived, RemoveDestroyed
  <1>20. ASSUME NEW h \in Runtime, NEW c \in Child, DestroyChild(h, c)
        PROVE  Derived'
    BY <1>20, HostAssumption DEF TypeOK, Derived, DestroyChild
  <1>21. ASSUME NEW h \in Runtime, NEW c \in Child, DestroyReturns(h, c)
        PROVE  Derived'
    BY <1>21, HostAssumption DEF TypeOK, Derived, DestroyReturns
  <1>22. ASSUME NEW w \in Runtime, NEW h \in Runtime, Stop(w, h)
        PROVE  Derived'
    BY <1>22, HostAssumption DEF TypeOK, Derived, Stop
  <1>23. ASSUME NEW w \in Runtime, NEW h \in Runtime, JoinStop(w, h)
        PROVE  Derived'
    BY <1>23, HostAssumption DEF TypeOK, Derived, JoinStop
  <1>24. ASSUME NEW w \in Runtime, NEW h \in Runtime, StopRaises(w, h)
        PROVE  Derived'
    BY <1>24, HostAssumption DEF TypeOK, Derived, StopRaises
  <1>25. ASSUME NEW w \in Runtime, NEW h \in Runtime, StopReturns(w, h)
        PROVE  Derived'
    BY <1>25, HostAssumption DEF TypeOK, Derived, StopReturns
  <1>26. CASE UNCHANGED vars
    BY <1>26, HostAssumption DEF TypeOK, Derived, vars
  <1>27. QED BY <1>1, <1>2, <1>3, <1>4, <1>5, <1>6, <1>7, <1>8, <1>9, <1>10, <1>11, <1>12, <1>13,
    <1>14, <1>15, <1>16, <1>17, <1>18, <1>19, <1>20, <1>21, <1>22, <1>23, <1>24, <1>25, <1>26 DEF
    Next, Creation, Tasks, StopCall, Stopping, Destroying

-----------------------------------------------------------------------------
LEMMA HostInit == Init => HostInv
  <1> SUFFICES ASSUME Init PROVE HostInv
    OBVIOUS
  <1>1. TypeOK BY TypeInit
  <1>2. RowAhead /\ OneSingleton /\ NewParentAlone /\ NoOrphans /\ ParentStarted
    BY HostAssumption DEF Init, RowAhead, OneSingleton, NewParentAlone, NoOrphans, ParentStarted, Runtime
  <1>3. StoppingAlone /\ WaitingStops /\ DestroyingAlone /\ StopProgress /\ ClosedIsQuiet /\ Derived
    BY DEF Init, StoppingAlone, WaitingStops, DestroyingAlone, StopProgress, ClosedIsQuiet, Derived
  <1>4. QED BY <1>1, <1>2, <1>3 DEF HostInv

LEMMA HostStep == HostInv /\ [Next]_vars => HostInv'
  BY TypeStep, RowStep, SingletonStep, ParentStep, StoppingStep, DestroyingStep, OrphanStep,
    QuietStep, DerivedStep DEF HostInv

LEMMA HostInvariant == Spec => []HostInv
  BY HostInit, HostStep, PTL DEF Spec

(* A failed or cancelled creation, a destruction under the create lock and a *)
(* write that raises leave the registry, the tree and the rows consistent.  *)
THEOREM RegistryIsIntact == Spec => []RegistryIntact
  <1>1. HostInv => RegistryIntact BY DEF HostInv, RegistryIntact
  <1>2. QED BY <1>1, HostInvariant, PTL

(* What _finish_stop() leaves is quiet: nothing runs and nothing is active.  *)
THEOREM StoppedIsQuietAlways == Spec => []StoppedIsQuiet
  <1>1. HostInv => StoppedIsQuiet
    BY DEF HostInv, StoppedIsQuiet, StopProgress, ClosedIsQuiet
  <1>2. QED BY <1>1, HostInvariant, PTL

(* No child ever holds a grant that allows what its parent's refuses.       *)
THEOREM NoEscalationAlways == Spec => []NoEscalation
  <1>1. HostInv => NoEscalation
    <2> SUFFICES ASSUME HostInv, NEW c \in Child, grant[c] # None
                 PROVE  NoEscalationOf(ParentGrant, grant[c])
      BY DEF NoEscalation
    <2>1. grant[c] \in Grant /\ ParentGrant \in Grant
      BY HostAssumption DEF HostInv, TypeOK
    <2>2. Derivable(ParentGrant, grant[c])
      BY DEF HostInv, Derived
    <2>3. QED BY <2>1, <2>2, DerivedIsNarrower
  <1>2. QED BY <1>1, HostInvariant, PTL

-----------------------------------------------------------------------------
(* The tool-call loop.                                                      *)

Spoken == [role: {"assistant", "user"}, calls: Seq(Call)]

Result == {m \in [role: {"tool"}, calls: Seq(Call), err: Error \cup {"ok", "circuit"},
                  body: {"full", "receipt"}] : Len(m.calls) = 1}

Message == Spoken \cup Result

LoopTypes ==
    /\ stage \in {"round", "model", "calls", "tool", "ended"}
    /\ msgs \in Seq(Message) /\ todo \in Seq(Call)
    /\ circuit \in [ToolKey -> [fails: Nat, last: Error \cup {"ok"}]]
    /\ clock \in 0 .. Deadline /\ rounds \in 0 .. MaxRound
    /\ stage = "ended" <=> outcome # "running"
    /\ loose \subseteq 1 .. MaxCall
    /\ stage = "tool" => todo # <<>>

(* The first n calls of the assistant message at i are answered, in order. *)
AnsweredUpTo(ms, i, n) ==
    /\ i + n <= Len(ms)
    /\ \A j \in 1 .. n : IsTool(ms[i + j]) /\ ms[i + j].calls = <<ms[i].calls[j]>>

(* What follows the assistant message at i is its answers and then no other *)
(* answer.                                                                  *)
Answered(ms, i) ==
    LET n == Len(ms[i].calls) IN
    AnsweredUpTo(ms, i, n) /\ (i + n < Len(ms) => ~IsTool(ms[i + n + 1]))

(* Between two requests every assistant message is answered; while calls   *)
(* are served, all but the last one, whose answers so far are the rest of  *)
(* the conversation and whose other calls are the ones to be served.       *)
Conversation ==
    /\ stage \in {"round", "model"} =>
          \A i \in DOMAIN msgs : msgs[i].role = "assistant" => Answered(msgs, i)
    /\ stage \in {"calls", "tool"} => \E last \in DOMAIN msgs :
          LET n == Len(msgs) - last IN
          /\ msgs[last].role = "assistant"
          /\ \A i \in DOMAIN msgs : msgs[i].role = "assistant" /\ i # last =>
                i < last /\ Answered(msgs, i)
          /\ Len(msgs[last].calls) = n + Len(todo)
          /\ AnsweredUpTo(msgs, last, n)
          /\ \A j \in 1 .. Len(todo) : todo[j] = msgs[last].calls[n + j]
    /\ stage \in {"round", "model"} => todo = <<>>

(* The breaker's memory is what the conversation shows: it counts the      *)
(* failures in a row and keeps the last error, and what is being executed  *)
(* is a call it let pass.                                                  *)
Remembers ==
    /\ \A k \in ToolKey :
          /\ circuit[k].fails = Cardinality(InARow(msgs, k, Len(msgs)))
          /\ \A i \in ExecutedIn(msgs, k) :
                (\A j \in ExecutedIn(msgs, k) : j <= i) => circuit[k].last = msgs[i].err
    /\ stage = "tool" => ~CircuitOpen(Head(todo).key)

(* ns goes on from ms: the messages of ms are there, whatever became of    *)
(* the bodies of their results.                                            *)
Continues(ns, ms) ==
    /\ Len(ms) <= Len(ns)
    /\ \A i \in 1 .. Len(ms) :
          /\ ns[i].role = ms[i].role /\ ns[i].calls = ms[i].calls
          /\ IsTool(ms[i]) => ns[i].err = ms[i].err

LoopInv ==
    /\ LoopTypes
    /\ CallCount <= MaxCall
    /\ Conversation
    /\ Remembers
    /\ ReadOnce
    /\ BreakerHolds
    /\ NoTwoCommands

-----------------------------------------------------------------------------
LEMMA MessageFacts ==
    ASSUME NEW m \in Message
    PROVE  /\ m.role \in {"assistant", "user", "tool"} /\ m.calls \in Seq(Call)
           /\ IsTool(m) => m \in Result /\ Len(m.calls) = 1 /\ m.calls[1] \in Call
           /\ ~IsTool(m) => m \in Spoken
BY DEF Message, Spoken, Result, IsTool

LEMMA NewMessages ==
    /\ \A cs \in Seq(Call) : Calls(cs) \in Message /\ ~IsTool(Calls(cs))
    /\ \A who \in {"assistant", "user"} : Text(who) \in Message /\ ~IsTool(Text(who))
    /\ \A c \in Call, e \in Error \cup {"ok", "circuit"} :
          /\ ToolMsg(c, e) \in Message /\ IsTool(ToolMsg(c, e))
          /\ ToolMsg(c, e).calls = <<c>> /\ ToolMsg(c, e).err = e
          /\ ToolMsg(c, e).body = "full"
<1>1. \A c \in Call : <<c>> \in Seq(Call) /\ Len(<<c>>) = 1
  OBVIOUS
<1>2. <<>> \in Seq(Call)
  OBVIOUS
<1> QED
  BY <1>1, <1>2 DEF Message, Spoken, Result, IsTool, Calls, Text, ToolMsg

LEMMA ConsumedFacts ==
    ASSUME NEW ms \in Seq(Message)
    PROVE  /\ Consumed(ms) \in Seq(Message) /\ Len(Consumed(ms)) = Len(ms)
           /\ Continues(Consumed(ms), ms)
           /\ \A i \in 1 .. Len(ms) : IsTool(ms[i]) => Consumed(ms)[i].body = "receipt"
<1> DEFINE ns == Consumed(ms)
<1>1. /\ DOMAIN ms = 1 .. Len(ms) /\ Len(ms) \in Nat
      /\ \A i \in 1 .. Len(ms) : ms[i] \in Message
  OBVIOUS
<1>2. ASSUME NEW i \in 1 .. Len(ms)
      PROVE  /\ ns[i] \in Message /\ ns[i].role = ms[i].role /\ ns[i].calls = ms[i].calls
             /\ IsTool(ms[i]) => ns[i].err = ms[i].err /\ ns[i].body = "receipt"
  <2>1. ns[i] = IF IsTool(ms[i]) /\ ms[i].body = "full" THEN Receipt(ms[i]) ELSE ms[i]
    BY <1>1 DEF Consumed
  <2>2. CASE IsTool(ms[i])
    <3>1. ms[i] \in Result
      BY <1>1, <2>2, MessageFacts
    <3>2. ns[i] = [ms[i] EXCEPT !.body = "receipt"]
      BY <2>1, <2>2, <3>1 DEF Receipt, Result
    <3> QED
      BY <3>1, <3>2 DEF Result, Message
  <2>3. CASE ~IsTool(ms[i])
    BY <1>1, <2>1, <2>3
  <2> QED
    BY <2>2, <2>3
<1>3. ns = [i \in 1 .. Len(ms) |-> ns[i]]
  BY <1>1 DEF Consumed
<1>4. ns \in Seq(Message) /\ Len(ns) = Len(ms)
  BY <1>1, <1>2, <1>3
<1> QED
  BY <1>1, <1>2, <1>4 DEF Continues

LEMMA AppendContinues ==
    ASSUME NEW ms \in Seq(Message), NEW m \in Message
    PROVE  /\ Append(ms, m) \in Seq(Message) /\ Len(Append(ms, m)) = Len(ms) + 1
           /\ Continues(Append(ms, m), ms) /\ Append(ms, m)[Len(ms) + 1] = m
BY DEF Continues

LEMMA ContinuesTransitive ==
    ASSUME NEW ls \in Seq(Message), NEW ms \in Seq(Message), NEW ns \in Seq(Message),
           Continues(ms, ls), Continues(ns, ms)
    PROVE  Continues(ns, ls)
BY DEF Continues, IsTool

(* What was said of a conversation is still so when it goes on.            *)
LEMMA ContinuesFacts ==
    ASSUME NEW ms \in Seq(Message), NEW ns \in Seq(Message), Continues(ns, ms)
    PROVE  /\ ToolsIn(ms) = ToolsIn(ns) \cap (1 .. Len(ms))
           /\ \A k : ExecutedIn(ms, k) = ExecutedIn(ns, k) \cap (1 .. Len(ms))
           /\ \A k : \A i \in 1 .. Len(ms) : InARow(ns, k, i) = InARow(ms, k, i)
           /\ \A k : \A i \in ExecutedIn(ms, k) : ns[i].err = ms[i].err
           /\ \A i \in 1 .. Len(ms), n \in Nat : AnsweredUpTo(ms, i, n) => AnsweredUpTo(ns, i, n)
<1>1. /\ DOMAIN ms = 1 .. Len(ms) /\ Len(ms) \in Nat
      /\ DOMAIN ns = 1 .. Len(ns) /\ Len(ns) \in Nat /\ Len(ms) <= Len(ns)
      /\ \A i \in 1 .. Len(ms) : /\ i \in 1 .. Len(ns) /\ (IsTool(ns[i]) <=> IsTool(ms[i]))
                                 /\ ns[i].calls = ms[i].calls
                                 /\ IsTool(ms[i]) => ns[i].err = ms[i].err
  BY DEF Continues, IsTool
<1>2. ToolsIn(ms) = ToolsIn(ns) \cap (1 .. Len(ms))
  BY <1>1 DEF ToolsIn
<1>3. ASSUME NEW k
      PROVE  /\ ExecutedIn(ms, k) = ExecutedIn(ns, k) \cap (1 .. Len(ms))
             /\ \A i \in ExecutedIn(ms, k) : ns[i].err = ms[i].err
  BY <1>1, <1>2 DEF ExecutedIn, ToolsIn
<1>4. ASSUME NEW k, NEW i \in 1 .. Len(ms)
      PROVE  InARow(ns, k, i) = InARow(ms, k, i)
  <2>1. ExecutedIn(ns, k) \subseteq 1 .. Len(ns)
    BY <1>1 DEF ExecutedIn, ToolsIn
  <2>2. \A n \in ExecutedIn(ns, k) : n <= i => n \in ExecutedIn(ms, k) /\ ns[n].err = ms[n].err
    BY <1>1, <1>3, <2>1
  <2>3. ExecutedIn(ms, k) \subseteq ExecutedIn(ns, k)
    BY <1>3
  <2>4. \A n, m : n \in ExecutedIn(ns, k) /\ m \in n .. i => m <= i
    BY <2>1
  <2> QED
    BY <2>1, <2>2, <2>3, <2>4 DEF InARow
<1>5. ASSUME NEW i \in 1 .. Len(ms), NEW n \in Nat, AnsweredUpTo(ms, i, n)
      PROVE  AnsweredUpTo(ns, i, n)
  BY <1>1, <1>5 DEF AnsweredUpTo
<1> QED
  BY <1>2, <1>3, <1>4, <1>5

LEMMA FiniteTools ==
    ASSUME NEW ms \in Seq(Message)
    PROVE  /\ IsFiniteSet(ToolsIn(ms)) /\ Cardinality(ToolsIn(ms)) \in Nat
           /\ \A k, i : /\ IsFiniteSet(InARow(ms, k, i)) /\ Cardinality(InARow(ms, k, i)) \in Nat
                        /\ Cardinality(InARow(ms, k, i)) <= Cardinality(ToolsIn(ms))
<1>1. ToolsIn(ms) \in SUBSET (1 .. Len(ms)) /\ IsFiniteSet(1 .. Len(ms))
  BY FS_Interval DEF ToolsIn
<1>2. IsFiniteSet(ToolsIn(ms))
  BY <1>1, FS_Subset
<1>3. \A k, i : InARow(ms, k, i) \in SUBSET ToolsIn(ms)
  BY DEF InARow, ExecutedIn
<1>4. ASSUME NEW k, NEW i
      PROVE  /\ IsFiniteSet(InARow(ms, k, i))
             /\ Cardinality(InARow(ms, k, i)) <= Cardinality(ToolsIn(ms))
  BY <1>2, <1>3, FS_Subset
<1> QED
  BY <1>2, <1>4, FS_CardinalityType

LEMMA AnsweredKept ==
    ASSUME NEW ms \in Seq(Message), NEW ns \in Seq(Message), Continues(ns, ms),
           NEW i \in 1 .. Len(ms), Answered(ms, i),
           i + Len(ms[i].calls) = Len(ms) /\ Len(ns) > Len(ms) => ~IsTool(ns[Len(ms) + 1])
    PROVE  Answered(ns, i)
<1> DEFINE n == Len(ms[i].calls)
<1>1. n \in Nat /\ Len(ms) \in Nat /\ Len(ns) \in Nat /\ Len(ms) <= Len(ns)
  <2>1. ms[i] \in Message
    OBVIOUS
  <2> QED
    BY <2>1, MessageFacts DEF Continues
<1>2. ns[i].calls = ms[i].calls
  BY DEF Continues
<1>3. AnsweredUpTo(ms, i, n) /\ i + n <= Len(ms)
  BY DEF Answered, AnsweredUpTo
<1>4. AnsweredUpTo(ns, i, n)
  BY <1>1, <1>3, ContinuesFacts
<1>5. i + n < Len(ms) => ~IsTool(ns[i + n + 1])
  BY <1>1 DEF Answered, Continues, IsTool
<1> QED
  BY <1>1, <1>2, <1>3, <1>4, <1>5 DEF Answered

LEMMA ServedTodo ==
    ASSUME LoopTypes, todo # <<>>
    PROVE  /\ Head(todo) \in Call /\ Tail(todo) \in Seq(Call)
           /\ Len(todo) > 0 /\ Len(Tail(todo)) = Len(todo) - 1
           /\ Head(todo) = todo[1]
           /\ \A j \in 1 .. Len(Tail(todo)) : Tail(todo)[j] = todo[j + 1]
BY DEF LoopTypes

LEMMA CountType ==
    ASSUME LoopTypes
    PROVE  CallCount \in Nat /\ Len(todo) \in Nat /\ Cardinality(ToolsIn(msgs)) \in Nat
BY FiniteTools DEF LoopTypes, CallCount

LEMMA PickedCalls ==
    ASSUME LoopTypes, ModelCalls
    PROVE  \E cs \in Seq(Call) :
              /\ Len(cs) > 0 /\ CallCount + Len(cs) <= MaxCall
              /\ msgs' = Append(Consumed(msgs), Calls(cs)) /\ todo' = cs
<1>1. PICK ks \in BoundedSeq(ToolKey, MaxCall) :
         /\ ks # <<>> /\ CallCount + Len(ks) <= MaxCall
         /\ LET cs == [i \in DOMAIN ks |-> [id |-> CallCount + i, key |-> ks[i]]]
            IN  msgs' = Append(Consumed(msgs), Calls(cs)) /\ todo' = cs
  BY DEF ModelCalls
<1> DEFINE cs == [i \in DOMAIN ks |-> [id |-> CallCount + i, key |-> ks[i]]]
<1>2. ks \in Seq(ToolKey)
  <2>1. \E m \in 0 .. MaxCall : ks \in [1 .. m -> ToolKey]
    BY <1>1 DEF BoundedSeq, SeqOf
  <2> QED
    BY <2>1, LimitAssumption
<1>3. DOMAIN ks = 1 .. Len(ks) /\ Len(ks) \in Nat /\ Len(ks) > 0
  BY <1>1, <1>2
<1>4. \A i \in 1 .. Len(ks) : CallCount + i \in 1 .. MaxCall /\ ks[i] \in ToolKey
  BY <1>1, <1>2, <1>3, CountType, LimitAssumption
<1>5. cs \in [1 .. Len(ks) -> Call]
  BY <1>3, <1>4 DEF Call
<1>6. cs \in Seq(Call) /\ Len(cs) = Len(ks)
  BY <1>3, <1>5
<1> QED
  BY <1>1, <1>3, <1>6

(* What a step does to the conversation: nothing, an answer to the next    *)
(* call, or what the model said after the results it has read.             *)
LEMMA MessagesStep ==
    ASSUME LoopTypes, LoopNext
    PROVE  \/ msgs' = msgs
           \/ /\ stage \in {"calls", "tool"} /\ todo # <<>> /\ todo' = Tail(todo)
              /\ stage' = "calls" /\ outcome' = outcome
              /\ \E e \in Error \cup {"ok", "circuit"} :
                    msgs' = Append(msgs, ToolMsg(Head(todo), e))
           \/ /\ stage = "model" /\ stage' = "calls" /\ outcome' = outcome
              /\ \E cs \in Seq(Call) :
                    /\ Len(cs) > 0 /\ CallCount + Len(cs) <= MaxCall
                    /\ msgs' = Append(Consumed(msgs), Calls(cs)) /\ todo' = cs
           \/ /\ stage = "model" /\ stage' = "round" /\ todo' = todo /\ outcome' = outcome
              /\ msgs' = Append(Append(Consumed(msgs), Text("assistant")), Text("user"))
           \/ /\ stage = "model" /\ stage' = "ended" /\ todo' = <<>>
              /\ outcome' \in {"proposal", "proposal_refused"}
              /\ msgs' = Consumed(msgs)
<1>1. CASE ModelCalls
  BY <1>1, PickedCalls DEF ModelCalls
<1>2. CASE ModelUnusable
  <2>1. Consumed(msgs) \in Seq(Message)
    BY ConsumedFacts DEF LoopTypes
  <2>2. Text("assistant") \in Message /\ Text("user") \in Message
    BY NewMessages
  <2>3. Consumed(msgs) \o <<Text("assistant"), Text("user")>>
        = Append(Append(Consumed(msgs), Text("assistant")), Text("user"))
    BY <2>1, <2>2
  <2> QED
    BY <1>2, <2>3 DEF ModelUnusable
<1>3. CASE ModelProposes
  BY <1>3 DEF ModelProposes, End
<1>4. CASE NextCall
  BY <1>4 DEF NextCall, Serve
<1>5. CASE ToolEnds
  <2>1. todo # <<>> /\ Head(todo).key \in ToolKey
    BY <1>5, ServedTodo DEF ToolEnds, LoopTypes, Call
  <2>2. \A k \in ToolKey : ResultOf(k) \subseteq Error \cup {"ok"}
    BY DEF ResultOf, Error, ToolKey
  <2> QED
    BY <1>5, <2>1, <2>2 DEF ToolEnds
<1> QED
  BY <1>1, <1>2, <1>3, <1>4, <1>5
     DEF LoopNext, BeginRound, ModelFails, CallsServed, WallDeadline, Cancel, ThreadEnds, Tick

LEMMA MessagesContinue ==
    ASSUME LoopTypes, LoopNext
    PROVE  msgs' \in Seq(Message) /\ Continues(msgs', msgs)
<1>1. CASE msgs' = msgs
  BY <1>1 DEF LoopTypes, Continues
<1>2. Consumed(msgs) \in Seq(Message) /\ Continues(Consumed(msgs), msgs)
  BY ConsumedFacts DEF LoopTypes
<1>3. ASSUME NEW ms \in Seq(Message), Continues(ms, msgs), NEW m \in Message,
             msgs' = Append(ms, m)
      PROVE  msgs' \in Seq(Message) /\ Continues(msgs', msgs)
  BY <1>3, AppendContinues, ContinuesTransitive DEF LoopTypes
<1>4. CASE /\ todo # <<>>
           /\ \E e \in Error \cup {"ok", "circuit"} : msgs' = Append(msgs, ToolMsg(Head(todo), e))
  <2>1. msgs \in Seq(Message) /\ Continues(msgs, msgs) /\ Head(todo) \in Call
    BY <1>4, ServedTodo DEF LoopTypes, Continues
  <2> QED
    BY <1>3, <1>4, <2>1, NewMessages
<1>5. CASE \E cs \in Seq(Call) : msgs' = Append(Consumed(msgs), Calls(cs))
  BY <1>2, <1>3, <1>5, NewMessages
<1>6. CASE msgs' = Append(Append(Consumed(msgs), Text("assistant")), Text("user"))
  <2>1. Text("assistant") \in Message /\ Text("user") \in Message
    BY NewMessages
  <2>2. /\ Append(Consumed(msgs), Text("assistant")) \in Seq(Message)
        /\ Continues(Append(Consumed(msgs), Text("assistant")), msgs)
    BY <1>2, <2>1, AppendContinues, ContinuesTransitive DEF LoopTypes
  <2> QED
    BY <1>3, <1>6, <2>1, <2>2
<1> QED
  BY <1>1, <1>2, <1>4, <1>5, <1>6, MessagesStep

LEMMA LoopTypesStep ==
    ASSUME LoopTypes, LoopNext
    PROVE  LoopTypes'
<1>1. msgs' \in Seq(Message)
  BY MessagesContinue
<1>2. todo' \in Seq(Call)
  <2>1. todo \in Seq(Call) /\ <<>> \in Seq(Call) /\ (todo # <<>> => Tail(todo) \in Seq(Call))
    BY ServedTodo DEF LoopTypes
  <2>2. CASE ModelCalls
    BY <2>2, PickedCalls
  <2>3. ~ModelCalls => todo' \in {todo, <<>>} \/ (todo # <<>> /\ todo' = Tail(todo))
    BY DEF LoopNext, LoopTypes, End, BeginRound, ModelUnusable, ModelProposes, NextCall, ToolEnds,
       ModelFails, CallsServed, WallDeadline, Cancel, ThreadEnds, Tick
  <2> QED
    BY <2>1, <2>2, <2>3
<1>3. circuit' \in [ToolKey -> [fails: Nat, last: Error \cup {"ok"}]]
  <2>1. CASE ToolEnds
    <3>1. todo # <<>> /\ Head(todo).key \in ToolKey
      BY <2>1, ServedTodo DEF ToolEnds, LoopTypes, Call
    <3>2. PICK e \in ResultOf(Head(todo).key) : circuit' = Recorded(Head(todo).key, e)
      BY <2>1 DEF ToolEnds
    <3>3. e \in Error \cup {"ok"}
      BY <3>1 DEF ResultOf, Error, ToolKey
    <3>4. circuit[Head(todo).key] \in [fails: Nat, last: Error \cup {"ok"}]
      BY <3>1 DEF LoopTypes
    <3>5. circuit' = [circuit EXCEPT ![Head(todo).key] =
                        IF e = "ok" THEN [fails |-> 0, last |-> "ok"]
                        ELSE [fails |-> circuit[Head(todo).key].fails + 1, last |-> e]]
      BY <3>2 DEF Recorded, NoFailure
    <3>6. (IF e = "ok" THEN [fails |-> 0, last |-> "ok"]
           ELSE [fails |-> circuit[Head(todo).key].fails + 1, last |-> e])
          \in [fails: Nat, last: Error \cup {"ok"}]
      BY <3>3, <3>4
    <3> HIDE DEF Error
    <3> QED
      BY <3>1, <3>5, <3>6 DEF LoopTypes
  <2> QED
    BY <2>1 DEF LoopNext, LoopTypes, BeginRound, ModelCalls, ModelUnusable, ModelProposes,
       ModelFails, NextCall, CallsServed, WallDeadline, Cancel, ThreadEnds, Tick
<1>4. clock' \in 0 .. Deadline /\ rounds' \in 0 .. MaxRound
  BY LimitAssumption
     DEF LoopNext, LoopTypes, BeginRound, ModelCalls, ModelUnusable, ModelProposes,
         ModelFails, NextCall, ToolEnds, CallsServed, WallDeadline, Cancel, ThreadEnds, Tick
<1>5. /\ stage' \in {"round", "model", "calls", "tool", "ended"}
      /\ stage' = "ended" <=> outcome' # "running"
      /\ stage' = "tool" => todo' # <<>>
  BY DEF LoopNext, LoopTypes, End, BeginRound, ModelCalls, ModelUnusable, ModelProposes,
         ModelFails, NextCall, ToolEnds, CallsServed, WallDeadline, Cancel, ThreadEnds, Tick
<1>6. loose' \subseteq 1 .. MaxCall
  <2>1. stage = "tool" => Head(todo).id \in 1 .. MaxCall
    BY ServedTodo DEF LoopTypes, Call
  <2> QED
    BY <2>1 DEF LoopNext, LoopTypes, Abandoned, BeginRound, ModelCalls, ModelUnusable,
       ModelProposes, ModelFails, NextCall, ToolEnds, CallsServed, WallDeadline, Cancel,
       ThreadEnds, Tick
<1> QED
  BY <1>1, <1>2, <1>3, <1>4, <1>5, <1>6 DEF LoopTypes

(* The tools of a conversation that went on by one message.                *)
LEMMA ToolsOfAppend ==
    ASSUME NEW ms \in Seq(Message), NEW m \in Message, NEW k
    PROVE  LET ns == Append(ms, m)
               i == Len(ms) + 1
           IN  /\ ToolsIn(ns) = IF IsTool(m) THEN ToolsIn(ms) \cup {i} ELSE ToolsIn(ms)
               /\ ExecutedIn(ns, k) = IF IsTool(m) /\ m.calls[1].key = k /\ m.err # "circuit"
                                      THEN ExecutedIn(ms, k) \cup {i} ELSE ExecutedIn(ms, k)
<1> DEFINE ns == Append(ms, m)
<1>1. /\ ns \in Seq(Message) /\ DOMAIN ns = 1 .. Len(ms) + 1 /\ ns[Len(ms) + 1] = m
      /\ DOMAIN ms = 1 .. Len(ms) /\ Len(ms) \in Nat
      /\ \A i \in 1 .. Len(ms) : ns[i] = ms[i]
  OBVIOUS
<1>2. ToolsIn(ns) = IF IsTool(m) THEN ToolsIn(ms) \cup {Len(ms) + 1} ELSE ToolsIn(ms)
  BY <1>1 DEF ToolsIn
<1>3. \A i \in ToolsIn(ms) : ns[i] = ms[i]
  BY <1>1 DEF ToolsIn
<1> HIDE DEF ns
<1>4. ExecutedIn(ns, k) = IF IsTool(m) /\ m.calls[1].key = k /\ m.err # "circuit"
                          THEN ExecutedIn(ms, k) \cup {Len(ms) + 1} ELSE ExecutedIn(ms, k)
  BY <1>1, <1>2, <1>3 DEF ExecutedIn
<1> QED
  BY <1>2, <1>4 DEF ns

LEMMA SameLengthFacts ==
    ASSUME NEW ms \in Seq(Message), NEW ns \in Seq(Message), Continues(ns, ms), Len(ns) = Len(ms)
    PROVE  /\ ToolsIn(ns) = ToolsIn(ms)
           /\ \A k : ExecutedIn(ns, k) = ExecutedIn(ms, k)
<1>1. ToolsIn(ns) \subseteq 1 .. Len(ms)
  BY DEF ToolsIn
<1>2. \A k : ExecutedIn(ns, k) \subseteq ToolsIn(ns)
  BY DEF ExecutedIn
<1>3. /\ ToolsIn(ms) = ToolsIn(ns) \cap (1 .. Len(ms))
      /\ \A k : ExecutedIn(ms, k) = ExecutedIn(ns, k) \cap (1 .. Len(ms))
  BY ContinuesFacts
<1> QED
  BY <1>1, <1>2, <1>3

LEMMA CountStep ==
    ASSUME LoopTypes, CallCount <= MaxCall, LoopNext
    PROVE  (CallCount <= MaxCall)'
<1> DEFINE C(ms) == Cardinality(ToolsIn(ms))
<1>1. msgs \in Seq(Message) /\ Consumed(msgs) \in Seq(Message) /\ Len(todo) \in Nat
  BY ConsumedFacts DEF LoopTypes
<1>2. C(Consumed(msgs)) = C(msgs) /\ C(msgs) \in Nat
  <2>1. ToolsIn(Consumed(msgs)) = ToolsIn(msgs)
    BY <1>1, ConsumedFacts, SameLengthFacts
  <2> QED
    BY <1>1, <2>1, FiniteTools
<1>3. ASSUME NEW ms \in Seq(Message), NEW m \in Message
      PROVE  C(Append(ms, m)) = IF IsTool(m) THEN C(ms) + 1 ELSE C(ms)
  <2>1. ToolsIn(Append(ms, m)) = IF IsTool(m) THEN ToolsIn(ms) \cup {Len(ms) + 1} ELSE ToolsIn(ms)
    BY ToolsOfAppend
  <2>2. Len(ms) + 1 \notin ToolsIn(ms) /\ IsFiniteSet(ToolsIn(ms))
    BY FiniteTools DEF ToolsIn
  <2> QED
    BY <2>1, <2>2, FS_AddElement
<1>4. CASE msgs' = msgs
  <2>1. CASE ModelCalls
    <3>1. PICK cs \in Seq(Call) : /\ Len(cs) > 0 /\ CallCount + Len(cs) <= MaxCall
                                  /\ msgs' = Append(Consumed(msgs), Calls(cs)) /\ todo' = cs
      BY <2>1, PickedCalls
    <3>2. Len(msgs') = Len(msgs) + 1
      BY <1>1, <3>1, NewMessages, ConsumedFacts, AppendContinues
    <3> QED
      BY <1>1, <1>4, <3>2
  <2>2. CASE ToolEnds
    <3>1. todo # <<>> /\ todo' = Tail(todo)
      BY <2>2 DEF ToolEnds, LoopTypes
    <3> QED
      BY <1>1, <1>2, <1>4, <3>1, ServedTodo, LimitAssumption DEF CallCount
  <2>3. ~ModelCalls /\ ~ToolEnds => todo' \in {todo, <<>>} \/ (todo # <<>> /\ todo' = Tail(todo))
    BY DEF LoopNext, LoopTypes, End, BeginRound, ModelUnusable, ModelProposes, NextCall,
       ModelFails, CallsServed, WallDeadline, Cancel, ThreadEnds, Tick
  <2>4. todo' = <<>> => Len(todo') = 0
    OBVIOUS
  <2> QED
    BY <1>1, <1>2, <1>4, <2>1, <2>2, <2>3, <2>4, ServedTodo, LimitAssumption DEF CallCount
<1>5. CASE /\ todo # <<>> /\ todo' = Tail(todo)
           /\ \E e \in Error \cup {"ok", "circuit"} : msgs' = Append(msgs, ToolMsg(Head(todo), e))
  <2>1. PICK e \in Error \cup {"ok", "circuit"} : msgs' = Append(msgs, ToolMsg(Head(todo), e))
    BY <1>5
  <2>2. ToolMsg(Head(todo), e) \in Message /\ IsTool(ToolMsg(Head(todo), e))
    BY <1>5, ServedTodo, NewMessages
  <2>3. C(msgs') = C(msgs) + 1
    BY <1>1, <1>3, <2>1, <2>2
  <2> QED
    BY <1>1, <1>2, <1>5, <2>3, ServedTodo, LimitAssumption DEF CallCount
<1>6. CASE /\ stage = "model"
           /\ \E cs \in Seq(Call) : /\ CallCount + Len(cs) <= MaxCall
                                    /\ msgs' = Append(Consumed(msgs), Calls(cs)) /\ todo' = cs
  <2>1. PICK cs \in Seq(Call) : /\ CallCount + Len(cs) <= MaxCall
                                /\ msgs' = Append(Consumed(msgs), Calls(cs)) /\ todo' = cs
    BY <1>6
  <2>2. C(msgs') = C(msgs) /\ Len(cs) \in Nat
    BY <1>1, <1>2, <1>3, <2>1, NewMessages
  <2> QED
    BY <1>1, <1>2, <2>1, <2>2, LimitAssumption DEF CallCount
<1>7. CASE /\ todo' = todo
           /\ msgs' = Append(Append(Consumed(msgs), Text("assistant")), Text("user"))
  <2>1. /\ Append(Consumed(msgs), Text("assistant")) \in Seq(Message)
        /\ C(Append(Consumed(msgs), Text("assistant"))) = C(msgs)
    BY <1>1, <1>2, <1>3, NewMessages
  <2>2. C(msgs') = C(msgs)
    BY <1>3, <1>7, <2>1, NewMessages
  <2> QED
    BY <1>7, <2>2 DEF CallCount
<1>8. CASE todo' = <<>> /\ msgs' = Consumed(msgs)
  <2>1. Len(todo') = 0
    BY <1>8
  <2> QED
    BY <1>1, <1>2, <1>8, <2>1, LimitAssumption DEF CallCount
<1> QED
  BY <1>4, <1>5, <1>6, <1>7, <1>8, MessagesStep

LEMMA ReadOnceStep ==
    ASSUME LoopTypes, ReadOnce, LoopNext
    PROVE  ReadOnce'
<1>1. /\ msgs \in Seq(Message) /\ Consumed(msgs) \in Seq(Message)
      /\ DOMAIN msgs = 1 .. Len(msgs) /\ Len(msgs) \in Nat
      /\ Len(Consumed(msgs)) = Len(msgs) /\ DOMAIN Consumed(msgs) = 1 .. Len(msgs)
      /\ \A i \in 1 .. Len(msgs) :
            /\ IsTool(Consumed(msgs)[i]) => Consumed(msgs)[i].body = "receipt"
            /\ Consumed(msgs)[i].role = msgs[i].role
  <2>1. /\ Consumed(msgs) \in Seq(Message) /\ Len(Consumed(msgs)) = Len(msgs)
        /\ Continues(Consumed(msgs), msgs)
        /\ \A i \in 1 .. Len(msgs) : IsTool(msgs[i]) => Consumed(msgs)[i].body = "receipt"
    BY ConsumedFacts DEF LoopTypes
  <2>2. \A i \in 1 .. Len(msgs) : Consumed(msgs)[i].role = msgs[i].role
    BY <2>1 DEF Continues
  <2> QED
    BY <2>1, <2>2 DEF LoopTypes, IsTool
<1>2. CASE msgs' = msgs
  <2>1. ~ModelProposes => (outcome' \in {"proposal", "proposal_refused"}
                              <=> outcome \in {"proposal", "proposal_refused"})
    <3>1. stage = "ended" <=> outcome # "running"
      BY DEF LoopTypes
    <3>2. ~ModelProposes =>
             \/ outcome' = outcome
             \/ /\ stage # "ended"
                /\ outcome' \in {"tool_budget_exhausted", "invalid_tool_arguments",
                                 "request_failed", "cancelled"}
      BY DEF LoopNext, End, BeginRound, ModelCalls, ModelUnusable, NextCall, ToolEnds,
         ModelFails, CallsServed, WallDeadline, Cancel, ThreadEnds, Tick, Unanswered
    <3> QED
      BY <3>1, <3>2
  <2>2. CASE ModelProposes
    <3>1. msgs = Consumed(msgs) /\ outcome' \in {"proposal", "proposal_refused"}
      BY <1>2, <2>2 DEF ModelProposes, End
    <3>2. \A i \in DOMAIN msgs : IsTool(msgs[i]) => msgs[i].body = "receipt"
      BY <1>1, <3>1
    <3> QED
      BY <1>2, <3>1, <3>2 DEF ReadOnce
  <2> QED
    BY <1>2, <2>1, <2>2 DEF ReadOnce, LastAssistant
<1>3. CASE /\ stage \in {"calls", "tool"} /\ todo # <<>> /\ outcome' = outcome
           /\ \E e \in Error \cup {"ok", "circuit"} : msgs' = Append(msgs, ToolMsg(Head(todo), e))
  <2>1. PICK e \in Error \cup {"ok", "circuit"} : msgs' = Append(msgs, ToolMsg(Head(todo), e))
    BY <1>3
  <2> DEFINE m == ToolMsg(Head(todo), e)
  <2>2. m \in Message /\ m.body = "full" /\ m.role = "tool"
    BY <1>3, ServedTodo, NewMessages DEF IsTool
  <2>3. /\ DOMAIN msgs' = 1 .. Len(msgs) + 1 /\ msgs'[Len(msgs) + 1] = m
        /\ \A i \in 1 .. Len(msgs) : msgs'[i] = msgs[i]
    BY <1>1, <2>1, <2>2
  <2>4. LastAssistant' = LastAssistant
    BY <1>1, <2>2, <2>3 DEF LastAssistant
  <2>5. outcome = "running"
    BY <1>3 DEF LoopTypes
  <2> HIDE DEF m
  <2>6. ASSUME NEW i \in 1 .. Len(msgs), IsTool(msgs'[i])
        PROVE  /\ msgs'[i].body # "bare"
               /\ msgs'[i].body = "receipt" <=> \/ \E j \in LastAssistant' : j > i
                                                \/ outcome' \in {"proposal", "proposal_refused"}
    BY <1>1, <1>3, <2>3, <2>4, <2>6 DEF ReadOnce, IsTool
  <2>7. /\ msgs'[Len(msgs) + 1].body # "bare"
        /\ msgs'[Len(msgs) + 1].body = "receipt"
              <=> \/ \E j \in LastAssistant' : j > Len(msgs) + 1
                  \/ outcome' \in {"proposal", "proposal_refused"}
    <3>1. ~\E j \in LastAssistant : j > Len(msgs) + 1
      BY <1>1 DEF LastAssistant
    <3> QED
      BY <1>3, <2>2, <2>3, <2>4, <2>5, <3>1
  <2> QED
    BY <2>3, <2>6, <2>7 DEF ReadOnce
<1>4. ASSUME NEW ms \in Seq(Message), Len(ms) > Len(msgs),
             \A i \in 1 .. Len(msgs) : ms[i] = Consumed(msgs)[i],
             ms[Len(msgs) + 1].role = "assistant",
             \A i \in Len(msgs) + 1 .. Len(ms) : ~IsTool(ms[i]),
             msgs' = ms, outcome' \notin {"proposal", "proposal_refused"}
      PROVE  ReadOnce'
  <2>1. DOMAIN msgs' = 1 .. Len(ms) /\ Len(ms) \in Nat
    BY <1>4
  <2>2. Len(msgs) + 1 \in LastAssistant'
    BY <1>1, <1>4, <2>1 DEF LastAssistant
  <2>3. ASSUME NEW i \in DOMAIN msgs', IsTool(msgs'[i])
        PROVE  msgs'[i].body = "receipt" /\ Len(msgs) + 1 > i
    BY <1>1, <1>4, <2>1, <2>3
  <2> QED
    BY <2>2, <2>3 DEF ReadOnce, IsTool
<1>5. CASE /\ stage = "model" /\ outcome' = outcome
           /\ \E cs \in Seq(Call) : msgs' = Append(Consumed(msgs), Calls(cs))
  <2>1. PICK cs \in Seq(Call) : msgs' = Append(Consumed(msgs), Calls(cs))
    BY <1>5
  <2>2. Calls(cs) \in Message /\ Calls(cs).role = "assistant"
    BY NewMessages DEF Calls
  <2>3. outcome = "running"
    BY <1>5 DEF LoopTypes
  <2> DEFINE ms == Append(Consumed(msgs), Calls(cs))
  <2>4. /\ ms \in Seq(Message) /\ Len(ms) = Len(msgs) + 1
        /\ \A i \in 1 .. Len(msgs) : ms[i] = Consumed(msgs)[i]
        /\ ms[Len(msgs) + 1] = Calls(cs)
    BY <1>1, <2>2
  <2>5. \A i \in Len(msgs) + 1 .. Len(ms) : ~IsTool(ms[i])
    BY <1>1, <2>2, <2>4 DEF IsTool
  <2>6. msgs' = ms /\ outcome' \notin {"proposal", "proposal_refused"}
    BY <1>5, <2>1, <2>2, <2>3
  <2>7. Len(ms) > Len(msgs) /\ ms[Len(msgs) + 1].role = "assistant"
    BY <1>1, <2>1, <2>2, <2>3, <2>4
  <2> HIDE DEF ms
  <2> QED
    BY <1>4, <2>1, <2>2, <2>3, <2>4, <2>5, <2>6, <2>7
<1>6. CASE /\ stage = "model" /\ outcome' = outcome
           /\ msgs' = Append(Append(Consumed(msgs), Text("assistant")), Text("user"))
  <2>1. /\ Text("assistant") \in Message /\ Text("assistant").role = "assistant"
        /\ Text("user") \in Message /\ Text("user").role = "user"
    BY NewMessages DEF Text
  <2>2. outcome = "running"
    BY <1>6 DEF LoopTypes
  <2> DEFINE ms == Append(Append(Consumed(msgs), Text("assistant")), Text("user"))
  <2>3. /\ ms \in Seq(Message) /\ Len(ms) = Len(msgs) + 2
        /\ \A i \in 1 .. Len(msgs) : ms[i] = Consumed(msgs)[i]
        /\ ms[Len(msgs) + 1] = Text("assistant") /\ ms[Len(msgs) + 2] = Text("user")
    BY <1>1, <2>1
  <2>4. \A i \in Len(msgs) + 1 .. Len(ms) : ~IsTool(ms[i])
    BY <1>1, <2>1, <2>3 DEF IsTool
  <2>6. msgs' = ms /\ outcome' \notin {"proposal", "proposal_refused"}
    BY <1>6, <2>1, <2>2
  <2>7. Len(ms) > Len(msgs) /\ ms[Len(msgs) + 1].role = "assistant"
    BY <1>1, <2>1, <2>2, <2>3, <2>4
  <2> HIDE DEF ms
  <2> QED
    BY <1>4, <2>1, <2>2, <2>3, <2>4, <2>6, <2>7
<1>7. CASE outcome' \in {"proposal", "proposal_refused"} /\ msgs' = Consumed(msgs)
  BY <1>1, <1>7 DEF ReadOnce
<1> QED
  BY <1>2, <1>3, <1>5, <1>6, <1>7, MessagesStep

LEMMA NoTwoCommandsStep ==
    ASSUME LoopTypes, NoTwoCommands, LoopNext
    PROVE  NoTwoCommands'
BY DEF NoTwoCommands, LoopNext, LoopTypes, End, Abandoned, BeginRound, ModelCalls, ModelUnusable,
   ModelProposes, NextCall, ToolEnds, ModelFails, CallsServed, WallDeadline, Cancel, ThreadEnds, Tick

(* The answer to the next call goes on with the answers to the last        *)
(* assistant message.                                                      *)
LEMMA AnswerNext ==
    ASSUME LoopTypes, Conversation, stage \in {"calls", "tool"}, todo # <<>>,
           stage' = "calls", todo' = Tail(todo),
           NEW e \in Error \cup {"ok", "circuit"}, msgs' = Append(msgs, ToolMsg(Head(todo), e))
    PROVE  Conversation'
<1> DEFINE m == ToolMsg(Head(todo), e)
<1>1. m \in Message /\ IsTool(m) /\ m.calls = <<todo[1]>>
  BY ServedTodo, NewMessages
<1>2. /\ msgs \in Seq(Message) /\ Len(msgs) \in Nat /\ DOMAIN msgs = 1 .. Len(msgs)
      /\ msgs' \in Seq(Message) /\ Len(msgs') = Len(msgs) + 1 /\ Continues(msgs', msgs)
      /\ DOMAIN msgs' = 1 .. Len(msgs) + 1
      /\ msgs'[Len(msgs) + 1] = m
  BY <1>1, AppendContinues DEF LoopTypes
<1>3. PICK last \in DOMAIN msgs :
         LET n == Len(msgs) - last IN
         /\ msgs[last].role = "assistant"
         /\ \A i \in DOMAIN msgs : msgs[i].role = "assistant" /\ i # last =>
               i < last /\ Answered(msgs, i)
         /\ Len(msgs[last].calls) = n + Len(todo)
         /\ AnsweredUpTo(msgs, last, n)
         /\ \A j \in 1 .. Len(todo) : todo[j] = msgs[last].calls[n + j]
  BY DEF Conversation
<1> DEFINE n == Len(msgs) - last
<1>4. last \in 1 .. Len(msgs) /\ n \in Nat /\ last + n = Len(msgs)
  BY <1>2, <1>3
<1>5. msgs'[last].role = "assistant" /\ msgs'[last].calls = msgs[last].calls
  BY <1>2, <1>3, <1>4 DEF Continues
<1>6. ASSUME NEW i \in DOMAIN msgs', msgs'[i].role = "assistant", i # last
      PROVE  i < last /\ Answered(msgs', i)
  <2>1. i \in 1 .. Len(msgs) /\ msgs[i].role = "assistant"
    BY <1>1, <1>2, <1>6 DEF Continues, IsTool
  <2>2. i < last /\ Answered(msgs, i)
    BY <1>2, <1>3, <1>6, <2>1
  <2>3. msgs[i] \in Message /\ Len(msgs[i].calls) \in Nat
    BY <1>2, <2>1, MessageFacts
  <2>4. i + Len(msgs[i].calls) < last
    <3>1. \A j \in 1 .. Len(msgs[i].calls) : IsTool(msgs[i + j])
      BY <2>2 DEF Answered, AnsweredUpTo
    <3>2. ~IsTool(msgs[last])
      BY <1>3 DEF IsTool
    <3>3. ASSUME i + Len(msgs[i].calls) >= last
          PROVE  FALSE
      <4>1. last - i \in 1 .. Len(msgs[i].calls) /\ i + (last - i) = last
        BY <1>2, <1>4, <2>1, <2>2, <2>3, <3>3
      <4> QED
        BY <3>1, <3>2, <4>1
    <3> QED
      BY <1>4, <2>1, <2>3, <3>3
  <2>5. Answered(msgs', i)
    <3>1. i + Len(msgs[i].calls) # Len(msgs)
      BY <1>4, <2>1, <2>3, <2>4
    <3> QED
      BY <1>2, <2>1, <2>2, <3>1, AnsweredKept
  <2> QED
    BY <2>2, <2>5
<1>7. Len(msgs'[last].calls) = (n + 1) + Len(todo')
  <2>1. Len(todo) \in Nat /\ Len(todo') = Len(todo) - 1
    <3>1. todo \in Seq(Call)
      BY DEF LoopTypes
    <3> QED
      BY <3>1, ServedTodo
  <2> QED
    BY <1>3, <1>4, <1>5, <2>1
<1>8. AnsweredUpTo(msgs', last, n + 1)
  <2>1. AnsweredUpTo(msgs', last, n)
    BY <1>2, <1>3, <1>4, ContinuesFacts
  <2>2. msgs[last].calls[n + 1] = todo[1]
    <3>1. 1 \in 1 .. Len(todo)
      BY ServedTodo DEF LoopTypes
    <3> QED
      BY <1>3, <3>1
  <2>3. /\ IsTool(msgs'[last + (n + 1)])
        /\ msgs'[last + (n + 1)].calls = <<msgs'[last].calls[n + 1]>>
    BY <1>1, <1>2, <1>4, <1>5, <2>2
  <2>4. ASSUME NEW j \in 1 .. n + 1
        PROVE  IsTool(msgs'[last + j]) /\ msgs'[last + j].calls = <<msgs'[last].calls[j]>>
    <3>1. CASE j \in 1 .. n
      BY <2>1, <3>1 DEF AnsweredUpTo
    <3>2. CASE j = n + 1
      BY <2>3, <3>2
    <3> QED
      BY <1>2, <1>4, <3>1, <3>2
  <2>5. last + (n + 1) <= Len(msgs')
    BY <1>2, <1>4
  <2> QED
    BY <2>4, <2>5 DEF AnsweredUpTo
<1>9. \A j \in 1 .. Len(todo') : todo'[j] = msgs'[last].calls[(n + 1) + j]
  <2> TAKE j \in 1 .. Len(todo')
  <2>1. /\ j \in Int /\ j + 1 \in 1 .. Len(todo) /\ todo'[j] = todo[j + 1]
    BY ServedTodo DEF LoopTypes
  <2>2. todo[j + 1] = msgs[last].calls[n + (j + 1)]
    BY <1>3, <2>1
  <2>3. n + (j + 1) = (n + 1) + j
    BY <1>4, <2>1
  <2> QED
    BY <1>5, <2>1, <2>2, <2>3
<1>10. Len(msgs') - last = n + 1 /\ last \in DOMAIN msgs'
  BY <1>2, <1>4
<1>11. /\ msgs'[last].role = "assistant"
       /\ \A i \in DOMAIN msgs' : msgs'[i].role = "assistant" /\ i # last =>
             i < last /\ Answered(msgs', i)
       /\ Len(msgs'[last].calls) = (Len(msgs') - last) + Len(todo')
       /\ AnsweredUpTo(msgs', last, Len(msgs') - last)
       /\ \A j \in 1 .. Len(todo') : todo'[j] = msgs'[last].calls[(Len(msgs') - last) + j]
  BY <1>3, <1>5, <1>6, <1>7, <1>8, <1>9, <1>10
<1> QED
  BY <1>10, <1>11 DEF Conversation

(* What the model says next follows a conversation in which all is         *)
(* answered, and is no answer itself.                                      *)
LEMMA ModelSpeaks ==
    ASSUME LoopTypes, Conversation, stage = "model",
           NEW ns \in Seq(Message), Continues(ns, msgs), Len(ns) > Len(msgs),
           ~IsTool(ns[Len(msgs) + 1])
    PROVE  \A i \in 1 .. Len(msgs) : ns[i].role = "assistant" => Answered(ns, i)
<1> TAKE i \in 1 .. Len(msgs)
<1> HAVE ns[i].role = "assistant"
<1>1. msgs \in Seq(Message) /\ DOMAIN msgs = 1 .. Len(msgs)
  BY DEF LoopTypes
<1>2. msgs[i].role = "assistant"
  BY DEF Continues
<1>3. Answered(msgs, i)
  BY <1>1, <1>2 DEF Conversation
<1> QED
  BY <1>1, <1>3, AnsweredKept

LEMMA ConversationStep ==
    ASSUME LoopTypes, Conversation, LoopNext
    PROVE  Conversation'
<1>1. /\ msgs \in Seq(Message) /\ Len(msgs) \in Nat /\ DOMAIN msgs = 1 .. Len(msgs)
      /\ Consumed(msgs) \in Seq(Message) /\ Len(Consumed(msgs)) = Len(msgs)
      /\ Continues(Consumed(msgs), msgs)
  BY ConsumedFacts DEF LoopTypes
<1>2. CASE ModelCalls
  <2>1. PICK cs \in Seq(Call) : /\ Len(cs) > 0
                                /\ msgs' = Append(Consumed(msgs), Calls(cs)) /\ todo' = cs
    BY <1>2, PickedCalls
  <2>2. /\ Calls(cs) \in Message /\ ~IsTool(Calls(cs))
        /\ Calls(cs).role = "assistant" /\ Calls(cs).calls = cs
    BY NewMessages DEF Calls
  <2>3. /\ msgs' \in Seq(Message) /\ Len(msgs') = Len(msgs) + 1
        /\ msgs'[Len(msgs) + 1] = Calls(cs) /\ Continues(msgs', msgs)
        /\ DOMAIN msgs' = 1 .. Len(msgs) + 1
    <3>1. /\ msgs' \in Seq(Message) /\ Len(msgs') = Len(Consumed(msgs)) + 1
          /\ Continues(msgs', Consumed(msgs)) /\ msgs'[Len(Consumed(msgs)) + 1] = Calls(cs)
      BY <1>1, <2>1, <2>2, AppendContinues
    <3>2. Continues(msgs', msgs)
      BY <1>1, <3>1, ContinuesTransitive
    <3> QED
      BY <1>1, <3>1, <3>2
  <2>4. stage' = "calls" /\ stage = "model"
    BY <1>2 DEF ModelCalls
  <2>5. \A i \in DOMAIN msgs' : msgs'[i].role = "assistant" /\ i # Len(msgs) + 1 =>
               i < Len(msgs) + 1 /\ Answered(msgs', i)
    <3>1. Len(msgs') > Len(msgs) /\ ~IsTool(msgs'[Len(msgs) + 1])
      BY <1>1, <2>2, <2>3
    <3>2. \A i \in 1 .. Len(msgs) : msgs'[i].role = "assistant" => Answered(msgs', i)
      BY <2>3, <2>4, <3>1, ModelSpeaks
    <3>3. \A i \in DOMAIN msgs' : i # Len(msgs) + 1 => i \in 1 .. Len(msgs) /\ i < Len(msgs) + 1
      BY <1>1, <2>3
    <3> QED
      BY <3>2, <3>3
  <2>6. AnsweredUpTo(msgs', Len(msgs) + 1, 0)
    BY <1>1, <2>3 DEF AnsweredUpTo
  <2>7. Len(msgs') - (Len(msgs) + 1) = 0 /\ Len(msgs) + 1 \in DOMAIN msgs'
    BY <1>1, <2>3
  <2>8. /\ Len(msgs'[Len(msgs) + 1].calls) = 0 + Len(todo')
        /\ \A j \in 1 .. Len(todo') : todo'[j] = msgs'[Len(msgs) + 1].calls[0 + j]
    BY <2>1, <2>2, <2>3
  <2> QED
    BY <2>2, <2>3, <2>4, <2>5, <2>6, <2>7, <2>8 DEF Conversation
<1>3. CASE ModelUnusable
  <2> DEFINE as == Append(Consumed(msgs), Text("assistant"))
  <2>1. /\ Text("assistant") \in Message /\ Text("user") \in Message
        /\ ~IsTool(Text("assistant")) /\ ~IsTool(Text("user"))
        /\ Text("assistant").calls = <<>> /\ Text("user").role = "user"
    BY NewMessages DEF Text
  <2>2. stage = "model" /\ stage' = "round" /\ todo' = todo
        /\ msgs' = Append(as, Text("user"))
    BY <1>1, <1>3, <2>1 DEF ModelUnusable
  <2>3. as \in Seq(Message) /\ Len(as) = Len(msgs) + 1 /\ Continues(as, msgs)
        /\ as[Len(msgs) + 1] = Text("assistant")
    BY <1>1, <2>1, AppendContinues, ContinuesTransitive
  <2> HIDE DEF as
  <2>4. /\ msgs' \in Seq(Message) /\ Len(msgs') = Len(msgs) + 2 /\ Continues(msgs', as)
        /\ msgs'[Len(msgs) + 2] = Text("user")
        /\ DOMAIN msgs' = 1 .. Len(msgs) + 2
    <3>1. /\ msgs' \in Seq(Message) /\ Len(msgs') = Len(as) + 1
          /\ Continues(msgs', as) /\ msgs'[Len(as) + 1] = Text("user")
      BY <2>1, <2>2, <2>3, AppendContinues
    <3> QED
      BY <1>1, <2>3, <3>1
  <2>5. Continues(msgs', msgs) /\ msgs'[Len(msgs) + 1].calls = <<>>
        /\ ~IsTool(msgs'[Len(msgs) + 1])
    <3>1. Continues(msgs', msgs)
      BY <1>1, <2>3, <2>4, ContinuesTransitive
    <3> QED
      <4>1. Len(msgs) + 1 \in 1 .. Len(as)
        BY <1>1, <2>3
      <4>2. /\ msgs'[Len(msgs) + 1].role = as[Len(msgs) + 1].role
            /\ msgs'[Len(msgs) + 1].calls = as[Len(msgs) + 1].calls
        BY <2>4, <4>1 DEF Continues
      <4> QED
        BY <2>1, <2>3, <3>1, <4>2 DEF IsTool
  <2>6. \A i \in 1 .. Len(msgs) : msgs'[i].role = "assistant" => Answered(msgs', i)
    <3>1. Len(msgs') > Len(msgs)
      BY <1>1, <2>4
    <3> QED
      BY <2>2, <2>4, <2>5, <3>1, ModelSpeaks
  <2>7. Answered(msgs', Len(msgs) + 1)
    <3>1. Len(msgs'[Len(msgs) + 1].calls) = 0
      BY <2>5
    <3>2. ~IsTool(msgs'[Len(msgs) + 1 + 0 + 1])
      BY <1>1, <2>1, <2>4
    <3> QED
      BY <1>1, <2>4, <3>1, <3>2 DEF Answered, AnsweredUpTo
  <2>8. \A i \in DOMAIN msgs' : msgs'[i].role = "assistant" => Answered(msgs', i)
    BY <1>1, <2>1, <2>4, <2>6, <2>7
  <2> QED
    BY <2>2, <2>8 DEF Conversation
<1>4. CASE NextCall
  <2>1. CASE stage' = "ended"
    BY <2>1 DEF Conversation
  <2>2. CASE msgs' = msgs /\ todo' = todo /\ stage' = "tool" /\ stage = "calls"
    BY <2>2 DEF Conversation
  <2>3. CASE /\ stage = "calls" /\ todo # <<>> /\ todo' = Tail(todo) /\ stage' = stage
             /\ msgs' = Append(msgs, ToolMsg(Head(todo), "circuit"))
    BY <2>3, AnswerNext
  <2> QED
    BY <1>4, <2>1, <2>2, <2>3 DEF NextCall, Serve, End
<1>5. CASE ToolEnds
  <2>1. stage = "tool" /\ todo # <<>>
    BY <1>5 DEF ToolEnds, LoopTypes
  <2>2. PICK e \in ResultOf(Head(todo).key) : msgs' = Append(msgs, ToolMsg(Head(todo), e))
    BY <1>5 DEF ToolEnds
  <2>3. e \in Error \cup {"ok", "circuit"}
    <3>1. Head(todo).key \in ToolKey
      BY <2>1, ServedTodo DEF Call
    <3> QED
      BY <3>1 DEF ResultOf, Error, ToolKey
  <2> QED
    BY <1>5, <2>1, <2>2, <2>3, AnswerNext DEF ToolEnds
<1>6. CASE CallsServed
  <2>1. stage = "calls" /\ todo = <<>> /\ stage' = "round" /\ todo' = <<>> /\ msgs' = msgs
    BY <1>6 DEF CallsServed
  <2>2. PICK last \in DOMAIN msgs :
           /\ \A i \in DOMAIN msgs : msgs[i].role = "assistant" /\ i # last => Answered(msgs, i)
           /\ Len(msgs[last].calls) = Len(msgs) - last + Len(todo)
           /\ AnsweredUpTo(msgs, last, Len(msgs) - last)
    BY <2>1 DEF Conversation
  <2>3. Len(msgs[last].calls) = Len(msgs) - last
    BY <1>1, <2>1, <2>2
  <2>4. Answered(msgs, last)
    BY <1>1, <2>2, <2>3 DEF Answered
  <2> QED
    BY <2>1, <2>2, <2>4 DEF Conversation
<1>7. CASE BeginRound \/ ModelProposes \/ ModelFails \/ WallDeadline \/ Cancel
           \/ ThreadEnds \/ Tick
  <2>1. \/ stage' = "ended"
        \/ msgs' = msgs /\ todo' = todo /\ stage' = stage
        \/ msgs' = msgs /\ todo' = todo /\ stage = "round" /\ stage' = "model"
    BY <1>7 DEF BeginRound, ModelProposes, ModelFails, WallDeadline, Cancel, ThreadEnds, Tick, End
  <2>2. CASE stage' = "ended"
    BY <2>2 DEF Conversation
  <2>3. CASE msgs' = msgs /\ todo' = todo /\ stage' = stage
    BY <2>3 DEF Conversation
  <2>4. CASE msgs' = msgs /\ todo' = todo /\ stage = "round" /\ stage' = "model"
    BY <2>4 DEF Conversation
  <2> QED
    BY <2>1, <2>2, <2>3, <2>4
<1> QED
  BY <1>2, <1>3, <1>4, <1>5, <1>6, <1>7 DEF LoopNext

(* What an answer adds to the record of a key.                             *)
LEMMA AnsweredOnce ==
    ASSUME LoopTypes, todo # <<>>, NEW e \in Error \cup {"ok", "circuit"},
           msgs' = Append(msgs, ToolMsg(Head(todo), e)), NEW k
    PROVE  LET i == Len(msgs) + 1
               hit == k = Head(todo).key /\ e # "circuit"
           IN  /\ ExecutedIn(msgs', k) = IF hit THEN ExecutedIn(msgs, k) \cup {i}
                                         ELSE ExecutedIn(msgs, k)
               /\ msgs'[i].err = e
               /\ InARow(msgs', k, i) =
                     IF hit THEN IF e = "ok" THEN {} ELSE InARow(msgs, k, Len(msgs)) \cup {i}
                     ELSE InARow(msgs, k, Len(msgs))
<1> DEFINE i == Len(msgs) + 1
           m == ToolMsg(Head(todo), e)
           hit == k = Head(todo).key /\ e # "circuit"
<1>1. m \in Message /\ IsTool(m) /\ m.calls[1] = Head(todo) /\ m.err = e
  BY ServedTodo, NewMessages
<1>2. /\ msgs \in Seq(Message) /\ Len(msgs) \in Nat /\ DOMAIN msgs = 1 .. Len(msgs)
      /\ msgs' \in Seq(Message) /\ Continues(msgs', msgs) /\ msgs'[i] = m
  BY <1>1, AppendContinues DEF LoopTypes
<1>3. ExecutedIn(msgs', k) = IF hit THEN ExecutedIn(msgs, k) \cup {i} ELSE ExecutedIn(msgs, k)
  BY <1>1, <1>2, ToolsOfAppend
<1>4. /\ ExecutedIn(msgs, k) \subseteq 1 .. Len(msgs)
      /\ \A n \in ExecutedIn(msgs, k) : msgs'[n].err = msgs[n].err
  BY <1>2, ContinuesFacts DEF ExecutedIn, ToolsIn
<1> HIDE DEF m
<1>5. CASE hit /\ e = "ok"
  <2>1. i \in ExecutedIn(msgs', k) /\ msgs'[i].err = "ok"
    BY <1>1, <1>2, <1>3, <1>5
  <2>2. \A n \in ExecutedIn(msgs', k) : i \in n .. i
    BY <1>2, <1>3, <1>4
  <2> QED
    BY <1>1, <1>2, <1>3, <1>5, <2>1, <2>2 DEF InARow
<1>6. CASE hit /\ e # "ok"
  <2>1. /\ ExecutedIn(msgs', k) = ExecutedIn(msgs, k) \cup {i} /\ msgs'[i].err # "ok"
        /\ i \notin ExecutedIn(msgs, k)
    BY <1>1, <1>2, <1>3, <1>4, <1>6
  <2>2. ASSUME NEW n \in ExecutedIn(msgs', k)
        PROVE  n \in InARow(msgs', k, i) <=> n \in InARow(msgs, k, Len(msgs)) \cup {i}
    <3>1. CASE n = i
      <4>1. \A m1 \in ExecutedIn(msgs', k) : m1 \in n .. i => m1 = i
        BY <1>2, <3>1
      <4> QED
        BY <1>2, <2>1, <3>1, <4>1 DEF InARow
    <3>2. CASE n \in ExecutedIn(msgs, k)
      <4>1. n # i /\ n <= i /\ n <= Len(msgs)
        BY <1>2, <1>4, <3>2
      <4>2. (\A m1 \in ExecutedIn(msgs', k) : m1 \in n .. i => msgs'[m1].err # "ok")
            <=> (\A m1 \in ExecutedIn(msgs, k) : m1 \in n .. Len(msgs) => msgs[m1].err # "ok")
        <5>1. \A m1 \in ExecutedIn(msgs, k) : /\ m1 \in n .. i <=> m1 \in n .. Len(msgs)
                                              /\ msgs'[m1].err = msgs[m1].err
          BY <1>2, <1>4, <3>2
        <5> QED
          BY <2>1, <5>1
      <4> QED
        BY <2>1, <3>2, <4>1, <4>2 DEF InARow
    <3> QED
      BY <2>1, <3>1, <3>2
  <2>3. i \in ExecutedIn(msgs', k) /\ InARow(msgs, k, Len(msgs)) \subseteq ExecutedIn(msgs', k)
    BY <2>1 DEF InARow
  <2>4. InARow(msgs', k, i) \subseteq ExecutedIn(msgs', k)
    BY DEF InARow
  <2>5. InARow(msgs', k, i) = InARow(msgs, k, Len(msgs)) \cup {i}
    BY <2>2, <2>3, <2>4
  <2> QED
    BY <1>1, <1>2, <1>3, <1>6, <2>5
<1>7. CASE ~hit
  <2>1. ExecutedIn(msgs', k) = ExecutedIn(msgs, k)
    BY <1>3, <1>7
  <2>2. \A n \in ExecutedIn(msgs, k) : /\ n <= i /\ n <= Len(msgs)
                                       /\ \A m1 \in ExecutedIn(msgs, k) :
                                             m1 \in n .. i <=> m1 \in n .. Len(msgs)
    BY <1>2, <1>4
  <2>3. InARow(msgs', k, i) = InARow(msgs, k, Len(msgs))
    BY <1>4, <2>1, <2>2 DEF InARow
  <2> QED
    BY <1>1, <1>2, <1>3, <1>7, <2>3
<1> QED
  BY <1>5, <1>6, <1>7

(* What the model says changes no record.                                  *)
LEMMA SameRecord ==
    ASSUME NEW ms \in Seq(Message), NEW ns \in Seq(Message), Continues(ns, ms),
           \A i \in Len(ms) + 1 .. Len(ns) : ~IsTool(ns[i]), NEW k
    PROVE  /\ ExecutedIn(ns, k) = ExecutedIn(ms, k)
           /\ \A i \in ExecutedIn(ms, k) : ns[i].err = ms[i].err
           /\ \A i \in 1 .. Len(ms) : InARow(ns, k, i) = InARow(ms, k, i)
           /\ InARow(ns, k, Len(ns)) = InARow(ms, k, Len(ms))
<1>1. /\ ExecutedIn(ms, k) = ExecutedIn(ns, k) \cap (1 .. Len(ms))
      /\ \A i \in ExecutedIn(ms, k) : ns[i].err = ms[i].err
      /\ \A i \in 1 .. Len(ms) : InARow(ns, k, i) = InARow(ms, k, i)
  BY ContinuesFacts
<1>2. ExecutedIn(ns, k) \subseteq 1 .. Len(ms)
  BY DEF ExecutedIn, ToolsIn
<1>3. ExecutedIn(ns, k) = ExecutedIn(ms, k)
  BY <1>1, <1>2
<1>4. \A n, m \in ExecutedIn(ms, k) : /\ n <= Len(ns) /\ n <= Len(ms)
                                      /\ m \in n .. Len(ns) <=> m \in n .. Len(ms)
  <2>1. Len(ms) <= Len(ns) /\ Len(ms) \in Nat /\ Len(ns) \in Nat
    BY DEF Continues
  <2> QED
    BY <1>2, <1>3, <2>1
<1>5. InARow(ns, k, Len(ns)) = InARow(ms, k, Len(ms))
  BY <1>1, <1>3, <1>4 DEF InARow
<1> QED
  BY <1>1, <1>3, <1>5

(* Any other step: no record of a key changes.                             *)
LEMMA RecordStep ==
    ASSUME LoopTypes, LoopNext, ~ToolEnds, NEW k
    PROVE  /\ ExecutedIn(msgs', k) = ExecutedIn(msgs, k)
           /\ \A i \in ExecutedIn(msgs, k) : msgs'[i].err = msgs[i].err
           /\ \A i \in 1 .. Len(msgs) : InARow(msgs', k, i) = InARow(msgs, k, i)
           /\ InARow(msgs', k, Len(msgs')) = InARow(msgs, k, Len(msgs))
<1>1. /\ msgs \in Seq(Message) /\ Len(msgs) \in Nat
      /\ Consumed(msgs) \in Seq(Message) /\ Len(Consumed(msgs)) = Len(msgs)
      /\ msgs' \in Seq(Message) /\ Continues(msgs', msgs)
  BY ConsumedFacts, MessagesContinue DEF LoopTypes
<1>2. CASE msgs' = msgs
  BY <1>2
<1>3. CASE NextCall /\ msgs' # msgs
  <2>1. todo # <<>> /\ msgs' = Append(msgs, ToolMsg(Head(todo), "circuit"))
    BY <1>3 DEF NextCall, Serve
  <2>2. /\ ExecutedIn(msgs', k) = ExecutedIn(msgs, k)
        /\ InARow(msgs', k, Len(msgs) + 1) = InARow(msgs, k, Len(msgs))
    BY <2>1, AnsweredOnce
  <2>3. Len(msgs') = Len(msgs) + 1
    BY <1>1, <2>1
  <2>4. /\ \A i \in ExecutedIn(msgs, k) : msgs'[i].err = msgs[i].err
        /\ \A i \in 1 .. Len(msgs) : InARow(msgs', k, i) = InARow(msgs, k, i)
    BY <1>1, ContinuesFacts
  <2> QED
    BY <2>2, <2>3, <2>4
<1>4. CASE ModelCalls
  <2>1. PICK cs \in Seq(Call) : msgs' = Append(Consumed(msgs), Calls(cs))
    BY <1>4, PickedCalls
  <2>2. Calls(cs) \in Message /\ ~IsTool(Calls(cs))
    BY NewMessages
  <2>3. \A i \in Len(msgs) + 1 .. Len(msgs') : ~IsTool(msgs'[i])
    BY <1>1, <2>1, <2>2
  <2> QED
    BY <1>1, <2>3, SameRecord
<1>5. CASE ModelUnusable
  <2>1. /\ Text("assistant") \in Message /\ Text("user") \in Message
        /\ ~IsTool(Text("assistant")) /\ ~IsTool(Text("user"))
    BY NewMessages
  <2>2. msgs' = Consumed(msgs) \o <<Text("assistant"), Text("user")>>
    BY <1>5 DEF ModelUnusable
  <2>3. \A i \in Len(msgs) + 1 .. Len(msgs') : ~IsTool(msgs'[i])
    BY <1>1, <2>1, <2>2
  <2> QED
    BY <1>1, <2>3, SameRecord
<1>6. CASE ModelProposes
  <2>1. \A i \in Len(msgs) + 1 .. Len(msgs') : ~IsTool(msgs'[i])
    BY <1>1, <1>6 DEF ModelProposes
  <2> QED
    BY <1>1, <2>1, SameRecord
<1>7. NextCall \/ ModelCalls \/ ModelUnusable \/ ModelProposes \/ msgs' = msgs
  BY DEF LoopNext, BeginRound, ModelFails, CallsServed, WallDeadline, Cancel, ThreadEnds, Tick
<1> QED
  BY <1>2, <1>3, <1>4, <1>5, <1>6, <1>7

LEMMA ToolAnswers ==
    ASSUME LoopTypes, ToolEnds
    PROVE  /\ todo # <<>> /\ stage = "tool" /\ todo' = Tail(todo) /\ stage' = "calls"
           /\ Head(todo).key \in ToolKey
           /\ \E e \in Error \cup {"ok"} :
                 /\ msgs' = Append(msgs, ToolMsg(Head(todo), e))
                 /\ circuit' = [circuit EXCEPT ![Head(todo).key] =
                                  IF e = "ok" THEN NoFailure
                                  ELSE [fails |-> circuit[Head(todo).key].fails + 1, last |-> e]]
<1>1. todo # <<>> /\ Head(todo).key \in ToolKey
  BY ServedTodo DEF ToolEnds, LoopTypes, Call
<1>2. ResultOf(Head(todo).key) \subseteq Error \cup {"ok"}
  BY <1>1 DEF ResultOf, Error, ToolKey
<1> QED
  BY <1>1, <1>2 DEF ToolEnds, Recorded

LEMMA RemembersStep ==
    ASSUME LoopTypes, Remembers, LoopNext
    PROVE  Remembers'
<1>1. /\ msgs \in Seq(Message) /\ Len(msgs) \in Nat /\ DOMAIN msgs = 1 .. Len(msgs)
  BY DEF LoopTypes
<1>2. CASE ToolEnds
  <2>1. /\ todo # <<>> /\ stage' = "calls" /\ Head(todo).key \in ToolKey
    BY <1>2, ToolAnswers
  <2>2. PICK e \in Error \cup {"ok"} :
           /\ msgs' = Append(msgs, ToolMsg(Head(todo), e))
           /\ circuit' = [circuit EXCEPT ![Head(todo).key] =
                            IF e = "ok" THEN NoFailure
                            ELSE [fails |-> circuit[Head(todo).key].fails + 1, last |-> e]]
    BY <1>2, ToolAnswers
  <2> DEFINE n == Len(msgs) + 1
             k0 == Head(todo).key
  <2>3. e # "circuit"
    BY DEF Error
  <2>4. ToolMsg(Head(todo), e) \in Message
    BY <2>1, ServedTodo, NewMessages
  <2>5. Len(msgs') = n
    BY <1>1, <2>2, <2>4
  <2>6. ASSUME NEW k \in ToolKey
        PROVE  /\ circuit'[k].fails = Cardinality(InARow(msgs', k, Len(msgs')))
               /\ \A i \in ExecutedIn(msgs', k) :
                     (\A j \in ExecutedIn(msgs', k) : j <= i) => circuit'[k].last = msgs'[i].err
    <3>1. /\ ExecutedIn(msgs', k) = IF k = k0 THEN ExecutedIn(msgs, k) \cup {n}
                                    ELSE ExecutedIn(msgs, k)
          /\ msgs'[n].err = e
          /\ InARow(msgs', k, n) =
                IF k = k0 THEN IF e = "ok" THEN {} ELSE InARow(msgs, k, Len(msgs)) \cup {n}
                ELSE InARow(msgs, k, Len(msgs))
      BY <2>1, <2>2, <2>3, AnsweredOnce
    <3>2. /\ ExecutedIn(msgs, k) \subseteq 1 .. Len(msgs)
          /\ \A i \in ExecutedIn(msgs, k) : msgs'[i].err = msgs[i].err
      <4>1. msgs' \in Seq(Message) /\ Continues(msgs', msgs)
        BY MessagesContinue
      <4> QED
        BY <1>1, <4>1, ContinuesFacts DEF ExecutedIn, ToolsIn
    <3>3. /\ circuit[k].fails = Cardinality(InARow(msgs, k, Len(msgs)))
          /\ circuit[k] \in [fails: Nat, last: Error \cup {"ok"}]
          /\ \A i \in ExecutedIn(msgs, k) :
                (\A j \in ExecutedIn(msgs, k) : j <= i) => circuit[k].last = msgs[i].err
      BY DEF Remembers, LoopTypes
    <3>4. CASE k # k0
      BY <2>2, <2>5, <3>1, <3>2, <3>3, <3>4 DEF LoopTypes
    <3>5. CASE k = k0
      <4>1. circuit'[k] = IF e = "ok" THEN NoFailure
                          ELSE [fails |-> circuit[k].fails + 1, last |-> e]
        BY <2>2, <3>5 DEF LoopTypes
      <4>2. circuit'[k].last = e
        BY <4>1 DEF NoFailure
      <4>3. \A i \in ExecutedIn(msgs', k) : (\A j \in ExecutedIn(msgs', k) : j <= i) => i = n
        BY <1>1, <3>1, <3>2, <3>5
      <4>4. circuit'[k].fails = Cardinality(InARow(msgs', k, n))
        <5>1. CASE e = "ok"
          <6>1. InARow(msgs', k, n) = {}
            BY <3>1, <3>5, <5>1
          <6>2. circuit'[k].fails = 0
            BY <4>1, <5>1 DEF NoFailure
          <6> QED
            BY <6>1, <6>2, FS_EmptySet
        <5>2. CASE e # "ok"
          <6>1. n \notin InARow(msgs, k, Len(msgs))
            BY <1>1 DEF InARow
          <6>2. IsFiniteSet(InARow(msgs, k, Len(msgs)))
            BY <1>1, FiniteTools
          <6> QED
            BY <3>1, <3>3, <3>5, <4>1, <5>2, <6>1, <6>2, FS_AddElement
        <5> QED
          BY <5>1, <5>2
      <4> QED
        BY <2>5, <3>1, <4>2, <4>3, <4>4
    <3> QED
      BY <3>4, <3>5
  <2> QED
    BY <2>1, <2>6 DEF Remembers
<1>3. CASE ~ToolEnds
  <2>1. circuit' = circuit
    BY <1>3 DEF LoopNext, BeginRound, ModelCalls, ModelUnusable, ModelProposes, ModelFails,
       NextCall, CallsServed, WallDeadline, Cancel, ThreadEnds, Tick
  <2>2. (stage = "tool" => ~CircuitOpen(Head(todo).key))'
    <3>1. stage' = "tool" => todo' = todo /\ ~CircuitOpen(Head(todo).key)
      BY <1>3 DEF Remembers, LoopNext, End, BeginRound, ModelCalls, ModelUnusable, ModelProposes,
         ModelFails, NextCall, CallsServed, WallDeadline, Cancel, ThreadEnds, Tick
    <3> QED
      BY <2>1, <3>1 DEF CircuitOpen
  <2>3. ASSUME NEW k \in ToolKey
        PROVE  /\ circuit'[k].fails = Cardinality(InARow(msgs', k, Len(msgs')))
               /\ \A i \in ExecutedIn(msgs', k) :
                     (\A j \in ExecutedIn(msgs', k) : j <= i) => circuit'[k].last = msgs'[i].err
    BY <1>3, <2>1, RecordStep DEF Remembers
  <2> QED
    BY <2>2, <2>3 DEF Remembers
<1> QED
  BY <1>2, <1>3

LEMMA BreakerStep ==
    ASSUME LoopTypes, Remembers, BreakerHolds, LoopNext
    PROVE  BreakerHolds'
<1>1. /\ msgs \in Seq(Message) /\ Len(msgs) \in Nat /\ DOMAIN msgs = 1 .. Len(msgs)
  BY DEF LoopTypes
<1> SUFFICES ASSUME NEW k \in ToolKey, NEW i \in ExecutedIn(msgs', k),
                    NEW j \in ExecutedIn(msgs', k), i < j, msgs'[i].err # "ok"
             PROVE  Cardinality(InARow(msgs', k, i)) < MaxFailures(k, msgs'[i].err)
  BY DEF BreakerHolds
<1>2. ASSUME i \in ExecutedIn(msgs, k), j \in ExecutedIn(msgs, k)
      PROVE  Cardinality(InARow(msgs', k, i)) < MaxFailures(k, msgs'[i].err)
  <2>1. i \in 1 .. Len(msgs)
    BY <1>1, <1>2 DEF ExecutedIn, ToolsIn
  <2>2. msgs' \in Seq(Message) /\ Continues(msgs', msgs)
    BY MessagesContinue
  <2>3. msgs'[i].err = msgs[i].err /\ InARow(msgs', k, i) = InARow(msgs, k, i)
    BY <1>1, <1>2, <2>1, <2>2, ContinuesFacts
  <2> QED
    BY <1>2, <2>3 DEF BreakerHolds
<1>3. CASE ~ToolEnds
  BY <1>2, <1>3, RecordStep
<1>4. CASE ToolEnds
  <2> DEFINE n == Len(msgs) + 1
             k0 == Head(todo).key
  <2>1. /\ todo # <<>> /\ stage = "tool" /\ k0 \in ToolKey
    BY <1>4, ToolAnswers
  <2>2. PICK e \in Error \cup {"ok"} : msgs' = Append(msgs, ToolMsg(Head(todo), e))
    BY <1>4, ToolAnswers
  <2>3. /\ ExecutedIn(msgs', k) = IF k = k0 THEN ExecutedIn(msgs, k) \cup {n}
                                  ELSE ExecutedIn(msgs, k)
    BY <2>1, <2>2, AnsweredOnce DEF Error
  <2>4. ExecutedIn(msgs, k) \subseteq 1 .. Len(msgs)
    BY <1>1 DEF ExecutedIn, ToolsIn
  <2>5. CASE j \in ExecutedIn(msgs, k)
    <3>1. i # n
      BY <1>1, <2>4, <2>5
    <3> QED
      BY <1>2, <2>3, <2>5, <3>1
  <2>6. CASE k = k0 /\ j = n /\ i \in ExecutedIn(msgs, k)
    <3>1. i \in 1 .. Len(msgs)
      BY <2>4, <2>6
    <3>2. msgs'[i].err = msgs[i].err /\ InARow(msgs', k, i) = InARow(msgs, k, i)
      <4>1. msgs' \in Seq(Message) /\ Continues(msgs', msgs)
        BY MessagesContinue
      <4> QED
        BY <1>1, <2>6, <3>1, <4>1, ContinuesFacts
    <3>3. CASE \E l \in ExecutedIn(msgs, k) : i < l
      BY <2>6, <3>2, <3>3 DEF BreakerHolds
    <3>4. CASE \A l \in ExecutedIn(msgs, k) : l <= i
      <4>1. circuit[k].last = msgs[i].err
        BY <2>6, <3>4 DEF Remembers
      <4>2. InARow(msgs, k, i) = InARow(msgs, k, Len(msgs))
        <5>1. \A m, l \in ExecutedIn(msgs, k) : /\ m <= i /\ m <= Len(msgs)
                                                /\ l \in m .. i <=> l \in m .. Len(msgs)
          BY <1>1, <2>4, <3>1, <3>4
        <5> QED
          BY <5>1 DEF InARow
      <4>3. i \in InARow(msgs, k, i)
        <5>1. \A m \in ExecutedIn(msgs, k) : m \in i .. i => m = i
          BY <3>1
        <5> QED
          BY <2>6, <3>1, <3>2, <5>1 DEF InARow
      <4>4. /\ Cardinality(InARow(msgs, k, i)) \in Nat
            /\ Cardinality(InARow(msgs, k, i)) # 0
        BY <1>1, <4>3, FiniteTools, FS_EmptySet
      <4>5. circuit[k].fails = Cardinality(InARow(msgs, k, i))
        BY <4>2 DEF Remembers
      <4>6. ~CircuitOpen(k)
        BY <2>1, <2>6 DEF Remembers
      <4>7. MaxFailures(k, msgs[i].err) \in Int
        BY LimitAssumption DEF MaxFailures
      <4> QED
        BY <3>2, <4>1, <4>4, <4>5, <4>6, <4>7 DEF CircuitOpen
    <3> QED
      BY <1>1, <2>4, <3>1, <3>3, <3>4
  <2>7. i # n \/ k # k0
    BY <1>1, <2>3, <2>4
  <2> QED
    BY <2>3, <2>5, <2>6, <2>7
<1> QED
  BY <1>3, <1>4

LEMMA LoopInvInit == LoopInit => LoopInv
<1> SUFFICES ASSUME LoopInit PROVE LoopInv
  OBVIOUS
<1>1. LoopTypes
  <2>1. <<>> \in Seq(Message) /\ <<>> \in Seq(Call)
    OBVIOUS
  <2> QED
    BY <2>1, LimitAssumption DEF LoopInit, LoopTypes, NoFailure
<1>2. DOMAIN msgs = {} /\ Len(msgs) = 0 /\ Len(todo) = 0
  BY DEF LoopInit
<1>3. ToolsIn(msgs) = {} /\ \A k : ExecutedIn(msgs, k) = {} /\ InARow(msgs, k, Len(msgs)) = {}
  BY <1>2 DEF ToolsIn, ExecutedIn, InARow
<1>4. CallCount <= MaxCall
  BY <1>2, <1>3, FS_EmptySet, LimitAssumption DEF CallCount
<1>5. Conversation
  BY <1>2 DEF LoopInit, Conversation
<1>6. Remembers
  BY <1>3, FS_EmptySet DEF LoopInit, Remembers, NoFailure
<1>7. ReadOnce /\ BreakerHolds /\ NoTwoCommands
  BY <1>2, <1>3 DEF LoopInit, ReadOnce, BreakerHolds, NoTwoCommands
<1> QED
  BY <1>1, <1>4, <1>5, <1>6, <1>7 DEF LoopInv

LEMMA LoopInvStep == LoopInv /\ [LoopNext]_loopVars => LoopInv'
<1> SUFFICES ASSUME LoopInv, [LoopNext]_loopVars PROVE LoopInv'
  OBVIOUS
<1>1. CASE LoopNext
  BY <1>1, LoopTypesStep, CountStep, ConversationStep, RemembersStep, ReadOnceStep, BreakerStep,
     NoTwoCommandsStep DEF LoopInv
<1>2. CASE UNCHANGED loopVars
  BY <1>2 DEF LoopInv, loopVars, LoopTypes, CallCount, Conversation, Remembers, CircuitOpen,
     ReadOnce, LastAssistant, BreakerHolds, NoTwoCommands
<1> QED
  BY <1>1, <1>2

LEMMA LoopInvIsSound == LoopInv => TurnSound
<1> SUFFICES ASSUME LoopInv PROVE TurnSound
  OBVIOUS
<1>1. msgs \in Seq(Message) /\ DOMAIN msgs = 1 .. Len(msgs) /\ Len(msgs) \in Nat
  BY DEF LoopInv, LoopTypes
<1>2. LoopTypeOK
  <2>1. ASSUME NEW i \in DOMAIN msgs
        PROVE  /\ msgs[i].role \in {"assistant", "tool", "user"}
               /\ \A j \in DOMAIN msgs[i].calls : msgs[i].calls[j] \in Call
               /\ IsTool(msgs[i]) => /\ msgs[i].err \in Error \union {"ok", "circuit"}
                                     /\ msgs[i].body \in {"full", "receipt"}
    <3>1. msgs[i] \in Message
      BY <1>1
    <3> QED
      BY <3>1, MessageFacts DEF Result
  <2>2. \A i \in DOMAIN todo : todo[i] \in Call
    BY DEF LoopInv, LoopTypes
  <2>3. circuit \in [ToolKey -> [fails : 0 .. MaxCall, last : Error \union {"ok"}]]
    <3>1. ASSUME NEW k \in ToolKey
          PROVE  circuit[k] \in [fails : 0 .. MaxCall, last : Error \union {"ok"}]
      <4>1. circuit[k] \in [fails : Nat, last : Error \union {"ok"}]
        BY DEF LoopInv, LoopTypes
      <4>2. circuit[k].fails <= Cardinality(ToolsIn(msgs))
        BY <1>1, FiniteTools DEF LoopInv, Remembers
      <4>3. /\ Cardinality(ToolsIn(msgs)) \in Nat /\ Len(todo) \in Nat
            /\ Cardinality(ToolsIn(msgs)) + Len(todo) <= MaxCall
        BY CountType DEF LoopInv, CallCount
      <4>4. circuit[k].fails \in 0 .. MaxCall
        BY <4>1, <4>2, <4>3, LimitAssumption
      <4> QED
        BY <4>1, <4>4
    <3> QED
      BY <3>1 DEF LoopInv, LoopTypes
  <2> QED
    BY <2>1, <2>2, <2>3 DEF LoopInv, LoopTypes, LoopTypeOK
<1>3. RequestWellFormed
  BY DEF LoopInv, Conversation, Answered, AnsweredUpTo, RequestWellFormed
<1> QED
  BY <1>2, <1>3 DEF LoopInv, TurnSound

(* The conversation of a turn is well formed whenever it is sent, every    *)
(* result is read in full once, a key that failed is executed again only   *)
(* while its breaker allows it, and no command of a turn that goes on runs *)
(* unattended: for any tools, limits and deadline (generate()).            *)
THEOREM TurnSoundAlways == LoopSpec => []TurnSound
<1>1. LoopInit => LoopInv
  BY LoopInvInit
<1>2. LoopInv /\ [LoopNext]_loopVars => LoopInv'
  BY LoopInvStep
<1>3. LoopInv => TurnSound
  BY LoopInvIsSound
<1> QED
  BY <1>1, <1>2, <1>3, PTL DEF LoopSpec
=============================================================================
