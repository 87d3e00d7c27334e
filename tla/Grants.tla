------------------------------- MODULE Grants -------------------------------
(***************************************************************************)
(* AgentAuthorizationService (agent/runtime/authorization.py): what a grant *)
(* allows, and which grants derive() accepts as those of a child.           *)
(*                                                                         *)
(* A scope holds its attributes as a function that is NoValue where the      *)
(* attribute is absent.  The value of the key PathKey is a workspace path;   *)
(* Inside is _path_contains(): <<a, b>> when b is a or below it.  A request  *)
(* may carry a path that does not normalise: that one is inside nothing.     *)
(***************************************************************************)
EXTENDS Naturals, FiniteSets

CONSTANTS
    Type,       \* _KNOWN_RESOURCE_TYPES
    Action,
    Key, PathKey,
    Value, NoValue,
    Inside,     \* pairs of path values
    Capability, \* tool and action, skill and submodule
    MaxBudget   \* bound of a budget

ASSUME GrantAssumption ==
    /\ PathKey \in Key /\ NoValue \notin Value
    /\ Inside \subseteq Value \X Value
    /\ MaxBudget \in Nat

(* Containment of normalised relative paths is transitive, and two paths     *)
(* that contain a third are comparable.                                     *)
ASSUME InsideAssumption ==
    /\ \A a, b, c \in Value : <<a, b>> \in Inside /\ <<b, c>> \in Inside => <<a, c>> \in Inside
    /\ \A a, b, c \in Value :
         <<a, c>> \in Inside /\ <<b, c>> \in Inside => <<a, b>> \in Inside \/ <<b, a>> \in Inside

Attributes == [Key -> Value \cup {NoValue}]

(* ResourceScope after _normalize_scope().                                  *)
Scope == [type: Type, actions: (SUBSET Action) \ {{}}, attrs: Attributes, effect: {"allow", "deny"}]

(* AgentGrant after _build_grant().                                         *)
Grant == [scopes: SUBSET Scope, caps: SUBSET Capability, budget: 0 .. MaxBudget]

Request == [type: Type, action: Action, attrs: Attributes]

(* One attribute of a scope against that of a request or a narrower scope.   *)
Covers(k, wide, narrow) ==
    IF k = PathKey THEN <<wide, narrow>> \in Inside ELSE wide = narrow

_scope_matches_request(s, r) ==
    /\ s.type = r.type /\ r.action \in s.actions
    /\ \A k \in Key : s.attrs[k] # NoValue =>
         r.attrs[k] # NoValue /\ Covers(k, s.attrs[k], r.attrs[k])

_scope_contains(p, c) ==
    /\ p.type = c.type /\ c.actions \subseteq p.actions
    /\ \A k \in Key : p.attrs[k] # NoValue =>
         c.attrs[k] # NoValue /\ Covers(k, p.attrs[k], c.attrs[k])

(* Fault: an overlap is a scope inside the other one.                       *)
OverlapOneWay(l, r) ==
    /\ l.type = r.type /\ l.actions \cap r.actions # {}
    /\ \A k \in Key : l.attrs[k] # NoValue /\ r.attrs[k] # NoValue => Covers(k, l.attrs[k], r.attrs[k])

_scopes_overlap(l, r) ==
    /\ l.type = r.type /\ l.actions \cap r.actions # {}
    /\ \A k \in Key : l.attrs[k] # NoValue /\ r.attrs[k] # NoValue =>
         Covers(k, l.attrs[k], r.attrs[k]) \/ Covers(k, r.attrs[k], l.attrs[k])

(* _authorize_active(): a matching deny wins, nothing matching is refused.   *)
Allowed(g, r) ==
    LET matching == {s \in g.scopes : _scope_matches_request(s, r)}
    IN  /\ \A s \in matching : s.effect # "deny"
        /\ \E s \in matching : s.effect = "allow"

(* derive() accepts c below p.                                              *)
Derivable(p, c) ==
    /\ \A s \in c.scopes : s.effect = "allow" =>
         /\ \E a \in p.scopes : a.effect = "allow" /\ _scope_contains(a, s)
         /\ \A d \in p.scopes : d.effect = "deny" => ~_scopes_overlap(d, s)
    /\ c.caps \subseteq p.caps
    /\ c.budget <= p.budget

(* A derived grant allows nothing that the grant it derives from refuses,    *)
(* although it need not repeat the denies of that one.                      *)
NoEscalationOf(p, c) == \A r \in Request : Allowed(c, r) => Allowed(p, r)
=============================================================================
