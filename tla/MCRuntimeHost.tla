---------------------------- MODULE MCRuntimeHost ----------------------------
(* Instances of RuntimeHost: one singleton key, a grant that denies a subtree *)
(* of the path it allows, and requested child grants on both sides of it.    *)
EXTENDS RuntimeHost

MCInside ==
    {<<a, a>> : a \in Value} \cup {<<"src", "src/a">>, <<"src", "src/a/b">>, <<"src/a", "src/a/b">>}

PathScope(actions, path, effect) ==
    [type |-> "workspace_path", actions |-> actions, attrs |-> [k \in Key |-> path], effect |-> effect]

GrantOf(scopes, caps) == [scopes |-> scopes, caps |-> caps, budget |-> 1]

MCParentGrant ==
    GrantOf({PathScope({"read", "write"}, "src", "allow"), PathScope({"write"}, "src/a", "deny")},
            {"run"})

MCChildGrants ==
    {GrantOf({PathScope({"read"}, "src", "allow")}, {}),
     GrantOf({PathScope({"read", "write"}, "src", "allow")}, {"run"}),
     GrantOf({PathScope({"write"}, "src/a/b", "allow")}, {})}
==============================================================================
