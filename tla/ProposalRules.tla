--------------------------- MODULE ProposalRules ---------------------------
(***************************************************************************)
(* What a model's proposal may touch and what a run may execute: the path  *)
(* rules of a proposal (backend/src/bridle/agent/runtime/schemas.py and    *)
(* agent/tools/proposal_path_validator.py), the command rules              *)
(* (test_command_policy.py, proposal_test_validator.py) and the policy of  *)
(* a run (agent/safety/sandbox_policy.py).                                 *)
(*                                                                         *)
(* A path is the sequence of its segments between slashes, with a flag for *)
(* white space around it: an absolute path begins with an empty segment.   *)
(* A command is what the rules tell apart of it.                           *)
(***************************************************************************)
EXTENDS Naturals, Sequences, FiniteSets, SequencesExt

CONSTANTS RawFile,      \* paths that a node, a grant or a read-only list names
          TestCommand,  \* commands that a node or a proposal names
          Plain,        \* names of files and directories without a special character
          Link,         \* those that are links out of the workspace
          MaxSegment,   \* bound: segments of a path that a proposal names
          MaxNodeEdit   \* bound: changes of a policy in a run

ASSUME PathAssumption ==
    /\ \A f \in RawFile : f.segs \in Seq(STRING)
    /\ Link \subseteq Plain
    /\ Plain \intersect {"", ".", "..", ".b", "C:", "x\\y"} = {}

VARIABLES
    policy,    \* {SandboxPolicy of the run}, {} before there is a run
    planNode,  \* tests: the node's; listed: {allowed_test_commands}, {} if absent
    handed,    \* every path that was allowed or granted (history)
    locked,    \* the paths of the last read-only list (history)
    nodeEdits  \* changes so far

policyVars == <<policy, planNode, handed, locked, nodeEdits>>

-----------------------------------------------------------------------------
(* Paths *)

Segment == Plain \union {"", ".", "..", ".b", "C:", "x\\y"}
PlanDb == <<".bridle", "plan.db">>

CanonPath == [segs : UNION {[1 .. n -> Segment] : n \in 1 .. MaxSegment}, pad : BOOLEAN]

Blank(p)     == p.segs = <<"">>
Absolute(ss) == Len(ss) > 1 /\ ss[1] = ""
Drive(ss)    == Len(ss) > 1 /\ ss[1] = "C:"
Backslash(p) == \E i \in DOMAIN p.segs : p.segs[i] = "x\\y"
Climbs(ss)   == \E i \in DOMAIN ss : ss[i] = ".."

(* The segments before white space is stripped: the padded ones are no     *)
(* longer equal to a special segment.                                      *)
Unstripped(p) == [i \in DOMAIN p.segs |->
                     IF p.pad /\ i \in {1, Len(p.segs)} THEN "padded" ELSE p.segs[i]]

(* normalize_workspace_relative: segment by segment, the empty ones and    *)
(* the dots are left out.                                                  *)
Joined(so, s) == IF s \in {"", "."} THEN so ELSE Append(so, s)

Collapsed(ss) ==
    LET so[n \in 0 .. Len(ss)] == IF n = 0 THEN <<>> ELSE Joined(so[n - 1], ss[n])
    IN  so[Len(ss)]

Normalised(p) == Collapsed(p.segs)

NormalisedAll(ps) == {Normalised(p) : p \in ps} \ {<<>>}

(* Fault: the schema resolves "a/../b" to "a/b" before it looks. *)
SchemaDropsUp(p) ==
    LET c == SelectSeq(p.segs, LAMBDA s : s \notin {"", ".", ".."}) IN
    IF /\ ~Absolute(p.segs)
       /\ c # <<>> /\ c[1] \in Plain
       /\ \A i \in DOMAIN c : c[i] \in Plain \union {".b"}
    THEN {c} ELSE {}

(* FilePatchSchema: the canonical path, if the schema takes the path.  A   *)
(* name that starts with a dot is refused at the beginning of a path.      *)
Schema(p) ==
    LET c == Normalised(p) IN
    IF /\ ~Absolute(p.segs) /\ ~Drive(p.segs) /\ ~Backslash(p) /\ ~Climbs(p.segs)
       /\ p.segs[1] \notin {".b", ".."} /\ p.segs # <<".">>
       /\ c # <<>> /\ c[1] \in Plain
       /\ \A i \in DOMAIN c : c[i] \in Plain \union {".b"}
    THEN {c} ELSE {}

(* ProposalPathValidator.validate, for one patch. *)
PatchPathOk(p, files) ==
    /\ ~Blank(p)
    /\ ~Absolute(Unstripped(p)) /\ ~Drive(Unstripped(p)) /\ ~Backslash(p)
    /\ ~Climbs(Unstripped(p))
    /\ Normalised(p) \in NormalisedAll(files)

-----------------------------------------------------------------------------
(* Commands *)

(* exe: the program by its base name with its argument shape; clean: no    *)
(* shell operator and no shell; net: names the network, with or without    *)
(* the marker requires_network; installs: names an installer.              *)
BlankCommand == [exe |-> "blank", clean |-> TRUE, net |-> "none", installs |-> FALSE]

Executable == {"pytest", "echo", "exit", "npm test", "npm run build", "python -m pytest"}

(* TestCommandPolicy.validate *)
CommandOk(c) ==
    /\ c # BlankCommand
    /\ c.clean
    /\ c.exe \in Executable
    /\ c.net # "unmarked"

(* resolve_allowed_test_commands: a list that is present, an empty one     *)
(* included, is the only source.                                           *)
Resolved(listed, tests) ==
    (IF listed = {} THEN tests ELSE UNION listed) \ {BlankCommand}

(* validate_proposal_tests_to_run; blank tests are passed over. *)
TestsOk(cs, listed, tests) ==
    \A c \in cs \ {BlankCommand} : c \in Resolved(listed, tests) /\ CommandOk(c)

(* AgentProposalSchema: to be blocked takes a reason. *)
StatusOk(proposal) == proposal.status = "blocked" => proposal.reasoned

(* parse_proposal_content and _validate_proposal: the schema, the paths,   *)
(* the tests.                                                              *)
ProposalOk(proposal, files, listed, tests) ==
    /\ StatusOk(proposal)
    /\ \A p \in proposal.paths :
          \E c \in Schema(p) : PatchPathOk([segs |-> c, pad |-> FALSE], files)
    /\ TestsOk(proposal.tests, listed, tests)

-----------------------------------------------------------------------------
(* The policy of a run *)

(* AgentToolRegistry.from_context and SandboxPolicy.for_run *)
ForRun(files, listed, tests, network) ==
    [files    |-> NormalisedAll(files),
     readonly |-> {},
     commands |-> {c \in Resolved(listed, tests) : CommandOk(c)},
     network  |-> network]

(* with_readonly_files replaces the list. *)
WithReadonly(po, ps) == [po EXCEPT !.readonly = NormalisedAll(ps)]

(* Fault: the copy starts with no read-only files. *)
GrantedAfresh(po, ps) == [po EXCEPT !.files = @ \union NormalisedAll(ps), !.readonly = {}]

WithGranted(po, ps) == [po EXCEPT !.files = @ \union NormalisedAll(ps)]

(* Where a path leads when it is walked from the workspace: Outside once   *)
(* it has left it.                                                         *)
Outside == <<"..">>

Onward(at, s) ==
    IF at = Outside \/ s \in {"", "."} THEN at
    ELSE CASE s \in Link -> Outside
           [] s = ".."   -> IF at = <<>> THEN Outside ELSE Front(at)
           [] OTHER      -> Append(at, s)

Walk(ss) ==
    LET at[n \in 0 .. Len(ss)] == IF n = 0 THEN <<>> ELSE Onward(at[n - 1], ss[n])
    IN  at[Len(ss)]

(* _validate_allowed_path *)
PathAllowed(po, p) ==
    /\ ~Blank(p)
    /\ ~Absolute(p.segs) /\ p.segs[1] # "C:" /\ ~Backslash(p) /\ ~Climbs(p.segs)
    /\ Normalised(p) # <<>>
    /\ Walk(Normalised(p)) # Outside
    /\ Normalised(p) \in po.files

(* validate_patch_path *)
MayPatch(po, p) ==
    /\ Normalised(p) \notin po.readonly
    /\ PathAllowed(po, p)
    /\ Normalised(p) # PlanDb

(* validate_test_command; no policy allows installers. *)
MayRun(po, c) ==
    /\ CommandOk(c)
    /\ c \in po.commands
    /\ (c.net # "none" => po.network)
    /\ ~c.installs

-----------------------------------------------------------------------------
(* The policy is made for a run and then only changed by copies. *)

AtMostOneOf(S) == {{}} \union {{x} : x \in S}

PolicyInit ==
    /\ handed \in AtMostOneOf(RawFile)
    /\ planNode \in [tests : {{}, TestCommand} \union {{c} : c \in TestCommand},
                 listed : {{}, {{}}} \union {{{c}} : c \in TestCommand}]
    /\ \E network \in BOOLEAN : policy = {ForRun(handed, planNode.listed, planNode.tests, network)}
    /\ locked = {}
    /\ nodeEdits = 0

GrantFiles ==
    /\ nodeEdits < MaxNodeEdit
    /\ \E p \in RawFile : /\ policy' = {WithGranted(po, {p}) : po \in policy}
                          /\ handed' = handed \union {p}
    /\ nodeEdits' = nodeEdits + 1
    /\ UNCHANGED <<planNode, locked>>

MakeReadonly ==
    /\ nodeEdits < MaxNodeEdit
    /\ \E ps \in AtMostOneOf(RawFile) : /\ policy' = {WithReadonly(po, ps) : po \in policy}
                                 /\ locked' = ps
    /\ nodeEdits' = nodeEdits + 1
    /\ UNCHANGED <<planNode, handed>>

PolicyNext == GrantFiles \/ MakeReadonly

PolicySpec == PolicyInit /\ [][PolicyNext]_policyVars

-----------------------------------------------------------------------------
(* Properties *)

(* The proposals that differ in what the rules look at: one path, or one   *)
(* test.                                                                   *)
Proposal ==
    [status : {"blocked", "completed"}, reasoned : {TRUE},
     paths : {{p} : p \in CanonPath}, tests : {{}}]
    \union [status : {"completed"}, reasoned : BOOLEAN,
            paths : {{}}, tests : {{c} : c \in TestCommand}]

(* Whatever spelling a proposal chooses for its paths, an accepted one     *)
(* names only declared files: walked segment by segment, its path and a    *)
(* declared path lead to the same place, and it never climbs.  Its tests   *)
(* are the node's, or the listed ones if there is a list, an empty list    *)
(* included (_validate_proposal, normalize_workspace_relative).            *)
ProposalInside ==
    policy # {} => \A proposal \in Proposal :
        ProposalOk(proposal, handed, planNode.listed, planNode.tests) =>
            /\ \A p \in proposal.paths :
                  /\ p.segs[1] # "" /\ ~Climbs(p.segs)
                  /\ \E f \in handed : Walk(f.segs) = Walk(p.segs)
            /\ \A c \in proposal.tests \ {BlankCommand} :
                  c \in IF planNode.listed = {} THEN planNode.tests ELSE UNION planNode.listed

(* However often the policy of a run is copied with more files or with     *)
(* read-only files, a path it lets a tool patch leads, walked, to a file   *)
(* that was handed to it inside the workspace and not to a file of the     *)
(* last read-only list, and it runs only commands that the node or the     *)
(* list names, none that needs the network without it (sandbox_policy.py). *)
SandboxKeeps == \A po \in policy :
    /\ \A p \in CanonPath : MayPatch(po, p) =>
          /\ Walk(p.segs) # Outside
          /\ \E f \in handed : Walk(f.segs) = Walk(p.segs)
          /\ \A f \in locked : Climbs(f.segs) \/ Walk(f.segs) # Walk(p.segs)
    /\ \A c \in TestCommand : MayRun(po, c) =>
          /\ c \in IF planNode.listed = {} THEN planNode.tests ELSE UNION planNode.listed
          /\ c.net = "none" \/ po.network

(* Nothing is proposed, patched or run that was not declared.              *)
OnlyDeclared == ProposalInside /\ SandboxKeeps
=============================================================================
