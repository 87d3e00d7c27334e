------------------------------ MODULE MCServices ------------------------------
(***************************************************************************)
(* The models that share no state with each other: the databases of a      *)
(* project (the parts of plan.db and the opening of mail.db), the tool     *)
(* loop of a model turn on one key of each kind, the rules for proposals   *)
(* and runs, and patches of small files.  An initial state chooses which   *)
(* of them moves.  The files of a policy and its commands do not depend on *)
(* each other: one is varied at a time.                                    *)
(***************************************************************************)
EXTENDS MapReadiness, PlanGraph, ProjectStorage, AgentLoop, ProposalRules, UnifiedDiff

VARIABLE part

At(ss) == [segs |-> ss, pad |-> FALSE]

Files == {At(<<"a">>), At(<<".", "b">>), At(<<"a", "", "b">>), At(<<".b">>),
          At(<<"..", "a">>), At(<<"l", "a">>), At(PlanDb),
          [segs |-> <<"b">>, pad |-> TRUE]}

Cmd(exe, clean, net, installs) ==
    [exe |-> exe, clean |-> clean, net |-> net, installs |-> installs]

Tests == {BlankCommand, Cmd("pytest", TRUE, "none", FALSE),
          Cmd("pytest", FALSE, "none", FALSE), Cmd("echo", TRUE, "marked", FALSE),
          Cmd("echo", TRUE, "unmarked", FALSE), Cmd("echo", TRUE, "none", TRUE),
          Cmd("npm install", TRUE, "none", TRUE)}

File ==
    {ls \in UNION {[1 .. n -> [t : {"p", "q"}, ended : BOOLEAN]] : n \in 0 .. 3} :
        \A i \in 1 .. Len(ls) - 1 : ls[i].ended}

DiffLine == [k : {" ", "+", "-"}, t : {"p", "q"}]

HunkLines(starts, counts, bodies) ==
    {<<[k |-> "@@", start |-> s, count |-> c]>> \o b : s \in starts, c \in counts, b \in bodies}

L(k, t) == [k |-> k, t |-> t]

(* One hunk of any kind, or two that replace, insert after or remove. *)
HunkPart ==
    HunkLines(0 .. 4, 0 .. 2, BoundedSeq(DiffLine, 2))
    \union {f \o g : f, g \in HunkLines(1 .. 3, {1},
               {<<L("-", "p")>>, <<L(" ", "p"), L("+", "q")>>,
                <<L("-", "p"), L("+", "q")>>, <<L("-", "q"), L("+", "p"), L("+", "p")>>})}

HeaderPart(old, new) == <<[k |-> "old", path |-> old], [k |-> "new", path |-> new]>>

X == <<"x">>
OneRemoved == <<[k |-> "@@", start |-> 1, count |-> 1], L("-", "p")>>

PatchRequests ==
    [path : {X}, type : {"modify", "remove"}, exists : {TRUE}, original : {{f} : f \in File},
     diff : HunkPart]
    \union [path : {X, <<"a">> \o X}, type : {"modify", "add", "remove"}, exists : BOOLEAN,
            original : {{}, {<<[t |-> "p", ended |-> TRUE]>>}},
            diff : {HeaderPart(old, new) \o body :
                       old, new \in {X, <<"a">> \o X, <<"b">> \o X, DevNull},
                       body \in {<<>>, OneRemoved, <<[k |-> "@@", start |-> 0, count |-> 0],
                                 L("+", "p")>>, Append(OneRemoved, L("\\", "p"))}}]

StoresRest == Init /\ PlanInit /\ StorageInit /\ ~db.file

LoopRest == /\ stage = "ended" /\ outcome = "proposal"
            /\ msgs = <<>> /\ todo = <<>> /\ clock = 0 /\ rounds = 0 /\ loose = {}
            /\ circuit = [k \in ToolKey |-> NoFailure]

RulesRest == /\ policy = {}
             /\ planNode = [tests |-> {}, listed |-> {}]
             /\ handed = {} /\ locked = {} /\ nodeEdits = 0

MCInit ==
    /\ DiffInit
    /\ \/ /\ part \in {"scan", "candidates", "plan", "executions", "diff"}
          /\ StoresRest /\ LoopRest /\ RulesRest
       \/ part = "storage" /\ Init /\ PlanInit /\ StorageInit /\ LoopRest /\ RulesRest
       \/ part = "loop" /\ StoresRest /\ LoopInit /\ RulesRest
       \/ /\ part = "files" /\ StoresRest /\ LoopRest /\ PolicyInit
          /\ planNode = [tests |-> {}, listed |-> {}]
          /\ \A po \in policy : ~po.network
       \/ part = "commands" /\ StoresRest /\ LoopRest /\ PolicyInit /\ handed = {}

storesVars == <<vars, planVars, storageVars>>
turnVars   == <<loopVars, policyVars, diffVars>>

Only(p, Others) == part = p /\ UNCHANGED <<part, Others>>

MCNext ==
    \/ Only("scan", <<planVars, storageVars, turnVars>>) /\ ScanNext
    \/ Only("candidates", <<planVars, storageVars, turnVars>>) /\ CandidateNext
    \/ Only("plan", <<vars, storageVars, turnVars>>) /\ GraphNext
    \/ Only("executions", <<vars, storageVars, turnVars>>) /\ ExecNext
    \/ Only("storage", <<vars, planVars, turnVars>>) /\ StorageNext
    \/ Only("loop", <<storesVars, policyVars, diffVars>>) /\ LoopNext
    \/ Only("files", <<storesVars, loopVars, diffVars>>) /\ PolicyNext
    \/ Only("diff", <<storesVars, loopVars, policyVars>>) /\ ValidatePatch

MCSpec ==
    /\ MCInit /\ [][MCNext]_<<storesVars, turnVars, part>>
    /\ MapFairness /\ LoopFairness

-----------------------------------------------------------------------------
(* What no step may do: a refresh leave an annotation of older content in   *)
(* force, a patch touch what a running node relies on or revive a removed   *)
(* one, an opener of mail.db undo a delivery.                               *)
StepsKeep == RefreshReconciles /\ RunningStable /\ RemovedStaysOut /\ FinishedStays

(* A semantic scan that runs ends, and so does generate().                  *)
WorkEnds == ScanEnds /\ GenerateEnds
===============================================================================
