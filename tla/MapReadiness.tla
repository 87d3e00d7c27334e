---------------------------- MODULE MapReadiness ----------------------------
(***************************************************************************)
(* When the project map is ready: the structure scan, the semantic scan    *)
(* and its run token, the annotations and their objections, and the        *)
(* module and interface candidates                                         *)
(* (backend/src/bridle/features/project_map/store.py).                     *)
(*                                                                         *)
(* plan.db is the only shared state: an action is one transaction, or one  *)
(* read outside a transaction whose result a later transaction relies on.  *)
(* A file's content is a version, counted up by every edit; a hash is the  *)
(* version it was taken of.  The structure of the code is abstracted to    *)
(* whether a file is indexed and at which version.                         *)
(***************************************************************************)
EXTENDS Naturals, FiniteSets

CONSTANTS Path,        \* files of the project
          Scanner,     \* callers of run_semantic_scan
          Dynamic,     \* contents whose static analysis leaves blind spots
          MaxEdit,     \* bound: changes of files
          MaxAnn,      \* bound: annotations, each with at most one objection
          MaxRun,      \* bound: semantic run ids
          MaxFault     \* bound: crashes, failed scans and degradations

ASSUME MapReadinessAssumption ==
    /\ Path # {} /\ Scanner # {}
    /\ Dynamic \subseteq Nat \ {0}
    /\ {MaxEdit, MaxAnn, MaxRun, MaxFault} \subseteq Nat

Version == 0 .. MaxEdit + 1           \* 0: the file is not there
Ann == 1 .. MaxAnn

VARIABLES
    file,        \* the files on disk
    edits,       \* how many changes there were
    indexed,     \* code_entities: the version the map knows, 0 for none
    blind,       \* map_blind_spots of a file: "none", "open", "routed"
    ann,         \* semantic_annotations with the status of their objection
    scan,        \* metadata scan_status
    sem,         \* metadata semantic_scan_status
    runId,       \* metadata semantic_scan_run_id, 0 for ""
    runSeq,      \* metadata semantic_scan_run_seq
    interrupted, \* metadata semantic_scan_interrupted
    pc,          \* where each scanner is
    token,       \* its run id
    calm,        \* it counted no pending objection
    iface,       \* per file the interface candidate: its fingerprint and status
    published,   \* per file the fingerprint in module_interfaces, 0 for none
    agreed,      \* history: per file the fingerprint a person confirmed last
    faults

metaVars == <<scan, sem, runId, runSeq, interrupted>>
scannerVars == <<pc, token, calm>>
candidateVars == <<iface, published, agreed>>
vars == <<file, edits, indexed, blind, ann, metaVars, scannerVars, candidateVars, faults>>

NoAnn == [path |-> CHOOSE f \in Path : TRUE, hash |-> 0, status |-> "none",
          objection |-> "none", stray |-> FALSE]

Pending == {a \in Ann : ann[a].objection = "pending"}
Unused == {a \in Ann : ann[a].status = "none"}
Open(b) == {f \in Path : b[f] = "open"}

(* The annotations last for every open blind spot, and n more. *)
Room(b, n) == Cardinality(Unused) >= Cardinality(Open(b)) + n
Live(a) == ann[a].status \in {"active", "pending"}

Init ==
    /\ file = [f \in Path |-> 1] /\ edits = 0
    /\ indexed = [f \in Path |-> 0]
    /\ blind = [f \in Path |-> "none"]
    /\ ann = [a \in Ann |-> NoAnn]
    /\ scan = "not_scanned" /\ sem = "not_started"
    /\ runId = 0 /\ runSeq = 0 /\ interrupted = FALSE
    /\ pc = [s \in Scanner |-> "idle"]
    /\ token = [s \in Scanner |-> 0]
    /\ calm = [s \in Scanner |-> FALSE]
    /\ iface = [f \in Path |-> [hash |-> 0, status |-> "none"]]
    /\ published = [f \in Path |-> 0]
    /\ agreed = [f \in Path |-> 0]
    /\ faults = 0

-----------------------------------------------------------------------------
(* Candidates, regenerated with every scan and every refresh *)

(* Fault: a decision is carried over by the candidate's id alone. *)
KeptById(f, v) ==
    IF iface[f].status \in {"confirmed", "rejected"} THEN iface[f].status ELSE "candidate"

(* The decision on a candidate is kept while it is the same candidate: same *)
(* id and same fingerprint.                                                *)
Kept(f, v) ==
    IF iface[f].hash = v /\ iface[f].status \in {"confirmed", "rejected"}
    THEN iface[f].status ELSE "candidate"

(* module_interfaces after the stale rows are revoked and the confirmed    *)
(* ones are published again.                                               *)
Republished(now) ==
    published' = [f \in Path |->
        IF now[f].status = "confirmed" THEN now[f].hash
        ELSE IF iface[f].status = "rejected" THEN published[f] ELSE 0]

(* _refresh_semantic_map_candidates on the code map idx. *)
RefreshCandidates(idx) ==
    LET now == [f \in Path |->
                  IF idx[f] # 0 THEN [hash |-> idx[f], status |-> Kept(f, idx[f])]
                  ELSE IF iface[f].status \in {"candidate", "confirmed"}
                       THEN [iface[f] EXCEPT !.status = "stale"] ELSE iface[f]]
    IN  /\ iface' = now
        /\ Republished(now)
        /\ UNCHANGED agreed

(* A person decides on a candidate.  Only confirming looks at anything: the *)
(* mock that goes with the candidate must be unchanged on disk.            *)
DecideCandidate(f) ==
    /\ iface[f].status # "none"
    /\ \/ /\ iface' = [iface EXCEPT ![f].status = "confirmed"]
          /\ published' = [published EXCEPT ![f] = iface[f].hash]
          /\ agreed' = [agreed EXCEPT ![f] = iface[f].hash]
       \/ /\ iface' = [iface EXCEPT ![f].status = "rejected"]
          /\ published' = [published EXCEPT ![f] = 0]
          /\ UNCHANGED agreed
    /\ UNCHANGED <<file, edits, indexed, blind, ann, metaVars, scannerVars, faults>>

-----------------------------------------------------------------------------
(* Files and the structure of the code *)

(* A committed change of a file, or its removal. *)
Edit(f) ==
    /\ edits < MaxEdit /\ edits' = edits + 1
    /\ \E v \in {0, edits + 2} \ {file[f]} : file' = [file EXCEPT ![f] = v]
    /\ UNCHANGED <<indexed, blind, ann, metaVars, scannerVars, candidateVars, faults>>

(* _collect_blind_spots on what is on disk. *)
Analysed(f) == IF file[f] \in Dynamic THEN "open" ELSE "none"

(* rescan(): replaces the whole code map and its static blind spots and    *)
(* asks for a semantic scan.  It does not look at the annotations.         *)
Rescan ==
    /\ indexed' = file
    /\ blind' = [f \in Path |-> Analysed(f)]
    /\ Room(blind', 0)
    /\ RefreshCandidates(file)
    /\ scan' = "structure_ready" /\ sem' = "pending"
    /\ runId' = 0 /\ interrupted' = FALSE
    /\ UNCHANGED <<file, edits, ann, runSeq, scannerVars, faults>>

RescanFails ==
    /\ faults < MaxFault /\ faults' = faults + 1
    /\ scan' = "failed"
    /\ UNCHANGED <<file, edits, indexed, blind, ann, sem, runId, runSeq, interrupted, scannerVars,
                   candidateVars>>

(* Fault: the annotations are collected after the file's rows are purged. *)
SnapshotsAfterPurge(f) == {}

(* The annotations of a file that a refresh has to look at. *)
Snapshots(f) == {a \in Ann : Live(a) /\ ann[a].path = f /\ indexed[f] # 0}

(* _reconcile_annotations_after_refresh and _set_annotation_stale: an      *)
(* annotation of other content goes stale and its objection is closed.     *)
Reconciled(f) ==
    [a \in Ann |->
        IF a \in Snapshots(f) /\ (file[f] = 0 \/ ann[a].hash # file[f])
        THEN [ann[a] EXCEPT !.status = "stale",
                            !.objection = IF @ = "pending" THEN "resolved" ELSE @]
        ELSE ann[a]]

(* _refresh_code_paths_in_connection for one changed path.  The map's      *)
(* status stays what it is, also when the last objection was closed.       *)
Refresh(f) ==
    /\ indexed' = [indexed EXCEPT ![f] = file[f]]
    /\ blind' = [blind EXCEPT ![f] = Analysed(f)]
    /\ Room(blind', 0)
    /\ ann' = Reconciled(f)
    /\ RefreshCandidates([indexed EXCEPT ![f] = file[f]])
    /\ UNCHANGED <<file, edits, metaVars, scannerVars, faults>>

(* mark_map_degraded, from the map runtime. *)
Degrade ==
    /\ faults < MaxFault /\ faults' = faults + 1
    /\ scan' = "stale"
    /\ UNCHANGED <<file, edits, indexed, blind, ann, sem, runId, runSeq, interrupted, scannerVars,
                   candidateVars>>

-----------------------------------------------------------------------------
(* Annotations and arbitration *)

(* propose_semantic_annotation: the hash must be that of the file on disk; *)
(* a confident annotation is adopted, any other waits for a person.        *)
Propose(f) ==
    /\ indexed[f] # 0 /\ file[f] # 0
    /\ Room(blind, 1)
    /\ \E a \in Unused, how \in {"active", "pending"} :
          /\ a = Cardinality(Ann \ Unused) + 1
          /\ ann' = [ann EXCEPT ![a] =
                [path |-> f, hash |-> file[f], status |-> how,
                 objection |-> IF how = "pending" THEN "pending" ELSE "none", stray |-> FALSE]]
          /\ scan' = IF how = "pending" THEN "needs_arbitration" ELSE scan
    /\ UNCHANGED <<file, edits, indexed, blind, sem, runId, runSeq, interrupted, scannerVars,
                   candidateVars, faults>>

StatusAfterArbitration(pending) ==
    IF pending THEN "needs_arbitration"
    ELSE IF sem = "completed" THEN "ready" ELSE "semantic_scanning"

(* resolve_objection.  A refusal needs nothing; an acceptance needs the    *)
(* annotated source to be indexed and its file to be what was annotated.   *)
ResolveObjection(a) ==
    /\ ann[a].objection = "pending"
    /\ \E decision \in {"active", "rejected"} :
          /\ decision = "active" =>
                /\ indexed[ann[a].path] # 0
                /\ ann[a].status # "stale"
                /\ file[ann[a].path] # 0
                /\ ann[a].hash = file[ann[a].path]
          /\ ann' = [ann EXCEPT ![a].status = decision, ![a].objection = "resolved"]
    /\ scan' = StatusAfterArbitration(Pending # {a})
    /\ UNCHANGED <<file, edits, indexed, blind, sem, runId, runSeq, interrupted, scannerVars,
                   candidateVars, faults>>

-----------------------------------------------------------------------------
(* The semantic scan *)

Go(s, where) == pc' = [pc EXCEPT ![s] = where]

(* The caller has its answer; what it held is forgotten. *)
Leave(s) == /\ Go(s, "idle")
            /\ token' = [token EXCEPT ![s] = 0]
            /\ calm' = [calm EXCEPT ![s] = FALSE]

Scannable == scan \in {"structure_ready", "semantic_scanning"}

(* A run that failed or was interrupted is continued under its id, any     *)
(* other run gets a new one.                                               *)
NextRunId == IF runId # 0 /\ (sem = "failed" \/ interrupted) THEN runId ELSE runSeq + 1

(* The first transaction of _try_acquire_semantic_scan_lock.  Its update   *)
(* repeats what run_semantic_scan read before it, so a request that finds  *)
(* the scan completed, running or not allowed changes nothing.             *)
Claim(s) ==
    /\ pc[s] = "idle"
    /\ sem \in {"pending", "not_started", "failed"} /\ Scannable
    /\ NextRunId <= MaxRun
    /\ sem' = "running"
    /\ runId' = NextRunId
    /\ runSeq' = IF NextRunId > runSeq THEN NextRunId ELSE runSeq
    /\ interrupted' = IF sem # "failed" /\ runId # 0 THEN FALSE ELSE interrupted
    /\ token' = [token EXCEPT ![s] = NextRunId]
    /\ Go(s, "enter")
    /\ UNCHANGED <<file, edits, indexed, blind, ann, scan, calm, candidateVars, faults>>

(* Its second transaction moves the map on, or gives the claim back.       *)
EnterScan(s) ==
    /\ pc[s] = "enter"
    /\ IF Scannable
       THEN /\ scan' = "semantic_scanning"
            /\ Go(s, "batch")
            /\ UNCHANGED <<sem, token, calm>>
       ELSE /\ sem' = IF sem = "running" THEN "pending" ELSE sem
            /\ Leave(s)
            /\ UNCHANGED scan
    /\ UNCHANGED <<file, edits, indexed, blind, ann, runId, runSeq, interrupted, candidateVars,
                   faults>>

(* One batch of SemanticScanService: the open blind spots of a file go to  *)
(* arbitration.  A file with blind spots is indexed: both are found in one *)
(* analysis and purged together.                                           *)
Batch(s) ==
    /\ pc[s] = "batch"
    /\ \E f \in Open(blind), a \in Unused :
          /\ a = Cardinality(Ann \ Unused) + 1
          /\ blind' = [blind EXCEPT ![f] = "routed"]
          /\ ann' = [ann EXCEPT ![a] = [path |-> f, hash |-> file[f], status |-> "pending",
                                        objection |-> "pending",
                                        stray |-> token[s] # runId \/ sem # "running"]]
    /\ UNCHANGED <<file, edits, indexed, metaVars, scannerVars, candidateVars, faults>>

(* Nothing is left: mark_semantic_scan_completed counts the objections ... *)
CountPending(s) ==
    /\ pc[s] = "batch"
    /\ Open(blind) = {}
    /\ calm' = [calm EXCEPT ![s] = Pending = {}]
    /\ Go(s, "commit")
    /\ UNCHANGED <<file, edits, indexed, blind, ann, metaVars, token, candidateVars, faults>>

(* Fault: the run commits whoever owns the token. *)
OwnsByStatus(s) == sem = "running" /\ scan = "semantic_scanning"

(* Fault: the outcome does not depend on where the map has gone meanwhile. *)
OwnsToken(s) == sem = "running" /\ runId = token[s]

(* The compare-and-set of _commit_semantic_run_terminal. *)
Owns(s) == sem = "running" /\ runId = token[s] /\ scan = "semantic_scanning"

(* Fault: a run that may not commit leaves its mark behind. *)
TerminalOrNothing(s, semStatus, mapStatus) ==
    IF Owns(s) THEN sem' = semStatus /\ scan' = mapStatus ELSE UNCHANGED <<sem, scan>>

(* A terminal status for the run, or its claim handed back. *)
Terminal(s, semStatus, mapStatus) ==
    IF Owns(s)
    THEN sem' = semStatus /\ scan' = mapStatus
    ELSE /\ sem' = IF sem = "running" /\ runId = token[s] THEN "pending" ELSE sem
         /\ UNCHANGED scan

(* ... and commits. *)
CommitScan(s) ==
    /\ pc[s] = "commit"
    /\ Terminal(s, "completed", IF calm[s] THEN "ready" ELSE "needs_arbitration")
    /\ Leave(s)
    /\ UNCHANGED <<file, edits, indexed, blind, ann, runId, runSeq, interrupted, candidateVars,
                   faults>>

(* A batch raises. *)
ScanFails(s) ==
    /\ pc[s] = "batch"
    /\ faults < MaxFault /\ faults' = faults + 1
    /\ Terminal(s, "failed", "semantic_scanning")
    /\ Leave(s)
    /\ UNCHANGED <<file, edits, indexed, blind, ann, runId, runSeq, interrupted, candidateVars>>

(* The process ends and a new one opens the project: initialize() finds the *)
(* running mark in plan.db and makes it pending again, to be continued.    *)
Restart ==
    /\ faults < MaxFault /\ faults' = faults + 1
    /\ \E s \in Scanner : pc[s] # "idle"
    /\ pc' = [s \in Scanner |-> "idle"]
    /\ token' = [s \in Scanner |-> 0]
    /\ calm' = [s \in Scanner |-> FALSE]
    /\ sem' = IF sem = "running" THEN "pending" ELSE sem
    /\ interrupted' = (sem = "running" \/ interrupted)
    /\ UNCHANGED <<file, edits, indexed, blind, ann, scan, runId, runSeq, candidateVars>>

ScanStep(s) == \/ EnterScan(s) \/ Batch(s) \/ CountPending(s) \/ CommitScan(s)
               \/ ScanFails(s)

CodeNext == Rescan \/ \E f \in Path : Edit(f) \/ Refresh(f)

CandidateNext == CodeNext \/ \E f \in Path : DecideCandidate(f)

ScanNext ==
    \/ CodeNext \/ RescanFails \/ Degrade \/ Restart
    \/ \E f \in Path : Propose(f)
    \/ \E a \in Ann : ResolveObjection(a)
    \/ \E s \in Scanner : Claim(s) \/ ScanStep(s)

MapNext == ScanNext \/ CandidateNext

(* run_semantic_scan never waits for anything. *)
MapFairness == \A s \in Scanner : WF_vars(ScanStep(s))

MapSpec == Init /\ [][MapNext]_vars /\ MapFairness

-----------------------------------------------------------------------------
(* Properties *)

TypeOK ==
    /\ file \in [Path -> Version] /\ edits \in 0 .. MaxEdit
    /\ indexed \in [Path -> Version]
    /\ blind \in [Path -> {"none", "open", "routed"}]
    /\ ann \in [Ann -> [path : Path, hash : Version,
                        status : {"none", "active", "pending", "stale", "rejected"},
                        objection : {"none", "pending", "resolved"},
                        stray : BOOLEAN]]
    /\ scan \in {"not_scanned", "structure_ready", "semantic_scanning", "needs_arbitration",
                 "ready", "failed", "stale"}
    /\ sem \in {"not_started", "pending", "running", "completed", "failed"}
    /\ runId \in 0 .. MaxRun /\ runSeq \in 0 .. MaxRun /\ interrupted \in BOOLEAN
    /\ pc \in [Scanner -> {"idle", "enter", "batch", "commit"}]
    /\ token \in [Scanner -> 0 .. MaxRun] /\ calm \in [Scanner -> BOOLEAN]
    /\ iface \in [Path -> [hash : Version, status : {"none", "candidate", "confirmed",
                                                     "rejected", "stale"}]]
    /\ published \in [Path -> Version]
    /\ agreed \in [Path -> Version]
    /\ faults \in 0 .. MaxFault

(* The gate for chatting and for editing the plan opens only on a map whose *)
(* semantic scan is complete and with no objection waiting for a person,   *)
(* however a scan's count, an objection raised meanwhile, a rescan and an  *)
(* arbitration come between one another (can_chat, can_edit_plan).  The    *)
(* exception the code leaves: a scanner that a rescan has superseded goes  *)
(* on routing blind spots, also between another's count and its commit.    *)
ReadyIsArbitrated ==
    scan = "ready" => /\ sem = "completed"
                      /\ \A a \in Pending : ann[a].stray

(* One run at a time: at most one scanner can still commit, and none can   *)
(* once the scan is complete.                                              *)
Owners == {s \in Scanner : pc[s] \in {"batch", "commit"} /\ token[s] = runId}

OneOwner == /\ Cardinality(Owners) <= 1
            /\ sem = "completed" => Owners = {}

(* A refresh leaves no annotation in force that speaks of older content    *)
(* than the map has: the status it was given, its objection and the order  *)
(* of edit, proposal and refresh do not matter.  A full rescan does not    *)
(* reconcile annotations, so this is about refreshes (an action property). *)
RefreshReconciles ==
    [][\A f \in Path : Refresh(f) =>
          \A a \in Ann : (ann'[a].path = f /\ ann'[a].status = "active" /\ indexed[f] # 0)
                            => ann'[a].hash = indexed'[f]]_vars

(* What module_interfaces holds is what a person confirmed, at exactly the *)
(* fingerprint that was confirmed, and nothing that is stale or rejected.  *)
PublishedIsAgreed ==
    \A f \in Path :
        /\ iface[f].status = "confirmed" => agreed[f] = iface[f].hash
        /\ published[f] # 0 <=> iface[f].status = "confirmed"
        /\ published[f] # 0 => published[f] = iface[f].hash

(* A scan that has started ends, through failures, a crash and a restart.  *)
ScanEnds == sem = "running" ~> sem # "running"

(* Whoever scans, edits, objects and decides meanwhile, what the map says    *)
(* of itself is agreed: its readiness, its run and its interfaces.          *)
MapAgreed == TypeOK /\ ReadyIsArbitrated /\ OneOwner /\ PublishedIsAgreed
=============================================================================
