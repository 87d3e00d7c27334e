--------------------------- MODULE ModuleContainer ---------------------------
(***************************************************************************)
(* The container of one module: candidate runs of several workers share    *)
(* one docker container per boundary fingerprint and one active slot, the  *)
(* host directory mounted into it (agent/container: backend, orchestrator, *)
(* lifecycle, active_slot, entrypoint, container_control, runner).         *)
(*                                                                         *)
(* A run owns one candidate directory and executes commands one after      *)
(* another.  An execution publishes pending evidence, takes the module     *)
(* lock, prepares the slot from the candidate, acquires a container, runs  *)
(* its task, collects the slot, releases the lock and publishes the result.*)
(* Files are the set of executions that wrote them.  The docker daemon is  *)
(* external: `up' is its view of the container that bears the name of a    *)
(* key, `used' the executions started in that container, `procs' those     *)
(* whose process is still alive.                                           *)
(***************************************************************************)
EXTENDS Naturals, FiniteSets

CONSTANTS
    Run,       \* worker runs of this module, one candidate each
    Key,       \* registry keys: boundary fingerprint and image
    MaxExec,   \* bound: executions started
    MaxFault,  \* bound: crashes of the backend, refusals of the daemon, file errors
    NoRun      \* nobody holds the module lock

ASSUME ContainerAssumption ==
    MaxExec \in Nat /\ MaxFault \in Nat /\ NoRun \notin Run

VARIABLES
    keyOf,     \* registry key of each run: the boundary its candidate was built for
    run,       \* thread of each run: where its current execution is
    lock,      \* holder of the module lock
    registry,  \* Key -> state of the in-memory record, "none" without one
    up, used, procs,
    slot,      \* the active slot: files, lease, evidence files, trust, roots
    cand,      \* candidate directory of each run
    owner,     \* owner[e]: the run execution e belongs to
    loose,     \* ghost: executions whose process outlived its docker exec
    stuck,     \* ghost: a removal has failed
    good,      \* ghost: executions that exited 0 with a valid envelope
    faults

vars == <<keyOf, run, lock, registry, up, used, procs, slot, cand, owner, loose, stuck,
          good, faults>>

Exec == 1..MaxExec
Started == {e \in Exec : owner[e] # NoRun}

(* control-evidence.json and its mirror: the execution and its status.     *)
Evidence == [ex : 0..MaxExec, status : {"none", "pending", "failed", "completed", "task"}]
NoEvidence == [ex |-> 0, status |-> "none"]
Candidate == [files : SUBSET Exec, auth : Evidence, mirror : Evidence, by : 0..MaxExec]

AtRest == [pc |-> "rest", ex |-> 0, replace |-> FALSE, result |-> "none"]
InTransaction == {"retire", "obtain", "create", "exec", "running", "collect"}

-----------------------------------------------------------------------------
Init ==
    /\ keyOf \in [Run -> Key]
    /\ run = [r \in Run |-> AtRest]
    /\ lock = NoRun
    /\ registry = [k \in Key |-> "none"]
    /\ up = [k \in Key |-> "none"]
    /\ used = [k \in Key |-> {}] /\ procs = [k \in Key |-> {}]
    /\ slot = [files |-> {}, lease |-> NoRun, auth |-> NoEvidence, mirror |-> NoEvidence,
               trust |-> "absent", root |-> "own"]
    /\ cand = [r \in Run |-> [files |-> {}, auth |-> NoEvidence, mirror |-> NoEvidence, by |-> 0]]
    /\ owner = [e \in Exec |-> NoRun]
    /\ loose = {} /\ stuck = FALSE /\ good = {} /\ faults = 0

daemonVars == <<up, used, procs>>
ghosts == <<owner, loose, good>>
Fault == faults < MaxFault /\ faults' = faults + 1
Goes(r, pc) == run' = [run EXCEPT ![r].pc = pc]
Ends(r, pc, result) == run' = [run EXCEPT ![r].pc = pc, ![r].result = result]

-----------------------------------------------------------------------------
(* Evidence: publish_run_evidence writes the authoritative file, then the  *)
(* mirror, each atomically.                                                *)
PublishAuthoritative(r, e, status) ==
    cand' = [cand EXCEPT ![r].auth = [ex |-> e, status |-> status]]
PublishMirror(r, e, status) ==
    cand' = [cand EXCEPT ![r].mirror = [ex |-> e, status |-> status]]

(* Fault: the pending evidence is left out.                                *)
BeginUnannounced(r) ==
    \E replace \in BOOLEAN :
        LET e == Cardinality(Started) + 1 IN
        /\ run[r].pc = "rest" /\ e <= MaxExec
        /\ owner' = [owner EXCEPT ![e] = r]
        /\ run' = [run EXCEPT ![r] = [pc |-> "wait", ex |-> e, replace |-> replace,
                                      result |-> "none"]]
        /\ UNCHANGED <<keyOf, lock, registry, daemonVars, slot, cand, loose, stuck, good, faults>>

(* A command or a test run of worker r starts; run_authoritative_tests asks *)
(* for a replaced container.                                               *)
Begin(r) ==
    \E replace \in BOOLEAN :
        LET e == Cardinality(Started) + 1 IN
        /\ run[r].pc = "rest" /\ e <= MaxExec
        /\ owner' = [owner EXCEPT ![e] = r]
        /\ run' = [run EXCEPT ![r] = [pc |-> "begin", ex |-> e, replace |-> replace,
                                      result |-> "none"]]
        /\ PublishAuthoritative(r, e, "pending")
        /\ UNCHANGED <<keyOf, lock, registry, daemonVars, slot, loose, stuck, good, faults>>

BeginMirror(r) ==
    /\ run[r].pc = "begin"
    /\ PublishMirror(r, run[r].ex, "pending")
    /\ Goes(r, "wait")
    /\ UNCHANGED <<keyOf, lock, registry, daemonVars, slot, ghosts, stuck, faults>>

-----------------------------------------------------------------------------
(* The slot.  Its trust is recorded once, when the tree is first created;   *)
(* after that every access compares the roots with the recorded ones.      *)
TrustAfterEnsure == IF slot.trust = "absent" THEN "ready" ELSE slot.trust

(* _run_mount_root_access: the record is complete and names these roots.    *)
RootAccess == TrustAfterEnsure = "ready" /\ slot.root = "own"

(* Fault: the slot keeps what the run before left in it.                   *)
PopulatedOver(r) ==
    [slot EXCEPT !.files = @ \cup cand[r].files, !.lease = r, !.auth = cand[r].auth,
                 !.mirror = cand[r].mirror, !.trust = TrustAfterEnsure]

(* ensure_slot_roots, clear, copy of the candidate, lease.                 *)
Populated(r) ==
    [slot EXCEPT !.files = cand[r].files, !.lease = r, !.auth = cand[r].auth,
                 !.mirror = cand[r].mirror, !.trust = TrustAfterEnsure]

(* The module lock is taken and the slot filled; the lock is free again     *)
(* when prepare_active_slot raises.                                         *)
Prepare(r) ==
    /\ run[r].pc = "wait" /\ lock = NoRun /\ RootAccess
    /\ slot' = Populated(r) /\ lock' = r
    /\ Goes(r, "retire")
    /\ UNCHANGED <<keyOf, registry, daemonVars, cand, ghosts, stuck, faults>>

(* prepare_active_slot refuses a root: nothing is collected, and the record *)
(* is marked compromised afterwards.                                        *)
PrepareRefused(r) ==
    /\ run[r].pc = "wait" /\ lock = NoRun /\ ~RootAccess
    /\ slot' = [slot EXCEPT !.trust = TrustAfterEnsure]
    /\ Ends(r, "compromised", "failed")
    /\ UNCHANGED <<keyOf, lock, registry, daemonVars, cand, ghosts, stuck, faults>>

MarkSlotRootCompromised(r) ==
    /\ run[r].pc = "compromised"
    /\ registry' = [registry EXCEPT ![keyOf[r]] = IF @ = "none" THEN @ ELSE "tainted"]
    /\ Goes(r, "publish")
    /\ UNCHANGED <<keyOf, lock, daemonVars, slot, cand, ghosts, stuck, faults>>

(* Anything else that fails while the slot is filled.                      *)
PrepareFails(r) ==
    /\ run[r].pc = "wait" /\ lock = NoRun /\ RootAccess /\ Fault
    /\ \E part \in SUBSET cand[r].files :
           slot' = [slot EXCEPT !.files = part, !.trust = TrustAfterEnsure,
                                !.auth = NoEvidence, !.mirror = NoEvidence]
    /\ Ends(r, "publish", "failed")
    /\ UNCHANGED <<keyOf, lock, registry, daemonVars, cand, ghosts, stuck>>

-----------------------------------------------------------------------------
(* Removing the containers of keys ks: docker rm -f kills their processes.  *)
Removed(ks) ==
    /\ up' = [k \in Key |-> IF k \in ks THEN "none" ELSE up[k]]
    /\ used' = [k \in Key |-> IF k \in ks THEN {} ELSE used[k]]
    /\ procs' = [k \in Key |-> IF k \in ks THEN {} ELSE procs[k]]

(* cleanup_container swallows the error of a removal.                       *)
Cleanup(ks) ==
    \/ Removed(ks) /\ UNCHANGED <<stuck, faults>>
    \/ \E kept \in SUBSET {k \in ks : up[k] # "none"} :
           kept # {} /\ Fault /\ stuck' = TRUE /\ Removed(ks \ kept)

(* Fault: only what the registry remembers is retired.                      *)
RetireRegistered(r) ==
    LET others == {k \in Key \ {keyOf[r]} : registry[k] # "none"} IN
    /\ run[r].pc = "retire"
    /\ Cleanup(others)
    /\ registry' = [k \in Key |-> IF k \in others THEN "none" ELSE registry[k]]
    /\ Goes(r, "obtain")
    /\ UNCHANGED <<keyOf, lock, slot, cand, ghosts>>

(* _retire_other_module_containers, _retire_discovered_module_containers.   *)
Retire(r) ==
    LET others == {k \in Key \ {keyOf[r]} : registry[k] # "none" \/ up[k] # "none"} IN
    /\ run[r].pc = "retire"
    /\ Cleanup(others)
    /\ registry' = [k \in Key |-> IF k \in others THEN "none" ELSE registry[k]]
    /\ Goes(r, "obtain")
    /\ UNCHANGED <<keyOf, lock, slot, cand, ghosts>>

(* Fault: a replaced container is only asked for by a taint.                *)
TaintedOnly(r) ==
    registry[keyOf[r]] = "tainted" \/ (registry[keyOf[r]] = "idle" /\ up[keyOf[r]] # "running")

(* The record may not be reused: asked for, tainted, or unhealthy.          *)
Replacing(r) ==
    \/ run[r].replace
    \/ registry[keyOf[r]] = "tainted"
    \/ registry[keyOf[r]] = "idle" /\ up[keyOf[r]] # "running"

(* _acquire_locked: the registered container is reused.                     *)
Reuse(r) ==
    /\ run[r].pc = "obtain" /\ registry[keyOf[r]] = "idle" /\ ~Replacing(r)
    /\ Goes(r, "exec")
    /\ UNCHANGED <<keyOf, lock, registry, daemonVars, slot, cand, ghosts, stuck, faults>>

(* A running container of that name is recorded; it is used unless it had   *)
(* to be replaced, and then creating the new one meets its name.            *)
AdoptOrCreate(r) ==
    LET k == keyOf[r]
        found == up'[k] = "running" IN
    /\ registry' = [registry EXCEPT ![k] = IF found THEN "idle" ELSE "none"]
    /\ Goes(r, IF found /\ ~Replacing(r) THEN "exec" ELSE "create")

(* A registered container is removed first, whether or not that succeeds.   *)
Replace(r) ==
    /\ run[r].pc = "obtain" /\ registry[keyOf[r]] # "none" /\ Replacing(r)
    /\ Cleanup({keyOf[r]})
    /\ AdoptOrCreate(r)
    /\ UNCHANGED <<keyOf, lock, slot, cand, ghosts>>

Discover(r) ==
    /\ run[r].pc = "obtain" /\ registry[keyOf[r]] = "none"
    /\ UNCHANGED <<daemonVars, stuck, faults>>
    /\ AdoptOrCreate(r)
    /\ UNCHANGED <<keyOf, lock, slot, cand, ghosts>>

(* The daemon stops answering inside the acquisition: the exception passes  *)
(* the failure mapping, the slot is collected and the evidence stays        *)
(* pending.                                                                 *)
ObtainRaises(r) ==
    /\ run[r].pc = "obtain" /\ Fault
    /\ Ends(r, "collect", "raised")
    /\ UNCHANGED <<keyOf, lock, registry, daemonVars, slot, cand, ghosts, stuck>>

(* runner.create and runner.start: the new container is registered idle.    *)
Create(r) ==
    LET k == keyOf[r] IN
    /\ run[r].pc = "create" /\ up[k] = "none"
    /\ up' = [up EXCEPT ![k] = "running"]
    /\ registry' = [registry EXCEPT ![k] = "idle"]
    /\ Goes(r, "exec")
    /\ UNCHANGED <<keyOf, lock, used, procs, slot, cand, ghosts, stuck, faults>>

(* ModuleTransactionCreateError: the name is taken, or the daemon refuses.  *)
CreateFails(r) ==
    /\ run[r].pc = "create"
    /\ (IF up[keyOf[r]] = "none" THEN Fault ELSE UNCHANGED faults)
    /\ Ends(r, "collect", "failed")
    /\ UNCHANGED <<keyOf, lock, registry, daemonVars, slot, cand, ghosts, stuck>>

(* ModuleTransactionStartError: strict_cleanup_container removes the new    *)
(* container, or fails too and leaves it created.                           *)
StartFails(r) ==
    LET k == keyOf[r] IN
    /\ run[r].pc = "create" /\ up[k] = "none" /\ Fault
    /\ up' = [up EXCEPT ![k] = "created"] /\ stuck' = TRUE
    /\ Ends(r, "collect", "failed")
    /\ UNCHANGED <<keyOf, lock, registry, used, procs, slot, cand, ghosts>>

-----------------------------------------------------------------------------
(* _exec_task_unlocked: docker exec starts the task's process.              *)
StartExec(r) ==
    LET k == keyOf[r]
        e == run[r].ex IN
    /\ run[r].pc = "exec"
    /\ registry' = [registry EXCEPT ![k] = "running"]
    /\ IF up[k] = "running"
       THEN used' = [used EXCEPT ![k] = @ \cup {e}] /\ procs' = [procs EXCEPT ![k] = @ \cup {e}]
       ELSE UNCHANGED <<used, procs>>
    /\ Goes(r, "running")
    /\ UNCHANGED <<keyOf, lock, up, slot, cand, ghosts, stuck, faults>>

(* A process nobody waits for still writes the mounted directories.         *)
LooseWrites ==
    \E k \in Key : \E e \in (procs[k] \cap loose) \ slot.files :
        /\ slot.root = "own"
        /\ slot' = [slot EXCEPT !.files = @ \cup {e}]
        /\ UNCHANGED <<keyOf, run, lock, registry, daemonVars, cand, ghosts, stuck, faults>>

(* What a task has written when it ends: its files and its own manifest,    *)
(* in the place of the mirror.                                              *)
TaskWrites(e) ==
    IF slot.root # "own" THEN slot
    ELSE [slot EXCEPT !.files = @ \cup {e}, !.mirror = [ex |-> e, status |-> "task"]]

(* The process of a run's own docker exec ends.  The task refuses a slot    *)
(* whose lease is another's; otherwise its tests pass or fail, and its      *)
(* envelope may be unreadable.                                              *)
ExecExits(r) ==
    LET k == keyOf[r]
        e == run[r].ex IN
    /\ run[r].pc = "running"
    /\ procs' = [procs EXCEPT ![k] = @ \ {e}]
    /\ slot' = IF e \in procs[k] THEN TaskWrites(e) ELSE slot
    /\ registry' = [registry EXCEPT ![k] = "idle"]
    /\ \E result \in IF e \in procs[k] /\ slot.lease \in {r, NoRun}
                     THEN {"ok", "unreadable", "exit"} ELSE {"exit"} :
           /\ Ends(r, "collect", result)
           /\ good' = IF result = "ok" THEN good \cup {e} ELSE good
    /\ UNCHANGED <<keyOf, lock, up, used, cand, owner, loose, stuck, faults>>

(* TimeoutError: docker exec's client is gone, the process is not.          *)
ExecTimesOut(r) ==
    LET e == run[r].ex IN
    /\ run[r].pc = "running" /\ e \in procs[keyOf[r]]
    /\ registry' = [registry EXCEPT ![keyOf[r]] = "tainted"]
    /\ loose' = loose \cup {e}
    /\ Ends(r, "collect", "exit")
    /\ UNCHANGED <<keyOf, lock, daemonVars, slot, cand, owner, good, stuck, faults>>

(* The docker client cannot be run; _recover_idle looks at the container.   *)
ExecRaises(r) ==
    LET k == keyOf[r] IN
    /\ run[r].pc = "exec" /\ Fault
    /\ registry' = [registry EXCEPT ![k] = IF up[k] = "running" THEN "idle" ELSE "tainted"]
    /\ Ends(r, "collect", "exit")
    /\ UNCHANGED <<keyOf, lock, daemonVars, slot, cand, ghosts, stuck>>

(* A process nobody waits for ends by itself.                               *)
LooseEnds ==
    \E k \in Key : \E e \in procs[k] \cap loose :
        /\ procs' = [procs EXCEPT ![k] = @ \ {e}]
        /\ slot' = TaskWrites(e)
        /\ UNCHANGED <<keyOf, run, lock, registry, up, used, cand, ghosts, stuck, faults>>

-----------------------------------------------------------------------------
(* collect_active_slot replaces output, diagnostics and project of the      *)
(* candidate, in this order, by the slot's.                                 *)
Collected(r) ==
    [files |-> slot.files, auth |-> slot.auth, mirror |-> slot.mirror, by |-> run[r].ex]

(* Fault: only a successful transaction releases the lock.                  *)
ReleasedOnSuccess(r, result) ==
    /\ lock' = IF result = "ok" THEN NoRun ELSE lock
    /\ run' = [run EXCEPT ![r] =
           IF result = "raised" THEN AtRest
           ELSE [@ EXCEPT !.result = result, !.pc = IF result = "exit" THEN "mark" ELSE "publish"]]

(* What follows the released lock: an ExecError is marked first, and an     *)
(* exception that is no module failure leaves the evidence as it is.        *)
Released(r, result) ==
    /\ lock' = NoRun
    /\ run' = [run EXCEPT ![r] =
           IF result = "raised" THEN AtRest
           ELSE [@ EXCEPT !.result = result, !.pc = IF result = "exit" THEN "mark" ELSE "publish"]]

Collect(r) ==
    /\ run[r].pc = "collect" /\ RootAccess
    /\ cand' = [cand EXCEPT ![r] = Collected(r)]
    /\ Released(r, run[r].result)
    /\ UNCHANGED <<keyOf, registry, daemonVars, slot, ghosts, stuck, faults>>

(* A collection that fails, at once or part way: a failure of its own after *)
(* a success, secondary to an earlier failure otherwise.                    *)
CollectFails(r) ==
    LET c == cand[r]
        out == [c EXCEPT !.mirror = slot.mirror]
        diag == [out EXCEPT !.auth = slot.auth] IN
    /\ run[r].pc = "collect"
    /\ IF RootAccess
       THEN /\ Fault
            /\ \E part \in {[c EXCEPT !.mirror = NoEvidence], [out EXCEPT !.auth = NoEvidence],
                            [diag EXCEPT !.files = {}]} : cand' = [cand EXCEPT ![r] = part]
       ELSE UNCHANGED <<cand, faults>>
    /\ Released(r, IF run[r].result \in {"ok", "unreadable"} THEN "failed" ELSE run[r].result)
    /\ UNCHANGED <<keyOf, registry, daemonVars, slot, ghosts, stuck>>

(* mark_run_failed, outside the lock: any record that is not running counts *)
(* as idle again, a timed-out one too.                                      *)
MarkRunFailed(r) ==
    /\ run[r].pc = "mark"
    /\ registry' = [registry EXCEPT ![keyOf[r]] = IF @ \in {"none", "running"} THEN @ ELSE "idle"]
    /\ Goes(r, "publish")
    /\ UNCHANGED <<keyOf, lock, daemonVars, slot, cand, ghosts, stuck, faults>>

(* Only an accepted envelope of a successful, collected task completes.     *)
Verdict(result) == IF result = "ok" THEN "completed" ELSE "failed"

Publish(r) ==
    /\ run[r].pc = "publish"
    /\ PublishAuthoritative(r, run[r].ex, Verdict(run[r].result))
    /\ Goes(r, "mirror")
    /\ UNCHANGED <<keyOf, lock, registry, daemonVars, slot, ghosts, stuck, faults>>

PublishEnds(r) ==
    /\ run[r].pc = "mirror"
    /\ PublishMirror(r, run[r].ex, Verdict(run[r].result))
    /\ run' = [run EXCEPT ![r] = AtRest]
    /\ UNCHANGED <<keyOf, lock, registry, daemonVars, slot, ghosts, stuck, faults>>

-----------------------------------------------------------------------------
(* The backend dies: the registry and every thread are lost, containers and *)
(* their processes are not.  A first preparation may be cut short between   *)
(* the tree, the baseline and the marker.                                   *)
Crash ==
    /\ Fault
    /\ \E t \in IF lock = NoRun /\ slot.trust = "absent" /\ \E r \in Run : run[r].pc = "wait"
                THEN {"absent", "tree", "baseline"} ELSE {slot.trust} :
           slot' = [slot EXCEPT !.trust = t]
    /\ run' = [r \in Run |-> AtRest] /\ lock' = NoRun
    /\ registry' = [k \in Key |-> "none"]
    /\ loose' = loose \cup UNION {procs[k] : k \in Key}
    /\ UNCHANGED <<keyOf, daemonVars, cand, owner, good, stuck>>

ContainerDies ==
    \E k \in Key :
        /\ up[k] = "running" /\ Fault
        /\ up' = [up EXCEPT ![k] = "dead"] /\ procs' = [procs EXCEPT ![k] = {}]
        /\ UNCHANGED <<keyOf, run, lock, registry, used, slot, cand, ghosts, stuck>>

(* Someone replaces the slot directories of the host; what is mounted in    *)
(* the containers are still the old ones.                                   *)
RootReplaced ==
    /\ slot.trust # "absent" /\ slot.root = "own" /\ Fault
    /\ slot' = [slot EXCEPT !.root = "other", !.files = {}, !.lease = NoRun,
                            !.auth = NoEvidence, !.mirror = NoEvidence]
    /\ UNCHANGED <<keyOf, run, lock, registry, daemonVars, cand, ghosts, stuck>>

Evidences(r) == Begin(r) \/ BeginMirror(r) \/ Publish(r) \/ PublishEnds(r)
Slots(r) == Prepare(r) \/ PrepareRefused(r) \/ MarkSlotRootCompromised(r)
            \/ PrepareFails(r) \/ Collect(r) \/ CollectFails(r) \/ MarkRunFailed(r)
Acquires(r) == Retire(r) \/ Reuse(r) \/ Replace(r) \/ Discover(r) \/ ObtainRaises(r)
               \/ Create(r) \/ CreateFails(r) \/ StartFails(r)
Executes(r) == StartExec(r) \/ ExecExits(r) \/ ExecTimesOut(r) \/ ExecRaises(r)
Advances(r) == (Evidences(r) /\ run[r].pc # "rest") \/ Slots(r) \/ Acquires(r) \/ Executes(r)

Next == \/ \E r \in Run : Evidences(r) \/ Slots(r) \/ Acquires(r) \/ Executes(r)
        \/ LooseWrites \/ LooseEnds \/ Crash \/ ContainerDies \/ RootReplaced

(* A thread that is not blocked goes on, and docker exec ends by its        *)
(* timeout at the latest.                                                   *)
Fairness == \A r \in Run : WF_vars(Advances(r))
Spec == Init /\ [][Next]_vars /\ Fairness

-----------------------------------------------------------------------------
(* Types.                                                                   *)
TypeOK ==
    /\ lock \in Run \cup {NoRun}
    /\ \A r \in Run :
        /\ run[r].ex \in 0..MaxExec /\ run[r].replace \in BOOLEAN
        /\ run[r].result \in {"none", "failed", "raised", "ok", "unreadable", "exit"}
        /\ run[r].pc \in InTransaction
               \cup {"rest", "begin", "wait", "compromised", "mark", "publish", "mirror"}
        /\ (run[r].pc \in InTransaction <=> lock = r)
    /\ registry \in [Key -> {"none", "idle", "running", "tainted"}]
    /\ up \in [Key -> {"none", "created", "running", "dead"}]
    /\ \A k \in Key : procs[k] \subseteq used[k] /\ used[k] \subseteq Started
                      /\ (procs[k] # {} => up[k] = "running")
    /\ cand \in [Run -> Candidate]
    /\ slot.files \subseteq Started
    /\ faults \in 0..MaxFault

(* A candidate holds only the files of its own run, except what was written *)
(* by a process that its backend had given up (a timeout or a crash): the   *)
(* lock, the cleared slot and the collection before the release isolate     *)
(* concurrent runs of a module (lifecycle.py run_module_transaction).       *)
CollectedIsOwn ==
    \A r \in Run : \A e \in cand[r].files : owner[e] = r \/ e \in loose

(* A run that asks for a clean container executes in one that no other      *)
(* execution has ever been in, whatever was registered, adopted, left       *)
(* behind by a failed removal or lost in a crash (run_authoritative_tests:  *)
(* "re-run every frozen command in a clean container").                     *)
CleanContainer ==
    \A r \in Run : run[r].pc = "running" /\ run[r].replace
        => used[keyOf[r]] \subseteq {run[r].ex}

(* While a task runs, every other container that mounts the slot is gone,   *)
(* unless the daemon refused to remove one: retirement goes by the labels   *)
(* the daemon knows, so a crash that loses the registry hides none.         *)
OneContainer ==
    \A r \in Run : run[r].pc = "running" /\ ~stuck
        => \A k \in Key \ {keyOf[r]} : up[k] = "none"

(* Runs that share a module do not see each other: neither in their files,  *)
(* nor through a container, nor through a second one on the same slot.      *)
RunsIsolated == TypeOK /\ CollectedIsOwn /\ CleanContainer /\ OneContainer

(* load_completed_run_evidence: completed, and the mirror is the one the    *)
(* authoritative file was written with (binding and digest).                *)
Accepted(r) == cand[r].auth.status = "completed" /\ cand[r].mirror = cand[r].auth

(* Evidence that would be accepted is about the candidate's present files:  *)
(* its execution exited 0 with a valid envelope, was the last one that was  *)
(* collected, and what it wrote is there, even after crashes between any    *)
(* two of the writes or when the slot directories are replaced.             *)
CompletedIsTrue ==
    \A r \in Run : Accepted(r) =>
        LET e == cand[r].auth.ex IN e \in good /\ cand[r].by = e /\ e \in cand[r].files

(* Every started execution ends: the lock is always handed on.              *)
RunEnds == \A r \in Run : run[r].pc # "rest" ~> run[r].pc = "rest"
=============================================================================
