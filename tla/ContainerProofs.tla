--------------------------- MODULE ContainerProofs ---------------------------
(***************************************************************************)
(* Proofs about the container of a module, for any number of runs, keys,     *)
(* executions and faults, about the rules for what is proposed to and run    *)
(* in it, for paths of every length, and about the patches that are made to  *)
(* its files, for diffs and files of every length.                          *)
(***************************************************************************)
EXTENDS ModuleContainer, ProposalRules, UnifiedDiff, FiniteSetTheorems, SequenceTheorems,
        WellFoundedInduction, TLAPS

-----------------------------------------------------------------------------
(* The inductive invariant.                                                 *)

Place == InTransaction \cup {"rest", "begin", "wait", "compromised", "mark", "publish", "mirror"}
Result == {"none", "failed", "raised", "ok", "unreadable", "exit"}
Thread == [pc: Place, ex: 0..MaxExec, replace: BOOLEAN, result: Result]
Slot == [files: SUBSET Exec, lease: Run \cup {NoRun}, auth: Evidence, mirror: Evidence,
         trust: {"absent", "tree", "baseline", "ready"}, root: {"own", "other"}]

Shapes ==
    /\ keyOf \in [Run -> Key]
    /\ run \in [Run -> Thread]
    /\ lock \in Run \cup {NoRun}
    /\ registry \in [Key -> {"none", "idle", "running", "tainted"}]
    /\ slot \in Slot
    /\ cand \in [Run -> Candidate]
    /\ owner \in [Exec -> Run \cup {NoRun}]
    /\ loose \subseteq Exec /\ good \subseteq Exec
    /\ stuck \in BOOLEAN /\ faults \in 0..MaxFault

(* A run holds the lock exactly inside of its transaction.                   *)
Locked == \A r \in Run : run[r].pc \in InTransaction <=> lock = r

(* Executions are numbered in the order they start.                          *)
Numbered == \E n \in 0..MaxExec : Started = 1..n

Owned(r) == run[r].pc # "rest" => run[r].ex \in Exec /\ owner[run[r].ex] = r

(* Only what was started can have been in a container; a new one is unused.  *)
Daemon ==
    /\ up \in [Key -> {"none", "created", "running", "dead"}]
    /\ used \in [Key -> SUBSET Exec] /\ procs \in [Key -> SUBSET Exec]
    /\ \A k \in Key :
         /\ procs[k] \subseteq used[k] /\ used[k] \subseteq Started
         /\ procs[k] # {} => up[k] = "running"
         /\ up[k] \in {"none", "created"} => used[k] = {}

(* The holder of the lock has only its own files in the slot.                *)
SlotIsOwn ==
    /\ slot.files \subseteq Started /\ loose \subseteq Started
    /\ lock # NoRun => \A e \in slot.files : owner[e] = lock \/ e \in loose

(* A run that asked for a clean container has one before it executes.        *)
Fresh(r) ==
    run[r].replace =>
      /\ run[r].pc = "exec" => used[keyOf[r]] = {}
      /\ run[r].pc = "running" => used[keyOf[r]] \subseteq {run[r].ex}

(* Once the others are retired nobody else can create one.                   *)
Sole(r) ==
    run[r].pc \in {"obtain", "create", "exec", "running"} /\ ~stuck =>
      \A k \in Key \ {keyOf[r]} : up[k] = "none"

(* Completed evidence is true of the candidate even without its mirror. From *)
(* the announcement of an execution to its verdict neither the candidate nor *)
(* the slot has any; a success that is to be published was collected.       *)
Witnessed(r, e) == e \in good /\ cand[r].by = e /\ e \in cand[r].files

Truthful(r) ==
    /\ cand[r].auth.status = "completed" => Witnessed(r, cand[r].auth.ex)
    /\ run[r].pc \in {"begin", "wait"} => cand[r].auth.status # "completed"
    /\ lock = r => slot.auth.status # "completed"
    /\ run[r].result = "ok" =>
         /\ run[r].pc \notin {"mark", "compromised"}
         /\ run[r].pc = "collect" =>
              run[r].ex \in good /\ (slot.root = "own" => run[r].ex \in slot.files)
         /\ run[r].pc = "publish" => Witnessed(r, run[r].ex)

ContainerInv ==
    /\ Shapes /\ Locked /\ Numbered /\ Daemon
    /\ SlotIsOwn /\ CollectedIsOwn
    /\ \A r \in Run : Owned(r) /\ Fresh(r) /\ Sole(r) /\ Truthful(r)

-----------------------------------------------------------------------------
(* What the operators that move a thread or write evidence change.           *)

LEMMA GoesTo ==
    ASSUME run \in [Run -> Thread], NEW r \in Run, NEW p \in Place, Goes(r, p)
    PROVE  /\ run' \in [Run -> Thread]
           /\ run'[r].pc = p /\ run'[r].ex = run[r].ex
           /\ run'[r].replace = run[r].replace /\ run'[r].result = run[r].result
           /\ \A q \in Run \ {r} : run'[q] = run[q]
  BY DEF Goes, Thread

LEMMA EndsWith ==
    ASSUME run \in [Run -> Thread], NEW r \in Run, NEW p \in Place, NEW result \in Result,
           Ends(r, p, result)
    PROVE  /\ run' \in [Run -> Thread]
           /\ run'[r].pc = p /\ run'[r].ex = run[r].ex
           /\ run'[r].replace = run[r].replace /\ run'[r].result = result
           /\ \A q \in Run \ {r} : run'[q] = run[q]
  BY DEF Ends, Thread

(* A thread that is to be marked failed or to publish, or at rest again.     *)
LEMMA Releases ==
    ASSUME run \in [Run -> Thread], NEW r \in Run, NEW result \in Result, Released(r, result)
    PROVE  /\ run' \in [Run -> Thread] /\ lock' = NoRun
           /\ run'[r].pc \in {"rest", "mark", "publish"}
           /\ run'[r].pc # "rest" => run'[r].ex = run[r].ex /\ run'[r].result = result
           /\ run'[r].pc = "rest" => run'[r].result = "none"
           /\ run'[r].pc = "mark" <=> result = "exit"
           /\ \A q \in Run \ {r} : run'[q] = run[q]
  <1>1. CASE result = "raised"
    <2>1. run' = [run EXCEPT ![r] = AtRest] /\ lock' = NoRun BY <1>1 DEF Released
    <2>2. AtRest \in Thread BY ContainerAssumption DEF AtRest, Thread, Place, Result
    <2>3. QED BY <1>1, <2>1, <2>2 DEF AtRest
  <1>2. CASE result # "raised"
    <2>1. PICK p \in {"mark", "publish"} : p = IF result = "exit" THEN "mark" ELSE "publish"
      OBVIOUS
    <2>2. run' = [run EXCEPT ![r] = [@ EXCEPT !.result = result, !.pc = p]] /\ lock' = NoRun
      BY <1>2, <2>1 DEF Released
    <2>3. [run[r] EXCEPT !.result = result, !.pc = p] \in Thread
      BY DEF Thread, Place
    <2>4. QED BY <2>1, <2>2, <2>3 DEF Thread
  <1>3. QED BY <1>1, <1>2

LEMMA AuthoritativeWritten ==
    ASSUME cand \in [Run -> Candidate], NEW r \in Run, NEW e \in 0..MaxExec,
           NEW status \in {"none", "pending", "failed", "completed", "task"},
           PublishAuthoritative(r, e, status)
    PROVE  /\ cand' \in [Run -> Candidate]
           /\ cand'[r].auth = [ex |-> e, status |-> status]
           /\ cand'[r].files = cand[r].files /\ cand'[r].by = cand[r].by
           /\ \A q \in Run \ {r} : cand'[q] = cand[q]
  <1>1. [ex |-> e, status |-> status] \in Evidence BY DEF Evidence
  <1>2. QED BY <1>1 DEF PublishAuthoritative, Candidate

LEMMA MirrorWritten ==
    ASSUME cand \in [Run -> Candidate], NEW r \in Run, NEW e \in 0..MaxExec,
           NEW status \in {"none", "pending", "failed", "completed", "task"},
           PublishMirror(r, e, status)
    PROVE  /\ cand' \in [Run -> Candidate]
           /\ cand'[r].auth = cand[r].auth
           /\ cand'[r].files = cand[r].files /\ cand'[r].by = cand[r].by
           /\ \A q \in Run \ {r} : cand'[q] = cand[q]
  <1>1. [ex |-> e, status |-> status] \in Evidence BY DEF Evidence
  <1>2. QED BY <1>1 DEF PublishMirror, Candidate

LEMMA NoEvidenceType == NoEvidence \in Evidence
  BY ContainerAssumption DEF NoEvidence, Evidence

(* A task that ends adds its execution to the files, if it still writes to    *)
(* the slot.                                                                *)
LEMMA TaskWritten ==
    ASSUME slot \in Slot, NEW e \in Exec
    PROVE  /\ TaskWrites(e) \in Slot
           /\ TaskWrites(e).files \in {slot.files, slot.files \cup {e}}
           /\ TaskWrites(e).root = slot.root /\ TaskWrites(e).auth = slot.auth
           /\ slot.root = "own" => TaskWrites(e).files = slot.files \cup {e}
           /\ slot.files \subseteq TaskWrites(e).files
  <1>1. [ex |-> e, status |-> "task"] \in Evidence
    BY ContainerAssumption DEF Evidence, Exec
  <1>2. CASE slot.root = "own"
    <2>1. PICK m \in Evidence : m = [ex |-> e, status |-> "task"]
      BY <1>1
    <2>2. PICK f \in SUBSET Exec : f = slot.files \cup {e}
      BY DEF Slot
    <2>3. TaskWrites(e) = [slot EXCEPT !.files = f, !.mirror = m]
      BY <1>2, <2>1, <2>2 DEF TaskWrites
    <2>4. QED BY <2>2, <2>3 DEF Slot
  <1>3. CASE slot.root # "own" BY <1>3 DEF TaskWrites
  <1>4. QED BY <1>2, <1>3

(* What filling the slot from a candidate puts there.                        *)
LEMMA Filled ==
    ASSUME Shapes, NEW r \in Run
    PROVE  /\ Populated(r) \in Slot
           /\ Populated(r).files = cand[r].files /\ Populated(r).auth = cand[r].auth
           /\ Populated(r).root = slot.root
  <1>1. cand[r] \in Candidate /\ slot \in Slot BY DEF Shapes
  <1>2. TrustAfterEnsure \in {"absent", "tree", "baseline", "ready"}
    BY <1>1 DEF TrustAfterEnsure, Slot
  <1>3. PICK trust \in {"absent", "tree", "baseline", "ready"} : trust = TrustAfterEnsure
    BY <1>2
  <1>4. Populated(r) = [slot EXCEPT !.files = cand[r].files, !.lease = r, !.auth = cand[r].auth,
                                    !.mirror = cand[r].mirror, !.trust = trust]
    BY <1>3 DEF Populated
  <1>5. QED BY <1>1, <1>4 DEF Slot, Candidate

-----------------------------------------------------------------------------
(* Types, and who holds the lock.                                           *)

LEMMA CleanupKeeps ==
    ASSUME Shapes, NEW ks, Cleanup(ks)
    PROVE  stuck' \in BOOLEAN /\ faults' \in 0..MaxFault /\ (stuck => stuck')
  <1>1. ASSUME Removed(ks), UNCHANGED <<stuck, faults>>
        PROVE  stuck' \in BOOLEAN /\ faults' \in 0..MaxFault /\ (stuck => stuck')
    BY <1>1 DEF Shapes
  <1>2. ASSUME Fault, stuck' = TRUE
        PROVE  stuck' \in BOOLEAN /\ faults' \in 0..MaxFault /\ (stuck => stuck')
    BY <1>2, ContainerAssumption DEF Shapes, Fault
  <1>3. QED BY <1>1, <1>2, Zenon DEF Cleanup

LEMMA FaultCounted == ASSUME Shapes, Fault PROVE faults' \in 0..MaxFault
  BY ContainerAssumption DEF Shapes, Fault

(* The next execution is one that nobody has started.                        *)
LEMMA NextNumber ==
    ASSUME Numbered
    PROVE  /\ Cardinality(Started) \in Nat
           /\ Cardinality(Started) + 1 \notin Started
           /\ Started = 1..Cardinality(Started)
  <1>1. PICK n \in 0..MaxExec : Started = 1..n BY DEF Numbered
  <1>2. n \in Nat BY <1>1, ContainerAssumption
  <1>3. Cardinality(1..n) = n BY <1>2, FS_Interval
  <1>4. QED BY <1>1, <1>2, <1>3

LEMMA BeginEffect ==
    ASSUME Shapes, Numbered, NEW r \in Run, Begin(r)
    PROVE  \E e \in Exec :
             /\ e \notin Started /\ Started' = Started \cup {e} /\ e = Cardinality(Started) + 1
             /\ owner' = [owner EXCEPT ![e] = r]
             /\ run[r].pc = "rest"
             /\ run' \in [Run -> Thread]
             /\ run'[r].pc = "begin" /\ run'[r].ex = e /\ run'[r].result = "none"
             /\ \A q \in Run \ {r} : run'[q] = run[q]
             /\ PublishAuthoritative(r, e, "pending")
             /\ UNCHANGED <<keyOf, lock, registry, daemonVars, slot, loose, stuck, good, faults>>
  <1>0. PICK e : e = Cardinality(Started) + 1 OBVIOUS
  <1>1. PICK replace \in BOOLEAN :
          /\ e = Cardinality(Started) + 1
          /\ run[r].pc = "rest" /\ e <= MaxExec
          /\ owner' = [owner EXCEPT ![e] = r]
          /\ run' = [run EXCEPT ![r] = [pc |-> "begin", ex |-> e, replace |-> replace,
                                        result |-> "none"]]
          /\ PublishAuthoritative(r, e, "pending")
          /\ UNCHANGED <<keyOf, lock, registry, daemonVars, slot, loose, stuck, good, faults>>
    BY <1>0 DEF Begin
  <1>2. e \in Exec /\ e \in 0..MaxExec
    BY <1>1, NextNumber, ContainerAssumption DEF Exec
  <1>3. [pc |-> "begin", ex |-> e, replace |-> replace, result |-> "none"] \in Thread
    BY <1>2 DEF Thread, Place, Result
  <1>4. e \notin Started BY <1>1, NextNumber
  <1>5. Started' = Started \cup {e}
    BY <1>1, <1>2, ContainerAssumption DEF Started, Shapes
  <1>6. run' \in [Run -> Thread] BY <1>1, <1>3 DEF Shapes
  <1>7. QED BY <1>1, <1>2, <1>4, <1>5, <1>6 DEF Shapes

LEMMA NumberedStep ==
    ASSUME Shapes, Numbered, NEW r \in Run, Begin(r) PROVE Numbered'
  <1>1. PICK e \in Exec : Started' = Started \cup {e} /\ e = Cardinality(Started) + 1
    BY BeginEffect
  <1>2. PICK n : n = Cardinality(Started) BY Zenon
  <1>3. n \in Nat /\ Started = 1..n BY <1>2, NextNumber
  <1>4. Started' = 1..e
    <2>1. e = n + 1 BY <1>1, <1>2
    <2>2. (1..n) \cup {n + 1} = 1..(n + 1) BY <1>3
    <2>3. QED BY <1>1, <1>3, <2>1, <2>2
  <1>5. e \in 0..MaxExec BY ContainerAssumption DEF Exec
  <1>6. QED BY <1>4, <1>5 DEF Numbered

LEMMA StatusOfRegistry ==
    ASSUME Shapes, NEW k \in Key, NEW status \in {"none", "idle", "running", "tainted"},
           registry' = [registry EXCEPT ![k] = status]
    PROVE  registry' \in [Key -> {"none", "idle", "running", "tainted"}]
  BY DEF Shapes

LEMMA ShapeEvidences ==
    ASSUME Shapes, Locked, Numbered, NEW r \in Run, Evidences(r) PROVE Shapes' /\ Locked'
  <1>1. CASE Begin(r)
    <2>1. PICK e \in Exec :
            /\ owner' = [owner EXCEPT ![e] = r]
            /\ run[r].pc = "rest"
            /\ run' \in [Run -> Thread]
            /\ run'[r].pc = "begin"
            /\ \A q \in Run \ {r} : run'[q] = run[q]
            /\ PublishAuthoritative(r, e, "pending")
            /\ UNCHANGED <<keyOf, lock, registry, daemonVars, slot, loose, stuck, good, faults>>
      BY <1>1, BeginEffect
    <2>2. e \in 0..MaxExec BY ContainerAssumption DEF Exec
    <2>3. cand' \in [Run -> Candidate] BY <2>1, <2>2, AuthoritativeWritten DEF Shapes
    <2>4. owner' \in [Exec -> Run \cup {NoRun}] BY <2>1 DEF Shapes
    <2>5. Shapes' BY <2>1, <2>3, <2>4 DEF Shapes
    <2>6. QED BY <2>1, <2>5 DEF Locked, InTransaction
  <1>2. CASE BeginMirror(r)
    <2>1. run[r].ex \in 0..MaxExec BY DEF Shapes, Thread
    <2>2. cand' \in [Run -> Candidate] BY <1>2, <2>1, MirrorWritten DEF BeginMirror, Shapes
    <2>3. Goes(r, "wait") /\ run[r].pc = "begin" BY <1>2 DEF BeginMirror
    <2>4. /\ run' \in [Run -> Thread] /\ run'[r].pc = "wait"
          /\ \A q \in Run \ {r} : run'[q] = run[q]
      BY <2>3, GoesTo DEF Shapes, Place
    <2>5. Shapes' BY <1>2, <2>2, <2>4 DEF BeginMirror, Shapes, ghosts
    <2>6. QED BY <1>2, <2>3, <2>4, <2>5 DEF BeginMirror, Locked, InTransaction
  <1>3. CASE Publish(r)
    <2>1. run[r].ex \in 0..MaxExec BY DEF Shapes, Thread
    <2>2. Verdict(run[r].result) \in {"completed", "failed"} BY DEF Verdict
    <2>3. cand' \in [Run -> Candidate]
      BY <1>3, <2>1, <2>2, AuthoritativeWritten DEF Publish, Shapes
    <2>4. Goes(r, "mirror") /\ run[r].pc = "publish" BY <1>3 DEF Publish
    <2>5. /\ run' \in [Run -> Thread] /\ run'[r].pc = "mirror"
          /\ \A q \in Run \ {r} : run'[q] = run[q]
      BY <2>4, GoesTo DEF Shapes, Place
    <2>6. Shapes' BY <1>3, <2>3, <2>5 DEF Publish, Shapes, ghosts
    <2>7. QED BY <1>3, <2>4, <2>5, <2>6 DEF Publish, Locked, InTransaction
  <1>4. CASE PublishEnds(r)
    <2>1. run[r].ex \in 0..MaxExec BY DEF Shapes, Thread
    <2>2. Verdict(run[r].result) \in {"completed", "failed"} BY DEF Verdict
    <2>3. cand' \in [Run -> Candidate]
      BY <1>4, <2>1, <2>2, MirrorWritten DEF PublishEnds, Shapes
    <2>4. AtRest \in Thread BY ContainerAssumption DEF AtRest, Thread, Place, Result
    <2>5. /\ run' \in [Run -> Thread] /\ run'[r].pc = "rest"
          /\ \A q \in Run \ {r} : run'[q] = run[q]
      BY <1>4, <2>4 DEF PublishEnds, Shapes, AtRest
    <2>6. Shapes' BY <1>4, <2>3, <2>5 DEF PublishEnds, Shapes, ghosts
    <2>7. QED BY <1>4, <2>5, <2>6 DEF PublishEnds, Locked, InTransaction
  <1>5. QED BY <1>1, <1>2, <1>3, <1>4 DEF Evidences

LEMMA ShapeSlots ==
    ASSUME Shapes, Locked, NEW r \in Run, Slots(r) PROVE Shapes' /\ Locked'
  <1> USE DEF ghosts
  <1>a. keyOf[r] \in Key /\ registry[keyOf[r]] \in {"none", "idle", "running", "tainted"}
        /\ TrustAfterEnsure \in {"absent", "tree", "baseline", "ready"}
        /\ slot \in Slot /\ cand[r] \in Candidate /\ run[r] \in Thread
    BY DEF Shapes, TrustAfterEnsure, Slot
  <1>b. lock = NoRun => \A q \in Run : run[q].pc \notin InTransaction
    BY ContainerAssumption DEF Locked
  <1>1. CASE Prepare(r)
    <2>1. Goes(r, "retire") /\ lock = NoRun /\ lock' = r /\ slot' = Populated(r)
      BY <1>1 DEF Prepare
    <2>2. /\ run' \in [Run -> Thread] /\ run'[r].pc = "retire"
          /\ \A q \in Run \ {r} : run'[q] = run[q]
      BY <2>1, GoesTo DEF Shapes, Place, InTransaction
    <2>3. slot' \in Slot BY <2>1, Filled
    <2>4. Shapes' BY <1>1, <2>1, <2>2, <2>3 DEF Prepare, Shapes
    <2>5. QED BY <1>b, <2>1, <2>2, <2>4 DEF Locked, InTransaction
  <1>2. CASE PrepareRefused(r)
    <2>1. Ends(r, "compromised", "failed") /\ run[r].pc = "wait" BY <1>2 DEF PrepareRefused
    <2>2. /\ run' \in [Run -> Thread] /\ run'[r].pc = "compromised"
          /\ \A q \in Run \ {r} : run'[q] = run[q]
      BY <2>1, EndsWith DEF Shapes, Place, Result
    <2>3. slot' \in Slot BY <1>2, <1>a DEF PrepareRefused, Slot
    <2>4. Shapes' BY <1>2, <2>2, <2>3 DEF PrepareRefused, Shapes
    <2>5. QED BY <1>2, <2>1, <2>2, <2>4 DEF PrepareRefused, Locked, InTransaction
  <1>3. CASE MarkSlotRootCompromised(r)
    <2>1. Goes(r, "publish") /\ run[r].pc = "compromised" BY <1>3 DEF MarkSlotRootCompromised
    <2>2. /\ run' \in [Run -> Thread] /\ run'[r].pc = "publish"
          /\ \A q \in Run \ {r} : run'[q] = run[q]
      BY <2>1, GoesTo DEF Shapes, Place
    <2>3. registry' \in [Key -> {"none", "idle", "running", "tainted"}]
      BY <1>3, <1>a DEF MarkSlotRootCompromised, Shapes
    <2>4. Shapes' BY <1>3, <2>2, <2>3 DEF MarkSlotRootCompromised, Shapes
    <2>5. QED BY <1>3, <2>1, <2>2, <2>4 DEF MarkSlotRootCompromised, Locked, InTransaction
  <1>4. CASE PrepareFails(r)
    <2>1. Ends(r, "publish", "failed") /\ run[r].pc = "wait" /\ Fault BY <1>4 DEF PrepareFails
    <2>2. /\ run' \in [Run -> Thread] /\ run'[r].pc = "publish"
          /\ \A q \in Run \ {r} : run'[q] = run[q]
      BY <2>1, EndsWith DEF Shapes, Place, Result
    <2>3. slot' \in Slot BY <1>4, <1>a, NoEvidenceType DEF PrepareFails, Slot, Candidate
    <2>4. Shapes' BY <1>4, <2>1, <2>2, <2>3, FaultCounted DEF PrepareFails, Shapes
    <2>5. QED BY <1>4, <2>1, <2>2, <2>4 DEF PrepareFails, Locked, InTransaction
  <1>5. CASE Collect(r)
    <2>1. Released(r, run[r].result) /\ run[r].pc = "collect" BY <1>5 DEF Collect
    <2>2. /\ run' \in [Run -> Thread] /\ lock' = NoRun
          /\ run'[r].pc \in {"rest", "mark", "publish"}
          /\ \A q \in Run \ {r} : run'[q] = run[q]
      BY <1>a, <2>1, Releases DEF Shapes, Thread
    <2>3. Collected(r) \in Candidate BY <1>a DEF Collected, Slot, Candidate, Thread
    <2>4. cand' \in [Run -> Candidate] BY <1>5, <2>3 DEF Collect, Shapes
    <2>5. Shapes' BY <1>5, <2>2, <2>4 DEF Collect, Shapes
    <2>6. lock = r BY <2>1 DEF Locked, InTransaction
    <2>7. QED BY <2>2, <2>5, <2>6, ContainerAssumption DEF Locked, InTransaction
  <1>6. CASE CollectFails(r)
    <2>1. PICK result \in Result : Released(r, result)
      BY <1>6, <1>a DEF CollectFails, Thread, Result
    <2>2. /\ run' \in [Run -> Thread] /\ lock' = NoRun
          /\ run'[r].pc \in {"rest", "mark", "publish"}
          /\ \A q \in Run \ {r} : run'[q] = run[q]
      BY <2>1, Releases DEF Shapes
    <2>3. cand' \in [Run -> Candidate] /\ faults' \in 0..MaxFault
      <3>1. CASE UNCHANGED <<cand, faults>> BY <3>1 DEF Shapes
      <3>2. CASE RootAccess
        <4> DEFINE out == [cand[r] EXCEPT !.mirror = slot.mirror]
                   diag == [out EXCEPT !.auth = slot.auth]
        <4>1. out \in Candidate BY <1>a DEF Slot, Candidate
        <4>2. diag \in Candidate BY <4>1, <1>a DEF Slot, Candidate
        <4>3. /\ [cand[r] EXCEPT !.mirror = NoEvidence] \in Candidate
              /\ [out EXCEPT !.auth = NoEvidence] \in Candidate
              /\ [diag EXCEPT !.files = {}] \in Candidate
          BY <1>a, <4>1, <4>2, NoEvidenceType DEF Candidate
        <4>4. PICK part \in Candidate : cand' = [cand EXCEPT ![r] = part]
          BY <1>6, <3>2, <4>3 DEF CollectFails
        <4>5. Fault BY <1>6, <3>2 DEF CollectFails
        <4>6. QED BY <4>4, <4>5, FaultCounted DEF Shapes
      <3>3. QED BY <1>6, <3>1, <3>2 DEF CollectFails
    <2>4. Shapes' BY <1>6, <2>2, <2>3 DEF CollectFails, Shapes
    <2>5. lock = r BY <1>6 DEF CollectFails, Locked, InTransaction
    <2>6. QED BY <2>2, <2>4, <2>5, ContainerAssumption DEF Locked, InTransaction
  <1>7. CASE MarkRunFailed(r)
    <2>1. Goes(r, "publish") /\ run[r].pc = "mark" BY <1>7 DEF MarkRunFailed
    <2>2. /\ run' \in [Run -> Thread] /\ run'[r].pc = "publish"
          /\ \A q \in Run \ {r} : run'[q] = run[q]
      BY <2>1, GoesTo DEF Shapes, Place
    <2>3. registry' \in [Key -> {"none", "idle", "running", "tainted"}]
      BY <1>7, <1>a DEF MarkRunFailed, Shapes
    <2>4. Shapes' BY <1>7, <2>2, <2>3 DEF MarkRunFailed, Shapes
    <2>5. QED BY <1>7, <2>1, <2>2, <2>4 DEF MarkRunFailed, Locked, InTransaction
  <1>8. QED BY <1>1, <1>2, <1>3, <1>4, <1>5, <1>6, <1>7 DEF Slots

(* An acquisition leaves the holder, the slot and the candidates alone; the  *)
(* container of the run is in use, or its failure is collected.              *)
LEMMA AcquireEffect ==
    ASSUME Shapes, NEW r \in Run, Acquires(r)
    PROVE  /\ UNCHANGED <<keyOf, lock, slot, cand, ghosts>>
           /\ run[r].pc \in {"retire", "obtain", "create"}
           /\ run' \in [Run -> Thread]
           /\ run'[r].pc \in {"obtain", "create", "exec", "collect"}
           /\ run'[r].ex = run[r].ex /\ run'[r].replace = run[r].replace
           /\ run'[r].pc = "collect" => run'[r].result \in {"raised", "failed"}
           /\ run'[r].pc # "collect" => run'[r].result = run[r].result
           /\ \A q \in Run \ {r} : run'[q] = run[q]
           /\ registry' \in [Key -> {"none", "idle", "running", "tainted"}]
           /\ stuck' \in BOOLEAN /\ faults' \in 0..MaxFault /\ (stuck => stuck')
  <1> DEFINE Statuses == [Key -> {"none", "idle", "running", "tainted"}]
             Moved(p) == /\ run' \in [Run -> Thread]
                         /\ run'[r].pc = p
                         /\ run'[r].ex = run[r].ex /\ run'[r].replace = run[r].replace
                         /\ run'[r].result = run[r].result
                         /\ \A q \in Run \ {r} : run'[q] = run[q]
  <1>a. /\ keyOf[r] \in Key /\ registry \in Statuses /\ run[r] \in Thread
        /\ stuck \in BOOLEAN /\ faults \in 0..MaxFault
    BY DEF Shapes
  <1>b. ASSUME NEW p \in Place, Goes(r, p) PROVE Moved(p)
    BY <1>b, GoesTo DEF Shapes
  <1>c. ASSUME NEW result \in {"raised", "failed"}, Ends(r, "collect", result)
        PROVE  /\ run' \in [Run -> Thread] /\ run'[r].pc = "collect"
               /\ run'[r].ex = run[r].ex /\ run'[r].replace = run[r].replace
               /\ run'[r].result = result
               /\ \A q \in Run \ {r} : run'[q] = run[q]
    BY <1>c, EndsWith DEF Shapes, Result, Place, InTransaction
  <1>d. ASSUME AdoptOrCreate(r)
        PROVE  registry' \in Statuses /\ \E p \in {"exec", "create"} : Moved(p)
    <2>1. PICK p \in {"exec", "create"} : Goes(r, p) BY <1>d DEF AdoptOrCreate
    <2>2. Moved(p) BY <1>b, <2>1 DEF Place, InTransaction
    <2>3. registry' \in Statuses BY <1>a, <1>d DEF AdoptOrCreate
    <2>4. QED BY <2>2, <2>3
  <1>1. CASE Retire(r)
    <2>1. Goes(r, "obtain") BY <1>1 DEF Retire
    <2>2. Moved("obtain") BY <1>b, <2>1 DEF Place, InTransaction
    <2>3. registry' \in Statuses BY <1>1, <1>a DEF Retire
    <2>4. stuck' \in BOOLEAN /\ faults' \in 0..MaxFault /\ (stuck => stuck')
      BY <1>1, CleanupKeeps DEF Retire
    <2>5. UNCHANGED <<keyOf, lock, slot, cand, ghosts>> /\ run[r].pc = "retire" BY <1>1 DEF Retire
    <2>6. QED BY <2>2, <2>3, <2>4, <2>5
  <1>2. CASE Reuse(r)
    <2>1. Goes(r, "exec") BY <1>2 DEF Reuse
    <2>2. Moved("exec") BY <1>b, <2>1 DEF Place, InTransaction
    <2>3. QED BY <1>2, <1>a, <2>2 DEF Reuse
  <1>3. CASE Replace(r)
    <2>1. registry' \in Statuses /\ \E p \in {"exec", "create"} : Moved(p)
      BY <1>3, <1>d DEF Replace
    <2>2. stuck' \in BOOLEAN /\ faults' \in 0..MaxFault /\ (stuck => stuck')
      BY <1>3, CleanupKeeps DEF Replace
    <2>3. UNCHANGED <<keyOf, lock, slot, cand, ghosts>> /\ run[r].pc = "obtain" BY <1>3 DEF Replace
    <2>4. QED BY <2>1, <2>2, <2>3
  <1>4. CASE Discover(r)
    <2>1. registry' \in Statuses /\ \E p \in {"exec", "create"} : Moved(p)
      BY <1>4, <1>d DEF Discover
    <2>2. UNCHANGED <<keyOf, lock, slot, cand, ghosts, stuck, faults>> /\ run[r].pc = "obtain"
      BY <1>4 DEF Discover
    <2>3. QED BY <1>a, <2>1, <2>2
  <1>5. CASE ObtainRaises(r)
    <2>1. Ends(r, "collect", "raised") /\ Fault BY <1>5 DEF ObtainRaises
    <2>2. faults' \in 0..MaxFault BY <2>1, FaultCounted
    <2>3. UNCHANGED <<keyOf, lock, registry, slot, cand, ghosts, stuck>> /\ run[r].pc = "obtain"
      BY <1>5 DEF ObtainRaises
    <2>4. QED BY <1>a, <1>c, <2>1, <2>2, <2>3
  <1>6. CASE Create(r)
    <2>1. Goes(r, "exec") BY <1>6 DEF Create
    <2>2. Moved("exec") BY <1>b, <2>1 DEF Place, InTransaction
    <2>3. registry' \in Statuses BY <1>6, <1>a DEF Create
    <2>4. QED BY <1>6, <1>a, <2>2, <2>3 DEF Create
  <1>7. CASE CreateFails(r)
    <2>1. Ends(r, "collect", "failed") BY <1>7 DEF CreateFails
    <2>2. faults' \in 0..MaxFault BY <1>7, <1>a, FaultCounted DEF CreateFails
    <2>3. UNCHANGED <<keyOf, lock, registry, slot, cand, ghosts, stuck>> /\ run[r].pc = "create"
      BY <1>7 DEF CreateFails
    <2>4. QED BY <1>a, <1>c, <2>1, <2>2, <2>3
  <1>8. CASE StartFails(r)
    <2>1. Ends(r, "collect", "failed") /\ Fault BY <1>8 DEF StartFails
    <2>2. faults' \in 0..MaxFault BY <2>1, FaultCounted
    <2>3. /\ UNCHANGED <<keyOf, lock, registry, slot, cand, ghosts>> /\ run[r].pc = "create"
          /\ stuck' = TRUE
      BY <1>8 DEF StartFails
    <2>4. QED BY <1>a, <1>c, <2>1, <2>2, <2>3
  <1>9. QED BY <1>1, <1>2, <1>3, <1>4, <1>5, <1>6, <1>7, <1>8 DEF Acquires

LEMMA ExecuteEffect ==
    ASSUME Shapes, NEW r \in Run, Owned(r), Executes(r)
    PROVE  /\ UNCHANGED <<keyOf, lock, up, cand, owner, stuck>>
           /\ run[r].pc \in {"exec", "running"}
           /\ run' \in [Run -> Thread]
           /\ run'[r].pc \in {"running", "collect"}
           /\ run'[r].pc = "running" => run[r].pc = "exec" /\ run'[r].result = run[r].result
           /\ run'[r].ex = run[r].ex /\ run'[r].replace = run[r].replace
           /\ \A q \in Run \ {r} : run'[q] = run[q]
           /\ registry' \in [Key -> {"none", "idle", "running", "tainted"}]
           /\ faults' \in 0..MaxFault
           /\ slot' \in Slot /\ slot'.root = slot.root /\ slot'.auth = slot.auth
           /\ slot'.files \in {slot.files, slot.files \cup {run[r].ex}}
           /\ loose' \in {loose, loose \cup {run[r].ex}}
           /\ good' \in {good, good \cup {run[r].ex}}
           /\ run'[r].pc = "collect" /\ run'[r].result = "ok" =>
                run[r].ex \in good' /\ (slot'.root = "own" => run[r].ex \in slot'.files)
  <1> DEFINE Statuses == [Key -> {"none", "idle", "running", "tainted"}]
             e == run[r].ex
  <1>a. /\ keyOf[r] \in Key /\ registry \in Statuses /\ run[r] \in Thread /\ slot \in Slot
        /\ faults \in 0..MaxFault
    BY DEF Shapes
  <1>c. ASSUME NEW result \in {"ok", "unreadable", "exit"}, Ends(r, "collect", result)
        PROVE  /\ run' \in [Run -> Thread] /\ run'[r].pc = "collect"
               /\ run'[r].ex = run[r].ex /\ run'[r].replace = run[r].replace
               /\ run'[r].result = result
               /\ \A q \in Run \ {r} : run'[q] = run[q]
    BY <1>c, EndsWith DEF Shapes, Result, Place, InTransaction
  <1>1. CASE StartExec(r)
    <2>1. Goes(r, "running") /\ run[r].pc = "exec" BY <1>1 DEF StartExec
    <2>2. /\ run' \in [Run -> Thread] /\ run'[r].pc = "running"
          /\ run'[r].ex = run[r].ex /\ run'[r].replace = run[r].replace
          /\ run'[r].result = run[r].result
          /\ \A q \in Run \ {r} : run'[q] = run[q]
      BY <2>1, GoesTo DEF Shapes, Place, InTransaction
    <2>3. registry' \in Statuses BY <1>1, <1>a DEF StartExec
    <2>4. UNCHANGED <<keyOf, lock, up, slot, cand, owner, loose, good, stuck, faults>>
      BY <1>1 DEF StartExec, ghosts
    <2>5. QED BY <1>a, <2>1, <2>2, <2>3, <2>4
  <1>2. CASE ExecExits(r)
    <2>1. PICK result \in {"ok", "unreadable", "exit"} :
            /\ Ends(r, "collect", result)
            /\ result = "ok" => e \in procs[keyOf[r]]
            /\ good' = IF result = "ok" THEN good \cup {e} ELSE good
      BY <1>2 DEF ExecExits
    <2>2. e \in Exec BY <1>2 DEF Owned, ExecExits
    <2>3. PICK s : s = TaskWrites(e) OBVIOUS
    <2>4. /\ s \in Slot /\ s.files \in {slot.files, slot.files \cup {e}}
          /\ s.root = slot.root /\ s.auth = slot.auth
          /\ slot.root = "own" => s.files = slot.files \cup {e}
      BY <1>a, <2>2, <2>3, TaskWritten
    <2>5. slot' = IF e \in procs[keyOf[r]] THEN s ELSE slot BY <1>2, <2>3 DEF ExecExits
    <2>6. registry' \in Statuses BY <1>2, <1>a DEF ExecExits
    <2>7. UNCHANGED <<keyOf, lock, up, cand, owner, loose, stuck, faults>> /\ run[r].pc = "running"
      BY <1>2 DEF ExecExits
    <2>8. QED BY <1>a, <1>c, <2>1, <2>4, <2>5, <2>6, <2>7
  <1>3. CASE ExecTimesOut(r)
    <2>1. Ends(r, "collect", "exit") BY <1>3 DEF ExecTimesOut
    <2>2. registry' \in Statuses BY <1>3, <1>a DEF ExecTimesOut
    <2>3. /\ UNCHANGED <<keyOf, lock, up, slot, cand, owner, good, stuck, faults>>
          /\ run[r].pc = "running" /\ loose' = loose \cup {e}
      BY <1>3 DEF ExecTimesOut, daemonVars
    <2>4. QED BY <1>a, <1>c, <2>1, <2>2, <2>3
  <1>4. CASE ExecRaises(r)
    <2>1. Ends(r, "collect", "exit") /\ Fault BY <1>4 DEF ExecRaises
    <2>2. registry' \in Statuses BY <1>4, <1>a DEF ExecRaises
    <2>3. UNCHANGED <<keyOf, lock, up, slot, cand, owner, loose, good, stuck>> /\ run[r].pc = "exec"
      BY <1>4 DEF ExecRaises, daemonVars, ghosts
    <2>4. faults' \in 0..MaxFault BY <2>1, FaultCounted
    <2>5. QED BY <1>a, <1>c, <2>1, <2>2, <2>3, <2>4
  <1>5. QED BY <1>1, <1>2, <1>3, <1>4 DEF Executes

LEMMA ShapeAtWork ==
    ASSUME Shapes, Locked, NEW r \in Run, Owned(r), Acquires(r) \/ Executes(r)
    PROVE  Shapes' /\ Locked'
  <1>1. CASE Acquires(r)
    <2>1. Shapes' BY <1>1, AcquireEffect DEF Shapes, ghosts
    <2>2. Locked' BY <1>1, AcquireEffect DEF Locked, InTransaction
    <2>3. QED BY <2>1, <2>2
  <1>2. CASE Executes(r)
    <2>1. run[r].ex \in Exec BY <1>2, ExecuteEffect DEF Owned
    <2>2. Shapes' BY <1>2, <2>1, ExecuteEffect DEF Shapes
    <2>3. Locked' BY <1>2, ExecuteEffect DEF Locked, InTransaction
    <2>4. QED BY <2>2, <2>3
  <1>3. QED BY <1>1, <1>2

(* What happens beside the threads: a process that was given up writes or    *)
(* ends, a container dies, the directories of the slot are replaced.        *)
Beside == LooseWrites \/ LooseEnds \/ ContainerDies \/ RootReplaced

LEMMA BesideEffect ==
    ASSUME Shapes, Daemon, Beside
    PROVE  /\ UNCHANGED <<keyOf, run, lock, registry, cand, ghosts, stuck>>
           /\ slot' \in Slot /\ faults' \in 0..MaxFault
           /\ \A e \in slot'.files : e \in slot.files \/ e \in loose \cap Started
           /\ slot'.auth \in {slot.auth, NoEvidence}
           /\ slot'.root = "own" => slot.root = "own" /\ slot.files \subseteq slot'.files
  <1>a. slot \in Slot /\ faults \in 0..MaxFault BY DEF Shapes
  <1>b. \A k \in Key : procs[k] \subseteq Started /\ procs[k] \subseteq Exec
    BY DEF Daemon
  <1>1. CASE LooseWrites
    <2>0. PICK k \in Key : \E e \in (procs[k] \cap loose) \ slot.files :
            slot' = [slot EXCEPT !.files = @ \cup {e}]
      BY <1>1 DEF LooseWrites
    <2>1. PICK e \in (procs[k] \cap loose) \ slot.files :
            slot' = [slot EXCEPT !.files = @ \cup {e}]
      BY <2>0
    <2>2. e \in Started /\ e \in Exec /\ e \in loose BY <1>b, <2>1
    <2>3. PICK f \in SUBSET Exec : f = slot.files \cup {e} BY <1>a, <2>2 DEF Slot
    <2>4. slot' = [slot EXCEPT !.files = f] BY <2>1, <2>3
    <2>5. /\ slot' \in Slot /\ slot'.files = slot.files \cup {e}
          /\ slot'.auth = slot.auth /\ slot'.root = slot.root
      BY <1>a, <2>3, <2>4 DEF Slot
    <2>6. UNCHANGED <<keyOf, run, lock, registry, cand, ghosts, stuck, faults>>
      BY <1>1 DEF LooseWrites
    <2>7. QED BY <1>a, <2>2, <2>5, <2>6
  <1>2. CASE LooseEnds
    <2>0. PICK k \in Key : \E e \in procs[k] \cap loose : slot' = TaskWrites(e)
      BY <1>2 DEF LooseEnds
    <2>1. PICK e \in procs[k] \cap loose : slot' = TaskWrites(e)
      BY <2>0
    <2>2. e \in Started /\ e \in Exec /\ e \in loose BY <1>b, <2>1
    <2>3. PICK s : s = TaskWrites(e) OBVIOUS
    <2>4. /\ s \in Slot /\ s.files \in {slot.files, slot.files \cup {e}}
          /\ s.root = slot.root /\ s.auth = slot.auth
      BY <1>a, <2>2, <2>3, TaskWritten
    <2>5. UNCHANGED <<keyOf, run, lock, registry, cand, ghosts, stuck, faults>>
      BY <1>2 DEF LooseEnds
    <2>6. slot' = s BY <2>1, <2>3
    <2>7. QED BY <1>a, <2>2, <2>4, <2>5, <2>6
  <1>3. CASE ContainerDies
    <2>1. UNCHANGED <<keyOf, run, lock, registry, slot, cand, ghosts, stuck>> /\ Fault
      BY <1>3 DEF ContainerDies
    <2>2. QED BY <1>a, <2>1, FaultCounted
  <1>4. CASE RootReplaced
    <2>1. UNCHANGED <<keyOf, run, lock, registry, cand, ghosts, stuck>> /\ Fault
      BY <1>4 DEF RootReplaced
    <2>2. slot' = [slot EXCEPT !.root = "other", !.files = {}, !.lease = NoRun,
                               !.auth = NoEvidence, !.mirror = NoEvidence]
      BY <1>4 DEF RootReplaced
    <2>3. slot' \in Slot /\ slot'.root = "other" /\ slot'.files = {} /\ slot'.auth = NoEvidence
      BY <1>a, <2>2, NoEvidenceType DEF Slot
    <2>4. QED BY <2>1, <2>3, FaultCounted
  <1>5. QED BY <1>1, <1>2, <1>3, <1>4 DEF Beside

LEMMA CrashEffect ==
    ASSUME Shapes, Daemon, Crash
    PROVE  /\ UNCHANGED <<keyOf, daemonVars, cand, owner, good, stuck>>
           /\ run' \in [Run -> Thread] /\ \A r \in Run : run'[r] = AtRest
           /\ lock' = NoRun /\ registry' \in [Key -> {"none", "idle", "running", "tainted"}]
           /\ slot' \in Slot /\ slot'.files = slot.files
           /\ faults' \in 0..MaxFault
           /\ loose \subseteq loose' /\ loose' \subseteq Exec
  <1>a. slot \in Slot BY DEF Shapes
  <1>1. AtRest \in Thread BY ContainerAssumption DEF AtRest, Thread, Place, Result
  <1>2. run' = [r \in Run |-> AtRest] BY DEF Crash
  <1>3. PICK t \in {"absent", "tree", "baseline", "ready"} : slot' = [slot EXCEPT !.trust = t]
    BY <1>a DEF Crash, Slot
  <1>4. slot' \in Slot /\ slot'.files = slot.files BY <1>a, <1>3 DEF Slot
  <1>5. loose' = loose \cup UNION {procs[k] : k \in Key} BY DEF Crash
  <1>6. loose' \subseteq Exec
    <2>1. \A k \in Key : procs[k] \subseteq Exec BY DEF Daemon
    <2>2. QED BY <1>5, <2>1 DEF Shapes
  <1>7. registry' = [k \in Key |-> "none"] /\ lock' = NoRun /\ Fault BY DEF Crash
  <1>8. UNCHANGED <<keyOf, daemonVars, cand, owner, good, stuck>> BY DEF Crash
  <1>9. QED BY <1>1, <1>2, <1>4, <1>5, <1>6, <1>7, <1>8, FaultCounted

LEMMA ShapeStep ==
    ASSUME ContainerInv, [Next]_vars PROVE Shapes' /\ Locked' /\ Numbered'
  <1> USE DEF ContainerInv
  <1>1. ASSUME NEW r \in Run, Evidences(r) PROVE Shapes' /\ Locked' /\ Numbered'
    <2>1. Shapes' /\ Locked' BY <1>1, ShapeEvidences
    <2>2. Begin(r) => Numbered' BY NumberedStep
    <2>3. BeginMirror(r) \/ Publish(r) \/ PublishEnds(r) => owner' = owner
      BY DEF BeginMirror, Publish, PublishEnds, ghosts
    <2>4. owner' = owner => Numbered' BY DEF Numbered, Started
    <2>5. QED BY <1>1, <2>1, <2>2, <2>3, <2>4 DEF Evidences
  <1>2. ASSUME NEW r \in Run, Slots(r) PROVE Shapes' /\ Locked' /\ Numbered'
    <2>1. Shapes' /\ Locked' BY <1>2, ShapeSlots
    <2>2. owner' = owner
      BY <1>2 DEF Slots, Prepare, PrepareRefused, MarkSlotRootCompromised, PrepareFails,
                  Collect, CollectFails, MarkRunFailed, ghosts
    <2>3. QED BY <2>1, <2>2 DEF Numbered, Started
  <1>3. ASSUME NEW r \in Run, Acquires(r) \/ Executes(r) PROVE Shapes' /\ Locked' /\ Numbered'
    <2>1. Shapes' /\ Locked' BY <1>3, ShapeAtWork
    <2>2. owner' = owner BY <1>3, AcquireEffect, ExecuteEffect DEF ghosts
    <2>3. QED BY <2>1, <2>2 DEF Numbered, Started
  <1>4. CASE Beside
    <2>1. Shapes' BY <1>4, BesideEffect DEF Shapes, ghosts
    <2>2. Locked' BY <1>4, BesideEffect DEF Locked
    <2>3. Numbered' BY <1>4, BesideEffect DEF Numbered, Started, ghosts
    <2>4. QED BY <2>1, <2>2, <2>3
  <1>5. CASE Crash
    <2>1. Shapes' BY <1>5, CrashEffect DEF Shapes
    <2>2. Locked' BY <1>5, CrashEffect, ContainerAssumption DEF Locked, AtRest, InTransaction
    <2>3. Numbered' BY <1>5, CrashEffect DEF Numbered, Started
    <2>4. QED BY <2>1, <2>2, <2>3
  <1>6. CASE UNCHANGED vars
    BY <1>6 DEF vars, Shapes, Locked, Numbered, Started
  <1>7. QED BY <1>1, <1>2, <1>3, <1>4, <1>5, <1>6 DEF Next, Beside

-----------------------------------------------------------------------------
(* Executions and containers.                                               *)

(* The thread of a step of a run's slot or evidence.                         *)
LEMMA ThreadEffect ==
    ASSUME Shapes, NEW r \in Run,
           Slots(r) \/ BeginMirror(r) \/ Publish(r) \/ PublishEnds(r)
    PROVE  /\ UNCHANGED <<keyOf, daemonVars, ghosts, stuck>>
           /\ run[r].pc # "rest"
           /\ run'[r].pc # "rest" => run'[r].ex = run[r].ex
           /\ run'[r].pc \in {"rest", "wait", "retire", "compromised", "mark", "publish", "mirror"}
           /\ \A q \in Run \ {r} : run'[q] = run[q]
  <1>a. run \in [Run -> Thread] /\ run[r].result \in Result BY DEF Shapes, Thread
  <1>1. CASE BeginMirror(r)
    <2>1. Goes(r, "wait") BY <1>1 DEF BeginMirror
    <2>2. QED BY <1>1, <1>a, <2>1, GoesTo DEF BeginMirror, Place
  <1>2. CASE Publish(r)
    <2>1. Goes(r, "mirror") BY <1>2 DEF Publish
    <2>2. QED BY <1>2, <1>a, <2>1, GoesTo DEF Publish, Place
  <1>3. CASE PublishEnds(r)
    <2>1. run'[r].pc = "rest" BY <1>3, <1>a DEF PublishEnds, AtRest
    <2>2. QED BY <1>3, <1>a, <2>1 DEF PublishEnds
  <1>4. CASE Prepare(r)
    <2>1. Goes(r, "retire") BY <1>4 DEF Prepare
    <2>2. QED BY <1>4, <1>a, <2>1, GoesTo DEF Prepare, Place, InTransaction
  <1>5. CASE PrepareRefused(r)
    <2>1. Ends(r, "compromised", "failed") BY <1>5 DEF PrepareRefused
    <2>2. QED BY <1>5, <1>a, <2>1, EndsWith DEF PrepareRefused, Place, Result
  <1>6. CASE MarkSlotRootCompromised(r)
    <2>1. Goes(r, "publish") BY <1>6 DEF MarkSlotRootCompromised
    <2>2. QED BY <1>6, <1>a, <2>1, GoesTo DEF MarkSlotRootCompromised, Place
  <1>7. CASE PrepareFails(r)
    <2>1. Ends(r, "publish", "failed") BY <1>7 DEF PrepareFails
    <2>2. QED BY <1>7, <1>a, <2>1, EndsWith DEF PrepareFails, Place, Result
  <1>8. CASE Collect(r)
    <2>1. Released(r, run[r].result) BY <1>8 DEF Collect
    <2>2. QED BY <1>8, <1>a, <2>1, Releases DEF Collect
  <1>9. CASE CollectFails(r)
    <2>1. PICK result \in Result : Released(r, result) BY <1>9, <1>a DEF CollectFails, Result
    <2>2. QED BY <1>9, <1>a, <2>1, Releases DEF CollectFails
  <1>10. CASE MarkRunFailed(r)
    <2>1. Goes(r, "publish") BY <1>10 DEF MarkRunFailed
    <2>2. QED BY <1>10, <1>a, <2>1, GoesTo DEF MarkRunFailed, Place
  <1>11. QED BY <1>1, <1>2, <1>3, <1>4, <1>5, <1>6, <1>7, <1>8, <1>9, <1>10 DEF Slots

LEMMA OwnedStep ==
    ASSUME ContainerInv, [Next]_vars, NEW q \in Run PROVE Owned(q)'
  <1> USE DEF ContainerInv
  <1>a. Owned(q) /\ q # NoRun BY ContainerAssumption
  <1>1. ASSUME NEW r \in Run, Begin(r) PROVE Owned(q)'
    <2>1. PICK e \in Exec :
            /\ e \notin Started /\ owner' = [owner EXCEPT ![e] = r]
            /\ run'[r].ex = e /\ \A p \in Run \ {r} : run'[p] = run[p]
      BY <1>1, BeginEffect
    <2>2. owner[e] = NoRun BY <2>1 DEF Started
    <2>3. owner \in [Exec -> Run \cup {NoRun}] BY DEF Shapes
    <2>4. QED BY <1>a, <2>1, <2>2, <2>3 DEF Owned
  <1>2. ASSUME NEW r \in Run, Slots(r) \/ BeginMirror(r) \/ Publish(r) \/ PublishEnds(r)
        PROVE  Owned(q)'
    BY <1>2, <1>a, ThreadEffect DEF Owned, ghosts
  <1>3. ASSUME NEW r \in Run, Acquires(r) PROVE Owned(q)'
    BY <1>3, <1>a, AcquireEffect DEF Owned, ghosts
  <1>4. ASSUME NEW r \in Run, Executes(r) PROVE Owned(q)'
    BY <1>4, <1>a, ExecuteEffect DEF Owned
  <1>5. CASE Beside BY <1>5, <1>a, BesideEffect DEF Owned, ghosts
  <1>6. CASE Crash BY <1>6, CrashEffect DEF Owned, AtRest
  <1>7. CASE UNCHANGED vars BY <1>7, <1>a DEF vars, Owned
  <1>8. QED BY <1>1, <1>2, <1>3, <1>4, <1>5, <1>6, <1>7 DEF Next, Beside, Evidences

LEMMA RemovedDaemon ==
    ASSUME Daemon, NEW ks, Removed(ks), UNCHANGED owner
    PROVE  Daemon' /\ \A k \in Key : IF k \in ks THEN up'[k] = "none"
                                     ELSE up'[k] = up[k] /\ used'[k] = used[k]
  <1>1. Started' = Started BY DEF Started
  <1>2. /\ up' = [k \in Key |-> IF k \in ks THEN "none" ELSE up[k]]
        /\ used' = [k \in Key |-> IF k \in ks THEN {} ELSE used[k]]
        /\ procs' = [k \in Key |-> IF k \in ks THEN {} ELSE procs[k]]
    BY DEF Removed
  <1>3. ASSUME NEW k \in Key
        PROVE  /\ up'[k] \in {"none", "created", "running", "dead"}
               /\ used'[k] \in SUBSET Exec /\ procs'[k] \in SUBSET Exec
               /\ procs'[k] \subseteq used'[k] /\ used'[k] \subseteq Started'
               /\ procs'[k] # {} => up'[k] = "running"
               /\ up'[k] \in {"none", "created"} => used'[k] = {}
    <2>1. CASE k \in ks BY <1>2, <2>1
    <2>2. CASE k \notin ks BY <1>1, <1>2, <2>2 DEF Daemon
    <2>3. QED BY <2>1, <2>2
  <1>4. Daemon' BY <1>2, <1>3 DEF Daemon
  <1>5. QED BY <1>2, <1>4

(* A removal that fails leaves some of the containers.                       *)
LEMMA CleanupDaemon ==
    ASSUME Daemon, NEW ks, Cleanup(ks), UNCHANGED owner
    PROVE  /\ Daemon'
           /\ ~stuck' => \A k \in Key : k \in ks => up'[k] = "none"
           /\ \A k \in Key : up'[k] = "none" \/ (up'[k] = up[k] /\ used'[k] = used[k])
  <1>1. CASE Removed(ks) BY <1>1, RemovedDaemon
  <1>2. CASE \E kept \in SUBSET {k \in ks : up[k] # "none"} :
               kept # {} /\ Fault /\ stuck' = TRUE /\ Removed(ks \ kept)
    <2>1. PICK kept : stuck' = TRUE /\ Removed(ks \ kept) BY <1>2
    <2>2. QED BY <2>1, RemovedDaemon
  <1>3. QED BY <1>1, <1>2 DEF Cleanup

LEMMA DaemonAcquires ==
    ASSUME Shapes, Daemon, NEW r \in Run, Acquires(r) PROVE Daemon'
  <1>a. owner' = owner /\ Started' = Started BY AcquireEffect DEF ghosts, Started
  <1>b. keyOf[r] \in Key BY DEF Shapes
  <1>1. CASE Retire(r) BY <1>1, <1>a, CleanupDaemon DEF Retire
  <1>2. CASE Replace(r) BY <1>2, <1>a, CleanupDaemon DEF Replace
  <1>3. CASE Reuse(r) \/ Discover(r) \/ ObtainRaises(r) \/ CreateFails(r)
    <2>1. UNCHANGED daemonVars BY <1>3 DEF Reuse, Discover, ObtainRaises, CreateFails
    <2>2. QED BY <1>a, <2>1 DEF Daemon, daemonVars
  <1>4. CASE Create(r) \/ StartFails(r)
    <2>1. PICK s \in {"running", "created"} : up' = [up EXCEPT ![keyOf[r]] = s]
      BY <1>4 DEF Create, StartFails
    <2>2. up[keyOf[r]] = "none" /\ UNCHANGED <<used, procs>> BY <1>4 DEF Create, StartFails
    <2>3. used[keyOf[r]] = {} /\ procs[keyOf[r]] = {} BY <1>b, <2>2 DEF Daemon
    <2>4. QED BY <1>a, <1>b, <2>1, <2>2, <2>3 DEF Daemon
  <1>5. QED BY <1>1, <1>2, <1>3, <1>4 DEF Acquires

LEMMA DaemonStep ==
    ASSUME ContainerInv, [Next]_vars PROVE Daemon'
  <1> USE DEF ContainerInv
  <1>1. ASSUME NEW r \in Run, Begin(r) PROVE Daemon'
    <2>1. Started \subseteq Started' /\ UNCHANGED daemonVars
      BY <1>1, BeginEffect
    <2>2. QED BY <2>1 DEF Daemon, daemonVars
  <1>2. ASSUME NEW r \in Run, Slots(r) \/ BeginMirror(r) \/ Publish(r) \/ PublishEnds(r)
        PROVE  Daemon'
    <2>1. UNCHANGED <<daemonVars, ghosts>> BY <1>2, ThreadEffect
    <2>2. QED BY <2>1 DEF Daemon, daemonVars, ghosts, Started
  <1>3. ASSUME NEW r \in Run, Acquires(r) PROVE Daemon' BY <1>3, DaemonAcquires
  <1>4. ASSUME NEW r \in Run, Executes(r) PROVE Daemon'
    <2>a. owner' = owner /\ Started' = Started /\ up' = up /\ run[r].pc \in {"exec", "running"}
      BY <1>4, ExecuteEffect DEF Started
    <2>b. keyOf[r] \in Key /\ run[r].ex \in Exec /\ run[r].ex \in Started
      BY <2>a, ContainerAssumption DEF Shapes, Owned, Started
    <2>1. CASE StartExec(r)
      <3>1. CASE up[keyOf[r]] = "running"
        <4>1. /\ used' = [used EXCEPT ![keyOf[r]] = @ \cup {run[r].ex}]
              /\ procs' = [procs EXCEPT ![keyOf[r]] = @ \cup {run[r].ex}]
          BY <2>1, <3>1 DEF StartExec
        <4>2. QED BY <2>a, <2>b, <3>1, <4>1 DEF Daemon
      <3>2. CASE up[keyOf[r]] # "running"
        <4>1. UNCHANGED <<used, procs>> BY <2>1, <3>2 DEF StartExec
        <4>2. QED BY <2>a, <4>1 DEF Daemon
      <3>3. QED BY <3>1, <3>2
    <2>2. CASE ExecExits(r)
      <3>1. procs' = [procs EXCEPT ![keyOf[r]] = @ \ {run[r].ex}] /\ used' = used
        BY <2>2 DEF ExecExits
      <3>2. QED BY <2>a, <2>b, <3>1 DEF Daemon
    <2>3. CASE ExecTimesOut(r) \/ ExecRaises(r)
      <3>1. UNCHANGED <<used, procs>> BY <2>3 DEF ExecTimesOut, ExecRaises, daemonVars
      <3>2. QED BY <2>a, <3>1 DEF Daemon
    <2>4. QED BY <1>4, <2>1, <2>2, <2>3 DEF Executes
  <1>5. CASE Beside
    <2>a. Started' = Started BY <1>5, BesideEffect DEF ghosts, Started
    <2>1. CASE LooseEnds
      <3>1. PICK k \in Key : \E e \in procs[k] : procs' = [procs EXCEPT ![k] = @ \ {e}]
        BY <2>1 DEF LooseEnds
      <3>2. UNCHANGED <<up, used>> BY <2>1 DEF LooseEnds
      <3>3. QED BY <2>a, <3>1, <3>2 DEF Daemon
    <2>2. CASE ContainerDies
      <3>1. PICK k \in Key : /\ up[k] = "running" /\ up' = [up EXCEPT ![k] = "dead"]
                             /\ procs' = [procs EXCEPT ![k] = {}] /\ used' = used
        BY <2>2 DEF ContainerDies
      <3>2. QED BY <2>a, <3>1 DEF Daemon
    <2>3. CASE LooseWrites \/ RootReplaced
      <3>1. UNCHANGED daemonVars BY <2>3 DEF LooseWrites, RootReplaced
      <3>2. QED BY <2>a, <3>1 DEF Daemon, daemonVars
    <2>4. QED BY <1>5, <2>1, <2>2, <2>3 DEF Beside
  <1>6. CASE Crash
    BY <1>6, CrashEffect DEF Daemon, daemonVars, Started
  <1>7. CASE UNCHANGED vars BY <1>7 DEF vars, Daemon, Started
  <1>8. QED BY <1>1, <1>2, <1>3, <1>4, <1>5, <1>6, <1>7 DEF Next, Beside, Evidences

-----------------------------------------------------------------------------
(* Whose files are where.                                                   *)

LEMMA CollectEffect ==
    ASSUME Shapes, NEW r \in Run, Collect(r)
    PROVE  /\ run[r].pc = "collect" /\ slot.root = "own" /\ lock' = NoRun
           /\ cand' \in [Run -> Candidate]
           /\ cand'[r].files = slot.files /\ cand'[r].auth = slot.auth
           /\ cand'[r].by = run[r].ex
           /\ \A q \in Run \ {r} : cand'[q] = cand[q]
           /\ UNCHANGED slot
           /\ run'[r].pc \in {"rest", "mark", "publish"}
           /\ run'[r].pc # "rest" => run'[r].result = run[r].result
           /\ run'[r].pc = "mark" <=> run[r].result = "exit"
           /\ run'[r].pc = "rest" => run'[r].result = "none"
  <1>1. cand[r] \in Candidate /\ slot \in Slot /\ run[r] \in Thread BY DEF Shapes
  <1>2. Released(r, run[r].result) /\ run[r].result \in Result
    BY <1>1 DEF Collect, Thread
  <1>3. PICK c : c = Collected(r) OBVIOUS
  <1>4. /\ c \in Candidate /\ c.files = slot.files /\ c.auth = slot.auth /\ c.by = run[r].ex
    BY <1>1, <1>3 DEF Collected, Slot, Candidate, Thread
  <1>5. cand' = [cand EXCEPT ![r] = c] BY <1>3 DEF Collect
  <1>6. run[r].pc = "collect" /\ slot.root = "own" /\ UNCHANGED slot BY DEF Collect, RootAccess
  <1>7. QED BY <1>2, <1>4, <1>5, <1>6, Releases DEF Shapes

(* A collection that fails leaves evidence out, or the files.                *)
LEMMA CollectFailsEffect ==
    ASSUME Shapes, NEW r \in Run, CollectFails(r)
    PROVE  /\ run[r].pc = "collect" /\ lock' = NoRun /\ UNCHANGED slot
           /\ \A q \in Run \ {r} : cand'[q] = cand[q]
           /\ cand'[r].files \in {{}, cand[r].files}
           /\ \/ cand'[r].auth \in {NoEvidence, slot.auth}
              \/ cand'[r].auth = cand[r].auth /\ cand'[r].files = cand[r].files
                 /\ cand'[r].by = cand[r].by
           /\ run'[r].pc \in {"rest", "mark", "publish"}
           /\ run'[r].result # "ok"
  <1>1. cand[r] \in Candidate /\ slot \in Slot /\ run[r] \in Thread BY DEF Shapes
  <1>2. PICK result \in Result : Released(r, result) /\ result # "ok"
    BY <1>1 DEF CollectFails, Thread, Result
  <1>3. /\ \A q \in Run \ {r} : cand'[q] = cand[q]
        /\ cand'[r].files \in {{}, cand[r].files}
        /\ \/ cand'[r].auth \in {NoEvidence, slot.auth}
           \/ cand'[r].auth = cand[r].auth /\ cand'[r].files = cand[r].files
              /\ cand'[r].by = cand[r].by
    <2>1. CASE UNCHANGED cand BY <2>1
    <2>2. CASE RootAccess
      <3> DEFINE c == cand[r]
                 out == [c EXCEPT !.mirror = slot.mirror]
                 diag == [out EXCEPT !.auth = slot.auth]
      <3>1. PICK part \in {[c EXCEPT !.mirror = NoEvidence], [out EXCEPT !.auth = NoEvidence],
                           [diag EXCEPT !.files = {}]} : cand' = [cand EXCEPT ![r] = part]
        BY <2>2 DEF CollectFails
      <3>2. /\ part.files \in {{}, cand[r].files}
            /\ \/ part.auth \in {NoEvidence, slot.auth}
               \/ part.auth = cand[r].auth /\ part.files = cand[r].files /\ part.by = cand[r].by
        BY <1>1, <3>1 DEF Candidate
      <3>3. QED BY <3>1, <3>2 DEF Shapes
    <2>3. QED BY <2>1, <2>2 DEF CollectFails
  <1>4. run[r].pc = "collect" /\ UNCHANGED slot BY DEF CollectFails
  <1>5. /\ lock' = NoRun /\ run'[r].pc \in {"rest", "mark", "publish"} /\ run'[r].result # "ok"
    BY <1>2, Releases DEF Shapes
  <1>6. QED BY <1>3, <1>4, <1>5

(* The steps of a slot that leave the candidates alone.                      *)
LEMMA SlotEffect ==
    ASSUME Shapes, NEW r \in Run,
           Prepare(r) \/ PrepareRefused(r) \/ PrepareFails(r)
           \/ MarkSlotRootCompromised(r) \/ MarkRunFailed(r)
    PROVE  /\ cand' = cand
           /\ Prepare(r) => /\ run[r].pc = "wait" /\ run'[r].pc = "retire"
                            /\ lock = NoRun /\ lock' = r
                            /\ slot'.files = cand[r].files /\ slot'.auth = cand[r].auth
           /\ ~Prepare(r) => lock' = lock
           /\ PrepareRefused(r) \/ PrepareFails(r) =>
                /\ run[r].pc = "wait" /\ run'[r].result = "failed"
                /\ lock = NoRun
                /\ \A e \in slot'.files : e \in slot.files \/ e \in cand[r].files
           /\ MarkSlotRootCompromised(r) \/ MarkRunFailed(r) =>
                /\ run[r].pc \in {"compromised", "mark"}
                /\ run'[r].result = run[r].result /\ UNCHANGED slot
           /\ ~Prepare(r) => run'[r].pc \in {"compromised", "publish"}
  <1>a. run \in [Run -> Thread] /\ slot \in Slot BY DEF Shapes
  <1>1. CASE Prepare(r)
    <2>1. Goes(r, "retire") /\ slot' = Populated(r) /\ run[r].pc = "wait" /\ cand' = cand
          /\ lock = NoRun /\ lock' = r
      BY <1>1 DEF Prepare
    <2>2. run'[r].pc = "retire" BY <1>a, <2>1, GoesTo DEF Place, InTransaction
    <2>3. slot'.files = cand[r].files /\ slot'.auth = cand[r].auth BY <2>1, Filled
    <2>4. ~PrepareRefused(r) /\ ~PrepareFails(r) /\ ~MarkSlotRootCompromised(r) /\ ~MarkRunFailed(r)
      BY <2>1, <2>2, ContainerAssumption
      DEF PrepareRefused, PrepareFails, MarkSlotRootCompromised, MarkRunFailed
    <2>5. QED BY <1>1, <2>1, <2>2, <2>3, <2>4
  <1>2. ASSUME ~Prepare(r) PROVE lock' = lock /\ cand' = cand
    BY <1>2 DEF PrepareRefused, PrepareFails, MarkSlotRootCompromised, MarkRunFailed
  <1>3. ASSUME PrepareRefused(r)
        PROVE  /\ run[r].pc = "wait" /\ run'[r].result = "failed" /\ lock = NoRun
               /\ run'[r].pc = "compromised" /\ slot'.files = slot.files
    <2>1. Ends(r, "compromised", "failed") BY <1>3 DEF PrepareRefused
    <2>2. QED BY <1>3, <1>a, <2>1, EndsWith DEF PrepareRefused, Place, Result, Slot
  <1>4. ASSUME PrepareFails(r)
        PROVE  /\ run[r].pc = "wait" /\ run'[r].result = "failed" /\ lock = NoRun
               /\ run'[r].pc = "publish" /\ slot'.files \subseteq cand[r].files
    <2>1. Ends(r, "publish", "failed") BY <1>4 DEF PrepareFails
    <2>2. QED BY <1>4, <1>a, <2>1, EndsWith DEF PrepareFails, Place, Result, Slot
  <1>5. ASSUME MarkSlotRootCompromised(r)
        PROVE  /\ run[r].pc = "compromised" /\ run'[r].result = run[r].result
               /\ run'[r].pc = "publish" /\ UNCHANGED slot
    <2>1. Goes(r, "publish") BY <1>5 DEF MarkSlotRootCompromised
    <2>2. QED BY <1>5, <1>a, <2>1, GoesTo DEF MarkSlotRootCompromised, Place
  <1>6. ASSUME MarkRunFailed(r)
        PROVE  /\ run[r].pc = "mark" /\ run'[r].result = run[r].result
               /\ run'[r].pc = "publish" /\ UNCHANGED slot
    <2>1. Goes(r, "publish") BY <1>6 DEF MarkRunFailed
    <2>2. QED BY <1>6, <1>a, <2>1, GoesTo DEF MarkRunFailed, Place
  <1>7. QED BY <1>1, <1>2, <1>3, <1>4, <1>5, <1>6, Zenon

(* What lies in the slot belongs to the holder of the lock, who takes it back *)
(* to its candidate before it lets the lock go.                             *)
LEMMA FilesStep ==
    ASSUME ContainerInv, [Next]_vars PROVE SlotIsOwn' /\ CollectedIsOwn'
  <1> USE DEF ContainerInv
  <1>a. \A r \in Run : cand[r].files \subseteq Started
    BY ContainerAssumption DEF CollectedIsOwn, SlotIsOwn, Started, Shapes, Candidate
  <1>b. \A e \in Started : owner[e] # NoRun BY DEF Started
  <1>1. ASSUME NEW r \in Run, Begin(r) PROVE SlotIsOwn' /\ CollectedIsOwn'
    <2>1. PICK e \in Exec :
            /\ e \notin Started /\ Started' = Started \cup {e}
            /\ owner' = [owner EXCEPT ![e] = r]
            /\ PublishAuthoritative(r, e, "pending")
            /\ UNCHANGED <<lock, slot, loose>>
      BY <1>1, BeginEffect
    <2>2. e \in 0..MaxExec BY ContainerAssumption DEF Exec
    <2>3. \A q \in Run : cand'[q].files = cand[q].files
      BY <2>1, <2>2, AuthoritativeWritten DEF Shapes
    <2>4. \A x \in Started : x # e /\ owner'[x] = owner[x]
      BY <2>1 DEF Shapes, Started
    <2>5. SlotIsOwn' BY <2>1, <2>4 DEF SlotIsOwn
    <2>6. CollectedIsOwn' BY <1>a, <2>1, <2>3, <2>4 DEF CollectedIsOwn
    <2>7. QED BY <2>5, <2>6
  <1>2. ASSUME NEW r \in Run, BeginMirror(r) \/ Publish(r) \/ PublishEnds(r)
        PROVE  SlotIsOwn' /\ CollectedIsOwn'
    <2>1. UNCHANGED <<slot, lock, owner, loose>>
      BY <1>2 DEF BeginMirror, Publish, PublishEnds, ghosts
    <2>2. run[r].ex \in 0..MaxExec /\ Verdict(run[r].result) \in {"completed", "failed"}
      BY DEF Shapes, Thread, Verdict
    <2>3. \A q \in Run : cand'[q].files = cand[q].files
      <3>1. CASE BeginMirror(r)
        BY <2>2, <3>1, MirrorWritten DEF BeginMirror, Shapes
      <3>2. CASE Publish(r)
        BY <2>2, <3>2, AuthoritativeWritten DEF Publish, Shapes
      <3>3. CASE PublishEnds(r)
        BY <2>2, <3>3, MirrorWritten DEF PublishEnds, Shapes
      <3>4. QED BY <1>2, <3>1, <3>2, <3>3
    <2>4. QED BY <2>1, <2>3 DEF SlotIsOwn, CollectedIsOwn, Started
  <1>3. ASSUME NEW r \in Run, Collect(r) PROVE SlotIsOwn' /\ CollectedIsOwn'
    <2>1. UNCHANGED <<slot, owner, loose>> BY <1>3 DEF Collect, ghosts
    <2>2. lock = r /\ lock' = NoRun
      BY <1>3, CollectEffect DEF Locked, InTransaction
    <2>3. QED BY <1>3, <2>1, <2>2, CollectEffect, ContainerAssumption
          DEF SlotIsOwn, CollectedIsOwn, Started
  <1>4. ASSUME NEW r \in Run, CollectFails(r) PROVE SlotIsOwn' /\ CollectedIsOwn'
    <2>1. UNCHANGED <<slot, owner, loose>> BY <1>4 DEF CollectFails, ghosts
    <2>2. QED BY <1>4, <2>1, CollectFailsEffect DEF SlotIsOwn, CollectedIsOwn, Started
  <1>5. ASSUME NEW r \in Run,
               Prepare(r) \/ PrepareRefused(r) \/ PrepareFails(r)
               \/ MarkSlotRootCompromised(r) \/ MarkRunFailed(r)
        PROVE  SlotIsOwn' /\ CollectedIsOwn'
    <2>1. UNCHANGED <<owner, loose>> /\ Started' = Started
      BY <1>5, ThreadEffect DEF Slots, ghosts, Started
    <2>2. CollectedIsOwn' BY <1>5, <2>1, SlotEffect DEF CollectedIsOwn
    <2>3. SlotIsOwn'
      BY <1>a, <1>5, <2>1, SlotEffect DEF SlotIsOwn, CollectedIsOwn
    <2>4. QED BY <2>2, <2>3
  <1>6. ASSUME NEW r \in Run, Acquires(r) PROVE SlotIsOwn' /\ CollectedIsOwn'
    BY <1>6, AcquireEffect DEF SlotIsOwn, CollectedIsOwn, Started, ghosts
  <1>7. ASSUME NEW r \in Run, Executes(r) PROVE SlotIsOwn' /\ CollectedIsOwn'
    <2>1. /\ UNCHANGED <<lock, cand, owner>> /\ Started' = Started
          /\ run[r].pc \in {"exec", "running"}
          /\ slot'.files \in {slot.files, slot.files \cup {run[r].ex}}
          /\ loose' \in {loose, loose \cup {run[r].ex}}
      BY <1>7, ExecuteEffect DEF Started
    <2>2. lock = r BY <2>1 DEF Locked, InTransaction
    <2>3. owner[run[r].ex] = r /\ run[r].ex \in Started
      BY <2>1, ContainerAssumption DEF Owned, Started
    <2>4. QED BY <2>1, <2>2, <2>3 DEF SlotIsOwn, CollectedIsOwn
  <1>8. CASE Beside
    BY <1>8, BesideEffect DEF SlotIsOwn, CollectedIsOwn, Started, ghosts
  <1>9. CASE Crash
    <2>1. /\ UNCHANGED <<cand, owner>> /\ Started' = Started /\ lock' = NoRun
          /\ slot'.files = slot.files /\ loose \subseteq loose'
      BY <1>9, CrashEffect DEF Started
    <2>2. loose' = loose \cup UNION {procs[k] : k \in Key} BY <1>9 DEF Crash
    <2>3. \A k \in Key : procs[k] \subseteq Started BY DEF Daemon
    <2>4. loose' \subseteq Started BY <2>2, <2>3 DEF SlotIsOwn
    <2>5. QED BY <2>1, <2>4 DEF SlotIsOwn, CollectedIsOwn
  <1>10. CASE UNCHANGED vars BY <1>10 DEF vars, SlotIsOwn, CollectedIsOwn, Started
  <1>11. QED BY <1>1, <1>2, <1>3, <1>4, <1>5, <1>6, <1>7, <1>8, <1>9, <1>10
         DEF Next, Beside, Evidences, Slots

-----------------------------------------------------------------------------
(* The container of a run.                                                  *)

Using(r) == run[r].pc \in {"obtain", "create", "exec", "running"}

(* What a run's own acquisition and execution do to the daemon's containers. *)
LEMMA OwnContainer ==
    ASSUME ContainerInv, NEW r \in Run, Acquires(r) \/ Executes(r)
    PROVE  Fresh(r)' /\ Sole(r)'
  <1> USE DEF ContainerInv
  <1>a. keyOf' = keyOf /\ keyOf[r] \in Key
    BY AcquireEffect, ExecuteEffect DEF Shapes
  <1>b. Fresh(r) /\ Sole(r) /\ run \in [Run -> Thread] BY DEF Shapes
  <1>c. ASSUME NEW p \in Place, Goes(r, p)
        PROVE  run'[r].pc = p /\ run'[r].ex = run[r].ex /\ run'[r].replace = run[r].replace
    BY <1>b, <1>c, GoesTo
  <1>1. CASE Retire(r)
    <2>1. run'[r].pc = "obtain" BY <1>1, <1>c DEF Retire, Place, InTransaction
    <2>2. PICK others :
            /\ others = {k \in Key \ {keyOf[r]} : registry[k] # "none" \/ up[k] # "none"}
            /\ Cleanup(others) /\ UNCHANGED owner
      BY <1>1 DEF Retire, ghosts
    <2>3. /\ ~stuck' => \A k \in Key : k \in others => up'[k] = "none"
          /\ \A k \in Key : up'[k] = "none" \/ up'[k] = up[k]
      BY <2>2, CleanupDaemon
    <2>4. Sole(r)' BY <1>a, <2>2, <2>3 DEF Sole
    <2>5. QED BY <2>1, <2>4 DEF Fresh
  <1>2. CASE Reuse(r)
    <2>1. run'[r].pc = "exec" /\ run'[r].replace = run[r].replace
      BY <1>2, <1>c DEF Reuse, Place, InTransaction
    <2>2. /\ run[r].pc = "obtain" /\ ~run[r].replace /\ UNCHANGED <<daemonVars, stuck>>
      BY <1>2 DEF Reuse, Replacing
    <2>3. QED BY <1>a, <1>b, <2>1, <2>2 DEF Fresh, Sole, daemonVars
  <1>3. CASE Replace(r)
    <2>1. Replacing(r) /\ run[r].pc = "obtain" /\ Cleanup({keyOf[r]}) /\ UNCHANGED owner
          /\ AdoptOrCreate(r)
      BY <1>3 DEF Replace, ghosts
    <2>2. Goes(r, "create") BY <2>1 DEF AdoptOrCreate
    <2>3. run'[r].pc = "create" BY <1>c, <2>2 DEF Place, InTransaction
    <2>4. \A k \in Key : up'[k] = "none" \/ up'[k] = up[k] BY <2>1, CleanupDaemon
    <2>5. ~stuck' => ~stuck BY <2>1, CleanupKeeps
    <2>6. QED BY <1>a, <1>b, <2>1, <2>3, <2>4, <2>5 DEF Fresh, Sole
  <1>4. CASE Discover(r)
    <2>1. run[r].pc = "obtain" /\ UNCHANGED <<daemonVars, stuck>> /\ AdoptOrCreate(r)
      BY <1>4 DEF Discover
    <2>2. PICK p \in {"exec", "create"} : Goes(r, p) /\ (p = "exec" => ~run[r].replace)
      BY <2>1 DEF AdoptOrCreate, Replacing
    <2>3. run'[r].pc = p /\ run'[r].replace = run[r].replace
      BY <1>c, <2>2 DEF Place, InTransaction
    <2>4. QED BY <1>a, <1>b, <2>1, <2>2, <2>3 DEF Fresh, Sole, daemonVars
  <1>5. CASE Create(r)
    <2>1. run'[r].pc = "exec" BY <1>5, <1>c DEF Create, Place, InTransaction
    <2>2. /\ run[r].pc = "create" /\ up[keyOf[r]] = "none"
          /\ up' = [up EXCEPT ![keyOf[r]] = "running"] /\ UNCHANGED <<used, stuck>>
      BY <1>5 DEF Create
    <2>3. used[keyOf[r]] = {} BY <1>a, <2>2 DEF Daemon
    <2>4. \A k \in Key \ {keyOf[r]} : up'[k] = up[k] BY <2>2 DEF Daemon
    <2>5. QED BY <1>a, <1>b, <2>1, <2>2, <2>3, <2>4 DEF Fresh, Sole
  <1>6. CASE ObtainRaises(r) \/ CreateFails(r) \/ StartFails(r)
    <2>1. \E result \in Result : Ends(r, "collect", result)
      BY <1>6 DEF ObtainRaises, CreateFails, StartFails, Result
    <2>2. run'[r].pc = "collect" BY <1>b, <2>1, EndsWith DEF Place, InTransaction
    <2>3. QED BY <2>2 DEF Fresh, Sole
  <1>7. CASE StartExec(r)
    <2>1. /\ run'[r].pc = "running" /\ run'[r].ex = run[r].ex
          /\ run'[r].replace = run[r].replace
      BY <1>7, <1>c DEF StartExec, Place, InTransaction
    <2>2. run[r].pc = "exec" /\ UNCHANGED <<up, stuck>> BY <1>7 DEF StartExec
    <2>3. used' = [used EXCEPT ![keyOf[r]] = @ \cup {run[r].ex}] \/ used' = used
      BY <1>7 DEF StartExec
    <2>4. used'[keyOf[r]] \subseteq used[keyOf[r]] \cup {run[r].ex}
      BY <1>a, <2>3 DEF Daemon
    <2>5. QED BY <1>a, <1>b, <2>1, <2>2, <2>4 DEF Fresh, Sole
  <1>8. CASE ExecExits(r) \/ ExecTimesOut(r) \/ ExecRaises(r)
    <2>1. \E result \in Result : Ends(r, "collect", result)
      BY <1>8 DEF ExecExits, ExecTimesOut, ExecRaises, Result
    <2>2. run'[r].pc = "collect" BY <1>b, <2>1, EndsWith DEF Place, InTransaction
    <2>3. QED BY <2>2 DEF Fresh, Sole
  <1>9. QED BY <1>1, <1>2, <1>3, <1>4, <1>5, <1>6, <1>7, <1>8 DEF Acquires, Executes

LEMMA ContainerStep ==
    ASSUME ContainerInv, [Next]_vars, NEW q \in Run PROVE Fresh(q)' /\ Sole(q)'
  <1> USE DEF ContainerInv
  <1>a. Fresh(q) /\ Sole(q) OBVIOUS
  <1>b. ASSUME UNCHANGED <<keyOf, daemonVars, stuck>>, run'[q] = run[q] \/ ~Using(q)'
        PROVE  Fresh(q)' /\ Sole(q)'
    BY <1>a, <1>b DEF Fresh, Sole, daemonVars, Using
  <1>1. ASSUME NEW r \in Run, Begin(r) PROVE Fresh(q)' /\ Sole(q)'
    BY <1>1, <1>b, BeginEffect DEF Using
  <1>2. ASSUME NEW r \in Run, Slots(r) \/ BeginMirror(r) \/ Publish(r) \/ PublishEnds(r)
        PROVE  Fresh(q)' /\ Sole(q)'
    BY <1>2, <1>b, ThreadEffect DEF Using
  <1>3. ASSUME NEW r \in Run, Acquires(r) \/ Executes(r) PROVE Fresh(q)' /\ Sole(q)'
    <2>1. CASE q = r BY <1>3, <2>1, OwnContainer
    <2>2. CASE q # r
      <3>1. run[r].pc \in InTransaction /\ run'[q] = run[q]
        BY <1>3, <2>2, AcquireEffect, ExecuteEffect DEF InTransaction
      <3>2. run[q].pc \notin InTransaction BY <2>2, <3>1 DEF Locked
      <3>3. QED BY <3>1, <3>2 DEF Fresh, Sole, InTransaction
    <2>3. QED BY <2>1, <2>2
  <1>4. CASE Beside
    <2>1. UNCHANGED <<keyOf, run, stuck>> BY <1>4, BesideEffect
    <2>2. UNCHANGED used BY <1>4 DEF Beside, LooseWrites, LooseEnds, ContainerDies, RootReplaced, daemonVars
    <2>3. up' = up \/ \E k \in Key : up[k] = "running" /\ up' = [up EXCEPT ![k] = "dead"]
      BY <1>4 DEF Beside, LooseWrites, LooseEnds, ContainerDies, RootReplaced, daemonVars
    <2>4. \A k \in Key : up[k] = "none" => up'[k] = "none" BY <2>3 DEF Daemon
    <2>5. keyOf[q] \in Key BY DEF Shapes
    <2>6. QED BY <1>a, <2>1, <2>2, <2>4, <2>5 DEF Fresh, Sole
  <1>5. CASE Crash
    BY <1>5, <1>b, CrashEffect DEF AtRest, Using
  <1>6. CASE UNCHANGED vars BY <1>6, <1>b DEF vars, daemonVars
  <1>7. QED BY <1>1, <1>2, <1>3, <1>4, <1>5, <1>6 DEF Next, Beside, Evidences

-----------------------------------------------------------------------------
(* Evidence.                                                                *)

(* What others do leaves a run's evidence and its way to a verdict true.     *)
LEMMA StaysTruthful ==
    ASSUME NEW q \in Run, Truthful(q), run'[q] = run[q], cand'[q] = cand[q], good \subseteq good',
           lock' = q => lock = q /\ slot'.auth \in {slot.auth, NoEvidence},
           run[q].pc = "collect" /\ slot'.root = "own" =>
             slot.root = "own" /\ slot.files \subseteq slot'.files
    PROVE  Truthful(q)'
  <1>1. NoEvidence.status # "completed" BY DEF NoEvidence
  <1>2. \A e : Witnessed(q, e) => Witnessed(q, e)' BY DEF Witnessed
  <1>3. QED BY <1>1, <1>2 DEF Truthful, Witnessed

(* From its announcement to its verdict a run has no completed evidence.     *)
LEMMA AnnouncementTruthful ==
    ASSUME ContainerInv, NEW r \in Run, Evidences(r) PROVE Truthful(r)'
  <1> USE DEF ContainerInv
  <1>a. Truthful(r) /\ run[r] \in Thread /\ cand \in [Run -> Candidate] /\ run \in [Run -> Thread]
    BY DEF Shapes
  <1>b. run[r].ex \in 0..MaxExec /\ Verdict(run[r].result) \in {"completed", "failed"}
    BY <1>a DEF Thread, Verdict
  <1>1. CASE Begin(r)
    <2>1. PICK e \in Exec :
            /\ run[r].pc = "rest" /\ run'[r].pc = "begin" /\ run'[r].result = "none"
            /\ PublishAuthoritative(r, e, "pending") /\ lock' = lock
      BY <1>1, BeginEffect
    <2>2. e \in 0..MaxExec BY ContainerAssumption DEF Exec
    <2>3. cand'[r].auth = [ex |-> e, status |-> "pending"] BY <1>a, <2>1, <2>2, AuthoritativeWritten
    <2>4. lock' # r BY <2>1 DEF Locked, InTransaction
    <2>5. QED BY <2>1, <2>3, <2>4 DEF Truthful
  <1>2. CASE BeginMirror(r)
    <2>1. /\ run[r].pc = "begin" /\ PublishMirror(r, run[r].ex, "pending") /\ Goes(r, "wait")
          /\ UNCHANGED <<lock, slot, good>>
      BY <1>2 DEF BeginMirror, ghosts
    <2>2. run'[r].pc = "wait" /\ run'[r].result = run[r].result
      BY <1>a, <2>1, GoesTo DEF Place
    <2>3. cand'[r].auth = cand[r].auth /\ cand'[r].files = cand[r].files /\ cand'[r].by = cand[r].by
      BY <1>a, <1>b, <2>1, MirrorWritten
    <2>4. QED BY <1>a, <2>1, <2>2, <2>3 DEF Truthful, Witnessed
  <1>3. CASE Publish(r)
    <2>1. /\ run[r].pc = "publish" /\ PublishAuthoritative(r, run[r].ex, Verdict(run[r].result))
          /\ Goes(r, "mirror") /\ UNCHANGED <<lock, slot, good>>
      BY <1>3 DEF Publish, ghosts
    <2>2. run'[r].pc = "mirror" BY <1>a, <2>1, GoesTo DEF Place
    <2>3. PICK v : v = Verdict(run[r].result) OBVIOUS
    <2>4. /\ cand'[r].auth = [ex |-> run[r].ex, status |-> v]
          /\ cand'[r].files = cand[r].files /\ cand'[r].by = cand[r].by
      BY <1>a, <1>b, <2>1, <2>3, AuthoritativeWritten
    <2>5. cand'[r].auth.ex = run[r].ex /\ cand'[r].auth.status = v BY <2>4
    <2>6. v = "completed" => Witnessed(r, run[r].ex) BY <1>a, <2>1, <2>3 DEF Truthful, Verdict
    <2>7. lock' # r BY <2>1 DEF Locked, InTransaction
    <2>8. QED BY <2>1, <2>2, <2>4, <2>5, <2>6, <2>7 DEF Truthful, Witnessed
  <1>4. CASE PublishEnds(r)
    <2>1. /\ run[r].pc = "mirror" /\ PublishMirror(r, run[r].ex, Verdict(run[r].result))
          /\ run' = [run EXCEPT ![r] = AtRest] /\ UNCHANGED <<lock, slot, good>>
      BY <1>4 DEF PublishEnds, ghosts
    <2>2. run'[r].pc = "rest" /\ run'[r].result = "none" BY <1>a, <2>1 DEF AtRest
    <2>3. cand'[r].auth = cand[r].auth /\ cand'[r].files = cand[r].files /\ cand'[r].by = cand[r].by
      BY <1>a, <1>b, <2>1, MirrorWritten
    <2>4. lock' # r BY <2>1 DEF Locked, InTransaction
    <2>5. QED BY <1>a, <2>1, <2>2, <2>3, <2>4 DEF Truthful, Witnessed
  <1>5. QED BY <1>1, <1>2, <1>3, <1>4 DEF Evidences

(* Only a success that was collected is taken to its verdict.                *)
LEMMA CollectionTruthful ==
    ASSUME ContainerInv, NEW r \in Run, Slots(r) PROVE Truthful(r)'
  <1> USE DEF ContainerInv
  <1>a. Truthful(r) /\ good' = good /\ r # NoRun BY ThreadEffect, ContainerAssumption DEF ghosts
  <1>b. NoEvidence.status # "completed" BY DEF NoEvidence
  <1>1. CASE Prepare(r)
    <2>1. /\ cand' = cand /\ slot'.auth = cand[r].auth
          /\ run[r].pc = "wait" /\ run'[r].pc = "retire"
      BY <1>1, SlotEffect
    <2>2. QED BY <1>a, <2>1 DEF Truthful, Witnessed
  <1>2. CASE PrepareRefused(r) \/ PrepareFails(r)
    <2>0. lock = NoRun /\ lock' = lock
      BY <1>2 DEF PrepareRefused, PrepareFails
    <2>1. /\ cand' = cand /\ run'[r].result = "failed" /\ run[r].pc = "wait"
          /\ run'[r].pc # "begin" /\ run'[r].pc # "wait"
      BY <1>2, <2>0, <1>a, SlotEffect
    <2>2. QED BY <1>a, <2>0, <2>1 DEF Truthful, Witnessed
  <1>3. CASE MarkSlotRootCompromised(r) \/ MarkRunFailed(r)
    <2>1. /\ cand' = cand /\ run'[r].result = run[r].result
          /\ run[r].pc \in {"compromised", "mark"} /\ UNCHANGED slot
      BY <1>3, SlotEffect
    <2>2. lock' = lock BY <1>3 DEF MarkSlotRootCompromised, MarkRunFailed
    <2>3. lock # r BY <2>1 DEF Locked, InTransaction
    <2>4. run'[r].pc \in {"compromised", "publish"}
      BY <1>3, <2>2, <2>3, SlotEffect DEF Prepare
    <2>5. QED BY <1>a, <2>1, <2>2, <2>3, <2>4 DEF Truthful, Witnessed
  <1>4. CASE Collect(r)
    <2>1. /\ run[r].pc = "collect" /\ slot.root = "own" /\ lock' = NoRun
          /\ cand'[r].files = slot.files /\ cand'[r].auth = slot.auth
          /\ cand'[r].by = run[r].ex
          /\ run'[r].pc \in {"rest", "mark", "publish"}
          /\ run'[r].pc # "rest" => run'[r].result = run[r].result
          /\ run'[r].pc = "mark" <=> run[r].result = "exit"
          /\ run'[r].pc = "rest" => run'[r].result = "none"
      BY <1>4, CollectEffect
    <2>2. run'[r].pc # "rest" => run'[r].ex = run[r].ex BY ThreadEffect
    <2>3. lock = r BY <2>1 DEF Locked, InTransaction
    <2>4. cand'[r].auth.status # "completed" BY <1>a, <2>1, <2>3 DEF Truthful
    <2>5. QED BY <1>a, <2>1, <2>2, <2>4 DEF Truthful, Witnessed
  <1>5. CASE CollectFails(r)
    <2>1. /\ run[r].pc = "collect" /\ lock' = NoRun
          /\ \/ cand'[r].auth \in {NoEvidence, slot.auth}
             \/ cand'[r].auth = cand[r].auth /\ cand'[r].files = cand[r].files
                /\ cand'[r].by = cand[r].by
          /\ run'[r].pc \in {"rest", "mark", "publish"}
          /\ run'[r].result # "ok"
      BY <1>5, CollectFailsEffect
    <2>2. lock = r BY <2>1 DEF Locked, InTransaction
    <2>3. slot.auth.status # "completed" BY <1>a, <2>2 DEF Truthful
    <2>4. QED BY <1>a, <1>b, <2>1, <2>3 DEF Truthful, Witnessed
  <1>6. QED BY <1>1, <1>2, <1>3, <1>4, <1>5 DEF Slots

LEMMA WorkTruthful ==
    ASSUME ContainerInv, NEW r \in Run, Acquires(r) \/ Executes(r) PROVE Truthful(r)'
  <1> USE DEF ContainerInv
  <1>a. Truthful(r) OBVIOUS
  <1>1. CASE Acquires(r)
    <2>1. UNCHANGED <<lock, slot, cand, good>> BY <1>1, AcquireEffect DEF ghosts
    <2>2. /\ run'[r].pc \in {"obtain", "create", "exec", "collect"}
          /\ run'[r].pc = "collect" => run'[r].result # "ok"
      BY <1>1, AcquireEffect
    <2>3. QED BY <1>a, <2>1, <2>2 DEF Truthful, Witnessed
  <1>2. CASE Executes(r)
    <2>1. /\ UNCHANGED <<lock, cand>> /\ slot'.auth = slot.auth
          /\ run'[r].pc \in {"running", "collect"} /\ run'[r].ex = run[r].ex
          /\ good \subseteq good'
          /\ run'[r].pc = "collect" /\ run'[r].result = "ok" =>
               run[r].ex \in good' /\ (slot'.root = "own" => run[r].ex \in slot'.files)
      BY <1>2, ExecuteEffect
    <2>2. QED BY <1>a, <2>1 DEF Truthful, Witnessed
  <1>3. QED BY <1>1, <1>2

LEMMA TruthStep ==
    ASSUME ContainerInv, [Next]_vars, NEW q \in Run PROVE Truthful(q)'
  <1> USE DEF ContainerInv
  <1>a. Truthful(q) /\ q # NoRun /\ cand \in [Run -> Candidate] /\ run \in [Run -> Thread]
    BY ContainerAssumption DEF Shapes
  <1>1. ASSUME NEW r \in Run, Evidences(r) PROVE Truthful(q)'
    <2>1. CASE q = r BY <1>1, <2>1, AnnouncementTruthful
    <2>2. CASE q # r
      <3>1. UNCHANGED <<lock, slot, good>>
        BY <1>1 DEF Evidences, Begin, BeginMirror, Publish, PublishEnds, ghosts
      <3>2. run'[q] = run[q]
        BY <1>1, <2>2, BeginEffect, ThreadEffect DEF Evidences
      <3>3. cand'[q] = cand[q]
        BY <1>1, <1>a, <2>2 DEF Evidences, Begin, BeginMirror, Publish, PublishEnds,
                                PublishAuthoritative, PublishMirror
      <3>4. QED BY <1>a, <3>1, <3>2, <3>3, StaysTruthful
    <2>3. QED BY <2>1, <2>2
  <1>2. ASSUME NEW r \in Run, Slots(r) PROVE Truthful(q)'
    <2>1. CASE q = r BY <1>2, <2>1, CollectionTruthful
    <2>2. CASE q # r
      <3>1. run'[q] = run[q] /\ good' = good BY <1>2, <2>2, ThreadEffect DEF ghosts
      <3>2. CASE Collect(r) \/ CollectFails(r)
        <4>1. cand'[q] = cand[q] /\ lock' = NoRun /\ UNCHANGED slot
          BY <2>2, <3>2, CollectEffect, CollectFailsEffect
        <4>2. QED BY <1>a, <3>1, <4>1, StaysTruthful
      <3>3. CASE Prepare(r) \/ PrepareRefused(r) \/ PrepareFails(r)
        <4>1. cand' = cand /\ lock = NoRun /\ lock' \in {NoRun, r}
          BY <3>3 DEF Prepare, PrepareRefused, PrepareFails
        <4>2. run[q].pc # "collect" BY <1>a, <4>1 DEF Locked, InTransaction
        <4>3. QED BY <1>a, <2>2, <3>1, <4>1, <4>2, StaysTruthful
      <3>4. CASE MarkSlotRootCompromised(r) \/ MarkRunFailed(r)
        <4>1. UNCHANGED <<cand, lock, slot>> BY <3>4 DEF MarkSlotRootCompromised, MarkRunFailed
        <4>2. QED BY <1>a, <3>1, <4>1, StaysTruthful
      <3>5. QED BY <1>2, <3>2, <3>3, <3>4 DEF Slots
    <2>3. QED BY <2>1, <2>2
  <1>3. ASSUME NEW r \in Run, Acquires(r) \/ Executes(r) PROVE Truthful(q)'
    <2>1. CASE q = r BY <1>3, <2>1, WorkTruthful
    <2>2. CASE q # r
      <3>1. /\ run[r].pc \in InTransaction /\ run'[q] = run[q] /\ cand' = cand /\ lock' = lock
            /\ good \subseteq good'
        BY <1>3, <2>2, AcquireEffect, ExecuteEffect DEF InTransaction, ghosts
      <3>2. lock = r BY <3>1 DEF Locked
      <3>3. run[q].pc # "collect" BY <2>2, <3>2 DEF Locked, InTransaction
      <3>4. QED BY <1>a, <2>2, <3>1, <3>2, <3>3, StaysTruthful
    <2>3. QED BY <2>1, <2>2
  <1>4. CASE Beside
    <2>1. /\ UNCHANGED <<run, cand, lock, good>>
          /\ slot'.auth \in {slot.auth, NoEvidence}
          /\ slot'.root = "own" => slot.root = "own" /\ slot.files \subseteq slot'.files
      BY <1>4, BesideEffect DEF ghosts
    <2>2. QED BY <1>a, <2>1, StaysTruthful
  <1>5. CASE Crash
    <2>1. UNCHANGED <<cand, good>> /\ run'[q] = AtRest /\ lock' = NoRun BY <1>5, CrashEffect
    <2>2. QED BY <1>a, <2>1 DEF Truthful, Witnessed, AtRest
  <1>6. CASE UNCHANGED vars
    <2>1. UNCHANGED <<run, cand, good, lock, slot>> BY <1>6 DEF vars
    <2>2. QED BY <1>a, <2>1, StaysTruthful
  <1>7. QED BY <1>1, <1>2, <1>3, <1>4, <1>5, <1>6 DEF Next, Beside

-----------------------------------------------------------------------------
(* The theorems.                                                            *)

LEMMA ContainerStart == Init => ContainerInv
  <1> SUFFICES ASSUME Init PROVE ContainerInv
    OBVIOUS
  <1> USE ContainerAssumption
  <1>1. NoEvidence \in Evidence /\ AtRest \in Thread
    BY NoEvidenceType DEF AtRest, Thread, Place, Result
  <1>2. Shapes
    <2>1. slot \in Slot BY <1>1 DEF Init, Slot
    <2>2. [files |-> {}, auth |-> NoEvidence, mirror |-> NoEvidence, by |-> 0] \in Candidate
      BY <1>1 DEF Candidate
    <2>3. cand \in [Run -> Candidate] BY <2>2 DEF Init
    <2>4. run \in [Run -> Thread] /\ owner \in [Exec -> Run \cup {NoRun}] BY <1>1 DEF Init
    <2>5. /\ keyOf \in [Run -> Key] /\ lock \in Run \cup {NoRun}
          /\ registry \in [Key -> {"none", "idle", "running", "tainted"}]
      BY DEF Init
    <2>6. loose \subseteq Exec /\ good \subseteq Exec /\ faults \in 0..MaxFault
      BY DEF Init
    <2>7. stuck \in BOOLEAN BY Zenon DEF Init
    <2>8. QED BY <2>1, <2>3, <2>4, <2>5, <2>6, <2>7 DEF Shapes
  <1>3. Started = {}
    BY DEF Init, Started
  <1>4. Numbered
    <2>1. 0 \in 0..MaxExec /\ Started = 1..0 BY <1>3
    <2>2. QED BY <2>1 DEF Numbered
  <1>5. Daemon
    BY DEF Init, Daemon
  <1>6. Locked /\ SlotIsOwn /\ CollectedIsOwn
    BY DEF Init, Locked, SlotIsOwn, CollectedIsOwn, AtRest, InTransaction
  <1>7. ASSUME NEW r \in Run PROVE Owned(r) /\ Fresh(r) /\ Sole(r) /\ Truthful(r)
    BY DEF Init, Owned, Fresh, Sole, Truthful, AtRest, NoEvidence
  <1>8. QED BY <1>2, <1>4, <1>5, <1>6, <1>7 DEF ContainerInv

LEMMA ContainerInvariant == Spec => []ContainerInv
  <1>1. ContainerInv /\ [Next]_vars => ContainerInv'
    <2> SUFFICES ASSUME ContainerInv, [Next]_vars PROVE ContainerInv'
      OBVIOUS
    <2>1. QED BY ShapeStep, DaemonStep, FilesStep, OwnedStep, ContainerStep, TruthStep
              DEF ContainerInv
  <1>2. QED BY <1>1, ContainerStart, PTL DEF Spec

(* Runs that share a module stay apart, however their executions, timeouts,  *)
(* crashes of the backend and refusals of the daemon interleave: a candidate *)
(* has only its own files, a clean container was used by nobody, and no other *)
(* container mounts the slot (run_module_transaction()).                    *)
THEOREM RunsIsolatedAlways == Spec => []RunsIsolated
  <1>1. ContainerInv => RunsIsolated
    <2> SUFFICES ASSUME ContainerInv PROVE RunsIsolated
      OBVIOUS
    <2>1. TypeOK
      BY DEF ContainerInv, TypeOK, Shapes, Thread, Place, Result, Locked, Daemon, SlotIsOwn
    <2>2. CleanContainer
      BY DEF ContainerInv, CleanContainer, Fresh
    <2>3. OneContainer
      BY DEF ContainerInv, OneContainer, Sole
    <2>4. QED BY <2>1, <2>2, <2>3 DEF RunsIsolated, ContainerInv
  <1>2. QED BY <1>1, ContainerInvariant, PTL

(* Evidence that load_completed_run_evidence() accepts says the truth about  *)
(* the candidate: its execution succeeded, was the last one collected, and    *)
(* its files are there, whatever died between two writes of the evidence.    *)
THEOREM CompletedIsTrueAlways == Spec => []CompletedIsTrue
  <1>1. ContainerInv => CompletedIsTrue
    BY DEF ContainerInv, CompletedIsTrue, Accepted, Truthful, Witnessed
  <1>2. QED BY <1>1, ContainerInvariant, PTL

-----------------------------------------------------------------------------
(* Induction and recursion on numbers.                                      *)

(* Every nonempty set of natural numbers has a least element.  *)
LEMMA LeastNumber ==
    ASSUME NEW N \in SUBSET Nat, N # {}
    PROVE  \E n \in N : \A m \in N : n <= m
<1>1. PICK n \in N : \A m \in N : ~(<<m, n>> \in OpToRel(<, Nat))
  BY NatLessThanWellFounded, WFMin, Zenon
<1>2. ASSUME NEW m \in N
      PROVE  n <= m
  <2>1. m \in Nat /\ n \in Nat
    OBVIOUS
  <2>2. m < n => <<m, n>> \in OpToRel(<, Nat)
    BY <2>1, Zenon DEF OpToRel
  <2>3. ~(m < n)
    BY <1>1, <2>2, Zenon
  <2> QED
    BY <2>1, <2>3
<1> QED
  BY <1>2

LEMMA Induction ==
    ASSUME NEW N, NEW m \in Nat, 0 \in N, \A n \in 1 .. m : n - 1 \in N => n \in N
    PROVE  0 .. m \subseteq N
<1> DEFINE Rest == (0 .. m) \ N
<1> SUFFICES ASSUME Rest # {} PROVE FALSE
  OBVIOUS
<1>1. PICK n \in Rest : \A k \in Rest : n <= k
  <2>1. Rest \in SUBSET Nat
    OBVIOUS
  <2> HIDE DEF Rest
  <2> QED
    BY <2>1, LeastNumber
<1>2. n \in 1 .. m /\ n - 1 \in 0 .. m
  BY <1>1
<1>3. n - 1 \notin Rest
  BY <1>1, <1>2
<1> QED
  BY <1>1, <1>2, <1>3

(* Recursion on numbers: what is begun and continued so exists.             *)
Iterates(f, S, base, m, step) ==
    /\ f \in [0 .. m -> S] /\ f[0] = base
    /\ \A i \in 1 .. m : f[i] = step[i][f[i - 1]]

LEMMA Recursion ==
    ASSUME NEW S, NEW base \in S, NEW m \in Nat, NEW step \in [1 .. m -> [S -> S]]
    PROVE  \E f : Iterates(f, S, base, m, step)
<1> DEFINE Q(n, f) == f \in [0 .. n -> S] /\ f[0] = base /\ \A i \in 1 .. n : f[i] = step[i][f[i - 1]]
           N == {n \in 0 .. m : \E f : Q(n, f)}
<1>1. 0 \in N
  <2> DEFINE g == [i \in 0 .. 0 |-> base]
  <2>1. Q(0, g)
    OBVIOUS
  <2> HIDE DEF Q
  <2> QED
    BY <2>1
<1>2. ASSUME NEW n \in 1 .. m, n - 1 \in N
      PROVE  n \in N
  <2>1. PICK f : Q(n - 1, f)
    BY <1>2
  <2> DEFINE g == [i \in 0 .. n |-> IF i = n THEN step[n][f[n - 1]] ELSE f[i]]
  <2>2. step[n][f[n - 1]] \in S
    BY <2>1
  <2>3. g \in [0 .. n -> S] /\ g[0] = base
    BY <2>1, <2>2
  <2>4. ASSUME NEW i \in 1 .. n
        PROVE  g[i] = step[i][g[i - 1]]
    <3>1. i - 1 \in 0 .. n /\ i \in 0 .. n /\ i - 1 # n
      OBVIOUS
    <3>2. g[i - 1] = f[i - 1]
      BY <3>1
    <3>3. CASE i = n
      BY <3>1, <3>2, <3>3
    <3>4. CASE i # n
      <4>1. g[i] = f[i]
        BY <3>1, <3>4
      <4>2. i \in 1 .. n - 1
        BY <3>4
      <4> QED
        BY <2>1, <3>2, <4>1, <4>2
    <3> QED
      BY <3>3, <3>4
  <2>5. Q(n, g)
    BY <2>3, <2>4
  <2> HIDE DEF Q
  <2> QED
    BY <2>5
<1>3. m \in N
  <2> HIDE DEF N
  <2>1. 0 .. m \subseteq N
    BY <1>1, <1>2, Induction
  <2> QED
    BY <2>1
<1> QED
  BY <1>3 DEF Iterates

-----------------------------------------------------------------------------
(* Proposal and sandbox rules: what the canonical form of a path is.        *)

LEMMA AppendedIn ==
    ASSUME NEW T, NEW ss \in Seq(T), NEW s \in T
    PROVE  Append(ss, s) \in Seq(T)
  OBVIOUS

LEMMA AppendedLast ==
    ASSUME NEW T, NEW ss \in Seq(T), NEW s \in T
    PROVE  Append(ss, s)[Len(ss) + 1] = s
  OBVIOUS

(* What a segment can be.                                                   *)
Word == STRING \union Segment

(* The collapsed path, and the walk, as functions of the segments read.     *)
Collapsing(ss, so) ==
    /\ so \in [0 .. Len(ss) -> Seq(Word)]
    /\ so[0] = <<>>
    /\ \A i \in 1 .. Len(ss) : so[i] = Joined(so[i - 1], ss[i])

Reached == Seq(Word) \union {Outside}

Walking(ss, at) ==
    /\ at \in [0 .. Len(ss) -> Reached]
    /\ at[0] = <<>>
    /\ \A i \in 1 .. Len(ss) : at[i] = Onward(at[i - 1], ss[i])

LEMMA OnwardFacts ==
    ASSUME NEW at \in Reached, NEW s \in Word
    PROVE  /\ Onward(at, s) \in Reached
           /\ s \in {"", "."} => Onward(at, s) = at
           /\ s # ".." /\ Onward(at, s) # Outside => at # Outside /\ Onward(at, s) = Joined(at, s)
<1>1. CASE at = Outside \/ s \in {"", "."}
  BY <1>1 DEF Onward, Joined
<1>2. CASE ~(at = Outside \/ s \in {"", "."})
  <2>1. at \in Seq(Word)
    BY <1>2 DEF Reached
  <2>2. CASE s \in Link
    <3>1. s # ".."
      BY <2>2, PathAssumption
    <3>2. Onward(at, s) = Outside
      BY <1>2, <2>2, <3>1 DEF Onward
    <3> QED
      BY <1>2, <3>2 DEF Reached
  <2>3. CASE s = ".."
    <3>1. s \notin Link
      BY <2>3, PathAssumption
    <3>2. Onward(at, s) = IF at = <<>> THEN Outside ELSE Front(at)
      BY <1>2, <2>3, <3>1 DEF Onward
    <3>3. at # <<>> => Front(at) \in Seq(Word)
      BY <2>1 DEF Front
    <3> QED
      BY <1>2, <2>3, <3>2, <3>3 DEF Reached
  <2>4. CASE s # ".." /\ s \notin Link
    <3>1. Onward(at, s) = Append(at, s)
      BY <1>2, <2>4 DEF Onward
    <3>2. Append(at, s) \in Seq(Word)
      BY <2>1, AppendedIn
    <3> QED
      BY <1>2, <3>1, <3>2 DEF Joined, Reached
  <2> QED
    BY <2>2, <2>3, <2>4
<1> QED
  BY <1>1, <1>2

LEMMA CollapsingExists ==
    ASSUME NEW ss \in Seq(Word)
    PROVE  \E f : Collapsing(ss, f)
<1> DEFINE S == Seq(Word)
           base == <<>>
           m == Len(ss)
           step == [i \in 1 .. m |-> [x \in S |-> Joined(x, ss[i])]]
<1>0. base \in S /\ m \in Nat
  OBVIOUS
<1>1. \A i \in 1 .. m : ss[i] \in Word
  OBVIOUS
<1>2. \A i \in 1 .. m, x \in S : Joined(x, ss[i]) \in S
  <2> SUFFICES ASSUME NEW i \in 1 .. m, NEW x \in S PROVE Joined(x, ss[i]) \in S
    OBVIOUS
  <2>1. ss[i] \in Word
    BY <1>1
  <2>2. Append(x, ss[i]) \in S
    BY <2>1
  <2> QED
    BY <2>1, <2>2 DEF Joined
<1> HIDE DEF S, base, m
<1>3. step \in [1 .. m -> [S -> S]]
  BY <1>2
<1>4. \A i \in 1 .. m, x \in S : step[i][x] = Joined(x, ss[i])
  OBVIOUS
<1> HIDE DEF step
<1>r. \E f : Iterates(f, S, base, m, step)
  BY <1>0, <1>3, Recursion
<1>5. PICK f \in [0 .. m -> S] : f[0] = base /\ \A i \in 1 .. m : f[i] = step[i][f[i - 1]]
  BY <1>r DEF Iterates
<1>6. \A i \in 1 .. m : f[i] = Joined(f[i - 1], ss[i])
  <2> SUFFICES ASSUME NEW i \in 1 .. m PROVE f[i] = Joined(f[i - 1], ss[i])
    OBVIOUS
  <2>1. i - 1 \in 0 .. m
    BY <1>0
  <2>2. f[i - 1] \in S
    BY <2>1
  <2> QED
    BY <1>4, <1>5, <2>2
<1> QED
  BY <1>5, <1>6 DEF Collapsing, S, base, m

(* The definition names the one that exists.                                *)
LEMMA CollapsedSteps ==
    ASSUME NEW ss \in Seq(Word)
    PROVE  \E f : Collapsing(ss, f) /\ Collapsed(ss) = f[Len(ss)]
<1> DEFINE Eq(f) == f = [n \in 0 .. Len(ss) |-> IF n = 0 THEN <<>> ELSE Joined(f[n - 1], ss[n])]
           g == CHOOSE f : Eq(f)
<1>1. PICK f : Collapsing(ss, f)
  BY CollapsingExists
<1>2. Eq(f)
  <2>1. ASSUME NEW n \in 0 .. Len(ss)
        PROVE  f[n] = IF n = 0 THEN <<>> ELSE Joined(f[n - 1], ss[n])
    BY <1>1 DEF Collapsing
  <2>2. f = [n \in 0 .. Len(ss) |-> f[n]]
    BY <1>1 DEF Collapsing
  <2> QED
    BY <2>1, <2>2
<1>3. Eq(g)
  BY <1>2, Zenon
<1>4. Collapsed(ss) = g[Len(ss)]
  BY DEF Collapsed
<1> HIDE DEF g
<1>5. g[0] = <<>> /\ \A i \in 1 .. Len(ss) : g[i] = Joined(g[i - 1], ss[i])
  BY <1>3
<1> DEFINE N == {n \in 0 .. Len(ss) : g[n] = f[n]}
<1>6. 0 \in N /\ \A n \in 1 .. Len(ss) : n - 1 \in N => n \in N
  BY <1>1, <1>5 DEF Collapsing
<1>7. 0 .. Len(ss) \subseteq N
  <2>1. Len(ss) \in Nat
    OBVIOUS
  <2> HIDE DEF N
  <2> QED
    BY <1>6, <2>1, Induction
<1>8. g[Len(ss)] = f[Len(ss)]
  BY <1>7
<1> QED
  BY <1>1, <1>4, <1>8

LEMMA WalkingExists ==
    ASSUME NEW ss \in Seq(Word)
    PROVE  \E f : Walking(ss, f)
<1> DEFINE S == Reached
           base == <<>>
           m == Len(ss)
           step == [i \in 1 .. m |-> [x \in S |-> Onward(x, ss[i])]]
<1>0. base \in S /\ m \in Nat
  BY DEF Reached
<1>1. \A i \in 1 .. m : ss[i] \in Word
  OBVIOUS
<1>2. \A i \in 1 .. m, x \in S : Onward(x, ss[i]) \in S
  <2> SUFFICES ASSUME NEW i \in 1 .. m, NEW x \in S PROVE Onward(x, ss[i]) \in S
    OBVIOUS
  <2>1. ss[i] \in Word
    BY <1>1
  <2> QED
    BY <2>1, OnwardFacts
<1> HIDE DEF S, base, m
<1>3. step \in [1 .. m -> [S -> S]]
  BY <1>2
<1>4. \A i \in 1 .. m, x \in S : step[i][x] = Onward(x, ss[i])
  OBVIOUS
<1> HIDE DEF step
<1>r. \E f : Iterates(f, S, base, m, step)
  BY <1>0, <1>3, Recursion
<1>5. PICK f \in [0 .. m -> S] : f[0] = base /\ \A i \in 1 .. m : f[i] = step[i][f[i - 1]]
  BY <1>r DEF Iterates
<1>6. \A i \in 1 .. m : f[i] = Onward(f[i - 1], ss[i])
  <2> SUFFICES ASSUME NEW i \in 1 .. m PROVE f[i] = Onward(f[i - 1], ss[i])
    OBVIOUS
  <2>1. i - 1 \in 0 .. m
    BY <1>0
  <2>2. f[i - 1] \in S
    BY <2>1
  <2> QED
    BY <1>4, <1>5, <2>2
<1> QED
  BY <1>5, <1>6 DEF Walking, S, base, m

(* The definition names the one that exists.                                *)
LEMMA WalkSteps ==
    ASSUME NEW ss \in Seq(Word)
    PROVE  \E f : Walking(ss, f) /\ Walk(ss) = f[Len(ss)]
<1> DEFINE Eq(f) == f = [n \in 0 .. Len(ss) |-> IF n = 0 THEN <<>> ELSE Onward(f[n - 1], ss[n])]
           g == CHOOSE f : Eq(f)
<1>1. PICK f : Walking(ss, f)
  BY WalkingExists
<1>2. Eq(f)
  <2>1. ASSUME NEW n \in 0 .. Len(ss)
        PROVE  f[n] = IF n = 0 THEN <<>> ELSE Onward(f[n - 1], ss[n])
    BY <1>1 DEF Walking
  <2>2. f = [n \in 0 .. Len(ss) |-> f[n]]
    BY <1>1 DEF Walking
  <2> QED
    BY <2>1, <2>2
<1>3. Eq(g)
  BY <1>2, Zenon
<1>4. Walk(ss) = g[Len(ss)]
  BY DEF Walk
<1> HIDE DEF g
<1>5. g[0] = <<>> /\ \A i \in 1 .. Len(ss) : g[i] = Onward(g[i - 1], ss[i])
  BY <1>3
<1> DEFINE N == {n \in 0 .. Len(ss) : g[n] = f[n]}
<1>6. 0 \in N /\ \A n \in 1 .. Len(ss) : n - 1 \in N => n \in N
  BY <1>1, <1>5 DEF Walking
<1>7. 0 .. Len(ss) \subseteq N
  <2>1. Len(ss) \in Nat
    OBVIOUS
  <2> HIDE DEF N
  <2> QED
    BY <1>6, <2>1, Induction
<1>8. g[Len(ss)] = f[Len(ss)]
  BY <1>7
<1> QED
  BY <1>1, <1>4, <1>8

LEMMA CollapsedAppend ==
    ASSUME NEW ss \in Seq(Word), NEW s \in Word
    PROVE  Collapsed(Append(ss, s)) = Joined(Collapsed(ss), s)
<1> DEFINE m == Len(ss)
           tt == Append(ss, s)
<1>0. /\ m \in Nat /\ tt \in Seq(Word) /\ Len(tt) = m + 1 /\ tt[m + 1] = s
      /\ \A i \in 1 .. m : tt[i] = ss[i]
  <2>1. Append(ss, s) \in Seq(Word)
    BY AppendedIn
  <2>2. Append(ss, s)[Len(ss) + 1] = s
    BY AppendedLast
  <2>3. Len(ss) \in Nat /\ Len(Append(ss, s)) = Len(ss) + 1
    OBVIOUS
  <2>4. \A i \in 1 .. Len(ss) : Append(ss, s)[i] = ss[i]
    OBVIOUS
  <2> QED
    BY <2>1, <2>2, <2>3, <2>4, Zenon
<1>1. PICK f : Collapsing(ss, f) /\ Collapsed(ss) = f[m]
  BY CollapsedSteps
<1>2. PICK g : Collapsing(tt, g) /\ Collapsed(tt) = g[m + 1]
  BY <1>0, CollapsedSteps
<1> HIDE DEF tt
<1> DEFINE M == {n \in 0 .. m : f[n] = g[n]}
<1>3. 0 \in M
  BY <1>0, <1>1, <1>2 DEF Collapsing
<1>4. \A n \in 1 .. m : n - 1 \in M => n \in M
  <2> SUFFICES ASSUME NEW n \in 1 .. m, n - 1 \in M PROVE n \in M
    OBVIOUS
  <2>1. n \in 1 .. m + 1 /\ n \in 0 .. m /\ tt[n] = ss[n] /\ f[n - 1] = g[n - 1]
    BY <1>0
  <2>2. f[n] = Joined(f[n - 1], ss[n])
    BY <1>1 DEF Collapsing
  <2>3. g[n] = Joined(g[n - 1], tt[n])
    BY <1>0, <1>2, <2>1 DEF Collapsing
  <2> QED
    BY <2>1, <2>2, <2>3
<1>5. 0 .. m \subseteq M
  <2> HIDE DEF M, m
  <2> QED
    BY <1>0, <1>3, <1>4, Induction
<1>6. f[m] = g[m]
  BY <1>0, <1>5
<1>7. g[m + 1] = Joined(g[m + 1 - 1], tt[m + 1])
  <2>1. m + 1 \in 1 .. Len(tt)
    BY <1>0
  <2>2. \A i \in 1 .. Len(tt) : g[i] = Joined(g[i - 1], tt[i])
    BY <1>2 DEF Collapsing
  <2>3. m \in Nat
    BY <1>0
  <2> HIDE DEF m
  <2> QED
    BY <2>1, <2>2, <2>3
<1>8. m + 1 - 1 = m
  BY <1>0
<1> QED
  BY <1>0, <1>1, <1>2, <1>6, <1>7, <1>8 DEF tt

LEMMA WalkAppend ==
    ASSUME NEW ss \in Seq(Word), NEW s \in Word
    PROVE  Walk(Append(ss, s)) = Onward(Walk(ss), s)
<1> DEFINE m == Len(ss)
           tt == Append(ss, s)
<1>0. /\ m \in Nat /\ tt \in Seq(Word) /\ Len(tt) = m + 1 /\ tt[m + 1] = s
      /\ \A i \in 1 .. m : tt[i] = ss[i]
  <2>1. Append(ss, s) \in Seq(Word)
    BY AppendedIn
  <2>2. Append(ss, s)[Len(ss) + 1] = s
    BY AppendedLast
  <2>3. Len(ss) \in Nat /\ Len(Append(ss, s)) = Len(ss) + 1
    OBVIOUS
  <2>4. \A i \in 1 .. Len(ss) : Append(ss, s)[i] = ss[i]
    OBVIOUS
  <2> QED
    BY <2>1, <2>2, <2>3, <2>4, Zenon
<1>1. PICK f : Walking(ss, f) /\ Walk(ss) = f[m]
  BY WalkSteps
<1>2. PICK g : Walking(tt, g) /\ Walk(tt) = g[m + 1]
  BY <1>0, WalkSteps
<1> HIDE DEF tt
<1> DEFINE M == {n \in 0 .. m : f[n] = g[n]}
<1>3. 0 \in M
  BY <1>0, <1>1, <1>2 DEF Walking
<1>4. \A n \in 1 .. m : n - 1 \in M => n \in M
  <2> SUFFICES ASSUME NEW n \in 1 .. m, n - 1 \in M PROVE n \in M
    OBVIOUS
  <2>1. n \in 1 .. m + 1 /\ n \in 0 .. m /\ tt[n] = ss[n] /\ f[n - 1] = g[n - 1]
    BY <1>0
  <2>2. f[n] = Onward(f[n - 1], ss[n])
    BY <1>1 DEF Walking
  <2>3. g[n] = Onward(g[n - 1], tt[n])
    BY <1>0, <1>2, <2>1 DEF Walking
  <2> QED
    BY <2>1, <2>2, <2>3
<1>5. 0 .. m \subseteq M
  <2> HIDE DEF M, m
  <2> QED
    BY <1>0, <1>3, <1>4, Induction
<1>6. f[m] = g[m]
  BY <1>0, <1>5
<1>7. g[m + 1] = Onward(g[m + 1 - 1], tt[m + 1])
  <2>1. m + 1 \in 1 .. Len(tt)
    BY <1>0
  <2>2. \A i \in 1 .. Len(tt) : g[i] = Onward(g[i - 1], tt[i])
    BY <1>2 DEF Walking
  <2>3. m \in Nat
    BY <1>0
  <2> HIDE DEF m
  <2> QED
    BY <2>1, <2>2, <2>3
<1>8. m + 1 - 1 = m
  BY <1>0
<1> QED
  BY <1>0, <1>1, <1>2, <1>6, <1>7, <1>8 DEF tt

LEMMA EmptyPath == Collapsed(<<>>) = <<>> /\ Walk(<<>>) = <<>>
<1>1. <<>> \in Seq(Word) /\ Len(<<>>) = 0
  OBVIOUS
<1>2. PICK f : Collapsing(<<>>, f) /\ Collapsed(<<>>) = f[Len(<<>>)]
  BY <1>1, CollapsedSteps
<1>3. PICK g : Walking(<<>>, g) /\ Walk(<<>>) = g[Len(<<>>)]
  BY <1>1, WalkSteps
<1> QED
  BY <1>1, <1>2, <1>3 DEF Collapsing, Walking

(* A canonical path is its own canonical form, and it leads where the path   *)
(* leads that it was made from.                                             *)
LEMMA CanonicalPath ==
    ASSUME NEW ss \in Seq(Word)
    PROVE  /\ Collapsed(ss) \in Seq(Word)
           /\ Collapsed(Collapsed(ss)) = Collapsed(ss)
           /\ Walk(Collapsed(ss)) = Walk(ss)
<1> DEFINE m == Len(ss)
<1>0. m \in Nat
  OBVIOUS
<1>1. PICK so : Collapsing(ss, so) /\ Collapsed(ss) = so[m]
  BY CollapsedSteps
<1>2. PICK at : Walking(ss, at) /\ Walk(ss) = at[m]
  BY WalkSteps
<1> DEFINE N == {n \in 0 .. m : Collapsed(so[n]) = so[n] /\ Walk(so[n]) = at[n]}
<1>3. 0 \in N
  BY <1>0, <1>1, <1>2, EmptyPath DEF Collapsing, Walking
<1>4. \A n \in 1 .. m : n - 1 \in N => n \in N
  <2> SUFFICES ASSUME NEW n \in 1 .. m, n - 1 \in N PROVE n \in N
    OBVIOUS
  <2> DEFINE s == ss[n]
             pre == so[n - 1]
  <2>1. n \in 0 .. m /\ n - 1 \in 0 .. m /\ s \in Word
    BY <1>0
  <2>2. pre \in Seq(Word) /\ so[n] = Joined(pre, s) /\ at[n - 1] \in Reached /\ at[n] = Onward(at[n - 1], s)
    BY <1>1, <1>2, <2>1 DEF Collapsing, Walking
  <2>3. Collapsed(pre) = pre /\ Walk(pre) = at[n - 1]
    OBVIOUS
  <2> HIDE DEF s, pre
  <2>4. CASE s \in {"", "."}
    <3>1. so[n] = pre
      BY <2>2, <2>4 DEF Joined
    <3>2. at[n] = at[n - 1]
      BY <2>1, <2>2, <2>4, OnwardFacts
    <3> QED
      BY <2>1, <2>3, <3>1, <3>2
  <2>5. CASE s \notin {"", "."}
    <3>1. so[n] = Append(pre, s) /\ Joined(pre, s) = Append(pre, s)
      BY <2>2, <2>5 DEF Joined
    <3>2. Collapsed(Append(pre, s)) = Joined(Collapsed(pre), s)
      BY <2>1, <2>2, CollapsedAppend
    <3>3. Walk(Append(pre, s)) = Onward(Walk(pre), s)
      BY <2>1, <2>2, WalkAppend
    <3> QED
      BY <2>1, <2>2, <2>3, <3>1, <3>2, <3>3
  <2> QED
    BY <2>4, <2>5
<1>5. 0 .. m \subseteq N
  <2> HIDE DEF N, m
  <2> QED
    BY <1>0, <1>3, <1>4, Induction
<1>6. m \in 0 .. m
  BY <1>0
<1>7. so[m] \in Seq(Word)
  BY <1>1, <1>6 DEF Collapsing
<1> QED
  BY <1>1, <1>2, <1>5, <1>6, <1>7

(* A walk that neither climbs nor leaves the workspace leads to the         *)
(* canonical path.                                                          *)
LEMMA InsideWalk ==
    ASSUME NEW ss \in Seq(Word), ~Climbs(ss), Walk(ss) # Outside
    PROVE  Walk(ss) = Collapsed(ss)
<1> DEFINE m == Len(ss)
<1>0. m \in Nat
  OBVIOUS
<1>1. PICK so : Collapsing(ss, so) /\ Collapsed(ss) = so[m]
  BY CollapsedSteps
<1>2. PICK at : Walking(ss, at) /\ Walk(ss) = at[m]
  BY WalkSteps
<1> DEFINE N == {n \in 0 .. m : at[n] # Outside => at[n] = so[n]}
<1>3. 0 \in N
  BY <1>0, <1>1, <1>2 DEF Collapsing, Walking
<1>4. \A n \in 1 .. m : n - 1 \in N => n \in N
  <2> SUFFICES ASSUME NEW n \in 1 .. m, n - 1 \in N PROVE n \in N
    OBVIOUS
  <2> DEFINE s == ss[n]
  <2>1. n \in 0 .. m /\ n - 1 \in 0 .. m /\ s \in Word /\ s # ".."
    BY <1>0 DEF Climbs
  <2>2. so[n] = Joined(so[n - 1], s) /\ at[n - 1] \in Reached /\ at[n] = Onward(at[n - 1], s)
    BY <1>1, <1>2, <2>1 DEF Collapsing, Walking
  <2>3. at[n - 1] # Outside => at[n - 1] = so[n - 1]
    OBVIOUS
  <2> HIDE DEF s
  <2>4. at[n] # Outside => at[n - 1] # Outside /\ at[n] = Joined(at[n - 1], s)
    BY <2>1, <2>2, OnwardFacts
  <2> QED
    BY <2>1, <2>2, <2>3, <2>4
<1>5. 0 .. m \subseteq N
  <2> HIDE DEF N, m
  <2> QED
    BY <1>0, <1>3, <1>4, Induction
<1> QED
  BY <1>0, <1>1, <1>2, <1>5

(* The paths of a rule are sequences of words.                              *)
LEMMA PathWords ==
    /\ \A f \in RawFile : f.segs \in Seq(Word)
    /\ \A p \in CanonPath : p.segs \in Seq(Word) /\ Len(p.segs) > 0
<1>1. ASSUME NEW f \in RawFile
      PROVE  f.segs \in Seq(Word)
  <2>1. f.segs \in Seq(STRING)
    BY PathAssumption
  <2> DEFINE T == STRING
             W == STRING \union Segment
  <2>2. T \subseteq W /\ f.segs \in Seq(T)
    BY <2>1
  <2> HIDE DEF T, W
  <2>3. f.segs \in Seq(W)
    BY <2>2
  <2> QED
    BY <2>3 DEF W, Word
<1>2. ASSUME NEW p \in CanonPath
      PROVE  p.segs \in Seq(Word) /\ Len(p.segs) > 0
  <2>1. PICK n \in 1 .. MaxSegment : p.segs \in [1 .. n -> Segment]
    BY DEF CanonPath
  <2>2. n \in Nat /\ n > 0
    OBVIOUS
  <2>3. p.segs \in Seq(Segment) /\ Len(p.segs) = n
    BY <2>1, <2>2
  <2>4. Segment \subseteq Word
    BY DEF Word
  <2> QED
    BY <2>2, <2>3, <2>4
<1> QED
  BY <1>1, <1>2

LEMMA NormalisedUnion ==
    ASSUME NEW ps, NEW qs
    PROVE  NormalisedAll(ps \union qs) = NormalisedAll(ps) \union NormalisedAll(qs)
BY DEF NormalisedAll

-----------------------------------------------------------------------------
(* The policy of a run is the canonical form of what was handed to it and    *)
(* of the last read-only list, and its commands are the node's or the       *)
(* list's, through any number of copies.                                    *)
PolicyInv ==
    /\ planNode \in [tests : SUBSET TestCommand, listed : SUBSET SUBSET TestCommand]
    /\ handed \subseteq RawFile /\ locked \subseteq RawFile
    /\ \A po \in policy :
          \E cs \in SUBSET Resolved(planNode.listed, planNode.tests), network \in BOOLEAN :
             po = [files |-> NormalisedAll(handed), readonly |-> NormalisedAll(locked),
                   commands |-> cs, network |-> network]

LEMMA PolicyStarts == PolicyInit => PolicyInv
<1> SUFFICES ASSUME PolicyInit PROVE PolicyInv
  OBVIOUS
<1>1. planNode \in [tests : SUBSET TestCommand, listed : SUBSET SUBSET TestCommand]
  <2>1. PICK ts \in {{}, TestCommand} \union {{c} : c \in TestCommand},
             ls \in {{}, {{}}} \union {{{c}} : c \in TestCommand} :
           planNode = [tests |-> ts, listed |-> ls]
    BY DEF PolicyInit
  <2>2. ts \subseteq TestCommand /\ ls \subseteq SUBSET TestCommand
    OBVIOUS
  <2> QED
    BY <2>1, <2>2
<1>2. handed \subseteq RawFile /\ locked = {}
  BY DEF PolicyInit, AtMostOneOf
<1>3. NormalisedAll(locked) = {}
  BY <1>2 DEF NormalisedAll
<1>4. PICK network \in BOOLEAN :
         policy = {ForRun(handed, planNode.listed, planNode.tests, network)}
  BY DEF PolicyInit
<1>5. {c \in Resolved(planNode.listed, planNode.tests) : CommandOk(c)}
        \in SUBSET Resolved(planNode.listed, planNode.tests)
  OBVIOUS
<1> QED
  BY <1>1, <1>2, <1>3, <1>4, <1>5 DEF PolicyInv, ForRun

LEMMA PolicyKept == PolicyInv /\ [PolicyNext]_policyVars => PolicyInv'
<1> SUFFICES ASSUME PolicyInv, [PolicyNext]_policyVars PROVE PolicyInv'
  OBVIOUS
<1>1. CASE GrantFiles
  <2>1. PICK p \in RawFile : /\ policy' = {WithGranted(po, {p}) : po \in policy}
                             /\ handed' = handed \union {p}
    BY <1>1 DEF GrantFiles
  <2>2. planNode' = planNode /\ locked' = locked
    BY <1>1 DEF GrantFiles
  <2>3. NormalisedAll(handed') = NormalisedAll(handed) \union NormalisedAll({p})
    BY <2>1, NormalisedUnion
  <2>4. ASSUME NEW po \in policy
        PROVE  \E cs \in SUBSET Resolved(planNode.listed, planNode.tests), network \in BOOLEAN :
                 WithGranted(po, {p}) =
                   [files |-> NormalisedAll(handed'), readonly |-> NormalisedAll(locked),
                    commands |-> cs, network |-> network]
    <3>1. PICK cs \in SUBSET Resolved(planNode.listed, planNode.tests), network \in BOOLEAN :
             po = [files |-> NormalisedAll(handed), readonly |-> NormalisedAll(locked),
                   commands |-> cs, network |-> network]
      BY DEF PolicyInv
    <3>2. WithGranted(po, {p}) =
             [files |-> NormalisedAll(handed'), readonly |-> NormalisedAll(locked),
              commands |-> cs, network |-> network]
      <4>1. po.files \union NormalisedAll({p}) = NormalisedAll(handed')
        BY <2>3, <3>1
      <4>2. [po EXCEPT !.files = NormalisedAll(handed')] =
               [files |-> NormalisedAll(handed'), readonly |-> NormalisedAll(locked),
                commands |-> cs, network |-> network]
        BY <3>1
      <4> QED
        BY <4>1, <4>2 DEF WithGranted
    <3> QED
      BY <3>2
  <2>5. handed' \subseteq RawFile
    BY <2>1 DEF PolicyInv
  <2>6. \A po \in policy' :
          \E cs \in SUBSET Resolved(planNode.listed, planNode.tests), network \in BOOLEAN :
             po = [files |-> NormalisedAll(handed'), readonly |-> NormalisedAll(locked),
                   commands |-> cs, network |-> network]
    BY <2>1, <2>4
  <2> QED
    BY <2>2, <2>5, <2>6 DEF PolicyInv
<1>2. CASE MakeReadonly
  <2>1. PICK ps \in AtMostOneOf(RawFile) :
           policy' = {WithReadonly(po, ps) : po \in policy} /\ locked' = ps
    BY <1>2 DEF MakeReadonly
  <2>2. planNode' = planNode /\ handed' = handed /\ ps \subseteq RawFile
    BY <1>2 DEF MakeReadonly, AtMostOneOf
  <2>3. ASSUME NEW po \in policy
        PROVE  \E cs \in SUBSET Resolved(planNode.listed, planNode.tests), network \in BOOLEAN :
                 WithReadonly(po, ps) =
                   [files |-> NormalisedAll(handed), readonly |-> NormalisedAll(ps),
                    commands |-> cs, network |-> network]
    <3>1. PICK cs \in SUBSET Resolved(planNode.listed, planNode.tests), network \in BOOLEAN :
             po = [files |-> NormalisedAll(handed), readonly |-> NormalisedAll(locked),
                   commands |-> cs, network |-> network]
      BY DEF PolicyInv
    <3>2. WithReadonly(po, ps) =
             [files |-> NormalisedAll(handed), readonly |-> NormalisedAll(ps),
              commands |-> cs, network |-> network]
      BY <3>1 DEF WithReadonly
    <3> QED
      BY <3>2
  <2>4. \A po \in policy' :
          \E cs \in SUBSET Resolved(planNode.listed, planNode.tests), network \in BOOLEAN :
             po = [files |-> NormalisedAll(handed), readonly |-> NormalisedAll(ps),
                   commands |-> cs, network |-> network]
    BY <2>1, <2>3
  <2> QED
    BY <2>1, <2>2, <2>4 DEF PolicyInv
<1>3. CASE UNCHANGED policyVars
  BY <1>3 DEF PolicyInv, policyVars
<1> QED
  BY <1>1, <1>2, <1>3 DEF PolicyNext

(* Two paths with the same canonical form lead to the same place.           *)
LEMMA SameForm ==
    ASSUME NEW ss \in Seq(Word), NEW tt \in Seq(Word), Collapsed(ss) = Collapsed(tt)
    PROVE  Walk(ss) = Walk(tt)
BY CanonicalPath

(* A path that has a canonical form and is not absolute begins with a name.  *)
LEMMA BeginsWithName ==
    ASSUME NEW ss \in Seq(Word), Len(ss) > 0, ~Absolute(ss), Collapsed(ss) # <<>>
    PROVE  ss[1] # ""
<1>1. CASE Len(ss) > 1
  BY <1>1 DEF Absolute
<1>2. CASE Len(ss) = 1
  <2>1. PICK so : Collapsing(ss, so) /\ Collapsed(ss) = so[1]
    BY <1>2, CollapsedSteps
  <2>2. so[1] = Joined(so[0], ss[1]) /\ so[0] = <<>>
    <3>1. \A i \in 1 .. 1 : so[i] = Joined(so[i - 1], ss[i])
      BY <1>2, <2>1 DEF Collapsing
    <3>2. so[1] = Joined(so[0], ss[1])
      BY <3>1
    <3> QED
      BY <2>1, <3>2 DEF Collapsing
  <2> QED
    BY <2>1, <2>2 DEF Joined
<1>3. Len(ss) > 1 \/ Len(ss) = 1
  <2> DEFINE m == Len(ss)
  <2>1. m \in Nat /\ m > 0
    OBVIOUS
  <2> HIDE DEF m
  <2>2. m > 1 \/ m = 1
    BY <2>1
  <2> QED
    BY <2>2 DEF m
<1> QED
  BY <1>1, <1>2, <1>3, Zenon

LEMMA InsideProposed == PolicyInv => ProposalInside
<1> SUFFICES ASSUME PolicyInv, NEW proposal \in Proposal,
                    ProposalOk(proposal, handed, planNode.listed, planNode.tests)
             PROVE  /\ \A p \in proposal.paths :
                          /\ p.segs[1] # "" /\ ~Climbs(p.segs)
                          /\ \E f \in handed : Walk(f.segs) = Walk(p.segs)
                    /\ \A c \in proposal.tests \ {BlankCommand} :
                          c \in IF planNode.listed = {} THEN planNode.tests ELSE UNION planNode.listed
  BY DEF ProposalInside
<1>1. proposal.paths \subseteq CanonPath
  BY DEF Proposal
<1>2. ASSUME NEW p \in proposal.paths
      PROVE  /\ p.segs[1] # "" /\ ~Climbs(p.segs)
             /\ \E f \in handed : Walk(f.segs) = Walk(p.segs)
  <2>1. p.segs \in Seq(Word) /\ Len(p.segs) > 0
    BY <1>1, PathWords
  <2>2. PICK c \in Schema(p) : PatchPathOk([segs |-> c, pad |-> FALSE], handed)
    BY DEF ProposalOk
  <2>3. /\ c = Collapsed(p.segs) /\ c # <<>>
        /\ ~Absolute(p.segs) /\ ~Climbs(p.segs)
    BY <2>2 DEF Schema, Normalised
  <2>4. Collapsed(c) \in NormalisedAll(handed)
    BY <2>2 DEF PatchPathOk, Normalised
  <2>5. PICK f \in handed : Collapsed(c) = Collapsed(f.segs)
    BY <2>4 DEF NormalisedAll, Normalised
  <2>6. f.segs \in Seq(Word)
    BY PathWords DEF PolicyInv
  <2>7. Collapsed(c) = Collapsed(p.segs)
    BY <2>1, <2>3, CanonicalPath
  <2>8. Walk(f.segs) = Walk(p.segs)
    BY <2>1, <2>5, <2>6, <2>7, SameForm
  <2>9. p.segs[1] # ""
    BY <2>1, <2>3, BeginsWithName
  <2> QED
    BY <2>3, <2>8, <2>9
<1>3. ASSUME NEW c \in proposal.tests \ {BlankCommand}
      PROVE  c \in IF planNode.listed = {} THEN planNode.tests ELSE UNION planNode.listed
  BY DEF ProposalOk, TestsOk, Resolved
<1> QED
  BY <1>2, <1>3

LEMMA SandboxFromInv == PolicyInv => SandboxKeeps
<1> SUFFICES ASSUME PolicyInv, NEW po \in policy
             PROVE  /\ \A p \in CanonPath : MayPatch(po, p) =>
                          /\ Walk(p.segs) # Outside
                          /\ \E f \in handed : Walk(f.segs) = Walk(p.segs)
                          /\ \A f \in locked : Climbs(f.segs) \/ Walk(f.segs) # Walk(p.segs)
                    /\ \A c \in TestCommand : MayRun(po, c) =>
                          /\ c \in IF planNode.listed = {} THEN planNode.tests ELSE UNION planNode.listed
                          /\ c.net = "none" \/ po.network
  BY DEF SandboxKeeps
<1>1. /\ po.files = NormalisedAll(handed) /\ po.readonly = NormalisedAll(locked)
      /\ po.commands \subseteq Resolved(planNode.listed, planNode.tests)
  BY DEF PolicyInv
<1>2. ASSUME NEW p \in CanonPath, MayPatch(po, p)
      PROVE  /\ Walk(p.segs) # Outside
             /\ \E f \in handed : Walk(f.segs) = Walk(p.segs)
             /\ \A f \in locked : Climbs(f.segs) \/ Walk(f.segs) # Walk(p.segs)
  <2> DEFINE form == Collapsed(p.segs)
  <2>1. p.segs \in Seq(Word)
    BY PathWords
  <2>2. /\ form \notin po.readonly /\ form \in po.files /\ form # <<>>
        /\ Walk(form) # Outside /\ ~Climbs(p.segs)
    BY <1>2 DEF MayPatch, PathAllowed, Normalised
  <2>3. Walk(p.segs) = Walk(form)
    BY <2>1, CanonicalPath
  <2>4. Walk(p.segs) = form
    BY <2>1, <2>2, <2>3, InsideWalk
  <2>5. PICK f \in handed : form = Collapsed(f.segs)
    BY <1>1, <2>2 DEF NormalisedAll, Normalised
  <2>6. f.segs \in Seq(Word)
    BY PathWords DEF PolicyInv
  <2>7. Walk(f.segs) = Walk(p.segs)
    BY <2>1, <2>5, <2>6, SameForm
  <2>8. ASSUME NEW g \in locked, ~Climbs(g.segs), Walk(g.segs) = Walk(p.segs)
        PROVE  FALSE
    <3>1. g.segs \in Seq(Word)
      BY PathWords DEF PolicyInv
    <3>2. Walk(g.segs) = Collapsed(g.segs)
      BY <2>2, <2>3, <2>8, <3>1, InsideWalk
    <3>3. form = Normalised(g)
      BY <2>4, <2>8, <3>2 DEF Normalised
    <3> QED
      BY <1>1, <2>2, <3>3 DEF NormalisedAll
  <2> QED
    BY <2>2, <2>3, <2>7, <2>8
<1>3. ASSUME NEW c \in TestCommand, MayRun(po, c)
      PROVE  /\ c \in IF planNode.listed = {} THEN planNode.tests ELSE UNION planNode.listed
             /\ c.net = "none" \/ po.network
  BY <1>1, <1>3 DEF MayRun, Resolved
<1> QED
  BY <1>2, <1>3

(* For any files, commands and names, and however long the paths that a     *)
(* proposal spells: what is accepted, patched or run was declared.          *)
THEOREM OnlyDeclaredAlways == PolicySpec => []OnlyDeclared
<1>1. PolicyInv => OnlyDeclared
  BY InsideProposed, SandboxFromInv DEF OnlyDeclared
<1> QED
  BY <1>1, PolicyStarts, PolicyKept, PTL DEF PolicySpec

-----------------------------------------------------------------------------
(* Unified diffs.                                                           *)

(* The texts of a file's lines and of a diff.                               *)
Txt  == STRING
Line == [t : Txt, ended : BOOLEAN]

LEMMA TextsType ==
    ASSUME NEW lines, NEW kinds, Len(lines) \in Nat,
           \A n \in 1 .. Len(lines) : lines[n].k \in kinds => lines[n].t \in Txt
    PROVE  Texts(lines, kinds) \in Seq(Txt)
<1> DEFINE S == Seq(Txt)
           m == Len(lines)
           base == <<>>
           Then(x, i) == IF lines[i].k \in kinds THEN Append(x, lines[i].t) ELSE x
           step == [i \in 1 .. m |-> [x \in S |-> Then(x, i)]]
           Eq(f) == f = [n \in 0 .. m |-> IF n = 0 THEN <<>> ELSE Then(f[n - 1], n)]
           ts == CHOOSE f : Eq(f)
<1>1. base \in S /\ m \in Nat
  OBVIOUS
<1>2. \A i \in 1 .. m, x \in S : Then(x, i) \in S
  OBVIOUS
<1> HIDE DEF S, Then
<1>3. step \in [1 .. m -> [S -> S]]
  BY <1>2
<1>s. \A i \in 1 .. m, x \in S : step[i][x] = Then(x, i)
  OBVIOUS
<1> HIDE DEF step, m, base
<1>4. \E f : Iterates(f, S, base, m, step)
  BY <1>1, <1>3, Recursion
<1>5. PICK f \in [0 .. m -> S] : f[0] = base /\ \A i \in 1 .. m : f[i] = step[i][f[i - 1]]
  BY <1>4 DEF Iterates
<1>6. \A i \in 1 .. m : f[i] = Then(f[i - 1], i)
  BY <1>1, <1>s, <1>5
<1>7. Eq(f)
  BY <1>1, <1>5, <1>6 DEF base
<1>8. Eq(ts)
  BY <1>7, Zenon
<1>9. Texts(lines, kinds) = ts[m]
  BY DEF Texts, Then, m
<1> HIDE DEF ts
<1>10. \A i \in 0 .. m : ts[i] = f[i]
  <2>1. ts[0] = f[0] /\ \A i \in 1 .. m : ts[i] = Then(ts[i - 1], i)
    BY <1>1, <1>5, <1>8 DEF base
  <2>2. \A i \in 1 .. m : ts[i - 1] = f[i - 1] => ts[i] = f[i]
    BY <1>6, <2>1
  <2> DEFINE N == {n \in 0 .. m : ts[n] = f[n]}
  <2>3. 0 \in N /\ \A n \in 1 .. m : n - 1 \in N => n \in N
    BY <1>1, <2>1, <2>2
  <2>4. 0 .. m \subseteq N
    <3> HIDE DEF N
    <3> QED
      BY <1>1, <2>3, Induction
  <2> QED
    BY <2>4
<1> QED
  BY <1>1, <1>5, <1>9, <1>10 DEF S

Readable(diff) ==
    /\ diff \in Seq({diff[i] : i \in DOMAIN diff})
    /\ \A i \in DOMAIN diff :
          /\ diff[i].k = "@@" => diff[i].start \in Nat /\ diff[i].count \in Nat
          /\ diff[i].k \in {" ", "+", "-"} => diff[i].t \in Txt

HunkRec == [start : Nat, count : Nat, old : Seq(Txt), new : Seq(Txt), marker : BOOLEAN]

LEMMA ReadableLength ==
    ASSUME NEW diff, Readable(diff)
    PROVE  Len(diff) \in Nat /\ DOMAIN diff = 1 .. Len(diff)
<1> DEFINE D == {diff[i] : i \in DOMAIN diff}
<1>1. diff \in Seq(D)
  BY DEF Readable
<1> HIDE DEF D
<1> QED
  BY <1>1, LenProperties

(* A hunk ends within the diff.                                             *)
LEMMA HunkType ==
    ASSUME NEW diff, Readable(diff), NEW i \in 1 .. Len(diff), diff[i].k = "@@"
    PROVE  Hunk(diff, i) \in HunkRec
<1> DEFINE D == {diff[j] : j \in DOMAIN diff}
           ends == {j \in i + 1 .. Len(diff) : diff[j].k \in {"@@", "old", "new"}}
           last == IF ends = {} THEN Len(diff) ELSE (CHOOSE j \in ends : \A n \in ends : j <= n) - 1
           body == SubSeq(diff, i + 1, last)
<1>1. diff \in Seq(D) /\ Len(diff) \in Nat /\ DOMAIN diff = 1 .. Len(diff)
  BY ReadableLength DEF Readable
<1>2. last \in i .. Len(diff)
  <2>1. CASE ends = {}
    BY <1>1, <2>1
  <2>2. CASE ends # {}
    <3>1. ends \in SUBSET Nat
      BY <1>1
    <3>2. \E j \in ends : \A n \in ends : j <= n
      BY <2>2, <3>1, LeastNumber
    <3>3. (CHOOSE j \in ends : \A n \in ends : j <= n) \in ends
      BY <3>2, Zenon
    <3>4. \A j \in ends : j - 1 \in i .. Len(diff)
      BY <1>1
    <3> QED
      BY <2>2, <3>3, <3>4
  <2> QED
    BY <2>1, <2>2
<1> HIDE DEF last
<1>3. Len(body) \in Nat /\ \A n \in 1 .. Len(body) : body[n] = diff[i + n] /\ i + n \in 1 .. Len(diff)
  <2>1. i + 1 \in Int /\ last \in Int /\ \A n \in i + 1 .. last : diff[n] \in D
    BY <1>1, <1>2
  <2> HIDE DEF D
  <2>2. /\ Len(body) = IF i + 1 <= last THEN last - (i + 1) + 1 ELSE 0
        /\ \A n \in 1 .. last - (i + 1) + 1 : body[n] = diff[i + 1 + n - 1]
    BY <2>1, SubSeqProperties
  <2> HIDE DEF body
  <2>3. \A n \in 1 .. Len(body) : i + 1 + n - 1 = i + n /\ i + n \in 1 .. Len(diff) /\ n \in 1 .. last - (i + 1) + 1
    BY <1>1, <1>2, <2>2
  <2> QED
    BY <1>1, <1>2, <2>2, <2>3
<1> HIDE DEF body
<1>4. ASSUME NEW kinds, kinds \subseteq {" ", "+", "-"}
      PROVE  Texts(body, kinds) \in Seq(Txt)
  <2>1. \A n \in 1 .. Len(body) : body[n].k \in kinds => body[n].t \in Txt
    BY <1>1, <1>3, <1>4 DEF Readable
  <2> QED
    BY <1>3, <2>1, TextsType
<1>5. Texts(body, {" ", "-"}) \in Seq(Txt) /\ Texts(body, {" ", "+"}) \in Seq(Txt)
  BY <1>4
<1>6. diff[i].start \in Nat /\ diff[i].count \in Nat
  BY <1>1 DEF Readable
<1>7. Hunk(diff, i) = [start |-> diff[i].start, count |-> diff[i].count,
                       old |-> Texts(body, {" ", "-"}), new |-> Texts(body, {" ", "+"}),
                       marker |-> \E n \in DOMAIN body : body[n].k = "\\"]
  BY DEF Hunk, body, last
<1>8. (\E n \in DOMAIN body : body[n].k = "\\") \in BOOLEAN
  OBVIOUS
<1> DEFINE old == Texts(body, {" ", "-"})
           new == Texts(body, {" ", "+"})
           marker == \E n \in DOMAIN body : body[n].k = "\\"
<1>9. old \in Seq(Txt) /\ new \in Seq(Txt) /\ marker \in BOOLEAN
  BY <1>5, <1>8
<1>10. Hunk(diff, i) = [start |-> diff[i].start, count |-> diff[i].count,
                        old |-> old, new |-> new, marker |-> marker]
  BY <1>7
<1> HIDE DEF old, new, marker
<1> QED
  BY <1>6, <1>9, <1>10 DEF HunkRec

LEMMA HunksType ==
    ASSUME NEW diff, Readable(diff)
    PROVE  Hunks(diff) \in Seq(HunkRec)
<1> DEFINE S == Seq(HunkRec)
           m == Len(diff)
           base == <<>>
           Then(x, i) == IF diff[i].k = "@@" THEN Append(x, Hunk(diff, i)) ELSE x
           step == [i \in 1 .. m |-> [x \in S |-> Then(x, i)]]
           Eq(f) == f = [n \in 0 .. m |-> IF n = 0 THEN <<>> ELSE Then(f[n - 1], n)]
           ts == CHOOSE f : Eq(f)
<1>1. base \in S /\ m \in Nat
  BY ReadableLength
<1>2. \A i \in 1 .. m, x \in S : Then(x, i) \in S
  <2> SUFFICES ASSUME NEW i \in 1 .. m, NEW x \in S PROVE Then(x, i) \in S
    OBVIOUS
  <2>1. CASE diff[i].k = "@@"
    <3>1. Hunk(diff, i) \in HunkRec
      BY <2>1, HunkType
    <3>2. Append(x, Hunk(diff, i)) \in S
      BY <3>1, AppendProperties
    <3> QED
      BY <2>1, <3>2
  <2>2. CASE diff[i].k # "@@"
    BY <2>2
  <2> QED
    BY <2>1, <2>2
<1> HIDE DEF S, Then
<1>3. step \in [1 .. m -> [S -> S]]
  BY <1>2
<1>4. \A i \in 1 .. m, x \in S : step[i][x] = Then(x, i)
  OBVIOUS
<1> HIDE DEF step, m, base
<1>5. \E f : Iterates(f, S, base, m, step)
  BY <1>1, <1>3, Recursion
<1>6. PICK f \in [0 .. m -> S] : f[0] = base /\ \A i \in 1 .. m : f[i] = step[i][f[i - 1]]
  BY <1>5 DEF Iterates
<1>7. \A i \in 1 .. m : f[i] = Then(f[i - 1], i)
  BY <1>1, <1>4, <1>6
<1>8. Eq(f)
  BY <1>1, <1>6, <1>7 DEF base
<1>9. Eq(ts)
  BY <1>8, Zenon
<1>10. Hunks(diff) = ts[m]
  BY DEF Hunks, Then, m
<1> HIDE DEF ts
<1>11. \A i \in 0 .. m : ts[i] = f[i]
  <2>1. ts[0] = f[0] /\ \A i \in 1 .. m : ts[i] = Then(ts[i - 1], i)
    BY <1>1, <1>6, <1>9 DEF base
  <2>2. \A i \in 1 .. m : ts[i - 1] = f[i - 1] => ts[i] = f[i]
    BY <1>7, <2>1
  <2> DEFINE N == {n \in 0 .. m : ts[n] = f[n]}
  <2>3. 0 \in N /\ \A n \in 1 .. m : n - 1 \in N => n \in N
    BY <1>1, <2>1, <2>2
  <2>4. 0 .. m \subseteq N
    <3> HIDE DEF N
    <3> QED
      BY <1>1, <2>3, Induction
  <2> QED
    BY <2>4
<1> QED
  BY <1>1, <1>6, <1>10, <1>11 DEF S

Pieces == Seq(Seq(Txt))

(* Flattening, one sequence after the other.                                *)
LEMMA FlattenSteps ==
    ASSUME NEW seqs \in Pieces
    PROVE  \E f \in [0 .. Len(seqs) -> Seq(Txt)] :
             /\ f[0] = <<>> /\ \A i \in 1 .. Len(seqs) : f[i] = f[i - 1] \o seqs[i]
             /\ FlattenSeq(seqs) = f[Len(seqs)]
<1> DEFINE S == Seq(Txt)
           m == Len(seqs)
           base == <<>>
           Then(x, i) == x \o seqs[i]
           step == [i \in 1 .. m |-> [x \in S |-> Then(x, i)]]
<1>1. base \in S /\ m \in Nat
  BY DEF Pieces
<1>2. \A i \in 1 .. m, x \in S : Then(x, i) \in S
  <2> SUFFICES ASSUME NEW i \in 1 .. m, NEW x \in S PROVE Then(x, i) \in S
    OBVIOUS
  <2>1. seqs[i] \in Seq(Txt)
    BY ElementOfSeq DEF Pieces
  <2> QED
    BY <2>1, ConcatProperties
<1> HIDE DEF S, Then
<1>3. step \in [1 .. m -> [S -> S]]
  BY <1>2
<1>4. \A i \in 1 .. m, x \in S : step[i][x] = Then(x, i)
  OBVIOUS
<1> HIDE DEF step, m, base
<1>5. \E f : Iterates(f, S, base, m, step)
  BY <1>1, <1>3, Recursion
<1>6. PICK f \in [0 .. m -> S] : f[0] = base /\ \A i \in 1 .. m : f[i] = step[i][f[i - 1]]
  BY <1>5 DEF Iterates
<1>7. \A i \in 1 .. m : f[i] = Then(f[i - 1], i)
  BY <1>1, <1>4, <1>6
<1>8. \A i \in 1 .. m : f[i] = f[i - 1] \o seqs[i]
  BY <1>7 DEF Then
<1>9. CASE m = 0
  <2>1. FlattenSeq(seqs) = seqs /\ seqs = <<>>
    BY <1>9 DEF FlattenSeq, m, Pieces
  <2> QED
    BY <1>6, <1>8, <1>9, <2>1 DEF S, base, m
<1>10. CASE m # 0
  <2> DEFINE Eq(h) == h = [i \in 1 .. m |-> IF i = 1 THEN seqs[i] ELSE h[i - 1] \o seqs[i]]
             g == [i \in 1 .. m |-> f[i]]
             ts == CHOOSE h : Eq(h)
  <2>1. f[1] = seqs[1]
    <3>1. 1 \in 1 .. m /\ 1 - 1 = 0
      BY <1>1, <1>10
    <3>2. seqs[1] \in Seq(Txt)
      BY <3>1, ElementOfSeq DEF m, Pieces
    <3>3. <<>> \o seqs[1] = seqs[1]
      BY <3>2, ConcatEmptySeq
    <3>4. f[1] = f[1 - 1] \o seqs[1]
      BY <1>8, <3>1
    <3> QED
      BY <1>6, <3>1, <3>3, <3>4 DEF base
  <2>2. \A i \in 1 .. m : f[i] = IF i = 1 THEN seqs[i] ELSE f[i - 1] \o seqs[i]
    BY <1>8, <2>1
  <2>3. Eq(g)
    <3>1. \A i \in 1 .. m : i # 1 => i - 1 \in 1 .. m
      BY <1>1
    <3>2. \A i \in 1 .. m : g[i] = IF i = 1 THEN seqs[i] ELSE g[i - 1] \o seqs[i]
      BY <2>2, <3>1
    <3> QED
      BY <3>2
  <2>4. Eq(ts)
    BY <2>3, Zenon
  <2>5. FlattenSeq(seqs) = ts[m]
    BY <1>10 DEF FlattenSeq, m
  <2> HIDE DEF ts
  <2>6. \A i \in 1 .. m : ts[i] = IF i = 1 THEN seqs[i] ELSE ts[i - 1] \o seqs[i]
    BY <2>4
  <2> DEFINE N == {n \in 0 .. m : n = 0 \/ ts[n] = f[n]}
  <2>7. 0 \in N
    BY <1>1
  <2>8. \A n \in 1 .. m : n - 1 \in N => n \in N
    <3> SUFFICES ASSUME NEW n \in 1 .. m, n - 1 \in N PROVE n \in N
      OBVIOUS
    <3>1. CASE n = 1
      BY <2>2, <2>6, <3>1
    <3>2. CASE n # 1
      <4>1. ts[n - 1] = f[n - 1]
        BY <3>2
      <4> QED
        BY <2>2, <2>6, <3>2, <4>1
    <3> QED
      BY <3>1, <3>2
  <2>9. 0 .. m \subseteq N
    <3> HIDE DEF N
    <3> QED
      BY <1>1, <2>7, <2>8, Induction
  <2>10. ts[m] = f[m]
    BY <1>1, <1>10, <2>9
  <2> QED
    BY <1>6, <1>8, <2>5, <2>10 DEF S, base, m
<1> QED
  BY <1>9, <1>10

-----------------------------------------------------------------------------
(* Sequences of texts.                                                      *)

LEMMA SubSeqIn ==
    ASSUME NEW S, NEW s \in Seq(S), NEW m \in 1 .. Len(s) + 1, NEW n \in m - 1 .. Len(s)
    PROVE  /\ SubSeq(s, m, n) \in Seq(S)
           /\ Len(SubSeq(s, m, n)) = n - m + 1
           /\ \A i \in 1 .. n - m + 1 : SubSeq(s, m, n)[i] = s[m + i - 1]
<1>1. Len(s) \in Nat /\ m \in Int /\ n \in Int
  OBVIOUS
<1>2. \A i \in m .. n : s[i] \in S
  <2>1. \A i \in m .. n : i \in 1 .. Len(s)
    BY <1>1
  <2> QED
    BY <2>1, ElementOfSeq
<1>3. /\ SubSeq(s, m, n) \in Seq(S)
      /\ Len(SubSeq(s, m, n)) = IF m <= n THEN n - m + 1 ELSE 0
      /\ \A i \in 1 .. n - m + 1 : SubSeq(s, m, n)[i] = s[m + i - 1]
  BY <1>1, <1>2, SubSeqProperties
<1>4. (IF m <= n THEN n - m + 1 ELSE 0) = n - m + 1
  BY <1>1
<1> QED
  BY <1>3, <1>4

(* A text whose beginning was replaced: what of it stands where.            *)
LEMMA Replaced ==
    ASSUME NEW S, NEW A \in Seq(S), NEW X \in Seq(S), NEW e \in 0 .. Len(X)
    PROVE  LET T == A \o SubSeq(X, e + 1, Len(X))
               d == Len(A) - e
           IN  /\ T \in Seq(S) /\ Len(T) = Len(X) + d
               /\ \A j \in 1 .. Len(A) : T[j] = A[j]
               /\ \A j \in e + 1 .. Len(X) : T[j + d] = X[j]
<1> DEFINE R == SubSeq(X, e + 1, Len(X))
           T == A \o R
           d == Len(A) - e
<1>0. Len(X) \in Nat /\ Len(A) \in Nat /\ d \in Int /\ d = Len(A) - e
  OBVIOUS
<1>1. /\ R \in Seq(S) /\ Len(R) = Len(X) - e
      /\ \A i \in 1 .. Len(X) - e : R[i] = X[e + i]
  <2>1. e + 1 \in 1 .. Len(X) + 1 /\ Len(X) \in (e + 1) - 1 .. Len(X)
    BY <1>0
  <2>2. /\ R \in Seq(S) /\ Len(R) = Len(X) - (e + 1) + 1
        /\ \A i \in 1 .. Len(X) - (e + 1) + 1 : R[i] = X[e + 1 + i - 1]
    BY <2>1, SubSeqIn
  <2> HIDE DEF R
  <2>3. Len(X) - (e + 1) + 1 = Len(X) - e /\ \A i \in 1 .. Len(X) - e : e + 1 + i - 1 = e + i
    BY <1>0
  <2> QED
    BY <2>2, <2>3
<1> HIDE DEF R
<1>2. /\ T \in Seq(S) /\ Len(T) = Len(A) + Len(R)
      /\ \A i \in 1 .. Len(A) + Len(R) : T[i] = IF i <= Len(A) THEN A[i] ELSE R[i - Len(A)]
  BY <1>1, ConcatProperties
<1> HIDE DEF T, d
<1>3. Len(T) = Len(X) + d
  BY <1>0, <1>1, <1>2
<1>4. \A j \in 1 .. Len(A) : T[j] = A[j]
  BY <1>0, <1>1, <1>2
<1>5. ASSUME NEW j \in e + 1 .. Len(X)
      PROVE  T[j + d] = X[j]
  <2>0. PICK k \in Int : k = j + d
    BY <1>0
  <2>1. k \in 1 .. Len(A) + Len(R) /\ ~(k <= Len(A)) /\ k - Len(A) = j - e
    BY <1>0, <1>1, <2>0
  <2>2. T[j + d] = R[j - e]
    BY <1>2, <2>0, <2>1
  <2>3. j - e \in 1 .. Len(X) - e /\ e + (j - e) = j
    BY <1>0
  <2> QED
    BY <1>1, <2>2, <2>3
<1> QED
  BY <1>2, <1>3, <1>4, <1>5 DEF T, R, d

Spliced(A, X, e, a, b, T, d) ==
    /\ SubSeq(T, 1, a + d) = A \o SubSeq(X, e + 1, a)
    /\ SubSeq(T, a + d + 1, b + d) = SubSeq(X, a + 1, b)
    /\ SubSeq(T, b + d + 1, Len(T)) = SubSeq(X, b + 1, Len(X))

LEMMA Splice ==
    ASSUME NEW S, NEW A \in Seq(S), NEW X \in Seq(S), NEW e \in 0 .. Len(X),
           NEW a \in e .. Len(X), NEW b \in a .. Len(X),
           NEW T, NEW d, T = A \o SubSeq(X, e + 1, Len(X)), d = Len(A) - e
    PROVE  Spliced(A, X, e, a, b, T, d)
<1>0. /\ Len(X) \in Nat /\ Len(A) \in Nat /\ d \in Int /\ d = Len(A) - e
      /\ e \in Nat /\ a \in Nat /\ b \in Nat
  OBVIOUS
<1>1. /\ T \in Seq(S) /\ Len(T) = Len(X) + d
      /\ \A j \in 1 .. Len(A) : T[j] = A[j]
      /\ \A j \in e + 1 .. Len(X) : T[j + d] = X[j]
  BY Replaced
<1>t. T \in Seq(S)
  BY <1>1
<1>2. SubSeq(T, 1, a + d) = A \o SubSeq(X, e + 1, a)
  <2> DEFINE L == SubSeq(T, 1, a + d)
             Q == SubSeq(X, e + 1, a)
             R == A \o Q
  <2>1. L \in Seq(S) /\ Len(L) = a + d /\ \A i \in 1 .. a + d : L[i] = T[i]
    <3>1. 1 \in 1 .. Len(T) + 1 /\ a + d \in 1 - 1 .. Len(T)
      BY <1>0, <1>1
    <3>2. L \in Seq(S) /\ Len(L) = (a + d) - 1 + 1 /\ \A i \in 1 .. (a + d) - 1 + 1 : L[i] = T[1 + i - 1]
      <4> DEFINE n == a + d
      <4>1. n \in Int /\ n = a + d
        BY <1>0
      <4> HIDE DEF n
      <4>2. n \in 1 - 1 .. Len(T)
        BY <3>1, <4>1
      <4>3. /\ SubSeq(T, 1, n) \in Seq(S) /\ Len(SubSeq(T, 1, n)) = n - 1 + 1
            /\ \A i \in 1 .. n - 1 + 1 : SubSeq(T, 1, n)[i] = T[1 + i - 1]
        BY <1>t, <3>1, <4>2, SubSeqIn
      <4> QED
        BY <4>3, Zenon DEF n
    <3> HIDE DEF L
    <3>3. (a + d) - 1 + 1 = a + d /\ \A i \in 1 .. a + d : 1 + i - 1 = i
      BY <1>0
    <3> QED
      BY <3>2, <3>3
  <2>2. Q \in Seq(S) /\ Len(Q) = a - e /\ \A i \in 1 .. a - e : Q[i] = X[e + i]
    <3>1. e + 1 \in 1 .. Len(X) + 1 /\ a \in (e + 1) - 1 .. Len(X)
      BY <1>0
    <3>2. /\ Q \in Seq(S) /\ Len(Q) = a - (e + 1) + 1
          /\ \A i \in 1 .. a - (e + 1) + 1 : Q[i] = X[e + 1 + i - 1]
      BY <3>1, SubSeqIn
    <3> HIDE DEF Q
    <3>3. a - (e + 1) + 1 = a - e /\ \A i \in 1 .. a - e : e + 1 + i - 1 = e + i
      BY <1>0
    <3> QED
      BY <3>2, <3>3
  <2> HIDE DEF L, Q
  <2>3. /\ R \in Seq(S) /\ Len(R) = Len(A) + Len(Q)
        /\ \A i \in 1 .. Len(A) + Len(Q) : R[i] = IF i <= Len(A) THEN A[i] ELSE Q[i - Len(A)]
    BY <2>2, ConcatProperties
  <2> HIDE DEF R
  <2>4. Len(L) = Len(R)
    BY <1>0, <2>1, <2>2, <2>3
  <2>5. ASSUME NEW i \in 1 .. Len(L)
        PROVE  L[i] = R[i]
    <3>1. i \in 1 .. a + d /\ i \in 1 .. Len(A) + Len(Q) /\ L[i] = T[i]
      BY <2>1, <2>3, <2>4
    <3>2. CASE i <= Len(A)
      <4>1. i \in 1 .. Len(A)
        BY <1>0, <3>1, <3>2
      <4>2. T[i] = A[i]
        BY <1>1, <4>1
      <4>3. R[i] = A[i]
        BY <2>3, <3>1, <3>2
      <4> QED
        BY <3>1, <4>2, <4>3
    <3>3. CASE ~(i <= Len(A))
      <4>1. i - d \in e + 1 .. Len(X) /\ i - d + d = i /\ i - Len(A) \in 1 .. a - e /\ e + (i - Len(A)) = i - d
        BY <1>0, <3>1, <3>3
      <4>2. T[i] = X[i - d]
        BY <1>1, <4>1
      <4>3. R[i] = X[i - d]
        BY <2>2, <2>3, <3>1, <3>3, <4>1
      <4> QED
        BY <3>1, <4>2, <4>3
    <3> QED
      BY <3>2, <3>3
  <2>6. L = R
    BY <2>1, <2>3, <2>4, <2>5, SeqEqual
  <2> QED
    BY <2>6 DEF L, R, Q
<1>3. ASSUME NEW p \in e .. Len(X), NEW q \in p .. Len(X)
      PROVE  SubSeq(T, p + d + 1, q + d) = SubSeq(X, p + 1, q)
  <2> DEFINE L == SubSeq(T, p + d + 1, q + d)
             R == SubSeq(X, p + 1, q)
  <2>1. L \in Seq(S) /\ Len(L) = q - p /\ \A i \in 1 .. q - p : L[i] = T[p + d + i]
    <3>1. p + d + 1 \in 1 .. Len(T) + 1 /\ q + d \in (p + d + 1) - 1 .. Len(T)
      <4>1. p \in Nat /\ q \in Nat /\ d \in Int /\ e <= p /\ p <= q /\ q <= Len(X) /\ e + d >= 0 /\ e \in Nat
        BY <1>0
      <4>2. Len(T) = Len(X) + d /\ Len(X) \in Nat
        BY <1>0, <1>1
      <4> QED
        BY <4>1, <4>2
    <3>2. /\ L \in Seq(S) /\ Len(L) = (q + d) - (p + d + 1) + 1
          /\ \A i \in 1 .. (q + d) - (p + d + 1) + 1 : L[i] = T[(p + d + 1) + i - 1]
      <4> DEFINE m == p + d + 1
                 n == q + d
      <4>1. m \in Int /\ n \in Int /\ m = p + d + 1 /\ n = q + d
        BY <1>0
      <4> HIDE DEF m, n
      <4>2. m \in 1 .. Len(T) + 1 /\ n \in m - 1 .. Len(T)
        BY <3>1, <4>1
      <4>3. /\ SubSeq(T, m, n) \in Seq(S) /\ Len(SubSeq(T, m, n)) = n - m + 1
            /\ \A i \in 1 .. n - m + 1 : SubSeq(T, m, n)[i] = T[m + i - 1]
        BY <1>t, <4>2, SubSeqIn
      <4> QED
        BY <4>3, Zenon DEF m, n
    <3> HIDE DEF L
    <3>3. (q + d) - (p + d + 1) + 1 = q - p /\ \A i \in 1 .. q - p : (p + d + 1) + i - 1 = p + d + i
      BY <1>0
    <3> QED
      BY <3>2, <3>3
  <2>2. R \in Seq(S) /\ Len(R) = q - p /\ \A i \in 1 .. q - p : R[i] = X[p + i]
    <3>1. p + 1 \in 1 .. Len(X) + 1 /\ q \in (p + 1) - 1 .. Len(X)
      BY <1>0
    <3>2. /\ R \in Seq(S) /\ Len(R) = q - (p + 1) + 1
          /\ \A i \in 1 .. q - (p + 1) + 1 : R[i] = X[p + 1 + i - 1]
      BY <3>1, SubSeqIn
    <3> HIDE DEF R
    <3>3. q - (p + 1) + 1 = q - p /\ \A i \in 1 .. q - p : p + 1 + i - 1 = p + i
      BY <1>0
    <3> QED
      BY <3>2, <3>3
  <2> HIDE DEF L, R
  <2>3. ASSUME NEW i \in 1 .. q - p
        PROVE  L[i] = R[i]
    <3>1. p + i \in e + 1 .. Len(X) /\ p + d + i = (p + i) + d
      BY <1>0
    <3>2. T[p + d + i] = X[p + i]
      BY <1>1, <3>1
    <3> QED
      BY <2>1, <2>2, <3>2
  <2>4. L = R
    BY <2>1, <2>2, <2>3, SeqEqual
  <2> QED
    BY <2>4 DEF L, R
<1>4. SubSeq(T, a + d + 1, b + d) = SubSeq(X, a + 1, b)
  BY <1>3
<1>5. SubSeq(T, b + d + 1, Len(T)) = SubSeq(X, b + 1, Len(X))
  <2>1. b \in e .. Len(X) /\ Len(X) \in b .. Len(X)
    BY <1>0
  <2> QED
    BY <1>1, <1>3, <2>1
<1> QED
  BY <1>2, <1>4, <1>5 DEF Spliced

(* The texts of lines.                                                      *)
LEMMA TextOfType ==
    ASSUME NEW ls \in Seq(Line)
    PROVE  /\ TextOf(ls) \in Seq(Txt) /\ Len(TextOf(ls)) = Len(ls)
           /\ \A i \in 1 .. Len(ls) : TextOf(ls)[i] = ls[i].t
<1>1. Len(ls) \in Nat /\ DOMAIN ls = 1 .. Len(ls)
  OBVIOUS
<1>2. \A i \in 1 .. Len(ls) : ls[i].t \in Txt
  <2>1. \A i \in 1 .. Len(ls) : ls[i] \in Line
    BY ElementOfSeq
  <2> QED
    BY <2>1 DEF Line
<1>3. TextOf(ls) = [i \in 1 .. Len(ls) |-> ls[i].t]
  BY <1>1 DEF TextOf
<1> QED
  BY <1>1, <1>2, <1>3

LEMMA TextOfSub ==
    ASSUME NEW ls \in Seq(Line), NEW m \in 1 .. Len(ls) + 1, NEW n \in m - 1 .. Len(ls)
    PROVE  TextOf(SubSeq(ls, m, n)) = SubSeq(TextOf(ls), m, n)
<1> DEFINE L == SubSeq(ls, m, n)
           T == TextOf(ls)
           R == SubSeq(T, m, n)
<1>1. T \in Seq(Txt) /\ Len(T) = Len(ls) /\ \A i \in 1 .. Len(ls) : T[i] = ls[i].t
  BY TextOfType
<1>2. L \in Seq(Line) /\ Len(L) = n - m + 1 /\ \A i \in 1 .. n - m + 1 : L[i] = ls[m + i - 1]
  BY SubSeqIn
<1> HIDE DEF T, L
<1>3. R \in Seq(Txt) /\ Len(R) = n - m + 1 /\ \A i \in 1 .. n - m + 1 : R[i] = T[m + i - 1]
  BY <1>1, SubSeqIn
<1> HIDE DEF R
<1>4. TextOf(L) \in Seq(Txt) /\ Len(TextOf(L)) = Len(L) /\ \A i \in 1 .. Len(L) : TextOf(L)[i] = L[i].t
  BY <1>2, TextOfType
<1>5. ASSUME NEW i \in 1 .. Len(R)
      PROVE  TextOf(L)[i] = R[i]
  <2>0. Len(ls) \in Nat
    OBVIOUS
  <2>1. i \in 1 .. n - m + 1 /\ i \in 1 .. Len(L) /\ m + i - 1 \in 1 .. Len(ls)
    BY <1>2, <1>3, <2>0
  <2>2. R[i] = T[m + i - 1] /\ L[i] = ls[m + i - 1]
    BY <1>2, <1>3, <2>1
  <2>3. T[m + i - 1] = ls[m + i - 1].t
    BY <1>1, <2>1
  <2> QED
    BY <1>4, <2>1, <2>2, <2>3
<1>6. TextOf(L) = R
  BY <1>2, <1>3, <1>4, <1>5, SeqEqual
<1> QED
  BY <1>6 DEF L, R, T

LEMMA TextOfConcat ==
    ASSUME NEW a \in Seq(Line), NEW b \in Seq(Line)
    PROVE  TextOf(a \o b) = TextOf(a) \o TextOf(b)
<1> DEFINE c == a \o b
           A == TextOf(a)
           B == TextOf(b)
           R == A \o B
<1>0. Len(a) \in Nat /\ Len(b) \in Nat
  OBVIOUS
<1>1. /\ c \in Seq(Line) /\ Len(c) = Len(a) + Len(b)
      /\ \A i \in 1 .. Len(a) + Len(b) : c[i] = IF i <= Len(a) THEN a[i] ELSE b[i - Len(a)]
  BY ConcatProperties
<1>2. A \in Seq(Txt) /\ Len(A) = Len(a) /\ \A i \in 1 .. Len(a) : A[i] = a[i].t
  BY TextOfType
<1>3. B \in Seq(Txt) /\ Len(B) = Len(b) /\ \A i \in 1 .. Len(b) : B[i] = b[i].t
  BY TextOfType
<1> HIDE DEF c, A, B
<1>4. TextOf(c) \in Seq(Txt) /\ Len(TextOf(c)) = Len(c) /\ \A i \in 1 .. Len(c) : TextOf(c)[i] = c[i].t
  BY <1>1, TextOfType
<1>5. /\ R \in Seq(Txt) /\ Len(R) = Len(A) + Len(B)
      /\ \A i \in 1 .. Len(A) + Len(B) : R[i] = IF i <= Len(A) THEN A[i] ELSE B[i - Len(A)]
  <2>1. A \in Seq(Txt) /\ B \in Seq(Txt)
    BY <1>2, <1>3
  <2> QED
    BY <2>1, ConcatProperties
<1> HIDE DEF R
<1>6. ASSUME NEW i \in 1 .. Len(R)
      PROVE  TextOf(c)[i] = R[i]
  <2>1. i \in 1 .. Len(a) + Len(b) /\ i \in 1 .. Len(c) /\ i \in 1 .. Len(A) + Len(B)
    BY <1>1, <1>2, <1>3, <1>5
  <2>2. CASE i <= Len(a)
    <3>1. i \in 1 .. Len(a)
      BY <1>0, <2>1, <2>2
    <3>2. R[i] = A[i] /\ c[i] = a[i]
      BY <1>1, <1>2, <1>5, <2>1, <2>2
    <3> QED
      BY <1>2, <1>4, <2>1, <3>1, <3>2
  <2>3. CASE ~(i <= Len(a))
    <3>1. i - Len(a) \in 1 .. Len(b)
      BY <1>0, <2>1, <2>3
    <3>2. R[i] = B[i - Len(a)] /\ c[i] = b[i - Len(a)]
      BY <1>1, <1>2, <1>5, <2>1, <2>3
    <3>3. B[i - Len(a)] = b[i - Len(a)].t
      BY <1>3, <3>1
    <3> QED
      BY <1>4, <2>1, <3>2, <3>3
  <2> QED
    BY <2>2, <2>3
<1>7. TextOf(c) = R
  BY <1>1, <1>2, <1>3, <1>4, <1>5, <1>6, SeqEqual
<1> QED
  BY <1>7 DEF c, R, A, B

LEMMA TerminatedText ==
    ASSUME NEW ts \in Seq(Txt)
    PROVE  Terminated(ts) \in Seq(Line) /\ TextOf(Terminated(ts)) = ts
<1> DEFINE ls == [i \in 1 .. Len(ts) |-> [t |-> ts[i], ended |-> TRUE]]
<1>0. Len(ts) \in Nat /\ DOMAIN ts = 1 .. Len(ts)
  OBVIOUS
<1>1. Terminated(ts) = ls
  BY <1>0 DEF Terminated
<1>2. \A i \in 1 .. Len(ts) : ts[i] \in Txt
  BY ElementOfSeq
<1>3. ls \in Seq(Line) /\ Len(ls) = Len(ts)
  BY <1>0, <1>2 DEF Line
<1>4. \A i \in 1 .. Len(ts) : ls[i].t = ts[i]
  OBVIOUS
<1> HIDE DEF ls
<1>5. TextOf(ls) \in Seq(Txt) /\ Len(TextOf(ls)) = Len(ts) /\ \A i \in 1 .. Len(ts) : TextOf(ls)[i] = ts[i]
  BY <1>3, <1>4, TextOfType
<1>6. TextOf(ls) = ts
  BY <1>5, SeqEqual
<1> QED
  BY <1>1, <1>3, <1>6

(* A text is empty exactly if it has no line.                               *)
LEMMA EmptyText ==
    ASSUME NEW ls \in Seq(Line)
    PROVE  TextOf(ls) = <<>> <=> ls = <<>>
<1>1. Len(TextOf(ls)) = Len(ls) /\ TextOf(ls) \in Seq(Txt)
  BY TextOfType
<1>2. TextOf(ls) = <<>> <=> Len(TextOf(ls)) = 0
  BY <1>1
<1>3. ls = <<>> <=> Len(ls) = 0
  OBVIOUS
<1> QED
  BY <1>1, <1>2, <1>3

Progress == [ok : BOOLEAN, offset : Int, text : Seq(Line)]

(* A hunk fits a text if its old side stands at its start.                  *)
Fits(h, X) ==
    /\ h.start + h.count - 1 <= Len(X)
    /\ \A i \in DOMAIN h.old : X[h.start + i - 1] = h.old[i]

LEMMA AppliedType ==
    ASSUME NEW at \in Progress, NEW h \in HunkRec
    PROVE  Applied(at, h) \in Progress
<1> DEFINE start == h.start - 1 + at.offset
           stop  == IF start + h.count > Len(at.text) THEN Len(at.text) ELSE start + h.count
           T == at.text
<1>1. /\ T \in Seq(Line) /\ Len(T) \in Nat /\ at.offset \in Int
      /\ h.start \in Nat /\ h.count \in Nat /\ h.new \in Seq(Txt) /\ Len(h.new) \in Nat
  BY DEF Progress, HunkRec
<1>2. start \in Int /\ stop \in Int
  BY <1>1
<1>3. CASE ~(at.ok /\ start \in 0 .. Len(T) /\ TextOf(SubSeq(T, start + 1, stop)) = h.old)
  <2>1. Applied(at, h) = [at EXCEPT !.ok = FALSE]
    BY <1>3 DEF Applied
  <2> QED
    BY <2>1 DEF Progress
<1>4. CASE at.ok /\ start \in 0 .. Len(T) /\ TextOf(SubSeq(T, start + 1, stop)) = h.old
  <2> DEFINE L == SubSeq(T, 1, start)
             M == Terminated(h.new)
             R == SubSeq(T, stop + 1, Len(T))
  <2>1. Applied(at, h) = [ok |-> TRUE, offset |-> at.offset + Len(h.new) - h.count, text |-> L \o M \o R]
    BY <1>4 DEF Applied
  <2>2. stop \in 0 .. Len(T)
    BY <1>1, <1>4
  <2> HIDE DEF start, stop
  <2>3. start \in 1 - 1 .. Len(T) /\ 1 \in 1 .. Len(T) + 1
    BY <1>1, <1>4
  <2>4. stop + 1 \in 1 .. Len(T) + 1 /\ Len(T) \in (stop + 1) - 1 .. Len(T)
    BY <1>1, <2>2
  <2> HIDE DEF T
  <2>5. L \in Seq(Line) /\ R \in Seq(Line)
    BY <1>1, <2>3, <2>4, SubSeqIn
  <2>6. M \in Seq(Line)
    BY <1>1, TerminatedText
  <2> HIDE DEF L, M, R
  <2>7. (L \o M) \o R \in Seq(Line)
    BY <2>5, <2>6, ConcatProperties
  <2>8. at.offset + Len(h.new) - h.count \in Int
    BY <1>1
  <2> QED
    BY <2>1, <2>7, <2>8 DEF Progress
<1> QED
  BY <1>3, <1>4

Advanced(at, h, X, A, e) ==
    /\ Applied(at, h).ok <=> Fits(h, X)
    /\ Fits(h, X) =>
         /\ Applied(at, h).offset = at.offset + Len(h.new) - h.count
         /\ TextOf(Applied(at, h).text)
              = ((A \o SubSeq(X, e + 1, h.start - 1)) \o h.new)
                \o SubSeq(X, h.start + h.count, Len(X))

(* One hunk, applied to a text whose first lines were patched already: A is *)
(* what the first e lines of X have become.                                 *)
LEMMA AppliedStep ==
    ASSUME NEW at \in Progress, NEW h \in HunkRec, NEW X \in Seq(Txt), NEW A \in Seq(Txt),
           NEW e \in 0 .. Len(X), at.ok, TextOf(at.text) = A \o SubSeq(X, e + 1, Len(X)),
           Len(A) = e + at.offset, h.start > e, h.count = Len(h.old), h.count > 0
    PROVE  Advanced(at, h, X, A, e)
<1> SUFFICES /\ Applied(at, h).ok <=> Fits(h, X)
             /\ Fits(h, X) =>
                  /\ Applied(at, h).offset = at.offset + Len(h.new) - h.count
                  /\ TextOf(Applied(at, h).text)
                       = ((A \o SubSeq(X, e + 1, h.start - 1)) \o h.new)
                         \o SubSeq(X, h.start + h.count, Len(X))
  BY DEF Advanced
<1> DEFINE T     == at.text
           U     == TextOf(T)
           s     == h.start
           c     == h.count
           o     == at.offset
           n     == Len(T)
           x     == Len(X)
           start == s - 1 + o
           stop  == IF start + c > n THEN n ELSE start + c
<1>1. /\ T \in Seq(Line) /\ n \in Nat /\ o \in Int /\ x \in Nat /\ Len(A) \in Nat
      /\ s \in Nat /\ c \in Nat /\ h.new \in Seq(Txt) /\ Len(h.new) \in Nat
      /\ h.old \in Seq(Txt) /\ DOMAIN h.old = 1 .. Len(h.old) /\ e \in Nat
  BY DEF Progress, HunkRec
<1>2. U \in Seq(Txt) /\ Len(U) = n
  BY <1>1, TextOfType
<1>3. U = A \o SubSeq(X, e + 1, x)
  OBVIOUS
<1>4. n = x + o /\ Len(A) - e = o
  <2>1. Len(U) = x + (Len(A) - e)
    BY <1>3, Replaced
  <2>2. Len(A) - e = o
    BY <1>1
  <2> QED
    BY <1>2, <2>1, <2>2
<1>5. s > e /\ c > 0 /\ c = Len(h.old) /\ e <= x /\ e + o >= 0
  BY <1>1
<1>6. Applied(at, h) =
        IF start \in 0 .. n /\ TextOf(SubSeq(T, start + 1, stop)) = h.old
        THEN [ok |-> TRUE, offset |-> o + Len(h.new) - c,
              text |-> SubSeq(T, 1, start) \o Terminated(h.new) \o SubSeq(T, stop + 1, n)]
        ELSE [at EXCEPT !.ok = FALSE]
  BY DEF Applied
<1>7. Fits(h, X) <=> s + c - 1 <= x /\ \A i \in DOMAIN h.old : X[s + i - 1] = h.old[i]
  BY DEF Fits
<1>8. [at EXCEPT !.ok = FALSE].ok = FALSE
  BY DEF Progress
<1>9. /\ s \in Int /\ c \in Int /\ o \in Int /\ n \in Int /\ x \in Int /\ e \in Int
      /\ start = s - 1 + o
      /\ start + c > n => stop = n
      /\ ~(start + c > n) => stop = start + c
  BY <1>1
<1> HIDE DEF T, U, s, c, o, n, x, start, stop
<1>10. CASE s - 1 > x
  <2>1. ~Fits(h, X)
    BY <1>5, <1>7, <1>9, <1>10
  <2>2. start \notin 0 .. n
    BY <1>4, <1>9, <1>10
  <2> QED
    BY <1>6, <1>8, <2>1, <2>2
<1>11. CASE s - 1 <= x /\ s + c - 1 > x
  <2>1. ~Fits(h, X)
    BY <1>7, <1>9, <1>11
  <2>2. start \in Int /\ stop = n /\ start >= 0 /\ start <= n /\ n - start < c
    <3>1. n = x + o /\ s > e /\ c > 0 /\ e <= x /\ e + o >= 0
      BY <1>4, <1>5
    <3>2. start \in Int /\ start >= 0
      BY <1>9, <3>1
    <3>3. start <= n /\ n - start < c
      BY <1>9, <1>11, <3>1
    <3>4. start + c > n
      BY <1>9, <3>2, <3>3
    <3> QED
      BY <1>9, <3>2, <3>3, <3>4
  <2>3. start + 1 \in 1 .. n + 1 /\ stop \in (start + 1) - 1 .. n
    BY <1>9, <2>2
  <2>4. SubSeq(T, start + 1, stop) \in Seq(Line) /\ Len(SubSeq(T, start + 1, stop)) = stop - (start + 1) + 1
    BY <1>1, <2>3, SubSeqIn DEF n
  <2>5. Len(TextOf(SubSeq(T, start + 1, stop))) = stop - (start + 1) + 1
    BY <2>4, TextOfType
  <2>6. TextOf(SubSeq(T, start + 1, stop)) # h.old
    BY <1>5, <1>9, <2>2, <2>5
  <2> QED
    BY <1>6, <1>8, <2>1, <2>6
<1>12. CASE s + c - 1 <= x
  <2> DEFINE a == s - 1
             b == s - 1 + c
  <2>1. /\ a \in e .. x /\ b \in a .. x /\ a \in Nat /\ b \in Nat
        /\ b = a + c /\ a = s - 1 /\ b + 1 = s + c
    BY <1>1, <1>5, <1>9, <1>12
  <2>2. /\ start = a + o /\ stop = b + o
    BY <1>4, <1>9, <1>12
  <2> HIDE DEF a, b
  <2>3. /\ start \in 0 .. n /\ stop \in start .. n
    <3>1. n = x + o /\ s > e /\ c > 0 /\ e <= x /\ e + o >= 0
      BY <1>4, <1>5
    <3>2. start = s - 1 + o /\ stop = s - 1 + c + o
      BY <1>9, <2>1, <2>2
    <3>3. start \in 0 .. n
      BY <1>9, <1>12, <3>1, <3>2
    <3>4. stop \in start .. n
      BY <1>9, <1>12, <3>1, <3>2
    <3> QED
      BY <3>3, <3>4
  <2>4. /\ SubSeq(U, 1, start) = A \o SubSeq(X, e + 1, a)
        /\ SubSeq(U, start + 1, stop) = SubSeq(X, a + 1, b)
        /\ SubSeq(U, stop + 1, n) = SubSeq(X, b + 1, x)
    <3>1. a \in e .. Len(X) /\ b \in a .. Len(X)
      BY <2>1 DEF x
    <3>2. U = A \o SubSeq(X, e + 1, Len(X)) /\ o = Len(A) - e
      BY <1>3, <1>4 DEF x
    <3>3. /\ SubSeq(U, 1, a + o) = A \o SubSeq(X, e + 1, a)
          /\ SubSeq(U, a + o + 1, b + o) = SubSeq(X, a + 1, b)
          /\ SubSeq(U, b + o + 1, Len(U)) = SubSeq(X, b + 1, Len(X))
      <4>1. U = A \o SubSeq(X, e + 1, Len(X))
        BY <3>2
      <4>2. o = Len(A) - e
        BY <3>2
      <4>3. Spliced(A, X, e, a, b, U, o)
        BY <3>1, <4>1, <4>2, Splice
      <4> QED
        BY <4>3 DEF Spliced
    <3> QED
      BY <1>2, <2>2, <3>3 DEF x
  <2> DEFINE L == SubSeq(T, 1, start)
             Q == SubSeq(T, start + 1, stop)
             M == Terminated(h.new)
             R == SubSeq(T, stop + 1, n)
  <2>5. /\ L \in Seq(Line) /\ TextOf(L) = SubSeq(U, 1, start)
        /\ Q \in Seq(Line) /\ TextOf(Q) = SubSeq(U, start + 1, stop)
        /\ R \in Seq(Line) /\ TextOf(R) = SubSeq(U, stop + 1, n)
    <3>1. start \in 1 - 1 .. n /\ 1 \in 1 .. n + 1
      BY <1>1, <2>3
    <3>2. start + 1 \in 1 .. n + 1 /\ stop \in (start + 1) - 1 .. n
      BY <1>1, <2>3
    <3>3. stop + 1 \in 1 .. n + 1 /\ n \in (stop + 1) - 1 .. n
      BY <1>1, <2>3
    <3>4. L \in Seq(Line) /\ TextOf(L) = SubSeq(U, 1, start)
      BY <1>1, <3>1, SubSeqIn, TextOfSub DEF U, n
    <3>5. Q \in Seq(Line) /\ TextOf(Q) = SubSeq(U, start + 1, stop)
      BY <1>1, <3>2, SubSeqIn, TextOfSub DEF U, n
    <3>6. R \in Seq(Line) /\ TextOf(R) = SubSeq(U, stop + 1, n)
      BY <1>1, <3>3, SubSeqIn, TextOfSub DEF U, n
    <3> QED
      BY <3>4, <3>5, <3>6
  <2>6. TextOf(Q) = h.old <=> Fits(h, X)
    <3> DEFINE O == SubSeq(X, a + 1, b)
    <3>1. O \in Seq(Txt) /\ Len(O) = c /\ \A i \in 1 .. c : O[i] = X[a + i]
      <4>1. a + 1 \in 1 .. Len(X) + 1 /\ b \in (a + 1) - 1 .. Len(X)
        BY <1>1, <2>1 DEF x
      <4>2. /\ O \in Seq(Txt) /\ Len(O) = b - (a + 1) + 1
            /\ \A i \in 1 .. b - (a + 1) + 1 : O[i] = X[(a + 1) + i - 1]
        BY <4>1, SubSeqIn
      <4> HIDE DEF O
      <4>3. b - (a + 1) + 1 = c /\ \A i \in 1 .. c : (a + 1) + i - 1 = a + i
        BY <1>1, <2>1
      <4> QED
        BY <4>2, <4>3
    <3> HIDE DEF O
    <3>2. DOMAIN h.old = 1 .. c /\ Len(O) = Len(h.old)
      BY <1>1, <1>5, <3>1
    <3>3. O = h.old <=> \A i \in 1 .. c : O[i] = h.old[i]
      BY <1>1, <3>1, <3>2, SeqEqual
    <3>4. \A i \in 1 .. c : a + i = s + i - 1
      BY <1>1, <2>1
    <3>5. O = h.old <=> Fits(h, X)
      BY <1>7, <1>12, <3>1, <3>2, <3>3, <3>4
    <3>6. TextOf(Q) = O
      BY <2>4, <2>5 DEF O
    <3> QED
      BY <3>5, <3>6
  <2>7. CASE ~Fits(h, X)
    BY <1>6, <1>8, <2>6, <2>7
  <2>8. CASE Fits(h, X)
    <3>1. Applied(at, h) = [ok |-> TRUE, offset |-> o + Len(h.new) - c, text |-> L \o M \o R]
      BY <1>6, <2>3, <2>6, <2>8
    <3>2. M \in Seq(Line) /\ TextOf(M) = h.new
      BY <1>1, TerminatedText
    <3>3. TextOf(L) = A \o SubSeq(X, e + 1, a) /\ TextOf(R) = SubSeq(X, b + 1, x)
      BY <2>4, <2>5
    <3>4. L \in Seq(Line) /\ R \in Seq(Line)
      BY <2>5
    <3> HIDE DEF L, M, R
    <3>5. L \o M \in Seq(Line) /\ TextOf(L \o M) = TextOf(L) \o TextOf(M)
      BY <3>2, <3>4, ConcatProperties, TextOfConcat
    <3>6. TextOf((L \o M) \o R) = TextOf(L \o M) \o TextOf(R)
      BY <3>4, <3>5, TextOfConcat
    <3>7. TextOf((L \o M) \o R)
            = ((A \o SubSeq(X, e + 1, s - 1)) \o h.new) \o SubSeq(X, s + c, x)
      BY <2>1, <3>2, <3>3, <3>5, <3>6
    <3>8. Applied(at, h).text = (L \o M) \o R /\ Applied(at, h).offset = o + Len(h.new) - c /\ Applied(at, h).ok
      BY <3>1
    <3> QED
      BY <2>8, <3>7, <3>8 DEF s, c, o, x
  <2> QED
    BY <2>7, <2>8
<1>13. s - 1 > x \/ (s - 1 <= x /\ s + c - 1 > x) \/ s + c - 1 <= x
  BY <1>9
<1> QED
  BY <1>10, <1>11, <1>12, <1>13

HunkSeq  == Seq(HunkRec)
FileText == Seq(Line)

(* The texts as the hunks are applied one after the other.                  *)
LEMMA DryRunSteps ==
    ASSUME NEW text \in FileText, NEW hunks \in HunkSeq
    PROVE  \E at \in [0 .. Len(hunks) -> Progress] :
             /\ at[0] = [ok |-> TRUE, offset |-> 0, text |-> text]
             /\ \A i \in 1 .. Len(hunks) : at[i] = Applied(at[i - 1], hunks[i])
             /\ DryRun(text, hunks) =
                  IF at[Len(hunks)].ok /\ \A n \in DOMAIN hunks : ~hunks[n].marker
                  THEN {at[Len(hunks)].text} ELSE {}
<1> DEFINE S == Progress
           m == Len(hunks)
           base == [ok |-> TRUE, offset |-> 0, text |-> text]
           Then(x, i) == Applied(x, hunks[i])
           step == [i \in 1 .. m |-> [x \in S |-> Then(x, i)]]
           Eq(f) == f = [n \in 0 .. m |-> IF n = 0 THEN base ELSE Then(f[n - 1], n)]
           ts == CHOOSE f : Eq(f)
<1>1. base \in S /\ m \in Nat
  BY DEF Progress, HunkSeq, FileText
<1>2. \A i \in 1 .. m, x \in S : Then(x, i) \in S
  <2> SUFFICES ASSUME NEW i \in 1 .. m, NEW x \in S PROVE Then(x, i) \in S
    OBVIOUS
  <2>1. hunks[i] \in HunkRec
    BY ElementOfSeq DEF HunkSeq
  <2> QED
    BY <2>1, AppliedType
<1> HIDE DEF S, Then
<1>3. step \in [1 .. m -> [S -> S]]
  BY <1>2
<1>4. \A i \in 1 .. m, x \in S : step[i][x] = Then(x, i)
  OBVIOUS
<1> HIDE DEF step, m, base
<1>5. \E f : Iterates(f, S, base, m, step)
  BY <1>1, <1>3, Recursion
<1>6. PICK f \in [0 .. m -> S] : f[0] = base /\ \A i \in 1 .. m : f[i] = step[i][f[i - 1]]
  BY <1>5 DEF Iterates
<1>7. \A i \in 1 .. m : f[i] = Then(f[i - 1], i)
  BY <1>1, <1>4, <1>6
<1>8. Eq(f)
  BY <1>1, <1>6, <1>7
<1>9. Eq(ts)
  BY <1>8, Zenon
<1>10. DryRun(text, hunks) =
         IF ts[m].ok /\ \A n \in DOMAIN hunks : ~hunks[n].marker THEN {ts[m].text} ELSE {}
  BY DEF DryRun, Then, m, base
<1> HIDE DEF ts
<1>11. \A i \in 0 .. m : ts[i] = f[i]
  <2>1. ts[0] = f[0] /\ \A i \in 1 .. m : ts[i] = Then(ts[i - 1], i)
    BY <1>1, <1>6, <1>9
  <2>2. \A i \in 1 .. m : ts[i - 1] = f[i - 1] => ts[i] = f[i]
    BY <1>7, <2>1
  <2> DEFINE N == {n \in 0 .. m : ts[n] = f[n]}
  <2>3. 0 \in N /\ \A n \in 1 .. m : n - 1 \in N => n \in N
    BY <1>1, <2>1, <2>2
  <2>4. 0 .. m \subseteq N
    <3> HIDE DEF N
    <3> QED
      BY <1>1, <2>3, Induction
  <2> QED
    BY <2>4
<1>12. ts[m] = f[m]
  BY <1>1, <1>11
<1>13. f \in [0 .. Len(hunks) -> Progress] /\ f[0] = [ok |-> TRUE, offset |-> 0, text |-> text]
  BY <1>6 DEF S, m, base
<1>14. \A i \in 1 .. Len(hunks) : f[i] = Applied(f[i - 1], hunks[i])
  BY <1>7 DEF m, Then
<1>15. DryRun(text, hunks) =
         IF f[Len(hunks)].ok /\ \A n \in DOMAIN hunks : ~hunks[n].marker THEN {f[Len(hunks)].text} ELSE {}
  BY <1>10, <1>12 DEF m
<1> QED
  BY <1>13, <1>14, <1>15

(* Hunks that follow each other do not meet.                                *)
LEMMA HunkFields ==
    ASSUME NEW hunks \in HunkSeq, Regular(hunks)
    PROVE  /\ Len(hunks) \in Nat /\ DOMAIN hunks = 1 .. Len(hunks)
           /\ \A n \in 1 .. Len(hunks) :
                /\ hunks[n] \in HunkRec
                /\ hunks[n].start \in Nat /\ hunks[n].count \in Nat /\ hunks[n].new \in Seq(Txt)
                /\ hunks[n].start > 0 /\ hunks[n].count > 0 /\ hunks[n].count = Len(hunks[n].old)
<1>1. Len(hunks) \in Nat /\ DOMAIN hunks = 1 .. Len(hunks) /\ \A n \in 1 .. Len(hunks) : hunks[n] \in HunkRec
  BY ElementOfSeq, LenProperties DEF HunkSeq
<1>2. ASSUME NEW n \in 1 .. Len(hunks)
      PROVE  /\ hunks[n].start \in Nat /\ hunks[n].count \in Nat /\ hunks[n].new \in Seq(Txt)
             /\ hunks[n].start > 0 /\ hunks[n].count > 0 /\ hunks[n].count = Len(hunks[n].old)
  <2>1. /\ hunks[n].start \in Nat /\ hunks[n].count \in Nat /\ hunks[n].new \in Seq(Txt)
        /\ hunks[n].old \in Seq(Txt)
    BY <1>1 DEF HunkRec
  <2>2. hunks[n].start > 0 /\ hunks[n].old # <<>> /\ hunks[n].count = Len(hunks[n].old)
    BY <1>1 DEF Regular
  <2>3. Len(hunks[n].old) \in Nat \ {0}
    BY <2>1, <2>2, EmptySeq
  <2> QED
    BY <2>1, <2>2, <2>3
<1> QED
  BY <1>1, <1>2

LEMMA HunkOrder ==
    ASSUME NEW hunks \in HunkSeq, Regular(hunks), NEW n \in 1 .. Len(hunks), NEW k \in n + 1 .. Len(hunks)
    PROVE  hunks[n].start + hunks[n].count <= hunks[k].start
<1> DEFINE m == Len(hunks)
           s(i) == hunks[i].start
           c(i) == hunks[i].count
           N == {i \in 0 .. m : i > n => s(n) + c(n) <= s(i)}
<1>1. m \in Nat /\ \A i \in 1 .. m : s(i) \in Nat /\ c(i) \in Nat
  BY HunkFields
<1>2. \A i \in 1 .. m - 1 : s(i) + c(i) <= s(i + 1)
  BY DEF Regular
<1> HIDE DEF m, s, c
<1>3. n \in 1 .. m /\ k \in n + 1 .. m
  BY DEF m
<1>4. 0 \in N
  BY <1>1, <1>3
<1>5. \A i \in 1 .. m : i - 1 \in N => i \in N
  <2> SUFFICES ASSUME NEW i \in 1 .. m, i - 1 \in N, i > n PROVE s(n) + c(n) <= s(i)
    BY <1>1
  <2>1. i - 1 \in 1 .. m - 1 /\ i - 1 + 1 = i /\ i - 1 \in 1 .. m
    BY <1>1, <1>3
  <2>2. s(i - 1) + c(i - 1) <= s(i)
    BY <1>2, <2>1
  <2>3. s(i - 1) \in Nat /\ c(i - 1) \in Nat /\ s(i) \in Nat /\ s(n) \in Nat /\ c(n) \in Nat
    BY <1>1, <1>3, <2>1
  <2>4. CASE i - 1 = n
    BY <2>2, <2>4
  <2>5. CASE i - 1 > n
    <3>1. s(n) + c(n) <= s(i - 1)
      BY <2>5
    <3> QED
      BY <2>2, <2>3, <3>1
  <2> QED
    BY <1>3, <2>4, <2>5
<1>6. 0 .. m \subseteq N
  <2> HIDE DEF N
  <2> QED
    BY <1>1, <1>4, <1>5, Induction
<1>7. k \in N /\ k > n
  BY <1>1, <1>3, <1>6
<1>8. s(n) + c(n) <= s(k)
  BY <1>7
<1> QED
  BY <1>8 DEF s, c

(* What each line of a file becomes under regular hunks.                    *)
PieceOf(hunks, text) ==
    [j \in DOMAIN text |->
        IF \E n \in DOMAIN hunks : j = hunks[n].start
        THEN hunks[CHOOSE n \in DOMAIN hunks : j = hunks[n].start].new
        ELSE IF \E n \in DOMAIN hunks :
                    j \in hunks[n].start .. hunks[n].start + hunks[n].count - 1
             THEN <<>> ELSE <<text[j].t>>]

Covered(hunks, j) ==
    \E n \in DOMAIN hunks : j \in hunks[n].start .. hunks[n].start + hunks[n].count - 1

LEMMA PieceFacts ==
    ASSUME NEW hunks \in HunkSeq, Regular(hunks), NEW text \in FileText
    PROVE  /\ PieceOf(hunks, text) \in Pieces /\ Len(PieceOf(hunks, text)) = Len(text)
           /\ \A n \in 1 .. Len(hunks) : hunks[n].start <= Len(text) =>
                PieceOf(hunks, text)[hunks[n].start] = hunks[n].new
           /\ \A n \in 1 .. Len(hunks) :
                \A j \in hunks[n].start + 1 .. hunks[n].start + hunks[n].count - 1 :
                   j <= Len(text) => PieceOf(hunks, text)[j] = <<>>
           /\ \A j \in 1 .. Len(text) : ~Covered(hunks, j) => PieceOf(hunks, text)[j] = <<text[j].t>>
<1> DEFINE P == PieceOf(hunks, text)
           m == Len(hunks)
           x == Len(text)
           s(i) == hunks[i].start
           c(i) == hunks[i].count
<1>1. x \in Nat /\ DOMAIN text = 1 .. x /\ \A j \in 1 .. x : text[j].t \in Txt
  <2>1. \A j \in 1 .. x : text[j] \in Line
    BY ElementOfSeq DEF FileText
  <2> QED
    BY <2>1, LenProperties DEF FileText, Line
<1>2. /\ m \in Nat /\ DOMAIN hunks = 1 .. m
      /\ \A i \in 1 .. m : /\ s(i) \in Nat /\ c(i) \in Nat /\ s(i) > 0 /\ c(i) > 0
                           /\ hunks[i].new \in Seq(Txt)
  BY HunkFields
<1>3. \A n \in 1 .. m : \A k \in n + 1 .. m : s(n) + c(n) <= s(k)
  BY HunkOrder
<1>4. P = [j \in 1 .. x |->
             IF \E n \in 1 .. m : j = s(n) THEN hunks[CHOOSE n \in 1 .. m : j = s(n)].new
             ELSE IF \E n \in 1 .. m : j \in s(n) .. s(n) + c(n) - 1
                  THEN <<>> ELSE <<text[j].t>>]
  BY <1>1, <1>2, Zenon DEF PieceOf
<1>5. \A j : Covered(hunks, j) <=> \E n \in 1 .. m : j \in s(n) .. s(n) + c(n) - 1
  BY <1>2 DEF Covered
<1> HIDE DEF P, m, x, s, c
<1>6. ASSUME NEW n \in 1 .. m, NEW k \in 1 .. m, s(n) = s(k)
      PROVE  n = k
  <2>1. s(n) \in Nat /\ s(k) \in Nat /\ c(n) \in Nat /\ c(k) \in Nat /\ c(n) > 0 /\ c(k) > 0
    BY <1>2
  <2>2. CASE n < k
    <3>1. k \in n + 1 .. m
      BY <1>2, <2>2
    <3> QED
      BY <1>3, <1>6, <2>1, <3>1
  <2>3. CASE k < n
    <3>1. n \in k + 1 .. m
      BY <1>2, <2>3
    <3> QED
      BY <1>3, <1>6, <2>1, <3>1
  <2> QED
    BY <1>2, <2>2, <2>3
<1>7. ASSUME NEW n \in 1 .. m, s(n) <= x
      PROVE  P[s(n)] = hunks[n].new
  <2> DEFINE k == CHOOSE k \in 1 .. m : s(n) = s(k)
  <2>1. s(n) \in 1 .. x
    BY <1>1, <1>2, <1>7
  <2>2. k \in 1 .. m /\ s(n) = s(k)
    BY Zenon
  <2>3. P[s(n)] = hunks[k].new
    BY <1>4, <2>1
  <2> HIDE DEF k
  <2>4. k = n
    BY <1>6, <2>2
  <2> QED
    BY <2>3, <2>4
<1>8. ASSUME NEW n \in 1 .. m, NEW j \in s(n) + 1 .. s(n) + c(n) - 1, j <= x
      PROVE  P[j] = <<>>
  <2>1. s(n) \in Nat /\ c(n) \in Nat
    BY <1>2
  <2>2. j \in 1 .. x /\ j \in s(n) .. s(n) + c(n) - 1 /\ j > s(n) /\ j < s(n) + c(n)
    BY <1>1, <1>8, <2>1
  <2>3. ASSUME NEW k \in 1 .. m
        PROVE  j # s(k)
    <3>1. s(k) \in Nat /\ c(k) \in Nat
      BY <1>2
    <3>2. CASE k = n
      BY <2>2, <3>2
    <3>3. CASE k < n
      <4>1. n \in k + 1 .. m
        BY <1>2, <3>3
      <4>2. s(k) + c(k) <= s(n)
        BY <1>3, <4>1
      <4> QED
        BY <2>1, <2>2, <3>1, <4>2
    <3>4. CASE k > n
      <4>1. k \in n + 1 .. m
        BY <1>2, <3>4
      <4>2. s(n) + c(n) <= s(k)
        BY <1>3, <4>1
      <4> QED
        BY <2>1, <2>2, <3>1, <4>2
    <3> QED
      BY <1>2, <3>2, <3>3, <3>4
  <2> QED
    BY <1>4, <2>2, <2>3
<1>9. ASSUME NEW j \in 1 .. x, ~Covered(hunks, j)
      PROVE  P[j] = <<text[j].t>>
  <2>1. ASSUME NEW n \in 1 .. m
        PROVE  j # s(n)
    <3>1. s(n) \in s(n) .. s(n) + c(n) - 1
      BY <1>2
    <3> QED
      BY <1>5, <1>9, <3>1
  <2>2. ~ \E n \in 1 .. m : j \in s(n) .. s(n) + c(n) - 1
    BY <1>5, <1>9
  <2> QED
    BY <1>4, <2>1, <2>2
<1>10. P \in Seq(Seq(Txt)) /\ Len(P) = x
  <2>1. ASSUME NEW j \in 1 .. x
        PROVE  P[j] \in Seq(Txt)
    <3>1. CASE \E n \in 1 .. m : j = s(n)
      <4>1. PICK n \in 1 .. m : j = s(n)
        BY <3>1
      <4>2. P[j] = hunks[n].new
        BY <1>1, <1>7, <4>1
      <4> QED
        BY <1>2, <4>2
    <3>2. CASE ~ \E n \in 1 .. m : j = s(n)
      <4>1. P[j] = <<>> \/ P[j] = <<text[j].t>>
        BY <1>4, <3>2
      <4>2. text[j].t \in Txt
        BY <1>1
      <4>3. <<>> \in Seq(Txt) /\ <<text[j].t>> \in Seq(Txt)
        BY <4>2
      <4> QED
        BY <4>1, <4>3
    <3> QED
      BY <3>1, <3>2
  <2>2. P \in [1 .. x -> Seq(Txt)]
    BY <1>4, <2>1
  <2> DEFINE V == Seq(Txt)
  <2>3. P \in [1 .. x -> V]
    BY <2>2
  <2> HIDE DEF V
  <2>4. P \in Seq(V) /\ Len(P) = x
    BY <1>1, <2>3
  <2> QED
    BY <2>4 DEF V
<1> QED
  BY <1>7, <1>8, <1>9, <1>10 DEF P, m, x, s, c, Pieces

(* Flattening over lines that are kept, and over lines that are taken away. *)
Flattens(F, P) ==
    /\ P \in Pieces /\ F \in [0 .. Len(P) -> Seq(Txt)]
    /\ F[0] = <<>> /\ \A i \in 1 .. Len(P) : F[i] = F[i - 1] \o P[i]

LEMMA Reassociate ==
    ASSUME NEW u \in Seq(Txt), NEW v \in Seq(Txt), NEW w \in Seq(Txt)
    PROVE  (u \o v) \o w = u \o (v \o w)
BY ConcatAssociative

LEMMA FlattenKept ==
    ASSUME NEW F, NEW P, Flattens(F, P), NEW X \in Seq(Txt), Len(X) = Len(P),
           NEW a \in 0 .. Len(X), NEW b \in a .. Len(X), \A j \in a + 1 .. b : P[j] = <<X[j]>>
    PROVE  F[b] = F[a] \o SubSeq(X, a + 1, b)
<1> DEFINE Sub(n) == SubSeq(X, a + 1, n)
           N == {n \in 0 .. b : n >= a => F[n] = F[a] \o Sub(n)}
<1>1. Len(X) \in Nat /\ a \in Nat /\ b \in Nat /\ a <= b /\ b <= Len(X)
  OBVIOUS
<1>2. F[a] \in Seq(Txt)
  BY <1>1 DEF Flattens
<1>3. \A n \in 1 .. Len(X) : F[n] = F[n - 1] \o P[n]
  BY DEF Flattens
<1>4. Sub(a) = <<>>
  BY <1>1, SubSeqEmpty
<1>5. \A n \in a + 1 .. b : Sub(n) = Sub(n - 1) \o <<X[n]>> /\ Sub(n - 1) \in Seq(Txt) /\ <<X[n]>> \in Seq(Txt)
  <2>1. SUFFICES ASSUME NEW n \in a + 1 .. b
                 PROVE  Sub(n) = Sub(n - 1) \o <<X[n]>> /\ Sub(n - 1) \in Seq(Txt) /\ <<X[n]>> \in Seq(Txt)
    OBVIOUS
  <2>2. a + 1 \in 1 .. Len(X) /\ n \in a + 1 .. Len(X) /\ n \in 1 .. Len(X)
    BY <1>1
  <2>3. Sub(n) = Sub(n - 1) \o <<X[n]>>
    BY <2>2, SubSeqRecursiveSecond
  <2>4. a + 1 \in 1 .. Len(X) + 1 /\ n - 1 \in (a + 1) - 1 .. Len(X)
    BY <1>1
  <2>5. Sub(n - 1) \in Seq(Txt)
    BY <2>4, SubSeqIn
  <2>6. X[n] \in Txt
    BY <2>2, ElementOfSeq
  <2> QED
    BY <2>3, <2>5, <2>6
<1> HIDE DEF Sub
<1>6. 0 \in N
  <2>1. 0 >= a => F[0] = F[a] \o Sub(0)
    BY <1>1, <1>2, <1>4, ConcatEmptySeq
  <2> QED
    BY <1>1, <2>1
<1>7. ASSUME NEW n \in 1 .. b, n - 1 \in N
      PROVE  n \in N
  <2>1. n \in 0 .. b /\ n \in 1 .. Len(X)
    BY <1>1
  <2>2. CASE n < a
    BY <1>1, <2>1, <2>2
  <2>3. CASE n = a
    BY <1>2, <1>4, <2>1, <2>3, ConcatEmptySeq
  <2>4. CASE n > a
    <3>1. n \in a + 1 .. b /\ n - 1 >= a
      BY <1>1, <2>4
    <3>2. F[n - 1] = F[a] \o Sub(n - 1)
      BY <1>7, <3>1
    <3>3. F[n] = F[n - 1] \o <<X[n]>>
      BY <1>3, <2>1, <3>1
    <3>4. Sub(n) = Sub(n - 1) \o <<X[n]>> /\ Sub(n - 1) \in Seq(Txt) /\ <<X[n]>> \in Seq(Txt)
      BY <1>5, <3>1
    <3>5. (F[a] \o Sub(n - 1)) \o <<X[n]>> = F[a] \o (Sub(n - 1) \o <<X[n]>>)
      <4> DEFINE u == F[a]
                 v == Sub(n - 1)
                 w == <<X[n]>>
      <4>1. u \in Seq(Txt) /\ v \in Seq(Txt) /\ w \in Seq(Txt)
        BY <1>2, <3>4
      <4> HIDE DEF u, v, w
      <4>2. (u \o v) \o w = u \o (v \o w)
        BY <4>1, Reassociate
      <4> QED
        BY <4>2 DEF u, v, w
    <3> QED
      BY <2>1, <3>2, <3>3, <3>4, <3>5
  <2> QED
    BY <1>1, <2>2, <2>3, <2>4
<1>8. 0 .. b \subseteq N
  <2> HIDE DEF N
  <2> QED
    BY <1>1, <1>6, <1>7, Induction
<1>9. b \in N
  BY <1>1, <1>8
<1> QED
  BY <1>1, <1>9 DEF Sub

LEMMA FlattenGone ==
    ASSUME NEW F, NEW P, Flattens(F, P),
           NEW a \in 0 .. Len(P), NEW b \in a .. Len(P), \A j \in a + 1 .. b : P[j] = <<>>
    PROVE  F[b] = F[a]
<1> DEFINE N == {n \in 0 .. b : n >= a => F[n] = F[a]}
<1>1. Len(P) \in Nat /\ a \in Nat /\ b \in Nat /\ a <= b /\ b <= Len(P)
  BY DEF Flattens, Pieces
<1>2. \A n \in 0 .. Len(P) : F[n] \in Seq(Txt)
  BY <1>1 DEF Flattens
<1>3. \A n \in 1 .. Len(P) : F[n] = F[n - 1] \o P[n]
  BY DEF Flattens
<1>4. 0 \in N
  BY <1>1
<1>5. ASSUME NEW n \in 1 .. b, n - 1 \in N
      PROVE  n \in N
  <2>1. n \in 0 .. b /\ n \in 1 .. Len(P) /\ n - 1 \in 0 .. Len(P)
    BY <1>1
  <2>2. CASE n <= a
    BY <1>1, <2>1, <2>2
  <2>3. CASE n > a
    <3>1. n \in a + 1 .. b /\ n - 1 >= a
      BY <1>1, <2>3
    <3>2. F[n - 1] = F[a]
      BY <1>5, <3>1
    <3>3. F[n] = F[n - 1] \o <<>>
      BY <1>3, <2>1, <3>1
    <3>4. F[n - 1] \in Seq(Txt)
      BY <1>2, <2>1
    <3>5. F[n - 1] \o <<>> = F[n - 1]
      BY <3>4, ConcatEmptySeq
    <3> QED
      BY <2>1, <3>2, <3>3, <3>5
  <2> QED
    BY <1>1, <2>2, <2>3
<1>6. 0 .. b \subseteq N
  <2> HIDE DEF N
  <2> QED
    BY <1>1, <1>4, <1>5, Induction
<1>7. b \in N
  BY <1>1, <1>6
<1> QED
  BY <1>1, <1>7

(* The last line of a file that the first n hunks are about.                *)
EndOf(hunks, n) == IF n = 0 THEN 0 ELSE hunks[n].start + hunks[n].count - 1

LEMMA Uncovered ==
    ASSUME NEW hunks \in HunkSeq, Regular(hunks), NEW n \in 1 .. Len(hunks), NEW j \in Nat,
           EndOf(hunks, n - 1) < j, j < hunks[n].start
    PROVE  ~Covered(hunks, j)
<1> DEFINE m == Len(hunks)
           s(i) == hunks[i].start
           c(i) == hunks[i].count
<1>1. m \in Nat /\ DOMAIN hunks = 1 .. m /\ \A i \in 1 .. m : s(i) \in Nat /\ c(i) \in Nat
  BY HunkFields
<1>2. \A i \in 1 .. m : \A k \in i + 1 .. m : s(i) + c(i) <= s(k)
  BY HunkOrder
<1>3. n # 1 => s(n - 1) + c(n - 1) - 1 < j
  BY DEF EndOf
<1>4. j < s(n) /\ n \in 1 .. m
  OBVIOUS
<1> HIDE DEF m, s, c
<1>5. ASSUME NEW k \in 1 .. m, j \in s(k) .. s(k) + c(k) - 1
      PROVE  FALSE
  <2>1. k \in Nat /\ n \in Nat /\ s(k) \in Nat /\ c(k) \in Nat /\ s(n) \in Nat /\ s(k) <= j /\ j < s(k) + c(k)
    BY <1>1, <1>4, <1>5
  <2>2. CASE k >= n
    <3>1. s(n) <= s(k)
      <4>1. CASE k = n
        BY <2>1, <4>1
      <4>2. CASE k > n
        <5>1. k \in n + 1 .. m
          BY <1>1, <2>1, <4>2
        <5>2. s(n) + c(n) <= s(k) /\ c(n) \in Nat
          BY <1>1, <1>2, <1>4, <5>1
        <5> QED
          BY <2>1, <5>2
      <4> QED
        BY <2>1, <2>2, <4>1, <4>2
    <3> QED
      BY <1>4, <2>1, <3>1
  <2>3. CASE k < n
    <3> DEFINE p == n - 1
    <3>1. p \in 1 .. m /\ n # 1 /\ k <= p /\ p \in Nat
      BY <1>1, <1>4, <2>1, <2>3
    <3>2. s(p) + c(p) - 1 < j /\ s(p) \in Nat /\ c(p) \in Nat
      BY <1>1, <1>3, <3>1
    <3> HIDE DEF p
    <3>3. s(k) + c(k) <= s(p) + c(p)
      <4>1. CASE k = p
        BY <2>1, <4>1
      <4>2. CASE k < p
        <5>1. p \in k + 1 .. m
          BY <1>1, <2>1, <3>1, <4>2
        <5>2. s(k) + c(k) <= s(p)
          BY <1>2, <5>1
        <5> QED
          BY <2>1, <3>2, <5>2
      <4> QED
        BY <2>1, <3>1, <4>1, <4>2
    <3> QED
      BY <2>1, <3>2, <3>3
  <2> QED
    BY <2>1, <2>2, <2>3
<1> QED
  BY <1>1, <1>5 DEF Covered, m, s, c

(* After n hunks: the text is what the diff makes of the lines that these   *)
(* hunks are about, followed by the lines they have not reached.            *)
Patched(F, X, hunks, n, at) ==
    /\ at.ok <=> \A k \in 1 .. n : Fits(hunks[k], X)
    /\ at.ok => /\ EndOf(hunks, n) \in 0 .. Len(X)
                /\ TextOf(at.text) = F[EndOf(hunks, n)] \o SubSeq(X, EndOf(hunks, n) + 1, Len(X))
                /\ Len(F[EndOf(hunks, n)]) = EndOf(hunks, n) + at.offset

LEMMA NextHunk ==
    ASSUME NEW hunks \in HunkSeq, Regular(hunks), NEW text \in FileText,
           NEW F, Flattens(F, PieceOf(hunks, text)), NEW n \in 1 .. Len(hunks),
           NEW at \in Progress, Patched(F, TextOf(text), hunks, n - 1, at)
    PROVE  Patched(F, TextOf(text), hunks, n, Applied(at, hunks[n]))
<1> DEFINE X   == TextOf(text)
           P   == PieceOf(hunks, text)
           h   == hunks[n]
           e   == EndOf(hunks, n - 1)
           new == Applied(at, h)
           x   == Len(X)
           s   == h.start
           c   == h.count
           b   == EndOf(hunks, n)
           o   == at.offset
<1>1. /\ X \in Seq(Txt) /\ Len(X) = Len(text) /\ x \in Nat
      /\ \A j \in 1 .. x : X[j] = text[j].t
  <2>1. X \in Seq(Txt) /\ Len(X) = Len(text) /\ \A j \in 1 .. Len(text) : X[j] = text[j].t
    BY TextOfType DEF FileText
  <2> HIDE DEF X
  <2> QED
    BY <2>1
<1>2. /\ h \in HunkRec /\ s \in Nat /\ c \in Nat /\ h.new \in Seq(Txt) /\ Len(h.new) \in Nat
      /\ s > 0 /\ c > 0 /\ c = Len(h.old)
  BY HunkFields
<1>3. s > e
  <2>1. CASE n = 1
    BY <1>2, <2>1 DEF EndOf
  <2>2. CASE n # 1
    <3> DEFINE p == n - 1
    <3>1. p \in 1 .. Len(hunks) /\ n \in p + 1 .. Len(hunks) /\ p # 0
      BY <2>2, HunkFields
    <3>2. hunks[p].start + hunks[p].count <= s /\ hunks[p].start \in Nat /\ hunks[p].count \in Nat
      BY <3>1, HunkFields, HunkOrder
    <3>3. e = hunks[p].start + hunks[p].count - 1
      BY <3>1 DEF EndOf
    <3> HIDE DEF p, e, s
    <3> QED
      BY <1>2, <3>2, <3>3
  <2> QED
    BY <2>1, <2>2
<1>4. b = s + c - 1 /\ b \in Nat /\ b >= s
  <2>1. n # 0
    OBVIOUS
  <2>2. b = s + c - 1
    BY <2>1 DEF EndOf
  <2> HIDE DEF b, s, c
  <2> QED
    BY <1>2, <2>2
<1>5. /\ P \in Pieces /\ Len(P) = x /\ (s <= x => P[s] = h.new)
      /\ \A j \in s + 1 .. s + c - 1 : j <= x => P[j] = <<>>
      /\ \A j \in 1 .. x : ~Covered(hunks, j) => P[j] = <<X[j]>>
  <2>1. /\ P \in Pieces /\ Len(P) = Len(text) /\ (s <= Len(text) => P[s] = h.new)
        /\ \A j \in s + 1 .. s + c - 1 : j <= Len(text) => P[j] = <<>>
        /\ \A j \in 1 .. Len(text) : ~Covered(hunks, j) => P[j] = <<text[j].t>>
    BY PieceFacts
  <2> HIDE DEF P, X, s, c, h
  <2> QED
    BY <1>1, <2>1
<1>6. Flattens(F, P)
  OBVIOUS
<1>7. /\ at.ok <=> \A k \in 1 .. n - 1 : Fits(hunks[k], X)
      /\ at.ok => /\ e \in 0 .. x /\ TextOf(at.text) = F[e] \o SubSeq(X, e + 1, x)
                  /\ Len(F[e]) = e + o
  BY DEF Patched
<1>8. \A k \in 1 .. n : k \in 1 .. n - 1 \/ k = n
  OBVIOUS
<1>9. \A j \in e + 1 .. s - 1 : j \in Nat => ~Covered(hunks, j)
  <2>1. ASSUME NEW j \in Nat, e < j, j < s
        PROVE  ~Covered(hunks, j)
    BY <2>1, Uncovered
  <2>2. e \in Int /\ s \in Nat
    BY <1>2, HunkFields DEF EndOf
  <2> HIDE DEF e, s
  <2> QED
    BY <2>1, <2>2
<1>10. (\A k \in 1 .. n : Fits(hunks[k], X)) <=> (\A k \in 1 .. n - 1 : Fits(hunks[k], X)) /\ Fits(h, X)
  <2>1. n \in 1 .. n /\ \A k \in 1 .. n - 1 : k \in 1 .. n
    OBVIOUS
  <2> HIDE DEF X
  <2> QED
    BY <1>8, <2>1
<1>11. Fits(h, X) => s + c - 1 <= x
  BY DEF Fits
<1>12. CASE ~at.ok
  <2>1. new.ok = FALSE
    BY <1>12 DEF Applied, Progress
  <2> HIDE DEF new, X, h
  <2>2. ~ \A k \in 1 .. n : Fits(hunks[k], X)
    BY <1>7, <1>10, <1>12
  <2> QED
    BY <2>1, <2>2 DEF Patched, new, X, h
<1>13. CASE at.ok
  <2>1. /\ e \in 0 .. x /\ TextOf(at.text) = F[e] \o SubSeq(X, e + 1, x) /\ Len(F[e]) = e + o
        /\ \A k \in 1 .. n - 1 : Fits(hunks[k], X)
    BY <1>7, <1>13
  <2> DEFINE A == F[e]
  <2>2. \A j \in 0 .. x : F[j] \in Seq(Txt)
    <3> HIDE DEF P, x, e
    <3> QED
      BY <1>5, <1>6 DEF Flattens
  <2>3. A \in Seq(Txt) /\ o \in Int
    <3>1. o \in Int
      BY DEF Progress
    <3> HIDE DEF e, x, o
    <3> QED
      BY <2>1, <2>2, <3>1
  <2>4. /\ new.ok <=> Fits(h, X)
        /\ Fits(h, X) =>
             /\ new.offset = o + Len(h.new) - c
             /\ TextOf(new.text) = ((A \o SubSeq(X, e + 1, s - 1)) \o h.new) \o SubSeq(X, s + c, x)
    <3>1. A \in Seq(Txt) /\ TextOf(at.text) = A \o SubSeq(X, e + 1, x) /\ Len(A) = e + o
      BY <2>1, <2>3
    <3>2. /\ h \in HunkRec /\ h.start > e /\ h.count = Len(h.old) /\ h.count > 0
          /\ e \in 0 .. Len(X) /\ X \in Seq(Txt) /\ Len(A) = e + at.offset
          /\ TextOf(at.text) = A \o SubSeq(X, e + 1, Len(X))
      BY <1>1, <1>2, <1>3, <2>1, <3>1
    <3> HIDE DEF A, X, h, e
    <3>3. Advanced(at, h, X, A, e)
      BY <1>13, <3>1, <3>2, AppliedStep
    <3> QED
      BY <3>3 DEF Advanced
  <2> HIDE DEF X, P, h, e, new, x, s, c, b, o
  <2>5. new.ok <=> \A k \in 1 .. n : Fits(hunks[k], X)
    BY <1>10, <2>1, <2>4
  <2>6. ASSUME new.ok
        PROVE  /\ b \in 0 .. x /\ TextOf(new.text) = F[b] \o SubSeq(X, b + 1, x)
               /\ Len(F[b]) = b + new.offset
    <3>1. Fits(h, X) /\ s + c - 1 <= x
      BY <1>11, <2>4, <2>6
    <3> DEFINE a == s - 1
               K == SubSeq(X, e + 1, a)
    <3>2. /\ a \in Nat /\ a \in e .. x /\ e \in Nat /\ b \in Nat /\ b \in s .. x /\ s \in 1 .. x
          /\ s = a + 1 /\ b + 1 = s + c /\ s \in 0 .. x /\ b \in 0 .. x /\ a \in 0 .. x
      <4>1. s \in Nat /\ c \in Nat /\ s > 0 /\ c > 0 /\ x \in Nat
        BY <1>1, <1>2
      <4>2. b = s + c - 1 /\ s > e /\ e \in 0 .. x /\ s + c - 1 <= x
        BY <1>3, <1>4, <2>1, <3>1
      <4> QED
        BY <4>1, <4>2
    <3>3. \A j \in e + 1 .. a : P[j] = <<X[j]>>
      <4>1. \A j \in e + 1 .. a : j \in 1 .. x /\ j \in Nat
        BY <1>1, <3>2
      <4> QED
        BY <1>5, <1>9, <4>1
    <3> HIDE DEF a
    <3>4. F[a] = A \o K
      <4>1. Len(X) = Len(P) /\ e \in 0 .. Len(X) /\ a \in e .. Len(X)
        BY <1>5, <2>1, <3>2 DEF x
      <4> QED
        BY <1>1, <1>6, <3>3, <4>1, FlattenKept
    <3>5. F[s] = F[a] \o h.new
      <4>1. \A i \in 1 .. x : F[i] = F[i - 1] \o P[i]
        BY <1>5, <1>6 DEF Flattens
      <4>2. F[s] = F[s - 1] \o P[s]
        BY <3>2, <4>1
      <4>3. P[s] = h.new /\ s - 1 = a
        BY <1>2, <1>5, <3>2
      <4> QED
        BY <4>2, <4>3
    <3>6. F[b] = F[s]
      <4>1. s \in 0 .. Len(P) /\ b \in s .. Len(P)
        BY <1>5, <3>2
      <4>2. \A j \in s + 1 .. b : j \in s + 1 .. s + c - 1 /\ j <= x
        <5>1. b \in s .. x /\ s \in Nat /\ x \in Nat
          BY <1>1, <3>2
        <5>2. b = s + c - 1
          BY <1>4
        <5> QED
          BY <5>1, <5>2
      <4>3. \A j \in s + 1 .. b : P[j] = <<>>
        BY <1>5, <4>2
      <4> QED
        BY <1>6, <4>1, <4>3, FlattenGone
    <3>7. TextOf(new.text) = F[b] \o SubSeq(X, b + 1, x)
      <4>1. TextOf(new.text) = ((A \o SubSeq(X, e + 1, s - 1)) \o h.new) \o SubSeq(X, s + c, x)
        BY <2>4, <3>1
      <4>2. s - 1 = a
        BY <3>2
      <4>3. F[b] = (A \o SubSeq(X, e + 1, s - 1)) \o h.new
        BY <3>4, <3>5, <3>6, <4>2
      <4> QED
        BY <3>2, <4>1, <4>3
    <3>8. Len(F[b]) = b + new.offset
      <4>1. K \in Seq(Txt) /\ Len(K) = a - e
        <5>1. e + 1 \in 1 .. Len(X) + 1 /\ a \in (e + 1) - 1 .. Len(X)
          BY <1>1, <3>2 DEF x
        <5>2. K \in Seq(Txt) /\ Len(K) = a - (e + 1) + 1
          BY <1>1, <5>1, SubSeqIn
        <5> QED
          BY <3>2, <5>2
      <4> HIDE DEF A, K
      <4>2. A \o K \in Seq(Txt) /\ Len(A \o K) = Len(A) + Len(K)
        BY <2>3, <4>1, ConcatProperties
      <4>3. Len((A \o K) \o h.new) = Len(A \o K) + Len(h.new)
        BY <1>2, <4>2, ConcatProperties
      <4>4. Len(A) = e + o /\ new.offset = o + Len(h.new) - c
        BY <2>1, <2>4, <3>1 DEF A
      <4>5. F[b] = (A \o K) \o h.new
        BY <3>4, <3>5, <3>6
      <4>6. Len(F[b]) = (e + o) + (a - e) + Len(h.new)
        BY <4>1, <4>2, <4>3, <4>4, <4>5
      <4> DEFINE l == Len(h.new)
                 f == new.offset
      <4>7. l \in Nat /\ f = o + l - c /\ Len(F[b]) = (e + o) + (a - e) + l
        BY <1>2, <4>4, <4>6
      <4> HIDE DEF l, f
      <4>8. a \in Nat /\ e \in Nat /\ c \in Nat /\ o \in Int /\ b = a + c
        <5>1. s = a + 1 /\ a \in Nat /\ e \in Nat
          BY <3>2
        <5>2. c \in Nat /\ o \in Int /\ b = s + c - 1
          BY <1>2, <1>4, <2>3
        <5> QED
          BY <5>1, <5>2
      <4>9. Len(F[b]) = b + f
        BY <4>7, <4>8
      <4> QED
        BY <4>9 DEF f
    <3> QED
      BY <3>2, <3>7, <3>8
  <2> QED
    BY <2>5, <2>6 DEF Patched, new, X, h, b, x
<1> QED
  BY <1>12, <1>13

LEMMA UncoveredAfter ==
    ASSUME NEW hunks \in HunkSeq, Regular(hunks), NEW j \in Nat, EndOf(hunks, Len(hunks)) < j
    PROVE  ~Covered(hunks, j)
<1> DEFINE m == Len(hunks)
           s(i) == hunks[i].start
           c(i) == hunks[i].count
<1>1. m \in Nat /\ DOMAIN hunks = 1 .. m /\ \A i \in 1 .. m : s(i) \in Nat /\ c(i) \in Nat
  BY HunkFields
<1>2. \A i \in 1 .. m : \A k \in i + 1 .. m : s(i) + c(i) <= s(k)
  BY HunkOrder
<1>3. m # 0 => s(m) + c(m) - 1 < j
  BY DEF EndOf
<1> HIDE DEF m, s, c
<1>5. ASSUME NEW k \in 1 .. m, j \in s(k) .. s(k) + c(k) - 1
      PROVE  FALSE
  <2>1. k \in Nat /\ m \in 1 .. m /\ m # 0 /\ s(k) \in Nat /\ c(k) \in Nat /\ j < s(k) + c(k)
    BY <1>1, <1>5
  <2>2. s(m) \in Nat /\ c(m) \in Nat /\ s(m) + c(m) - 1 < j
    BY <1>1, <1>3, <2>1
  <2>3. s(k) + c(k) <= s(m) + c(m)
    <3>1. CASE k = m
      BY <2>2, <3>1
    <3>2. CASE k # m
      <4>1. m \in k + 1 .. m
        BY <1>1, <2>1, <3>2
      <4>2. s(k) + c(k) <= s(m)
        BY <1>2, <4>1
      <4> QED
        BY <2>1, <2>2, <4>2
    <3> QED
      BY <3>1, <3>2
  <2> QED
    BY <2>1, <2>2, <2>3
<1> QED
  BY <1>1, <1>5 DEF Covered, m, s, c

LEMMA DescribesFits ==
    ASSUME NEW hunks \in HunkSeq, Regular(hunks), NEW text \in FileText
    PROVE  Describes(hunks, text) <=> \A k \in 1 .. Len(hunks) : Fits(hunks[k], TextOf(text))
<1> DEFINE X == TextOf(text)
<1>1. Len(X) = Len(text) /\ \A j \in 1 .. Len(text) : X[j] = text[j].t
  BY TextOfType DEF FileText
<1>2. DOMAIN hunks = 1 .. Len(hunks) /\ Len(text) \in Nat
  BY HunkFields, LenProperties DEF FileText
<1> HIDE DEF X
<1>3. ASSUME NEW k \in 1 .. Len(hunks)
      PROVE  Fits(hunks[k], X) <=>
               /\ hunks[k].start + hunks[k].count - 1 <= Len(text)
               /\ \A i \in DOMAIN hunks[k].old : text[hunks[k].start + i - 1].t = hunks[k].old[i]
  <2> DEFINE h == hunks[k]
             s == h.start
             c == h.count
  <2>1. s \in Nat /\ c \in Nat /\ s > 0 /\ c = Len(h.old) /\ h.old \in Seq(Txt)
    <3>1. s \in Nat /\ c \in Nat /\ s > 0 /\ c = Len(h.old) /\ h \in HunkRec
      BY HunkFields
    <3> QED
      BY <3>1 DEF HunkRec
  <2>2. DOMAIN h.old = 1 .. c
    BY <2>1
  <2>3. Fits(h, X) <=> s + c - 1 <= Len(X) /\ \A i \in DOMAIN h.old : X[s + i - 1] = h.old[i]
    BY DEF Fits
  <2> HIDE DEF s, c, h
  <2>4. s + c - 1 <= Len(text) => \A i \in 1 .. c : X[s + i - 1] = text[s + i - 1].t
    <3>1. ASSUME s + c - 1 <= Len(text), NEW i \in 1 .. c
          PROVE  X[s + i - 1] = text[s + i - 1].t
      <4>1. s + i - 1 \in 1 .. Len(text)
        BY <1>2, <2>1, <3>1
      <4> QED
        BY <1>1, <4>1
    <3> QED
      BY <3>1
  <2>5. Fits(h, X) <=> s + c - 1 <= Len(text) /\ \A i \in DOMAIN h.old : text[s + i - 1].t = h.old[i]
    BY <1>1, <2>2, <2>3, <2>4
  <2> QED
    BY <2>5 DEF s, c, h
<1> QED
  BY <1>2, <1>3 DEF Describes, X

(* Applying regular hunks results in what they describe.                    *)
LEMMA DryRunExact ==
    ASSUME NEW hunks \in HunkSeq, Regular(hunks), NEW text \in FileText
    PROVE  /\ DryRun(text, hunks) \in SUBSET FileText
           /\ {TextOf(ls) : ls \in DryRun(text, hunks)}
                = IF Describes(hunks, text) THEN {PatchText(hunks, text)} ELSE {}
<1> DEFINE X == TextOf(text)
           P == PieceOf(hunks, text)
           m == Len(hunks)
           x == Len(X)
           e == EndOf(hunks, m)
<1>1. /\ X \in Seq(Txt) /\ Len(X) = Len(text) /\ x \in Nat
      /\ \A j \in 1 .. x : X[j] = text[j].t
  <2>1. X \in Seq(Txt) /\ Len(X) = Len(text) /\ \A j \in 1 .. Len(text) : X[j] = text[j].t
    BY TextOfType DEF FileText
  <2> HIDE DEF X
  <2> QED
    BY <2>1
<1>2. P \in Pieces /\ Len(P) = x /\ \A j \in 1 .. x : ~Covered(hunks, j) => P[j] = <<X[j]>>
  <2>1. P \in Pieces /\ Len(P) = Len(text) /\ \A j \in 1 .. Len(text) : ~Covered(hunks, j) => P[j] = <<text[j].t>>
    BY PieceFacts
  <2> HIDE DEF P, X
  <2> QED
    BY <1>1, <2>1
<1>3. PatchText(hunks, text) = FlattenSeq(P)
  BY DEF PatchText, PieceOf
<1> HIDE DEF P, X
<1>4. PICK F \in [0 .. Len(P) -> Seq(Txt)] :
        /\ F[0] = <<>> /\ \A i \in 1 .. Len(P) : F[i] = F[i - 1] \o P[i]
        /\ FlattenSeq(P) = F[Len(P)]
  BY <1>2, FlattenSteps
<1>5. Flattens(F, P)
  BY <1>2, <1>4 DEF Flattens
<1>6. PICK at \in [0 .. m -> Progress] :
        /\ at[0] = [ok |-> TRUE, offset |-> 0, text |-> text]
        /\ \A i \in 1 .. m : at[i] = Applied(at[i - 1], hunks[i])
        /\ DryRun(text, hunks) =
             IF at[m].ok /\ \A n \in DOMAIN hunks : ~hunks[n].marker THEN {at[m].text} ELSE {}
  BY DryRunSteps
<1>7. m \in Nat /\ DOMAIN hunks = 1 .. m /\ \A n \in 1 .. m : ~hunks[n].marker
  BY HunkFields DEF Regular
<1> HIDE DEF m
<1> DEFINE N == {n \in 0 .. m : Patched(F, X, hunks, n, at[n])}
<1>8. 0 \in N
  <2>1. at[0].ok /\ at[0].offset = 0 /\ at[0].text = text
    BY <1>6
  <2>2. EndOf(hunks, 0) = 0
    BY DEF EndOf
  <2>3. \A k \in 1 .. 0 : Fits(hunks[k], X)
    OBVIOUS
  <2>4. SubSeq(X, 0 + 1, x) = X
    <3>1. SubSeq(X, 1, Len(X)) = X
      BY <1>1, SubSeqFull
    <3>2. 0 + 1 = 1
      OBVIOUS
    <3> QED
      BY <3>1, <3>2
  <2>5. F[0] \o SubSeq(X, 0 + 1, x) = X
    BY <1>1, <1>4, <2>4, ConcatEmptySeq
  <2>6. TextOf(at[0].text) = X
    BY <2>1 DEF X
  <2>7. Len(F[0]) = 0 + at[0].offset
    BY <1>4, <2>1
  <2>8. 0 \in 0 .. x /\ 0 \in 0 .. m
    BY <1>1, <1>7
  <2>9. Patched(F, X, hunks, 0, at[0])
    BY <2>1, <2>2, <2>3, <2>5, <2>6, <2>7, <2>8 DEF Patched
  <2> QED
    BY <2>8, <2>9
<1>9. ASSUME NEW n \in 1 .. m, n - 1 \in N
      PROVE  n \in N
  <2>1. n - 1 \in 0 .. m /\ n \in 0 .. m
    BY <1>7
  <2>2. at[n - 1] \in Progress /\ at[n] = Applied(at[n - 1], hunks[n])
    BY <1>6, <2>1
  <2>3. Patched(F, TextOf(text), hunks, n - 1, at[n - 1])
    BY <1>9 DEF X
  <2>4. Flattens(F, PieceOf(hunks, text)) /\ n \in 1 .. Len(hunks)
    BY <1>5 DEF P, m
  <2> DEFINE a == at[n - 1]
  <2>5. a \in Progress /\ Patched(F, TextOf(text), hunks, n - 1, a)
    BY <2>2, <2>3
  <2> HIDE DEF a, N
  <2>6. Patched(F, TextOf(text), hunks, n, Applied(a, hunks[n]))
    BY <2>4, <2>5, NextHunk
  <2> USE DEF N
  <2> QED
    BY <2>1, <2>2, <2>6 DEF X, a
<1>10. Patched(F, X, hunks, m, at[m])
  <2> HIDE DEF N
  <2>1. 0 .. m \subseteq N
    BY <1>7, <1>8, <1>9, Induction
  <2>2. m \in N
    BY <1>7, <2>1
  <2> QED
    BY <2>2 DEF N
<1>11. Describes(hunks, text) <=> at[m].ok
  BY <1>10, DescribesFits DEF Patched, m, X
<1>12. DryRun(text, hunks) = IF at[m].ok THEN {at[m].text} ELSE {}
  BY <1>6, <1>7
<1>13. at[m].text \in FileText
  <2>1. at[m] \in Progress
    BY <1>6, <1>7
  <2> QED
    BY <2>1 DEF Progress, FileText
<1>14. ASSUME at[m].ok
       PROVE  TextOf(at[m].text) = PatchText(hunks, text)
  <2>1. e \in 0 .. x /\ TextOf(at[m].text) = F[e] \o SubSeq(X, e + 1, x)
    BY <1>10, <1>14 DEF Patched
  <2> HIDE DEF e
  <2>2. \A j \in e + 1 .. x : j \in 1 .. x /\ j \in Nat /\ e < j
    BY <1>1, <2>1
  <2>3. \A j \in e + 1 .. x : P[j] = <<X[j]>>
    BY <1>2, <2>2, UncoveredAfter DEF e, m
  <2>4. e \in 0 .. Len(X) /\ x \in e .. Len(X) /\ Len(X) = Len(P)
    BY <1>1, <1>2, <2>1
  <2>5. F[x] = F[e] \o SubSeq(X, e + 1, x)
    <3>1. X \in Seq(Txt) /\ Flattens(F, P)
      BY <1>1, <1>5
    <3> HIDE DEF x
    <3> QED
      BY <2>3, <2>4, <3>1, FlattenKept
  <2> QED
    BY <1>2, <1>3, <1>4, <2>1, <2>5
<1> QED
  BY <1>11, <1>12, <1>13, <1>14

-----------------------------------------------------------------------------
(* What was validated is what the verdict says.                             *)
Validated ==
    \/ request = {}
    \/ \E r \in PatchRequest : request = {r} /\ verdict = ValidatedPatch(r)

LEMMA ExactVerdict ==
    ASSUME NEW r \in PatchRequest, NEW text \in r.original, r.exists, r.type # "add",
           Hunks(r.diff) # <<>>, HeadersOk(r), Regular(Hunks(r.diff))
    PROVE  LET hunks  == Hunks(r.diff)
               result == IF Describes(hunks, text) THEN {PatchText(hunks, text)} ELSE {}
           IN  {TextOf(ls) : ls \in ValidatedPatch(r)}
                 = IF r.type = "modify" THEN result ELSE result \intersect {<<>>}
<1> DEFINE hunks  == Hunks(r.diff)
           result == IF Describes(hunks, text) THEN {PatchText(hunks, text)} ELSE {}
           D      == DryRun(text, hunks)
<1>1. /\ text \in FileText /\ \A other \in r.original : other = text
      /\ Readable(r.diff) /\ r.type \in {"add", "modify", "remove"}
  BY PatchAssumption DEF FileText, Line, Txt, Readable
<1>2. hunks \in HunkSeq
  BY <1>1, HunksType DEF HunkSeq
<1>3. UNION {DryRun(t, hunks) : t \in IF r.exists THEN r.original ELSE {}} = D
  <2>1. r.original = {text}
    BY <1>1
  <2> HIDE DEF hunks
  <2> QED
    BY <2>1
<1> HIDE DEF hunks
<1>4. D \in SUBSET FileText /\ {TextOf(ls) : ls \in D} = result
  BY <1>1, <1>2, DryRunExact DEF hunks
<1>5. CASE r.type = "modify"
  <2>1. ValidatedPatch(r) = D
    BY <1>3, <1>5, Zenon DEF ValidatedPatch, hunks
  <2> QED
    BY <1>4, <1>5, <2>1 DEF hunks
<1>6. CASE r.type = "remove"
  <2>0. r.type # "modify"
    BY <1>6
  <2>1. ValidatedPatch(r) = D \intersect {<<>>}
    <3> DEFINE all == UNION {DryRun(t, hunks) : t \in IF r.exists THEN r.original ELSE {}}
           add == {Terminated(FlattenSeq([n \in DOMAIN hunks |-> hunks[n].new])) :
                     ok \in {TRUE} \ {r.exists \/ \E n \in DOMAIN hunks : hunks[n].old # <<>>}}
    <3>1. ValidatedPatch(r) = CASE r.type = "add" -> add
                                [] r.type = "modify" -> all
                                [] r.type = "remove" -> all \intersect {<<>>}
      BY DEF ValidatedPatch, hunks
    <3> HIDE DEF add, all
    <3>2. ValidatedPatch(r) = all \intersect {<<>>}
      BY <1>6, <3>1
    <3> QED
      BY <1>3, <3>2 DEF all
  <2> HIDE DEF D, result
  <2>2. \A ls \in D : TextOf(ls) = <<>> <=> ls = <<>>
    BY <1>4, EmptyText DEF FileText
  <2>3. {TextOf(ls) : ls \in D \intersect {<<>>}} = {TextOf(ls) : ls \in D} \intersect {<<>>}
    BY <2>2
  <2>4. {TextOf(ls) : ls \in ValidatedPatch(r)} = result \intersect {<<>>}
    BY <1>4, <2>1, <2>3
  <2> QED
    BY <1>6, <2>4 DEF result, hunks
<1> QED
  BY <1>1, <1>5, <1>6

(* A regular patch of an existing file is accepted exactly if the file is   *)
(* what the diff says, and results in the file that the diff describes,     *)
(* for hunks and files of every length (dry_run_apply,                      *)
(* validate_patch_for_path).                                                *)
THEOREM PatchIsExactAlways == DiffSpec => []PatchIsExact
<1>1. DiffInit => Validated
  BY DEF DiffInit, Validated
<1>2. Validated /\ [ValidatePatch]_diffVars => Validated'
  <2> SUFFICES ASSUME Validated, [ValidatePatch]_diffVars
               PROVE  Validated'
    OBVIOUS
  <2>1. CASE ValidatePatch
    <3>1. PICK r \in PatchRequest : request' = {r} /\ verdict' = ValidatedPatch(r)
      BY <2>1 DEF ValidatePatch
    <3> QED
      BY <3>1, Zenon DEF Validated
  <2>2. CASE UNCHANGED diffVars
    BY <2>2 DEF diffVars, Validated
  <2> QED
    BY <2>1, <2>2
<1>3. Validated => PatchIsExact
  <2> SUFFICES ASSUME Validated, NEW r \in request, NEW text \in r.original, r.exists, r.type # "add",
                      Hunks(r.diff) # <<>>, HeadersOk(r), Regular(Hunks(r.diff))
               PROVE  LET hunks  == Hunks(r.diff)
                          result == IF Describes(hunks, text) THEN {PatchText(hunks, text)} ELSE {}
                      IN  {TextOf(ls) : ls \in verdict}
                            = IF r.type = "modify" THEN result ELSE result \intersect {<<>>}
    BY Zenon DEF PatchIsExact
  <2>1. r \in PatchRequest /\ verdict = ValidatedPatch(r)
    BY DEF Validated
  <2> QED
    BY <2>1, ExactVerdict
<1> QED
  BY <1>1, <1>2, <1>3, PTL DEF DiffSpec
=============================================================================
