---------------------------- MODULE ServicesProofs ----------------------------
(***************************************************************************)
(* Proofs about the wake-up of receivers, the readiness of the project map,  *)
(* the plan graph and the opening of the mail database, for any number of    *)
(* their actors, rows and faults.                                           *)
(***************************************************************************)
EXTENDS WakeSignal, MapReadiness, PlanGraph, ProjectStorage, FiniteSetTheorems, TLAPS

-----------------------------------------------------------------------------
(* Wake-ups.                                                                *)

(* The rows, signals and receivers.                                         *)
LetterRow ==
    {row \in [status: {"absent", "pending", "leased", "retry_wait", "delivered"},
              due: BOOLEAN, by: Receiver \cup {NoReceiver}, attempt: 0 .. MaxTry] :
        row.due => row.status \in {"leased", "retry_wait"}}

Signal == [bound: BOOLEAN, pending: BOOLEAN, closed: BOOLEAN, waiter: BOOLEAN, moved: BOOLEAN]

Where == {"out", "claim", "hook", "recheck", "register", "waiting", "woken"}

Place == [at: Where, deadline: BOOLEAN, timer: BOOLEAN]

WakeTypes ==
    /\ letter \in [Letter -> LetterRow] /\ owed \subseteq Letter
    /\ sig \in [Receiver -> Signal] /\ calls \in [Receiver -> Nat]
    /\ rcv \in [Receiver -> Place]

(* Letters that can be claimed now, and letters that can become so.          *)
Claimable == {l \in Letter : letter[l].status = "pending" /\ letter[l].attempt < MaxTry}
Unsettled == {l \in Letter : /\ letter[l].status \in {"pending", "leased", "retry_wait"}
                             /\ letter[l].attempt < MaxTry}

Notified(r) == owed # {} \/ calls[r] > 0

(* A signal has a waiter exactly while its receiver waits.  A receive() in   *)
(* progress has bound its signal, so that a notification reaches it; between *)
(* two awaits, and while it waits, it is not closed.  What happens after its *)
(* second claim is notified: a receiver that is about to wait, or waits      *)
(* without a timer, has nothing to wait for or is called.                   *)
Attentive(r) ==
    /\ sig[r].waiter = (rcv[r].at = "waiting")
    /\ rcv[r].at # "out" => sig[r].bound
    /\ rcv[r].at \in {"claim", "recheck", "register", "waiting"} => ~sig[r].closed
    /\ rcv[r].at = "register" => Claimable = {} \/ Notified(r)
    /\ rcv[r].at = "waiting" /\ ~rcv[r].timer => Unsettled = {} \/ Notified(r)

WakeInv == WakeTypes /\ \A r \in Receiver : Attentive(r)

LEMMA AtEffect ==
    ASSUME WakeTypes, NEW r \in Receiver, NEW at \in Where, At(r, at)
    PROVE  /\ rcv' \in [Receiver -> Place]
           /\ rcv'[r].at = at /\ ~rcv'[r].timer
           /\ \A q \in Receiver : q # r => rcv'[q] = rcv[q]
  <1>1. rcv[r] \in Place
    BY DEF WakeTypes
  <1>2. CASE at = "out"
    <2>1. Out \in Place /\ Out.at = "out" /\ ~Out.timer
      BY DEF Out, Place, Where
    <2>2. rcv' = [rcv EXCEPT ![r] = Out]
      BY <1>2 DEF At
    <2>3. QED BY <1>2, <2>1, <2>2 DEF WakeTypes
  <1>3. CASE at # "out"
    <2>1. rcv' = [rcv EXCEPT ![r] = [rcv[r] EXCEPT !.at = at, !.timer = FALSE]]
      BY <1>3 DEF At
    <2>2. /\ [rcv[r] EXCEPT !.at = at, !.timer = FALSE] \in Place
          /\ [rcv[r] EXCEPT !.at = at, !.timer = FALSE].at = at
          /\ ~[rcv[r] EXCEPT !.at = at, !.timer = FALSE].timer
      BY <1>1 DEF Place
    <2>3. QED BY <2>1, <2>2 DEF WakeTypes
  <1>4. QED BY <1>2, <1>3

(* A letter moves; it does not become claimable unless it says so, nor        *)
(* unsettled if it was not.                                                 *)
LEMMA LetterMoves ==
    ASSUME WakeTypes, NEW l \in Letter, NEW row \in LetterRow,
           letter' = [letter EXCEPT ![l] = row]
    PROVE  /\ letter' \in [Letter -> LetterRow]
           /\ letter'[l] = row /\ \A k \in Letter : k # l => letter'[k] = letter[k]
           /\ row.status # "pending" => Claimable' \subseteq Claimable
  BY DEF WakeTypes, Claimable

LEMMA LetterProceeds ==
    ASSUME WakeTypes, NEW l \in Letter, NEW row \in LetterRow,
           letter' = [letter EXCEPT ![l] = row],
           letter[l].status \in {"pending", "leased", "retry_wait"},
           row.attempt >= letter[l].attempt
    PROVE  Unsettled' \subseteq Unsettled
  <1>1. letter'[l] = row /\ \A k \in Letter : k # l => letter'[k] = letter[k]
    BY LetterMoves
  <1>2. row.attempt \in Nat /\ letter[l].attempt \in Nat /\ MaxTry \in Nat
    BY WakeAssumption DEF WakeTypes, LetterRow
  <1>3. QED BY <1>1, <1>2 DEF Unsettled

LEMMA TakeEffect ==
    ASSUME WakeTypes, NEW r \in Receiver, Take(r)
    PROVE  /\ letter' \in [Letter -> LetterRow] /\ rcv' \in [Receiver -> Place]
           /\ Claimable' \subseteq Claimable /\ Unsettled' \subseteq Unsettled
           /\ rcv'[r].at = "out" /\ \A q \in Receiver : q # r => rcv'[q] = rcv[q]
           /\ owed' = owed /\ sig' = sig /\ calls' = calls
  <1>1. PICK l \in DueLetters :
          letter' = [letter EXCEPT ![l] = [status |-> "leased", due |-> FALSE, by |-> r,
                                           attempt |-> letter[l].attempt + 1]]
    BY DEF Take
  <1>2. /\ l \in Letter /\ letter[l] \in LetterRow /\ letter[l].attempt < MaxTry
        /\ letter[l].status = "pending" \/ letter[l].due
    BY DEF DueLetters, WakeTypes
  <1>3. PICK row \in LetterRow :
          row = [status |-> "leased", due |-> FALSE, by |-> r, attempt |-> letter[l].attempt + 1]
    <2>1. letter[l].attempt + 1 \in 0 .. MaxTry
      BY <1>2, WakeAssumption DEF LetterRow
    <2>2. QED BY <2>1 DEF LetterRow
  <1>4. row.status = "leased" /\ row.attempt = letter[l].attempt + 1 /\ letter[l].attempt \in Nat
    BY <1>2, <1>3, WakeAssumption DEF LetterRow
  <1>5. /\ rcv' \in [Receiver -> Place] /\ rcv'[r].at = "out"
        /\ \A q \in Receiver : q # r => rcv'[q] = rcv[q]
        /\ owed' = owed /\ sig' = sig /\ calls' = calls
    BY AtEffect DEF Take, Where
  <1>6. letter' \in [Letter -> LetterRow] /\ Claimable' \subseteq Claimable
    BY <1>1, <1>2, <1>3, <1>4, LetterMoves
  <1>7. Unsettled' \subseteq Unsettled
    <2>1. letter[l].status \in {"pending", "leased", "retry_wait"}
      BY <1>2 DEF LetterRow
    <2>2. row.attempt >= letter[l].attempt
      BY <1>4
    <2>3. QED BY <1>1, <1>2, <1>3, <2>1, <2>2, LetterProceeds
  <1>8. QED BY <1>5, <1>6, <1>7


(* A receiver that the step leaves alone stays attentive.                    *)
LEMMA AttentiveKept ==
    ASSUME NEW q \in Receiver, Attentive(q), sig'[q] = sig[q], rcv'[q] = rcv[q],
           Notified(q) => Notified(q)',
           Claimable' \subseteq Claimable \/ Notified(q)',
           Unsettled' \subseteq Unsettled \/ Notified(q)'
    PROVE  Attentive(q)'
  BY DEF Attentive

(* A step of one receiver.                                                  *)
LEMMA AttentiveStep ==
    ASSUME WakeInv, NEW r \in Receiver, \A q \in Receiver : q # r => sig'[q] = sig[q],
           \A q \in Receiver : q # r => rcv'[q] = rcv[q],
           \A q \in Receiver : q # r => calls'[q] = calls[q],
           owed \subseteq owed', Claimable' \subseteq Claimable, Unsettled' \subseteq Unsettled,
           Attentive(r)'
    PROVE  \A q \in Receiver : Attentive(q)'
  <1>1. ASSUME NEW q \in Receiver, q # r PROVE Attentive(q)'
    <2>1. Attentive(q) /\ sig'[q] = sig[q] /\ rcv'[q] = rcv[q] /\ calls'[q] = calls[q]
      BY <1>1 DEF WakeInv
    <2>2. Notified(q) => Notified(q)'
      BY <2>1 DEF Notified
    <2>3. QED BY <2>1, <2>2, AttentiveKept
  <1>2. QED BY <1>1

LEMMA LettersStay ==
    ASSUME letter' = letter
    PROVE  Claimable' = Claimable /\ Unsettled' = Unsettled
  BY DEF Claimable, Unsettled

LEMMA WakeStep == WakeInv /\ [WakeNext]_wakeVars => WakeInv'
  <1> SUFFICES ASSUME WakeInv, [WakeNext]_wakeVars PROVE WakeInv'
    OBVIOUS
  <1> DEFINE Goal == WakeTypes' /\ \A q \in Receiver : Attentive(q)'
  <1>a. WakeTypes /\ \A q \in Receiver : Attentive(q)
    BY DEF WakeInv
  <1>1. ASSUME NEW l \in Letter, Send(l) PROVE Goal
    <2>1. [letter[l] EXCEPT !.status = "pending"] \in LetterRow
      BY <1>1, <1>a DEF Send, WakeTypes, LetterRow
    <2>2. letter' = [letter EXCEPT ![l] = [letter[l] EXCEPT !.status = "pending"]]
      BY <1>1, <1>a DEF Send, WakeTypes
    <2>3. letter' \in [Letter -> LetterRow] /\ owed' # {} /\ owed' \subseteq Letter
      BY <1>1, <1>a, <2>1, <2>2 DEF Send, WakeTypes
    <2>4. ASSUME NEW q \in Receiver PROVE Attentive(q)'
      <3>1. Notified(q)'
        BY <2>3 DEF Notified
      <3>2. QED BY <1>1, <1>a, <3>1, AttentiveKept DEF Send
    <2>5. QED BY <1>1, <1>a, <2>3, <2>4 DEF Send, WakeTypes
  <1>2. ASSUME NEW l \in Letter, NotifyDatabase(l) PROVE Goal
    <2>1. /\ sig' = [r \in Receiver |->
               [sig[r] EXCEPT !.pending = @ \/ (~sig[r].closed /\ ~sig[r].bound)]]
          /\ calls' = [r \in Receiver |->
               IF sig[r].bound /\ ~sig[r].closed THEN calls[r] + 1 ELSE calls[r]]
          /\ letter' = letter /\ rcv' = rcv /\ owed' \subseteq owed
      BY <1>2 DEF NotifyDatabase
    <2>2. ASSUME NEW q \in Receiver
          PROVE  /\ sig'[q] \in Signal /\ sig'[q].bound = sig[q].bound
                 /\ sig'[q].closed = sig[q].closed /\ sig'[q].waiter = sig[q].waiter
                 /\ calls'[q] \in Nat /\ calls'[q] >= calls[q]
                 /\ sig[q].bound /\ ~sig[q].closed => calls'[q] > 0
      <3>1. sig[q] \in Signal /\ calls[q] \in Nat
        BY <1>a DEF WakeTypes
      <3>2. sig'[q] = [sig[q] EXCEPT !.pending = @ \/ (~sig[q].closed /\ ~sig[q].bound)]
        BY <2>1
      <3>3. PICK b \in BOOLEAN : b = (sig[q].pending \/ (~sig[q].closed /\ ~sig[q].bound))
        BY <3>1 DEF Signal
      <3>4. sig'[q] = [sig[q] EXCEPT !.pending = b]
        BY <3>2, <3>3
      <3>5. /\ sig'[q] \in Signal /\ sig'[q].bound = sig[q].bound
            /\ sig'[q].closed = sig[q].closed /\ sig'[q].waiter = sig[q].waiter
        BY <3>1, <3>4 DEF Signal
      <3>6. QED BY <2>1, <3>1, <3>5
    <2>3. ASSUME NEW q \in Receiver PROVE Attentive(q)'
      <3>1. Attentive(q) /\ Claimable' = Claimable /\ Unsettled' = Unsettled /\ rcv'[q] = rcv[q]
        BY <1>a, <2>1, LettersStay
      <3>2. rcv[q].at \in {"register", "waiting"} => calls'[q] > 0
        BY <2>2, <3>1 DEF Attentive
      <3>3. QED BY <2>2, <3>1, <3>2 DEF Attentive, Notified
    <2>4. WakeTypes'
      BY <1>a, <2>1, <2>2 DEF WakeTypes
    <2>5. QED BY <2>3, <2>4
  <1>3. ASSUME NEW l \in Letter, ComesDue(l) PROVE Goal
    <2>1. [letter[l] EXCEPT !.due = TRUE] \in LetterRow
      BY <1>3, <1>a DEF ComesDue, WakeTypes, LetterRow
    <2>2. PICK row \in LetterRow : row = [letter[l] EXCEPT !.due = TRUE]
      BY <2>1
    <2>3. /\ letter' = [letter EXCEPT ![l] = row] /\ row.status = letter[l].status
          /\ row.attempt = letter[l].attempt /\ letter[l].status \in {"leased", "retry_wait"}
          /\ letter[l].attempt \in Nat
      BY <1>3, <1>a, <2>2, WakeAssumption DEF ComesDue, WakeTypes, LetterRow
    <2>4. /\ letter' \in [Letter -> LetterRow]
          /\ Claimable' \subseteq Claimable /\ Unsettled' \subseteq Unsettled
      <3>1. letter' \in [Letter -> LetterRow] /\ Claimable' \subseteq Claimable
        <4>1. row.status # "pending"
          BY <2>3
        <4>2. QED BY <1>a, <2>3, <4>1, LetterMoves
      <3>2. Unsettled' \subseteq Unsettled
        <4>1. row.attempt >= letter[l].attempt
          BY <2>3
        <4>2. letter[l].status \in {"pending", "leased", "retry_wait"}
          BY <2>3
        <4>3. QED BY <1>a, <2>3, <4>1, <4>2, LetterProceeds
      <3>3. QED BY <3>1, <3>2
    <2>5. UNCHANGED <<owed, sig, calls, rcv>>
      BY <1>3 DEF ComesDue
    <2>6. ASSUME NEW q \in Receiver PROVE Attentive(q)'
      BY <1>a, <2>4, <2>5, AttentiveKept DEF Notified
    <2>7. QED BY <1>a, <2>4, <2>5, <2>6 DEF WakeTypes
  <1>4. ASSUME NEW r \in Receiver, NEW l \in Letter, Settle(r, l) PROVE Goal
    <2>1. UNCHANGED <<sig, calls, rcv>> /\ letter[l].status = "leased"
      BY <1>4 DEF Settle
    <2>2. letter[l] \in LetterRow
      BY <1>a DEF WakeTypes
    <2>3. \A s \in {"delivered", "retry_wait"} :
            Moved(l, s) \in LetterRow /\ Moved(l, s).status = s
              /\ Moved(l, s).attempt = letter[l].attempt
      BY <2>2 DEF Moved, LetterRow
    <2>4. letter[l].attempt \in Nat
      BY <2>2, WakeAssumption DEF LetterRow
    <2>5. PICK s \in {"delivered", "retry_wait"} : letter' = [letter EXCEPT ![l] = Moved(l, s)]
      BY <1>4 DEF Settle
    <2>6. PICK row \in LetterRow : row = Moved(l, s)
      BY <2>3
    <2>7. /\ letter' \in [Letter -> LetterRow]
          /\ Claimable' \subseteq Claimable /\ Unsettled' \subseteq Unsettled
      <3>1. letter' = [letter EXCEPT ![l] = row] /\ row.status # "pending"
        BY <2>3, <2>5, <2>6
      <3>2. letter' \in [Letter -> LetterRow] /\ Claimable' \subseteq Claimable
        BY <1>a, <3>1, LetterMoves
      <3>3. row.attempt >= letter[l].attempt
        BY <2>3, <2>4, <2>6
      <3>4. letter[l].status \in {"pending", "leased", "retry_wait"}
        BY <2>1
      <3>5. Unsettled' \subseteq Unsettled
        BY <1>a, <3>1, <3>3, <3>4, LetterProceeds
      <3>6. QED BY <3>2, <3>5
    <2>8. owed \subseteq owed' /\ owed' \subseteq Letter
      BY <1>4, <1>a DEF Settle, WakeTypes
    <2>9. ASSUME NEW q \in Receiver PROVE Attentive(q)'
      BY <1>a, <2>1, <2>7, <2>8, AttentiveKept DEF Notified
    <2>10. QED BY <1>a, <2>1, <2>7, <2>8, <2>9 DEF WakeTypes
  <1>5. ASSUME NEW r \in Receiver, CloseReceiver(r) PROVE Goal
    <2>1. /\ LoopFree /\ owed' = owed /\ calls' = calls
          /\ letter' = [l \in Letter |-> IF letter[l].by = r /\ letter[l].status = "leased"
                                         THEN Moved(l, "pending") ELSE letter[l]]
          /\ sig' = [sig EXCEPT ![r] = [sig[r] EXCEPT !.closed = TRUE, !.moved = TRUE,
                                                      !.waiter = FALSE]]
          /\ IF sig[r].waiter THEN At(r, "woken") ELSE rcv' = rcv
      BY <1>5, <1>a DEF CloseReceiver, WakeTypes
    <2>2. letter' \in [Letter -> LetterRow] /\ Unsettled' \subseteq Unsettled
      <3>1. ASSUME NEW l \in Letter
            PROVE  /\ letter'[l] \in LetterRow /\ letter'[l].attempt = letter[l].attempt
                   /\ letter'[l] = letter[l] \/ letter[l].status = "leased"
        <4>1. letter[l] \in LetterRow
          BY <1>a DEF WakeTypes
        <4>2. Moved(l, "pending") \in LetterRow /\ Moved(l, "pending").attempt = letter[l].attempt
          BY <4>1 DEF Moved, LetterRow
        <4>3. QED BY <2>1, <4>1, <4>2
      <3>2. letter' \in [Letter -> LetterRow]
        BY <2>1, <3>1
      <3>3. QED BY <3>1, <3>2 DEF Unsettled
    <2>a. sig[r] \in Signal
      BY <1>a DEF WakeTypes
    <2>b. [sig[r] EXCEPT !.closed = TRUE, !.moved = TRUE, !.waiter = FALSE] \in Signal
      BY <2>a DEF Signal
    <2>c. PICK s \in Signal :
            s = [sig[r] EXCEPT !.closed = TRUE, !.moved = TRUE, !.waiter = FALSE]
      BY <2>b
    <2>3. s.bound = sig[r].bound /\ s.waiter = FALSE
      BY <2>a, <2>c DEF Signal
    <2>4. /\ sig' \in [Receiver -> Signal] /\ sig'[r] = s
          /\ \A q \in Receiver : q # r => sig'[q] = sig[q]
      BY <1>a, <2>1, <2>c DEF WakeTypes
    <2>5. /\ rcv' \in [Receiver -> Place]
          /\ rcv'[r].at \in {"out", "hook", "woken"}
          /\ rcv'[r].at # "out" => rcv[r].at # "out"
          /\ \A q \in Receiver : q # r => rcv'[q] = rcv[q]
      <3>0. sig[r].waiter = (rcv[r].at = "waiting")
        BY <1>a DEF Attentive
      <3>1. CASE sig[r].waiter
        BY <1>a, <2>1, <3>0, <3>1, AtEffect DEF Where
      <3>2. CASE ~sig[r].waiter
        BY <1>a, <2>1, <3>0, <3>2 DEF WakeTypes, LoopFree
      <3>3. QED BY <3>1, <3>2
    <2>6. Attentive(r)'
      <3>1. Attentive(r)
        BY <1>a
      <3>2. sig'[r].waiter = (rcv'[r].at = "waiting")
        BY <2>3, <2>4, <2>5
      <3>3. rcv'[r].at # "out" => sig'[r].bound
        BY <2>3, <2>4, <2>5, <3>1 DEF Attentive
      <3>4. QED BY <2>5, <3>2, <3>3 DEF Attentive
    <2>7. ASSUME NEW q \in Receiver, q # r PROVE Attentive(q)'
      <3>1. rcv'[q] = rcv[q] /\ sig'[q] = sig[q] /\ Attentive(q) /\ rcv[q].at # "register"
        BY <1>a, <2>1, <2>4, <2>5, <2>7 DEF LoopFree
      <3>2. Notified(q) => Notified(q)'
        BY <2>1 DEF Notified
      <3>3. QED BY <2>2, <3>1, <3>2 DEF Attentive
    <2>8. QED BY <1>a, <2>1, <2>2, <2>4, <2>5, <2>6, <2>7 DEF WakeTypes
  <1>6. ASSUME NEW r \in Receiver, AdvanceOnLoop(r) PROVE Goal
    <2>1. /\ LoopFree /\ owed' = owed /\ letter' = letter /\ calls[r] > 0
          /\ calls' = [calls EXCEPT ![r] = calls[r] - 1]
          /\ IF sig[r].closed THEN sig' = sig /\ rcv' = rcv
             ELSE /\ sig' = [sig EXCEPT ![r] = [sig[r] EXCEPT !.moved = TRUE, !.waiter = FALSE]]
                  /\ IF sig[r].waiter THEN At(r, "woken") ELSE rcv' = rcv
      BY <1>6, <1>a DEF AdvanceOnLoop, WakeTypes
    <2>2. calls' \in [Receiver -> Nat] /\ \A q \in Receiver : q # r => calls'[q] = calls[q]
      BY <1>a, <2>1 DEF WakeTypes
    <2>3. Claimable' \subseteq Claimable /\ Unsettled' \subseteq Unsettled
      BY <2>1, LettersStay
    <2>4. /\ sig' \in [Receiver -> Signal] /\ rcv' \in [Receiver -> Place] /\ Attentive(r)'
          /\ \A q \in Receiver : q # r => sig'[q] = sig[q]
          /\ \A q \in Receiver : q # r => rcv'[q] = rcv[q]
      <3>0. /\ Attentive(r) /\ rcv[r].at \in {"out", "hook", "waiting", "woken"}
            /\ sig[r] \in Signal
        BY <1>a, <2>1 DEF LoopFree, WakeTypes
      <3>1. CASE sig[r].closed
        <4>1. sig' = sig /\ rcv' = rcv /\ rcv[r].at \in {"out", "hook", "woken"}
          BY <2>1, <3>0, <3>1 DEF Attentive
        <4>2. Attentive(r)'
          BY <3>0, <4>1 DEF Attentive
        <4>3. QED BY <1>a, <4>1, <4>2 DEF WakeTypes
      <3>2. CASE ~sig[r].closed
        <4>a. [sig[r] EXCEPT !.moved = TRUE, !.waiter = FALSE] \in Signal
          BY <3>0 DEF Signal
        <4>b. PICK s \in Signal : s = [sig[r] EXCEPT !.moved = TRUE, !.waiter = FALSE]
          BY <4>a
        <4>1. s.bound = sig[r].bound /\ s.waiter = FALSE
          BY <3>0, <4>b DEF Signal
        <4>2. sig' = [sig EXCEPT ![r] = s]
          BY <2>1, <3>2, <4>b
        <4>3. /\ sig' \in [Receiver -> Signal] /\ sig'[r] = s
              /\ \A q \in Receiver : q # r => sig'[q] = sig[q]
          BY <1>a, <4>2 DEF WakeTypes
        <4>4. /\ rcv' \in [Receiver -> Place]
              /\ rcv'[r].at \in {"out", "hook", "woken"}
              /\ rcv'[r].at # "out" => rcv[r].at # "out"
              /\ \A q \in Receiver : q # r => rcv'[q] = rcv[q]
          <5>1. CASE sig[r].waiter
            BY <1>a, <2>1, <3>0, <3>2, <5>1, AtEffect DEF Where, Attentive
          <5>2. CASE ~sig[r].waiter
            BY <1>a, <2>1, <3>0, <3>2, <5>2 DEF WakeTypes, Attentive
          <5>3. QED BY <5>1, <5>2
        <4>5. Attentive(r)'
          <5>1. sig'[r].waiter = (rcv'[r].at = "waiting")
            BY <4>1, <4>3, <4>4
          <5>2. rcv'[r].at # "out" => sig'[r].bound
            BY <3>0, <4>1, <4>3, <4>4 DEF Attentive
          <5>3. QED BY <4>4, <5>1, <5>2 DEF Attentive
        <4>6. QED BY <4>3, <4>4, <4>5
      <3>3. QED BY <3>1, <3>2
    <2>5. owed \subseteq owed'
      BY <2>1
    <2>6. \A q \in Receiver : Attentive(q)'
      BY <2>2, <2>3, <2>4, <2>5, AttentiveStep
    <2>7. QED BY <1>a, <2>1, <2>2, <2>4, <2>6 DEF WakeTypes
  <1>7. ASSUME NEW r \in Receiver, Take(r), rcv[r].at \in {"claim", "recheck"} PROVE Goal
    <2>1. /\ letter' \in [Letter -> LetterRow] /\ rcv' \in [Receiver -> Place]
          /\ Claimable' \subseteq Claimable /\ Unsettled' \subseteq Unsettled
          /\ rcv'[r].at = "out" /\ \A q \in Receiver : q # r => rcv'[q] = rcv[q]
          /\ owed' = owed /\ sig' = sig /\ calls' = calls
      BY <1>a, <1>7, TakeEffect
    <2>2. Attentive(r)'
      BY <1>a, <1>7, <2>1 DEF Attentive
    <2>3. owed \subseteq owed'
      BY <2>1
    <2>4. \A q \in Receiver : Attentive(q)'
      BY <2>1, <2>2, <2>3, AttentiveStep
    <2>5. QED BY <1>a, <2>1, <2>4 DEF WakeTypes
  <1>8. ASSUME NEW r \in Receiver, NEW at \in Where, At(r, at), sig' = sig, calls' = calls,
               owed' = owed, letter' = letter, rcv[r].at \notin {"out", "waiting"},
               at # "waiting",
               at \in {"claim", "recheck", "register"} => ~sig[r].closed,
               at = "register" => Claimable = {}
        PROVE  Goal
    <2>1. /\ rcv' \in [Receiver -> Place] /\ rcv'[r].at = at
          /\ \A q \in Receiver : q # r => rcv'[q] = rcv[q]
      BY <1>a, <1>8, AtEffect
    <2>2. Claimable' = Claimable /\ Unsettled' = Unsettled
      BY <1>8, LettersStay
    <2>3. Attentive(r)'
      <3>1. Attentive(r)
        BY <1>a
      <3>2. sig'[r].waiter = (rcv'[r].at = "waiting") /\ sig'[r].bound
        BY <1>8, <2>1, <3>1 DEF Attentive
      <3>3. rcv'[r].at = "register" => Claimable' = {}
        BY <1>8, <2>1, <2>2
      <3>4. QED BY <1>8, <2>1, <3>2, <3>3 DEF Attentive
    <2>4. Claimable' \subseteq Claimable /\ Unsettled' \subseteq Unsettled
      BY <2>2
    <2>5. owed \subseteq owed'
      BY <1>8
    <2>6. \A q \in Receiver : Attentive(q)'
      BY <1>8, <2>1, <2>3, <2>4, <2>5, AttentiveStep
    <2>7. QED BY <1>8, <1>a, <2>1, <2>6 DEF WakeTypes
  <1>9. ASSUME NEW r \in Receiver, AfterHook(r) PROVE Goal
    <2>1. CASE sig[r].closed
      <3>1. At(r, "out")
        BY <1>9, <2>1 DEF AfterHook
      <3>2. QED BY <1>9, <3>1, <1>8 DEF AfterHook, Where
    <2>2. CASE ~sig[r].closed
      <3>1. At(r, "recheck")
        BY <1>9, <2>2 DEF AfterHook
      <3>2. QED BY <1>9, <2>2, <3>1, <1>8 DEF AfterHook, Where
    <2>3. QED BY <2>1, <2>2
  <1>10. ASSUME NEW r \in Receiver, Resume(r) PROVE Goal
    <2>1. CASE sig[r].closed
      <3>1. At(r, "out")
        BY <1>10, <2>1 DEF Resume
      <3>2. QED BY <1>10, <3>1, <1>8 DEF Resume, Where
    <2>2. CASE ~sig[r].closed
      <3>1. At(r, "claim")
        BY <1>10, <2>2 DEF Resume
      <3>2. QED BY <1>10, <2>2, <3>1, <1>8 DEF Resume, Where
    <2>3. QED BY <2>1, <2>2
  <1>11. ASSUME NEW r \in Receiver, Recheck(r) PROVE Goal
    <2>1. CASE Take(r)
      BY <1>11, <2>1, <1>7 DEF Recheck
    <2>2. CASE ~Take(r)
      <3>1. PICK at \in {"register", "out"} : At(r, at)
        BY <1>11, <2>2 DEF Recheck
      <3>2. /\ rcv[r].at = "recheck" /\ DueLetters = {}
            /\ sig' = sig /\ calls' = calls /\ owed' = owed /\ letter' = letter
        BY <1>11, <2>2 DEF Recheck
      <3>3. Claimable = {} /\ ~sig[r].closed
        BY <1>a, <3>2 DEF Claimable, DueLetters, Attentive
      <3>4. at \in Where /\ at # "waiting"
        BY DEF Where
      <3>5. QED BY <3>1, <3>2, <3>3, <3>4, <1>8
    <2>3. QED BY <2>1, <2>2
  <1>12. ASSUME NEW r \in Receiver, FirstClaim(r) PROVE Goal
    <2>1. CASE Take(r)
      BY <1>12, <2>1, <1>7 DEF FirstClaim
    <2>2. CASE ~Take(r)
      <3>1. /\ rcv[r].at = "claim" /\ At(r, "hook")
            /\ sig' = [sig EXCEPT ![r] = [sig[r] EXCEPT !.moved = FALSE]]
            /\ calls' = calls /\ owed' = owed /\ letter' = letter
        BY <1>12, <1>a, <2>2 DEF FirstClaim, WakeTypes
      <3>2. sig[r] \in Signal /\ Attentive(r)
        BY <1>a DEF WakeTypes
      <3>3. [sig[r] EXCEPT !.moved = FALSE] \in Signal
        BY <3>2 DEF Signal
      <3>4. PICK s \in Signal : s = [sig[r] EXCEPT !.moved = FALSE]
        BY <3>3
      <3>5. s.bound = sig[r].bound /\ s.waiter = sig[r].waiter /\ s.closed = sig[r].closed
        BY <3>2, <3>4 DEF Signal
      <3>6. /\ sig' \in [Receiver -> Signal] /\ sig'[r] = s
            /\ \A q \in Receiver : q # r => sig'[q] = sig[q]
        BY <1>a, <3>1, <3>4 DEF WakeTypes
      <3>7. /\ rcv' \in [Receiver -> Place] /\ rcv'[r].at = "hook"
            /\ \A q \in Receiver : q # r => rcv'[q] = rcv[q]
        BY <1>a, <3>1, AtEffect DEF Where
      <3>8. Attentive(r)'
        BY <3>1, <3>2, <3>5, <3>6, <3>7 DEF Attentive
      <3>9. Claimable' \subseteq Claimable /\ Unsettled' \subseteq Unsettled /\ owed \subseteq owed'
        BY <3>1, LettersStay
      <3>10. \A q \in Receiver : Attentive(q)'
        BY <3>1, <3>6, <3>7, <3>8, <3>9, AttentiveStep
      <3>11. QED BY <1>a, <3>1, <3>6, <3>7, <3>10 DEF WakeTypes
    <2>3. QED BY <2>1, <2>2
  <1>13. ASSUME NEW r \in Receiver, Register(r) PROVE Goal
    <2>1. rcv[r].at = "register" /\ Attentive(r) /\ ~sig[r].closed
      BY <1>13, <1>a DEF Register, Attentive
    <2>2. calls' = calls /\ owed' = owed /\ letter' = letter
      BY <1>13 DEF Register
    <2>3. CASE sig[r].moved
      <3>1. At(r, "claim") /\ sig' = sig
        BY <1>13, <2>3 DEF Register
      <3>2. "claim" \in Where
        BY DEF Where
      <3>3. QED BY <2>1, <2>2, <3>1, <3>2, <1>8
    <2>4. CASE ~sig[r].moved
      <3>1. /\ sig' = [sig EXCEPT ![r] = [sig[r] EXCEPT !.waiter = TRUE]]
            /\ rcv' = [rcv EXCEPT ![r] = [rcv[r] EXCEPT !.at = "waiting",
                                                        !.timer = rcv[r].deadline \/ NextDue]]
        BY <1>13, <1>a, <2>4 DEF Register, WakeTypes
      <3>2. sig[r] \in Signal /\ rcv[r] \in Place
        BY <1>a DEF WakeTypes
      <3>3. [sig[r] EXCEPT !.waiter = TRUE] \in Signal
        BY <3>2 DEF Signal
      <3>4. PICK s \in Signal : s = [sig[r] EXCEPT !.waiter = TRUE]
        BY <3>3
      <3>5. s.bound = sig[r].bound /\ s.waiter = TRUE /\ s.closed = sig[r].closed
        BY <3>2, <3>4 DEF Signal
      <3>6. PICK timer \in BOOLEAN : timer = (rcv[r].deadline \/ NextDue)
        BY <3>2 DEF Place
      <3>7. [rcv[r] EXCEPT !.at = "waiting", !.timer = timer] \in Place
        BY <3>2 DEF Place, Where
      <3>8. PICK p \in Place : p = [rcv[r] EXCEPT !.at = "waiting", !.timer = timer]
        BY <3>7
      <3>9. p.at = "waiting" /\ p.timer = timer
        BY <3>2, <3>8 DEF Place
      <3>10. /\ sig' \in [Receiver -> Signal] /\ sig'[r] = s
             /\ \A q \in Receiver : q # r => sig'[q] = sig[q]
        BY <1>a, <3>1, <3>4 DEF WakeTypes
      <3>11. /\ rcv' \in [Receiver -> Place] /\ rcv'[r] = p
             /\ \A q \in Receiver : q # r => rcv'[q] = rcv[q]
        BY <1>a, <3>1, <3>6, <3>8 DEF WakeTypes
      <3>12. Claimable' = Claimable /\ Unsettled' = Unsettled
        BY <2>2, LettersStay
      <3>13. ~timer => Unsettled \subseteq Claimable
        BY <3>6 DEF NextDue, Unsettled, Claimable
      <3>14. Notified(r)' = Notified(r)
        BY <2>2 DEF Notified
      <3>15. ~timer => Unsettled' = {} \/ Notified(r)'
        BY <2>1, <3>12, <3>13, <3>14 DEF Attentive
      <3>16. Attentive(r)'
        <4>1. /\ rcv'[r].at = "waiting" /\ rcv'[r].timer = timer
              /\ sig'[r].bound = sig[r].bound /\ sig'[r].waiter = TRUE
              /\ sig'[r].closed = sig[r].closed
          BY <3>5, <3>9, <3>10, <3>11
        <4>2. sig[r].bound
          BY <2>1 DEF Attentive
        <4>3. QED BY <2>1, <3>15, <4>1, <4>2 DEF Attentive
      <3>17. Claimable' \subseteq Claimable /\ Unsettled' \subseteq Unsettled /\ owed \subseteq owed'
        BY <2>2, <3>12
      <3>18. \A q \in Receiver : Attentive(q)'
        BY <2>2, <3>10, <3>11, <3>16, <3>17, AttentiveStep
      <3>19. QED BY <1>a, <2>2, <3>10, <3>11, <3>18 DEF WakeTypes
    <2>5. QED BY <2>3, <2>4
  <1>14. ASSUME NEW r \in Receiver, TimesOut(r) PROVE Goal
    <2>1. /\ rcv[r].at = "waiting" /\ Attentive(r) /\ ~sig[r].closed
          /\ calls' = calls /\ owed' = owed /\ letter' = letter
          /\ sig' = [sig EXCEPT ![r] = [sig[r] EXCEPT !.waiter = FALSE]]
      BY <1>14, <1>a DEF TimesOut, Attentive, WakeTypes
    <2>2. PICK at \in {"claim", "out"} : At(r, at)
      BY <1>14 DEF TimesOut
    <2>3. sig[r] \in Signal
      BY <1>a DEF WakeTypes
    <2>4. [sig[r] EXCEPT !.waiter = FALSE] \in Signal
      BY <2>3 DEF Signal
    <2>5. PICK s \in Signal : s = [sig[r] EXCEPT !.waiter = FALSE]
      BY <2>4
    <2>6. s.bound = sig[r].bound /\ s.waiter = FALSE /\ s.closed = sig[r].closed
      BY <2>3, <2>5 DEF Signal
    <2>7. /\ sig' \in [Receiver -> Signal] /\ sig'[r] = s
          /\ \A q \in Receiver : q # r => sig'[q] = sig[q]
      BY <1>a, <2>1, <2>5 DEF WakeTypes
    <2>8. /\ rcv' \in [Receiver -> Place] /\ rcv'[r].at = at
          /\ \A q \in Receiver : q # r => rcv'[q] = rcv[q]
      BY <1>a, <2>2, AtEffect DEF Where
    <2>9. Attentive(r)'
      <3>1. sig[r].bound
        BY <2>1 DEF Attentive
      <3>2. QED BY <2>1, <2>6, <2>7, <2>8, <3>1 DEF Attentive
    <2>10. Claimable' \subseteq Claimable /\ Unsettled' \subseteq Unsettled /\ owed \subseteq owed'
      BY <2>1, LettersStay
    <2>11. \A q \in Receiver : Attentive(q)'
      BY <2>1, <2>7, <2>8, <2>9, <2>10, AttentiveStep
    <2>12. QED BY <1>a, <2>1, <2>7, <2>8, <2>11 DEF WakeTypes
  <1>15. ASSUME NEW r \in Receiver, Receive(r) PROVE Goal
    <2>1. /\ ~sig[r].closed /\ calls' = calls /\ owed' = owed /\ letter' = letter
          /\ sig' = [sig EXCEPT ![r] = [sig[r] EXCEPT !.bound = TRUE, !.pending = FALSE,
                                          !.moved = sig[r].moved \/ sig[r].pending]]
          /\ rcv[r].at = "out"
      BY <1>15, <1>a DEF Receive, WakeTypes
    <2>2. PICK timed \in BOOLEAN :
            rcv' = [rcv EXCEPT ![r] = [rcv[r] EXCEPT !.at = "claim", !.deadline = timed]]
      BY <1>15, <1>a DEF Receive, WakeTypes
    <2>3. sig[r] \in Signal /\ rcv[r] \in Place /\ Attentive(r)
      BY <1>a DEF WakeTypes
    <2>4. PICK m \in BOOLEAN : m = (sig[r].moved \/ sig[r].pending)
      BY <2>3 DEF Signal
    <2>5. [sig[r] EXCEPT !.bound = TRUE, !.pending = FALSE, !.moved = m] \in Signal
      BY <2>3 DEF Signal
    <2>6. PICK s \in Signal : s = [sig[r] EXCEPT !.bound = TRUE, !.pending = FALSE, !.moved = m]
      BY <2>5
    <2>7. s.bound = TRUE /\ s.waiter = sig[r].waiter /\ s.closed = sig[r].closed
      BY <2>3, <2>6 DEF Signal
    <2>8. /\ sig' \in [Receiver -> Signal] /\ sig'[r] = s
          /\ \A q \in Receiver : q # r => sig'[q] = sig[q]
      BY <1>a, <2>1, <2>4, <2>6 DEF WakeTypes
    <2>9. [rcv[r] EXCEPT !.at = "claim", !.deadline = timed] \in Place
      BY <2>3 DEF Place, Where
    <2>10. PICK p \in Place : p = [rcv[r] EXCEPT !.at = "claim", !.deadline = timed]
      BY <2>9
    <2>11. p.at = "claim"
      BY <2>3, <2>10 DEF Place
    <2>12. /\ rcv' \in [Receiver -> Place] /\ rcv'[r] = p
           /\ \A q \in Receiver : q # r => rcv'[q] = rcv[q]
      BY <1>a, <2>2, <2>10 DEF WakeTypes
    <2>13. Attentive(r)'
      <3>1. ~sig[r].waiter
        BY <2>1, <2>3 DEF Attentive
      <3>2. /\ rcv'[r].at = "claim" /\ sig'[r].bound = TRUE /\ sig'[r].waiter = sig[r].waiter
            /\ sig'[r].closed = sig[r].closed
        BY <2>7, <2>8, <2>11, <2>12
      <3>3. QED BY <2>1, <2>3, <3>1, <3>2 DEF Attentive
    <2>14. Claimable' \subseteq Claimable /\ Unsettled' \subseteq Unsettled /\ owed \subseteq owed'
      BY <2>1, LettersStay
    <2>15. \A q \in Receiver : Attentive(q)'
      BY <2>1, <2>8, <2>12, <2>13, <2>14, AttentiveStep
    <2>16. QED BY <1>a, <2>1, <2>8, <2>12, <2>15 DEF WakeTypes
  <1>16. ASSUME UNCHANGED wakeVars PROVE Goal
    <2>1. /\ letter' = letter /\ owed' = owed /\ sig' = sig /\ calls' = calls /\ rcv' = rcv
      BY <1>16 DEF wakeVars
    <2>2. Claimable' = Claimable /\ Unsettled' = Unsettled
      BY <2>1, LettersStay
    <2>3. ASSUME NEW q \in Receiver PROVE Attentive(q)'
      BY <1>a, <2>1, <2>2, AttentiveKept DEF Notified
    <2>4. QED BY <1>a, <2>1, <2>3 DEF WakeTypes
  <1>17. Goal
    BY <1>1, <1>2, <1>3, <1>4, <1>5, <1>6, <1>9, <1>10, <1>11, <1>12, <1>13, <1>14, <1>15, <1>16
      DEF WakeNext, LoopStep
  <1>18. QED BY <1>17 DEF WakeInv

LEMMA WakeStart == WakeInit => WakeInv
  <1> SUFFICES ASSUME WakeInit PROVE WakeInv
    OBVIOUS
  <1>1. [status |-> "absent", due |-> FALSE, by |-> NoReceiver, attempt |-> 0] \in LetterRow
    BY WakeAssumption DEF LetterRow
  <1>2. letter \in [Letter -> LetterRow] /\ owed \subseteq Letter
    BY <1>1 DEF WakeInit
  <1>3. /\ [bound |-> FALSE, pending |-> FALSE, closed |-> FALSE, waiter |-> FALSE,
            moved |-> FALSE] \in Signal
        /\ Out \in Place /\ Out.at = "out"
    BY DEF Signal, Out, Place, Where
  <1>4. sig \in [Receiver -> Signal] /\ rcv \in [Receiver -> Place] /\ calls \in [Receiver -> Nat]
    BY <1>3 DEF WakeInit
  <1>5. ASSUME NEW r \in Receiver PROVE Attentive(r)
    <2>1. rcv[r].at = "out" /\ sig[r].waiter = FALSE
      BY <1>3 DEF WakeInit
    <2>2. sig[r].waiter = (rcv[r].at = "waiting")
      BY <2>1
    <2>3. QED BY <2>1, <2>2 DEF Attentive
  <1>6. QED BY <1>2, <1>4, <1>5 DEF WakeInv, WakeTypes

(* A receiver of the mailbox never sleeps without a timer on a due letter    *)
(* that nobody will wake it for: the notification is owed by the thread that *)
(* committed the letter, or scheduled on the receiver's loop (receive() and  *)
(* wait_for_change() against enqueue(), nack() and close()).                 *)
THEOREM NoLostWakeAlways == WakeSpec => []NoLostWake
  <1>1. WakeInv => NoLostWake
    <2> SUFFICES ASSUME WakeInv PROVE NoLostWake
      OBVIOUS
    <2>1. WakeTypeOK
      <3>1. letter \in [Letter -> [status: {"absent", "pending", "leased", "retry_wait", "delivered"},
                                   due: BOOLEAN, by: Receiver \cup {NoReceiver},
                                   attempt: 0 .. MaxTry]]
        BY DEF WakeInv, WakeTypes, LetterRow
      <3>2. ASSUME NEW r \in Receiver
            PROVE  /\ sig[r].moved \in BOOLEAN /\ calls[r] \in Nat /\ rcv[r].at \in Where
                   /\ sig[r].waiter = (rcv[r].at = "waiting")
        <4>1. sig[r] \in Signal /\ calls[r] \in Nat /\ rcv[r] \in Place /\ Attentive(r)
          BY DEF WakeInv, WakeTypes
        <4>2. QED BY <4>1 DEF Signal, Place, Attentive
      <3>3. QED BY <3>1, <3>2 DEF WakeInv, WakeTypes, WakeTypeOK, Where
    <2>2. DueLetters \subseteq Unsettled
      <3>1. \A l \in Letter : letter[l] \in LetterRow
        BY DEF WakeInv, WakeTypes
      <3>2. QED BY <3>1 DEF DueLetters, Unsettled, LetterRow
    <2>3. QED BY <2>1, <2>2 DEF NoLostWake, WakeInv, Attentive, Notified
  <1>2. QED BY <1>1, WakeStart, WakeStep, PTL DEF WakeSpec

-----------------------------------------------------------------------------
(* The readiness of the project map.                                        *)

(* The rows of the tables and the statuses of the map.                      *)
Candidate == [hash : Version, status : {"none", "candidate", "confirmed", "rejected", "stale"}]

Annotation == [path : Path, hash : Version,
               status : {"none", "active", "pending", "stale", "rejected"},
               objection : {"none", "pending", "resolved"}, stray : BOOLEAN]

MapStatus == {"not_scanned", "structure_ready", "semantic_scanning", "needs_arbitration",
              "ready", "failed", "stale"}
SemStatus == {"not_started", "pending", "running", "completed", "failed"}
Stage == {"idle", "enter", "batch", "commit"}

FileTypes ==
    /\ file \in [Path -> Version] /\ edits \in 0 .. MaxEdit
    /\ indexed \in [Path -> Version]
    /\ blind \in [Path -> {"none", "open", "routed"}]
    /\ faults \in 0 .. MaxFault

(* A candidate has a fingerprint; what is published of it is agreed.         *)
CandidateInv ==
    /\ iface \in [Path -> Candidate]
    /\ published \in [Path -> Version] /\ agreed \in [Path -> Version]
    /\ \A f \in Path : iface[f].status # "none" => iface[f].hash # 0
    /\ PublishedIsAgreed

(* The run ids given out are those up to runSeq, one scanner at work has     *)
(* each; the map's run is one of them.                                      *)
Tokens ==
    /\ runId <= runSeq
    /\ \A s \in Scanner : pc[s] # "idle" => token[s] \in 1 .. runSeq
    /\ \A s, q \in Scanner : pc[s] # "idle" /\ pc[q] # "idle" /\ token[s] = token[q] => s = q

Held(s) == pc[s] # "idle" /\ token[s] = runId

(* Nobody holds a run that is over, nor one that will be continued.          *)
RunOver ==
    /\ sem = "running" => runId # 0
    /\ interrupted => sem = "pending" /\ runId # 0
    /\ sem \in {"failed", "completed"} \/ interrupted => \A s \in Scanner : ~Held(s)

RunInv ==
    /\ scan \in MapStatus /\ sem \in SemStatus
    /\ runId \in 0 .. MaxRun /\ runSeq \in 0 .. MaxRun /\ interrupted \in BOOLEAN
    /\ pc \in [Scanner -> Stage]
    /\ token \in [Scanner -> 0 .. MaxRun] /\ calm \in [Scanner -> BOOLEAN]
    /\ Tokens /\ RunOver

(* The objections that wait for a person come from superseded scanners.      *)
Arbitrated == \A a \in Pending : ann[a].stray

(* A scanner that found no objection and may still commit is not wrong.      *)
Counted(s) == Held(s) /\ pc[s] = "commit" /\ calm[s] /\ sem = "running" /\ Scannable

ObjectionInv ==
    /\ ann \in [Ann -> Annotation]
    /\ scan = "ready" => sem = "completed" /\ Arbitrated
    /\ \A s \in Scanner : Counted(s) => Arbitrated

MapInv == FileTypes /\ CandidateInv /\ RunInv /\ ObjectionInv

LEMMA Versions == 0 \in Version /\ 1 \in Version /\ \A e \in 0 .. MaxEdit : e < MaxEdit => e + 2 \in Version
  BY MapReadinessAssumption DEF Version

LEMMA FileStep == FileTypes /\ [MapNext]_vars => FileTypes'
  <1> SUFFICES ASSUME FileTypes, [MapNext]_vars PROVE FileTypes'
    OBVIOUS
  <1>a. \A f \in Path : Analysed(f) \in {"none", "open", "routed"}
    BY DEF Analysed
  <1>1. ASSUME NEW f \in Path, Edit(f) PROVE FileTypes'
    <2>1. PICK v \in {0, edits + 2} : file' = [file EXCEPT ![f] = v]
      BY <1>1 DEF Edit
    <2>2. v \in Version
      BY <1>1, Versions DEF Edit, FileTypes
    <2>3. QED BY <1>1, <2>1, <2>2, MapReadinessAssumption DEF Edit, FileTypes
  <1>2. ASSUME Rescan PROVE FileTypes'
    BY <1>2, <1>a DEF Rescan, FileTypes
  <1>3. ASSUME NEW f \in Path, Refresh(f) PROVE FileTypes'
    BY <1>3, <1>a DEF Refresh, FileTypes
  <1>4. ASSUME RescanFails \/ Degrade \/ Restart \/ \E s \in Scanner : ScanFails(s) PROVE FileTypes'
    BY <1>4, MapReadinessAssumption DEF RescanFails, Degrade, Restart, ScanFails, FileTypes
  <1>5. ASSUME NEW s \in Scanner, Batch(s) PROVE FileTypes'
    BY <1>5 DEF Batch, FileTypes
  <1>6. ASSUME UNCHANGED <<file, edits, indexed, blind, faults>> PROVE FileTypes'
    BY <1>6 DEF FileTypes
  <1>7. ASSUME NEW s \in Scanner, EnterScan(s) \/ CountPending(s) \/ CommitScan(s) \/ Claim(s)
        PROVE  FileTypes'
    BY <1>6, <1>7 DEF EnterScan, CountPending, CommitScan, Claim
  <1>8. ASSUME \/ \E f \in Path : Propose(f) \/ DecideCandidate(f)
               \/ \E a \in Ann : ResolveObjection(a)
               \/ UNCHANGED vars
        PROVE  FileTypes'
    BY <1>6, <1>8 DEF Propose, DecideCandidate, ResolveObjection, vars
  <1>9. QED BY <1>1, <1>2, <1>3, <1>4, <1>5, <1>7, <1>8
      DEF MapNext, ScanNext, CandidateNext, CodeNext, ScanStep

(* The candidates follow the code map.                                      *)
LEMMA CandidatesFollow ==
    ASSUME CandidateInv, NEW idx \in [Path -> Version], RefreshCandidates(idx)
    PROVE  CandidateInv'
  <1>1. PICK now \in [Path -> Candidate] :
          /\ now = [f \in Path |->
                  IF idx[f] # 0 THEN [hash |-> idx[f], status |-> Kept(f, idx[f])]
                  ELSE IF iface[f].status \in {"candidate", "confirmed"}
                       THEN [iface[f] EXCEPT !.status = "stale"] ELSE iface[f]]
    <2>1. ASSUME NEW f \in Path
          PROVE  (IF idx[f] # 0 THEN [hash |-> idx[f], status |-> Kept(f, idx[f])]
                  ELSE IF iface[f].status \in {"candidate", "confirmed"}
                       THEN [iface[f] EXCEPT !.status = "stale"] ELSE iface[f]) \in Candidate
      <3>1. iface[f] \in Candidate /\ idx[f] \in Version
        BY DEF CandidateInv
      <3>2. [hash |-> idx[f], status |-> Kept(f, idx[f])] \in Candidate
        BY <3>1 DEF Candidate, Kept
      <3>3. [iface[f] EXCEPT !.status = "stale"] \in Candidate
        BY <3>1 DEF Candidate
      <3>4. QED BY <3>1, <3>2, <3>3
    <2>2. QED BY <2>1
  <1>2. iface' = now /\ Republished(now) /\ agreed' = agreed
    BY <1>1 DEF RefreshCandidates
  <1>3. published' = [f \in Path |-> IF now[f].status = "confirmed" THEN now[f].hash
                                     ELSE IF iface[f].status = "rejected" THEN published[f] ELSE 0]
    BY <1>2 DEF Republished
  <1>4. ASSUME NEW f \in Path
        PROVE  /\ published'[f] \in Version
               /\ now[f].status # "none" => now[f].hash # 0
               /\ now[f].status = "confirmed" => agreed[f] = now[f].hash
               /\ published'[f] # 0 <=> now[f].status = "confirmed"
               /\ published'[f] # 0 => published'[f] = now[f].hash
    <2>1. /\ iface[f] \in Candidate /\ now[f] \in Candidate /\ published[f] \in Version
          /\ idx[f] \in Version
          /\ iface[f].status # "none" => iface[f].hash # 0
          /\ iface[f].status = "confirmed" => agreed[f] = iface[f].hash
          /\ published[f] # 0 <=> iface[f].status = "confirmed"
      BY DEF CandidateInv, PublishedIsAgreed
    <2>2. published'[f] = (IF now[f].status = "confirmed" THEN now[f].hash
                           ELSE IF iface[f].status = "rejected" THEN published[f] ELSE 0)
      BY <1>3
    <2>3. CASE idx[f] # 0
      <3>1. now[f] = [hash |-> idx[f], status |-> Kept(f, idx[f])]
        BY <1>1, <2>3
      <3>2. /\ now[f].hash = idx[f]
            /\ now[f].status = "confirmed" => iface[f].hash = idx[f] /\ iface[f].status = "confirmed"
        BY <3>1 DEF Kept
      <3>3. QED BY <2>1, <2>2, <2>3, <3>2, Versions DEF Candidate
    <2>4. CASE idx[f] = 0 /\ iface[f].status \in {"candidate", "confirmed"}
      <3>1. now[f] = [iface[f] EXCEPT !.status = "stale"]
        BY <1>1, <2>4
      <3>2. now[f].status = "stale" /\ now[f].hash = iface[f].hash
        BY <2>1, <3>1 DEF Candidate
      <3>3. QED BY <2>1, <2>2, <2>4, <3>2, Versions
    <2>5. CASE idx[f] = 0 /\ iface[f].status \notin {"candidate", "confirmed"}
      <3>1. now[f] = iface[f]
        BY <1>1, <2>5
      <3>2. QED BY <2>1, <2>2, <2>5, <3>1, Versions
    <2>6. QED BY <2>3, <2>4, <2>5
  <1>5. published' \in [Path -> Version]
    BY <1>3, <1>4
  <1>6. PublishedIsAgreed'
    BY <1>2, <1>4 DEF PublishedIsAgreed
  <1>7. QED BY <1>2, <1>4, <1>5, <1>6 DEF CandidateInv

LEMMA CandidateStep == FileTypes /\ CandidateInv /\ [MapNext]_vars => CandidateInv'
  <1> SUFFICES ASSUME FileTypes, CandidateInv, [MapNext]_vars PROVE CandidateInv'
    OBVIOUS
  <1>1. ASSUME Rescan PROVE CandidateInv'
    BY <1>1, CandidatesFollow DEF Rescan, FileTypes
  <1>2. ASSUME NEW f \in Path, Refresh(f) PROVE CandidateInv'
    <2>1. [indexed EXCEPT ![f] = file[f]] \in [Path -> Version]
      BY DEF FileTypes
    <2>2. PICK idx \in [Path -> Version] : idx = [indexed EXCEPT ![f] = file[f]]
      BY <2>1
    <2>3. RefreshCandidates(idx)
      BY <1>2, <2>2 DEF Refresh
    <2>4. QED BY <2>3, CandidatesFollow
  <1>3. ASSUME NEW f \in Path, DecideCandidate(f) PROVE CandidateInv'
    <2>1. iface[f] \in Candidate /\ iface[f].hash \in Version /\ iface[f].hash # 0
      BY <1>3 DEF CandidateInv, Candidate, DecideCandidate
    <2>2. PICK d \in {"confirmed", "rejected"} :
            /\ iface' = [iface EXCEPT ![f] = [iface[f] EXCEPT !.status = d]]
            /\ published' = [published EXCEPT ![f] = IF d = "confirmed" THEN iface[f].hash ELSE 0]
            /\ agreed' = IF d = "confirmed" THEN [agreed EXCEPT ![f] = iface[f].hash] ELSE agreed
      <3>1. CASE agreed' = [agreed EXCEPT ![f] = iface[f].hash] /\ iface' = [iface EXCEPT ![f].status = "confirmed"]
                 /\ published' = [published EXCEPT ![f] = iface[f].hash]
        BY <3>1 DEF CandidateInv
      <3>2. CASE agreed' = agreed /\ iface' = [iface EXCEPT ![f].status = "rejected"]
                 /\ published' = [published EXCEPT ![f] = 0]
        BY <3>2 DEF CandidateInv
      <3>3. QED BY <1>3, <3>1, <3>2 DEF DecideCandidate
    <2>3. [iface[f] EXCEPT !.status = d] \in Candidate
      BY <2>1 DEF Candidate
    <2>4. PICK c \in Candidate : c = [iface[f] EXCEPT !.status = d]
      BY <2>3
    <2>5. c.status = d /\ c.hash = iface[f].hash
      BY <2>1, <2>4 DEF Candidate
    <2>6. /\ iface' \in [Path -> Candidate] /\ iface'[f] = c
          /\ \A g \in Path : g # f => iface'[g] = iface[g]
      BY <2>2, <2>4 DEF CandidateInv
    <2>7. /\ published' \in [Path -> Version]
          /\ published'[f] = (IF d = "confirmed" THEN iface[f].hash ELSE 0)
          /\ \A g \in Path : g # f => published'[g] = published[g]
      BY <2>1, <2>2, Versions DEF CandidateInv
    <2>8. /\ agreed' \in [Path -> Version]
          /\ d = "confirmed" => agreed'[f] = iface[f].hash
          /\ \A g \in Path : g # f => agreed'[g] = agreed[g]
      BY <2>1, <2>2 DEF CandidateInv
    <2>9. PublishedIsAgreed'
      <3>1. ASSUME NEW g \in Path, g # f
            PROVE  /\ iface'[g].status = "confirmed" => agreed'[g] = iface'[g].hash
                   /\ published'[g] # 0 <=> iface'[g].status = "confirmed"
                   /\ published'[g] # 0 => published'[g] = iface'[g].hash
        BY <2>6, <2>7, <2>8, <3>1 DEF CandidateInv, PublishedIsAgreed
      <3>2. /\ iface'[f].status = "confirmed" => agreed'[f] = iface'[f].hash
            /\ published'[f] # 0 <=> iface'[f].status = "confirmed"
            /\ published'[f] # 0 => published'[f] = iface'[f].hash
        BY <2>1, <2>5, <2>6, <2>7, <2>8
      <3>3. QED BY <3>1, <3>2 DEF PublishedIsAgreed
    <2>10. \A g \in Path : iface'[g].status # "none" => iface'[g].hash # 0
      BY <2>1, <2>5, <2>6 DEF CandidateInv
    <2>11. QED BY <2>6, <2>7, <2>8, <2>9, <2>10 DEF CandidateInv
  <1>4. ASSUME UNCHANGED candidateVars PROVE CandidateInv'
    BY <1>4 DEF CandidateInv, PublishedIsAgreed, candidateVars
  <1>5. ASSUME NEW s \in Scanner, Claim(s) \/ ScanStep(s) PROVE CandidateInv'
    BY <1>4, <1>5 DEF Claim, ScanStep, EnterScan, Batch, CountPending, CommitScan, ScanFails
  <1>6. ASSUME \/ \E f \in Path : Edit(f) \/ Propose(f)
               \/ \E a \in Ann : ResolveObjection(a)
               \/ RescanFails \/ Degrade \/ Restart \/ UNCHANGED vars
        PROVE  CandidateInv'
    BY <1>4, <1>6 DEF Edit, Propose, ResolveObjection, RescanFails, Degrade, Restart, vars
  <1>7. QED BY <1>1, <1>2, <1>3, <1>5, <1>6 DEF MapNext, ScanNext, CandidateNext, CodeNext

(* The run stays: scanners may move on between the await points of their run. *)
LEMMA RunKept ==
    ASSUME RunInv, scan' \in MapStatus, UNCHANGED <<sem, runId, runSeq, interrupted, token>>,
           pc' \in [Scanner -> Stage], calm' \in [Scanner -> BOOLEAN],
           \A s \in Scanner : pc'[s] # "idle" => pc[s] # "idle"
    PROVE  RunInv'
  <1>1. Tokens'
    BY DEF RunInv, Tokens
  <1>2. RunOver'
    BY DEF RunInv, RunOver, Held
  <1>3. QED BY <1>1, <1>2 DEF RunInv

(* A scanner leaves; the run it holds may end with it.                       *)
LEMMA RunLeft ==
    ASSUME RunInv, NEW s \in Scanner, Leave(s), scan' \in MapStatus, sem' \in SemStatus,
           UNCHANGED <<runId, runSeq, interrupted>>,
           \/ sem' = sem
           \/ sem = "running" /\ sem' = "pending"
           \/ sem = "running" /\ Held(s) /\ sem' \in {"completed", "failed"}
    PROVE  RunInv'
  <1>1. /\ pc' \in [Scanner -> Stage] /\ pc'[s] = "idle"
        /\ \A q \in Scanner : q # s => pc'[q] = pc[q]
        /\ token' \in [Scanner -> 0 .. MaxRun]
        /\ \A q \in Scanner : q # s => token'[q] = token[q]
        /\ calm' \in [Scanner -> BOOLEAN]
    BY MapReadinessAssumption DEF Leave, Go, RunInv, Stage
  <1>2. Tokens'
    BY <1>1 DEF RunInv, Tokens
  <1>3. \A q \in Scanner : Held(q)' => Held(q) /\ q # s
    BY <1>1 DEF Held
  <1>4. interrupted => sem' = sem
    BY DEF RunInv, RunOver
  <1>5. Held(s) => \A q \in Scanner : q # s => ~Held(q)
    BY DEF RunInv, Tokens, Held
  <1>6. sem' \in {"failed", "completed"} \/ interrupted => \A q \in Scanner : ~Held(q)'
    BY <1>3, <1>4, <1>5 DEF RunInv, RunOver
  <1>7. RunOver'
    BY <1>4, <1>6 DEF RunInv, RunOver
  <1>8. QED BY <1>1, <1>2, <1>7 DEF RunInv

LEMMA TerminalEffect ==
    ASSUME RunInv, NEW s \in Scanner, pc[s] # "idle", NEW semStatus \in {"completed", "failed"},
           NEW mapStatus \in MapStatus, Terminal(s, semStatus, mapStatus)
    PROVE  /\ scan' \in MapStatus /\ sem' \in SemStatus
           /\ \/ sem' = sem
              \/ sem = "running" /\ sem' = "pending"
              \/ sem = "running" /\ Held(s) /\ sem' \in {"completed", "failed"}
           /\ \/ scan' = scan
              \/ Owns(s) /\ scan' = mapStatus /\ sem' = semStatus
  BY DEF Terminal, Owns, RunInv, Held, SemStatus

(* A request gets a run of its own: the one to be continued, which nobody    *)
(* holds, or a new one.                                                     *)
LEMMA ClaimedRun ==
    ASSUME RunInv, NEW s \in Scanner, Claim(s)
    PROVE  RunInv'
  <1>1. /\ pc[s] = "idle" /\ sem \in {"pending", "not_started", "failed"} /\ sem' = "running"
        /\ NextRunId <= MaxRun /\ runId' = NextRunId
        /\ runSeq' = (IF NextRunId > runSeq THEN NextRunId ELSE runSeq)
        /\ interrupted' = (IF sem # "failed" /\ runId # 0 THEN FALSE ELSE interrupted)
        /\ token' = [token EXCEPT ![s] = NextRunId]
        /\ pc' = [pc EXCEPT ![s] = "enter"]
        /\ scan' = scan /\ calm' = calm
    BY DEF Claim, Go
  <1>2. /\ scan \in MapStatus /\ runId \in Nat /\ runSeq \in Nat /\ MaxRun \in Nat
        /\ runId <= runSeq /\ runSeq <= MaxRun /\ interrupted \in BOOLEAN
    BY MapReadinessAssumption DEF RunInv, Tokens
  <1>3. PICK n \in 1 .. MaxRun :
          /\ n = NextRunId
          /\ \/ n = runSeq + 1
             \/ n = runId /\ (sem = "failed" \/ interrupted)
    <2>1. NextRunId \in 1 .. MaxRun
      BY <1>1, <1>2 DEF NextRunId
    <2>2. \/ NextRunId = runSeq + 1
          \/ NextRunId = runId /\ (sem = "failed" \/ interrupted)
      BY DEF NextRunId
    <2>3. QED BY <2>1, <2>2
  <1>4. \A q \in Scanner : pc[q] # "idle" => token[q] # n
    BY <1>2, <1>3 DEF RunInv, Tokens, RunOver, Held
  <1>5. runSeq' \in 0 .. MaxRun /\ n <= runSeq' /\ runSeq <= runSeq'
    BY <1>1, <1>2, <1>3
  <1>6. /\ pc' \in [Scanner -> Stage] /\ pc'[s] = "enter"
        /\ \A q \in Scanner : q # s => pc'[q] = pc[q]
        /\ token' \in [Scanner -> 0 .. MaxRun] /\ token'[s] = n
        /\ \A q \in Scanner : q # s => token'[q] = token[q]
    BY <1>1, <1>3 DEF RunInv, Stage
  <1>7. Tokens'
    <2>1. runId' <= runSeq'
      BY <1>1, <1>3, <1>5
    <2>2. ASSUME NEW q \in Scanner, pc'[q] # "idle" PROVE token'[q] \in 1 .. runSeq'
      <3>1. CASE q = s
        BY <1>5, <1>6, <3>1, <1>2
      <3>2. CASE q # s
        <4>1. token[q] \in 1 .. runSeq /\ token'[q] = token[q]
          BY <1>6, <2>2, <3>2 DEF RunInv, Tokens
        <4>2. QED BY <4>1, <1>2, <1>5
      <3>3. QED BY <3>1, <3>2
    <2>3. ASSUME NEW p \in Scanner, NEW q \in Scanner, pc'[p] # "idle", pc'[q] # "idle",
                 token'[p] = token'[q]
          PROVE  p = q
      BY <1>4, <1>6, <2>3 DEF RunInv, Tokens
    <2>4. QED BY <2>1, <2>2, <2>3 DEF Tokens
  <1>a. interrupted' = FALSE
    <2>1. interrupted => runId # 0 /\ sem # "failed"
      BY DEF RunInv, RunOver
    <2>2. CASE interrupted
      BY <1>1, <2>1, <2>2
    <2>3. CASE ~interrupted
      BY <1>1, <1>2, <2>3
    <2>4. QED BY <2>2, <2>3
  <1>8. RunOver'
    <2>1. runId' # 0
      BY <1>1, <1>3
    <2>2. QED BY <1>1, <1>a, <2>1 DEF RunOver
  <1>9. runId' \in 0 .. MaxRun /\ interrupted' \in BOOLEAN /\ sem' \in SemStatus
    <2>1. runId' \in 0 .. MaxRun
      BY <1>1, <1>3
    <2>2. interrupted' \in BOOLEAN
      BY <1>a
    <2>3. sem' \in SemStatus
      BY <1>1 DEF SemStatus
    <2>4. QED BY <2>1, <2>2, <2>3
  <1>10. QED BY <1>1, <1>5, <1>6, <1>7, <1>8, <1>9 DEF RunInv

LEMMA RunStep == RunInv /\ [MapNext]_vars => RunInv'
  <1> SUFFICES ASSUME RunInv, [MapNext]_vars PROVE RunInv'
    OBVIOUS
  <1>1. ASSUME Rescan PROVE RunInv'
    <2>1. /\ scan' = "structure_ready" /\ sem' = "pending" /\ runId' = 0 /\ interrupted' = FALSE
          /\ runSeq' = runSeq /\ pc' = pc /\ token' = token /\ calm' = calm
      BY <1>1 DEF Rescan, scannerVars
    <2>2. Tokens'
      BY <2>1 DEF RunInv, Tokens
    <2>3. RunOver'
      BY <2>1 DEF RunOver
    <2>4. runId' \in 0 .. MaxRun
      BY <2>1, MapReadinessAssumption
    <2>5. interrupted' \in BOOLEAN
      BY <2>1
    <2>6. scan' \in MapStatus /\ sem' \in SemStatus
      BY <2>1 DEF MapStatus, SemStatus
    <2>7. QED BY <2>1, <2>2, <2>3, <2>4, <2>5, <2>6 DEF RunInv
  <1>2. ASSUME UNCHANGED <<sem, runId, runSeq, interrupted, scannerVars>>, scan' \in MapStatus
        PROVE  RunInv'
    BY <1>2, RunKept DEF RunInv, scannerVars
  <1>3. ASSUME \/ RescanFails \/ Degrade \/ UNCHANGED vars
               \/ \E f \in Path : Edit(f) \/ Refresh(f) \/ DecideCandidate(f)
        PROVE  RunInv'
    <2>1. UNCHANGED <<sem, runId, runSeq, interrupted, scannerVars>>
      BY <1>3 DEF RescanFails, Degrade, Edit, Refresh, DecideCandidate, vars, metaVars
    <2>2. scan' \in MapStatus
      BY <1>3 DEF RescanFails, Degrade, Edit, Refresh, DecideCandidate, vars, metaVars, RunInv,
                  MapStatus
    <2>3. QED BY <2>1, <2>2, <1>2
  <1>4. ASSUME NEW f \in Path, Propose(f) PROVE RunInv'
    <2>1. UNCHANGED <<sem, runId, runSeq, interrupted, scannerVars>>
      BY <1>4 DEF Propose
    <2>2. scan' \in MapStatus
      BY <1>4 DEF Propose, RunInv, MapStatus
    <2>3. QED BY <2>1, <2>2, <1>2
  <1>5. ASSUME NEW a \in Ann, ResolveObjection(a) PROVE RunInv'
    <2>1. UNCHANGED <<sem, runId, runSeq, interrupted, scannerVars>>
      BY <1>5 DEF ResolveObjection
    <2>2. scan' \in MapStatus
      BY <1>5 DEF ResolveObjection, StatusAfterArbitration, MapStatus
    <2>3. QED BY <2>1, <2>2, <1>2
  <1>6. ASSUME NEW s \in Scanner, Claim(s) PROVE RunInv'
    BY <1>6, ClaimedRun
  <1>7. ASSUME NEW s \in Scanner, EnterScan(s) PROVE RunInv'
    <2>1. CASE Scannable
      <3>1. /\ scan' = "semantic_scanning" /\ pc' = [pc EXCEPT ![s] = "batch"]
            /\ UNCHANGED <<sem, runId, runSeq, interrupted, token>> /\ calm' = calm
            /\ pc[s] = "enter"
        BY <1>7, <2>1 DEF EnterScan, Go
      <3>2. /\ pc' \in [Scanner -> Stage]
            /\ \A q \in Scanner : pc'[q] # "idle" => pc[q] # "idle"
        BY <3>1 DEF RunInv, Stage
      <3>3. scan' \in MapStatus /\ calm' \in [Scanner -> BOOLEAN]
        BY <3>1 DEF RunInv, MapStatus
      <3>4. QED BY <3>1, <3>2, <3>3, RunKept
    <2>2. CASE ~Scannable
      <3>1. /\ Leave(s) /\ scan' = scan /\ UNCHANGED <<runId, runSeq, interrupted>>
            /\ sem' = IF sem = "running" THEN "pending" ELSE sem
        BY <1>7, <2>2 DEF EnterScan
      <3>2. scan' \in MapStatus /\ sem' \in SemStatus
        BY <3>1 DEF RunInv, SemStatus
      <3>3. QED BY <3>1, <3>2, RunLeft
    <2>3. QED BY <2>1, <2>2
  <1>8. ASSUME NEW s \in Scanner, Batch(s) PROVE RunInv'
    <2>1. UNCHANGED <<sem, runId, runSeq, interrupted, scannerVars>> /\ scan' = scan
      BY <1>8 DEF Batch, metaVars
    <2>2. scan' \in MapStatus
      BY <2>1 DEF RunInv
    <2>3. QED BY <2>1, <2>2, <1>2
  <1>9. ASSUME NEW s \in Scanner, CountPending(s) PROVE RunInv'
    <2>1. /\ pc[s] = "batch" /\ calm' = [calm EXCEPT ![s] = Pending = {}]
          /\ pc' = [pc EXCEPT ![s] = "commit"]
          /\ UNCHANGED <<sem, runId, runSeq, interrupted, token>> /\ scan' = scan
      BY <1>9 DEF CountPending, Go, metaVars
    <2>2. /\ pc' \in [Scanner -> Stage]
          /\ \A q \in Scanner : pc'[q] # "idle" => pc[q] # "idle"
      BY <2>1 DEF RunInv, Stage
    <2>3. scan' \in MapStatus /\ calm' \in [Scanner -> BOOLEAN]
      BY <2>1 DEF RunInv
    <2>4. QED BY <2>1, <2>2, <2>3, RunKept
  <1>10. ASSUME NEW s \in Scanner, CommitScan(s) PROVE RunInv'
    <2>1. PICK m \in MapStatus : /\ m = (IF calm[s] THEN "ready" ELSE "needs_arbitration")
                                 /\ Terminal(s, "completed", m)
      BY <1>10 DEF CommitScan, MapStatus
    <2>2. pc[s] # "idle" /\ Leave(s) /\ UNCHANGED <<runId, runSeq, interrupted>>
      BY <1>10 DEF CommitScan
    <2>3. /\ scan' \in MapStatus /\ sem' \in SemStatus
          /\ \/ sem' = sem
             \/ sem = "running" /\ sem' = "pending"
             \/ sem = "running" /\ Held(s) /\ sem' \in {"completed", "failed"}
      BY <2>1, <2>2, TerminalEffect
    <2>4. QED BY <2>2, <2>3, RunLeft
  <1>11. ASSUME NEW s \in Scanner, ScanFails(s) PROVE RunInv'
    <2>1. "semantic_scanning" \in MapStatus /\ Terminal(s, "failed", "semantic_scanning")
      BY <1>11 DEF ScanFails, MapStatus
    <2>2. pc[s] # "idle" /\ Leave(s) /\ UNCHANGED <<runId, runSeq, interrupted>>
      BY <1>11 DEF ScanFails
    <2>3. /\ scan' \in MapStatus /\ sem' \in SemStatus
          /\ \/ sem' = sem
             \/ sem = "running" /\ sem' = "pending"
             \/ sem = "running" /\ Held(s) /\ sem' \in {"completed", "failed"}
      BY <2>1, <2>2, TerminalEffect
    <2>4. QED BY <2>2, <2>3, RunLeft
  <1>12. ASSUME Restart PROVE RunInv'
    <2>1. /\ pc' = [s \in Scanner |-> "idle"] /\ token' = [s \in Scanner |-> 0]
          /\ calm' = [s \in Scanner |-> FALSE]
          /\ sem' = (IF sem = "running" THEN "pending" ELSE sem)
          /\ interrupted' = (sem = "running" \/ interrupted)
          /\ scan' = scan /\ runId' = runId /\ runSeq' = runSeq
      BY <1>12 DEF Restart
    <2>2. Tokens'
      BY <2>1 DEF RunInv, Tokens
    <2>3. \A s \in Scanner : ~Held(s)'
      BY <2>1 DEF Held
    <2>4. interrupted' \in BOOLEAN
      BY <2>1 DEF RunInv
    <2>5. interrupted' => sem' = "pending" /\ runId' # 0
      BY <2>1 DEF RunInv, RunOver
    <2>6. sem' # "running"
      BY <2>1
    <2>7. RunOver'
      BY <2>3, <2>5, <2>6 DEF RunOver
    <2>8. sem' \in SemStatus
      BY <2>1 DEF RunInv, SemStatus
    <2>9. QED BY <2>1, <2>2, <2>4, <2>7, <2>8, MapReadinessAssumption DEF RunInv, Stage
  <1>13. QED BY <1>1, <1>3, <1>4, <1>5, <1>6, <1>7, <1>8, <1>9, <1>10, <1>11, <1>12
      DEF MapNext, ScanNext, CandidateNext, CodeNext, ScanStep

(* What waits for a person.                                                 *)
LEMMA CountedKept ==
    ASSUME UNCHANGED <<scan, sem, runId, pc, token, calm>>
    PROVE  \A s \in Scanner : Counted(s)' = Counted(s)
  BY DEF Counted, Held, Scannable

LEMMA AnnotationsStay ==
    ASSUME ann' = ann
    PROVE  Arbitrated' = Arbitrated /\ Pending' = Pending
  BY DEF Arbitrated, Pending

(* An annotation appears or changes; if it waits, it is a stray one.         *)
LEMMA AnnotationMoves ==
    ASSUME ann \in [Ann -> Annotation], NEW a \in Ann, NEW row \in Annotation,
           ann' = [ann EXCEPT ![a] = row]
    PROVE  /\ ann' \in [Ann -> Annotation]
           /\ row.objection # "pending" \/ row.stray => (Arbitrated => Arbitrated')
  <1>1. ann' \in [Ann -> Annotation] /\ ann'[a] = row /\ \A b \in Ann : b # a => ann'[b] = ann[b]
    OBVIOUS
  <1>2. QED BY <1>1 DEF Arbitrated, Pending

LEMMA ObjectionStep == FileTypes /\ RunInv /\ RunInv' /\ ObjectionInv /\ [MapNext]_vars => ObjectionInv'
  <1> SUFFICES ASSUME FileTypes, RunInv, RunInv', ObjectionInv, [MapNext]_vars PROVE ObjectionInv'
    OBVIOUS
  <1>0. ann \in [Ann -> Annotation]
    BY DEF ObjectionInv
  <1>1. ASSUME UNCHANGED <<scan, sem, runId, pc, token, calm>>, ann' \in [Ann -> Annotation],
               Arbitrated => Arbitrated'
        PROVE  ObjectionInv'
    <2>1. \A s \in Scanner : Counted(s)' = Counted(s)
      BY <1>1, CountedKept
    <2>2. scan' = scan /\ sem' = sem
      BY <1>1
    <2>3. scan' = "ready" => sem' = "completed" /\ Arbitrated'
      BY <1>1, <2>2 DEF ObjectionInv
    <2>4. \A s \in Scanner : Counted(s)' => Arbitrated'
      BY <1>1, <2>1 DEF ObjectionInv
    <2>5. QED BY <1>1, <2>3, <2>4 DEF ObjectionInv
  <1>2. ASSUME scan' # "ready", \A s \in Scanner : ~Counted(s)', ann' \in [Ann -> Annotation]
        PROVE  ObjectionInv'
    BY <1>2 DEF ObjectionInv
  <1>3. ASSUME NEW f \in Path, Refresh(f) PROVE ObjectionInv'
    <2>1. UNCHANGED <<scan, sem, runId, pc, token, calm>> /\ ann' = Reconciled(f)
      BY <1>3 DEF Refresh, metaVars, scannerVars
    <2>2. ASSUME NEW a \in Ann
          PROVE  /\ ann'[a] \in Annotation /\ ann'[a].stray = ann[a].stray
                 /\ ann'[a].objection = "pending" => ann[a].objection = "pending"
      <3>1. ann[a] \in Annotation
        BY <1>0
      <3>2. PICK o \in {"none", "pending", "resolved"} :
              o = IF ann[a].objection = "pending" THEN "resolved" ELSE ann[a].objection
        BY <3>1 DEF Annotation
      <3>3. ann'[a] = [ann[a] EXCEPT !.status = "stale", !.objection = o] \/ ann'[a] = ann[a]
        BY <2>1, <3>2 DEF Reconciled
      <3>4. /\ [ann[a] EXCEPT !.status = "stale", !.objection = o] \in Annotation
            /\ [ann[a] EXCEPT !.status = "stale", !.objection = o].stray = ann[a].stray
            /\ [ann[a] EXCEPT !.status = "stale", !.objection = o].objection = o
        BY <3>1 DEF Annotation
      <3>5. o # "pending"
        BY <3>2
      <3>6. QED BY <3>1, <3>3, <3>4, <3>5
    <2>3. ann' \in [Ann -> Annotation]
      BY <2>1, <2>2 DEF Reconciled
    <2>4. Arbitrated => Arbitrated'
      BY <2>2 DEF Arbitrated, Pending
    <2>5. QED BY <2>1, <2>3, <2>4, <1>1
  <1>4. ASSUME NEW f \in Path, Propose(f) PROVE ObjectionInv'
    <2>1. PICK a \in Ann, how \in {"active", "pending"} :
            /\ ann' = [ann EXCEPT ![a] =
                 [path |-> f, hash |-> file[f], status |-> how,
                  objection |-> IF how = "pending" THEN "pending" ELSE "none", stray |-> FALSE]]
            /\ scan' = IF how = "pending" THEN "needs_arbitration" ELSE scan
      BY <1>4 DEF Propose, Unused
    <2>2. UNCHANGED <<sem, runId, pc, token, calm>>
      BY <1>4 DEF Propose, scannerVars
    <2>3. PICK o \in {"none", "pending"} : o = IF how = "pending" THEN "pending" ELSE "none"
      OBVIOUS
    <2>4. file[f] \in Version
      BY DEF FileTypes
    <2>5. [path |-> f, hash |-> file[f], status |-> how, objection |-> o, stray |-> FALSE]
            \in Annotation
      BY <2>4 DEF Annotation
    <2>6. PICK row \in Annotation :
            row = [path |-> f, hash |-> file[f], status |-> how, objection |-> o, stray |-> FALSE]
      BY <2>5
    <2>7. ann' = [ann EXCEPT ![a] = row] /\ row.objection = o
      BY <2>1, <2>3, <2>6
    <2>8. ann' \in [Ann -> Annotation]
      BY <1>0, <2>7, AnnotationMoves
    <2>9. CASE how = "pending"
      <3>1. scan' = "needs_arbitration"
        BY <2>1, <2>9
      <3>2. \A s \in Scanner : ~Counted(s)'
        BY <3>1 DEF Counted, Scannable
      <3>3. QED BY <2>8, <3>1, <3>2, <1>2
    <2>10. CASE how = "active"
      <3>1. scan' = scan /\ row.objection # "pending"
        BY <2>1, <2>3, <2>7, <2>10
      <3>2. Arbitrated => Arbitrated'
        BY <1>0, <2>7, <3>1, AnnotationMoves
      <3>3. QED BY <2>2, <2>8, <3>1, <3>2, <1>1
    <2>11. QED BY <2>9, <2>10
  <1>5. ASSUME NEW a \in Ann, ResolveObjection(a) PROVE ObjectionInv'
    <2>1. PICK decision \in {"active", "rejected"} :
            ann' = [ann EXCEPT ![a] = [ann[a] EXCEPT !.status = decision, !.objection = "resolved"]]
      BY <1>5, <1>0 DEF ResolveObjection
    <2>2. scan' = StatusAfterArbitration(Pending # {a}) /\ sem' = sem
      BY <1>5 DEF ResolveObjection
    <2>3. ann[a] \in Annotation
      BY <1>0
    <2>4. [ann[a] EXCEPT !.status = decision, !.objection = "resolved"] \in Annotation
      BY <2>3 DEF Annotation
    <2>5. PICK row \in Annotation :
            row = [ann[a] EXCEPT !.status = decision, !.objection = "resolved"]
      BY <2>4
    <2>6. ann' = [ann EXCEPT ![a] = row] /\ row.objection = "resolved"
      BY <2>1, <2>3, <2>5 DEF Annotation
    <2>7. ann' \in [Ann -> Annotation]
      BY <1>0, <2>6, AnnotationMoves
    <2>8. CASE Pending # {a}
      <3>1. scan' = "needs_arbitration"
        BY <2>2, <2>8 DEF StatusAfterArbitration
      <3>2. \A s \in Scanner : ~Counted(s)'
        BY <3>1 DEF Counted, Scannable
      <3>3. QED BY <2>7, <3>1, <3>2, <1>2
    <2>9. CASE Pending = {a}
      <3>1. Arbitrated'
        BY <1>0, <2>6, <2>9 DEF Arbitrated, Pending
      <3>2. scan' = (IF sem = "completed" THEN "ready" ELSE "semantic_scanning")
        BY <2>2, <2>9 DEF StatusAfterArbitration
      <3>3. QED BY <2>2, <2>7, <3>1, <3>2 DEF ObjectionInv
    <2>10. QED BY <2>8, <2>9
  <1>6. ASSUME NEW s \in Scanner, Batch(s) PROVE ObjectionInv'
    <2>1. PICK f \in Path, a \in Ann :
            ann' = [ann EXCEPT ![a] = [path |-> f, hash |-> file[f], status |-> "pending",
                                        objection |-> "pending",
                                        stray |-> token[s] # runId \/ sem # "running"]]
      BY <1>6 DEF Batch, Open, Unused
    <2>2. /\ pc[s] = "batch" /\ UNCHANGED <<scan, sem, runId, pc, token, calm>>
      BY <1>6 DEF Batch, metaVars, scannerVars
    <2>3. PICK x \in BOOLEAN : x = (token[s] # runId \/ sem # "running")
      OBVIOUS
    <2>4. file[f] \in Version
      BY DEF FileTypes
    <2>5. [path |-> f, hash |-> file[f], status |-> "pending", objection |-> "pending", stray |-> x]
            \in Annotation
      BY <2>4 DEF Annotation
    <2>6. PICK row \in Annotation :
            row = [path |-> f, hash |-> file[f], status |-> "pending", objection |-> "pending",
                   stray |-> x]
      BY <2>5
    <2>7. ann' = [ann EXCEPT ![a] = row] /\ row.stray = x
      BY <2>1, <2>3, <2>6
    <2>8. ann' \in [Ann -> Annotation]
      BY <1>0, <2>7, AnnotationMoves
    <2>9. CASE x
      <3>1. Arbitrated => Arbitrated'
        BY <1>0, <2>7, <2>9, AnnotationMoves
      <3>2. QED BY <2>2, <2>8, <3>1, <1>1
    <2>10. CASE ~x
      <3>1. Held(s) /\ sem = "running"
        BY <2>2, <2>3, <2>10 DEF Held
      <3>2. scan' # "ready"
        BY <2>2, <3>1 DEF ObjectionInv
      <3>3. ASSUME NEW q \in Scanner, Counted(q)' PROVE FALSE
        <4>1. Counted(q)
          BY <2>2, <3>3, CountedKept
        <4>2. q = s
          BY <3>1, <4>1 DEF Counted, Held, RunInv, Tokens
        <4>3. QED BY <2>2, <4>1, <4>2 DEF Counted
      <3>4. QED BY <2>8, <3>2, <3>3, <1>2
    <2>11. QED BY <2>9, <2>10
  <1>7. ASSUME ann' = ann, scan' = "ready" => scan = "ready" /\ sem' = sem,
               \A s \in Scanner : Counted(s)' => Counted(s) \/ Arbitrated
        PROVE  ObjectionInv'
    <2>1. Arbitrated' = Arbitrated
      BY <1>7, AnnotationsStay
    <2>2. scan' = "ready" => sem' = "completed" /\ Arbitrated'
      BY <1>7, <2>1 DEF ObjectionInv
    <2>3. \A s \in Scanner : Counted(s)' => Arbitrated'
      BY <1>7, <2>1 DEF ObjectionInv
    <2>4. QED BY <1>7, <2>2, <2>3 DEF ObjectionInv
  <1>8. ASSUME Rescan PROVE ObjectionInv'
    <2>1. scan' = "structure_ready" /\ sem' = "pending" /\ ann' = ann
      BY <1>8 DEF Rescan
    <2>2. \A s \in Scanner : ~Counted(s)'
      BY <2>1 DEF Counted
    <2>3. QED BY <1>7, <2>1, <2>2
  <1>9. ASSUME RescanFails \/ Degrade PROVE ObjectionInv'
    <2>1. scan' \in {"failed", "stale"} /\ ann' = ann
      BY <1>9 DEF RescanFails, Degrade
    <2>2. \A s \in Scanner : ~Counted(s)'
      BY <2>1 DEF Counted, Scannable
    <2>3. QED BY <1>7, <2>1, <2>2
  <1>10. ASSUME Restart PROVE ObjectionInv'
    <2>1. /\ scan' = scan /\ ann' = ann /\ pc' = [s \in Scanner |-> "idle"]
          /\ sem' = IF sem = "running" THEN "pending" ELSE sem
      BY <1>10 DEF Restart
    <2>2. \A s \in Scanner : ~Counted(s)'
      BY <2>1 DEF Counted
    <2>3. scan' = "ready" => scan = "ready" /\ sem' = sem
      BY <2>1 DEF ObjectionInv
    <2>4. QED BY <1>7, <2>1, <2>2, <2>3
  <1>11. ASSUME NEW s \in Scanner, Claim(s) PROVE ObjectionInv'
    <2>1. /\ scan' = scan /\ ann' = ann /\ Scannable /\ pc[s] = "idle"
          /\ pc' = [pc EXCEPT ![s] = "enter"] /\ token' = [token EXCEPT ![s] = runId']
          /\ calm' = calm
      BY <1>11 DEF Claim, Go
    <2>2. /\ pc'[s] = "enter" /\ token'[s] = runId'
          /\ \A q \in Scanner : q # s => pc'[q] = pc[q]
      BY <2>1 DEF RunInv
    <2>3. \A q \in Scanner : ~Counted(q)'
      <3>1. ASSUME NEW q \in Scanner, Counted(q)' PROVE FALSE
        <4>1. Held(q)' /\ Held(s)' /\ pc'[q] = "commit"
          BY <2>2, <3>1 DEF Counted, Held
        <4>2. Tokens'
          BY DEF RunInv
        <4>3. q = s
          BY <4>1, <4>2 DEF Held, Tokens
        <4>4. QED BY <2>2, <4>1, <4>3
      <3>2. QED BY <3>1
    <2>4. scan' # "ready"
      BY <2>1 DEF Scannable
    <2>5. QED BY <1>2, <2>1, <2>3, <2>4, <1>0
  <1>12. ASSUME NEW s \in Scanner, EnterScan(s) PROVE ObjectionInv'
    <2>1. CASE Scannable
      <3>1. /\ scan' = "semantic_scanning" /\ pc' = [pc EXCEPT ![s] = "batch"] /\ ann' = ann
            /\ UNCHANGED <<sem, runId, token>> /\ calm' = calm /\ pc[s] = "enter"
        BY <1>12, <2>1 DEF EnterScan, Go
      <3>2. pc'[s] = "batch" /\ \A q \in Scanner : q # s => pc'[q] = pc[q]
        BY <3>1 DEF RunInv
      <3>3. \A q \in Scanner : Counted(q)' => Counted(q)
        BY <2>1, <3>1, <3>2 DEF Counted, Held
      <3>4. QED BY <3>1, <3>3, <1>7
    <2>2. CASE ~Scannable
      <3>1. /\ scan' = scan /\ ann' = ann
            /\ sem' = IF sem = "running" THEN "pending" ELSE sem
        BY <1>12, <2>2 DEF EnterScan
      <3>2. scan' = "ready" => scan = "ready" /\ sem' = sem
        BY <3>1 DEF ObjectionInv
      <3>3. \A q \in Scanner : ~Counted(q)'
        BY <2>2, <3>1 DEF Counted, Scannable
      <3>4. QED BY <3>1, <3>2, <3>3, <1>7
    <2>3. QED BY <2>1, <2>2
  <1>13. ASSUME NEW s \in Scanner, CountPending(s) PROVE ObjectionInv'
    <2>1. /\ pc[s] = "batch" /\ calm' = [calm EXCEPT ![s] = Pending = {}]
          /\ pc' = [pc EXCEPT ![s] = "commit"] /\ ann' = ann
          /\ scan' = scan /\ UNCHANGED <<sem, runId, runSeq, interrupted, token>>
      BY <1>13 DEF CountPending, Go, metaVars
    <2>2. calm'[s] = (Pending = {}) /\ \A q \in Scanner : q # s => pc'[q] = pc[q] /\ calm'[q] = calm[q]
      BY <2>1 DEF RunInv
    <2>3. ASSUME NEW q \in Scanner, Counted(q)' PROVE Counted(q) \/ Arbitrated
      <3>1. CASE q = s
        <4>1. Pending = {}
          BY <2>2, <2>3, <3>1 DEF Counted
        <4>2. QED BY <4>1 DEF Arbitrated
      <3>2. CASE q # s
        BY <2>1, <2>2, <2>3, <3>2 DEF Counted, Held, Scannable
      <3>3. QED BY <3>1, <3>2
    <2>4. QED BY <2>1, <2>3, <1>7
  <1>14. ASSUME NEW s \in Scanner, CommitScan(s) PROVE ObjectionInv'
    <2>1. PICK m \in MapStatus : /\ m = (IF calm[s] THEN "ready" ELSE "needs_arbitration")
                                 /\ Terminal(s, "completed", m)
      BY <1>14 DEF CommitScan, MapStatus
    <2>2. pc[s] = "commit" /\ Leave(s) /\ ann' = ann /\ runId' = runId
      BY <1>14 DEF CommitScan
    <2>3. CASE Owns(s)
      <3>1. sem' = "completed" /\ scan' = m
        BY <2>1, <2>3 DEF Terminal
      <3>2. \A q \in Scanner : ~Counted(q)'
        BY <3>1 DEF Counted
      <3>3. m = "ready" => Counted(s)
        BY <2>1, <2>2, <2>3 DEF Counted, Held, Owns, Scannable
      <3>4. Arbitrated' = Arbitrated
        BY <2>2, AnnotationsStay
      <3>5. scan' = "ready" => sem' = "completed" /\ Arbitrated'
        BY <3>1, <3>3, <3>4 DEF ObjectionInv
      <3>6. QED BY <1>0, <2>2, <3>2, <3>5 DEF ObjectionInv
    <2>4. CASE ~Owns(s)
      <3>1. /\ scan' = scan
            /\ sem' = IF sem = "running" /\ runId = token[s] THEN "pending" ELSE sem
        BY <2>1, <2>4 DEF Terminal
      <3>2. scan' = "ready" => scan = "ready" /\ sem' = sem
        BY <3>1 DEF ObjectionInv
      <3>3. ASSUME NEW q \in Scanner, Counted(q)' PROVE Counted(q)
        <4>1. /\ pc'[s] = "idle"
              /\ q # s => pc'[q] = pc[q] /\ token'[q] = token[q] /\ calm'[q] = calm[q]
          BY <2>2 DEF Leave, Go, RunInv
        <4>2. QED BY <2>2, <3>1, <3>3, <4>1 DEF Counted, Held, Scannable
      <3>4. QED BY <2>2, <3>1, <3>2, <3>3, <1>7
    <2>5. QED BY <2>3, <2>4
  <1>15. ASSUME NEW s \in Scanner, ScanFails(s) PROVE ObjectionInv'
    <2>1. /\ Terminal(s, "failed", "semantic_scanning") /\ ann' = ann /\ runId' = runId
          /\ Leave(s) /\ pc[s] # "idle"
      BY <1>15 DEF ScanFails
    <2>2. \/ sem' \in {"failed", "pending"} /\ sem = "running" /\ scan' \in {scan, "semantic_scanning"}
          \/ sem' = sem /\ scan' = scan
      BY <2>1 DEF Terminal, Owns
    <2>3. scan' = "ready" => scan = "ready" /\ sem' = sem
      BY <2>2 DEF ObjectionInv
    <2>4. ASSUME NEW q \in Scanner, Counted(q)' PROVE Counted(q)
      <3>1. /\ pc'[s] = "idle"
            /\ q # s => pc'[q] = pc[q] /\ token'[q] = token[q] /\ calm'[q] = calm[q]
        BY <2>1 DEF Leave, Go, RunInv
      <3>2. QED BY <2>1, <2>2, <2>4, <3>1 DEF Counted, Held, Scannable
    <2>5. QED BY <2>1, <2>3, <2>4, <1>7
  <1>16. ASSUME (\E f \in Path : Edit(f) \/ DecideCandidate(f)) \/ UNCHANGED vars
         PROVE  ObjectionInv'
    <2>1. UNCHANGED <<scan, sem, runId, pc, token, calm>> /\ ann' = ann
      BY <1>16 DEF Edit, DecideCandidate, vars, metaVars, scannerVars
    <2>2. Arbitrated => Arbitrated'
      BY <2>1, AnnotationsStay
    <2>3. QED BY <1>0, <2>1, <2>2, <1>1
  <1>17. QED BY <1>3, <1>4, <1>5, <1>6, <1>8, <1>9, <1>10, <1>11, <1>12, <1>13, <1>14, <1>15, <1>16
      DEF MapNext, ScanNext, CandidateNext, CodeNext, ScanStep

LEMMA MapStart == Init => MapInv
  <1> SUFFICES ASSUME Init PROVE MapInv
    OBVIOUS
  <1>1. FileTypes
    BY Versions, MapReadinessAssumption DEF Init, FileTypes
  <1>2. CandidateInv
    BY Versions DEF Init, CandidateInv, Candidate, PublishedIsAgreed
  <1>3. RunInv
    <2>1. 0 \in 0 .. MaxRun
      BY MapReadinessAssumption
    <2>2. Tokens
      BY DEF Init, Tokens
    <2>3. RunOver
      BY DEF Init, RunOver
    <2>4. QED BY <2>1, <2>2, <2>3 DEF Init, RunInv, MapStatus, SemStatus, Stage
  <1>4. ObjectionInv
    <2>1. NoAnn \in Annotation /\ NoAnn.objection = "none"
      BY Versions, MapReadinessAssumption DEF NoAnn, Annotation
    <2>2. Pending = {} /\ ann \in [Ann -> Annotation]
      BY <2>1 DEF Init, Pending
    <2>3. QED BY <2>2 DEF ObjectionInv, Arbitrated, Init
  <1>5. QED BY <1>1, <1>2, <1>3, <1>4 DEF MapInv

(* However scans, rescans, refreshes, edits, objections and decisions of a   *)
(* person come between one another, a map that says it is ready has a        *)
(* complete semantic scan and nothing to arbitrate, one scanner at most can  *)
(* commit, and what is published of the interfaces was agreed to (can_chat,  *)
(* _try_acquire_semantic_scan_lock, _commit_semantic_run_terminal,          *)
(* _refresh_semantic_map_candidates).                                       *)
THEOREM MapAgreedAlways == MapSpec => []MapAgreed
  <1>1. MapInv /\ [MapNext]_vars => MapInv'
    BY FileStep, CandidateStep, RunStep, ObjectionStep DEF MapInv
  <1>2. MapInv => MapAgreed
    <2> SUFFICES ASSUME MapInv PROVE MapAgreed
      OBVIOUS
    <2>1. TypeOK
      BY DEF MapInv, FileTypes, CandidateInv, RunInv, ObjectionInv, TypeOK, Candidate, Annotation,
             MapStatus, SemStatus, Stage
    <2>2. ReadyIsArbitrated
      BY DEF MapInv, ObjectionInv, Arbitrated, ReadyIsArbitrated
    <2>3. OneOwner
      <3>1. \A s \in Owners : Held(s)
        BY DEF Owners, Held
      <3>2. \A s, q \in Owners : s = q
        BY <3>1 DEF Owners, Held, MapInv, RunInv, Tokens
      <3>3. Owners = {} \/ \E s \in Owners : Owners = {s}
        BY <3>2
      <3>4. Cardinality(Owners) <= 1
        BY <3>3, FS_EmptySet, FS_Singleton
      <3>5. sem = "completed" => Owners = {}
        BY <3>1 DEF MapInv, RunInv, RunOver, Owners
      <3>6. QED BY <3>4, <3>5 DEF OneOwner
    <2>4. PublishedIsAgreed
      BY DEF MapInv, CandidateInv
    <2>5. QED BY <2>1, <2>2, <2>3, <2>4 DEF MapAgreed
  <1>3. QED BY <1>1, <1>2, MapStart, PTL DEF MapSpec

(* A refresh leaves no annotation in force that speaks of other content than *)
(* the map then has (_refresh_code_paths_in_connection,                     *)
(* _reconcile_annotations_after_refresh).                                   *)
THEOREM RefreshReconcilesAlways == MapSpec => RefreshReconciles
  <1> DEFINE Agrees ==
        \A f \in Path : Refresh(f) =>
          \A a \in Ann : (ann'[a].path = f /\ ann'[a].status = "active" /\ indexed[f] # 0)
                            => ann'[a].hash = indexed'[f]
  <1>1. MapInv /\ [MapNext]_vars => MapInv'
    BY FileStep, CandidateStep, RunStep, ObjectionStep DEF MapInv
  <1>2. MapInv => Agrees
    <2> SUFFICES ASSUME MapInv, NEW f \in Path, Refresh(f), NEW a \in Ann, indexed[f] # 0,
                        ann'[a].path = f, ann'[a].status = "active"
                 PROVE  ann'[a].hash = indexed'[f]
      OBVIOUS
    <2>1. ann[a] \in Annotation /\ indexed'[f] = file[f]
      BY DEF MapInv, ObjectionInv, FileTypes, Refresh
    <2>2. PICK o \in {"none", "pending", "resolved"} :
            o = IF ann[a].objection = "pending" THEN "resolved" ELSE ann[a].objection
      BY <2>1 DEF Annotation
    <2>3. CASE a \in Snapshots(f) /\ (file[f] = 0 \/ ann[a].hash # file[f])
      <3>1. ann'[a] = [ann[a] EXCEPT !.status = "stale", !.objection = o]
        BY <2>2, <2>3 DEF Refresh, Reconciled
      <3>2. ann'[a].status = "stale"
        BY <2>1, <3>1 DEF Annotation
      <3>3. QED BY <3>2
    <2>4. CASE ~(a \in Snapshots(f) /\ (file[f] = 0 \/ ann[a].hash # file[f]))
      <3>1. ann'[a] = ann[a]
        BY <2>4 DEF Refresh, Reconciled
      <3>2. a \in Snapshots(f)
        BY <3>1 DEF Snapshots, Live
      <3>3. QED BY <2>1, <2>4, <3>1, <3>2
    <2>5. QED BY <2>3, <2>4
  <1>3. QED BY <1>1, <1>2, MapStart, PTL DEF MapSpec, RefreshReconciles

-----------------------------------------------------------------------------
(* The plan graph and the executions of its nodes.                          *)

NodeRow == [state : {"none", "there", "archived"}, status : Status, parent : Node \union {Root}]

GraphInv == node \in [Node -> NodeRow] /\ dep \subseteq Node \X Node /\ Validated(node, dep)

WaitRow == [node : Node \union {Root}, state : {"none", "waiting", "ended"},
            outcome : Outcome \union {"none"}, outbox : {"none", "pending", "sent"}]

(* The executions there are: they are numbered in the order they came.       *)
Created == {w \in Wait : wait[w].state # "none"}

(* A node has one waiting execution; an execution that has ended has its     *)
(* outcome and its row in the outbox, and mail goes out for no other.        *)
Recorded(w) ==
    /\ mail[w] # "none" => mail[w] = wait[w].outcome /\ wait[w].state = "ended"
    /\ wait[w].outbox = "sent" => mail[w] # "none"
    /\ wait[w].state = "ended" <=> wait[w].outbox # "none"
    /\ wait[w].state = "ended" => wait[w].outcome # "none"

OneWaiting == \A n \in Node : \A w, x \in Waiting(n) : w = x

ExecInv ==
    /\ wait \in [Wait -> WaitRow] /\ mail \in [Wait -> Outcome \union {"none"}]
    /\ task \in [Coordinator -> SUBSET Wait] /\ fwd \in [Coordinator -> Wait \union {0}]
    /\ restarts \in 0 .. MaxRestart
    /\ \E k \in 0 .. MaxWait : Created = 1 .. k
    /\ \A c \in Coordinator : task[c] \subseteq Created
    /\ OneWaiting
    /\ \A w \in Wait : Recorded(w)
    /\ \A c \in Coordinator : fwd[c] # 0 => mail[fwd[c]] # "none"

LEMMA StatusSet ==
    ASSUME GraphInv, NEW n \in Node, NEW status \in Status, SetStatus(n, status)
    PROVE  /\ GraphInv' /\ dep' = dep
           /\ \A m \in Node : node'[m].state = node[m].state /\ node'[m].parent = node[m].parent
  <1>1. node[n] \in NodeRow /\ node' = [node EXCEPT ![n] = [node[n] EXCEPT !.status = status]]
    BY DEF GraphInv, SetStatus
  <1>2. /\ [node[n] EXCEPT !.status = status] \in NodeRow
        /\ [node[n] EXCEPT !.status = status].state = node[n].state
        /\ [node[n] EXCEPT !.status = status].parent = node[n].parent
    BY <1>1 DEF NodeRow
  <1>3. /\ node' \in [Node -> NodeRow] /\ dep' = dep
        /\ \A m \in Node : node'[m].state = node[m].state /\ node'[m].parent = node[m].parent
    BY <1>1, <1>2 DEF GraphInv, SetStatus
  <1>4. Hierarchy(node') = Hierarchy(node)
    BY <1>3 DEF Hierarchy
  <1>5. Validated(node', dep')
    BY <1>3, <1>4 DEF GraphInv, Validated
  <1>6. QED BY <1>3, <1>5 DEF GraphInv

(* The steps of the graph are patches and changes of a status.               *)
LEMMA GraphMoves ==
    ASSUME GraphInv, [PlanNext]_planVars
    PROVE  \/ Patch
           \/ \E n \in Node, status \in Status : SetStatus(n, status)
           \/ UNCHANGED graphVars
  <1>1. ASSUME NEW c \in Coordinator,
               RecoverExecutions(c) \/ MarkCompletion(c) \/ EndProcess(c)
        PROVE  UNCHANGED graphVars
    BY <1>1 DEF RecoverExecutions, MarkCompletion, EndProcess, graphVars
  <1>b. ASSUME NEW c \in Coordinator, NEW n \in Node, ExecutePlanNode(c, n)
        PROVE  UNCHANGED graphVars
    BY <1>b DEF ExecutePlanNode, graphVars
  <1>c. ASSUME NEW c \in Coordinator, NEW w \in Wait, RunEnds(c, w) \/ ForwardCompletion(c, w)
        PROVE  UNCHANGED graphVars
    BY <1>c DEF RunEnds, ForwardCompletion, graphVars
  <1>2. ASSUME NEW n \in Node, StartNode(n) \/ Dispatch(n) \/ Drift(n) \/ EndNode(n)
        PROVE  \E status \in Status : SetStatus(n, status)
    BY <1>2 DEF StartNode, Dispatch, Drift, EndNode, Status
  <1>3. UNCHANGED planVars => UNCHANGED graphVars
    BY DEF planVars
  <1>4. ExecNext => UNCHANGED graphVars
    BY <1>1, <1>b, <1>c DEF ExecNext
  <1>5. GraphNext => Patch \/ \E n \in Node, status \in Status : SetStatus(n, status)
    BY <1>2 DEF GraphNext
  <1>6. QED BY <1>3, <1>4, <1>5 DEF PlanNext

LEMMA PatchMoves ==
    ASSUME GraphInv, Patch
    PROVE  /\ GraphInv'
           /\ \A n \in Node : node[n].state = "archived" => node'[n].state = "archived"
           /\ \A n \in Running :
                 /\ node'[n] = node[n]
                 /\ {e \in dep : e[1] = n} = {e \in dep' : e[1] = n}
                 /\ node[n].parent # Root => node'[node[n].parent].state = "there"
  <1>1. PICK add \in AtMostOne, upd \in AtMostOne, rep \in AtMostOne, rem \in AtMostOne,
             parent \in Node \union {Root}, needs \in SUBSET Node :
          /\ Disturbed(upd \union rep, rem) = {}
          /\ \A n \in add : New(n)
          /\ rem \intersect add = {}
          /\ upd \union rep \union rem \subseteq There \union add
          /\ node' = Patched(add, upd, rem, parent)
          /\ dep' = Rewired(add, rep, rem, needs)
          /\ Validated(node', dep')
    <2>1. PICK add \in AtMostOne, upd \in AtMostOne, rep \in AtMostOne, rem \in AtMostOne :
            \E parent \in IF add \union upd = {} THEN {Root} ELSE Node \union {Root},
               needs \in IF add \union rep = {} THEN {{}} ELSE SUBSET Node :
              /\ Cardinality(add) + Cardinality(upd) + Cardinality(rep) + Cardinality(rem) \in 1 .. MaxOp
              /\ Disturbed(upd \union rep, rem) = {}
              /\ \A n \in add : New(n)
              /\ rem \intersect add = {}
              /\ upd \union rep \union rem \subseteq There \union add
              /\ node' = Patched(add, upd, rem, parent)
              /\ dep' = Rewired(add, rep, rem, needs)
              /\ Validated(node', dep')
              /\ UNCHANGED execVars
      BY Zenon DEF Patch
    <2>2. /\ (IF add \union upd = {} THEN {Root} ELSE Node \union {Root}) \subseteq Node \union {Root}
          /\ (IF add \union rep = {} THEN {{}} ELSE SUBSET Node) \subseteq SUBSET Node
      OBVIOUS
    <2>3. QED BY <2>1, <2>2, Zenon
  <1>2. add \subseteq Node /\ upd \subseteq Node /\ rep \subseteq Node /\ rem \subseteq Node
    BY DEF AtMostOne
  <1>3. ASSUME NEW n \in Node
        PROVE  /\ node'[n] \in NodeRow
               /\ n \notin rem /\ n \notin add => node'[n].state = node[n].state
               /\ n \notin rem /\ n \notin add /\ n \notin upd => node'[n] = node[n]
    <2>1. node[n] \in NodeRow
      BY DEF GraphInv
    <2>2. node'[n] = IF n \in rem THEN [node[n] EXCEPT !.state = "archived"]
                     ELSE IF n \in add
                          THEN [state |-> "there", status |-> "pending", parent |-> parent]
                     ELSE IF n \in upd
                          THEN [node[n] EXCEPT !.parent = parent, !.status = Reopened(node[n].status)]
                     ELSE node[n]
      BY <1>1, <2>1 DEF Patched, NodeRow
    <2>3. [node[n] EXCEPT !.state = "archived"] \in NodeRow
      BY <2>1 DEF NodeRow
    <2>4. [state |-> "there", status |-> "pending", parent |-> parent] \in NodeRow
      BY DEF NodeRow, Status
    <2>5. PICK s \in Status : s = Reopened(node[n].status)
      BY <2>1 DEF NodeRow, Reopened, Status
    <2>6. /\ [node[n] EXCEPT !.parent = parent, !.status = s] \in NodeRow
          /\ [node[n] EXCEPT !.parent = parent, !.status = s].state = node[n].state
      BY <2>1 DEF NodeRow
    <2>7. QED BY <2>1, <2>2, <2>3, <2>4, <2>5, <2>6
  <1>4. node' \in [Node -> NodeRow]
    BY <1>1, <1>3 DEF Patched
  <1>5. dep' \subseteq Node \X Node
    BY <1>1, <1>2 DEF Rewired, GraphInv
  <1>6. GraphInv'
    BY <1>1, <1>4, <1>5 DEF GraphInv
  <1>7. \A n \in Node : node[n].state = "archived" => n \notin add /\ n \notin rem
    BY <1>1 DEF New, There
  <1>8. ASSUME NEW n \in Running
        PROVE  /\ node'[n] = node[n]
               /\ {e \in dep : e[1] = n} = {e \in dep' : e[1] = n}
               /\ node[n].parent # Root => node'[node[n].parent].state = "there"
    <2>1. n \in Node /\ node[n].state = "there" /\ node[n] \in NodeRow
      BY DEF Running, There, GraphInv
    <2>2. n \notin upd /\ n \notin rep /\ n \notin rem /\ n \notin add
      BY <1>1, <2>1 DEF Disturbed, New
    <2>3. \A r \in rem : <<n, r>> \notin dep /\ node[n].parent # r
      BY <1>1 DEF Disturbed
    <2>4. ASSUME NEW e \in dep, e[1] = n PROVE e \in dep'
      <3>1. e = <<n, e[2]>>
        BY <2>4 DEF GraphInv
      <3>2. e[2] \notin rem
        BY <2>3, <3>1
      <3>3. e \notin rep \X Node
        BY <2>2, <2>4
      <3>4. QED BY <1>1, <2>2, <2>4, <3>2, <3>3 DEF Rewired
    <2>5. ASSUME NEW e \in dep', e[1] = n PROVE e \in dep
      <3>1. e \notin (add \union rep) \X needs
        BY <2>2, <2>5
      <3>2. QED BY <1>1, <3>1 DEF Rewired
    <2>6. ASSUME node[n].parent # Root PROVE node'[node[n].parent].state = "there"
      <3>1. node[n].parent \in Node /\ node[node[n].parent].state = "there"
        BY <2>1, <2>6 DEF GraphInv, Validated
      <3>2. node[n].parent \notin rem /\ node[n].parent \notin add
        BY <1>1, <2>3, <3>1 DEF New
      <3>3. QED BY <1>3, <3>1, <3>2
    <2>7. QED BY <1>3, <2>1, <2>2, <2>4, <2>5, <2>6
  <1>9. QED BY <1>3, <1>6, <1>7, <1>8

LEMMA GraphStep == GraphInv /\ [PlanNext]_planVars => GraphInv'
  <1> SUFFICES ASSUME GraphInv, [PlanNext]_planVars PROVE GraphInv'
    OBVIOUS
  <1>1. CASE Patch
    BY <1>1, PatchMoves
  <1>2. CASE \E n \in Node, status \in Status : SetStatus(n, status)
    BY <1>2, StatusSet
  <1>3. CASE UNCHANGED graphVars
    <2>1. node' = node /\ dep' = dep
      BY <1>3 DEF graphVars
    <2>2. QED BY <2>1 DEF GraphInv, Validated, Acyclic, Hierarchy
  <1>4. QED BY <1>1, <1>2, <1>3, GraphMoves

LEMMA GraphStart == PlanInit => GraphInv
  <1> SUFFICES ASSUME PlanInit PROVE GraphInv
    OBVIOUS
  <1>1. NoNode \in NodeRow /\ NoNode.state = "none"
    BY DEF NoNode, NodeRow, Status
  <1>2. node \in [Node -> NodeRow] /\ dep = {} /\ \A n \in Node : node[n].state = "none"
    BY <1>1 DEF PlanInit
  <1>3. Hierarchy(node) = {}
    BY <1>2 DEF Hierarchy
  <1>4. Acyclic({})
    <2>1. ASSUME NEW S \in (SUBSET Node) \ {{}}
          PROVE  \E n \in S : \A m \in S : <<n, m>> \notin {}
      <3>1. PICK n \in S : TRUE
        OBVIOUS
      <3>2. QED BY <3>1
    <2>2. QED BY <2>1 DEF Acyclic
  <1>5. Validated(node, dep)
    BY <1>2, <1>3, <1>4 DEF Validated
  <1>6. QED BY <1>2, <1>5 DEF GraphInv

(* Among the nodes that are not done there is one that needs none of them.   *)
LEMMA GoesOn == GraphInv => PlanGoesOn
  <1> SUFFICES ASSUME GraphInv, \A n \in There : node[n].status \in {"pending", "completed"},
                      ~ \A n \in There : node[n].status = "completed"
               PROVE  \E n \in There : Startable(n)
    BY DEF PlanGoesOn
  <1> DEFINE Left == {n \in There : node[n].status # "completed"}
  <1>1. Left \in (SUBSET Node) \ {{}}
    <2>1. PICK n \in There : node[n].status # "completed"
      OBVIOUS
    <2>2. Left \subseteq Node
      BY DEF There
    <2>3. n \in Left
      BY <2>1
    <2>4. QED BY <2>2, <2>3
  <1>2. PICK n \in Left : \A m \in Left : <<n, m>> \notin dep
    BY <1>1 DEF GraphInv, Validated, Acyclic
  <1>3. ASSUME NEW e \in dep, e[1] = n PROVE node[e[2]].status = "completed"
    <2>1. e = <<n, e[2]>> /\ e[2] \in There
      BY <1>3 DEF GraphInv, Validated, There
    <2>2. e[2] \notin Left
      BY <1>2, <2>1
    <2>3. QED BY <2>1, <2>2
  <1>4. Startable(n)
    BY <1>2, <1>3 DEF Startable, Satisfied
  <1>5. QED BY <1>2, <1>4

(* What a running node was started for stays as it is while it runs          *)
(* (_assert_patch_mutable, _apply_patch and the changes of a status).        *)
THEOREM RunningStaysAsStarted == PlanSpec => RunningStable
  <1> DEFINE Stays == \A n \in Running :
                       /\ node'[n].state = "there"
                       /\ node'[n].parent = node[n].parent
                       /\ {e \in dep : e[1] = n} = {e \in dep' : e[1] = n}
                       /\ node[n].parent # Root => node'[node[n].parent].state = "there"
  <1>1. GraphInv /\ [PlanNext]_planVars => Stays
    <2> SUFFICES ASSUME GraphInv, [PlanNext]_planVars, NEW n \in Running
                 PROVE  /\ node'[n].state = "there"
                        /\ node'[n].parent = node[n].parent
                        /\ {e \in dep : e[1] = n} = {e \in dep' : e[1] = n}
                        /\ node[n].parent # Root => node'[node[n].parent].state = "there"
      OBVIOUS
    <2>1. n \in Node /\ node[n].state = "there"
      BY DEF Running, There
    <2>2. /\ node[n].parent \in Node \union {Root}
          /\ node[n].parent # Root => node[node[n].parent].state = "there"
      BY <2>1 DEF GraphInv, Validated, NodeRow
    <2>3. CASE Patch
      BY <2>1, <2>3, PatchMoves
    <2>4. CASE \E m \in Node, status \in Status : SetStatus(m, status)
      BY <2>1, <2>2, <2>4, StatusSet
    <2>5. CASE UNCHANGED graphVars
      BY <2>1, <2>2, <2>5 DEF graphVars
    <2>6. QED BY <2>3, <2>4, <2>5, GraphMoves
  <1>2. QED BY <1>1, GraphStart, GraphStep, PTL DEF PlanSpec, RunningStable

(* A removed node never comes back, under its id or as an end of an edge     *)
(* (_apply_patch and _validate_graph).                                      *)
THEOREM RemovedIsOut == PlanSpec => RemovedStaysOut
  <1> DEFINE Stays == \A n \in Node : node[n].state = "archived" =>
                       node'[n].state = "archived" /\ \A e \in dep' : n \notin {e[1], e[2]}
  <1>1. GraphInv /\ [PlanNext]_planVars => Stays
    <2> SUFFICES ASSUME GraphInv, [PlanNext]_planVars, NEW n \in Node, node[n].state = "archived"
                 PROVE  node'[n].state = "archived" /\ \A e \in dep' : n \notin {e[1], e[2]}
      OBVIOUS
    <2>1. node'[n].state = "archived"
      <3>1. CASE Patch
        BY <3>1, PatchMoves
      <3>2. CASE \E m \in Node, status \in Status : SetStatus(m, status)
        BY <3>2, StatusSet
      <3>3. CASE UNCHANGED graphVars
        BY <3>3 DEF graphVars
      <3>4. QED BY <3>1, <3>2, <3>3, GraphMoves
    <2>2. dep' \subseteq {m \in Node : node'[m].state = "there"} \X {m \in Node : node'[m].state = "there"}
      BY GraphStep DEF GraphInv, Validated
    <2>3. QED BY <2>1, <2>2
  <1>2. QED BY <1>1, GraphStart, GraphStep, PTL DEF PlanSpec, RemovedStaysOut

(* The rows stay; tasks and forwarders come and go.                          *)
LEMMA ExecKept ==
    ASSUME ExecInv, wait' = wait, mail' = mail, restarts' \in 0 .. MaxRestart,
           task' \in [Coordinator -> SUBSET Wait], fwd' \in [Coordinator -> Wait \union {0}],
           \A c \in Coordinator : task'[c] \subseteq Created,
           \A c \in Coordinator : fwd'[c] \in {fwd[c], 0}
    PROVE  ExecInv'
  <1>1. Created' = Created /\ OneWaiting'
    BY DEF Created, OneWaiting, Waiting, ExecInv
  <1>2. \A w \in Wait : Recorded(w)'
    BY DEF ExecInv, Recorded
  <1>3. \A c \in Coordinator : fwd'[c] # 0 => mail'[fwd'[c]] # "none"
    BY DEF ExecInv
  <1>4. (\E k \in 0 .. MaxWait : Created = 1 .. k)'
    BY <1>1 DEF ExecInv
  <1>5. \A c \in Coordinator : task'[c] \subseteq Created'
    BY <1>1
  <1>6. QED BY <1>1, <1>2, <1>3, <1>4, <1>5 DEF ExecInv

(* A row changes, not to be waiting again.                                  *)
LEMMA RowMoves ==
    ASSUME ExecInv, NEW w \in Wait, NEW row \in WaitRow, wait' = [wait EXCEPT ![w] = row],
           w \in Created, row.state # "none", row.state = "waiting" => row = wait[w]
    PROVE  /\ wait' \in [Wait -> WaitRow] /\ wait'[w] = row
           /\ \A x \in Wait : x # w => wait'[x] = wait[x]
           /\ Created' = Created /\ OneWaiting'
           /\ \E k \in 0 .. MaxWait : Created' = 1 .. k
  <1>1. /\ wait' \in [Wait -> WaitRow] /\ wait'[w] = row
        /\ \A x \in Wait : x # w => wait'[x] = wait[x]
    BY DEF ExecInv
  <1>2. Created' = Created
    BY <1>1 DEF Created
  <1>3. \A n \in Node : Waiting(n)' \subseteq Waiting(n)
    BY <1>1 DEF Waiting
  <1>4. OneWaiting'
    BY <1>3 DEF OneWaiting, ExecInv
  <1>5. QED BY <1>1, <1>2, <1>4 DEF ExecInv

LEMMA ExecutionFound ==
    ASSUME ExecInv, NEW c \in Coordinator, NEW n \in Node, ExecutePlanNode(c, n)
    PROVE  ExecInv'
  <1>1. PICK w \in Wait :
          /\ w = IF Reusable(n) # {} THEN CHOOSE x \in Reusable(n) : TRUE
                 ELSE 1 + Cardinality({x \in Wait : wait[x].state # "none"})
          /\ wait' = IF Reusable(n) # {} THEN wait
                     ELSE [wait EXCEPT ![w] = [node |-> n, state |-> "waiting",
                                               outcome |-> "none", outbox |-> "none"]]
          /\ task' = [task EXCEPT ![c] = task[c] \union {w}]
    BY DEF ExecutePlanNode, ExecInv
  <1>2. mail' = mail /\ fwd' = fwd /\ restarts' = restarts
    BY DEF ExecutePlanNode
  <1>3. /\ task' \in [Coordinator -> SUBSET Wait]
        /\ \A d \in Coordinator : task'[d] \subseteq Created \union {w}
    BY <1>1 DEF ExecInv
  <1>4. CASE Reusable(n) # {}
    <2>1. w \in Reusable(n) /\ wait' = wait
      BY <1>1, <1>4
    <2>2. w \in Created
      BY <2>1 DEF Reusable, Waiting, Created
    <2>3. QED BY <1>2, <1>3, <2>1, <2>2, ExecKept DEF ExecInv
  <1>5. CASE Reusable(n) = {}
    <2>1. PICK k \in 0 .. MaxWait : Created = 1 .. k
      BY DEF ExecInv
    <2>2. k \in Nat /\ MaxWait \in Nat
      BY PlanAssumption
    <2>3. Cardinality(Created) = k
      BY <2>1, <2>2, FS_Interval
    <2>4. w = k + 1 /\ w <= MaxWait
      BY <1>1, <1>5, <2>2, <2>3 DEF Created, Wait
    <2>5. PICK row \in WaitRow :
            row = [node |-> n, state |-> "waiting", outcome |-> "none", outbox |-> "none"]
      BY DEF WaitRow
    <2>6. /\ wait' \in [Wait -> WaitRow] /\ wait'[w] = row
          /\ \A x \in Wait : x # w => wait'[x] = wait[x]
      BY <1>1, <1>5, <2>5 DEF ExecInv
    <2>7. w \notin Created /\ wait[w].state = "none"
      BY <2>1, <2>2, <2>4 DEF Created
    <2>8. Created' = Created \union {w}
      BY <2>5, <2>6 DEF Created
    <2>9. Created' = 1 .. k + 1 /\ k + 1 \in 0 .. MaxWait
      BY <2>1, <2>2, <2>4, <2>8
    <2>10. OneWaiting'
      <3>1. ASSUME NEW m \in Node, NEW x \in Waiting(m)', NEW y \in Waiting(m)' PROVE x = y
        <4>1. CASE m = n
          <5>1. Waiting(n)' \subseteq {w}
            BY <1>5, <2>6 DEF Reusable, Waiting
          <5>2. QED BY <4>1, <5>1
        <4>2. CASE m # n
          <5>1. Waiting(m)' \subseteq Waiting(m)
            BY <2>5, <2>6, <4>2 DEF Waiting
          <5>2. QED BY <5>1 DEF ExecInv, OneWaiting
        <4>3. QED BY <4>1, <4>2
      <3>2. QED BY <3>1 DEF OneWaiting
    <2>11. ASSUME NEW x \in Wait PROVE Recorded(x)'
      <3>1. CASE x = w
        <4>1. mail[w] = "none"
          BY <2>7 DEF ExecInv, Recorded
        <4>2. QED BY <1>2, <2>5, <2>6, <3>1, <4>1 DEF Recorded
      <3>2. CASE x # w
        BY <1>2, <2>6, <3>2 DEF ExecInv, Recorded
      <3>3. QED BY <3>1, <3>2
    <2>12. \E i \in 0 .. MaxWait : Created' = 1 .. i
      BY <2>9
    <2>13. QED BY <1>2, <1>3, <2>6, <2>8, <2>10, <2>11, <2>12 DEF ExecInv
  <1>6. QED BY <1>4, <1>5

LEMMA ExecutionEnds ==
    ASSUME ExecInv, NEW c \in Coordinator, NEW w \in Wait, RunEnds(c, w)
    PROVE  ExecInv'
  <1>1. PICK outcome \in Outcome : wait' = Completed(w, outcome)
    BY DEF RunEnds
  <1>2. /\ w \in Created /\ mail' = mail /\ fwd' = fwd /\ restarts' = restarts
        /\ task' = [task EXCEPT ![c] = task[c] \ {w}]
    BY DEF RunEnds, ExecInv
  <1>3. /\ task' \in [Coordinator -> SUBSET Wait]
        /\ \A d \in Coordinator : task'[d] \subseteq Created
    BY <1>2 DEF ExecInv
  <1>4. CASE wait[w].state = "ended"
    <2>1. wait' = wait
      BY <1>1, <1>4 DEF Completed
    <2>2. QED BY <1>2, <1>3, <2>1, ExecKept DEF ExecInv
  <1>5. CASE wait[w].state # "ended"
    <2>1. wait[w] \in WaitRow
      BY DEF ExecInv
    <2>2. wait' = [wait EXCEPT ![w] = [wait[w] EXCEPT !.state = "ended", !.outcome = outcome,
                                                      !.outbox = "pending"]]
      BY <1>1, <1>5 DEF Completed, ExecInv
    <2>3. [wait[w] EXCEPT !.state = "ended", !.outcome = outcome, !.outbox = "pending"] \in WaitRow
      BY <2>1 DEF WaitRow
    <2>4. PICK row \in WaitRow :
            row = [wait[w] EXCEPT !.state = "ended", !.outcome = outcome, !.outbox = "pending"]
      BY <2>3
    <2>5. row.state = "ended" /\ row.outbox = "pending" /\ row.outcome # "none"
      BY <2>1, <2>4 DEF WaitRow, Outcome
    <2>6. wait' = [wait EXCEPT ![w] = row]
      BY <2>2, <2>4
    <2>7. /\ wait' \in [Wait -> WaitRow] /\ wait'[w] = row
          /\ \A x \in Wait : x # w => wait'[x] = wait[x]
          /\ Created' = Created /\ OneWaiting'
          /\ \E k \in 0 .. MaxWait : Created' = 1 .. k
      BY <1>2, <2>5, <2>6, RowMoves
    <2>8. ASSUME NEW x \in Wait PROVE Recorded(x)'
      <3>1. CASE x = w
        <4>1. mail[w] = "none"
          BY <1>5 DEF ExecInv, Recorded
        <4>2. QED BY <1>2, <2>5, <2>7, <3>1, <4>1 DEF Recorded
      <3>2. CASE x # w
        BY <1>2, <2>7, <3>2 DEF ExecInv, Recorded
      <3>3. QED BY <3>1, <3>2
    <2>9. QED BY <1>2, <1>3, <2>7, <2>8 DEF ExecInv
  <1>6. QED BY <1>4, <1>5

LEMMA CompletionForwarded ==
    ASSUME ExecInv, NEW c \in Coordinator, NEW w \in Wait, ForwardCompletion(c, w)
    PROVE  ExecInv'
  <1>1. /\ wait[w].outbox = "pending" /\ fwd' = [fwd EXCEPT ![c] = w]
        /\ wait' = wait /\ task' = task /\ restarts' = restarts
        /\ mail' = [mail EXCEPT ![w] = IF mail[w] = "none" THEN wait[w].outcome ELSE mail[w]]
    BY DEF ForwardCompletion, ExecInv
  <1>2. wait[w] \in WaitRow /\ wait[w].state = "ended" /\ Recorded(w)
    BY <1>1 DEF ExecInv, Recorded
  <1>3. /\ mail' \in [Wait -> Outcome \union {"none"}]
        /\ mail'[w] \in {mail[w], wait[w].outcome}
        /\ mail[w] # "none" => mail'[w] = mail[w]
        /\ \A x \in Wait : x # w => mail'[x] = mail[x]
    BY <1>1, <1>2 DEF ExecInv, WaitRow
  <1>4. Created' = Created /\ OneWaiting'
    BY <1>1 DEF Created, OneWaiting, Waiting, ExecInv
  <1>5. ASSUME NEW x \in Wait PROVE Recorded(x)'
    <2>1. CASE x = w
      BY <1>1, <1>2, <1>3, <2>1 DEF Recorded
    <2>2. CASE x # w
      BY <1>1, <1>3, <2>2 DEF ExecInv, Recorded
    <2>3. QED BY <2>1, <2>2
  <1>6. \E k \in 0 .. MaxWait : Created' = 1 .. k
    BY <1>4 DEF ExecInv
  <1>7. ASSUME NEW d \in Coordinator, fwd'[d] # 0 PROVE mail'[fwd'[d]] # "none"
    <2>1. CASE d = c
      <3>1. fwd'[d] = w
        BY <1>1, <2>1 DEF ExecInv
      <3>2. wait[w].outcome # "none"
        BY <1>2 DEF Recorded
      <3>3. mail'[w] # "none"
        BY <1>1, <1>2, <3>2 DEF ExecInv
      <3>4. QED BY <3>1, <3>3
    <2>2. CASE d # c
      <3>1. fwd'[d] = fwd[d] /\ fwd[d] \in Wait
        BY <1>1, <1>7, <2>2 DEF ExecInv
      <3>2. mail[fwd[d]] # "none"
        BY <1>7, <3>1 DEF ExecInv
      <3>3. QED BY <1>3, <3>1, <3>2
    <2>3. QED BY <2>1, <2>2
  <1>8. QED BY <1>1, <1>3, <1>4, <1>5, <1>6, <1>7 DEF ExecInv

LEMMA CompletionMarked ==
    ASSUME ExecInv, NEW c \in Coordinator, MarkCompletion(c)
    PROVE  ExecInv'
  <1>1. PICK w \in Wait : w = fwd[c]
    BY DEF MarkCompletion, ExecInv
  <1>2. /\ fwd[c] # 0 /\ fwd' = [fwd EXCEPT ![c] = 0]
        /\ wait' = [wait EXCEPT ![w] = [wait[w] EXCEPT !.outbox = "sent"]]
        /\ mail' = mail /\ task' = task /\ restarts' = restarts
    BY <1>1 DEF MarkCompletion, ExecInv
  <1>3. mail[w] # "none" /\ wait[w] \in WaitRow /\ Recorded(w)
    BY <1>1, <1>2 DEF ExecInv
  <1>4. [wait[w] EXCEPT !.outbox = "sent"] \in WaitRow
    BY <1>3 DEF WaitRow
  <1>5. PICK row \in WaitRow : row = [wait[w] EXCEPT !.outbox = "sent"]
    BY <1>4
  <1>6. /\ row.state = "ended" /\ row.outbox = "sent" /\ row.outcome = wait[w].outcome
    BY <1>3, <1>5 DEF WaitRow, Recorded
  <1>7. w \in Created /\ wait' = [wait EXCEPT ![w] = row]
    BY <1>2, <1>3, <1>5 DEF Created, Recorded
  <1>8. /\ wait' \in [Wait -> WaitRow] /\ wait'[w] = row
        /\ \A x \in Wait : x # w => wait'[x] = wait[x]
        /\ Created' = Created /\ OneWaiting'
        /\ \E k \in 0 .. MaxWait : Created' = 1 .. k
    BY <1>6, <1>7, RowMoves
  <1>9. ASSUME NEW x \in Wait PROVE Recorded(x)'
    <2>1. CASE x = w
      BY <1>2, <1>3, <1>6, <1>8, <2>1 DEF Recorded
    <2>2. CASE x # w
      BY <1>2, <1>8, <2>2 DEF ExecInv, Recorded
    <2>3. QED BY <2>1, <2>2
  <1>10. /\ fwd' \in [Coordinator -> Wait \union {0}]
         /\ \A d \in Coordinator : fwd'[d] # 0 => fwd'[d] = fwd[d]
    BY <1>2 DEF ExecInv
  <1>11. \A d \in Coordinator : fwd'[d] # 0 => mail'[fwd'[d]] # "none"
    BY <1>2, <1>10 DEF ExecInv
  <1>12. QED BY <1>2, <1>8, <1>9, <1>10, <1>11 DEF ExecInv

LEMMA ExecStep == ExecInv /\ [PlanNext]_planVars => ExecInv'
  <1> SUFFICES ASSUME ExecInv, [PlanNext]_planVars PROVE ExecInv'
    OBVIOUS
  <1>1. ASSUME NEW c \in Coordinator, RecoverExecutions(c) PROVE ExecInv'
    <2>1. /\ task' = [task EXCEPT ![c] = task[c] \union {w \in Wait : wait[w].state = "waiting"}]
          /\ wait' = wait /\ mail' = mail /\ fwd' = fwd /\ restarts' = restarts
      BY <1>1 DEF RecoverExecutions, ExecInv
    <2>2. {w \in Wait : wait[w].state = "waiting"} \subseteq Created
      BY DEF Created
    <2>3. Created \subseteq Wait /\ \A d \in Coordinator : task[d] \subseteq Created
      BY DEF Created, ExecInv
    <2>4. /\ task' \in [Coordinator -> SUBSET Wait]
          /\ \A d \in Coordinator : task'[d] \subseteq Created
      BY <2>1, <2>2, <2>3 DEF ExecInv
    <2>5. QED BY <2>1, <2>4, ExecKept DEF ExecInv
  <1>2. ASSUME NEW c \in Coordinator, EndProcess(c) PROVE ExecInv'
    <2>1. /\ task' = [task EXCEPT ![c] = {}] /\ fwd' = [fwd EXCEPT ![c] = 0]
          /\ wait' = wait /\ mail' = mail /\ restarts < MaxRestart /\ restarts' = restarts + 1
      BY <1>2 DEF EndProcess
    <2>2. /\ task' \in [Coordinator -> SUBSET Wait]
          /\ \A d \in Coordinator : task'[d] \subseteq Created
      BY <2>1 DEF ExecInv
    <2>3. /\ fwd' \in [Coordinator -> Wait \union {0}]
          /\ \A d \in Coordinator : fwd'[d] \in {fwd[d], 0}
      BY <2>1 DEF ExecInv
    <2>4. restarts' \in 0 .. MaxRestart
      BY <2>1, PlanAssumption DEF ExecInv
    <2>5. QED BY <2>1, <2>2, <2>3, <2>4, ExecKept
  <1>3. ASSUME UNCHANGED execVars PROVE ExecInv'
    <2>1. wait' = wait /\ mail' = mail /\ task' = task /\ fwd' = fwd /\ restarts' = restarts
      BY <1>3 DEF execVars
    <2>2. QED BY <2>1, ExecKept DEF ExecInv
  <1>4. ASSUME GraphNext PROVE ExecInv'
    <2>1. Patch => UNCHANGED execVars
      BY DEF Patch
    <2>2. ASSUME NEW n \in Node, StartNode(n) \/ Dispatch(n) \/ Drift(n) \/ EndNode(n)
          PROVE  UNCHANGED execVars
      BY <2>2 DEF StartNode, Dispatch, Drift, EndNode, SetStatus
    <2>3. QED BY <1>3, <1>4, <2>1, <2>2 DEF GraphNext
  <1>5. ASSUME ExecNext PROVE ExecInv'
    BY <1>1, <1>2, <1>5, ExecutionFound, ExecutionEnds, CompletionForwarded, CompletionMarked
      DEF ExecNext
  <1>6. CASE UNCHANGED planVars
    BY <1>3, <1>6 DEF planVars
  <1>7. QED BY <1>4, <1>5, <1>6 DEF PlanNext

LEMMA ExecStart == PlanInit => ExecInv
  <1> SUFFICES ASSUME PlanInit PROVE ExecInv
    OBVIOUS
  <1>1. NoWait \in WaitRow /\ NoWait.state = "none" /\ NoWait.outbox = "none"
    BY DEF NoWait, WaitRow
  <1>2. /\ wait \in [Wait -> WaitRow] /\ mail \in [Wait -> Outcome \union {"none"}]
        /\ task \in [Coordinator -> SUBSET Wait] /\ fwd \in [Coordinator -> Wait \union {0}]
        /\ restarts \in 0 .. MaxRestart
        /\ \A w \in Wait : wait[w].state = "none" /\ wait[w].outbox = "none" /\ mail[w] = "none"
    BY <1>1, PlanAssumption DEF PlanInit
  <1>3. Created = 1 .. 0 /\ OneWaiting
    BY <1>2 DEF Created, OneWaiting, Waiting
  <1>4. 0 \in 0 .. MaxWait
    BY PlanAssumption
  <1>5. \A w \in Wait : Recorded(w)
    BY <1>2 DEF Recorded
  <1>6. (\A c \in Coordinator : task[c] \subseteq Created) /\ \A c \in Coordinator : fwd[c] = 0
    BY DEF PlanInit
  <1>7. QED BY <1>2, <1>3, <1>4, <1>5, <1>6 DEF ExecInv

(* A plan that nothing has failed in and nobody works on can go on, however  *)
(* patches have rearranged it, and each execution is done once: by whatever  *)
(* coordinators recover, run and forward it, through the end of their       *)
(* processes (patch, start_node, execute_plan_node, complete_execution,      *)
(* forward_completion_mail).                                                *)
THEOREM PlanSoundAlways == PlanSpec => []PlanSound
  <1>1. GraphInv /\ ExecInv => PlanSound
    <2> SUFFICES ASSUME GraphInv, ExecInv PROVE PlanSound
      OBVIOUS
    <2>1. PlanTypeOK
      BY DEF GraphInv, ExecInv, PlanTypeOK, NodeRow, WaitRow
    <2>2. ASSUME NEW n \in Node PROVE Cardinality(Waiting(n)) <= 1
      <3>1. Waiting(n) = {} \/ \E w \in Waiting(n) : Waiting(n) = {w}
        BY DEF ExecInv, OneWaiting
      <3>2. QED BY <3>1, FS_EmptySet, FS_Singleton
    <2>3. CompletionOnce
      BY <2>2 DEF CompletionOnce, ExecInv, Recorded
    <2>4. QED BY <2>1, <2>3, GoesOn DEF PlanSound
  <1>2. QED BY <1>1, GraphStart, GraphStep, ExecStart, ExecStep, PTL DEF PlanSpec

-----------------------------------------------------------------------------
(* The opening of the mail database.                                        *)

Database == [file: BOOLEAN, kind: {"none", "own", "foreign"}, table: BOOLEAN, guards: BOOLEAN,
             version: {0, 2}]

Reads == UNION {[D -> MailRow] : D \in SUBSET Mail}

OpenStage == {"idle", "create", "table", "migrate", "guards", "version", "metadata", "open",
              "refused", "failed"}

OpenerRow == [at: OpenStage, read: Reads, seen: {0, 2}]

StorageTypes ==
    /\ db \in Database
    /\ rows \in [Mail -> MailRow \cup {NoMailRow}]
    /\ opener \in [Opener -> OpenerRow]
    /\ touched \subseteq Mail
    /\ openFaults \in 0 .. MaxOpenFault
    /\ \/ DOMAIN legacy = {}
       \/ legacy \in [Mail -> MailRow \cup {NoMailRow}]

(* There was a database of the previous version, with these rows.            *)
Inherited == DOMAIN legacy # {}

Written == {m \in DOMAIN legacy : legacy[m] # NoMailRow}

(* Before a mailbox has used it, a row is as it was or as it is converted.   *)
Faithful ==
    /\ Inherited => db.table /\ db.kind # "none"
    /\ \A m \in DOMAIN legacy \ touched : rows[m] \in {legacy[m], Normal(legacy[m])}
    /\ touched # {} => db.version = 2
    /\ ~db.file => \A m \in Mail : rows[m] = NoMailRow
    /\ Mail # {} /\ ~Inherited /\ db.version = 0
         => db.kind = "none" /\ \A m \in Mail : rows[m] = NoMailRow

AllGuarded == \A m \in Present : Guarded(rows[m])

(* Where an opener is says what has been done.  One that migrates has read   *)
(* the rows of the previous version, all of which can be converted.          *)
Opening(o) ==
    /\ opener[o].at \notin {"idle", "create", "refused", "failed"} => db.file
    /\ opener[o].at \in {"create", "table", "guards"} => AllGuarded
    /\ opener[o].at = "version" => db.guards
    /\ opener[o].at \in {"metadata", "open"} => db.version = 2
    /\ opener[o].at = "migrate" =>
         /\ Mail # {} => Inherited
         /\ opener[o].seen = 0
         /\ DOMAIN opener[o].read = Written
         /\ \A m \in Written : Migratable(legacy[m]) /\ opener[o].read[m] = Normal(legacy[m])
    /\ opener[o].at = "refused" =>
         \/ db.kind = "foreign"
         \/ ~Inherited
         \/ \E m \in DOMAIN legacy : legacy[m] # NoMailRow /\ ~Migratable(legacy[m])

StorageInv ==
    /\ StorageTypes /\ Faithful
    /\ db.version = 2 => db.guards
    /\ db.guards => AllGuarded
    /\ \A o \in Opener : Opening(o)

(* What an opener may do to a database.                                     *)
Grown(d) ==
    /\ db.file => d.file
    /\ db.table => d.table
    /\ db.guards => d.guards
    /\ db.version = 2 => d.version = 2
    /\ d.kind = db.kind \/ (d.version = 2 /\ db.kind = "none" /\ d.kind = "own")
    /\ d.version = 2 => d.guards
    /\ d.guards => AllGuarded

(* A row is converted once: converting it again, or writing the conversion   *)
(* over it, changes nothing.                                                *)
LEMMA RowsConvert ==
    ASSUME NEW r \in MailRow
    PROVE  /\ Normal(r) \in MailRow /\ Normal(Normal(r)) = Normal(r)
           /\ Migratable(Normal(r)) = Migratable(r)
           /\ Migratable(r) => Guarded(Normal(r))
           /\ Updated(r, Normal(r)) = Normal(r)
           /\ Updated(Normal(r), Normal(r)) = Normal(r)
           /\ r.status = "delivered" => Normal(r).status = "delivered"
           /\ Normal(r).status = "delivered" => r.status = "delivered"
  <1>1. PICK f \in Form : f = Canonicalised(r.form)
    BY DEF Canonicalised, MailRow, Form
  <1>2. PICK s \in {"pending", "leased", "retry_wait", "delivered"} :
          s = IF r.status = "pending" /\ r.retry THEN "retry_wait" ELSE r.status
    BY DEF MailRow
  <1>3. PICK n \in MailRow : n = [status |-> s, retry |-> r.retry, lease |-> r.lease, form |-> f]
    BY DEF MailRow
  <1>4. /\ n.status = s /\ n.retry = r.retry /\ n.lease = r.lease /\ n.form = f
    BY <1>3
  <1>5. Normal(r) = n
    <2>1. Normal(r) = [r EXCEPT !.form = f, !.status = s]
      BY <1>1, <1>2 DEF Normal
    <2>2. QED BY <1>3, <2>1 DEF MailRow
  <1>6. Canonicalised(f) = f /\ (f = "bad") = (r.form = "bad") /\ (f # "bad" => f = "canonical")
    BY <1>1 DEF Canonicalised, Form, MailRow
  <1>7. ~(s = "pending" /\ r.retry) /\ (s = "delivered") = (r.status = "delivered")
    BY <1>2 DEF MailRow
  <1>8. Normal(n) = n
    <2>1. Normal(n) = [n EXCEPT !.form = f, !.status = s]
      BY <1>4, <1>6, <1>7 DEF Normal
    <2>2. QED BY <1>3, <2>1
  <1>9. Migratable(n) = Migratable(r)
    BY <1>2, <1>4, <1>6 DEF Migratable, MailRow
  <1>10. Migratable(r) => Guarded(n)
    BY <1>2, <1>4, <1>6 DEF Migratable, MailRow, Guarded, WellFormed
  <1>11. Updated(r, n) = n
    <2>1. Updated(r, n) = [r EXCEPT !.status = s, !.retry = r.retry, !.form = f, !.lease = r.lease]
      BY <1>4 DEF Updated
    <2>2. QED BY <1>3, <2>1 DEF MailRow
  <1>12. Updated(n, n) = n
    <2>1. Updated(n, n) = [n EXCEPT !.status = s, !.retry = r.retry, !.form = f, !.lease = r.lease]
      BY <1>4 DEF Updated
    <2>2. QED BY <1>3, <2>1 DEF MailRow
  <1>13. QED BY <1>4, <1>5, <1>7, <1>8, <1>9, <1>10, <1>11, <1>12

LEMMA NoRowConverts ==
    /\ Normal(NoMailRow) = NoMailRow /\ NoMailRow.status = "absent"
    /\ NewMail \in MailRow /\ Guarded(NewMail)
    /\ \A r \in MailRow : r.status # "absent"
  <1>1. NoMailRow.status = "absent" /\ NoMailRow.form = "canonical" /\ ~NoMailRow.retry
    BY DEF NoMailRow
  <1>2. Normal(NoMailRow) = [NoMailRow EXCEPT !.form = "canonical", !.status = "absent"]
    BY <1>1 DEF Normal, Canonicalised
  <1>3. Normal(NoMailRow) = NoMailRow
    BY <1>2 DEF NoMailRow
  <1>4. NewMail \in [status : {"pending"}, retry : {FALSE}, lease : {"none"}, form : {"canonical"}]
    <2>1. NoMailRow \in [status : {"absent"}, retry : {FALSE}, lease : {"none"}, form : {"canonical"}]
      BY DEF NoMailRow
    <2>2. QED BY <2>1 DEF NewMail
  <1>5. NewMail \in MailRow
    BY <1>4 DEF MailRow, Form
  <1>6. Guarded(NewMail)
    BY <1>4 DEF Guarded, WellFormed
  <1>7. \A r \in MailRow : r.status # "absent"
    BY DEF MailRow
  <1>8. QED BY <1>1, <1>3, <1>5, <1>6, <1>7

LEMMA RowsUpdate ==
    ASSUME NEW q \in MailRow \cup {NoMailRow}, NEW n \in MailRow
    PROVE  Updated(q, n) \in MailRow /\ Updated(q, n).status = n.status
  <1>1. PICK l \in {"none", "part", "full"} : l = IF q.lease = n.lease THEN q.lease ELSE "part"
    BY DEF MailRow, NoMailRow
  <1>2. Updated(q, n) = [status |-> n.status, retry |-> n.retry, lease |-> l, form |-> n.form]
    <2>1. Updated(q, n) = [q EXCEPT !.status = n.status, !.retry = n.retry, !.form = n.form,
                                    !.lease = l]
      BY <1>1 DEF Updated
    <2>2. CASE q \in MailRow
      BY <2>1, <2>2 DEF MailRow
    <2>3. CASE q = NoMailRow
      BY <2>1, <2>3 DEF NoMailRow
    <2>4. QED BY <2>2, <2>3
  <1>3. QED BY <1>2 DEF MailRow

(* What is in the table of a database no mailbox has used.                   *)
LEMMA FirstVersion ==
    ASSUME StorageTypes, Faithful, Inherited, touched = {}
    PROVE  /\ Present = Written
           /\ \A m \in Written : /\ legacy[m] \in MailRow
                                 /\ rows[m] \in {legacy[m], Normal(legacy[m])}
           /\ \A m \in Mail : m \notin Written => rows[m] = NoMailRow
  <1>1. legacy \in [Mail -> MailRow \cup {NoMailRow}]
    BY DEF StorageTypes, Inherited
  <1>2. ASSUME NEW m \in Mail
        PROVE  /\ rows[m] \in {legacy[m], Normal(legacy[m])}
               /\ m \in Written => legacy[m] \in MailRow /\ rows[m].status # "absent"
               /\ m \notin Written => rows[m] = NoMailRow
    <2>1. rows[m] \in {legacy[m], Normal(legacy[m])}
      BY <1>1 DEF Faithful
    <2>2. CASE m \in Written
      <3>1. legacy[m] \in MailRow
        BY <1>1, <2>2 DEF Written
      <3>2. Normal(legacy[m]) \in MailRow
        BY <3>1, RowsConvert
      <3>3. QED BY <2>1, <2>2, <3>1, <3>2, NoRowConverts
    <2>3. CASE m \notin Written
      <3>1. legacy[m] = NoMailRow
        BY <1>1, <2>3 DEF Written
      <3>2. QED BY <2>1, <2>3, <3>1, NoRowConverts
    <2>4. QED BY <2>1, <2>2, <2>3
  <1>3. Written \subseteq Mail
    BY <1>1 DEF Written
  <1>4. QED BY <1>2, <1>3, NoRowConverts DEF Present

(* An opener moves; the database, its rows and its history stay.             *)
LEMMA OpenerMoves ==
    ASSUME StorageInv, NEW o \in Opener, NEW row \in OpenerRow,
           opener' = [opener EXCEPT ![o] = row],
           UNCHANGED <<db, rows, legacy, touched>>, openFaults' \in 0 .. MaxOpenFault,
           Opening(o)'
    PROVE  StorageInv'
  <1>1. /\ opener' \in [Opener -> OpenerRow] /\ opener'[o] = row
        /\ \A p \in Opener : p # o => opener'[p] = opener[p]
    BY DEF StorageInv, StorageTypes
  <1>2. StorageTypes'
    BY <1>1 DEF StorageInv, StorageTypes
  <1>3. Faithful' /\ AllGuarded' = AllGuarded /\ Written' = Written /\ Inherited' = Inherited
    BY DEF StorageInv, Faithful, AllGuarded, Present, Written, Inherited
  <1>4. ASSUME NEW p \in Opener, p # o PROVE Opening(p)'
    <2>1. Opening(p) /\ opener'[p] = opener[p]
      BY <1>1, <1>4 DEF StorageInv
    <2>2. QED BY <1>3, <2>1 DEF Opening
  <1>5. (db.version = 2 => db.guards)' /\ (db.guards => AllGuarded)'
    BY <1>3 DEF StorageInv
  <1>6. QED BY <1>2, <1>3, <1>4, <1>5 DEF StorageInv

(* An opener changes the database for the better and moves on.               *)
LEMMA DatabaseGrows ==
    ASSUME StorageInv, NEW o \in Opener, NEW row \in OpenerRow, NEW d \in Database,
           opener' = [opener EXCEPT ![o] = row], db' = d,
           UNCHANGED <<rows, legacy, touched, openFaults>>,
           Grown(d),
           Opening(o)'
    PROVE  StorageInv'
  <1>1. /\ opener' \in [Opener -> OpenerRow] /\ opener'[o] = row
        /\ \A p \in Opener : p # o => opener'[p] = opener[p]
    BY DEF StorageInv, StorageTypes
  <1>2. StorageTypes'
    BY <1>1 DEF StorageInv, StorageTypes
  <1>3. AllGuarded' = AllGuarded /\ Written' = Written /\ Inherited' = Inherited
    BY DEF AllGuarded, Present, Written, Inherited
  <1>4. d.version \in {0, 2} /\ db.version \in {0, 2}
    BY DEF StorageInv, StorageTypes, Database
  <1>5. Faithful'
    BY <1>3, <1>4 DEF StorageInv, Faithful, Grown
  <1>6. ASSUME NEW p \in Opener, p # o PROVE Opening(p)'
    <2>1. Opening(p) /\ opener'[p] = opener[p]
      BY <1>1, <1>6 DEF StorageInv
    <2>2. QED BY <1>3, <2>1 DEF Opening, Grown
  <1>7. (db.version = 2 => db.guards)' /\ (db.guards => AllGuarded)'
    BY <1>3 DEF Grown
  <1>8. QED BY <1>2, <1>3, <1>5, <1>6, <1>7 DEF StorageInv

LEMMA Fresh ==
    /\ NoRows \in Reads
    /\ \A at \in OpenStage : [at |-> at, read |-> NoRows, seen |-> 0] \in OpenerRow
  <1>1. NoRows \in [{} -> MailRow]
    BY DEF NoRows
  <1>2. NoRows \in Reads
    BY <1>1 DEF Reads
  <1>3. QED BY <1>2 DEF OpenerRow

LEMMA OpenerWent ==
    ASSUME StorageTypes, NEW o \in Opener, NEW at \in OpenStage, OpenerGoes(o, at)
    PROVE  \E row \in OpenerRow : opener' = [opener EXCEPT ![o] = row] /\ row.at = at
                                  /\ opener'[o] = row
  <1>1. opener[o] \in OpenerRow
    BY DEF StorageTypes
  <1>2. [opener[o] EXCEPT !.at = at] \in OpenerRow
    BY <1>1 DEF OpenerRow
  <1>3. PICK row \in OpenerRow : row = [opener[o] EXCEPT !.at = at]
    BY <1>2
  <1>4. opener' = [opener EXCEPT ![o] = row] /\ row.at = at
    BY <1>1, <1>3 DEF OpenerGoes, OpenerRow, StorageTypes
  <1>5. opener'[o] = row
    BY <1>4 DEF StorageTypes
  <1>6. QED BY <1>4, <1>5

(* The preflight reads the rows of the previous version, or refuses them     *)
(* for what they were from the start.                                       *)
LEMMA PreflightReads ==
    ASSUME StorageInv, NEW o \in Opener, Preflight(o)
    PROVE  StorageInv'
  <1>1. UNCHANGED <<db, rows, legacy, touched, openFaults>>
    BY DEF Preflight
  <1>2. openFaults' \in 0 .. MaxOpenFault
    BY <1>1 DEF StorageInv, StorageTypes
  <1>3. Written' = Written /\ Inherited' = Inherited
    BY <1>1 DEF Written, Inherited
  <1>4. CASE Refused
    <2>1. PICK row \in OpenerRow : row = [at |-> "refused", read |-> NoRows, seen |-> 0]
      BY Fresh DEF OpenStage
    <2>2. opener' = [opener EXCEPT ![o] = row]
      BY <1>4, <2>1 DEF Preflight
    <2>3. opener'[o].at = "refused"
      BY <2>1, <2>2 DEF StorageInv, StorageTypes
    <2>4. \/ db.kind = "foreign"
          \/ ~Inherited
          \/ \E m \in DOMAIN legacy : legacy[m] # NoMailRow /\ ~Migratable(legacy[m])
      <3>1. CASE db.version = 0 /\ Inherited /\ \E m \in Present : ~Migratable(rows[m])
        <4>1. touched = {}
          BY <3>1 DEF StorageInv, Faithful
        <4>2. PICK m \in Written : ~Migratable(rows[m])
          BY <3>1, <4>1, FirstVersion DEF StorageInv
        <4>3. legacy[m] \in MailRow /\ rows[m] \in {legacy[m], Normal(legacy[m])}
          BY <3>1, <4>1, FirstVersion DEF StorageInv
        <4>4. ~Migratable(legacy[m])
          BY <4>2, <4>3, RowsConvert
        <4>5. QED BY <4>2, <4>4 DEF Written
      <3>2. CASE Inherited /\ ~(db.version = 0 /\ \E m \in Present : ~Migratable(rows[m]))
        <4>1. db.kind # "own"
          BY <1>4, <3>2 DEF Refused, StorageInv, Faithful
        <4>2. db.kind \in {"none", "own", "foreign"} /\ db.kind # "none"
          BY <3>2 DEF StorageInv, StorageTypes, Database, Faithful
        <4>3. QED BY <4>1, <4>2
      <3>3. QED BY <3>1, <3>2
    <2>5. Opening(o)'
      BY <1>1, <1>3, <2>3, <2>4 DEF Opening
    <2>6. QED BY <1>1, <1>2, <2>2, <2>5, OpenerMoves
  <1>5. CASE ~Refused /\ db.version = 2
    <2>1. PICK row \in OpenerRow : row = [at |-> "metadata", read |-> NoRows, seen |-> 0]
      BY Fresh DEF OpenStage
    <2>2. opener' = [opener EXCEPT ![o] = row]
      BY <1>5, <2>1 DEF Preflight
    <2>3. opener'[o].at = "metadata"
      BY <2>1, <2>2 DEF StorageInv, StorageTypes
    <2>4. Opening(o)'
      BY <1>1, <1>5, <2>3 DEF Opening, Preflight
    <2>5. QED BY <1>1, <1>2, <2>2, <2>4, OpenerMoves
  <1>6. CASE ~Refused /\ db.version # 2
    <2>0. db.version = 0 /\ db.kind = "own" /\ \A m \in Present : Migratable(rows[m])
      BY <1>6 DEF Refused, StorageInv, StorageTypes, Database
    <2>1. touched = {} /\ (Mail # {} => Inherited)
      BY <2>0 DEF StorageInv, Faithful
    <2>2. /\ Present = Written
          /\ \A m \in Written : /\ legacy[m] \in MailRow
                                /\ rows[m] \in {legacy[m], Normal(legacy[m])}
      <3>1. CASE Inherited
        BY <2>1, <3>1, FirstVersion DEF StorageInv
      <3>2. CASE ~Inherited
        BY <2>1, <3>2 DEF Present, Written, Inherited
      <3>3. QED BY <3>1, <3>2
    <2>3. \A m \in Written : /\ Normal(rows[m]) = Normal(legacy[m]) /\ Migratable(legacy[m])
                             /\ Normal(rows[m]) \in MailRow
      BY <2>0, <2>2, RowsConvert
    <2>4. PICK read \in Reads : read = [m \in Present |-> Normal(rows[m])]
      <3>1. [m \in Present |-> Normal(rows[m])] \in [Present -> MailRow]
        BY <2>2, <2>3
      <3>2. Present \in SUBSET Mail
        BY DEF Present
      <3>3. QED BY <3>1, <3>2 DEF Reads
    <2>5. PICK row \in OpenerRow : row = [at |-> "migrate", read |-> read, seen |-> 0]
      BY DEF OpenerRow, OpenStage
    <2>6. opener' = [opener EXCEPT ![o] = row]
      BY <1>6, <2>0, <2>4, <2>5 DEF Preflight
    <2>7. opener'[o] = row
      BY <2>6 DEF StorageInv, StorageTypes
    <2>8. row.at = "migrate" /\ row.seen = 0 /\ row.read = read
      BY <2>5
    <2>9. DOMAIN read = Written /\ \A m \in Written : read[m] = Normal(legacy[m])
      BY <2>2, <2>3, <2>4
    <2>10. Opening(o)'
      <3>1. opener'[o].at = "migrate" /\ opener'[o].seen = 0 /\ opener'[o].read = read
        BY <2>7, <2>8
      <3>2. (Mail # {} => Inherited)' /\ DOMAIN opener'[o].read = Written'
        BY <1>3, <2>1, <2>9, <3>1
      <3>3. \A m \in Written' : Migratable(legacy'[m]) /\ opener'[o].read[m] = Normal(legacy'[m])
        BY <1>1, <1>3, <2>3, <2>9, <3>1
      <3>4. QED BY <1>1, <3>1, <3>2, <3>3 DEF Opening, Preflight
    <2>11. QED BY <1>1, <1>2, <2>6, <2>10, OpenerMoves
  <1>7. QED BY <1>4, <1>5, <1>6

(* A migration writes what its preflight read.  While nobody can use the     *)
(* table this converts the rows; afterwards the guards stop what does not    *)
(* fit.                                                                     *)
LEMMA RowsMigrate ==
    ASSUME StorageInv, NEW o \in Opener, MigrateRows(o)
    PROVE  /\ StorageInv'
           /\ \A m \in Mail : \/ rows'[m] = rows[m]
                              \/ m \in Written /\ rows'[m].status = Normal(legacy[m]).status
  <1> DEFINE read == opener[o].read
             after == [m \in Mail |-> IF m \in DOMAIN read THEN Updated(rows[m], read[m]) ELSE rows[m]]
             aborted == db.guards /\ \E m \in DOMAIN read : ~Guarded(after[m])
  <1>1. /\ opener[o].at = "migrate" /\ rows' = (IF aborted THEN rows ELSE after)
        /\ OpenerGoes(o, IF aborted THEN "failed" ELSE "guards")
        /\ UNCHANGED <<db, legacy, touched, openFaults>>
    BY Zenon DEF MigrateRows
  <1>2. /\ Mail # {} => Inherited
        /\ DOMAIN read = Written
        /\ \A m \in Written : Migratable(legacy[m]) /\ read[m] = Normal(legacy[m])
    BY <1>1 DEF StorageInv, Opening
  <1>a. Written \subseteq Mail /\ \A m \in Written : legacy[m] \in MailRow
    BY DEF StorageInv, StorageTypes, Written
  <1>b. Written' = Written /\ Inherited' = Inherited
    BY <1>1 DEF Written, Inherited
  <1>3. CASE aborted
    <2>1. PICK row \in OpenerRow : /\ opener' = [opener EXCEPT ![o] = row] /\ row.at = "failed"
                                   /\ opener'[o] = row
      BY <1>1, <1>3, OpenerWent DEF StorageInv, OpenStage
    <2>2. rows' = rows
      BY <1>1, <1>3
    <2>3. Opening(o)'
      BY <2>1 DEF Opening
    <2>4. openFaults' \in 0 .. MaxOpenFault
      BY <1>1 DEF StorageInv, StorageTypes
    <2>5. StorageInv'
      BY <1>1, <2>1, <2>2, <2>3, <2>4, OpenerMoves
    <2>6. QED BY <2>2, <2>5
  <1>4. CASE ~aborted
    <2>1. PICK row \in OpenerRow : /\ opener' = [opener EXCEPT ![o] = row] /\ row.at = "guards"
                                   /\ opener'[o] = row
      BY <1>1, <1>4, OpenerWent DEF StorageInv, OpenStage
    <2>2. /\ \A m \in Mail : m \notin Written => rows'[m] = rows[m]
          /\ \A m \in Written : rows'[m] = Updated(rows[m], Normal(legacy[m]))
      BY <1>1, <1>2, <1>4, <1>a
    <2>3. ASSUME NEW m \in Written
          PROVE  /\ rows'[m] \in MailRow /\ rows'[m].status = Normal(legacy[m]).status
                 /\ rows'[m].status # "absent"
      <3>1. rows[m] \in MailRow \cup {NoMailRow} /\ Normal(legacy[m]) \in MailRow
        BY <1>a, RowsConvert DEF StorageInv, StorageTypes
      <3>2. QED BY <2>2, <3>1, RowsUpdate, NoRowConverts
    <2>4. rows' \in [Mail -> MailRow \cup {NoMailRow}]
      <3>1. \A m \in Mail : rows'[m] \in MailRow \cup {NoMailRow}
        BY <2>2, <2>3 DEF StorageInv, StorageTypes
      <3>2. rows' = after
        BY <1>1, <1>4
      <3>3. QED BY <3>1, <3>2
    <2>5. ASSUME NEW m \in Written, m \notin touched PROVE rows'[m] = Normal(legacy[m])
      <3>1. rows[m] \in {legacy[m], Normal(legacy[m])}
        BY <2>5 DEF Written, StorageInv, Faithful
      <3>2. QED BY <1>a, <2>2, <3>1, RowsConvert
    <2>6. ASSUME NEW m \in Written PROVE Guarded(rows'[m])
      <3>1. CASE db.guards
        <4>1. rows'[m] = after[m] /\ m \in DOMAIN read
          BY <1>1, <1>2, <1>4
        <4>2. QED BY <1>4, <3>1, <4>1
      <3>2. CASE ~db.guards
        <4>1. m \notin touched
          BY <3>2 DEF StorageInv, Faithful
        <4>2. QED BY <1>2, <1>a, <2>5, <4>1, RowsConvert
      <3>3. QED BY <3>1, <3>2
    <2>7. AllGuarded'
      <3>1. ASSUME NEW m \in Mail, m \notin Written, rows'[m].status # "absent"
            PROVE  Guarded(rows'[m])
        <4>1. rows'[m] = rows[m]
          BY <2>2, <3>1
        <4>2. CASE touched = {}
          <5>1. rows[m] = NoMailRow
            BY <1>2, <3>1, <4>2, FirstVersion DEF StorageInv
          <5>2. QED BY <3>1, <4>1, <5>1, NoRowConverts
        <4>3. CASE touched # {}
          <5>1. AllGuarded
            BY <4>3 DEF StorageInv, Faithful
          <5>2. QED BY <3>1, <4>1, <5>1 DEF AllGuarded, Present
        <4>4. QED BY <4>2, <4>3
      <3>2. QED BY <2>6, <3>1 DEF AllGuarded, Present
    <2>8. StorageTypes'
      <3>1. opener' \in [Opener -> OpenerRow]
        BY <2>1 DEF StorageInv, StorageTypes
      <3>2. QED BY <1>1, <2>4, <3>1 DEF StorageInv, StorageTypes
    <2>9. Faithful'
      <3>1. ASSUME NEW m \in DOMAIN legacy \ touched PROVE rows'[m] \in {legacy[m], Normal(legacy[m])}
        <4>1. m \in Mail
          BY DEF StorageInv, StorageTypes
        <4>2. CASE m \in Written
          BY <2>5, <4>2
        <4>3. CASE m \notin Written
          BY <2>2, <4>1, <4>3 DEF StorageInv, Faithful
        <4>4. QED BY <4>2, <4>3
      <3>2. Mail # {} /\ ~Inherited' => FALSE
        BY <1>2, <1>b
      <3>3. db.file
        BY <1>1 DEF StorageInv, Opening
      <3>4. QED BY <1>1, <1>b, <3>1, <3>2, <3>3 DEF StorageInv, Faithful
    <2>10. ASSUME NEW p \in Opener PROVE Opening(p)'
      <3>1. CASE p = o
        <4>1. db'.file
          BY <1>1 DEF StorageInv, Opening
        <4>2. QED BY <2>1, <2>7, <3>1, <4>1 DEF Opening
      <3>2. CASE p # o
        <4>1. opener'[p] = opener[p] /\ Opening(p)
          BY <2>1, <3>2 DEF StorageInv, StorageTypes
        <4>2. QED BY <1>1, <1>b, <2>7, <4>1 DEF Opening
      <3>3. QED BY <3>1, <3>2
    <2>11. (db.version = 2 => db.guards)' /\ (db.guards => AllGuarded)'
      BY <1>1, <2>7 DEF StorageInv
    <2>12. StorageInv'
      BY <2>8, <2>9, <2>10, <2>11 DEF StorageInv
    <2>13. QED BY <2>2, <2>3, <2>12
  <1>5. QED BY <1>3, <1>4

(* A mailbox at work keeps the guards and makes the row its own.             *)
LEMMA MailboxUsed ==
    ASSUME StorageInv, NEW o \in Opener, NEW m \in Mail, UseMailbox(o, m)
    PROVE  /\ StorageInv'
           /\ \A k \in Mail : rows[k].status = "delivered" => rows'[k] = rows[k]
  <1>1. PICK r \in {NewMail} \cup {q \in MailRow : Guarded(q)} :
          /\ CASE rows[m].status = "absent" -> r = NewMail
               [] rows[m].status = "delivered" -> FALSE
               [] rows[m].status = "leased" -> r.status # "leased"
               [] OTHER -> r.status = "leased"
          /\ rows' = [rows EXCEPT ![m] = r]
    BY Zenon DEF UseMailbox
  <1>2. /\ opener[o].at = "open" /\ touched' = touched \cup {m}
        /\ UNCHANGED <<db, opener, legacy, openFaults>>
    BY DEF UseMailbox
  <1>3. r \in MailRow /\ Guarded(r)
    BY NoRowConverts
  <1>4. db.file /\ db.version = 2 /\ db.guards /\ AllGuarded
    BY <1>2 DEF StorageInv, Opening
  <1>5. /\ rows' \in [Mail -> MailRow \cup {NoMailRow}] /\ rows'[m] = r
        /\ \A k \in Mail : k # m => rows'[k] = rows[k]
    BY <1>1, <1>3 DEF StorageInv, StorageTypes
  <1>6. AllGuarded'
    BY <1>3, <1>4, <1>5 DEF AllGuarded, Present
  <1>7. Written' = Written /\ Inherited' = Inherited
    BY <1>2 DEF Written, Inherited
  <1>8. Faithful'
    <2>1. ASSUME NEW k \in DOMAIN legacy \ touched' PROVE rows'[k] \in {legacy[k], Normal(legacy[k])}
      <3>1. k \in Mail /\ k # m /\ k \notin touched
        BY <1>2 DEF StorageInv, StorageTypes
      <3>2. QED BY <1>5, <3>1 DEF StorageInv, Faithful
    <2>2. QED BY <1>2, <1>4, <1>7, <2>1 DEF StorageInv, Faithful
  <1>9. StorageTypes'
    BY <1>2, <1>5 DEF StorageInv, StorageTypes
  <1>10. ASSUME NEW p \in Opener PROVE Opening(p)'
    <2>1. opener'[p] = opener[p] /\ Opening(p)
      BY <1>2 DEF StorageInv
    <2>2. QED BY <1>2, <1>6, <1>7, <2>1 DEF Opening
  <1>11. StorageInv'
    BY <1>2, <1>4, <1>6, <1>8, <1>9, <1>10 DEF StorageInv
  <1>12. rows[m].status # "delivered"
    BY <1>1
  <1>13. QED BY <1>5, <1>11, <1>12

(* The other steps of an opener.                                            *)
LEMMA OpenerSteps ==
    ASSUME StorageInv, NEW o \in Opener,
           \/ FindNoFile(o) \/ CreateFile(o) \/ CreateTable(o) \/ CreateGuards(o) \/ SetVersion(o)
           \/ WriteMetadata(o) \/ OpenFails(o) \/ OpenAgain(o)
    PROVE  StorageInv' /\ rows' = rows
  <1>0. /\ db \in Database /\ opener \in [Opener -> OpenerRow] /\ Opening(o)
        /\ openFaults \in 0 .. MaxOpenFault /\ (db.guards => AllGuarded)
        /\ (db.version = 2 => db.guards)
    BY DEF StorageInv, StorageTypes
  <1>1. ASSUME NEW at \in {"create", "failed", "idle"}, at = "create" => AllGuarded,
               opener' = [opener EXCEPT ![o] = [at |-> at, read |-> NoRows, seen |-> 0]],
               UNCHANGED <<db, rows, legacy, touched>>, openFaults' \in 0 .. MaxOpenFault
        PROVE  StorageInv'
    <2>1. PICK row \in OpenerRow : row = [at |-> at, read |-> NoRows, seen |-> 0]
      BY Fresh DEF OpenStage
    <2>2. opener' = [opener EXCEPT ![o] = row] /\ opener'[o].at = at
      BY <1>0, <1>1, <2>1
    <2>3. AllGuarded' = AllGuarded
      BY <1>1 DEF AllGuarded, Present
    <2>4. Opening(o)'
      BY <1>1, <2>2, <2>3 DEF Opening
    <2>5. QED BY <1>1, <2>2, <2>4, OpenerMoves
  <1>2. CASE FindNoFile(o)
    <2>1. AllGuarded
      BY <1>2, NoRowConverts DEF FindNoFile, StorageInv, Faithful, AllGuarded, Present
    <2>2. QED BY <1>0, <1>1, <1>2, <2>1 DEF FindNoFile
  <1>3. CASE OpenAgain(o)
    BY <1>0, <1>1, <1>3 DEF OpenAgain
  <1>4. CASE OpenFails(o)
    <2>1. openFaults' \in 0 .. MaxOpenFault
      BY <1>0, <1>4, StorageAssumption DEF OpenFails
    <2>2. QED BY <1>1, <1>4, <2>1 DEF OpenFails
  <1>5. ASSUME NEW at \in OpenStage, OpenerGoes(o, at), NEW d \in Database, db' = d, Grown(d),
               UNCHANGED <<rows, legacy, touched, openFaults>>,
               at \in {"table", "guards", "version", "metadata", "open"}, d.file,
               at \in {"table", "guards"} => AllGuarded, at = "version" => d.guards,
               at \in {"metadata", "open"} => d.version = 2
        PROVE  StorageInv'
    <2>1. PICK row \in OpenerRow : /\ opener' = [opener EXCEPT ![o] = row] /\ row.at = at
                                   /\ opener'[o] = row
      BY <1>5, OpenerWent DEF StorageInv
    <2>2. AllGuarded' = AllGuarded
      BY <1>5 DEF AllGuarded, Present
    <2>3. Opening(o)'
      BY <1>5, <2>1, <2>2 DEF Opening
    <2>4. QED BY <1>5, <2>1, <2>3, DatabaseGrows
  <1>6. CASE CreateFile(o)
    <2>1. /\ opener[o].at = "create" /\ db' = [db EXCEPT !.file = TRUE] /\ OpenerGoes(o, "table")
          /\ UNCHANGED <<rows, legacy, touched, openFaults>>
      BY <1>6 DEF CreateFile
    <2>2. [db EXCEPT !.file = TRUE] \in Database
      BY <1>0 DEF Database
    <2>3. PICK d \in Database : d = [db EXCEPT !.file = TRUE]
      BY <2>2
    <2>4. /\ d.file = TRUE /\ d.table = db.table /\ d.guards = db.guards
          /\ d.version = db.version /\ d.kind = db.kind
      BY <1>0, <2>3 DEF Database
    <2>5. /\ Grown(d) /\ d.file
          /\ "table" \in {"table", "guards"} => AllGuarded
          /\ "table" = "version" => d.guards
          /\ "table" \in {"metadata", "open"} => d.version = 2
      BY <1>0, <2>1, <2>4 DEF Grown, Opening
    <2>6. "table" \in OpenStage
      BY DEF OpenStage
    <2>7. StorageInv'
      BY <1>5, <2>1, <2>3, <2>5, <2>6
    <2>8. QED BY <2>1, <2>7
  <1>7. CASE CreateTable(o)
    <2>1. /\ opener[o].at = "table" /\ db' = [db EXCEPT !.table = TRUE] /\ OpenerGoes(o, "guards")
          /\ UNCHANGED <<rows, legacy, touched, openFaults>>
      BY <1>7 DEF CreateTable
    <2>2. [db EXCEPT !.table = TRUE] \in Database
      BY <1>0 DEF Database
    <2>3. PICK d \in Database : d = [db EXCEPT !.table = TRUE]
      BY <2>2
    <2>4. /\ d.file = db.file /\ d.table = TRUE /\ d.guards = db.guards
          /\ d.version = db.version /\ d.kind = db.kind
      BY <1>0, <2>3 DEF Database
    <2>5. /\ Grown(d) /\ d.file
          /\ "guards" \in {"table", "guards"} => AllGuarded
          /\ "guards" = "version" => d.guards
          /\ "guards" \in {"metadata", "open"} => d.version = 2
      BY <1>0, <2>1, <2>4 DEF Grown, Opening
    <2>6. "guards" \in OpenStage
      BY DEF OpenStage
    <2>7. StorageInv'
      BY <1>5, <2>1, <2>3, <2>5, <2>6
    <2>8. QED BY <2>1, <2>7
  <1>8. CASE CreateGuards(o)
    <2>1. /\ opener[o].at = "guards" /\ db' = [db EXCEPT !.guards = TRUE] /\ OpenerGoes(o, "version")
          /\ UNCHANGED <<rows, legacy, touched, openFaults>>
      BY <1>8 DEF CreateGuards
    <2>2. [db EXCEPT !.guards = TRUE] \in Database
      BY <1>0 DEF Database
    <2>3. PICK d \in Database : d = [db EXCEPT !.guards = TRUE]
      BY <2>2
    <2>4. /\ d.file = db.file /\ d.table = db.table /\ d.guards = TRUE
          /\ d.version = db.version /\ d.kind = db.kind
      BY <1>0, <2>3 DEF Database
    <2>5. /\ Grown(d) /\ d.file
          /\ "version" \in {"table", "guards"} => AllGuarded
          /\ "version" = "version" => d.guards
          /\ "version" \in {"metadata", "open"} => d.version = 2
      BY <1>0, <2>1, <2>4 DEF Grown, Opening
    <2>6. "version" \in OpenStage
      BY DEF OpenStage
    <2>7. StorageInv'
      BY <1>5, <2>1, <2>3, <2>5, <2>6
    <2>8. QED BY <2>1, <2>7
  <1>9. CASE SetVersion(o)
    <2>1. /\ opener[o].at = "version" /\ db' = [db EXCEPT !.version = 2] /\ OpenerGoes(o, "metadata")
          /\ UNCHANGED <<rows, legacy, touched, openFaults>>
      BY <1>9 DEF SetVersion
    <2>2. [db EXCEPT !.version = 2] \in Database
      BY <1>0 DEF Database
    <2>3. PICK d \in Database : d = [db EXCEPT !.version = 2]
      BY <2>2
    <2>4. /\ d.file = db.file /\ d.table = db.table /\ d.guards = db.guards
          /\ d.version = 2 /\ d.kind = db.kind
      BY <1>0, <2>3 DEF Database
    <2>5. /\ Grown(d) /\ d.file
          /\ "metadata" \in {"table", "guards"} => AllGuarded
          /\ "metadata" = "version" => d.guards
          /\ "metadata" \in {"metadata", "open"} => d.version = 2
      BY <1>0, <2>1, <2>4 DEF Grown, Opening
    <2>6. "metadata" \in OpenStage
      BY DEF OpenStage
    <2>7. StorageInv'
      BY <1>5, <2>1, <2>3, <2>5, <2>6
    <2>8. QED BY <2>1, <2>7
  <1>10. CASE WriteMetadata(o)
    <2>1. PICK kind \in {"none", "own", "foreign"} :
            kind = IF db.kind = "none" THEN "own" ELSE db.kind
      BY <1>0 DEF Database
    <2>2. /\ opener[o].at = "metadata" /\ db' = [db EXCEPT !.kind = kind] /\ OpenerGoes(o, "open")
          /\ UNCHANGED <<rows, legacy, touched, openFaults>>
      BY <1>10, <1>0, <2>1 DEF WriteMetadata, Database
    <2>3. [db EXCEPT !.kind = kind] \in Database
      BY <1>0 DEF Database
    <2>4. PICK d \in Database : d = [db EXCEPT !.kind = kind]
      BY <2>3
    <2>5. /\ d.file = db.file /\ d.table = db.table /\ d.guards = db.guards
          /\ d.version = db.version /\ d.kind = kind
      BY <1>0, <2>4 DEF Database
    <2>6. Grown(d) /\ d.file /\ d.version = 2
      BY <1>0, <2>1, <2>2, <2>5 DEF Grown, Opening
    <2>7. "open" \in OpenStage
      BY DEF OpenStage
    <2>8. StorageInv'
      BY <1>5, <2>2, <2>4, <2>6, <2>7
    <2>9. QED BY <2>2, <2>8
  <1>11. rows' = rows
    BY DEF FindNoFile, CreateFile, CreateTable, CreateGuards, SetVersion, WriteMetadata, OpenFails,
           OpenAgain
  <1>12. QED BY <1>2, <1>3, <1>4, <1>6, <1>7, <1>8, <1>9, <1>10, <1>11

(* Every step of StorageNext keeps the invariant.                            *)
LEMMA StorageStep == StorageInv /\ [StorageNext]_storageVars => StorageInv'
  <1> SUFFICES ASSUME StorageInv, [StorageNext]_storageVars PROVE StorageInv'
    OBVIOUS
  <1>1. CASE UNCHANGED storageVars
    BY <1>1 DEF storageVars, StorageInv, StorageTypes, Faithful, AllGuarded, Present, Opening,
                Inherited, Written
  <1>2. CASE StorageNext
    <2>1. PICK o \in Opener :
            \/ FindNoFile(o) \/ Preflight(o)
            \/ CreateFile(o) \/ CreateTable(o) \/ MigrateRows(o) \/ CreateGuards(o)
            \/ SetVersion(o) \/ WriteMetadata(o)
            \/ OpenFails(o) \/ OpenAgain(o)
            \/ \E m \in Mail : UseMailbox(o, m)
      BY <1>2 DEF StorageNext
    <2>2. CASE Preflight(o)
      BY <2>2, PreflightReads
    <2>3. CASE MigrateRows(o)
      BY <2>3, RowsMigrate
    <2>4. CASE \E m \in Mail : UseMailbox(o, m)
      BY <2>4, MailboxUsed
    <2>5. CASE \/ FindNoFile(o) \/ CreateFile(o) \/ CreateTable(o) \/ CreateGuards(o)
               \/ SetVersion(o) \/ WriteMetadata(o) \/ OpenFails(o) \/ OpenAgain(o)
      BY <2>5, OpenerSteps
    <2>6. QED BY <2>1, <2>2, <2>3, <2>4, <2>5
  <1>3. QED BY <1>1, <1>2

LEMMA StorageStart == StorageInit => StorageInv
  <1> SUFFICES ASSUME StorageInit PROVE StorageInv
    OBVIOUS
  <1>1. opener = [o \in Opener |-> [at |-> "idle", read |-> NoRows, seen |-> 0]]
    BY DEF StorageInit
  <1>2. opener \in [Opener -> OpenerRow] /\ \A o \in Opener : opener[o].at = "idle"
    BY <1>1, Fresh DEF OpenStage
  <1>3. touched = {} /\ openFaults \in 0 .. MaxOpenFault
    BY StorageAssumption DEF StorageInit
  <1>4. \A o \in Opener : Opening(o)
    BY <1>2 DEF Opening
  <1>5. CASE /\ db = [file |-> FALSE, kind |-> "none", table |-> FALSE, guards |-> FALSE, version |-> 0]
             /\ rows = [m \in Mail |-> NoMailRow] /\ legacy = NoRows
    <2>1. db \in Database /\ db.kind = "none" /\ ~db.guards /\ db.version = 0
      BY <1>5 DEF Database
    <2>2. DOMAIN legacy = {} /\ ~Inherited
      BY <1>5 DEF NoRows, Inherited
    <2>3. rows \in [Mail -> MailRow \cup {NoMailRow}] /\ \A m \in Mail : rows[m] = NoMailRow
      BY <1>5
    <2>4. StorageTypes
      BY <1>2, <1>3, <2>1, <2>2, <2>3 DEF StorageTypes
    <2>5. Faithful
      BY <1>3, <2>1, <2>2, <2>3 DEF Faithful
    <2>6. QED BY <1>4, <2>1, <2>4, <2>5 DEF StorageInv
  <1>6. CASE /\ db \in [file: {TRUE}, kind: {"own", "foreign"}, table: {TRUE}, guards: {FALSE}, version: {0}]
             /\ rows \in [Mail -> LegacyRows \cup {NoMailRow}] /\ legacy = rows
    <2>1. /\ db \in Database /\ db.file /\ db.table /\ db.kind # "none"
          /\ ~db.guards /\ db.version = 0
      BY <1>6 DEF Database
    <2>2. LegacyRows \subseteq MailRow
      BY DEF LegacyRows
    <2>3. rows \in [Mail -> MailRow \cup {NoMailRow}]
      BY <1>6, <2>2
    <2>4. DOMAIN legacy = Mail
      BY <1>6
    <2>5. StorageTypes
      BY <1>2, <1>3, <1>6, <2>1, <2>3 DEF StorageTypes
    <2>6. Faithful
      BY <1>3, <1>6, <2>1, <2>4 DEF Faithful, Inherited
    <2>7. QED BY <1>4, <2>1, <2>5, <2>6 DEF StorageInv
  <1>7. QED BY <1>5, <1>6 DEF StorageInit

(* Whoever opens the mailbox and dies on the way, in whatever order several  *)
(* openers read, convert, guard and stamp it: a database of version 2 has    *)
(* its triggers and rows that satisfy them, a row no mailbox has used says   *)
(* what it said, and a good mailbox is not refused                          *)
(* (_preflight_mail_database(), _migrate_mail_database()).                   *)
THEOREM MigrationSafeAlways == StorageSpec => []MigrationSafe
  <1>1. StorageInv => MigrationSafe
    <2> SUFFICES ASSUME StorageInv PROVE MigrationSafe
      OBVIOUS
    <2>1. StorageTypeOK
      <3>1. ASSUME NEW o \in Opener
            PROVE  /\ opener[o].at \in OpenStage
                   /\ \A m \in DOMAIN opener[o].read : opener[o].read[m] \in MailRow
        <4>1. opener[o].at \in OpenStage /\ opener[o].read \in Reads
          BY DEF StorageInv, StorageTypes, OpenerRow
        <4>2. PICK D \in SUBSET Mail : opener[o].read \in [D -> MailRow]
          BY <4>1 DEF Reads
        <4>3. QED BY <4>1, <4>2
      <3>2. QED BY <3>1 DEF StorageTypeOK, StorageInv, StorageTypes, OpenStage, Database
    <2>2. ContractHolds
      BY DEF ContractHolds, StorageInv, AllGuarded
    <2>3. MigrationKeeps
      BY DEF MigrationKeeps, StorageInv, Faithful
    <2>4. RefusedForCause
      BY DEF RefusedForCause, StorageInv, Opening, Inherited
    <2>5. QED BY <2>1, <2>2, <2>3, <2>4 DEF MigrationSafe
  <1>2. QED BY <1>1, StorageStart, StorageStep, PTL DEF StorageSpec

(* What a mailbox has delivered is not undone by opening the database, as    *)
(* long as no process holds rows it read before another one migrated them.  *)
THEOREM FinishedStaysAlways == StorageSpec => FinishedStays
  <1> DEFINE Stays ==
        (\A o \in Opener : ~(opener[o].at = "migrate" /\ opener[o].seen < db.version))
          => \A m \in Mail : rows[m].status = "delivered" => rows'[m].status = "delivered"
  <1>1. StorageInv /\ [StorageNext]_storageVars => Stays
    <2> SUFFICES ASSUME StorageInv, [StorageNext]_storageVars,
                        \A o \in Opener : ~(opener[o].at = "migrate" /\ opener[o].seen < db.version),
                        NEW m \in Mail, rows[m].status = "delivered"
                 PROVE  rows'[m].status = "delivered"
      OBVIOUS
    <2>1. CASE UNCHANGED storageVars
      BY <2>1 DEF storageVars
    <2>2. CASE StorageNext
      <3>1. PICK o \in Opener :
              \/ FindNoFile(o) \/ Preflight(o)
              \/ CreateFile(o) \/ CreateTable(o) \/ MigrateRows(o) \/ CreateGuards(o)
              \/ SetVersion(o) \/ WriteMetadata(o)
              \/ OpenFails(o) \/ OpenAgain(o)
              \/ \E k \in Mail : UseMailbox(o, k)
        BY <2>2 DEF StorageNext
      <3>2. CASE Preflight(o)
        BY <3>2 DEF Preflight
      <3>3. CASE MigrateRows(o)
        <4>1. opener[o].at = "migrate" /\ opener[o].seen = 0
          BY <3>3 DEF MigrateRows, StorageInv, Opening
        <4>2. db.version = 0
          BY <4>1 DEF StorageInv, StorageTypes, Database
        <4>3. touched = {}
          BY <4>2 DEF StorageInv, Faithful
        <4>4. rows'[m] = rows[m] \/ (m \in Written /\ rows'[m].status = Normal(legacy[m]).status)
          BY <3>3, RowsMigrate
        <4>5. CASE m \in Written /\ rows'[m].status = Normal(legacy[m]).status
          <5>1. Inherited
            BY <4>5 DEF Written, Inherited
          <5>2. legacy[m] \in MailRow /\ rows[m] \in {legacy[m], Normal(legacy[m])}
            BY <4>3, <4>5, <5>1, FirstVersion DEF StorageInv
          <5>3. Normal(legacy[m]).status = "delivered"
            BY <5>2, RowsConvert
          <5>4. QED BY <4>5, <5>3
        <4>6. QED BY <4>4, <4>5
      <3>4. CASE \E k \in Mail : UseMailbox(o, k)
        BY <3>4, MailboxUsed
      <3>5. CASE \/ FindNoFile(o) \/ CreateFile(o) \/ CreateTable(o) \/ CreateGuards(o)
                 \/ SetVersion(o) \/ WriteMetadata(o) \/ OpenFails(o) \/ OpenAgain(o)
        BY <3>5, OpenerSteps
      <3>6. QED BY <3>1, <3>2, <3>3, <3>4, <3>5
    <2>3. QED BY <2>1, <2>2
  <1>2. QED BY <1>1, StorageStart, StorageStep, PTL DEF StorageSpec, FinishedStays
===============================================================================
