------------------------------ MODULE WakeSignal ------------------------------
(***************************************************************************)
(* Waiting for mail: PersistentMailbox.receive() and the wake signal of each *)
(* mailbox instance (agent/runtime/persistent_mailbox.py, mailbox.py).      *)
(*                                                                         *)
(* Receivers run on one event loop, which does nothing else between two      *)
(* awaits; senders commit and notify from any thread.  notify() only        *)
(* schedules _advance_on_loop(): the version moves, and waiters wake, later. *)
(***************************************************************************)
EXTENDS Naturals

CONSTANTS
    Receiver,    \* mailbox instances that receive for one target
    Letter,      \* messages for that target
    NoReceiver,  \* NULL in lease_owner
    MaxTry       \* bound: claims of one letter

ASSUME WakeAssumption == NoReceiver \notin Receiver /\ MaxTry \in Nat

VARIABLES
    letter,  \* the rows
    owed,    \* rows committed by a thread that has not called notify() yet
    sig,     \* the wake signal of each receiver; moved: its version is not the
             \* one its receive() noted
    calls,   \* scheduled calls of its _advance_on_loop()
    rcv      \* where its receive() is

Out == [at |-> "out", deadline |-> FALSE, timer |-> FALSE]

wakeVars == <<letter, owed, sig, calls, rcv>>

WakeInit ==
    /\ letter = [l \in Letter |-> [status |-> "absent", due |-> FALSE, by |-> NoReceiver, attempt |-> 0]]
    /\ owed = {}
    /\ sig = [r \in Receiver |-> [bound |-> FALSE, pending |-> FALSE, closed |-> FALSE,
                                  waiter |-> FALSE, moved |-> FALSE]]
    /\ calls = [r \in Receiver |-> 0]
    /\ rcv = [r \in Receiver |-> Out]

(* The loop is at an await of every receiver.                               *)
LoopFree == \A r \in Receiver : rcv[r].at \in {"out", "hook", "waiting", "woken"}

At(r, at) ==
    rcv' = [rcv EXCEPT ![r] = IF at = "out" THEN Out ELSE [@ EXCEPT !.at = at, !.timer = FALSE]]

(* Letters claim() would lease.                                             *)
DueLetters ==
    {l \in Letter : (letter[l].status = "pending" \/ letter[l].due) /\ letter[l].attempt < MaxTry}

(* The UPDATE of ack, nack and close: the lease is over.                    *)
Moved(l, status) ==
    [letter[l] EXCEPT !.status = status, !.due = FALSE, !.by = NoReceiver]

(* claim() leases a due letter and receive() returns it.                    *)
Take(r) ==
    /\ \E l \in DueLetters :
         letter' = [letter EXCEPT ![l] = [status |-> "leased", due |-> FALSE, by |-> r,
                                                  attempt |-> @.attempt + 1]]
    /\ At(r, "out")
    /\ UNCHANGED <<owed, sig, calls>>

-----------------------------------------------------------------------------
(* enqueue() commits, then notifies.                                        *)
Send(l) ==
    /\ letter[l].status = "absent"
    /\ letter' = [letter EXCEPT ![l].status = "pending"]
    /\ owed' = owed \cup {l}
    /\ UNCHANGED <<sig, calls, rcv>>

(* Fault: only one of the instances of the database is notified.            *)
NotifyFirst(l) ==
    LET one == CHOOSE r \in Receiver : TRUE
    IN  /\ l \in owed
        /\ owed' = owed \ {l}
        /\ sig' = [sig EXCEPT ![one].pending = @ \/ (~sig[one].closed /\ ~sig[one].bound)]
        /\ calls' = [calls EXCEPT ![one] = IF sig[one].bound /\ ~sig[one].closed THEN @ + 1 ELSE @]
        /\ UNCHANGED <<letter, rcv>>

(* notify_database(): every open instance of this process.                  *)
NotifyDatabase(l) ==
    /\ l \in owed
    /\ owed' = owed \ {l}
    /\ sig' = [r \in Receiver |->
                 [sig[r] EXCEPT !.pending = @ \/ (~sig[r].closed /\ ~sig[r].bound)]]
    /\ calls' = [r \in Receiver |->
                   IF sig[r].bound /\ ~sig[r].closed THEN calls[r] + 1 ELSE calls[r]]
    /\ UNCHANGED <<letter, rcv>>

(* Fault: the version moves but the waiters stay.                           *)
AdvanceVersionOnly(r) ==
    /\ LoopFree /\ calls[r] > 0
    /\ calls' = [calls EXCEPT ![r] = @ - 1]
    /\ sig' = [sig EXCEPT ![r].moved = @ \/ ~sig[r].closed]
    /\ UNCHANGED <<letter, owed, rcv>>

AdvanceOnLoop(r) ==
    /\ LoopFree /\ calls[r] > 0
    /\ calls' = [calls EXCEPT ![r] = @ - 1]
    /\ IF sig[r].closed THEN UNCHANGED <<sig, rcv>>
       ELSE /\ sig' = [sig EXCEPT ![r].moved = TRUE, ![r].waiter = FALSE]
            /\ IF sig[r].waiter THEN At(r, "woken") ELSE UNCHANGED rcv
    /\ UNCHANGED <<letter, owed>>

(* receive(), with or without a timeout, binds the signal to the loop and    *)
(* makes up for a notification that came before.                            *)
Receive(r) ==
    /\ LoopFree /\ rcv[r].at = "out" /\ ~sig[r].closed
    /\ \E timed \in BOOLEAN : rcv' = [rcv EXCEPT ![r].at = "claim", ![r].deadline = timed]
    /\ sig' = [sig EXCEPT ![r].bound = TRUE, ![r].pending = FALSE,
                          ![r].moved = @ \/ sig[r].pending]
    /\ UNCHANGED <<letter, owed, calls>>

(* The first claim finds nothing: the version is noted, the hook awaited.    *)
FirstClaim(r) ==
    /\ rcv[r].at = "claim"
    /\ \/ Take(r)
       \/ /\ DueLetters = {}
          /\ At(r, "hook")
          /\ sig' = [sig EXCEPT ![r].moved = FALSE]
          /\ UNCHANGED <<letter, owed, calls>>

AfterHook(r) ==
    /\ LoopFree /\ rcv[r].at = "hook"
    /\ At(r, IF sig[r].closed THEN "out" ELSE "recheck")
    /\ UNCHANGED <<letter, owed, sig, calls>>

(* The second claim.  A receive() that ran out of time returns "empty".     *)
Recheck(r) ==
    /\ rcv[r].at = "recheck"
    /\ \/ Take(r)
       \/ /\ DueLetters = {}
          /\ \E at \in {"register"} \cup (IF rcv[r].deadline THEN {"out"} ELSE {}) : At(r, at)
          /\ UNCHANGED <<letter, owed, sig, calls>>

(* _next_due_delay(): leased and waiting letters come back by themselves.    *)
NextDue == \E l \in Letter : letter[l].status \in {"leased", "retry_wait"}

(* wait_for_change(): a waiter only if nothing has happened since.          *)
Register(r) ==
    /\ rcv[r].at = "register"
    /\ IF sig[r].moved
       THEN At(r, "claim") /\ UNCHANGED sig
       ELSE /\ sig' = [sig EXCEPT ![r].waiter = TRUE]
            /\ rcv' = [rcv EXCEPT ![r].at = "waiting", ![r].timer = rcv[r].deadline \/ NextDue]
    /\ UNCHANGED <<letter, owed, calls>>

(* The waiter's future is done.                                             *)
Resume(r) ==
    /\ LoopFree /\ rcv[r].at = "woken"
    /\ At(r, IF sig[r].closed THEN "out" ELSE "claim")
    /\ UNCHANGED <<letter, owed, sig, calls>>

(* The wait times out: the deadline has passed, or a letter may be due.     *)
TimesOut(r) ==
    /\ LoopFree /\ rcv[r].at = "waiting" /\ rcv[r].timer
    /\ \E at \in {"claim"} \cup (IF rcv[r].deadline THEN {"out"} ELSE {}) : At(r, at)
    /\ sig' = [sig EXCEPT ![r].waiter = FALSE]
    /\ UNCHANGED <<letter, owed, calls>>

(* close() gives the leases back without a notification, and ends the wait. *)
CloseReceiver(r) ==
    /\ LoopFree /\ ~sig[r].closed
    /\ letter' = [l \in Letter |-> IF letter[l].by = r /\ letter[l].status = "leased"
                                   THEN Moved(l, "pending")
                                   ELSE letter[l]]
    /\ sig' = [sig EXCEPT ![r].closed = TRUE, ![r].moved = TRUE, ![r].waiter = FALSE]
    /\ IF sig[r].waiter THEN At(r, "woken") ELSE UNCHANGED rcv
    /\ UNCHANGED <<owed, calls>>

(* The receiver is done with a letter: ack(), or nack() and its notify().   *)
Settle(r, l) ==
    /\ letter[l].status = "leased" /\ letter[l].by = r /\ ~letter[l].due
    /\ \/ letter' = [letter EXCEPT ![l] = Moved(l, "delivered")] /\ UNCHANGED owed
       \/ /\ letter' = [letter EXCEPT ![l] = Moved(l, "retry_wait")]
          /\ owed' = owed \cup {l}
    /\ UNCHANGED <<sig, calls, rcv>>

(* A lease or a retry delay ends.                                           *)
ComesDue(l) ==
    /\ letter[l].status \in {"leased", "retry_wait"} /\ ~letter[l].due
    /\ letter' = [letter EXCEPT ![l].due = TRUE]
    /\ UNCHANGED <<owed, sig, calls, rcv>>

LoopStep(r) ==
    \/ AdvanceOnLoop(r) \/ FirstClaim(r) \/ AfterHook(r) \/ Recheck(r) \/ Register(r)
    \/ Resume(r) \/ TimesOut(r)

WakeNext ==
    \/ \E l \in Letter : Send(l) \/ NotifyDatabase(l) \/ ComesDue(l)
    \/ \E r \in Receiver :
         \/ LoopStep(r) \/ Receive(r) \/ CloseReceiver(r)
         \/ \E l \in Letter : Settle(r, l)

(* The event loop runs its callbacks in the order they became ready, the     *)
(* timers fire, and a thread that committed goes on.                        *)
WakeFairness ==
    /\ \A r \in Receiver : SF_wakeVars(LoopStep(r))
    /\ \A l \in Letter : WF_wakeVars(NotifyDatabase(l))

WakeSpec == WakeInit /\ [][WakeNext]_wakeVars /\ WakeFairness

-----------------------------------------------------------------------------
(* Types; a waiter of a signal is there exactly while its receiver waits.     *)
WakeTypeOK ==
    /\ letter \in [Letter -> [status: {"absent", "pending", "leased", "retry_wait", "delivered"},
                              due: BOOLEAN, by: Receiver \cup {NoReceiver}, attempt: 0 .. MaxTry]]
    /\ owed \subseteq Letter
    /\ \A r \in Receiver :
         /\ sig[r].moved \in BOOLEAN /\ calls[r] \in Nat
         /\ rcv[r].at \in {"out", "claim", "hook", "recheck", "register", "waiting", "woken"}
         /\ sig[r].waiter = (rcv[r].at = "waiting")

(* No lost wake-up: a receiver that sleeps without a timer while a letter is *)
(* due will be woken, for some thread still owes the notification or its    *)
(* loop has it scheduled (claim, version, claim again and wait in receive(); *)
(* commit before notify in enqueue() and nack(); close() notifies nobody).  *)
NoLostWake ==
    WakeTypeOK /\ \A r \in Receiver : rcv[r].at = "waiting" /\ ~rcv[r].timer /\ DueLetters # {} =>
        owed # {} \/ calls[r] > 0

(* A receiver does not sleep on a due letter forever, nor after its mailbox  *)
(* is closed.                                                               *)
SleeperWakes ==
    \A r \in Receiver :
        (rcv[r].at = "waiting" /\ (DueLetters # {} \/ sig[r].closed)) ~> (rcv[r].at # "waiting")
=============================================================================
