------------------------------- MODULE Mailbox -------------------------------
(***************************************************************************)
(* The durable mailbox of one project: table mail_messages in mail.db, and  *)
(* the operations of PersistentMailbox on it                               *)
(* (backend/src/bridle/agent/runtime/persistent_mailbox.py).               *)
(*                                                                         *)
(* Every operation is one BEGIN IMMEDIATE transaction, hence one action.    *)
(* The clock is read BEFORE the transaction gets the write lock, so an      *)
(* operation decides with a reading that may be BusyWait old.  An operation *)
(* that cannot get the lock answers mailbox_busy and changes nothing: a     *)
(* stuttering step.                                                         *)
(***************************************************************************)
EXTENDS Naturals, FiniteSets

CONSTANTS
    Message,       \* message_ids
    Target,        \* mailbox addresses (agent and generation)
    TargetOf,      \* the target_address of each message
    Consumer,      \* consumer_ids of the mailbox instances
    NoConsumer,    \* SQL NULL in lease_owner
    Capacity,      \* most undelivered rows the mailbox accepts
    LeaseSeconds,  \* length of a lease
    RetryBase,     \* first retry delay
    RetryMax,      \* longest retry delay
    FloatRange,    \* powers of two a float can hold (1024)
    BusyWait,      \* longest wait for the write lock (busy_timeout)
    MaxTime,       \* bound: last instant of the clock
    MaxAttempt     \* bound: claims of one message

ASSUME MailboxAssumption ==
    /\ IsFiniteSet(Message)
    /\ TargetOf \in [Message -> Target]
    /\ NoConsumer \notin Consumer
    /\ Capacity \in Nat \ {0}
    /\ LeaseSeconds \in Nat \ {0}
    /\ RetryBase \in Nat \ {0}
    /\ RetryMax \in Nat \ {0}
    /\ FloatRange \in Nat
    /\ BusyWait \in Nat
    /\ MaxTime \in Nat
    /\ MaxAttempt \in Nat

VARIABLES
    rows,    \* the table: one row per message_id, "absent" until inserted
    closed,  \* consumers whose mailbox instance is closed
    claims,  \* claims that running code remembers, valid or not
    acked,   \* history: number of "acked" answers per message
    now      \* the UTC clock

vars == <<rows, closed, claims, acked, now>>

Status == {"absent", "pending", "leased", "retry_wait", "delivered"}

(* The fresh token of a claim (secrets.token_urlsafe) is modelled by the    *)
(* ordinal of the claim of that message; 0 is NULL.                         *)
Row == [status: Status, sequence_no: Nat, attempt: Nat, next_retry_at: Nat,
        lease_owner: Consumer \cup {NoConsumer}, lease_token: Nat,
        lease_expires_at: Nat]

AbsentRow == [status |-> "absent", sequence_no |-> 0, attempt |-> 0,
              next_retry_at |-> 0, lease_owner |-> NoConsumer,
              lease_token |-> 0, lease_expires_at |-> 0]

(* What a claim returned to its caller.  open: the instance that made the   *)
(* claim has not been closed since.                                         *)
ClaimRecord == [owner: Consumer, msg: Message, token: Nat, until: Nat,
                open: BOOLEAN]

TypeOK ==
    /\ rows \in [Message -> Row]
    /\ closed \subseteq Consumer
    /\ claims \subseteq ClaimRecord
    /\ acked \in [Message -> Nat]
    /\ now \in Nat

Init ==
    /\ rows = [m \in Message |-> AbsentRow]
    /\ closed = {}
    /\ claims = {}
    /\ acked = [m \in Message |-> 0]
    /\ now = 0

-----------------------------------------------------------------------------
(* Helpers.                                                                 *)

Inserted == {m \in Message : rows[m].status # "absent"}
Active == {m \in Inserted : rows[m].status # "delivered"}

(* Clock readings an operation that commits now may be working with.        *)
Readings == {t \in 0 .. now : now <= t + BusyWait}

(* Fault: an unexpired lease does not protect a row.                        *)
DueWhileLeased(m, t) ==
    \/ rows[m].status \in {"pending", "leased"}
    \/ rows[m].status = "retry_wait" /\ rows[m].next_retry_at <= t

Due(m, t) ==
    \/ rows[m].status = "pending"
    \/ rows[m].status = "retry_wait" /\ rows[m].next_retry_at <= t
    \/ rows[m].status = "leased" /\ rows[m].lease_expires_at <= t

(* Fault: no ORDER BY sequence_no.                                          *)
AnyDue(tgt, m, t) == TargetOf[m] = tgt /\ Due(m, t)

(* claim() locks the first due row in sequence order.                       *)
FirstDue(tgt, m, t) ==
    /\ TargetOf[m] = tgt
    /\ Due(m, t)
    /\ \A n \in Message :
         TargetOf[n] = tgt /\ Due(n, t) => rows[m].sequence_no <= rows[n].sequence_no

LeaseMatches(k, t) ==
    /\ rows[k.msg].status = "leased"
    /\ rows[k.msg].lease_owner = k.owner
    /\ rows[k.msg].lease_token = k.token
    /\ rows[k.msg].lease_expires_at > t

(* Fault: the row is left in a status that claim() does not know.           *)
ReleasedUnknownStatus(m, status, retryAt) ==
    [rows[m] EXCEPT !.status = "released", !.next_retry_at = retryAt,
                    !.lease_owner = NoConsumer, !.lease_token = 0,
                    !.lease_expires_at = 0]

(* The UPDATE shared by ack, nack and close: the lease columns become NULL. *)
Released(m, status, retryAt) ==
    [rows[m] EXCEPT !.status = status, !.next_retry_at = retryAt,
                    !.lease_owner = NoConsumer, !.lease_token = 0,
                    !.lease_expires_at = 0]

(* delay = min(retry_base * 2 ** max(0, attempt - 1), retry_max); a leased   *)
(* row has attempt >= 1.                                                    *)
IsRetryDelay(delay, attempt) ==
    LET backoff == RetryBase * 2 ^ (attempt - 1)
    IN  delay = IF backoff <= RetryMax THEN backoff ELSE RetryMax

(* retry_base is a float: 2 ** (attempt - 1) must fit into one.             *)
InFloatRange(attempt) == attempt <= FloatRange

(* s = COALESCE(MAX(sequence_no), 0) + 1                                    *)
NextSequence(s) ==
    /\ \A m \in Message : rows[m].sequence_no < s
    /\ s = 1 \/ \E m \in Message : rows[m].sequence_no = s - 1

-----------------------------------------------------------------------------
(* Fault: no check for an existing message_id (INSERT OR REPLACE).          *)
EnqueueReplacing(c, m) ==
    /\ c \notin closed
    /\ Cardinality(Active) < Capacity
    /\ \E s \in 1 .. Cardinality(Message) :
         /\ NextSequence(s)
         /\ rows' = [rows EXCEPT ![m] = [AbsentRow EXCEPT !.status = "pending",
                                                           !.sequence_no = s]]
    /\ UNCHANGED <<closed, claims, acked, now>>

(* enqueue() through instance c.  An existing message_id and a full mailbox *)
(* answer "existing" and "backpressure" and change nothing.  sequence_no is *)
(* MAX(sequence_no) + 1.                                                    *)
Enqueue(c, m) ==
    /\ c \notin closed
    /\ rows[m].status = "absent"
    /\ Cardinality(Active) < Capacity
    /\ \E s \in 1 .. Cardinality(Message) :
         /\ NextSequence(s)
         /\ rows' = [rows EXCEPT ![m] = [AbsentRow EXCEPT !.status = "pending",
                                                           !.sequence_no = s]]
    /\ UNCHANGED <<closed, claims, acked, now>>

Claim(c, tgt, t) ==
    /\ c \notin closed
    /\ \E m \in Message :
         /\ FirstDue(tgt, m, t)
         /\ rows[m].attempt < MaxAttempt
         /\ rows' = [rows EXCEPT ![m].status = "leased",
                                 ![m].attempt = @ + 1,
                                 ![m].next_retry_at = 0,
                                 ![m].lease_owner = c,
                                 ![m].lease_token = rows[m].attempt + 1,
                                 ![m].lease_expires_at = t + LeaseSeconds]
         /\ claims' = claims \cup {[owner |-> c, msg |-> m,
                                    token |-> rows[m].attempt + 1,
                                    until |-> t + LeaseSeconds, open |-> TRUE]}
    /\ UNCHANGED <<closed, acked, now>>

(* Fault: a renewal is added to the old expiry instead of counted from now. *)
RenewCumulative(k, t) ==
    /\ LeaseMatches(k, t)
    /\ rows' = [rows EXCEPT ![k.msg].lease_expires_at = @ + LeaseSeconds]
    /\ claims' = (claims \ {k})
                   \cup {[k EXCEPT !.until = rows[k.msg].lease_expires_at + LeaseSeconds]}
    /\ UNCHANGED <<closed, acked, now>>

(* renew, ack and nack do not look at _closed: late calls of a closed        *)
(* instance reach the table as well.                                        *)
Renew(k, t) ==
    /\ LeaseMatches(k, t)
    /\ rows' = [rows EXCEPT ![k.msg].lease_expires_at = t + LeaseSeconds]
    /\ claims' = (claims \ {k}) \cup {[k EXCEPT !.until = t + LeaseSeconds]}
    /\ UNCHANGED <<closed, acked, now>>

Ack(k, t) ==
    /\ LeaseMatches(k, t)
    /\ rows' = [rows EXCEPT ![k.msg] = Released(k.msg, "delivered", 0)]
    /\ claims' = claims \ {k}
    /\ acked' = [acked EXCEPT ![k.msg] = @ + 1]
    /\ UNCHANGED <<closed, now>>

Nack(k, t) ==
    /\ LeaseMatches(k, t)
    /\ InFloatRange(rows[k.msg].attempt)
    /\ \E delay \in 1 .. RetryMax :
         /\ IsRetryDelay(delay, rows[k.msg].attempt)
         /\ rows' = [rows EXCEPT ![k.msg] = Released(k.msg, "retry_wait", t + delay)]
    /\ claims' = claims \ {k}
    /\ UNCHANGED <<closed, acked, now>>

(* The delay of an old message overflows: nack() raises, its transaction is  *)
(* rolled back and the row stays leased until its lease ends.               *)
NackOverflows(k, t) ==
    /\ LeaseMatches(k, t)
    /\ ~InFloatRange(rows[k.msg].attempt)
    /\ claims' = claims \ {k}
    /\ UNCHANGED <<rows, closed, acked, now>>

(* renew, ack or nack answers lost_lease: the caller drops the claim.       *)
LostLease(k, t) ==
    /\ ~LeaseMatches(k, t)
    /\ claims' = claims \ {k}
    /\ UNCHANGED <<rows, closed, acked, now>>

(* close() gives back every row leased under its consumer_id.               *)
Close(c) ==
    /\ c \notin closed
    /\ rows' = [m \in Message |->
                  IF rows[m].status = "leased" /\ rows[m].lease_owner = c
                  THEN Released(m, "pending", 0) ELSE rows[m]]
    /\ closed' = closed \cup {c}
    /\ claims' = {IF k.owner = c THEN [k EXCEPT !.open = FALSE] ELSE k : k \in claims}
    /\ UNCHANGED <<acked, now>>

(* A new instance under a consumer_id whose previous instance was closed.   *)
Open(c) ==
    /\ c \in closed
    /\ closed' = closed \ {c}
    /\ UNCHANGED <<rows, claims, acked, now>>

(* The process of instance c dies and comes back: its rows stay leased, its *)
(* memory is gone.                                                          *)
Restart(c) ==
    /\ closed' = closed \ {c}
    /\ claims' = {k \in claims : k.owner # c}
    /\ UNCHANGED <<rows, acked, now>>

Tick ==
    /\ now < MaxTime
    /\ now' = now + 1
    /\ UNCHANGED <<rows, closed, claims, acked>>

Next ==
    \/ \E c \in Consumer, m \in Message : Enqueue(c, m)
    \/ \E c \in Consumer, tgt \in Target, t \in Readings : Claim(c, tgt, t)
    \/ \E k \in claims, t \in Readings :
         Renew(k, t) \/ Ack(k, t) \/ Nack(k, t) \/ NackOverflows(k, t) \/ LostLease(k, t)
    \/ \E c \in Consumer : Close(c) \/ Open(c) \/ Restart(c)
    \/ Tick

Spec == Init /\ [][Next]_vars

-----------------------------------------------------------------------------
(* The promise of the mailbox to its users, DurableQueue: accepted messages *)
(* are never lost, first handed out in order, finished once.                *)
Queue == INSTANCE DurableQueue WITH
    rank <- [m \in Message |-> rows[m].sequence_no],
    handed <- {m \in Message : rows[m].attempt > 0},
    finished <- {m \in Message : rows[m].status = "delivered"}

(* The leases, retries, closes and restarts of the table implement that      *)
(* queue: redelivery is invisible to it.                                    *)
ImplementsQueue == Queue!Spec

(* Lease exclusion: two instances that both still count on an unexpired     *)
(* lease of the same message do not exist, however late their clock         *)
(* readings, and however claims, renewals, expiries, closes and restarts    *)
(* interleave (_lease_matches and the WHERE clause of claim()).             *)
Holding(k) == k.open /\ k.until > now

LeaseExclusion ==
    \A j, k \in claims : Holding(j) /\ Holding(k) /\ j.msg = k.msg => j = k

(* An unexpired lease that its holder counts on is the lease in the table:   *)
(* its ack will be accepted until the lease runs out.                       *)
HolderIsOwner ==
    \A k \in claims : Holding(k) =>
        /\ LeaseMatches(k, now)
        /\ rows[k.msg].lease_expires_at = k.until

(* A message_id without a row has no lease, no attempt and no number.        *)
AbsentBlank == \A m \in Message : rows[m].status = "absent" => rows[m] = AbsentRow

(* Exactly the inserted rows are numbered, and a row that was never claimed  *)
(* is waiting.                                                              *)
RowsWellFormed ==
    \A m \in Message :
        /\ rows[m].sequence_no = 0 <=> rows[m].status = "absent"
        /\ rows[m].attempt = 0 => rows[m].status \in {"absent", "pending"}

(* Claims of one message carry different tokens, none of them newer than     *)
(* the last claim of the table.                                             *)
TokensFresh ==
    /\ \A k \in claims : k.token <= rows[k.msg].attempt
    /\ \A j, k \in claims : j.msg = k.msg /\ j.token = k.token => j = k

(* A message is answered "acked" at most once, and exactly when its row is   *)
(* delivered: acks of superseded claims are refused.                        *)
AckedOnce ==
    \A m \in Message :
        acked[m] = IF rows[m].status = "delivered" THEN 1 ELSE 0

(* A lease in the table never outlives a full lease period counted from     *)
(* now, and a retry is never further away than the maximal delay: a crashed *)
(* holder delays a message by a bounded time.                               *)
BoundedDelay ==
    \A m \in Message :
        /\ rows[m].status = "leased" => rows[m].lease_expires_at <= now + LeaseSeconds
        /\ rows[m].status = "retry_wait" => rows[m].next_retry_at <= now + RetryMax
===============================================================================
