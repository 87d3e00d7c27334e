---------------------------- MODULE MailboxProofs ----------------------------
(***************************************************************************)
(* Machine-checked proofs about Mailbox, for any number of messages,         *)
(* targets and consumers and any timing constants.                          *)
(***************************************************************************)
EXTENDS Mailbox, FiniteSetTheorems, TLAPS

-----------------------------------------------------------------------------
(* Type correctness.                                                        *)

LEMMA ReadingsType ==
    ASSUME TypeOK, NEW t \in Readings
    PROVE  t \in Nat /\ t <= now
  BY DEF TypeOK, Readings

LEMMA ReleasedType ==
    ASSUME TypeOK, NEW m \in Message, NEW s \in Status, NEW r \in Nat
    PROVE  Released(m, s, r) \in Row
  BY DEF TypeOK, Released, Row

LEMMA ReleasedFields ==
    ASSUME TypeOK, NEW m \in Message, NEW s, NEW r
    PROVE  /\ Released(m, s, r).status = s
           /\ Released(m, s, r).attempt = rows[m].attempt
           /\ Released(m, s, r).sequence_no = rows[m].sequence_no
  BY DEF TypeOK, Released, Row

LEMMA AbsentRowType == AbsentRow \in Row
  BY DEF AbsentRow, Row, Status

LEMMA TypeStep == TypeOK /\ [Next]_vars => TypeOK'
  <1> SUFFICES ASSUME TypeOK, [Next]_vars PROVE TypeOK'
    OBVIOUS
  <1> USE MailboxAssumption
  <1>1. ASSUME NEW c \in Consumer, NEW m \in Message, Enqueue(c, m) PROVE TypeOK'
    <2>1. Cardinality(Message) \in Nat BY FS_CardinalityType
    <2>2. PICK s \in 1 .. Cardinality(Message) :
            rows' = [rows EXCEPT ![m] = [AbsentRow EXCEPT !.status = "pending",
                                                          !.sequence_no = s]]
      BY <1>1 DEF Enqueue
    <2>3. [AbsentRow EXCEPT !.status = "pending", !.sequence_no = s] \in Row
      <3>1. s \in Nat BY <2>1
      <3>2. QED BY <3>1, AbsentRowType DEF Row, Status
    <2>4. QED BY <1>1, <2>2, <2>3 DEF Enqueue, TypeOK
  <1>2. ASSUME NEW c \in Consumer, NEW tgt \in Target, NEW t \in Readings, Claim(c, tgt, t)
        PROVE TypeOK'
    <2>1. t \in Nat BY ReadingsType
    <2>2. PICK m \in Message :
            /\ rows' = [rows EXCEPT ![m].status = "leased",
                                    ![m].attempt = @ + 1,
                                    ![m].next_retry_at = 0,
                                    ![m].lease_owner = c,
                                    ![m].lease_token = rows[m].attempt + 1,
                                    ![m].lease_expires_at = t + LeaseSeconds]
            /\ claims' = claims \cup {[owner |-> c, msg |-> m,
                                       token |-> rows[m].attempt + 1,
                                       until |-> t + LeaseSeconds, open |-> TRUE]}
      BY <1>2 DEF Claim
    <2>3. rows[m].attempt \in Nat /\ t + LeaseSeconds \in Nat
      BY <2>1 DEF TypeOK, Row
    <2>4. rows' \in [Message -> Row]
      BY <2>2, <2>3 DEF TypeOK, Row, Status
    <2>5. claims' \subseteq ClaimRecord
      <3>1. rows[m].attempt + 1 \in Nat BY <2>3
      <3>2. [owner |-> c, msg |-> m, token |-> rows[m].attempt + 1,
             until |-> t + LeaseSeconds, open |-> TRUE] \in ClaimRecord
        BY <2>3, <3>1, Zenon DEF ClaimRecord
      <3>3. QED BY <2>2, <3>2 DEF TypeOK
    <2>6. QED BY <1>2, <2>4, <2>5 DEF Claim, TypeOK
  <1>3. ASSUME NEW k \in claims, NEW t \in Readings, Renew(k, t) PROVE TypeOK'
    BY <1>3, ReadingsType DEF Renew, TypeOK, Row, ClaimRecord
  <1>4. ASSUME NEW k \in claims, NEW t \in Readings, Ack(k, t) PROVE TypeOK'
    <2>1. k.msg \in Message BY DEF TypeOK, ClaimRecord
    <2>2. Released(k.msg, "delivered", 0) \in Row BY <2>1, ReleasedType DEF Status
    <2>3. QED BY <1>4, <2>1, <2>2 DEF Ack, TypeOK
  <1>5. ASSUME NEW k \in claims, NEW t \in Readings, Nack(k, t) PROVE TypeOK'
    <2>1. k.msg \in Message BY DEF TypeOK, ClaimRecord
    <2>2. t \in Nat BY ReadingsType
    <2>3. PICK delay \in 1 .. RetryMax :
            rows' = [rows EXCEPT ![k.msg] = Released(k.msg, "retry_wait", t + delay)]
      BY <1>5 DEF Nack
    <2>4. Released(k.msg, "retry_wait", t + delay) \in Row
      BY <2>1, <2>2, ReleasedType DEF Status
    <2>5. QED BY <1>5, <2>1, <2>3, <2>4 DEF Nack, TypeOK
  <1>6. ASSUME NEW k \in claims, NEW t \in Readings, LostLease(k, t) \/ NackOverflows(k, t) PROVE TypeOK'
    BY <1>6 DEF LostLease, NackOverflows, TypeOK
  <1>7. ASSUME NEW c \in Consumer, Close(c) PROVE TypeOK'
    <2>1. \A m \in Message : Released(m, "pending", 0) \in Row
      BY ReleasedType DEF Status
    <2>2. rows' \in [Message -> Row] BY <1>7, <2>1 DEF Close, TypeOK
    <2>3. claims' \subseteq ClaimRecord BY <1>7 DEF Close, TypeOK, ClaimRecord
    <2>4. QED BY <1>7, <2>2, <2>3 DEF Close, TypeOK
  <1>8. ASSUME NEW c \in Consumer, Open(c) \/ Restart(c) PROVE TypeOK'
    BY <1>8 DEF Open, Restart, TypeOK
  <1>9. CASE Tick BY <1>9 DEF Tick, TypeOK
  <1>10. CASE UNCHANGED vars BY <1>10 DEF vars, TypeOK
  <1>11. QED
    BY <1>1, <1>2, <1>3, <1>4, <1>5, <1>6, <1>7, <1>8, <1>9, <1>10 DEF Next

LEMMA TypeInit == Init => TypeOK
  BY DEF Init, TypeOK, Row, AbsentRow, Status

(* The variables of the mailbox model keep their types: the columns of       *)
(* mail_messages, the claims in the hands of callers and the clock.          *)
THEOREM TypeCorrect == Spec => []TypeOK
  BY TypeInit, TypeStep, PTL DEF Spec

-----------------------------------------------------------------------------
(* Lease exclusion.  The inductive invariant: what a holder believes is      *)
(* what the table says, and tokens identify claims.                         *)

LeaseInv == TypeOK /\ AbsentBlank /\ TokensFresh /\ HolderIsOwner

LEMMA BlankStep ==
    ASSUME TypeOK, AbsentBlank, [Next]_vars PROVE AbsentBlank'
  <1>1. ASSUME NEW c \in Consumer, NEW m \in Message, Enqueue(c, m) PROVE AbsentBlank'
    BY <1>1 DEF Enqueue, AbsentBlank, TypeOK, AbsentRow
  <1>2. ASSUME NEW c \in Consumer, NEW tgt \in Target, NEW t \in Readings, Claim(c, tgt, t)
        PROVE AbsentBlank'
    BY <1>2 DEF Claim, AbsentBlank, TypeOK, Row
  <1>3. ASSUME NEW k \in claims, NEW t \in Readings, Renew(k, t) PROVE AbsentBlank'
    BY <1>3 DEF Renew, LeaseMatches, AbsentBlank, TypeOK, Row, ClaimRecord
  <1>4. ASSUME NEW k \in claims, NEW t \in Readings, Ack(k, t) \/ Nack(k, t)
        PROVE AbsentBlank'
    <2>1. k.msg \in Message BY DEF TypeOK, ClaimRecord
    <2>2. PICK s \in {"delivered", "retry_wait"} :
            \E r : rows' = [rows EXCEPT ![k.msg] = Released(k.msg, s, r)]
      BY <1>4 DEF Ack, Nack
    <2>3. PICK r : rows' = [rows EXCEPT ![k.msg] = Released(k.msg, s, r)] BY <2>2
    <2>4. Released(k.msg, s, r).status = s BY <2>1, ReleasedFields
    <2>5. QED BY <2>1, <2>3, <2>4 DEF AbsentBlank, TypeOK
  <1>5. ASSUME NEW c \in Consumer, Close(c) PROVE AbsentBlank'
    BY <1>5 DEF Close, Released, AbsentBlank, TypeOK, Row
  <1>6. ASSUME rows' = rows PROVE AbsentBlank'
    BY <1>6 DEF AbsentBlank
  <1>7. QED
    BY <1>1, <1>2, <1>3, <1>4, <1>5, <1>6 DEF Next, LostLease, NackOverflows, Open, Restart, Tick, vars

LEMMA LeaseEnqueue ==
    ASSUME LeaseInv, TypeOK', NEW c \in Consumer, NEW m \in Message, Enqueue(c, m)
    PROVE  TokensFresh' /\ HolderIsOwner'
  <1>1. PICK s : rows' = [rows EXCEPT ![m] = [AbsentRow EXCEPT !.status = "pending",
                                                               !.sequence_no = s]]
    BY DEF Enqueue
  <1>2. claims' = claims /\ now' = now /\ rows[m].status = "absent"
    BY DEF Enqueue
  <1>3. TokensFresh'
    BY <1>1, <1>2 DEF LeaseInv, AbsentBlank, TokensFresh, TypeOK, ClaimRecord, Row, AbsentRow
  <1>4. ASSUME NEW k \in claims', Holding(k)'
        PROVE  LeaseMatches(k, now)' /\ rows'[k.msg].lease_expires_at = k.until
    <2>1. k \in claims /\ Holding(k) BY <1>2, <1>4 DEF Holding
    <2>2. k.msg \in Message /\ k.msg # m
      BY <1>2, <2>1 DEF LeaseInv, HolderIsOwner, LeaseMatches, TypeOK, ClaimRecord
    <2>3. rows'[k.msg] = rows[k.msg] BY <1>1, <2>2 DEF LeaseInv, TypeOK
    <2>4. QED BY <1>2, <2>1, <2>3 DEF LeaseInv, HolderIsOwner, LeaseMatches
  <1>5. QED BY <1>3, <1>4 DEF HolderIsOwner

LEMMA LeaseClaim ==
    ASSUME LeaseInv, TypeOK', NEW c \in Consumer, NEW tgt \in Target, NEW t \in Readings,
           Claim(c, tgt, t)
    PROVE  TokensFresh' /\ HolderIsOwner'
  <1>1. PICK m \in Message :
          /\ FirstDue(tgt, m, t)
          /\ rows' = [rows EXCEPT ![m].status = "leased",
                                  ![m].attempt = @ + 1,
                                  ![m].next_retry_at = 0,
                                  ![m].lease_owner = c,
                                  ![m].lease_token = rows[m].attempt + 1,
                                  ![m].lease_expires_at = t + LeaseSeconds]
          /\ claims' = claims \cup {[owner |-> c, msg |-> m,
                                     token |-> rows[m].attempt + 1,
                                     until |-> t + LeaseSeconds, open |-> TRUE]}
    BY DEF Claim
  <1> DEFINE new == [owner |-> c, msg |-> m, token |-> rows[m].attempt + 1,
                     until |-> t + LeaseSeconds, open |-> TRUE]
  <1>2. t \in Nat /\ t <= now /\ now' = now /\ rows[m].attempt \in Nat
    BY ReadingsType DEF LeaseInv, TypeOK, Row, Claim
  <1>3. \A k \in claims : k.msg = m => k.token # new.token
    BY <1>2 DEF LeaseInv, TokensFresh, TypeOK, ClaimRecord
  <1>4. \A k \in claims : k.msg = m => ~Holding(k)
    BY <1>1, <1>2 DEF LeaseInv, HolderIsOwner, LeaseMatches, FirstDue, Due, Holding, TypeOK, Row
  <1>5. TokensFresh'
    BY <1>1, <1>2, <1>3 DEF LeaseInv, TokensFresh, TypeOK, ClaimRecord, Row
  <1>6. ASSUME NEW k \in claims', Holding(k)'
        PROVE  LeaseMatches(k, now)' /\ rows'[k.msg].lease_expires_at = k.until
    <2>1. CASE k = new
      BY <1>1, <1>2, <1>6, <2>1 DEF Holding, LeaseMatches, LeaseInv, TypeOK, Row
    <2>2. CASE k \in claims
      <3>1. Holding(k) BY <1>2, <1>6 DEF Holding
      <3>2. k.msg # m /\ k.msg \in Message BY <1>4, <2>2, <3>1 DEF LeaseInv, TypeOK, ClaimRecord
      <3>3. rows'[k.msg] = rows[k.msg] BY <1>1, <3>2 DEF LeaseInv, TypeOK
      <3>4. QED BY <1>2, <2>2, <3>1, <3>3 DEF LeaseInv, HolderIsOwner, LeaseMatches
    <2>3. QED BY <1>1, <1>6, <2>1, <2>2
  <1>7. QED BY <1>5, <1>6 DEF HolderIsOwner

(* A claim that the table confirms is the only one its message has left.     *)
LEMMA MatchIsUnique ==
    ASSUME LeaseInv, NEW k \in claims, NEW t, LeaseMatches(k, t),
           NEW j \in claims, Holding(j), j.msg = k.msg
    PROVE  j = k
  BY DEF LeaseInv, TokensFresh, HolderIsOwner, LeaseMatches

LEMMA LeaseRenew ==
    ASSUME LeaseInv, TypeOK', NEW k \in claims, NEW t \in Readings, Renew(k, t)
    PROVE  TokensFresh' /\ HolderIsOwner'
  <1> DEFINE new == [k EXCEPT !.until = t + LeaseSeconds]
  <1>1. /\ rows' = [rows EXCEPT ![k.msg].lease_expires_at = t + LeaseSeconds]
        /\ claims' = (claims \ {k}) \cup {new}
        /\ now' = now /\ LeaseMatches(k, t)
    BY DEF Renew
  <1>2. k \in ClaimRecord /\ k.msg \in Message BY DEF LeaseInv, TypeOK, ClaimRecord
  <1>3. new.msg = k.msg /\ new.token = k.token /\ new.owner = k.owner
        /\ new.until = t + LeaseSeconds
    BY <1>2 DEF ClaimRecord
  <1>4. TokensFresh'
    BY <1>1, <1>2, <1>3 DEF LeaseInv, TokensFresh, TypeOK, ClaimRecord, Row
  <1>5. ASSUME NEW j \in claims', Holding(j)'
        PROVE  LeaseMatches(j, now)' /\ rows'[j.msg].lease_expires_at = j.until
    <2>1. CASE j = new
      BY <1>1, <1>2, <1>3, <1>5, <2>1 DEF Holding, LeaseMatches, LeaseInv, TypeOK, Row
    <2>2. CASE j \in claims \ {k}
      <3>1. Holding(j) BY <1>1, <1>5 DEF Holding
      <3>2. j.msg # k.msg /\ j.msg \in Message
        BY <1>1, <2>2, <3>1, MatchIsUnique DEF LeaseInv, TypeOK, ClaimRecord
      <3>3. rows'[j.msg] = rows[j.msg] BY <1>1, <3>2 DEF LeaseInv, TypeOK
      <3>4. QED BY <1>1, <2>2, <3>1, <3>3 DEF LeaseInv, HolderIsOwner, LeaseMatches
    <2>3. QED BY <1>1, <1>5, <2>1, <2>2
  <1>6. QED BY <1>4, <1>5 DEF HolderIsOwner

(* ack and nack alike: the row of k.msg is released and k is dropped.        *)
LEMMA LeaseRelease ==
    ASSUME LeaseInv, TypeOK', NEW k \in claims, NEW t, LeaseMatches(k, t),
           NEW status, NEW retryAt,
           rows' = [rows EXCEPT ![k.msg] = Released(k.msg, status, retryAt)],
           claims' = claims \ {k}, now' = now
    PROVE  TokensFresh' /\ HolderIsOwner'
  <1>1. k.msg \in Message BY DEF LeaseInv, TypeOK, ClaimRecord
  <1>2. \A m \in Message : rows'[m].attempt = rows[m].attempt
    BY <1>1 DEF Released, LeaseInv, TypeOK, Row
  <1>3. TokensFresh'
    BY <1>2 DEF LeaseInv, TokensFresh, TypeOK, ClaimRecord
  <1>4. ASSUME NEW j \in claims', Holding(j)'
        PROVE  LeaseMatches(j, now)' /\ rows'[j.msg].lease_expires_at = j.until
    <2>1. j \in claims /\ Holding(j) /\ j # k BY <1>4 DEF Holding
    <2>2. j.msg # k.msg /\ j.msg \in Message
      BY <2>1, MatchIsUnique DEF LeaseInv, TypeOK, ClaimRecord
    <2>3. rows'[j.msg] = rows[j.msg] BY <1>1, <2>2 DEF LeaseInv, TypeOK
    <2>4. QED BY <2>1, <2>3 DEF LeaseInv, HolderIsOwner, LeaseMatches
  <1>5. QED BY <1>3, <1>4 DEF HolderIsOwner

LEMMA LeaseClose ==
    ASSUME LeaseInv, TypeOK', NEW c \in Consumer, Close(c)
    PROVE  TokensFresh' /\ HolderIsOwner'
  <1> DEFINE Closed(k) == IF k.owner = c THEN [k EXCEPT !.open = FALSE] ELSE k
  <1>1. /\ rows' = [m \in Message |->
                     IF rows[m].status = "leased" /\ rows[m].lease_owner = c
                     THEN Released(m, "pending", 0) ELSE rows[m]]
        /\ claims' = {Closed(k) : k \in claims}
        /\ now' = now
    BY DEF Close
  <1>2. \A m \in Message : rows'[m].attempt = rows[m].attempt
    BY <1>1 DEF Released, LeaseInv, TypeOK, Row
  <1>3. \A k \in claims : /\ Closed(k).msg = k.msg /\ Closed(k).token = k.token
                          /\ Closed(k).owner = k.owner /\ Closed(k).until = k.until
                          /\ k.msg \in Message /\ k.owner \in Consumer
    BY DEF LeaseInv, TypeOK, ClaimRecord
  <1>4. TokensFresh'
    <2>1. ASSUME NEW i \in claims', NEW j \in claims'
          PROVE  /\ i.token <= rows'[i.msg].attempt
                 /\ i.msg = j.msg /\ i.token = j.token => i = j
      <3>1. PICK k \in claims : i = Closed(k) BY <1>1, <2>1
      <3>2. PICK l \in claims : j = Closed(l) BY <1>1, <2>1
      <3>3. k.token <= rows[k.msg].attempt
        BY DEF LeaseInv, TokensFresh
      <3>4. k.msg = l.msg /\ k.token = l.token => k = l
        BY DEF LeaseInv, TokensFresh
      <3> HIDE DEF Closed
      <3>5. QED BY <1>2, <1>3, <3>1, <3>2, <3>3, <3>4
    <2>2. QED BY <2>1 DEF TokensFresh
  <1>5. ASSUME NEW j \in claims', Holding(j)'
        PROVE  LeaseMatches(j, now)' /\ rows'[j.msg].lease_expires_at = j.until
    <2>1. PICK k \in claims : j = Closed(k) BY <1>1, <1>5
    <2>2. k.owner # c
      BY <1>5, <2>1 DEF Holding, LeaseInv, TypeOK, ClaimRecord
    <2>3. j = k /\ Holding(k) BY <1>1, <1>5, <2>1, <2>2 DEF Holding
    <2>4. LeaseMatches(k, now) /\ rows[k.msg].lease_expires_at = k.until
      BY <2>3 DEF LeaseInv, HolderIsOwner
    <2>5. rows'[k.msg] = rows[k.msg]
      BY <1>1, <1>3, <2>2, <2>4 DEF LeaseMatches
    <2>6. QED BY <1>1, <2>3, <2>4, <2>5 DEF LeaseMatches
  <1>6. QED BY <1>4, <1>5 DEF HolderIsOwner

(* Steps that drop claims, reopen an instance or let time pass.              *)
LEMMA LeaseForget ==
    ASSUME LeaseInv, TypeOK', rows' = rows, claims' \subseteq claims,
           now' = now \/ now' = now + 1
    PROVE  TokensFresh' /\ HolderIsOwner'
  <1>1. TokensFresh' BY DEF LeaseInv, TokensFresh
  <1>2. ASSUME NEW j \in claims', Holding(j)'
        PROVE  LeaseMatches(j, now)' /\ rows'[j.msg].lease_expires_at = j.until
    <2>1. j \in claims /\ Holding(j)
      BY <1>2 DEF Holding, LeaseInv, TypeOK, ClaimRecord
    <2>2. QED BY <1>2, <2>1 DEF Holding, LeaseInv, HolderIsOwner, LeaseMatches
  <1>3. QED BY <1>1, <1>2 DEF HolderIsOwner

LEMMA LeaseStep == LeaseInv /\ [Next]_vars => LeaseInv'
  <1> SUFFICES ASSUME LeaseInv, [Next]_vars PROVE LeaseInv'
    OBVIOUS
  <1>1. TypeOK' /\ AbsentBlank' BY TypeStep, BlankStep DEF LeaseInv
  <1>2. ASSUME NEW c \in Consumer, NEW m \in Message, Enqueue(c, m)
        PROVE TokensFresh' /\ HolderIsOwner'
    BY <1>1, <1>2, LeaseEnqueue
  <1>3. ASSUME NEW c \in Consumer, NEW tgt \in Target, NEW t \in Readings, Claim(c, tgt, t)
        PROVE TokensFresh' /\ HolderIsOwner'
    BY <1>1, <1>3, LeaseClaim
  <1>4. ASSUME NEW k \in claims, NEW t \in Readings, Renew(k, t)
        PROVE TokensFresh' /\ HolderIsOwner'
    BY <1>1, <1>4, LeaseRenew
  <1>5. ASSUME NEW k \in claims, NEW t \in Readings, Ack(k, t)
        PROVE TokensFresh' /\ HolderIsOwner'
    BY <1>1, <1>5, LeaseRelease DEF Ack
  <1>6. ASSUME NEW k \in claims, NEW t \in Readings, Nack(k, t)
        PROVE TokensFresh' /\ HolderIsOwner'
    BY <1>1, <1>6, LeaseRelease DEF Nack
  <1>7. ASSUME NEW c \in Consumer, Close(c) PROVE TokensFresh' /\ HolderIsOwner'
    BY <1>1, <1>7, LeaseClose
  <1>8. ASSUME rows' = rows, claims' \subseteq claims, now' = now \/ now' = now + 1
        PROVE TokensFresh' /\ HolderIsOwner'
    BY <1>1, <1>8, LeaseForget
  <1>9. QED
    BY <1>1, <1>2, <1>3, <1>4, <1>5, <1>6, <1>7, <1>8
    DEF Next, LeaseInv, LostLease, NackOverflows, Open, Restart, Tick, vars

LEMMA LeaseInit == Init => LeaseInv
  BY TypeInit DEF Init, LeaseInv, AbsentBlank, TokensFresh, HolderIsOwner

(* No two instances ever count on an unexpired lease of the same message.   *)
THEOREM LeaseExclusive == Spec => [](LeaseExclusion /\ HolderIsOwner)
  <1>1. LeaseInv => LeaseExclusion /\ HolderIsOwner
    <2> SUFFICES ASSUME LeaseInv, NEW j \in claims, NEW k \in claims,
                        Holding(j), Holding(k), j.msg = k.msg
                 PROVE  j = k
      BY DEF LeaseExclusion, LeaseInv
    <2>1. LeaseMatches(k, now) BY DEF LeaseInv, HolderIsOwner
    <2>2. QED BY <2>1, MatchIsUnique
  <1>2. QED BY <1>1, LeaseInit, LeaseStep, PTL DEF Spec

-----------------------------------------------------------------------------
(* One acknowledgement per message.                                          *)

LEMMA AckedStep ==
    ASSUME TypeOK, AckedOnce, [Next]_vars PROVE AckedOnce'
  <1>1. ASSUME NEW c \in Consumer, NEW m \in Message, Enqueue(c, m) PROVE AckedOnce'
    BY <1>1 DEF Enqueue, AckedOnce, TypeOK, AbsentRow
  <1>2. ASSUME NEW c \in Consumer, NEW tgt \in Target, NEW t \in Readings, Claim(c, tgt, t)
        PROVE AckedOnce'
    BY <1>2 DEF Claim, FirstDue, Due, AckedOnce, TypeOK, Row
  <1>3. ASSUME NEW k \in claims, NEW t \in Readings, Renew(k, t) PROVE AckedOnce'
    BY <1>3 DEF Renew, AckedOnce, TypeOK, Row, ClaimRecord
  <1>4. ASSUME NEW k \in claims, NEW t \in Readings, Ack(k, t) PROVE AckedOnce'
    <2>1. k.msg \in Message BY DEF TypeOK, ClaimRecord
    <2>2. Released(k.msg, "delivered", 0).status = "delivered" BY <2>1, ReleasedFields
    <2>3. QED BY <1>4, <2>1, <2>2 DEF Ack, LeaseMatches, AckedOnce, TypeOK
  <1>5. ASSUME NEW k \in claims, NEW t \in Readings, Nack(k, t) PROVE AckedOnce'
    <2>1. k.msg \in Message BY DEF TypeOK, ClaimRecord
    <2>2. PICK r : rows' = [rows EXCEPT ![k.msg] = Released(k.msg, "retry_wait", r)]
      BY <1>5 DEF Nack
    <2>3. Released(k.msg, "retry_wait", r).status = "retry_wait" BY <2>1, ReleasedFields
    <2>4. QED BY <1>5, <2>1, <2>2, <2>3 DEF Nack, LeaseMatches, AckedOnce, TypeOK
  <1>6. ASSUME NEW c \in Consumer, Close(c) PROVE AckedOnce'
    <2>1. \A m \in Message : Released(m, "pending", 0).status = "pending"
      BY ReleasedFields
    <2>2. QED BY <1>6, <2>1 DEF Close, AckedOnce, TypeOK
  <1>7. ASSUME rows' = rows, acked' = acked PROVE AckedOnce'
    BY <1>7 DEF AckedOnce
  <1>8. QED
    BY <1>1, <1>2, <1>3, <1>4, <1>5, <1>6, <1>7
    DEF Next, LostLease, NackOverflows, Open, Restart, Tick, vars

(* Whatever the interleaving of late acks, expired leases, retries and       *)
(* restarts, a message is answered "acked" once, when its row is delivered. *)
THEOREM AcknowledgedOnce == Spec => []AckedOnce
  <1>1. Init => AckedOnce BY DEF Init, AckedOnce, AbsentRow
  <1>2. QED BY <1>1, AckedStep, TypeCorrect, PTL DEF Spec

-----------------------------------------------------------------------------
(* Bounded delays.                                                           *)

(* What BoundedDelay says of one row at time t.                              *)
Within(row, t) ==
    /\ row.status = "leased" => row.lease_expires_at <= t + LeaseSeconds
    /\ row.status = "retry_wait" => row.next_retry_at <= t + RetryMax

LEMMA DelayWhen ==
    ASSUME BoundedDelay, NEW m \in Message, now' = now,
           \A n \in Message : n # m => rows'[n] = rows[n],
           Within(rows'[m], now)
    PROVE  BoundedDelay'
  BY DEF BoundedDelay, Within

LEMMA DelayStep ==
    ASSUME TypeOK, BoundedDelay, [Next]_vars PROVE BoundedDelay'
  <1> USE MailboxAssumption
  <1>1. ASSUME NEW c \in Consumer, NEW m \in Message, Enqueue(c, m) PROVE BoundedDelay'
    <2>1. rows'[m].status = "pending" /\ now' = now
          /\ \A n \in Message : n # m => rows'[n] = rows[n]
      BY <1>1 DEF Enqueue, TypeOK, AbsentRow
    <2>2. QED BY <2>1, DelayWhen DEF Within
  <1>2. ASSUME NEW c \in Consumer, NEW tgt \in Target, NEW t \in Readings, Claim(c, tgt, t)
        PROVE BoundedDelay'
    <2>1. t \in Nat /\ t <= now /\ now \in Nat BY ReadingsType DEF TypeOK
    <2>2. PICK m \in Message :
            rows' = [rows EXCEPT ![m].status = "leased",
                                 ![m].attempt = @ + 1,
                                 ![m].next_retry_at = 0,
                                 ![m].lease_owner = c,
                                 ![m].lease_token = rows[m].attempt + 1,
                                 ![m].lease_expires_at = t + LeaseSeconds]
      BY <1>2 DEF Claim
    <2>3. /\ rows'[m].status = "leased" /\ rows'[m].lease_expires_at = t + LeaseSeconds
          /\ now' = now /\ \A n \in Message : n # m => rows'[n] = rows[n]
      BY <1>2, <2>2 DEF Claim, TypeOK, Row
    <2>4. t + LeaseSeconds <= now + LeaseSeconds BY <2>1
    <2>5. QED BY <2>3, <2>4, DelayWhen DEF Within
  <1>3. ASSUME NEW k \in claims, NEW t \in Readings, Renew(k, t) PROVE BoundedDelay'
    <2>1. t \in Nat /\ t <= now /\ now \in Nat BY ReadingsType DEF TypeOK
    <2>2. k.msg \in Message BY DEF TypeOK, ClaimRecord
    <2>3. /\ rows'[k.msg].status = "leased" /\ rows'[k.msg].lease_expires_at = t + LeaseSeconds
          /\ now' = now /\ \A n \in Message : n # k.msg => rows'[n] = rows[n]
      BY <1>3, <2>2 DEF Renew, LeaseMatches, TypeOK, Row
    <2>4. t + LeaseSeconds <= now + LeaseSeconds BY <2>1
    <2>5. QED BY <2>2, <2>3, <2>4, DelayWhen DEF Within
  <1>4. ASSUME NEW k \in claims, NEW t \in Readings, Ack(k, t) PROVE BoundedDelay'
    <2>1. k.msg \in Message BY DEF TypeOK, ClaimRecord
    <2>2. Released(k.msg, "delivered", 0).status = "delivered" BY <2>1, ReleasedFields
    <2>3. /\ rows'[k.msg].status = "delivered" /\ now' = now
          /\ \A n \in Message : n # k.msg => rows'[n] = rows[n]
      BY <1>4, <2>1, <2>2 DEF Ack, TypeOK
    <2>4. QED BY <2>1, <2>3, DelayWhen DEF Within
  <1>5. ASSUME NEW k \in claims, NEW t \in Readings, Nack(k, t) PROVE BoundedDelay'
    <2>1. t \in Nat /\ t <= now /\ now \in Nat BY ReadingsType DEF TypeOK
    <2>2. k.msg \in Message BY DEF TypeOK, ClaimRecord
    <2>3. PICK delay \in 1 .. RetryMax :
            rows' = [rows EXCEPT ![k.msg] = Released(k.msg, "retry_wait", t + delay)]
      BY <1>5 DEF Nack
    <2>4. /\ Released(k.msg, "retry_wait", t + delay).status = "retry_wait"
          /\ Released(k.msg, "retry_wait", t + delay).next_retry_at = t + delay
      BY <2>2 DEF Released, TypeOK, Row
    <2>5. /\ rows'[k.msg].status = "retry_wait" /\ rows'[k.msg].next_retry_at = t + delay
          /\ now' = now /\ \A n \in Message : n # k.msg => rows'[n] = rows[n]
      BY <1>5, <2>2, <2>3, <2>4 DEF Nack, TypeOK
    <2>6. t + delay <= now + RetryMax BY <2>1
    <2>7. QED BY <2>2, <2>5, <2>6, DelayWhen DEF Within
  <1>6. ASSUME NEW c \in Consumer, Close(c) PROVE BoundedDelay'
    <2>1. \A m \in Message : Released(m, "pending", 0).status = "pending"
      BY ReleasedFields
    <2>2. QED BY <1>6, <2>1 DEF Close, BoundedDelay, TypeOK
  <1>7. CASE Tick
    <2>1. now' = now + 1 /\ rows' = rows /\ now \in Nat
      BY <1>7 DEF Tick, TypeOK
    <2>2. \A m \in Message : rows[m].lease_expires_at \in Nat /\ rows[m].next_retry_at \in Nat
      BY DEF TypeOK, Row
    <2>3. QED BY <2>1, <2>2 DEF BoundedDelay
  <1>8. ASSUME rows' = rows, now' = now PROVE BoundedDelay'
    BY <1>8 DEF BoundedDelay
  <1>9. QED
    BY <1>1, <1>2, <1>3, <1>4, <1>5, <1>6, <1>7, <1>8
    DEF Next, LostLease, NackOverflows, Open, Restart, vars

(* A crashed holder delays a message by no more than one lease period, and a *)
(* refused message comes back after no more than the longest retry delay,   *)
(* although every operation reckons with a clock reading that may be old.   *)
THEOREM DelayBounded == Spec => []BoundedDelay
  <1>1. Init => BoundedDelay BY DEF Init, BoundedDelay, AbsentRow
  <1>2. QED BY <1>1, DelayStep, TypeCorrect, PTL DEF Spec

-----------------------------------------------------------------------------
(* Refinement of DurableQueue.                                               *)

QueueInv == TypeOK /\ AbsentBlank /\ RowsWellFormed

LEMMA SameCardinality ==
    ASSUME NEW S PROVE Queue!Cardinality(S) = Cardinality(S)
  BY Zenon DEF Queue!Cardinality, Cardinality

LEMMA EnqueueIsAccept ==
    ASSUME QueueInv, NEW c \in Consumer, NEW m \in Message, Enqueue(c, m)
    PROVE  RowsWellFormed' /\ Queue!Accept(m)
  <1>1. Cardinality(Message) \in Nat BY FS_CardinalityType, MailboxAssumption
  <1>2. PICK s \in 1 .. Cardinality(Message) :
          /\ NextSequence(s)
          /\ rows' = [rows EXCEPT ![m] = [AbsentRow EXCEPT !.status = "pending",
                                                           !.sequence_no = s]]
    BY DEF Enqueue
  <1> DEFINE new == [AbsentRow EXCEPT !.status = "pending", !.sequence_no = s]
  <1>3. /\ new.status = "pending" /\ new.sequence_no = s /\ new.attempt = 0
        /\ rows'[m] = new /\ \A n \in Message \ {m} : rows'[n] = rows[n]
    BY <1>2 DEF AbsentRow, QueueInv, TypeOK
  <1>4. s \in Nat \ {0} BY <1>1
  <1>5. rows[m].status = "absent" /\ rows[m].sequence_no = 0 /\ rows[m].attempt = 0
    BY DEF Enqueue, QueueInv, AbsentBlank, AbsentRow
  <1> HIDE DEF new
  <1>6. RowsWellFormed'
    BY <1>3, <1>4 DEF QueueInv, RowsWellFormed
  <1>7. Queue!Waiting = Active
    BY DEF Queue!Waiting, Queue!Accepted, Active, Inserted, QueueInv, RowsWellFormed
  <1>8. Queue!Cardinality(Queue!Waiting) < Capacity
    BY <1>7, SameCardinality DEF Enqueue
  <1>9. {n \in Message : rows[n].status = "delivered"}'
          = {n \in Message : rows[n].status = "delivered"}
    BY <1>3, <1>5
  <1>10. {n \in Message : rows[n].attempt > 0}' = {n \in Message : rows[n].attempt > 0}
    BY <1>3, <1>5
  <1>11. \A n \in Message : rows[n].sequence_no < rows'[m].sequence_no
    BY <1>2, <1>3 DEF NextSequence
  <1> DEFINE rank == [n \in Message |-> rows[n].sequence_no]
  <1>12. /\ rank[m] = 0 /\ DOMAIN rank' = Message
         /\ \A n \in Message : rank[n] < rank'[m]
         /\ \A n \in Message \ {m} : rank'[n] = rank[n]
    BY <1>3, <1>5, <1>11
  <1>13. Queue!Accept(m)
    BY <1>8, <1>9, <1>10, <1>12, SMT DEF Queue!Accept
  <1>14. QED BY <1>6, <1>13

(* The first claim of a message hands it out, a later one is invisible.      *)
LEMMA ClaimIsHandOut ==
    ASSUME QueueInv, NEW c \in Consumer, NEW tgt \in Target, NEW t \in Readings,
           Claim(c, tgt, t)
    PROVE  RowsWellFormed' /\ [Queue!Next]_(Queue!vars)
  <1>1. PICK m \in Message :
          /\ FirstDue(tgt, m, t)
          /\ rows' = [rows EXCEPT ![m].status = "leased",
                                  ![m].attempt = @ + 1,
                                  ![m].next_retry_at = 0,
                                  ![m].lease_owner = c,
                                  ![m].lease_token = rows[m].attempt + 1,
                                  ![m].lease_expires_at = t + LeaseSeconds]
    BY DEF Claim
  <1>2. /\ rows'[m].status = "leased" /\ rows'[m].attempt = rows[m].attempt + 1
        /\ rows'[m].sequence_no = rows[m].sequence_no
        /\ \A n \in Message \ {m} : rows'[n] = rows[n]
    BY <1>1 DEF QueueInv, TypeOK, Row
  <1>3. \A n \in Message : rows[n].attempt \in Nat /\ rows[n].sequence_no \in Nat
    BY DEF QueueInv, TypeOK, Row
  <1>4. rows[m].status # "absent" /\ rows[m].status # "delivered" /\ rows[m].sequence_no # 0
    BY <1>1 DEF FirstDue, Due, QueueInv, RowsWellFormed
  <1>5. RowsWellFormed'
    BY <1>2, <1>3, <1>4 DEF QueueInv, RowsWellFormed
  <1> DEFINE rank == [n \in Message |-> rows[n].sequence_no]
             handed == {n \in Message : rows[n].attempt > 0}
             finished == {n \in Message : rows[n].status = "delivered"}
  <1>6. rank' = rank BY <1>2
  <1>7. finished' = finished BY <1>2, <1>4
  <1>8. handed' = handed \cup {m} BY <1>2, <1>3
  <1>9. CASE m \in handed
    <2>1. handed' = handed BY <1>8, <1>9
    <2>2. QED BY <1>5, <1>6, <1>7, <2>1 DEF Queue!vars
  <1>10. CASE m \notin handed
    <2>1. ASSUME NEW n \in Message, rank[n] # 0, TargetOf[n] = TargetOf[m], rank[n] < rank[m]
          PROVE  n \in handed
      <3>1. SUFFICES ASSUME rows[n].attempt = 0 PROVE FALSE
        BY <1>3
      <3>2. rows[n].status = "pending"
        BY <2>1, <3>1 DEF QueueInv, RowsWellFormed
      <3>3. rows[m].sequence_no <= rows[n].sequence_no
        BY <1>1, <2>1, <3>2 DEF FirstDue, Due
      <3>4. QED BY <1>3, <2>1, <3>3
    <2>2. m \in Queue!Accepted BY <1>4 DEF Queue!Accepted
    <2>3. \A n \in Queue!Accepted :
            TargetOf[n] = TargetOf[m] /\ rank[n] < rank[m] => n \in handed
      BY <2>1 DEF Queue!Accepted
    <2>4. Queue!HandOut(m)
      BY <1>6, <1>7, <1>8, <1>10, <2>2, <2>3, Zenon DEF Queue!HandOut
    <2>5. QED BY <1>5, <2>4 DEF Queue!Next
  <1>11. QED BY <1>9, <1>10

LEMMA AckIsFinish ==
    ASSUME QueueInv, NEW k \in claims, NEW t \in Readings, Ack(k, t)
    PROVE  RowsWellFormed' /\ Queue!Finish(k.msg) /\ k.msg \in Message
  <1> DEFINE m == k.msg
             rank == [n \in Message |-> rows[n].sequence_no]
             handed == {n \in Message : rows[n].attempt > 0}
             finished == {n \in Message : rows[n].status = "delivered"}
  <1>1. m \in Message BY DEF QueueInv, TypeOK, ClaimRecord
  <1>2. /\ rows'[m].status = "delivered" /\ rows'[m].attempt = rows[m].attempt
        /\ rows'[m].sequence_no = rows[m].sequence_no
        /\ \A n \in Message \ {m} : rows'[n] = rows[n]
    BY <1>1, ReleasedFields DEF Ack, QueueInv, TypeOK
  <1>3. \A n \in Message : rows[n].attempt \in Nat
    BY DEF QueueInv, TypeOK, Row
  <1>4. rows[m].status = "leased" BY DEF Ack, LeaseMatches
  <1>5. rows[m].attempt > 0 /\ rows[m].sequence_no # 0
    BY <1>1, <1>3, <1>4 DEF QueueInv, RowsWellFormed
  <1> HIDE DEF m
  <1>6. RowsWellFormed'
    BY <1>1, <1>2, <1>3, <1>5 DEF QueueInv, RowsWellFormed
  <1>7. rank' = rank /\ handed' = handed BY <1>1, <1>2
  <1>8. finished' = finished \cup {m} BY <1>1, <1>2
  <1>9. m \in handed \ finished BY <1>1, <1>4, <1>5
  <1>10. Queue!Finish(m) BY <1>7, <1>8, <1>9, Zenon DEF Queue!Finish
  <1>11. QED BY <1>1, <1>6, <1>10 DEF m

(* Everything else leaves the queue as it is.                                *)
LEMMA OtherStutters ==
    ASSUME QueueInv,
           \A m \in Message :
             /\ rows'[m].sequence_no = rows[m].sequence_no
             /\ rows'[m].attempt = rows[m].attempt
             /\ \/ rows'[m].status = rows[m].status
                \/ /\ rows[m].status = "leased"
                   /\ rows'[m].status \in {"pending", "retry_wait"}
    PROVE  RowsWellFormed' /\ UNCHANGED Queue!vars
  <1>1. RowsWellFormed' BY DEF QueueInv, RowsWellFormed
  <1>2. [n \in Message |-> rows[n].sequence_no]' = [n \in Message |-> rows[n].sequence_no]
    OBVIOUS
  <1>3. {n \in Message : rows[n].attempt > 0}' = {n \in Message : rows[n].attempt > 0}
    OBVIOUS
  <1>4. {n \in Message : rows[n].status = "delivered"}'
          = {n \in Message : rows[n].status = "delivered"}
    OBVIOUS
  <1>5. QED BY <1>1, <1>2, <1>3, <1>4 DEF Queue!vars

LEMMA QueueStep ==
    ASSUME QueueInv, [Next]_vars PROVE QueueInv' /\ [Queue!Next]_(Queue!vars)
  <1>1. TypeOK' /\ AbsentBlank' BY TypeStep, BlankStep DEF QueueInv
  <1> DEFINE Goal == RowsWellFormed' /\ [Queue!Next]_(Queue!vars)
  <1>2. ASSUME NEW c \in Consumer, NEW m \in Message, Enqueue(c, m) PROVE Goal
    BY <1>2, EnqueueIsAccept DEF Queue!Next
  <1>3. ASSUME NEW c \in Consumer, NEW tgt \in Target, NEW t \in Readings, Claim(c, tgt, t)
        PROVE Goal
    BY <1>3, ClaimIsHandOut
  <1>4. ASSUME NEW k \in claims, NEW t \in Readings, Ack(k, t) PROVE Goal
    BY <1>4, AckIsFinish DEF Queue!Next
  <1>5. ASSUME NEW k \in claims, NEW t \in Readings, Renew(k, t) PROVE Goal
    <2>1. k.msg \in Message BY DEF QueueInv, TypeOK, ClaimRecord
    <2>2. \A m \in Message : /\ rows'[m].sequence_no = rows[m].sequence_no
                             /\ rows'[m].attempt = rows[m].attempt
                             /\ rows'[m].status = rows[m].status
      BY <1>5, <2>1 DEF Renew, QueueInv, TypeOK, Row
    <2>3. QED BY <2>2, OtherStutters
  <1>6. ASSUME NEW k \in claims, NEW t \in Readings, Nack(k, t) PROVE Goal
    <2>1. k.msg \in Message BY DEF QueueInv, TypeOK, ClaimRecord
    <2>2. PICK r : rows' = [rows EXCEPT ![k.msg] = Released(k.msg, "retry_wait", r)]
      BY <1>6 DEF Nack
    <2>3. rows[k.msg].status = "leased" BY <1>6 DEF Nack, LeaseMatches
    <2>4. /\ rows'[k.msg].status = "retry_wait"
          /\ rows'[k.msg].attempt = rows[k.msg].attempt
          /\ rows'[k.msg].sequence_no = rows[k.msg].sequence_no
          /\ \A n \in Message \ {k.msg} : rows'[n] = rows[n]
      BY <2>1, <2>2, ReleasedFields DEF QueueInv, TypeOK
    <2>5. QED BY <2>1, <2>3, <2>4, OtherStutters
  <1>7. ASSUME NEW c \in Consumer, Close(c) PROVE Goal
    <2>1. \A m \in Message :
            \/ rows'[m] = rows[m]
            \/ rows[m].status = "leased" /\ rows'[m] = Released(m, "pending", 0)
      BY <1>7 DEF Close
    <2>2. QED BY <2>1, ReleasedFields, OtherStutters DEF QueueInv
  <1>8. ASSUME rows' = rows PROVE Goal
    BY <1>8, OtherStutters
  <1>9. QED
    BY <1>1, <1>2, <1>3, <1>4, <1>5, <1>6, <1>7, <1>8
    DEF Next, QueueInv, LostLease, NackOverflows, Open, Restart, Tick, vars

(* The mailbox implements the durable queue: no accepted message is lost,    *)
(* new messages of a target are handed out in order, none is finished twice *)
(* or unseen, and no more than Capacity wait, whatever instances crash,      *)
(* close, time out or answer late.                                          *)
THEOREM MailboxImplementsQueue == Spec => ImplementsQueue
  <1>1. Init => QueueInv /\ Queue!Init
    <2>1. Init => QueueInv
      BY TypeInit DEF Init, QueueInv, AbsentBlank, RowsWellFormed, AbsentRow
    <2>2. Init => Queue!Init
      BY DEF Init, Queue!Init, AbsentRow
    <2>3. QED BY <2>1, <2>2
  <1>2. QueueInv /\ [Next]_vars => QueueInv' /\ [Queue!Next]_(Queue!vars)
    BY QueueStep
  <1>3. QED BY <1>1, <1>2, PTL DEF Spec, ImplementsQueue, Queue!Spec
=============================================================================
