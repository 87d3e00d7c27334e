------------------------------- MODULE MapProofs -------------------------------
(***************************************************************************)
(* Proofs about the way of a change into the map, for any number of          *)
(* messages, instances, crashes and failures.                               *)
(***************************************************************************)
EXTENDS MapRuntime, TLAPS

USE DEF tableVars, loopVars, registryVars, agentVars, faultVars, Inst

-----------------------------------------------------------------------------
(* Types.  The Boolean flags (flags of instances and the signal) are kept    *)
(* apart from the rest, which needs arithmetic.                             *)

Flags == signal \in BOOLEAN /\ fresh \in [Inst -> BOOLEAN] /\ thread \in [Inst -> BOOLEAN]

Tables ==
    /\ outbox \in [Message -> {"none", "ready", "sent", "delivered"}]
    /\ mail \in [Message -> {"none", "pending", "leased", "retry_wait", "delivered"}]
    /\ holder \in [Message -> 0 .. MaxInst]
    /\ applied \in [Message -> Nat]
    /\ round \subseteq Message /\ wakes \subseteq Message

Registry ==
    /\ pc \in [Inst -> Pc] /\ batch \in [Inst -> SUBSET Message]
    /\ cur \in 0 .. MaxInst /\ last \in 0 .. MaxInst /\ waking \in 0 .. MaxInst
    /\ wakeFor \subseteq Message

Modes ==
    /\ mode \in {"startup", "draining", "up", "stopping"}
    /\ crashes \in 0 .. MaxCrash /\ retries \in 0 .. MaxRetry /\ strands \in 0 .. MaxStrand

LEMMA TypeParts == TypeOK <=> Flags /\ Tables /\ Registry /\ Modes
  BY Zenon DEF TypeOK, Flags, Tables, Registry, Modes

LEMMA TypeInit == Init => TypeOK
  <1>1. Init => Flags BY Zenon DEF Init, Flags
  <1>2. Init => Tables BY MapAssumption DEF Init, Tables
  <1>3. Init => Registry BY MapAssumption DEF Init, Registry, Pc
  <1>4. Init => Modes BY MapAssumption DEF Init, Modes
  <1>5. QED BY <1>1, <1>2, <1>3, <1>4, TypeParts

LEMMA FlagsStep ==
  ASSUME Flags, [Next]_vars
  PROVE  Flags'
  <1>1. CASE EndRound BY <1>1, Zenon DEF Flags, EndRound
  <1>2. CASE RoundFails BY <1>2, Zenon DEF Flags, RoundFails
  <1>3. CASE Advance BY <1>3, Zenon DEF Flags, Advance
  <1>4. CASE WakeEnds BY <1>4, Zenon DEF Flags, WakeEnds, Goto
  <1>5. CASE WakeFails BY <1>5, Zenon DEF Flags, WakeFails, Goto
  <1>6. CASE StartupWake BY <1>6, Zenon DEF Flags, StartupWake, MakeInstance, Goto
  <1>7. CASE StartupEnds BY <1>7, Zenon DEF Flags, StartupEnds
  <1>8. CASE StartupFails BY <1>8, Zenon DEF Flags, StartupFails
  <1>9. CASE Crash BY <1>9, Zenon DEF Flags, Crash, AllEnded
  <1>10. CASE Shutdown BY <1>10, Zenon DEF Flags, Shutdown, AllEnded
  <1>11. CASE Restart BY <1>11, Zenon DEF Flags, Restart
  <1>12. ASSUME NEW m \in Message, Produce(m) \/ Enqueue(m) \/ MarkDelivered(m) \/ WakeReused(m)
    \/ WakeCreates(m) \/ LeaseExpires(m) \/ RetryDue(m) \/ StartupPublish(m)
       PROVE  Flags'
    <2>1. CASE Produce(m) BY <2>1, Zenon DEF Flags, Produce
    <2>2. CASE Enqueue(m) BY <2>2, Zenon DEF Flags, Enqueue
    <2>3. CASE MarkDelivered(m) BY <2>3, Zenon DEF Flags, MarkDelivered
    <2>4. CASE WakeReused(m) BY <2>4, Zenon DEF Flags, WakeReused
    <2>5. CASE WakeCreates(m) BY <2>5, Zenon DEF Flags, WakeCreates, MakeInstance, Goto
    <2>6. CASE LeaseExpires(m) BY <2>6, Zenon DEF Flags, LeaseExpires
    <2>7. CASE RetryDue(m) BY <2>7, Zenon DEF Flags, RetryDue
    <2>8. CASE StartupPublish(m) BY <2>8, Zenon DEF Flags, StartupPublish
    <2>q. QED BY <1>12, <2>1, <2>2, <2>3, <2>4, <2>5, <2>6, <2>7, <2>8
  <1>13. ASSUME NEW g \in Inst, Empty(g) \/ Retire(g) \/ AgentEnds(g) \/ Apply(g) \/
    ApplyFails(g) \/ AgentFails(g)
       PROVE  Flags'
    <2>1. CASE Empty(g) BY <2>1, Zenon DEF Flags, Empty, Goto
    <2>2. CASE Retire(g) BY <2>2, Zenon DEF Flags, Retire, Goto
    <2>3. CASE AgentEnds(g) BY <2>3, Zenon DEF Flags, AgentEnds, Goto, GiveBack
    <2>4. CASE Apply(g) BY <2>4, Zenon DEF Flags, Apply, Goto
    <2>5. CASE ApplyFails(g) BY <2>5, Zenon DEF Flags, ApplyFails, Goto
    <2>6. CASE AgentFails(g) BY <2>6, Zenon DEF Flags, AgentFails, Goto
    <2>q. QED BY <1>13, <2>1, <2>2, <2>3, <2>4, <2>5, <2>6
  <1>14. ASSUME NEW g \in Inst, NEW claims \in SUBSET Message, Claim(g, claims)
       PROVE  Flags'
    BY <1>14, Zenon DEF Flags, Claim, Goto
  <1>15. ASSUME NEW g \in Inst, NEW m \in Message, Ack(g, m)
       PROVE  Flags'
    BY <1>15, Zenon DEF Flags, Ack, Goto
  <1>16. CASE UNCHANGED vars BY <1>16, Zenon DEF Flags, vars
  <1>17. QED BY <1>1, <1>2, <1>3, <1>4, <1>5, <1>6, <1>7, <1>8, <1>9, <1>10, <1>11, <1>12,
    <1>13, <1>14, <1>15, <1>16, Zenon DEF Next, AgentNext

LEMMA TablesStep ==
  ASSUME TypeOK, [Next]_vars
  PROVE  Tables'
  <1>1. CASE EndRound BY <1>1, TypeParts, MapAssumption DEF Tables, EndRound
  <1>2. CASE RoundFails BY <1>2, TypeParts, MapAssumption DEF Tables, RoundFails
  <1>3. CASE Advance BY <1>3, TypeParts, MapAssumption DEF Tables, Advance
  <1>4. CASE WakeEnds BY <1>4, TypeParts, MapAssumption DEF Tables, WakeEnds
  <1>5. CASE WakeFails BY <1>5, TypeParts, MapAssumption DEF Tables, WakeFails
  <1>6. CASE StartupWake BY <1>6, TypeParts, MapAssumption DEF Tables, StartupWake, MakeInstance
  <1>7. CASE StartupEnds BY <1>7, TypeParts, MapAssumption DEF Tables, StartupEnds
  <1>8. CASE StartupFails BY <1>8, TypeParts, MapAssumption DEF Tables, StartupFails
  <1>9. CASE Crash BY <1>9, TypeParts, MapAssumption DEF Tables, Crash, AllEnded
  <1>10. CASE Shutdown BY <1>10, TypeParts, MapAssumption DEF Tables, Shutdown, AllEnded
  <1>11. CASE Restart BY <1>11, TypeParts, MapAssumption DEF Tables, Restart
  <1>12. ASSUME NEW m \in Message, Produce(m) \/ Enqueue(m) \/ MarkDelivered(m) \/ WakeReused(m)
    \/ WakeCreates(m) \/ LeaseExpires(m) \/ RetryDue(m) \/ StartupPublish(m)
       PROVE  Tables'
    <2>1. CASE Produce(m) BY <2>1, TypeParts, MapAssumption DEF Tables, Produce
    <2>2. CASE Enqueue(m) BY <2>2, TypeParts, MapAssumption DEF Tables, Enqueue
    <2>3. CASE MarkDelivered(m) BY <2>3, TypeParts, MapAssumption DEF Tables, MarkDelivered
    <2>4. CASE WakeReused(m) BY <2>4, TypeParts, MapAssumption DEF Tables, WakeReused, Registry
    <2>5. CASE WakeCreates(m) BY <2>5, TypeParts, MapAssumption DEF Tables, WakeCreates,
      MakeInstance
    <2>6. CASE LeaseExpires(m) BY <2>6, TypeParts, MapAssumption DEF Tables, LeaseExpires
    <2>7. CASE RetryDue(m) BY <2>7, TypeParts, MapAssumption DEF Tables, RetryDue
    <2>8. CASE StartupPublish(m) BY <2>8, TypeParts, MapAssumption DEF Tables, StartupPublish
    <2>q. QED BY <1>12, <2>1, <2>2, <2>3, <2>4, <2>5, <2>6, <2>7, <2>8
  <1>13. ASSUME NEW g \in Inst, Empty(g) \/ Retire(g) \/ AgentEnds(g) \/ Apply(g) \/
    ApplyFails(g) \/ AgentFails(g)
       PROVE  Tables'
    <2>1. CASE Empty(g) BY <2>1, TypeParts, MapAssumption DEF Tables, Empty
    <2>2. CASE Retire(g) BY <2>2, TypeParts, MapAssumption DEF Tables, Retire
    <2>3. CASE AgentEnds(g) BY <2>3, TypeParts, MapAssumption DEF Tables, AgentEnds, GiveBack
    <2>4. CASE Apply(g) BY <2>4, TypeParts, MapAssumption DEF Tables, Apply
    <2>5. CASE ApplyFails(g)
      <3>1. CASE pc[g] = "apply" BY <2>5, <3>1, TypeParts, MapAssumption DEF Tables, ApplyFails
      <3>2. CASE ~(pc[g] = "apply") BY <2>5, <3>2, TypeParts, MapAssumption DEF Tables,
        ApplyFails
      <3>3. QED BY <3>1, <3>2
    <2>6. CASE AgentFails(g) BY <2>6, TypeParts, MapAssumption DEF Tables, AgentFails
    <2>q. QED BY <1>13, <2>1, <2>2, <2>3, <2>4, <2>5, <2>6
  <1>14. ASSUME NEW g \in Inst, NEW claims \in SUBSET Message, Claim(g, claims)
       PROVE  Tables'
    BY <1>14, TypeParts, MapAssumption DEF Tables, Claim, Registry
  <1>15. ASSUME NEW g \in Inst, NEW m \in Message, Ack(g, m)
       PROVE  Tables'
      <2>1. CASE holder[m] = g BY <1>15, <2>1, TypeParts, MapAssumption DEF Tables, Ack
      <2>2. CASE ~(holder[m] = g) BY <1>15, <2>2, TypeParts, MapAssumption DEF Tables, Ack
      <2>3. QED BY <2>1, <2>2
  <1>16. CASE UNCHANGED vars BY <1>16, TypeParts, MapAssumption DEF Tables, vars
  <1>17. QED BY <1>1, <1>2, <1>3, <1>4, <1>5, <1>6, <1>7, <1>8, <1>9, <1>10, <1>11, <1>12,
    <1>13, <1>14, <1>15, <1>16, Zenon DEF Next, AgentNext

LEMMA RegistryStep ==
  ASSUME TypeOK, [Next]_vars
  PROVE  Registry'
  <1>1. CASE EndRound BY <1>1, TypeParts, MapAssumption DEF Registry, Pc, EndRound
  <1>2. CASE RoundFails BY <1>2, TypeParts, MapAssumption DEF Registry, Pc, RoundFails
  <1>3. CASE Advance BY <1>3, TypeParts, MapAssumption DEF Registry, Pc, Advance
  <1>4. CASE WakeEnds BY <1>4, TypeParts, MapAssumption DEF Registry, Pc, WakeEnds, Goto
  <1>5. CASE WakeFails BY <1>5, TypeParts, MapAssumption DEF Registry, Pc, WakeFails, Goto
  <1>6. CASE StartupWake BY <1>6, TypeParts, MapAssumption DEF Registry, Pc, StartupWake,
    MakeInstance, Goto
  <1>7. CASE StartupEnds BY <1>7, TypeParts, MapAssumption DEF Registry, Pc, StartupEnds
  <1>8. CASE StartupFails BY <1>8, TypeParts, MapAssumption DEF Registry, Pc, StartupFails
  <1>9. CASE Crash BY <1>9, TypeParts, MapAssumption DEF Registry, Pc, Crash, AllEnded
  <1>10. CASE Shutdown BY <1>10, TypeParts, MapAssumption DEF Registry, Pc, Shutdown, AllEnded
  <1>11. CASE Restart BY <1>11, TypeParts, MapAssumption DEF Registry, Pc, Restart
  <1>12. ASSUME NEW m \in Message, Produce(m) \/ Enqueue(m) \/ MarkDelivered(m) \/ WakeReused(m)
    \/ WakeCreates(m) \/ LeaseExpires(m) \/ RetryDue(m) \/ StartupPublish(m)
       PROVE  Registry'
    <2>1. CASE Produce(m) BY <2>1, TypeParts, MapAssumption DEF Registry, Pc, Produce
    <2>2. CASE Enqueue(m) BY <2>2, TypeParts, MapAssumption DEF Registry, Pc, Enqueue
    <2>3. CASE MarkDelivered(m) BY <2>3, TypeParts, MapAssumption DEF Registry, Pc,
      MarkDelivered
    <2>4. CASE WakeReused(m) BY <2>4, TypeParts, MapAssumption DEF Registry, Pc, WakeReused
    <2>5. CASE WakeCreates(m) BY <2>5, TypeParts, MapAssumption DEF Registry, Pc, WakeCreates,
      MakeInstance, Goto
    <2>6. CASE LeaseExpires(m) BY <2>6, TypeParts, MapAssumption DEF Registry, Pc, LeaseExpires
    <2>7. CASE RetryDue(m) BY <2>7, TypeParts, MapAssumption DEF Registry, Pc, RetryDue
    <2>8. CASE StartupPublish(m) BY <2>8, TypeParts, MapAssumption DEF Registry, Pc,
      StartupPublish
    <2>q. QED BY <1>12, <2>1, <2>2, <2>3, <2>4, <2>5, <2>6, <2>7, <2>8
  <1>13. ASSUME NEW g \in Inst, Empty(g) \/ Retire(g) \/ AgentEnds(g) \/ Apply(g) \/
    ApplyFails(g) \/ AgentFails(g)
       PROVE  Registry'
    <2>1. CASE Empty(g) BY <2>1, TypeParts, MapAssumption DEF Registry, Pc, Empty, Goto
    <2>2. CASE Retire(g) BY <2>2, TypeParts, MapAssumption DEF Registry, Pc, Retire, Goto
    <2>3. CASE AgentEnds(g) BY <2>3, TypeParts, MapAssumption DEF Registry, Pc, AgentEnds, Goto,
      GiveBack
    <2>4. CASE Apply(g) BY <2>4, TypeParts, MapAssumption DEF Registry, Pc, Apply, Goto
    <2>5. CASE ApplyFails(g) BY <2>5, TypeParts, MapAssumption DEF Registry, Pc, ApplyFails,
      Goto
    <2>6. CASE AgentFails(g) BY <2>6, TypeParts, MapAssumption DEF Registry, Pc, AgentFails,
      Goto
    <2>q. QED BY <1>13, <2>1, <2>2, <2>3, <2>4, <2>5, <2>6
  <1>14. ASSUME NEW g \in Inst, NEW claims \in SUBSET Message, Claim(g, claims)
       PROVE  Registry'
    BY <1>14, TypeParts, MapAssumption DEF Registry, Pc, Claim, Goto
  <1>15. ASSUME NEW g \in Inst, NEW m \in Message, Ack(g, m)
       PROVE  Registry'
    BY <1>15, TypeParts, MapAssumption DEF Registry, Pc, Ack, Goto
  <1>16. CASE UNCHANGED vars BY <1>16, TypeParts, MapAssumption DEF Registry, Pc, vars
  <1>17. QED BY <1>1, <1>2, <1>3, <1>4, <1>5, <1>6, <1>7, <1>8, <1>9, <1>10, <1>11, <1>12,
    <1>13, <1>14, <1>15, <1>16, Zenon DEF Next, AgentNext

LEMMA ModesStep ==
  ASSUME Modes, [Next]_vars
  PROVE  Modes'
  <1>1. CASE EndRound BY <1>1, MapAssumption DEF Modes, EndRound
  <1>2. CASE RoundFails BY <1>2, MapAssumption DEF Modes, RoundFails
  <1>3. CASE Advance BY <1>3, MapAssumption DEF Modes, Advance
  <1>4. CASE WakeEnds BY <1>4, MapAssumption DEF Modes, WakeEnds
  <1>5. CASE WakeFails BY <1>5, MapAssumption DEF Modes, WakeFails
  <1>6. CASE StartupWake BY <1>6, MapAssumption DEF Modes, StartupWake, MakeInstance
  <1>7. CASE StartupEnds BY <1>7, MapAssumption DEF Modes, StartupEnds
  <1>8. CASE StartupFails BY <1>8, MapAssumption DEF Modes, StartupFails
  <1>9. CASE Crash BY <1>9, MapAssumption DEF Modes, Crash, AllEnded
  <1>10. CASE Shutdown BY <1>10, MapAssumption DEF Modes, Shutdown, AllEnded
  <1>11. CASE Restart BY <1>11, MapAssumption DEF Modes, Restart
  <1>12. ASSUME NEW m \in Message, Produce(m) \/ Enqueue(m) \/ MarkDelivered(m) \/ WakeReused(m)
    \/ WakeCreates(m) \/ LeaseExpires(m) \/ RetryDue(m) \/ StartupPublish(m)
       PROVE  Modes'
    <2>1. CASE Produce(m) BY <2>1, MapAssumption DEF Modes, Produce
    <2>2. CASE Enqueue(m) BY <2>2, MapAssumption DEF Modes, Enqueue
    <2>3. CASE MarkDelivered(m) BY <2>3, MapAssumption DEF Modes, MarkDelivered
    <2>4. CASE WakeReused(m) BY <2>4, MapAssumption DEF Modes, WakeReused
    <2>5. CASE WakeCreates(m) BY <2>5, MapAssumption DEF Modes, WakeCreates, MakeInstance
    <2>6. CASE LeaseExpires(m) BY <2>6, MapAssumption DEF Modes, LeaseExpires
    <2>7. CASE RetryDue(m) BY <2>7, MapAssumption DEF Modes, RetryDue
    <2>8. CASE StartupPublish(m) BY <2>8, MapAssumption DEF Modes, StartupPublish
    <2>q. QED BY <1>12, <2>1, <2>2, <2>3, <2>4, <2>5, <2>6, <2>7, <2>8
  <1>13. ASSUME NEW g \in Inst, Empty(g) \/ Retire(g) \/ AgentEnds(g) \/ Apply(g) \/
    ApplyFails(g) \/ AgentFails(g)
       PROVE  Modes'
    <2>1. CASE Empty(g) BY <2>1, MapAssumption DEF Modes, Empty
    <2>2. CASE Retire(g) BY <2>2, MapAssumption DEF Modes, Retire
    <2>3. CASE AgentEnds(g) BY <2>3, MapAssumption DEF Modes, AgentEnds, GiveBack
    <2>4. CASE Apply(g) BY <2>4, MapAssumption DEF Modes, Apply
    <2>5. CASE ApplyFails(g) BY <2>5, MapAssumption DEF Modes, ApplyFails
    <2>6. CASE AgentFails(g) BY <2>6, MapAssumption DEF Modes, AgentFails
    <2>q. QED BY <1>13, <2>1, <2>2, <2>3, <2>4, <2>5, <2>6
  <1>14. ASSUME NEW g \in Inst, NEW claims \in SUBSET Message, Claim(g, claims)
       PROVE  Modes'
    BY <1>14, MapAssumption DEF Modes, Claim
  <1>15. ASSUME NEW g \in Inst, NEW m \in Message, Ack(g, m)
       PROVE  Modes'
    BY <1>15, MapAssumption DEF Modes, Ack
  <1>16. CASE UNCHANGED vars BY <1>16, MapAssumption DEF Modes, vars
  <1>17. QED BY <1>1, <1>2, <1>3, <1>4, <1>5, <1>6, <1>7, <1>8, <1>9, <1>10, <1>11, <1>12,
    <1>13, <1>14, <1>15, <1>16, Zenon DEF Next, AgentNext

(* Every variable of the model keeps its type.                              *)
THEOREM MapTypeCorrect == Spec => []TypeOK
  <1>1. TypeOK /\ [Next]_vars => TypeOK'
    <2> SUFFICES ASSUME TypeOK, [Next]_vars PROVE TypeOK' OBVIOUS
    <2>1. Flags /\ Tables /\ Registry /\ Modes BY TypeParts
    <2>2. Flags' BY <2>1, FlagsStep
    <2>3. Tables' BY TablesStep
    <2>4. Registry' BY RegistryStep
    <2>5. Modes' BY <2>1, ModesStep
    <2>6. QED BY <2>2, <2>3, <2>4, <2>5, Zenon DEF TypeOK, Flags, Tables, Registry, Modes
  <1>2. QED BY <1>1, TypeInit, PTL DEF Spec

-----------------------------------------------------------------------------
(* Applied once.                                                            *)

(* What an agent acknowledges is in the map: its batch went through apply    *)
(* and only shrinks from there on.  Needed because the ack itself looks at   *)
(* no receipt.                                                              *)
AckedApplied == \A g \in Inst : pc[g] = "ack" => \A m \in batch[g] : applied[m] = 1

AppliedInv == AppliedOnce /\ AckedApplied

LEMMA AppliedStep ==
  ASSUME TypeOK, AppliedInv, [Next]_vars
  PROVE  AppliedInv'
  <1>1. CASE EndRound BY <1>1, TypeParts DEF AppliedInv, AppliedOnce, AckedApplied, Tables,
    Registry, EndRound
  <1>2. CASE RoundFails BY <1>2, TypeParts DEF AppliedInv, AppliedOnce, AckedApplied, Tables,
    Registry, RoundFails
  <1>3. CASE Advance BY <1>3, TypeParts DEF AppliedInv, AppliedOnce, AckedApplied, Tables,
    Registry, Advance
  <1>4. CASE WakeEnds BY <1>4, TypeParts DEF AppliedInv, AppliedOnce, AckedApplied, Tables,
    Registry, WakeEnds, Goto
  <1>5. CASE WakeFails BY <1>5, TypeParts DEF AppliedInv, AppliedOnce, AckedApplied, Tables,
    Registry, WakeFails, Goto
  <1>6. CASE StartupWake BY <1>6, TypeParts DEF AppliedInv, AppliedOnce, AckedApplied, Tables,
    Registry, StartupWake, MakeInstance, Goto
  <1>7. CASE StartupEnds BY <1>7, TypeParts DEF AppliedInv, AppliedOnce, AckedApplied, Tables,
    Registry, StartupEnds
  <1>8. CASE StartupFails BY <1>8, TypeParts DEF AppliedInv, AppliedOnce, AckedApplied, Tables,
    Registry, StartupFails
  <1>9. CASE Crash BY <1>9, TypeParts DEF AppliedInv, AppliedOnce, AckedApplied, Tables,
    Registry, Crash, AllEnded
  <1>10. CASE Shutdown BY <1>10, TypeParts DEF AppliedInv, AppliedOnce, AckedApplied, Tables,
    Registry, Shutdown, AllEnded
  <1>11. CASE Restart BY <1>11, TypeParts DEF AppliedInv, AppliedOnce, AckedApplied, Tables,
    Registry, Restart
  <1>12. ASSUME NEW m \in Message, Produce(m) \/ Enqueue(m) \/ MarkDelivered(m) \/ WakeReused(m)
    \/ WakeCreates(m) \/ LeaseExpires(m) \/ RetryDue(m) \/ StartupPublish(m)
       PROVE  AppliedInv'
    <2>1. CASE Produce(m) BY <2>1, TypeParts DEF AppliedInv, AppliedOnce, AckedApplied, Tables,
      Registry, Produce
    <2>2. CASE Enqueue(m) BY <2>2, TypeParts DEF AppliedInv, AppliedOnce, AckedApplied, Tables,
      Registry, Enqueue
    <2>3. CASE MarkDelivered(m) BY <2>3, TypeParts DEF AppliedInv, AppliedOnce, AckedApplied,
      Tables, Registry, MarkDelivered
    <2>4. CASE WakeReused(m) BY <2>4, TypeParts DEF AppliedInv, AppliedOnce, AckedApplied,
      Tables, Registry, WakeReused
    <2>5. CASE WakeCreates(m) BY <2>5, TypeParts DEF AppliedInv, AppliedOnce, AckedApplied,
      Tables, Registry, WakeCreates, MakeInstance, Goto
    <2>6. CASE LeaseExpires(m) BY <2>6, TypeParts DEF AppliedInv, AppliedOnce, AckedApplied,
      Tables, Registry, LeaseExpires
    <2>7. CASE RetryDue(m) BY <2>7, TypeParts DEF AppliedInv, AppliedOnce, AckedApplied, Tables,
      Registry, RetryDue
    <2>8. CASE StartupPublish(m) BY <2>8, TypeParts DEF AppliedInv, AppliedOnce, AckedApplied,
      Tables, Registry, StartupPublish
    <2>q. QED BY <1>12, <2>1, <2>2, <2>3, <2>4, <2>5, <2>6, <2>7, <2>8
  <1>13. ASSUME NEW g \in Inst, Empty(g) \/ Retire(g) \/ AgentEnds(g) \/ Apply(g) \/
    ApplyFails(g) \/ AgentFails(g)
       PROVE  AppliedInv'
    <2>1. CASE Empty(g) BY <2>1, TypeParts DEF AppliedInv, AppliedOnce, AckedApplied, Tables,
      Registry, Empty, Goto
    <2>2. CASE Retire(g) BY <2>2, TypeParts DEF AppliedInv, AppliedOnce, AckedApplied, Tables,
      Registry, Retire, Goto
    <2>3. CASE AgentEnds(g) BY <2>3, TypeParts DEF AppliedInv, AppliedOnce, AckedApplied,
      Tables, Registry, AgentEnds, Goto, GiveBack
    <2>4. CASE Apply(g)
      <3>1. pc' = [pc EXCEPT ![g] = IF pc[g] = "apply" THEN "ack" ELSE pc[g]]
            /\ batch' = batch /\ mail' = mail
        BY <2>4 DEF Apply, Goto
      <3>2. \A m \in Message : applied'[m] = IF m \in batch[g] /\ applied[m] = 0 THEN 1 ELSE applied[m]
        BY <2>4 DEF Apply
      <3>3. AppliedOnce' BY <3>1, <3>2, TypeParts DEF AppliedInv, AppliedOnce, Tables
      <3>4. \A m \in batch[g] : applied'[m] = 1
        <4>1. batch[g] \subseteq Message BY TypeParts DEF Registry
        <4>2. \A m \in Message : applied[m] \in {0, 1}
          BY TypeParts DEF AppliedInv, AppliedOnce, Tables
        <4>3. QED BY <4>1, <4>2, <3>2
      <3>5. AckedApplied'
        BY <3>1, <3>2, <3>4, TypeParts DEF AppliedInv, AckedApplied, Tables, Registry
      <3>6. QED BY <3>3, <3>5 DEF AppliedInv
    <2>5. CASE ApplyFails(g)
      <3>1. CASE pc[g] = "apply"
        <4>1. pc' = [pc EXCEPT ![g] = "receive"] /\ batch' = [batch EXCEPT ![g] = {}]
              /\ applied' = applied
          BY <2>5, <3>1 DEF ApplyFails, Goto
        <4>2. \A m \in Message : mail'[m] \in {"retry_wait", mail[m]}
          BY <2>5, <3>1 DEF ApplyFails
        <4>3. AppliedOnce' BY <4>1, <4>2 DEF AppliedInv, AppliedOnce
        <4>4. AckedApplied' BY <4>1, TypeParts DEF AppliedInv, AckedApplied, Registry
        <4>5. QED BY <4>3, <4>4 DEF AppliedInv
      <3>2. CASE ~(pc[g] = "apply")
        BY <2>5, <3>2 DEF AppliedInv, AppliedOnce, AckedApplied, ApplyFails
      <3>3. QED BY <3>1, <3>2
    <2>6. CASE AgentFails(g) BY <2>6, TypeParts DEF AppliedInv, AppliedOnce, AckedApplied,
      Tables, Registry, AgentFails, Goto
    <2>q. QED BY <1>13, <2>1, <2>2, <2>3, <2>4, <2>5, <2>6
  <1>14. ASSUME NEW g \in Inst, NEW claims \in SUBSET Message, Claim(g, claims)
       PROVE  AppliedInv'
    BY <1>14, TypeParts DEF AppliedInv, AppliedOnce, AckedApplied, Tables, Registry, Claim, Goto
  <1>15. ASSUME NEW g \in Inst, NEW m \in Message, Ack(g, m)
       PROVE  AppliedInv'
      <2>1. CASE holder[m] = g BY <1>15, <2>1, TypeParts DEF AppliedInv, AppliedOnce,
        AckedApplied, Tables, Registry, Ack, Goto
      <2>2. CASE ~(holder[m] = g) BY <1>15, <2>2, TypeParts DEF AppliedInv, AppliedOnce,
        AckedApplied, Tables, Registry, Ack, Goto
      <2>3. QED BY <2>1, <2>2
  <1>16. CASE UNCHANGED vars BY <1>16, TypeParts DEF AppliedInv, AppliedOnce, AckedApplied,
    Tables, Registry, vars
  <1>17. QED BY <1>1, <1>2, <1>3, <1>4, <1>5, <1>6, <1>7, <1>8, <1>9, <1>10, <1>11, <1>12,
    <1>13, <1>14, <1>15, <1>16, Zenon DEF Next, AgentNext

(* A message changes the map at most once, and is acknowledged only after    *)
(* that, however its deliveries, crashes and threads interleave.            *)
THEOREM AppliedExactlyOnce == Spec => []AppliedOnce
  <1>1. Init => AppliedInv BY MapAssumption DEF Init, AppliedInv, AppliedOnce, AckedApplied
  <1>2. TypeOK /\ AppliedInv /\ [Next]_vars => AppliedInv' BY AppliedStep
  <1>3. AppliedInv => AppliedOnce BY DEF AppliedInv
  <1>4. QED BY <1>1, <1>2, <1>3, MapTypeCorrect, PTL DEF Spec

-----------------------------------------------------------------------------
(* One runtime.                                                             *)

(* The last instance is the only one that lives: it is being made, under the *)
(* registry lock, or it is the registered one.                              *)
RuntimeInv ==
    /\ waking # 0 => pc[waking] = "new" /\ cur = 0 /\ waking = last
    /\ cur # 0 => cur = last
    /\ \A g \in Inst :
         /\ pc[g] = "new" => g = waking
         /\ pc[g] \notin {"none", "done", "new"} => g = cur
         /\ g > last => pc[g] = "none"

LEMMA RuntimeStep ==
  ASSUME TypeOK, RuntimeInv, [Next]_vars
  PROVE  RuntimeInv'
  <1>1. CASE EndRound BY <1>1, TypeParts, MapAssumption DEF RuntimeInv, Registry, EndRound
  <1>2. CASE RoundFails BY <1>2, TypeParts, MapAssumption DEF RuntimeInv, Registry, RoundFails
  <1>3. CASE Advance BY <1>3, TypeParts, MapAssumption DEF RuntimeInv, Registry, Advance
  <1>4. CASE WakeEnds BY <1>4, TypeParts, MapAssumption DEF RuntimeInv, Registry, WakeEnds, Goto
  <1>5. CASE WakeFails BY <1>5, TypeParts, MapAssumption DEF RuntimeInv, Registry, WakeFails,
    Goto
  <1>6. CASE StartupWake BY <1>6, TypeParts, MapAssumption DEF RuntimeInv, Registry,
    StartupWake, MakeInstance, Goto, Running
  <1>7. CASE StartupEnds BY <1>7, TypeParts, MapAssumption DEF RuntimeInv, Registry, StartupEnds
  <1>8. CASE StartupFails BY <1>8, TypeParts, MapAssumption DEF RuntimeInv, Registry,
    StartupFails
  <1>9. CASE Crash BY <1>9, TypeParts, MapAssumption DEF RuntimeInv, Registry, Crash, AllEnded
  <1>10. CASE Shutdown BY <1>10, TypeParts, MapAssumption DEF RuntimeInv, Registry, Shutdown,
    AllEnded
  <1>11. CASE Restart BY <1>11, TypeParts, MapAssumption DEF RuntimeInv, Registry, Restart
  <1>12. ASSUME NEW m \in Message, Produce(m) \/ Enqueue(m) \/ MarkDelivered(m) \/ WakeReused(m)
    \/ WakeCreates(m) \/ LeaseExpires(m) \/ RetryDue(m) \/ StartupPublish(m)
       PROVE  RuntimeInv'
    <2>1. CASE Produce(m) BY <2>1, TypeParts, MapAssumption DEF RuntimeInv, Registry, Produce
    <2>2. CASE Enqueue(m) BY <2>2, TypeParts, MapAssumption DEF RuntimeInv, Registry, Enqueue
    <2>3. CASE MarkDelivered(m) BY <2>3, TypeParts, MapAssumption DEF RuntimeInv, Registry,
      MarkDelivered
    <2>4. CASE WakeReused(m) BY <2>4, TypeParts, MapAssumption DEF RuntimeInv, Registry,
      WakeReused
    <2>5. CASE WakeCreates(m) BY <2>5, TypeParts, MapAssumption DEF RuntimeInv, Registry,
      WakeCreates, MakeInstance, Goto, Running
    <2>6. CASE LeaseExpires(m) BY <2>6, TypeParts, MapAssumption DEF RuntimeInv, Registry,
      LeaseExpires
    <2>7. CASE RetryDue(m) BY <2>7, TypeParts, MapAssumption DEF RuntimeInv, Registry, RetryDue
    <2>8. CASE StartupPublish(m) BY <2>8, TypeParts, MapAssumption DEF RuntimeInv, Registry,
      StartupPublish
    <2>q. QED BY <1>12, <2>1, <2>2, <2>3, <2>4, <2>5, <2>6, <2>7, <2>8
  <1>13. ASSUME NEW g \in Inst, Empty(g) \/ Retire(g) \/ AgentEnds(g) \/ Apply(g) \/
    ApplyFails(g) \/ AgentFails(g)
       PROVE  RuntimeInv'
    <2>1. CASE Empty(g) BY <2>1, TypeParts, MapAssumption DEF RuntimeInv, Registry, Empty, Goto
    <2>2. CASE Retire(g) BY <2>2, TypeParts, MapAssumption DEF RuntimeInv, Registry, Retire,
      Goto
    <2>3. CASE AgentEnds(g) BY <2>3, TypeParts, MapAssumption DEF RuntimeInv, Registry,
      AgentEnds, Goto, GiveBack
    <2>4. CASE Apply(g)
      <3>1. CASE pc[g] = "apply" BY <2>4, <3>1, TypeParts, MapAssumption DEF RuntimeInv,
        Registry, Apply, Goto
      <3>2. CASE ~(pc[g] = "apply") BY <2>4, <3>2, TypeParts, MapAssumption DEF RuntimeInv,
        Registry, Apply, Goto
      <3>3. QED BY <3>1, <3>2
    <2>5. CASE ApplyFails(g)
      <3>1. CASE pc[g] = "apply" BY <2>5, <3>1, TypeParts, MapAssumption DEF RuntimeInv,
        Registry, ApplyFails, Goto
      <3>2. CASE ~(pc[g] = "apply") BY <2>5, <3>2, TypeParts, MapAssumption DEF RuntimeInv,
        Registry, ApplyFails, Goto
      <3>3. QED BY <3>1, <3>2
    <2>6. CASE AgentFails(g) BY <2>6, TypeParts, MapAssumption DEF RuntimeInv, Registry,
      AgentFails, Goto
    <2>q. QED BY <1>13, <2>1, <2>2, <2>3, <2>4, <2>5, <2>6
  <1>14. ASSUME NEW g \in Inst, NEW claims \in SUBSET Message, Claim(g, claims)
       PROVE  RuntimeInv'
    BY <1>14, TypeParts, MapAssumption DEF RuntimeInv, Registry, Claim, Goto
  <1>15. ASSUME NEW g \in Inst, NEW m \in Message, Ack(g, m)
       PROVE  RuntimeInv'
      <2>1. CASE batch[g] = {m} BY <1>15, <2>1, TypeParts, MapAssumption DEF RuntimeInv,
        Registry, Ack, Goto
      <2>2. CASE ~(batch[g] = {m}) BY <1>15, <2>2, TypeParts, MapAssumption DEF RuntimeInv,
        Registry, Ack, Goto
      <2>3. QED BY <2>1, <2>2
  <1>16. CASE UNCHANGED vars BY <1>16, TypeParts, MapAssumption DEF RuntimeInv, Registry, vars
  <1>17. QED BY <1>1, <1>2, <1>3, <1>4, <1>5, <1>6, <1>7, <1>8, <1>9, <1>10, <1>11, <1>12,
    <1>13, <1>14, <1>15, <1>16, Zenon DEF Next, AgentNext

(* No two generations of the map runtime of a project live at once.         *)
THEOREM OneRuntimeAtATime == Spec => []OneRuntime
  <1>1. Init => RuntimeInv BY MapAssumption DEF Init, RuntimeInv
  <1>2. TypeOK /\ RuntimeInv /\ [Next]_vars => RuntimeInv' BY RuntimeStep
  <1>3. TypeOK /\ RuntimeInv => OneRuntime
    <2> SUFFICES ASSUME TypeOK, RuntimeInv, NEW g \in Inst, NEW h \in Inst,
                        pc[g] \notin {"none", "done"}, pc[h] \notin {"none", "done"}
                 PROVE  g = h
      BY Zenon DEF OneRuntime
    <2>1. QED BY TypeParts, MapAssumption DEF RuntimeInv, Registry
  <1>4. QED BY <1>1, <1>2, <1>3, MapTypeCorrect, PTL DEF Spec

-----------------------------------------------------------------------------
(* Nothing stranded.                                                        *)

(* Without stranding failures no agent is on its way down with an error, a   *)
(* runtime is made on behalf of a wake the forwarder still holds or by        *)
(* startup, startup waits for an agent while there is mail, and outside of    *)
(* draining and serving nothing is registered.                              *)
CoverInv ==
  strands = 0 =>
    /\ Covered
    /\ \A g \in Inst : pc[g] # "failing"
    /\ waking # 0 => mode = "draining" \/ (mode = "up" /\ wakeFor # {} /\ wakeFor \subseteq wakes)
    /\ mode = "draining" => waking # 0 \/ Running(cur) \/ Undelivered = {}
    /\ mode \in {"startup", "stopping"} => waking = 0 /\ cur = 0

(* A step of the live agent that leaves it running keeps mail covered.      *)
LEMMA StillRunning ==
  ASSUME TypeOK, RuntimeInv, CoverInv, NEW g \in Inst, pc[g] \in {"receive", "apply"},
         NEW label \in {"receive", "apply"}, pc' = [pc EXCEPT ![g] = label],
         UNCHANGED <<registryVars, mode, wakes, strands>>
  PROVE  CoverInv'
  <1>1. g = cur /\ cur # 0 BY MapAssumption DEF RuntimeInv
  <1>2. pc \in [Inst -> Pc] BY TypeParts DEF Registry
  <1>3. Running(cur)' BY <1>1, <1>2 DEF Running
  <1>4. strands = 0 => \A h \in Inst : pc'[h] # "failing" BY <1>2 DEF CoverInv
  <1>5. QED BY <1>1, <1>3, <1>4 DEF CoverInv, Covered

LEMMA CoverStep ==
  ASSUME TypeOK, RuntimeInv, CoverInv, [Next]_vars
  PROVE  CoverInv'
  <1>1. CASE EndRound BY <1>1, TypeParts, MapAssumption DEF CoverInv, Covered, RuntimeInv,
    Registry, Tables, Modes, Running, Undelivered, Owed, EndRound
  <1>2. CASE RoundFails BY <1>2, TypeParts, MapAssumption DEF CoverInv, Covered, RuntimeInv,
    Registry, Tables, Modes, Running, Undelivered, Owed, RoundFails
  <1>3. CASE Advance BY <1>3, TypeParts, MapAssumption DEF CoverInv, Covered, RuntimeInv,
    Registry, Tables, Modes, Running, Undelivered, Owed, Advance
  <1>4. CASE WakeEnds BY <1>4, TypeParts, MapAssumption DEF CoverInv, Covered, RuntimeInv,
    Registry, Tables, Modes, Running, Undelivered, Owed, WakeEnds, Goto
  <1>5. CASE WakeFails BY <1>5, TypeParts, MapAssumption DEF CoverInv, Covered, RuntimeInv,
    Registry, Tables, Modes, Running, Undelivered, Owed, WakeFails, Goto
  <1>6. CASE StartupWake BY <1>6, TypeParts, MapAssumption DEF CoverInv, Covered, RuntimeInv,
    Registry, Tables, Modes, Running, Undelivered, Owed, StartupWake, MakeInstance, Goto
  <1>7. CASE StartupEnds BY <1>7, TypeParts, MapAssumption DEF CoverInv, Covered, RuntimeInv,
    Registry, Tables, Modes, Running, Undelivered, Owed, StartupEnds
  <1>8. CASE StartupFails BY <1>8, TypeParts, MapAssumption DEF CoverInv, Covered, RuntimeInv,
    Registry, Tables, Modes, Running, Undelivered, Owed, StartupFails
  <1>9. CASE Crash BY <1>9, TypeParts, MapAssumption DEF CoverInv, Covered, RuntimeInv,
    Registry, Tables, Modes, Running, Undelivered, Owed, Crash, AllEnded
  <1>10. CASE Shutdown BY <1>10, TypeParts, MapAssumption DEF CoverInv, Covered, RuntimeInv,
    Registry, Tables, Modes, Running, Undelivered, Owed, Shutdown, AllEnded
  <1>11. CASE Restart BY <1>11, TypeParts, MapAssumption DEF CoverInv, Covered, RuntimeInv,
    Registry, Tables, Modes, Running, Undelivered, Owed, Restart
  <1>12. ASSUME NEW m \in Message, Produce(m) \/ Enqueue(m) \/ MarkDelivered(m) \/ WakeReused(m)
    \/ WakeCreates(m) \/ LeaseExpires(m) \/ RetryDue(m) \/ StartupPublish(m)
       PROVE  CoverInv'
    <2>1. CASE Produce(m) BY <2>1, TypeParts, MapAssumption DEF CoverInv, Covered, RuntimeInv,
      Registry, Tables, Modes, Running, Undelivered, Owed, Produce
    <2>2. CASE Enqueue(m) BY <2>2, TypeParts, MapAssumption DEF CoverInv, Covered, RuntimeInv,
      Registry, Tables, Modes, Running, Undelivered, Owed, Enqueue
    <2>3. CASE MarkDelivered(m) BY <2>3, TypeParts, MapAssumption DEF CoverInv, Covered,
      RuntimeInv, Registry, Tables, Modes, Running, Undelivered, Owed, MarkDelivered
    <2>4. CASE WakeReused(m) BY <2>4, TypeParts, MapAssumption DEF CoverInv, Covered,
      RuntimeInv, Registry, Tables, Modes, Running, Undelivered, Owed, WakeReused
    <2>5. CASE WakeCreates(m) BY <2>5, TypeParts, MapAssumption DEF CoverInv, Covered,
      RuntimeInv, Registry, Tables, Modes, Running, Undelivered, Owed, WakeCreates,
      MakeInstance, Goto
    <2>6. CASE LeaseExpires(m) BY <2>6, TypeParts, MapAssumption DEF CoverInv, Covered,
      RuntimeInv, Registry, Tables, Modes, Running, Undelivered, Owed, LeaseExpires
    <2>7. CASE RetryDue(m) BY <2>7, TypeParts, MapAssumption DEF CoverInv, Covered, RuntimeInv,
      Registry, Tables, Modes, Running, Undelivered, Owed, RetryDue
    <2>8. CASE StartupPublish(m) BY <2>8, TypeParts, MapAssumption DEF CoverInv, Covered,
      RuntimeInv, Registry, Tables, Modes, Running, Undelivered, Owed, StartupPublish
    <2>q. QED BY <1>12, <2>1, <2>2, <2>3, <2>4, <2>5, <2>6, <2>7, <2>8
  <1>13. ASSUME NEW g \in Inst, Empty(g) \/ Retire(g) \/ AgentEnds(g) \/ Apply(g) \/
    ApplyFails(g) \/ AgentFails(g)
       PROVE  CoverInv'
    <2>1. CASE Empty(g) BY <2>1, TypeParts, MapAssumption DEF CoverInv, Covered, RuntimeInv,
      Registry, Tables, Modes, Running, Undelivered, Owed, Empty, Goto
    <2>2. CASE Retire(g)
      <3>1. CASE cur = g /\ ~(fresh[g] /\ Undelivered = {}) BY <2>2, <3>1, TypeParts,
        MapAssumption DEF CoverInv, Covered, RuntimeInv, Registry, Tables, Modes, Running,
        Undelivered, Owed, Retire, Goto
      <3>2. CASE ~(cur = g /\ ~(fresh[g] /\ Undelivered = {})) BY <2>2, <3>2, TypeParts,
        MapAssumption DEF CoverInv, Covered, RuntimeInv, Registry, Tables, Modes, Running,
        Undelivered, Owed, Retire, Goto
      <3>3. QED BY <3>1, <3>2
    <2>3. CASE AgentEnds(g) BY <2>3, TypeParts, MapAssumption DEF CoverInv, Covered, RuntimeInv,
      Registry, Tables, Modes, Running, Undelivered, Owed, AgentEnds, Goto, GiveBack
    <2>4. CASE Apply(g)
      <3>1. CASE pc[g] = "apply" BY <2>4, <3>1, TypeParts, MapAssumption DEF CoverInv, Covered,
        RuntimeInv, Registry, Tables, Modes, Running, Undelivered, Owed, Apply, Goto
      <3>2. CASE ~(pc[g] = "apply") BY <2>4, <3>2, TypeParts, MapAssumption DEF CoverInv,
        Covered, RuntimeInv, Registry, Tables, Modes, Running, Undelivered, Owed, Apply, Goto
      <3>3. QED BY <3>1, <3>2
    <2>5. CASE ApplyFails(g)
      <3>1. CASE pc[g] = "apply"
        <4>1. pc' = [pc EXCEPT ![g] = "receive"] /\ UNCHANGED <<registryVars, mode, wakes, strands>>
          BY <2>5, <3>1 DEF ApplyFails, Goto
        <4>2. QED BY <3>1, <4>1, StillRunning
      <3>2. CASE ~(pc[g] = "apply")
        BY <2>5, <3>2 DEF CoverInv, Covered, Running, Undelivered, Owed, ApplyFails
      <3>3. QED BY <3>1, <3>2
    <2>6. CASE AgentFails(g) BY <2>6, TypeParts, MapAssumption DEF CoverInv, Covered,
      RuntimeInv, Registry, Tables, Modes, Running, Undelivered, Owed, AgentFails, Goto
    <2>q. QED BY <1>13, <2>1, <2>2, <2>3, <2>4, <2>5, <2>6
  <1>14. ASSUME NEW g \in Inst, NEW claims \in SUBSET Message, Claim(g, claims)
       PROVE  CoverInv'
    <2>1. pc[g] = "receive" /\ pc' = [pc EXCEPT ![g] = "apply"]
          /\ UNCHANGED <<registryVars, mode, wakes, strands>>
      BY <1>14 DEF Claim, Goto
    <2>2. QED BY <2>1, StillRunning
  <1>15. ASSUME NEW g \in Inst, NEW m \in Message, Ack(g, m)
       PROVE  CoverInv'
      <2>1. CASE batch[g] = {m} BY <1>15, <2>1, TypeParts, MapAssumption DEF CoverInv, Covered,
        RuntimeInv, Registry, Tables, Modes, Running, Undelivered, Owed, Ack, Goto
      <2>2. CASE ~(batch[g] = {m}) BY <1>15, <2>2, TypeParts, MapAssumption DEF CoverInv,
        Covered, RuntimeInv, Registry, Tables, Modes, Running, Undelivered, Owed, Ack, Goto
      <2>3. QED BY <2>1, <2>2
  <1>16. CASE UNCHANGED vars BY <1>16, TypeParts, MapAssumption DEF CoverInv, Covered,
    RuntimeInv, Registry, Tables, Modes, Running, Undelivered, Owed, vars
  <1>17. QED BY <1>1, <1>2, <1>3, <1>4, <1>5, <1>6, <1>7, <1>8, <1>9, <1>10, <1>11, <1>12,
    <1>13, <1>14, <1>15, <1>16, Zenon DEF Next, AgentNext

(* As long as no agent and no startup wake failed for good, mail never lies  *)
(* unfinished in a serving process without an agent or a wake to come: the   *)
(* idle check of retire_if_idle() loses no message to enqueue() and wake(). *)
THEOREM NothingStranded == Spec => []Covered
  <1>1. Init => CoverInv /\ RuntimeInv
    BY MapAssumption DEF Init, CoverInv, RuntimeInv, Covered
  <1>2. TypeOK /\ RuntimeInv /\ [Next]_vars => RuntimeInv' BY RuntimeStep
  <1>3. TypeOK /\ RuntimeInv /\ CoverInv /\ [Next]_vars => CoverInv' BY CoverStep
  <1>4. CoverInv => Covered BY Zenon DEF CoverInv, Covered
  <1>5. QED BY <1>1, <1>2, <1>3, <1>4, MapTypeCorrect, PTL DEF Spec

=============================================================================
