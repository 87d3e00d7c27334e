CONSTANTS
    Node = {n1}
    Version = {v1, v2}
    NoVersion = NoVersion
    Worker = {w1}
    Broken = {}
    MaxAttempts = 2
    MaxEvent = 8
    MaxRun = 5
    MaxFault = 1
    Receiver = {r1, r2}
    Letter = {l1}
    NoReceiver = NoReceiver
    MaxTry = 2
SPECIFICATION MCSpec
INVARIANTS
    TypeOK
    EvidenceOfGate
    NoLostWake
PROPERTIES GateDecides SleeperWakes
CHECK_DEADLOCK FALSE
