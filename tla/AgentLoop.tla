------------------------------ MODULE AgentLoop ------------------------------
(***************************************************************************)
(* The tool-call loop of a model turn                                      *)
(* (backend/src/bridle/agent/providers/deepseek_agent_provider.py), with   *)
(* the tool registry, the circuit breaker, the receipts that replace the   *)
(* tool results the model has read, and the wall-clock watchdog.  The      *)
(* model and the tools are the environment: they answer with anything,     *)
(* late, or never.                                                         *)
(*                                                                         *)
(* A key stands for a tool together with one set of arguments, the unit    *)
(* the circuit breaker counts by.  The conversation is the log of          *)
(* messages; a call is identified by its position among all calls.         *)
(***************************************************************************)
EXTENDS Integers, Sequences, FiniteSets, SequencesExt

CONSTANTS Command,          \* keys of run_command, executed on a worker thread
          Handler,          \* keys of the runtime's own tools (coroutines)
          Search,           \* keys of web_search
          Unknown,          \* keys of names that no tool has
          Denied,           \* the keys that the role's capabilities forbid
          NonRetryableMax, RetryableMax, TimeoutMax, CommandMax,
                            \* BRIDLE_CIRCUIT_*: failures before a key is shut
          Deadline,         \* max_wall_seconds, in ticks of the clock
          MaxCall,          \* bound: tool calls in a run
          MaxRound          \* bound: requests to the model in a run

ToolKey == Command \union Handler \union Search \union Unknown

ASSUME LimitAssumption ==
    /\ {NonRetryableMax, RetryableMax, TimeoutMax, CommandMax} \subseteq Int
    /\ {Deadline, MaxCall, MaxRound} \subseteq Nat
    /\ Denied \subseteq ToolKey

VARIABLES
    stage,        \* "round", "model", "calls", "tool" or "ended"
    msgs,      \* the conversation after the prompt
    todo,      \* the calls of the last assistant message still to be served
    circuit,   \* ToolCallTracker: per key its consecutive failures and last error
    clock,     \* wall time since generate() began, stopped at the deadline
    rounds,    \* requests made
    outcome,   \* "running", "proposal" or the error the run ended with
    loose      \* calls of abandoned worker threads that may still run

loopVars == <<stage, msgs, todo, circuit, clock, rounds, outcome, loose>>

-----------------------------------------------------------------------------
(* Tool results.  An error is what classify_tool_error makes of the code:  *)
(* "argument" (argument and policy errors, not worth a retry), "timeout"   *)
(* or "runtime" (everything else, a denied capability included).           *)

Error == {"argument", "timeout", "runtime"}

Retryable(e) == e \in {"timeout", "runtime"}

(* The results registry.execute can return for a key. *)
ResultOf(k) ==
    CASE k \in Denied             -> {"runtime"}
      [] k \in Unknown \ Denied   -> {"argument"}
      [] k \in Handler \ Denied   -> {"ok", "runtime"}
      [] k \in Command \ Denied   -> {"ok", "argument", "runtime"}
      [] k \in Search \ Denied    -> {"ok", "argument", "timeout", "runtime"}

NoFailure == [fails |-> 0, last |-> "ok"]

MaxFailures(k, e) ==
    CASE k \in Command /\ Retryable(e)        -> CommandMax
      [] k \notin Command /\ e = "timeout"    -> TimeoutMax
      [] k \notin Command /\ e = "runtime"    -> RetryableMax
      [] OTHER                                -> NonRetryableMax

(* Fault: the breaker opens one failure late. *)
CircuitOpenLate(k) ==
    /\ circuit[k].fails > 0
    /\ circuit[k].fails > MaxFailures(k, circuit[k].last)

CircuitOpen(k) ==
    /\ circuit[k].fails > 0
    /\ circuit[k].fails >= MaxFailures(k, circuit[k].last)

Recorded(k, e) ==
    [circuit EXCEPT ![k] = IF e = "ok" THEN NoFailure
                           ELSE [fails |-> @.fails + 1, last |-> e]]

-----------------------------------------------------------------------------
(* Messages *)

Calls(cs)       == [role |-> "assistant", calls |-> cs]
Text(who)       == [role |-> who, calls |-> <<>>]
ToolMsg(c, e)   == [role |-> "tool", calls |-> <<c>>, err |-> e, body |-> "full"]

IsTool(m) == m.role = "tool"

(* What a receipt keeps of a result.  The receipt of a failure carries the *)
(* error and a summary of its message; a receipt built from a receipt      *)
(* would find no message and lose that summary.                            *)
Receipt(m) == [m EXCEPT !.body = IF @ = "full" THEN "receipt" ELSE "bare"]

(* Fault: only the newest result is replaced. *)
ConsumeLast(ms) == [i \in DOMAIN ms |->
                       IF IsTool(ms[i]) /\ ms[i].body = "full" /\ i = Len(ms)
                       THEN Receipt(ms[i]) ELSE ms[i]]

(* Every tool message that the answered request carried for the first time *)
(* is replaced by its receipt.                                             *)
Consumed(ms) == [i \in DOMAIN ms |->
                    IF IsTool(ms[i]) /\ ms[i].body = "full"
                    THEN Receipt(ms[i]) ELSE ms[i]]

(* The tool messages among ms, by their positions. *)
ToolsIn(ms) == {i \in DOMAIN ms : IsTool(ms[i])}

CallCount == Cardinality(ToolsIn(msgs)) + Len(todo)

LoopInit ==
    /\ stage = "round"
    /\ msgs = <<>>
    /\ todo = <<>>
    /\ circuit = [k \in ToolKey |-> NoFailure]
    /\ clock = 0
    /\ rounds = 0
    /\ outcome = "running"
    /\ loose = {}

End(how) ==
    /\ outcome' = how
    /\ stage' = "ended"
    /\ todo' = <<>>

-----------------------------------------------------------------------------
(* The loop *)

Exhausted == clock >= Deadline

(* check_before_round and the request, which takes a copy of the messages. *)
BeginRound ==
    /\ stage = "round"
    /\ IF Exhausted
       THEN End("tool_budget_exhausted") /\ UNCHANGED rounds
       ELSE /\ rounds < MaxRound
            /\ rounds' = rounds + 1
            /\ stage' = "model"
            /\ UNCHANGED <<todo, outcome>>
    /\ UNCHANGED <<msgs, circuit, clock, loose>>

(* The model asks for tools: the assistant message is kept and its calls   *)
(* are served one after the other.                                         *)
ModelCalls ==
    /\ stage = "model"
    /\ \E ks \in BoundedSeq(ToolKey, MaxCall) :
          /\ ks # <<>>
          /\ CallCount + Len(ks) <= MaxCall
          /\ LET cs == [i \in DOMAIN ks |-> [id |-> CallCount + i, key |-> ks[i]]]
             IN  /\ msgs' = Append(Consumed(msgs), Calls(cs))
                 /\ todo' = cs
    /\ stage' = "calls"
    /\ UNCHANGED <<circuit, clock, rounds, outcome, loose>>

(* No tools and no usable proposal, or nothing at all: the loop asks for a *)
(* repair and goes round again.                                            *)
ModelUnusable ==
    /\ stage = "model"
    /\ msgs' = Consumed(msgs) \o <<Text("assistant"), Text("user")>>
    /\ stage' = "round"
    /\ UNCHANGED <<todo, circuit, clock, rounds, outcome, loose>>

(* A proposal that parses; _validate_proposal accepts it or ends the run   *)
(* with PathBoundaryError or CommandPolicyError.                           *)
ModelProposes ==
    /\ stage = "model"
    /\ msgs' = Consumed(msgs)
    /\ \E how \in {"proposal", "proposal_refused"} : End(how)
    /\ UNCHANGED <<circuit, clock, rounds, loose>>

(* The request fails: an HTTP error, a timeout of the request itself, or   *)
(* any other exception ends the run under a mapped code.                   *)
ModelFails ==
    /\ stage = "model"
    /\ End("request_failed")
    /\ UNCHANGED <<msgs, circuit, clock, rounds, loose>>

(* Fault: a shut circuit skips the call without telling the model. *)
ServeSilently(c, e) == UNCHANGED msgs

(* The tool message that answers call c. *)
Serve(c, e) == msgs' = Append(msgs, ToolMsg(c, e))

(* The next call of the message: the watchdog, the arguments, the breaker. *)
NextCall ==
    /\ stage = "calls"
    /\ todo # <<>>
    /\ LET c == Head(todo) IN
       \/ /\ Exhausted
          /\ End("tool_budget_exhausted")
          /\ UNCHANGED <<msgs, circuit>>
       \/ /\ ~Exhausted
          /\ End("invalid_tool_arguments")
          /\ UNCHANGED <<msgs, circuit>>
       \/ /\ ~Exhausted
          /\ CircuitOpen(c.key)
          /\ Serve(c, "circuit")
          /\ todo' = Tail(todo)
          /\ UNCHANGED <<stage, circuit, outcome>>
       \/ /\ ~Exhausted
          /\ ~CircuitOpen(c.key)
          /\ stage' = "tool"
          /\ UNCHANGED <<msgs, todo, circuit, outcome>>
    /\ UNCHANGED <<clock, rounds, loose>>

(* The tool answers, and the result is recorded and appended.  A blocking  *)
(* tool can answer after the deadline: the loop was not free to notice.    *)
ToolEnds ==
    /\ stage = "tool"
    /\ LET c == Head(todo) IN
       \E e \in ResultOf(c.key) :
          /\ circuit' = Recorded(c.key, e)
          /\ msgs' = Append(msgs, ToolMsg(c, e))
    /\ todo' = Tail(todo)
    /\ stage' = "calls"
    /\ UNCHANGED <<clock, rounds, outcome, loose>>

CallsServed ==
    /\ stage = "calls"
    /\ todo = <<>>
    /\ stage' = "round"
    /\ UNCHANGED <<msgs, todo, circuit, clock, rounds, outcome, loose>>

-----------------------------------------------------------------------------
(* The watchdog and cancellation *)

(* A command runs on a worker thread that neither a timeout nor a          *)
(* cancellation stops.                                                     *)
Abandoned ==
    IF stage = "tool" /\ Head(todo).key \in Command \ Denied
    THEN loose \union {Head(todo).id} ELSE loose

Unanswered == stage \in {"model", "tool"}

(* Fault: only the requests to the model are under the deadline. *)
ModelDeadlineOnly ==
    /\ stage = "model"
    /\ Exhausted
    /\ End("tool_budget_exhausted")
    /\ UNCHANGED <<msgs, circuit, clock, rounds, loose>>

(* Fault: an expired tool call is answered as a failed one. *)
DeadlineAsResult ==
    /\ Unanswered
    /\ Exhausted
    /\ loose' = Abandoned
    /\ IF stage = "model" THEN End("tool_budget_exhausted") /\ UNCHANGED msgs
       ELSE /\ msgs' = Append(msgs, ToolMsg(Head(todo), "timeout"))
            /\ todo' = Tail(todo)
            /\ stage' = "round"
            /\ UNCHANGED outcome
    /\ UNCHANGED <<circuit, clock, rounds>>

(* await_with_wall_deadline gives up the request or the tool. *)
WallDeadline ==
    /\ Unanswered
    /\ Exhausted
    /\ loose' = Abandoned
    /\ End("tool_budget_exhausted")
    /\ UNCHANGED <<msgs, circuit, clock, rounds>>

(* The turn's task is cancelled at an await. *)
Cancel ==
    /\ Unanswered
    /\ loose' = Abandoned
    /\ End("cancelled")
    /\ UNCHANGED <<msgs, circuit, clock, rounds>>

(* The abandoned thread comes to its end; nobody reads what it returns. *)
ThreadEnds ==
    /\ \E i \in loose : loose' = loose \ {i}
    /\ UNCHANGED <<stage, msgs, todo, circuit, clock, rounds, outcome>>

Tick ==
    /\ outcome = "running"
    /\ clock < Deadline
    /\ clock' = clock + 1
    /\ UNCHANGED <<stage, msgs, todo, circuit, rounds, outcome, loose>>

LoopNext ==
    \/ BeginRound \/ ModelCalls \/ ModelUnusable \/ ModelProposes \/ ModelFails
    \/ NextCall \/ ToolEnds \/ CallsServed
    \/ WallDeadline \/ Cancel \/ ThreadEnds \/ Tick

(* Time passes, the loop's own steps are taken and the watchdog fires.     *)
(* Nothing is assumed of the model or of the tools.                        *)
LoopFairness ==
    /\ WF_loopVars(Tick)
    /\ WF_loopVars(BeginRound)
    /\ WF_loopVars(NextCall)
    /\ WF_loopVars(CallsServed)
    /\ WF_loopVars(WallDeadline)

LoopSpec == LoopInit /\ [][LoopNext]_loopVars /\ LoopFairness

-----------------------------------------------------------------------------
(* Properties *)

Call == [id : 1 .. MaxCall, key : ToolKey]

LoopTypeOK ==
    /\ stage \in {"round", "model", "calls", "tool", "ended"}
    /\ \A i \in DOMAIN msgs :
          /\ msgs[i].role \in {"assistant", "tool", "user"}
          /\ \A j \in DOMAIN msgs[i].calls : msgs[i].calls[j] \in Call
          /\ IsTool(msgs[i]) => /\ msgs[i].err \in Error \union {"ok", "circuit"}
                                /\ msgs[i].body \in {"full", "receipt"}
    /\ \A i \in DOMAIN todo : todo[i] \in Call
    /\ circuit \in [ToolKey -> [fails : 0 .. MaxCall, last : Error \union {"ok"}]]
    /\ clock \in 0 .. Deadline
    /\ rounds \in 0 .. MaxRound
    /\ stage = "tool" => todo # <<>>
    /\ stage = "ended" <=> outcome # "running"
    /\ loose \subseteq 1 .. MaxCall

(* A conversation that is sent is well formed: the calls of each assistant *)
(* message are answered by the tool messages that follow it at once, one   *)
(* per call and in the order of the calls, whichever of them was denied,   *)
(* unknown, refused by the breaker or failed.  An API of this kind rejects *)
(* a request that breaks this (the continue paths of generate()).          *)
RequestWellFormed ==
    stage \in {"round", "model"} =>
        \A i \in DOMAIN msgs : msgs[i].role = "assistant" =>
            LET cs == msgs[i].calls IN
            /\ i + Len(cs) <= Len(msgs)
            /\ \A j \in DOMAIN cs :
                  /\ IsTool(msgs[i + j])
                  /\ msgs[i + j].calls = <<cs[j]>>
            /\ (i + Len(cs) < Len(msgs) => ~IsTool(msgs[i + Len(cs) + 1]))

(* The model reads every result in full in exactly one request, and the    *)
(* receipt of a failure still says what failed: what the last request      *)
(* carried is a receipt once it is answered, what came after it is whole.  *)
LastAssistant == {i \in DOMAIN msgs : msgs[i].role = "assistant"}

ReadOnce ==
    \A i \in DOMAIN msgs : IsTool(msgs[i]) =>
        /\ msgs[i].body # "bare"
        /\ msgs[i].body = "receipt" <=> \/ \E j \in LastAssistant : j > i
                                        \/ outcome \in {"proposal", "proposal_refused"}

(* The executions of a key: its results that are not the breaker's. *)
ExecutedIn(ms, k) ==
    {i \in ToolsIn(ms) : ms[i].calls[1].key = k /\ ms[i].err # "circuit"}

(* The failures of a key in a row, up to message i. *)
InARow(ms, k, i) ==
    {n \in ExecutedIn(ms, k) :
        n <= i /\ \A m \in ExecutedIn(ms, k) : m \in n .. i => ms[m].err # "ok"}

(* A key that failed is executed again only while its failures in a row    *)
(* are fewer than its last error allows, whatever mixture of errors they   *)
(* are and however calls of other keys come in between; with the usual     *)
(* limit of one, never again once it failed for good (ToolCallTracker).    *)
BreakerHolds ==
    \A k \in ToolKey : \A i, j \in ExecutedIn(msgs, k) :
        i < j /\ msgs[i].err # "ok"
            => Cardinality(InARow(msgs, k, i)) < MaxFailures(k, msgs[i].err)

(* While the turn goes on no command of it runs unattended: a thread that  *)
(* was given up belongs to a run that has ended.                           *)
NoTwoCommands == loose # {} => outcome # "running"

(* generate() ends by its deadline, with or without a proposal, even when  *)
(* the model or a tool never answers.                                      *)
GenerateEnds == <>(outcome # "running")

(* What a turn promises the model and the machine it works on.             *)
TurnSound == LoopTypeOK /\ RequestWellFormed /\ ReadOnce /\ BreakerHolds /\ NoTwoCommands
=============================================================================
