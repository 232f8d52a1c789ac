--------------------------- MODULE StructuredAnalyst ---------------------------
(***************************************************************************)
(* StructuredAnalyst (rdam/_llm.py), the boundary to a language model that *)
(* the SDRT, Toulmin, Walton and PDTB providers share: an agent built on   *)
(* first use by whichever thread comes first, and per extraction a loop of *)
(* agent runs under one deadline, with two kinds of retries.               *)
(*                                                                         *)
(* An agent run is pydantic-ai's and is modelled from how this code uses   *)
(* it: it asks the model, answers source lookups, hands a refused proposal *)
(* back at most OutputRetries times, and ends in an output or an error.    *)
(***************************************************************************)
EXTENDS Naturals

CONSTANTS
    Threads,           \* threads that extract with one analyst
    OutputRetries, TransportRetries,
    RequestLimit,      \* model requests pydantic-ai allows in one agent run
    NoThread

ASSUME StructuredAnalystAssumption ==
    /\ OutputRetries \in Nat
    /\ TransportRetries \in Nat
    /\ RequestLimit \in Nat \ {0}
    /\ NoThread \notin Threads

VARIABLES
    agent,     \* self._agent: "none", "bare" (no output validator yet), "complete"
    lock,      \* holder of self._agent_lock
    pc,        \* where each extraction is
    runs,      \* transport_runs
    turns,     \* model requests of the current agent run
    refused,   \* proposals handed back in the current agent run
    outputs,   \* evidence.output_attempts
    requests,  \* evidence.transport_attempts
    accepted   \* what each extraction has returned: a kind of proposal, or "nothing"

counters == <<runs, turns, refused, outputs, requests>>
analystVars == <<agent, lock, pc, counters, accepted>>

\* How an extraction ends: an Extraction, or an LlmError by code and, where one
\* code has two, by retryability.
Errors == {"empty_source_text", "llm_output_failed_validation", "llm_request_rejected",
           "llm_request_rejected_retryable", "llm_usage_limit_exceeded",
           "llm_transport_failed", "llm_run_failed", "llm_transport_deadline_exceeded"}
Ends == {"extracted"} \cup Errors

\* A proposal is malformed, cites what the source does not say, or is right.
Proposals == {"malformed", "unsourced", "right"}

AnalystInit ==
    /\ agent = "none"
    /\ lock = NoThread
    /\ pc = [t \in Threads |-> "idle"]
    /\ runs = [t \in Threads |-> 0]
    /\ turns = [t \in Threads |-> 0]
    /\ refused = [t \in Threads |-> 0]
    /\ outputs = [t \in Threads |-> 0]
    /\ requests = [t \in Threads |-> 0]
    /\ accepted = [t \in Threads |-> "nothing"]

Move(t, from, to) == pc[t] = from /\ pc' = [pc EXCEPT ![t] = to]
Count(counter, t) == [counter EXCEPT ![t] = @ + 1]

\* if not text.strip(): raise LlmError
Blank(t) ==
    /\ Move(t, "idle", "empty_source_text")
    /\ UNCHANGED <<agent, lock, counters, accepted>>

\* transport_runs += 1; self._run(...): a fresh agent run with its own budget.
BeginRun(t) ==
    /\ \/ Move(t, "idle", "building")
       \/ Move(t, "waiting", "building")   \* the delay is over
    /\ runs' = Count(runs, t)
    /\ turns' = [turns EXCEPT ![t] = 0]
    /\ refused' = [refused EXCEPT ![t] = 0]
    /\ UNCHANGED <<agent, lock, outputs, requests, accepted>>
--------------------------------------------------------------------------------
(* _built: the agent is made once, on first use *)

\* if self._agent is not None: return self._agent
LookForAgent(t) ==
    /\ Move(t, "building", IF agent = "none" THEN "locking" ELSE "asking")
    /\ UNCHANGED <<agent, lock, counters, accepted>>

LockAgent(t) ==
    /\ lock = NoThread
    /\ lock' = t
    /\ Move(t, "locking", "constructing")
    /\ UNCHANGED <<agent, counters, accepted>>

\* if self._agent is None: self._agent = Agent(...)
BuildAgent(t) ==
    /\ \/ /\ agent = "none"
          /\ agent' = "bare"
          /\ Move(t, "constructing", "registering")
          /\ UNCHANGED lock
       \/ /\ agent # "none"
          /\ lock' = NoThread
          /\ Move(t, "constructing", "asking")
          /\ UNCHANGED agent
    /\ UNCHANGED <<counters, accepted>>

\* self._agent.output_validator(self._validate_output)
RegisterValidator(t) ==
    /\ Move(t, "registering", "asking")
    /\ agent' = "complete"
    /\ lock' = NoThread
    /\ UNCHANGED <<counters, accepted>>
--------------------------------------------------------------------------------
(* One agent run *)

\* wrap_model_request counts the request and awaits the handler.
Ask(t) ==
    /\ turns[t] < RequestLimit
    /\ Move(t, "asking", "awaiting")
    /\ turns' = Count(turns, t)
    /\ requests' = Count(requests, t)
    /\ UNCHANGED <<agent, lock, runs, refused, outputs, accepted>>

\* UsageLimitExceeded
AskTooMuch(t) ==
    /\ turns[t] = RequestLimit
    /\ Move(t, "asking", "llm_usage_limit_exceeded")
    /\ UNCHANGED <<agent, lock, counters, accepted>>

\* The model calls source_locations: a request, but not an output proposal.
LookUp(t) ==
    /\ Move(t, "awaiting", "asking")
    /\ UNCHANGED <<agent, lock, counters, accepted>>

\* The technique's contract and, once registered, its source validator.
Valid(proposal) == proposal = "right" \/ (proposal = "unsourced" /\ agent = "bare")

Accept(t, proposal) ==
    /\ Valid(proposal)
    /\ Move(t, "awaiting", "extracted")
    /\ outputs' = Count(outputs, t)
    /\ accepted' = [accepted EXCEPT ![t] = proposal]
    /\ UNCHANGED <<agent, lock, runs, turns, refused, requests>>

\* Mutant: one proposal too many is asked for.
HandBack_OnceMore(t, proposal) ==
    /\ ~Valid(proposal)
    /\ refused[t] <= OutputRetries
    /\ Move(t, "awaiting", "asking")
    /\ outputs' = Count(outputs, t)
    /\ refused' = Count(refused, t)
    /\ UNCHANGED <<agent, lock, runs, turns, requests, accepted>>

\* A refused proposal goes back to the model with the error.
HandBack(t, proposal) ==
    /\ ~Valid(proposal)
    /\ refused[t] < OutputRetries
    /\ Move(t, "awaiting", "asking")
    /\ outputs' = Count(outputs, t)
    /\ refused' = Count(refused, t)
    /\ UNCHANGED <<agent, lock, runs, turns, requests, accepted>>

\* UnexpectedModelBehavior: the budget of the run is used up, or the response
\* cannot be decoded at all.
FailValidation(t) ==
    /\ Move(t, "awaiting", "llm_output_failed_validation")
    /\ outputs' = Count(outputs, t)
    /\ UNCHANGED <<agent, lock, runs, turns, refused, requests, accepted>>

\* AgentRunError
FailRun(t) ==
    /\ Move(t, "awaiting", "llm_run_failed")
    /\ UNCHANGED <<agent, lock, counters, accepted>>
--------------------------------------------------------------------------------
(* The transport loop *)

\* ModelHTTPError with status 408, 409, 429 or 5xx, or ModelAPIError, while
\* transport_runs <= self._transport_retries.
Retry(t) ==
    /\ runs[t] <= TransportRetries
    /\ Move(t, "awaiting", "waiting")
    /\ UNCHANGED <<agent, lock, counters, accepted>>

\* The same errors when the budget is used up.
GiveUp(t) ==
    /\ runs[t] > TransportRetries
    /\ \E code \in {"llm_request_rejected_retryable", "llm_transport_failed"} : Move(t, "awaiting", code)
    /\ UNCHANGED <<agent, lock, counters, accepted>>

\* ModelHTTPError with any other status.
Rejected(t) ==
    /\ Move(t, "awaiting", "llm_request_rejected")
    /\ UNCHANGED <<agent, lock, counters, accepted>>

\* Mutant: the deadline covers the requests but not the delays between them.
Deadline_RequestsOnly(t) ==
    /\ Move(t, "awaiting", "llm_transport_deadline_exceeded")
    /\ UNCHANGED <<agent, lock, counters, accepted>>

\* asyncio.timeout ends whatever the extraction awaits, retry delays included.
Deadline(t) ==
    /\ \E from \in {"awaiting", "waiting"} : Move(t, from, "llm_transport_deadline_exceeded")
    /\ UNCHANGED <<agent, lock, counters, accepted>>
--------------------------------------------------------------------------------
\* What a thread does by itself.
Proceed(t) ==
    \/ LookForAgent(t) \/ LockAgent(t) \/ BuildAgent(t) \/ RegisterValidator(t)
    \/ Ask(t) \/ AskTooMuch(t)

\* What the model, its provider and the network do.
Respond(t) ==
    \/ LookUp(t) \/ FailValidation(t) \/ FailRun(t) \/ Retry(t) \/ GiveUp(t) \/ Rejected(t)
    \/ \E proposal \in Proposals : Accept(t, proposal) \/ HandBack(t, proposal)

Finished == (\A t \in Threads : pc[t] \in Ends) /\ UNCHANGED analystVars

AnalystNext ==
    \/ \E t \in Threads : Blank(t) \/ BeginRun(t) \/ Proceed(t) \/ Respond(t) \/ Deadline(t)
    \/ Finished

AnalystSpec == AnalystInit /\ [][AnalystNext]_analystVars

\* Threads run and the deadline passes; nothing is assumed of the model, nor
\* of how long a server asks to wait before a retry.
FairAnalystSpec == AnalystSpec /\ \A t \in Threads : WF_analystVars(Proceed(t)) /\ WF_analystVars(Deadline(t))
--------------------------------------------------------------------------------
(* Properties *)

Places == {"idle", "building", "locking", "constructing", "registering", "asking", "awaiting",
           "waiting"} \cup Ends

\* The type invariant.
AnalystTypeOK ==
    /\ agent \in {"none", "bare", "complete"}
    /\ lock \in Threads \cup {NoThread}
    /\ pc \in [Threads -> Places]
    /\ runs \in [Threads -> Nat]
    /\ turns \in [Threads -> Nat]
    /\ refused \in [Threads -> Nat]
    /\ outputs \in [Threads -> Nat]
    /\ requests \in [Threads -> Nat]
    /\ accepted \in [Threads -> Proposals \cup {"nothing"}]

\* Attempts stay within the two budgets together, whatever mixture of refused
\* proposals, lookups and transient errors occurs: a transport retry starts a
\* new run, whose output budget is new, and every output took a request.
AttemptsBounded ==
    \A t \in Threads :
        /\ runs[t] <= TransportRetries + 1
        /\ outputs[t] <= (TransportRetries + 1) * (OutputRetries + 1)
        /\ outputs[t] <= requests[t]
        /\ requests[t] <= (TransportRetries + 1) * RequestLimit

\* Every extraction ends, even if the model never answers and a server asks
\* for an endless delay.
EveryExtractionEnds == \A t \in Threads : pc[t] = "building" ~> pc[t] \in Ends

\* "Accept it only if this technique's own validator accepts it" (_llm.py:5).
AcceptedIsValidated == \A t \in Threads : accepted[t] # "unsourced"
================================================================================
