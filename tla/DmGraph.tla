------------------------------ MODULE DmGraph ------------------------------
(***************************************************************************)
(* One turn of the Dungeon Master: the nodes of graph.ts with the channels *)
(* of DmState as far as control depends on them, the roll that parks the   *)
(* run and brings it back from its checkpoint, and the limit on supersteps *)
(* of one invocation. What the model answers is any reply at all. How the  *)
(* run ends is what DmOrchestrator takes as a choice: it asks for a roll,  *)
(* has a proposal to commit, or fails.                                     *)
(***************************************************************************)
EXTENDS Naturals

CONSTANTS
  MAX_ATTEMPTS,           \* calls a turn may lose to errors and invalid replies
  GRAPH_RECURSION_LIMIT,  \* supersteps of one graph.invoke
  MaxRolls                \* bound: rolls that come back in one turn

ASSUME GraphAssumption ==
  /\ MAX_ATTEMPTS \in Nat \ {0}
  /\ GRAPH_RECURSION_LIMIT \in Nat
  /\ MaxRolls \in Nat

VARIABLES
  profile,           \* "scene", or "answer" for recap and rules_answer
  node,              \* the node to run next, or how the invocation ended
  attempt,           \* channels of DmState, as booleans where only presence counts
  failure,
  proposal,
  validationErrors,
  rollRequest,
  rollNote,
  readRequests,
  toolResults,
  supersteps,        \* of this invocation
  rolls,             \* rolls that came back
  last,              \* the last answer of the model
  prompt,            \* what the prompt of the last call carried
  shown,             \* what became of the earlier replies whose prose is on display
  rejected           \* calls of the turn that were not accepted

requests == <<rollRequest, readRequests>>
vars == <<profile, node, attempt, failure, proposal, validationErrors, rollRequest, rollNote,
          readRequests, toolResults, supersteps, rolls, last, prompt, shown, rejected>>

\* What generate and parseDmOutput may come back with: an error (of the provider
\* or for want of one), no readable control block, or a block with its proposed
\* changes and its tool requests.
Reply == [kind : {"error", "unreadable", "block"}, changes : BOOLEAN, reads : BOOLEAN,
          roll : {"none", "valid", "refused"}]
NoReply == [kind |-> "error", changes |-> FALSE, reads |-> FALSE, roll |-> "none"]
Unreadable == [NoReply EXCEPT !.kind = "unreadable"]
Possible == {r \in Reply : r.kind = "block"} \cup {NoReply, Unreadable}
NoProposal == Unreadable   \* the null of the channel

Working == {"entry", "build_context", "call_dm", "request_roll", "execute_read_tools",
            "validate_output"}
Ended == {"end", "recursion_limit", "threw"}
Failures == {"none", "PROVIDER_ERROR", "INVALID_OUTPUT"}

Init ==
  /\ profile \in {"scene", "answer"}
  /\ node = "entry"
  /\ attempt = 0
  /\ failure = "none"
  /\ proposal = NoProposal
  /\ validationErrors = FALSE /\ rollRequest = FALSE /\ rollNote = FALSE
  /\ readRequests = FALSE /\ toolResults = FALSE
  /\ supersteps = 0
  /\ rolls = 0
  /\ last = NoReply
  /\ prompt = [errors |-> FALSE, roll |-> FALSE, tools |-> FALSE]
  /\ shown = {}
  /\ rejected = 0

-----------------------------------------------------------------------------
\* Mutant: the limit is never spent.
Spend_Nothing == supersteps < GRAPH_RECURSION_LIMIT /\ UNCHANGED supersteps

\* One superstep of the invocation.
Spend == supersteps < GRAPH_RECURSION_LIMIT /\ supersteps' = supersteps + 1

\* entry, build_context: the prompt's fixed parts.
Prepare ==
  /\ node \in {"entry", "build_context"}
  /\ Spend
  /\ node' = IF node = "entry" THEN "build_context" ELSE "call_dm"
  /\ UNCHANGED <<profile, attempt, failure, proposal, validationErrors, requests, rollNote,
                 toolResults, rolls, last, prompt, shown, rejected>>

\* The three reasons for which call_dm refuses a reply.
Invalid(reply) ==
  \/ reply.kind = "unreadable"
  \/ reply.kind = "block" /\ profile = "answer" /\ reply.changes
  \/ reply.kind = "block" /\ reply.roll = "refused"

\* What the graph goes on with.
Accepted(reply) == reply.kind = "block" /\ ~Invalid(reply)

\* Mutant: a reply that still asks for tools is proposed as well.
Final_AnyAccepted(reply) == Accepted(reply)

\* A reply without tool requests ends the turn.
Final(reply) == Accepted(reply) /\ reply.roll = "none" /\ ~reply.reads

\* Mutant: the first retry is taken for a first attempt.
Retracted_FromSecondRetry ==
  IF attempt > 1 THEN {}
  ELSE IF rejected = 0 /\ last = NoReply THEN shown
  ELSE shown \cup {IF Accepted(last) THEN "accepted" ELSE "rejected"}

\* The prose on display when call_dm starts to stream: none after a reset.
Retracted ==
  IF attempt > 0 THEN {}
  ELSE IF rejected = 0 /\ last = NoReply THEN shown   \* the first call of the turn
  ELSE shown \cup {IF Accepted(last) THEN "accepted" ELSE "rejected"}

\* What call_dm writes: an error leaves every channel but failure, a reply
\* writes them all but failure.
Channels(reply) ==
  IF reply.kind = "error"
  THEN /\ failure' = "PROVIDER_ERROR"
       /\ UNCHANGED <<proposal, validationErrors, requests, rollNote>>
  ELSE /\ proposal' = IF Final(reply) THEN reply ELSE NoProposal
       /\ validationErrors' = Invalid(reply)
       /\ rollRequest' = (Accepted(reply) /\ reply.roll = "valid")
       /\ readRequests' = (Accepted(reply) /\ reply.roll = "none" /\ reply.reads)
       /\ rollNote' = FALSE
       /\ UNCHANGED failure

CallDm(reply) ==
  /\ node = "call_dm"
  /\ Spend
  /\ prompt' = [errors |-> validationErrors, roll |-> rollNote, tools |-> toolResults]
  /\ shown' = Retracted
  /\ Channels(reply)
  /\ last' = reply
  /\ rejected' = rejected + (IF Accepted(reply) THEN 0 ELSE 1)
  /\ node' = IF rollRequest' THEN "request_roll"
             ELSE IF readRequests' THEN "execute_read_tools" ELSE "validate_output"
  /\ UNCHANGED <<profile, attempt, toolResults, rolls>>

\* request_roll, first pass: the interrupt writes the checkpoint.
Interrupt ==
  /\ node = "request_roll"
  /\ supersteps < GRAPH_RECURSION_LIMIT
  /\ node' = "parked"
  /\ UNCHANGED <<profile, attempt, failure, proposal, validationErrors, requests, rollNote,
                 toolResults, supersteps, rolls, last, prompt, shown, rejected>>

Resume_WithoutResult ==
  /\ node = "parked"
  /\ rolls < MaxRolls
  /\ rolls' = rolls + 1
  /\ supersteps' = 1
  /\ rollRequest' = FALSE
  /\ node' = "call_dm"
  /\ UNCHANGED <<profile, attempt, failure, proposal, validationErrors, rollNote, readRequests,
                 toolResults, last, prompt, shown, rejected>>

\* Command({ resume }): another invocation, in this process or a later one, runs
\* request_roll again from the checkpoint, and interrupt returns the roll.
Resume ==
  /\ node = "parked"
  /\ rolls < MaxRolls
  /\ rolls' = rolls + 1
  /\ supersteps' = 1
  /\ rollNote' = TRUE
  /\ rollRequest' = FALSE
  /\ node' = "call_dm"
  /\ UNCHANGED <<profile, attempt, failure, proposal, validationErrors, readRequests,
                 toolResults, last, prompt, shown, rejected>>

\* The results are appended to those the turn already has.
ExecuteReadTools ==
  /\ node = "execute_read_tools"
  /\ Spend
  /\ readRequests' = FALSE
  /\ toolResults' = TRUE
  /\ node' = "call_dm"
  /\ UNCHANGED <<profile, attempt, failure, proposal, validationErrors, rollRequest, rollNote,
                 rolls, last, prompt, shown, rejected>>

\* Mutant: one attempt too many.
LastAttempt_OneMore == attempt >= MAX_ATTEMPTS

LastAttempt == attempt >= MAX_ATTEMPTS - 1

\* A proposal passes; without one the last attempt fails as what it was, and an
\* earlier one is forgotten and retried.
Verdict ==
  IF proposal # NoProposal THEN UNCHANGED <<failure, attempt>>
  ELSE IF LastAttempt
  THEN /\ failure' = IF failure = "none" THEN "INVALID_OUTPUT" ELSE failure
       /\ UNCHANGED attempt
  ELSE attempt' = attempt + 1 /\ failure' = "none"

ValidateOutput ==
  /\ node = "validate_output"
  /\ Spend
  /\ Verdict
  /\ node' = IF failure' = "none" /\ proposal = NoProposal /\ attempt' >= 1
             THEN "call_dm" ELSE "end"
  /\ UNCHANGED <<profile, proposal, validationErrors, requests, rollNote,
                 toolResults, rolls, last, prompt, shown, rejected>>

\* GraphRecursionError.
RecursionLimit ==
  /\ node \in Working
  /\ supersteps = GRAPH_RECURSION_LIMIT
  /\ node' = "recursion_limit"
  /\ UNCHANGED <<profile, attempt, failure, proposal, validationErrors, requests, rollNote,
                 toolResults, supersteps, rolls, last, prompt, shown, rejected>>

\* The reads of the context package, and the lookup of the provider, may throw.
GraphThrows ==
  /\ node \in {"build_context", "call_dm"}
  /\ node' = "threw"
  /\ UNCHANGED <<profile, attempt, failure, proposal, validationErrors, requests, rollNote,
                 toolResults, supersteps, rolls, last, prompt, shown, rejected>>

Terminated == node \in Ended \cup {"parked"} /\ UNCHANGED vars

Work ==
  \/ Prepare
  \/ \E reply \in Possible : CallDm(reply)
  \/ Interrupt \/ ExecuteReadTools \/ ValidateOutput
  \/ RecursionLimit \/ GraphThrows

Next == Work \/ Resume \/ Terminated

Spec == Init /\ [][Next]_vars

\* The event loop runs the graph and a provider answers or fails; nobody has to roll.
FairSpec == Spec /\ WF_vars(Work)

-----------------------------------------------------------------------------
(***************************************************************************)
(* Properties                                                              *)
(***************************************************************************)

\* The channels keep their types, and no invocation outruns its limit.
TypeOK ==
  /\ profile \in {"scene", "answer"}
  /\ node \in Working \cup Ended \cup {"parked"}
  /\ attempt \in 0..(MAX_ATTEMPTS - 1)
  /\ failure \in Failures
  /\ proposal \in Possible
  /\ validationErrors \in BOOLEAN /\ rollRequest \in BOOLEAN /\ rollNote \in BOOLEAN
  /\ readRequests \in BOOLEAN /\ toolResults \in BOOLEAN
  /\ supersteps \in Nat
  /\ rolls \in 0..MaxRolls
  /\ last \in Possible
  /\ prompt \in [errors : BOOLEAN, roll : BOOLEAN, tools : BOOLEAN]
  /\ shown \subseteq {"accepted", "rejected"}
  /\ rejected \in Nat

\* M6.7, "One bounded retry": a turn survives every answer it may lose and none
\* beyond, however many tools and rolls lie between the bad ones: it fails at
\* the MAX_ATTEMPTS-th and not before.
RetryBudget ==
  /\ rejected <= MAX_ATTEMPTS
  /\ node = "end" /\ failure # "none" => rejected = MAX_ATTEMPTS
  /\ node = "call_dm" => rejected < MAX_ATTEMPTS

\* The orchestrator commits `state.proposal!` when there is no failure: a run
\* that ends has exactly one of the two.
EndHasOneOutcome == node = "end" => (failure = "none" <=> proposal # NoProposal)

\* "An intermediate answer: its proposals do not count, the final reply does"
\* (call_dm): what is committed is the model's last answer, one without tool
\* requests, and in a recap or rules answer one without changes.
CommitsFinalReply ==
  node = "end" /\ failure = "none" =>
    /\ proposal = last
    /\ proposal.kind = "block" /\ proposal.roll = "none" /\ ~proposal.reads
    /\ profile = "answer" => ~proposal.changes

\* A turn ends once: with the model's final reply, or with the failure of its
\* last attempt (validate, END).
TurnEndsOnce == RetryBudget /\ EndHasOneOutcome /\ CommitsFinalReply

\* M6.6: the prose of a reply that was rejected is retracted before another
\* one streams over it.
RejectedProseIsRetracted == "rejected" \notin shown

\* M6.5, M6.7: what the turn was waiting for reaches the model with its next
\* call: the validation error if and only if its last reply was invalid, the
\* roll it asked for - through a checkpoint and a restart - and the results of
\* its read tools.
FeedbackReachesModel ==
  [][node = "call_dm" /\ node' \in Working \ {"call_dm"} =>
       /\ prompt'.errors <=> Invalid(last)
       /\ Accepted(last) /\ last.roll = "valid" => prompt'.roll
       /\ Accepted(last) /\ last.roll = "none" /\ last.reads => prompt'.tools]_vars

\* Every invocation comes to an end, or to a roll: no model, asking for tools
\* for ever, keeps the table in DM_GENERATING.
InvocationEnds == node \in Working ~> node \in Ended \cup {"parked"}

=============================================================================
