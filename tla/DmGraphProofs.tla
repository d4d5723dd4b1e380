--------------------------- MODULE DmGraphProofs ---------------------------
(***************************************************************************)
(* Proofs about DmGraph, for any number of attempts, any limit and any     *)
(* number of rolls. The argument: wherever the run may go on, the calls it *)
(* has lost are exactly its attempts, nothing has failed and nothing is    *)
(* proposed; only validate_output may find it otherwise, and decides.      *)
(***************************************************************************)
EXTENDS DmGraph, TLAPS

\* The nodes at which a run has neither a failure nor a proposal.
Underway == {"entry", "build_context", "call_dm", "request_roll", "parked", "execute_read_tools"}
Started == Underway \ {"entry", "build_context"}

\* What is known of the budget and the outcome at each node.
AttemptsCountLosses ==
  /\ node \in Underway => rejected = attempt /\ failure = "none" /\ proposal = NoProposal
  /\ node = "validate_output" =>
       \/ proposal = last /\ Final(last) /\ failure = "none" /\ rejected = attempt
       \/ proposal = NoProposal /\ ~Accepted(last) /\ rejected = attempt + 1
  /\ node = "end" =>
       \/ proposal = last /\ Final(last) /\ failure = "none" /\ rejected = attempt
       \/ proposal = NoProposal /\ failure # "none" /\ rejected = MAX_ATTEMPTS
  /\ rejected <= attempt + 1

\* A request is in its channel only at the node that serves it, and is the last
\* reply's.
RequestsAreServed ==
  /\ node \in {"entry", "build_context", "call_dm", "execute_read_tools", "validate_output"} =>
       ~rollRequest
  /\ node \in {"entry", "build_context", "call_dm", "request_roll", "parked", "validate_output"} =>
       ~readRequests
  /\ node \in {"request_roll", "parked"} => Accepted(last) /\ last.roll = "valid"
  /\ node = "execute_read_tools" => Accepted(last) /\ last.roll = "none" /\ last.reads

\* Of the replies whose prose is on display, none was rejected.
NothingToRetract ==
  /\ shown \subseteq {"accepted"}
  /\ node \in {"entry", "build_context"} => last = NoReply
  /\ node \in Underway /\ attempt = 0 => Accepted(last) \/ (last = NoReply /\ rejected = 0)

GraphInv == TypeOK /\ AttemptsCountLosses /\ RequestsAreServed /\ NothingToRetract

\* A reply that ends the turn is not the null of its channel, and the three ways
\* of a reply exclude each other.
LEMMA KindsOfReply ==
  /\ NoProposal \in Possible /\ NoReply \in Possible
  /\ ~Accepted(NoProposal) /\ ~Accepted(NoReply) /\ ~Invalid(NoReply)
  /\ \A reply \in Possible :
       /\ Final(reply) => reply # NoProposal /\ Accepted(reply)
       /\ reply.kind = "error" => ~Accepted(reply) /\ ~Invalid(reply)
       /\ reply.kind # "error" => (Invalid(reply) <=> ~Accepted(reply))
       /\ Accepted(reply) => reply.kind = "block" /\ reply.roll # "refused"
       /\ reply.roll \in {"none", "valid", "refused"} /\ reply.reads \in BOOLEAN
<1>1. /\ NoReply.kind = "error" /\ NoReply.roll = "none" /\ NoReply.reads = FALSE
      /\ NoProposal.kind = "unreadable" /\ NoProposal.roll = "none" /\ NoProposal.reads = FALSE
  BY DEF NoProposal, Unreadable, NoReply
<1>2. NoProposal \in Possible /\ NoReply \in Possible
  BY DEF Possible, NoProposal
<1>3. ASSUME NEW reply \in Possible
      PROVE  /\ reply.kind \in {"error", "unreadable", "block"}
             /\ reply.roll \in {"none", "valid", "refused"} /\ reply.reads \in BOOLEAN
  BY <1>1 DEF Possible, Reply, NoProposal
<1> QED
  BY <1>1, <1>2, <1>3 DEF Final, Accepted, Invalid

\* A call leads to a roll, to the read tools or to the verdict, and leaves the
\* channels accordingly.
CallDmEffect(reply) ==
  /\ node = "call_dm" /\ rejected = attempt
  /\ UNCHANGED <<profile, attempt, toolResults, rolls>>
  /\ last' = reply /\ shown' = Retracted /\ supersteps' \in Nat
  /\ \/ /\ node' = "request_roll" /\ Accepted(reply) /\ reply.roll = "valid"
        /\ rollRequest' = TRUE /\ readRequests' = FALSE /\ rejected' = rejected
        /\ proposal' = NoProposal /\ failure' = "none"
     \/ /\ node' = "execute_read_tools" /\ Accepted(reply) /\ reply.roll = "none"
        /\ reply.reads
        /\ rollRequest' = FALSE /\ readRequests' = TRUE /\ rejected' = rejected
        /\ proposal' = NoProposal /\ failure' = "none"
     \/ /\ node' = "validate_output" /\ Final(reply)
        /\ rollRequest' = FALSE /\ readRequests' = FALSE /\ rejected' = rejected
        /\ proposal' = reply /\ failure' = "none"
     \/ /\ node' = "validate_output" /\ ~Accepted(reply)
        /\ rollRequest' = FALSE /\ readRequests' = FALSE /\ rejected' = rejected + 1
        /\ proposal' = NoProposal /\ failure' \in Failures
  /\ validationErrors' = (IF reply.kind = "error" THEN validationErrors ELSE Invalid(reply))
  /\ rollNote' = (IF reply.kind = "error" THEN rollNote ELSE FALSE)

LEMMA CallDmGoes ==
  ASSUME GraphInv, NEW reply \in Possible, CallDm(reply)
  PROVE  CallDmEffect(reply)
<1>1. /\ node = "call_dm" /\ rejected = attempt /\ failure = "none" /\ proposal = NoProposal
      /\ ~rollRequest /\ ~readRequests /\ rollRequest \in BOOLEAN /\ readRequests \in BOOLEAN
      /\ supersteps \in Nat /\ rejected \in Nat
  BY DEF CallDm, GraphInv, TypeOK, AttemptsCountLosses, RequestsAreServed, Underway
<1>2. /\ UNCHANGED <<profile, attempt, toolResults, rolls>>
      /\ last' = reply /\ shown' = Retracted /\ supersteps' \in Nat
      /\ rejected' = IF Accepted(reply) THEN rejected ELSE rejected + 1
  BY <1>1 DEF CallDm, Spend
<1>3. CASE reply.kind = "error"
  <2>1. /\ failure' = "PROVIDER_ERROR" /\ proposal' = proposal /\ ~Accepted(reply)
        /\ validationErrors' = validationErrors /\ rollRequest' = rollRequest
        /\ readRequests' = readRequests /\ rollNote' = rollNote
    BY <1>3, KindsOfReply DEF CallDm, Channels, requests
  <2>2. node' = "validate_output"
    BY <1>1, <2>1 DEF CallDm
  <2> QED
    BY <1>1, <1>2, <1>3, <2>1, <2>2 DEF CallDmEffect, Failures
<1>4. CASE reply.kind # "error"
  <2>1. /\ proposal' = IF Final(reply) THEN reply ELSE NoProposal
        /\ validationErrors' = Invalid(reply)
        /\ rollRequest' = (Accepted(reply) /\ reply.roll = "valid")
        /\ readRequests' = (Accepted(reply) /\ reply.roll = "none" /\ reply.reads)
        /\ rollNote' = FALSE
        /\ failure' = failure
    BY <1>4 DEF CallDm, Channels
  <2>2. node' = IF rollRequest' THEN "request_roll"
                ELSE IF readRequests' THEN "execute_read_tools" ELSE "validate_output"
    BY DEF CallDm
  <2>3. CASE ~Accepted(reply)
    BY <1>1, <1>2, <1>4, <2>1, <2>2, <2>3, KindsOfReply DEF CallDmEffect, Failures
  <2>4. CASE Accepted(reply)
    BY <1>1, <1>2, <1>4, <2>1, <2>2, <2>4, KindsOfReply DEF CallDmEffect, Final
  <2> QED
    BY <2>3, <2>4
<1> QED
  BY <1>3, <1>4

\* A verdict ends the turn with its proposal, fails it on the last attempt, or
\* spends an attempt.
LEMMA ValidateOutputDecides ==
  ASSUME GraphInv, ValidateOutput
  PROVE  /\ node = "validate_output" /\ supersteps' \in Nat
         /\ \/ /\ node' = "end" /\ proposal = last /\ Final(last) /\ failure' = "none"
               /\ rejected = attempt /\ attempt' = attempt
            \/ /\ node' = "end" /\ proposal = NoProposal /\ failure' # "none"
               /\ failure' \in Failures /\ rejected = MAX_ATTEMPTS /\ attempt' = attempt
            \/ /\ node' = "call_dm" /\ proposal = NoProposal /\ failure' = "none"
               /\ ~Accepted(last) /\ rejected = attempt' /\ attempt' = attempt + 1
               /\ attempt' < MAX_ATTEMPTS
<1> USE GraphAssumption
<1>1. /\ node = "validate_output" /\ supersteps \in Nat /\ attempt \in 0..(MAX_ATTEMPTS - 1)
      /\ failure \in Failures /\ last \in Possible
      /\ \/ proposal = last /\ Final(last) /\ failure = "none" /\ rejected = attempt
         \/ proposal = NoProposal /\ ~Accepted(last) /\ rejected = attempt + 1
  BY DEF ValidateOutput, GraphInv, TypeOK, AttemptsCountLosses
<1>2. supersteps' \in Nat
  BY <1>1 DEF ValidateOutput, Spend
<1>3. CASE proposal # NoProposal
  BY <1>1, <1>2, <1>3 DEF ValidateOutput, Verdict
<1>4. CASE proposal = NoProposal /\ LastAttempt
  <2>1. rejected = MAX_ATTEMPTS
    BY <1>1, <1>4, KindsOfReply DEF LastAttempt
  <2>2. attempt' = attempt /\ failure' # "none" /\ failure' \in Failures
    BY <1>1, <1>4 DEF ValidateOutput, Verdict, Failures
  <2> QED
    BY <1>1, <1>2, <1>4, <2>1, <2>2 DEF ValidateOutput
<1>5. CASE proposal = NoProposal /\ ~LastAttempt
  <2>1. rejected = attempt + 1 /\ ~Accepted(last)
    BY <1>1, <1>5, KindsOfReply
  <2>2. attempt' = attempt + 1 /\ failure' = "none"
    BY <1>5 DEF ValidateOutput, Verdict
  <2> QED
    BY <1>1, <1>2, <1>5, <2>1, <2>2 DEF ValidateOutput, LastAttempt
<1> QED
  BY <1>3, <1>4, <1>5

LEMMA GraphInvHolds == Spec => []GraphInv
<1> USE GraphAssumption
<1>1. Init => GraphInv
  <2> SUFFICES ASSUME Init PROVE GraphInv
    OBVIOUS
  <2>1. TypeOK
    <3>1. 0 \in 0..(MAX_ATTEMPTS - 1) /\ 0 \in 0..MaxRolls
      OBVIOUS
    <3> QED
      BY <3>1, KindsOfReply DEF Init, TypeOK, Working, Failures
  <2>2. AttemptsCountLosses /\ RequestsAreServed /\ NothingToRetract
    BY DEF Init, AttemptsCountLosses, RequestsAreServed, NothingToRetract, Underway
  <2> QED
    BY <2>1, <2>2 DEF GraphInv
<1>2. GraphInv /\ [Next]_vars => GraphInv'
  <2> SUFFICES ASSUME GraphInv, [Next]_vars PROVE GraphInv'
    OBVIOUS
  <2>1. CASE Prepare
    BY <2>1, KindsOfReply
       DEF GraphInv, TypeOK, AttemptsCountLosses, RequestsAreServed, NothingToRetract, Underway,
           Prepare, Spend, Working, Ended, Accepted, Final, Invalid, requests
  <2>2. ASSUME NEW reply \in Possible, CallDm(reply) PROVE GraphInv'
    <3>1. CallDmEffect(reply)
      BY <2>2, CallDmGoes
    <3>2. last' = reply /\ (Accepted(last)' <=> Accepted(reply)) /\ (Final(last)' <=> Final(reply))
      BY <3>1 DEF CallDmEffect, Accepted, Final, Invalid
    <3>3. /\ attempt \in Nat /\ rejected \in Nat /\ shown \subseteq {"accepted", "rejected"}
          /\ node = "call_dm" /\ rejected = attempt /\ attempt' = attempt
      BY <3>1 DEF CallDmEffect, GraphInv, TypeOK
    <3>4. shown' \subseteq {"accepted"}
      <4>1. shown' = Retracted /\ shown \subseteq {"accepted"}
            /\ (attempt = 0 => Accepted(last) \/ (last = NoReply /\ rejected = 0))
        BY <3>1, <3>3 DEF CallDmEffect, GraphInv, NothingToRetract, Underway
      <4>2. attempt > 0 <=> attempt # 0
        BY <3>3
      <4> QED
        BY <3>3, <4>1, <4>2, KindsOfReply DEF Retracted
    <3>5. TypeOK'
      <4>1. /\ validationErrors' \in BOOLEAN /\ rollNote' \in BOOLEAN
        BY <3>1 DEF CallDmEffect, GraphInv, TypeOK, Invalid
      <4>2. rollRequest' \in BOOLEAN /\ readRequests' \in BOOLEAN
        BY <3>1 DEF CallDmEffect
      <4>3. prompt' \in [errors : BOOLEAN, roll : BOOLEAN, tools : BOOLEAN]
        BY <2>2 DEF CallDm, GraphInv, TypeOK
      <4>4. /\ node' \in Working /\ failure' \in Failures /\ proposal' \in Possible
            /\ rejected' \in Nat
        BY <3>1, <3>3, <2>2, KindsOfReply DEF CallDmEffect, Working, Failures
      <4>5. /\ profile' = profile /\ attempt' = attempt /\ toolResults' = toolResults
            /\ rolls' = rolls /\ last' \in Possible /\ supersteps' \in Nat
        BY <3>1, <2>2 DEF CallDmEffect
      <4> QED
        BY <3>4, <4>1, <4>2, <4>3, <4>4, <4>5 DEF GraphInv, TypeOK
    <3>6. AttemptsCountLosses'
      BY <3>1, <3>2, <3>3 DEF CallDmEffect, AttemptsCountLosses, Underway
    <3>7. RequestsAreServed'
      BY <3>1, <3>2 DEF CallDmEffect, RequestsAreServed
    <3>8. NothingToRetract'
      BY <3>1, <3>2, <3>3, <3>4 DEF CallDmEffect, NothingToRetract, Underway
    <3> QED
      BY <3>5, <3>6, <3>7, <3>8 DEF GraphInv
  <2>3. CASE Interrupt
    BY <2>3
       DEF GraphInv, TypeOK, AttemptsCountLosses, RequestsAreServed, NothingToRetract, Underway,
           Interrupt, Working, Ended, Accepted, Final, Invalid, requests
  <2>4. CASE ExecuteReadTools
    <3>1. TypeOK'
      <4>1. supersteps' \in Nat
        BY <2>4 DEF GraphInv, TypeOK, ExecuteReadTools, Spend
      <4> QED
        BY <2>4, <4>1 DEF GraphInv, TypeOK, ExecuteReadTools, Working
    <3>2. /\ node = "execute_read_tools" /\ node' = "call_dm"
          /\ UNCHANGED <<profile, attempt, failure, proposal, rollRequest, last, shown, rejected>>
          /\ readRequests' = FALSE
      BY <2>4 DEF ExecuteReadTools
    <3>3. Accepted(last)' <=> Accepted(last)
      BY <3>2 DEF Accepted, Invalid
    <3>4. AttemptsCountLosses'
      BY <3>2 DEF GraphInv, AttemptsCountLosses, Underway
    <3>5. RequestsAreServed'
      BY <3>2 DEF GraphInv, RequestsAreServed
    <3>6. NothingToRetract'
      BY <3>2, <3>3 DEF GraphInv, NothingToRetract, Underway
    <3> QED
      BY <3>1, <3>4, <3>5, <3>6 DEF GraphInv
  <2>5. CASE ValidateOutput
    <3> USE ValidateOutputDecides, <2>5
    <3>1. UNCHANGED <<profile, proposal, validationErrors, rollRequest, readRequests, rollNote,
                      toolResults, rolls, last, prompt, shown, rejected>>
      BY DEF ValidateOutput, requests
    <3>2. (Accepted(last) <=> Accepted(last)') /\ (Final(last) <=> Final(last)')
      BY <3>1 DEF Accepted, Final, Invalid
    <3>3. TypeOK'
      BY <3>1 DEF GraphInv, TypeOK, Working, Ended, Failures
    <3>4. AttemptsCountLosses'
      BY <3>1, <3>2 DEF GraphInv, TypeOK, AttemptsCountLosses, Underway
    <3>5. RequestsAreServed' /\ NothingToRetract'
      BY <3>1, <3>2 DEF GraphInv, TypeOK, RequestsAreServed, NothingToRetract, Underway
    <3> QED
      BY <3>3, <3>4, <3>5 DEF GraphInv
  <2>6. CASE Resume
    <3>1. TypeOK'
      <4>1. rolls' \in 0..MaxRolls
        BY <2>6 DEF GraphInv, TypeOK, Resume
      <4> QED
        BY <2>6, <4>1 DEF GraphInv, TypeOK, Resume, Working
    <3>2. /\ node = "parked" /\ node' = "call_dm"
          /\ UNCHANGED <<profile, attempt, failure, proposal, readRequests, last, shown, rejected>>
          /\ rollRequest' = FALSE
      BY <2>6 DEF Resume
    <3>3. Accepted(last)' <=> Accepted(last)
      BY <3>2 DEF Accepted, Invalid
    <3>4. AttemptsCountLosses'
      BY <3>2 DEF GraphInv, AttemptsCountLosses, Underway
    <3>5. RequestsAreServed'
      BY <3>2 DEF GraphInv, RequestsAreServed
    <3>6. NothingToRetract'
      BY <3>2, <3>3 DEF GraphInv, NothingToRetract, Underway
    <3> QED
      BY <3>1, <3>4, <3>5, <3>6 DEF GraphInv
  <2>7. CASE RecursionLimit
    BY <2>7
       DEF GraphInv, TypeOK, AttemptsCountLosses, RequestsAreServed, NothingToRetract, Underway,
           RecursionLimit, Ended, requests
  <2>8. CASE GraphThrows
    BY <2>8
       DEF GraphInv, TypeOK, AttemptsCountLosses, RequestsAreServed, NothingToRetract, Underway,
           GraphThrows, Ended, requests
  <2>9. CASE UNCHANGED vars
    BY <2>9
       DEF GraphInv, TypeOK, AttemptsCountLosses, RequestsAreServed, NothingToRetract, Underway,
           vars, Accepted, Final, Invalid, requests
  <2> QED
    BY <2>1, <2>2, <2>3, <2>4, <2>5, <2>6, <2>7, <2>8, <2>9 DEF Next, Work, Terminated
<1> QED
  BY <1>1, <1>2, PTL DEF Spec

-----------------------------------------------------------------------------
\* The channels of DmState keep their types along every run of the graph.
THEOREM TypeCorrect == Spec => []TypeOK
<1>1. GraphInv => TypeOK
  BY DEF GraphInv
<1> QED
  BY <1>1, GraphInvHolds, PTL

\* validate_output's one counter bounds the bad answers of a turn, whatever
\* rolls and read tools lie between them: the turn fails at the MAX_ATTEMPTS-th
\* and not before.
THEOREM TurnsFailAtTheLastAttempt == Spec => []RetryBudget
<1>1. GraphInv => RetryBudget
  <2> SUFFICES ASSUME GraphInv PROVE RetryBudget
    OBVIOUS
  <2>1. rejected \in Nat /\ attempt \in 0..(MAX_ATTEMPTS - 1) /\ rejected <= attempt + 1
    BY DEF GraphInv, TypeOK, AttemptsCountLosses
  <2> QED
    BY <2>1, GraphAssumption DEF GraphInv, AttemptsCountLosses, RetryBudget, Underway
<1> QED
  BY <1>1, GraphInvHolds, PTL

\* A run that reaches END has a failure or a proposal, never both or neither:
\* the orchestrator's `state.proposal!` is not null.
THEOREM RunsEndWithOneOutcome == Spec => []EndHasOneOutcome
<1>1. GraphInv => EndHasOneOutcome
  BY KindsOfReply DEF GraphInv, TypeOK, AttemptsCountLosses, EndHasOneOutcome
<1> QED
  BY <1>1, GraphInvHolds, PTL

\* The proposal a run ends with is the model's last answer, asks for no tool,
\* and in a recap or rules answer changes nothing.
THEOREM OnlyFinalRepliesAreCommitted == Spec => []CommitsFinalReply
<1>1. GraphInv => CommitsFinalReply
  <2> SUFFICES ASSUME GraphInv, node = "end", failure = "none"
               PROVE  /\ proposal = last
                      /\ proposal.kind = "block" /\ proposal.roll = "none" /\ ~proposal.reads
                      /\ profile = "answer" => ~proposal.changes
    BY DEF CommitsFinalReply
  <2>1. proposal = last /\ Final(last)
    BY DEF GraphInv, AttemptsCountLosses
  <2> QED
    BY <2>1 DEF Final, Accepted, Invalid
<1> QED
  BY <1>1, GraphInvHolds, PTL

\* A run that reaches END has spent its attempts or has its final reply.
THEOREM TurnsEndOnce == Spec => []TurnEndsOnce
BY TurnsFailAtTheLastAttempt, RunsEndWithOneOutcome, OnlyFinalRepliesAreCommitted, PTL DEF TurnEndsOnce

\* call_dm's reset on a retry takes back everything a rejected reply streamed.
THEOREM RejectedProseIsTakenBack == Spec => []RejectedProseIsRetracted
<1>1. GraphInv => RejectedProseIsRetracted
  BY DEF GraphInv, NothingToRetract, RejectedProseIsRetracted
<1> QED
  BY <1>1, GraphInvHolds, PTL

-----------------------------------------------------------------------------
(***************************************************************************)
(* What the model is owed sits in its channel when call_dm is next. With   *)
(* more than two attempts an error after an invalid reply would carry a    *)
(* stale validation error, so the fact is about the code's MAX_ATTEMPTS.   *)
(***************************************************************************)
FeedbackIsHeld ==
  /\ node \in Underway \ {"call_dm"} => validationErrors = FALSE
  /\ node = "call_dm" =>
       /\ validationErrors = Invalid(last)
       /\ Accepted(last) /\ last.roll = "valid" => rollNote = TRUE
       /\ Accepted(last) /\ last.roll = "none" /\ last.reads => toolResults = TRUE
  /\ node = "validate_output" /\ attempt = 0 => validationErrors = Invalid(last)

LEMMA FeedbackIsHeldHolds ==
  ASSUME MAX_ATTEMPTS <= 2
  PROVE  Spec => []FeedbackIsHeld
<1> USE GraphAssumption
<1>1. Init => FeedbackIsHeld
  BY DEF Init, FeedbackIsHeld
<1>2. GraphInv /\ GraphInv' /\ FeedbackIsHeld /\ [Next]_vars => FeedbackIsHeld'
  <2> SUFFICES ASSUME GraphInv, GraphInv', FeedbackIsHeld, [Next]_vars PROVE FeedbackIsHeld'
    OBVIOUS
  <2>1. CASE Prepare
    BY <2>1, KindsOfReply
       DEF FeedbackIsHeld, GraphInv, NothingToRetract, Underway, Prepare, Invalid, Accepted,
           NoReply
  <2>2. ASSUME NEW reply \in Possible, CallDm(reply) PROVE FeedbackIsHeld'
    <3>0. CallDmEffect(reply)
      BY <2>2, CallDmGoes
    <3>1. (Invalid(reply) = Invalid(last)') /\ (Accepted(reply) <=> Accepted(last)')
      BY <3>0 DEF CallDmEffect, Accepted, Invalid
    <3>2. attempt = 0 => ~Invalid(last)
      BY <3>0, KindsOfReply DEF CallDmEffect, GraphInv, NothingToRetract, Underway, Accepted
    <3>3. CASE reply.kind = "error"
      <4>1. node' = "validate_output" /\ validationErrors' = validationErrors /\ attempt' = attempt
            /\ node = "call_dm"
        BY <3>0, <3>3, KindsOfReply DEF CallDmEffect
      <4>2. Invalid(last)' = FALSE
        BY <3>1, <3>3, KindsOfReply
      <4>3. attempt = 0 => validationErrors = FALSE
        BY <3>2, <4>1 DEF FeedbackIsHeld, Invalid
      <4> QED
        BY <4>1, <4>2, <4>3 DEF FeedbackIsHeld, Underway
    <3>4. CASE reply.kind # "error"
      BY <3>0, <3>1, <3>4, <2>2, KindsOfReply DEF CallDmEffect, FeedbackIsHeld, Underway
    <3> QED
      BY <3>3, <3>4
  <2>3. CASE Interrupt
    BY <2>3 DEF FeedbackIsHeld, Underway, Interrupt
  <2>4. CASE ExecuteReadTools
    BY <2>4 DEF FeedbackIsHeld, Underway, ExecuteReadTools, GraphInv, RequestsAreServed, Accepted,
                Invalid
  <2>5. CASE ValidateOutput
    <3>1. /\ UNCHANGED <<profile, validationErrors, last>>
          /\ node = "validate_output" /\ node' \in {"end", "call_dm"}
      BY <2>5, ValidateOutputDecides DEF ValidateOutput
    <3>2. node' = "call_dm" => attempt = 0 /\ ~Accepted(last)
      BY <2>5, ValidateOutputDecides DEF GraphInv, TypeOK
    <3>3. (Invalid(last) = Invalid(last)') /\ (Accepted(last) <=> Accepted(last)')
      BY <3>1 DEF Accepted, Invalid
    <3> QED
      BY <3>1, <3>2, <3>3 DEF FeedbackIsHeld, Underway
  <2>6. CASE Resume
    BY <2>6 DEF FeedbackIsHeld, Underway, Resume, GraphInv, RequestsAreServed, Accepted, Invalid
  <2>7. CASE RecursionLimit
    BY <2>7 DEF FeedbackIsHeld, Underway, RecursionLimit
  <2>8. CASE GraphThrows
    BY <2>8 DEF FeedbackIsHeld, Underway, GraphThrows
  <2>9. CASE UNCHANGED vars
    BY <2>9 DEF FeedbackIsHeld, Underway, vars, Accepted, Invalid
  <2> QED
    BY <2>1, <2>2, <2>3, <2>4, <2>5, <2>6, <2>7, <2>8, <2>9 DEF Next, Work, Terminated
<1> QED
  BY <1>1, <1>2, GraphInvHolds, PTL DEF Spec

\* With the two attempts of the code, the next call of the model carries the
\* validation error exactly when its last reply was invalid, the roll it asked
\* for, and the results of its read tools.
THEOREM FeedbackArrives ==
  ASSUME MAX_ATTEMPTS <= 2
  PROVE  Spec => FeedbackReachesModel
<1>1. FeedbackIsHeld /\ [Next]_vars =>
        [node = "call_dm" /\ node' \in Working \ {"call_dm"} =>
           /\ prompt'.errors <=> Invalid(last)
           /\ Accepted(last) /\ last.roll = "valid" => prompt'.roll
           /\ Accepted(last) /\ last.roll = "none" /\ last.reads => prompt'.tools]_vars
  <2> SUFFICES ASSUME FeedbackIsHeld, Next, node = "call_dm", node' \in Working \ {"call_dm"}
               PROVE  /\ prompt'.errors <=> Invalid(last)
                      /\ Accepted(last) /\ last.roll = "valid" => prompt'.roll
                      /\ Accepted(last) /\ last.roll = "none" /\ last.reads => prompt'.tools
    OBVIOUS
  <2>1. PICK reply \in Possible : CallDm(reply)
    BY DEF Next, Work, Prepare, Interrupt, ExecuteReadTools, ValidateOutput, RecursionLimit,
           GraphThrows, Resume, Terminated, vars, Working, Ended
  <2>2. prompt' = [errors |-> validationErrors, roll |-> rollNote, tools |-> toolResults]
    BY <2>1 DEF CallDm
  <2> QED
    BY <2>2 DEF FeedbackIsHeld
<1> QED
  BY <1>1, FeedbackIsHeldHolds, PTL DEF Spec, FeedbackReachesModel
=============================================================================
