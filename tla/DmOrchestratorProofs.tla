------------------------ MODULE DmOrchestratorProofs ------------------------
(***************************************************************************)
(* Proofs about DmOrchestrator, for any roster, any registry, any number   *)
(* of turns, actions, restarts and refused statements. The argument: a     *)
(* turn asks for at most one roll, so an action, its turn and the call     *)
(* that resumes it are in one-to-one correspondence; therefore no call     *)
(* deletes another's checkpoint or tells another's turn.                   *)
(***************************************************************************)
EXTENDS DmOrchestrator, SequenceTheorems, TLAPS

\* A call that moves on keeps what it is for, and leaves the others alone.
LEMMA GotoEffect ==
  ASSUME tasks \in Seq(Task), NEW i \in DOMAIN tasks, NEW label \in TaskState, Goto(i, label)
  PROVE  /\ tasks' \in Seq(Task)
         /\ Len(tasks') = Len(tasks)
         /\ DOMAIN tasks' = DOMAIN tasks
         /\ \A j \in DOMAIN tasks :
              /\ tasks'[j].kind = tasks[j].kind /\ tasks'[j].action = tasks[j].action
              /\ tasks'[j].pc = IF j = i THEN label ELSE tasks[j].pc
<1>1. DOMAIN tasks' = DOMAIN tasks /\ tasks'[i] = [tasks[i] EXCEPT !.pc = label]
      /\ \A j \in DOMAIN tasks : j # i => tasks'[j] = tasks[j]
  BY DEF Goto
<1>2. tasks \in [1..Len(tasks) -> Task] /\ Len(tasks) \in Nat /\ DOMAIN tasks = 1..Len(tasks)
  BY LenProperties
<1>3. tasks[i] \in Task
  BY <1>2
<1>4. tasks'[i] = [kind |-> tasks[i].kind, action |-> tasks[i].action, pc |-> label]
  BY <1>1, <1>3 DEF Task
<1>5. tasks' \in [1..Len(tasks) -> Task]
  BY <1>2 DEF Goto, Task
<1>6. tasks' \in Seq(Task)
  BY <1>2, <1>5, SeqDef
<1>7. Len(tasks') = Len(tasks)
  BY <1>1, <1>2, <1>6, LenProperties
<1> QED
  BY <1>1, <1>4, <1>6, <1>7

\* A new call is the last one; the calls before it are untouched.
LEMMA CallEffect ==
  ASSUME tasks \in Seq(Task), MaxTasks \in Nat,
         NEW kind \in {"start", "resume", "ended"}, NEW action \in Nat, Call(kind, action)
  PROVE  /\ tasks' \in Seq(Task)
         /\ Len(tasks') = Len(tasks) + 1 /\ Len(tasks') <= MaxTasks
         /\ DOMAIN tasks' = DOMAIN tasks \cup {Len(tasks) + 1}
         /\ Len(tasks) + 1 \notin DOMAIN tasks
         /\ \A j \in DOMAIN tasks : tasks'[j] = tasks[j]
         /\ tasks'[Len(tasks) + 1].kind = kind /\ tasks'[Len(tasks) + 1].action = action
         /\ tasks'[Len(tasks) + 1].pc = "triggered"
<1> DEFINE t == [kind |-> kind, action |-> action, pc |-> "triggered"]
<1>1. t \in Task /\ t.kind = kind /\ t.action = action /\ t.pc = "triggered"
  BY DEF Task, TaskState
<1>2. tasks' = Append(tasks, t) /\ Len(tasks) < MaxTasks
  BY DEF Call
<1> HIDE DEF t
<1>3. tasks' \in Seq(Task) /\ Len(tasks') = Len(tasks) + 1 /\ tasks'[Len(tasks) + 1] = t
      /\ \A j \in 1..Len(tasks) : tasks'[j] = tasks[j]
  BY <1>1, <1>2, AppendProperties
<1>4. Len(tasks) \in Nat /\ DOMAIN tasks = 1..Len(tasks) /\ DOMAIN tasks' = 1..(Len(tasks) + 1)
  BY <1>3, LenProperties
<1> QED
  BY <1>1, <1>2, <1>3, <1>4

\* A new action is the last row; the rows before it are untouched.
LEMMA OpenActionEffect ==
  ASSUME actions \in Seq(PendingAction), NEW thread \in Turn \cup {NoThread},
         NEW ids \in SUBSET (Character \cup Named), OpenAction(thread, ids)
  PROVE  /\ actions' \in Seq(PendingAction)
         /\ Len(actions) + 1 \in Nat
         /\ DOMAIN actions' = DOMAIN actions \cup {Len(actions) + 1}
         /\ Len(actions) + 1 \notin DOMAIN actions
         /\ \A a \in DOMAIN actions : actions'[a] = actions[a]
         /\ actions'[Len(actions) + 1].open /\ actions'[Len(actions) + 1].thread = thread
         /\ actions'[Len(actions) + 1].authorized = ids
<1> DEFINE r == [open |-> TRUE, thread |-> thread, authorized |-> ids]
<1>1. r \in PendingAction /\ r.open /\ r.thread = thread /\ r.authorized = ids
  BY DEF PendingAction
<1>2. actions' = Append(actions, r)
  BY DEF OpenAction
<1> HIDE DEF r
<1>3. actions' \in Seq(PendingAction) /\ Len(actions') = Len(actions) + 1
      /\ actions'[Len(actions) + 1] = r /\ \A a \in 1..Len(actions) : actions'[a] = actions[a]
  BY <1>1, <1>2, AppendProperties
<1>4. Len(actions) \in Nat /\ DOMAIN actions = 1..Len(actions)
      /\ DOMAIN actions' = 1..(Len(actions) + 1)
  BY <1>3, LenProperties
<1> QED
  BY <1>1, <1>3, <1>4

\* Closing rows writes their open column and nothing else.
LEMMA CompletedEffect ==
  ASSUME actions \in Seq(PendingAction), NEW closed \in SUBSET DOMAIN actions,
         actions' = Completed(closed)
  PROVE  /\ actions' \in Seq(PendingAction)
         /\ DOMAIN actions' = DOMAIN actions
         /\ \A a \in DOMAIN actions :
              /\ actions'[a].thread = actions[a].thread
              /\ actions'[a].authorized = actions[a].authorized
              /\ actions'[a].open <=> actions[a].open /\ a \notin closed
<1>1. \A a \in DOMAIN actions : actions[a] \in PendingAction
  BY ElementOfSeq
<1>2. DOMAIN actions = 1..Len(actions) /\ Len(actions) \in Nat
  BY LenProperties
<1>3. actions' \in [1..Len(actions) -> PendingAction]
  BY <1>1, <1>2 DEF Completed, PendingAction
<1>4. actions' \in Seq(PendingAction)
  BY <1>2, <1>3, SeqDef
<1> QED
  BY <1>1, <1>4 DEF Completed, PendingAction

\* A restart loses the calls under way and keeps what is over.
LEMMA LostEffect ==
  ASSUME tasks \in Seq(Task), tasks' = Lost
  PROVE  /\ tasks' \in Seq(Task)
         /\ DOMAIN tasks' = DOMAIN tasks /\ Len(tasks') = Len(tasks)
         /\ \A j \in DOMAIN tasks :
              /\ tasks'[j].kind = tasks[j].kind /\ tasks'[j].action = tasks[j].action
              /\ tasks'[j].pc = IF tasks[j].pc \in Over THEN tasks[j].pc ELSE "lost"
<1>1. \A j \in DOMAIN tasks : tasks[j] \in Task
  BY ElementOfSeq
<1>2. DOMAIN tasks = 1..Len(tasks) /\ Len(tasks) \in Nat
  BY LenProperties
<1>3. tasks' \in [1..Len(tasks) -> Task]
  BY <1>1, <1>2 DEF Lost, Task, TaskState, Over
<1>4. tasks' \in Seq(Task)
  BY <1>2, <1>3, SeqDef
<1>5. Len(tasks') = Len(tasks)
  BY <1>2, <1>3, <1>4, LenProperties
<1> QED
  BY <1>1, <1>3, <1>4, <1>5 DEF Lost, Task

-----------------------------------------------------------------------------
(***************************************************************************)
(* Which call works on which turn. Idle calls have not begun or are over;  *)
(* a call that resumes is the only one for its action, which is closed; a  *)
(* turn that has asked for a roll is past its first run; an action parks   *)
(* a turn that has asked, and no two actions park the same one.            *)
(***************************************************************************)
Idle == {"triggered", "done", "lost"}

CallOK(i) ==
  /\ tasks[i].kind = "resume" =>
       tasks[i].action \in DOMAIN actions /\ ~actions[tasks[i].action].open
  /\ tasks[i].kind = "ended" => tasks[i].pc \in Idle /\ status = "SESSION_ENDED"
  /\ tasks[i].pc \notin Idle => TurnOf(i) # NoThread
  /\ i \in asked => tasks[i].kind = "start" /\ tasks[i].pc \in {"parked", "done", "lost"}

CallsInv ==
  /\ Len(tasks) <= MaxTasks
  /\ asked \subseteq DOMAIN tasks
  /\ \A i \in DOMAIN tasks : CallOK(i)
  /\ \A i, j \in DOMAIN tasks :
       tasks[i].kind = "resume" /\ tasks[j].kind = "resume"
         /\ tasks[i].action = tasks[j].action => i = j
  /\ \A a \in DOMAIN actions : actions[a].thread # NoThread => actions[a].thread \in asked
  /\ \A a, b \in DOMAIN actions :
       actions[a].thread # NoThread /\ actions[a].thread = actions[b].thread => a = b

\* What TypeOK says of one call and one action.
LEMMA ElementTypes ==
  ASSUME TypeOK
  PROVE  /\ \A i \in DOMAIN tasks : tasks[i] \in Task
         /\ \A a \in DOMAIN actions : actions[a] \in PendingAction
         /\ DOMAIN tasks = 1..Len(tasks) /\ Len(tasks) \in Nat
         /\ DOMAIN actions = 1..Len(actions) /\ Len(actions) \in Nat
BY ElementOfSeq, LenProperties DEF TypeOK

\* A call that is at work works on a turn.
LEMMA WorkingTurn ==
  ASSUME TypeOK, CallsInv, NEW i \in DOMAIN tasks
  PROVE  /\ i \in Turn
         /\ tasks[i].kind \in {"start", "resume"} => TurnOf(i) \in Turn \cup {NoThread}
         /\ tasks[i].pc \notin Idle => tasks[i].kind \in {"start", "resume"} /\ TurnOf(i) \in Turn
<1>1. i \in Turn
  BY ElementTypes, GatewayAssumption DEF CallsInv, Turn
<1>2. tasks[i].kind = "resume" => actions[tasks[i].action].thread \in Turn \cup {NoThread}
  BY ElementTypes DEF CallsInv, CallOK, PendingAction
<1> QED
  BY <1>1, <1>2, ElementTypes DEF CallsInv, CallOK, TurnOf, Task

\* The end of the session is final: no row of the table leads out of it.
LEMMA EndIsFinal ==
  ASSUME [Next]_vars, status = "SESSION_ENDED"
  PROVE  status' = "SESSION_ENDED"
BY DEF Next, GatewayNext, Step, Terminated, vars, sessionRow, dm, SetStatus, CanTransition,
       TRANSITIONS, AcceptsMutations, SendMessage, RollDice, RequestRoll, Pause, Resume, End,
       ForceDmTurn, OnTriggered, NoProvider, Sourced, EnsureGraph, StartTurn, StartRefused,
       ParkForRoll, ParkRefused, ParkMalformed, Fault, ParkReplayed, Commit, TurnFails, ReportFailure, ReportRefused,
       Finally, OnSessionEnded, DatabaseError, Restart

\* The states of a call that may yet tell its turn.
Untold == {"triggered", "sourcing", "unsourced", "preparing", "starting", "invoking", "failing"}

\* Only a call that has a provider's answer, or none to have, tells a turn: its own.
Tells(i) ==
  /\ tasks[i].pc \in {"unsourced", "invoking", "failing"}
  /\ \A t \in Turn : told'[t] = told[t] \/ (t = TurnOf(i) /\ told'[t] = told[t] + 1)

\* The moves of a call: it stays idle or keeps its turn, a turn that has asked
\* stays past its first run, and a call that tells its turn tells no more.
Move(i, label) ==
  /\ Goto(i, label)
  /\ UNCHANGED <<actions, asked>>
  /\ label \notin Idle => TurnOf(i) # NoThread /\ tasks[i].kind # "ended"
  /\ i \in asked => label \in {"parked", "done", "lost"}
  /\ label \in Untold => tasks[i].pc \in Untold
  /\ told' = told \/ (Tells(i) /\ label \notin Untold)

\* Every step of a call is a move, except the one that opens an action.
LEMMA StepsAreMoves ==
  ASSUME TypeOK, CallsInv, NEW i \in DOMAIN tasks, Step(i) \/ DatabaseError(i)
  PROVE  \/ \E label \in TaskState : Move(i, label)
         \/ \E ids \in (SUBSET Named) \ {{}} : ParkForRoll(i, ids)
<1> DEFINE Moves == \E label \in TaskState : Move(i, label)
<1>0. CallOK(i) /\ (tasks[i].pc \notin Idle => tasks[i].kind # "ended" /\ TurnOf(i) # NoThread)
  BY WorkingTurn DEF CallsInv, CallOK
<1> USE <1>0 DEF CallOK, Idle, Move, TaskState, Over, Running, dm, sessionRow, Untold
<1>1. CASE OnTriggered(i)
  BY <1>1 DEF OnTriggered
<1>2. CASE NoProvider(i)
  BY <1>2 DEF NoProvider
<1>3. CASE Sourced(i)
  BY <1>3 DEF Sourced
<1>4. CASE EnsureGraph(i)
  BY <1>4 DEF EnsureGraph
<1>5. CASE StartTurn(i)
  BY <1>5 DEF StartTurn
<1>6. CASE StartRefused(i)
  BY <1>6 DEF StartRefused
<1>7. CASE ParkRefused(i)
  BY <1>7 DEF ParkRefused, Invoked
<1>16. ASSUME NEW ids \in (SUBSET Named) \ {{}}, ParkMalformed(i, ids) PROVE Moves
  BY <1>16 DEF ParkMalformed, Invoked
<1>8. CASE ParkReplayed(i)
  BY <1>8 DEF ParkReplayed, Invoked
<1>9. CASE Commit(i)
  <2>1. Tells(i)
    BY <1>9 DEF Commit, Invoked, Tells, TypeOK
  <2> QED
    BY <1>9, <2>1 DEF Commit, Invoked
<1>10. CASE TurnFails(i)
  BY <1>10 DEF TurnFails
<1>11. CASE ReportFailure(i)
  <2>1. Tells(i)
    BY <1>11 DEF ReportFailure, Reporting, Reported, Tells, TypeOK
  <2> QED
    BY <1>11, <2>1 DEF ReportFailure, Reporting, AfterReport
<1>12. CASE ReportRefused(i)
  BY <1>12 DEF ReportRefused, Reporting, AfterReport
<1>13. CASE Finally(i)
  BY <1>13 DEF Finally
<1>14. CASE OnSessionEnded(i)
  BY <1>14 DEF OnSessionEnded
<1>15. CASE DatabaseError(i)
  BY <1>15 DEF DatabaseError, Invoked, Reporting, AfterReport
<1> QED
  BY <1>1, <1>2, <1>3, <1>4, <1>5, <1>6, <1>7, <1>8, <1>9, <1>10, <1>11, <1>12, <1>13,
     <1>14, <1>15, <1>16 DEF Step

\* A step of a call keeps the types.
LEMMA StepKeepsTypes ==
  ASSUME TypeOK, CallsInv, NEW i \in DOMAIN tasks, Step(i) \/ DatabaseError(i)
  PROVE  TypeOK'
<1>1. i \in Turn /\ (tasks[i].pc \notin Idle => TurnOf(i) \in Turn)
  BY WorkingTurn
<1>2. tasks' \in Seq(Task) /\ actions' \in Seq(PendingAction)
  <2>1. ASSUME NEW label \in TaskState, Move(i, label)
        PROVE  tasks' \in Seq(Task) /\ actions' \in Seq(PendingAction)
    BY <2>1, GotoEffect DEF Move, TypeOK
  <2>2. ASSUME NEW ids \in (SUBSET Named) \ {{}}, ParkForRoll(i, ids)
        PROVE  tasks' \in Seq(Task) /\ actions' \in Seq(PendingAction)
    <3>1. tasks[i].pc \notin Idle /\ "parked" \in TaskState
      BY <2>2 DEF ParkForRoll, Invoked, Idle, TaskState, Running
    <3> QED
      BY <1>1, <2>2, <3>1, GotoEffect, OpenActionEffect DEF ParkForRoll, TypeOK
  <2> QED
    BY <2>1, <2>2, StepsAreMoves
<1>3. status' \in Status /\ pausedFrom' \in Status \cup {NotPaused}
  BY DEF Step, DatabaseError, TypeOK, OnTriggered, NoProvider, Sourced, EnsureGraph, StartTurn,
         StartRefused, ParkForRoll, ParkRefused, ParkMalformed, Fault, ParkReplayed, Commit, TurnFails, ReportFailure,
         ReportRefused, Finally, OnSessionEnded, SetStatus, Status, sessionRow
<1>4. active' \in Turn \cup {NoTurn}
  BY <1>1 DEF Step, DatabaseError, TypeOK, OnTriggered, NoProvider, Sourced, EnsureGraph,
         StartTurn, StartRefused, ParkForRoll, ParkRefused, ParkMalformed, Fault, ParkReplayed, Commit, TurnFails,
         ReportFailure, ReportRefused, Finally, OnSessionEnded, dm, Idle
<1>5. checkpointer' = checkpointer \/ checkpointer' = TRUE
  BY DEF Step, DatabaseError, TypeOK, OnTriggered, NoProvider, Sourced, EnsureGraph,
         StartTurn, StartRefused, ParkForRoll, ParkRefused, ParkMalformed, Fault, ParkReplayed, Commit, TurnFails,
         ReportFailure, ReportRefused, Finally, OnSessionEnded, dm
<1>6. faults' \in Nat
  BY DEF Step, DatabaseError, TypeOK, OnTriggered, NoProvider, Sourced, EnsureGraph,
         StartTurn, StartRefused, ParkForRoll, ParkRefused, ParkMalformed, Fault, ParkReplayed, Commit, TurnFails,
         ReportFailure, ReportRefused, Finally, OnSessionEnded, dm
<1>7. threads' \subseteq Turn /\ asked' \subseteq Turn
  BY <1>1 DEF Step, DatabaseError, TypeOK, OnTriggered, NoProvider, Sourced, EnsureGraph,
         StartTurn, StartRefused, ParkForRoll, ParkRefused, ParkMalformed, Fault, ParkReplayed, Commit, TurnFails,
         ReportFailure, ReportRefused, Finally, OnSessionEnded, Forget, dm, Idle, Invoked
<1>8. told' \in [Turn -> Nat]
  BY <1>1 DEF Step, DatabaseError, TypeOK, OnTriggered, NoProvider, Sourced, EnsureGraph,
         StartTurn, StartRefused, ParkForRoll, ParkRefused, ParkMalformed, Fault, ParkReplayed, Commit, TurnFails,
         ReportFailure, ReportRefused, Finally, OnSessionEnded, dm
<1> QED
  BY <1>2, <1>3, <1>4, <1>5, <1>6, <1>7, <1>8 DEF TypeOK

\* What a roll closes are rows of the table, and the one it reports is one of them.
LEMMA RollEffect ==
  ASSUME TypeOK, NEW c \in Character, RollDice(c)
  PROVE  /\ actions' \in Seq(PendingAction) /\ DOMAIN actions' = DOMAIN actions
         /\ \A a \in DOMAIN actions :
              /\ actions'[a].thread = actions[a].thread
              /\ actions'[a].authorized = actions[a].authorized
              /\ actions'[a].open <=> actions[a].open /\ a \notin OpenFor(c)
         /\ \/ UNCHANGED tasks
            \/ \E first \in OpenFor(c) : Call("resume", first)
         /\ \A a \in OpenFor(c) : a \in DOMAIN actions /\ a \in Nat /\ actions[a].open
BY CompletedEffect, ElementTypes DEF RollDice, OpenFor, TypeOK

\* A command of the gateway keeps the types.
LEMMA GatewayKeepsTypes ==
  ASSUME TypeOK, GatewayNext, UNCHANGED <<dm, faults>>
  PROVE  TypeOK'
<1>1. /\ active' \in Turn \cup {NoTurn} /\ checkpointer' = checkpointer
      /\ threads' \subseteq Turn /\ asked' \subseteq Turn /\ told' \in [Turn -> Nat]
      /\ faults' \in Nat
  BY DEF dm, TypeOK
<1>2. status' \in Status /\ pausedFrom' \in Status \cup {NotPaused}
  BY DEF GatewayNext, TypeOK, SendMessage, RollDice, RequestRoll, Pause, Resume, End, ForceDmTurn,
         SetStatus, Status, sessionRow
<1>3. MaxTasks \in Nat
  BY GatewayAssumption
<1>4. tasks' \in Seq(Task)
  <2>1. ASSUME NEW c \in Character, RollDice(c) PROVE tasks' \in Seq(Task)
    BY <1>3, <2>1, RollEffect, CallEffect DEF TypeOK
  <2> QED
    BY <1>3, <2>1, CallEffect
       DEF GatewayNext, TypeOK, SendMessage, RequestRoll, Pause, Resume, End, ForceDmTurn
<1>5. actions' \in Seq(PendingAction)
  <2>1. ASSUME NEW c \in Character, RollDice(c) PROVE actions' \in Seq(PendingAction)
    BY <2>1, RollEffect
  <2>2. ASSUME NEW ids \in SUBSET (Character \cup {Forged}), RequestRoll(ids)
        PROVE  actions' \in Seq(PendingAction)
    <3>1. ids \in SUBSET (Character \cup Named) /\ OpenAction(NoThread, ids)
      BY <2>2 DEF RequestRoll
    <3> QED
      BY <3>1, OpenActionEffect DEF TypeOK
  <2> QED
    BY <2>1, <2>2 DEF GatewayNext, TypeOK, SendMessage, Pause, Resume, End, ForceDmTurn
<1> QED
  BY <1>1, <1>2, <1>4, <1>5 DEF TypeOK

\* A restart keeps the types.
LEMMA RestartKeepsTypes ==
  ASSUME TypeOK, Restart
  PROVE  TypeOK'
<1>1. tasks' \in Seq(Task)
  BY LostEffect DEF Restart, TypeOK
<1>2. UNCHANGED <<status, pausedFrom, actions, asked, told>>
  BY DEF Restart, sessionRow
<1>3. threads' \subseteq threads /\ active' = NoTurn /\ faults' = faults + 1
  BY DEF Restart, ProcessDies, Fault
<1>4. checkpointer' \in BOOLEAN
  BY DEF Restart, ProcessDies
<1>5. /\ status' \in Status /\ pausedFrom' \in Status \cup {NotPaused}
      /\ actions' \in Seq(PendingAction) /\ asked' \subseteq Turn
      /\ told' \in [Turn -> Nat]
  BY <1>2 DEF TypeOK
<1>6. threads' \subseteq Turn /\ active' \in Turn \cup {NoTurn} /\ faults' \in Nat
  BY <1>3 DEF TypeOK
<1> QED
  BY <1>1, <1>4, <1>5, <1>6 DEF TypeOK

-----------------------------------------------------------------------------
(***************************************************************************)
(* CallsInv, step by step.                                                 *)
(***************************************************************************)

\* A move keeps the correspondence of calls, turns and actions.
LEMMA MoveKeepsCalls ==
  ASSUME TypeOK, CallsInv, NEW i \in DOMAIN tasks, NEW label \in TaskState, Move(i, label),
         status = "SESSION_ENDED" => status' = "SESSION_ENDED"
  PROVE  CallsInv'
<1>1. /\ DOMAIN tasks' = DOMAIN tasks /\ Len(tasks') = Len(tasks)
      /\ \A j \in DOMAIN tasks :
           /\ tasks'[j].kind = tasks[j].kind /\ tasks'[j].action = tasks[j].action
           /\ tasks'[j].pc = IF j = i THEN label ELSE tasks[j].pc
      /\ actions' = actions /\ asked' = asked
  BY GotoEffect DEF Move, TypeOK
<1>2. ASSUME NEW j \in DOMAIN tasks PROVE CallOK(j)'
  <2>1. CallOK(j) /\ TurnOf(j)' = TurnOf(j)
    BY <1>1 DEF CallsInv, TurnOf
  <2> QED
    BY <1>1, <2>1 DEF CallOK, Move
<1> QED
  BY <1>1, <1>2 DEF CallsInv

\* So does the opening of an action by a turn that had not asked before.
LEMMA ParkKeepsCalls ==
  ASSUME TypeOK, CallsInv, NEW i \in DOMAIN tasks,
         NEW ids \in (SUBSET Named) \ {{}}, ParkForRoll(i, ids)
  PROVE  CallsInv'
<1> DEFINE n == Len(actions) + 1
<1>1. /\ tasks[i].pc = "invoking" /\ TurnOf(i) \in Turn /\ TurnOf(i) \notin asked
      /\ asked' = asked \cup {TurnOf(i)} /\ status' = "WAITING_FOR_ROLL"
      /\ status # "SESSION_ENDED"
  BY WorkingTurn DEF ParkForRoll, Invoked, Idle, SetStatus, AcceptsMutations
<1>2. tasks[i].kind = "start" /\ TurnOf(i) = i
  <2>1. tasks[i].kind = "resume" => TurnOf(i) \in asked
    BY <1>1 DEF CallsInv, CallOK, TurnOf, NoThread, Turn
  <2> QED
    BY <1>1, <2>1, WorkingTurn DEF Idle, TurnOf
<1>3. /\ DOMAIN tasks' = DOMAIN tasks /\ Len(tasks') = Len(tasks)
      /\ \A j \in DOMAIN tasks :
           /\ tasks'[j].kind = tasks[j].kind /\ tasks'[j].action = tasks[j].action
           /\ tasks'[j].pc = IF j = i THEN "parked" ELSE tasks[j].pc
  BY GotoEffect DEF ParkForRoll, TypeOK, TaskState, Running
<1>4. /\ DOMAIN actions' = DOMAIN actions \cup {n} /\ n \notin DOMAIN actions
      /\ \A a \in DOMAIN actions : actions'[a] = actions[a]
      /\ actions'[n].thread = i
  <2>1. i \in Turn \cup {NoThread} /\ ids \in SUBSET (Character \cup Named) /\ OpenAction(i, ids)
    BY <1>1, <1>2 DEF ParkForRoll
  <2> QED
    BY <2>1, OpenActionEffect DEF TypeOK
<1>5. ASSUME NEW j \in DOMAIN tasks PROVE CallOK(j)'
  <2>1. CallOK(j) /\ (TurnOf(j)' = TurnOf(j) \/ tasks[j].kind = "ended")
    BY <1>3, <1>4, ElementTypes DEF CallsInv, CallOK, TurnOf, Task
  <2> QED
    BY <1>1, <1>2, <1>3, <1>4, <2>1 DEF CallsInv, CallOK, Idle
<1>6. \A a \in DOMAIN actions' : actions'[a].thread # NoThread => actions'[a].thread \in asked'
  BY <1>1, <1>2, <1>4 DEF CallsInv
<1>7. \A a, b \in DOMAIN actions' :
        actions'[a].thread # NoThread /\ actions'[a].thread = actions'[b].thread => a = b
  BY <1>1, <1>2, <1>4 DEF CallsInv
<1> QED
  BY <1>1, <1>2, <1>3, <1>5, <1>6, <1>7 DEF CallsInv

\* A command adds a call, closes actions and resumes one of them, or opens an
\* action that parks no turn.
LEMMA GatewayKeepsCalls ==
  ASSUME TypeOK, CallsInv, GatewayNext, UNCHANGED <<dm, faults>>,
         status = "SESSION_ENDED" => status' = "SESSION_ENDED"
  PROVE  CallsInv'
<1> USE GatewayAssumption
<1> PICK n \in Nat : n = Len(tasks) + 1
  BY ElementTypes
<1>0. asked' = asked /\ asked \subseteq DOMAIN tasks
  BY DEF dm, CallsInv
<1>1. ASSUME UNCHANGED <<actions, tasks>> PROVE CallsInv'
  <2>1. \A j \in DOMAIN tasks : CallOK(j)' /\ TurnOf(j)' = TurnOf(j)
    BY <1>0, <1>1 DEF CallsInv, CallOK, TurnOf
  <2> QED
    BY <1>0, <1>1, <2>1 DEF CallsInv
<1>2. ASSUME NEW kind \in {"start", "ended"}, Call(kind, 0), UNCHANGED actions,
             kind = "ended" => status' = "SESSION_ENDED"
      PROVE  CallsInv'
  <2>1. /\ Len(tasks') <= MaxTasks /\ DOMAIN tasks' = DOMAIN tasks \cup {n} /\ n \notin DOMAIN tasks
        /\ \A j \in DOMAIN tasks : tasks'[j] = tasks[j]
        /\ tasks'[n].kind = kind /\ tasks'[n].pc = "triggered"
    <3>1. kind \in {"start", "resume", "ended"} /\ 0 \in Nat
      OBVIOUS
    <3> QED
      BY <1>2, <3>1, CallEffect DEF TypeOK
  <2>2. ASSUME NEW j \in DOMAIN tasks PROVE CallOK(j)'
    <3>1. CallOK(j) /\ TurnOf(j)' = TurnOf(j)
      BY <1>2, <2>1 DEF CallsInv, TurnOf
    <3> QED
      BY <1>0, <1>2, <2>1, <3>1 DEF CallOK
  <2>3. CallOK(n)'
    BY <1>0, <1>2, <2>1 DEF CallOK, Idle
  <2> QED
    BY <1>0, <1>2, <2>1, <2>2, <2>3 DEF CallsInv
<1>3. ASSUME NEW c \in Character, RollDice(c) PROVE CallsInv'
  <2>1. /\ DOMAIN actions' = DOMAIN actions
        /\ \A a \in DOMAIN actions :
             /\ actions'[a].thread = actions[a].thread
             /\ actions'[a].open <=> actions[a].open /\ a \notin OpenFor(c)
        /\ \A a \in OpenFor(c) : a \in DOMAIN actions /\ a \in Nat /\ actions[a].open
    BY <1>3, RollEffect
  <2>2. /\ \A a \in DOMAIN actions' : actions'[a].thread # NoThread => actions'[a].thread \in asked'
        /\ \A a, b \in DOMAIN actions' :
             actions'[a].thread # NoThread /\ actions'[a].thread = actions'[b].thread => a = b
    BY <1>0, <2>1 DEF CallsInv
  <2>3. ASSUME NEW j \in DOMAIN tasks, tasks'[j] = tasks[j] PROVE CallOK(j)'
    <3>1. CallOK(j)
      BY DEF CallsInv
    <3>2. TurnOf(j)' = TurnOf(j) \/ tasks[j].kind = "ended"
      BY <2>1, <2>3, <3>1, ElementTypes DEF CallOK, TurnOf, Task
    <3> QED
      BY <1>0, <1>3, <2>1, <2>3, <3>1, <3>2 DEF CallOK
  <2>4. CASE UNCHANGED tasks
    BY <1>0, <2>2, <2>3, <2>4 DEF CallsInv
  <2>5. ASSUME NEW first \in OpenFor(c), Call("resume", first) PROVE CallsInv'
    <3>1. /\ Len(tasks') <= MaxTasks /\ DOMAIN tasks' = DOMAIN tasks \cup {n} /\ n \notin DOMAIN tasks
          /\ \A j \in DOMAIN tasks : tasks'[j] = tasks[j]
          /\ tasks'[n].kind = "resume" /\ tasks'[n].action = first /\ tasks'[n].pc = "triggered"
      BY <2>1, <2>5, CallEffect DEF TypeOK
    <3>2. CallOK(n)'
      BY <1>0, <2>1, <2>5, <3>1 DEF CallOK, Idle
    <3>3. \A j \in DOMAIN tasks : tasks[j].kind = "resume" => tasks[j].action # first
      BY <2>1, <2>5 DEF CallsInv, CallOK
    <3> QED
      BY <1>0, <2>2, <2>3, <3>1, <3>2, <3>3 DEF CallsInv
  <2> QED
    BY <1>3, <2>4, <2>5, RollEffect
<1>4. ASSUME NEW ids \in SUBSET (Character \cup {Forged}), RequestRoll(ids) PROVE CallsInv'
  <2>1. ids \in SUBSET (Character \cup Named) /\ OpenAction(NoThread, ids) /\ UNCHANGED tasks
    BY <1>4 DEF RequestRoll
  <2>2. /\ DOMAIN actions' = DOMAIN actions \cup {Len(actions) + 1}
        /\ Len(actions) + 1 \notin DOMAIN actions
        /\ \A a \in DOMAIN actions : actions'[a] = actions[a]
        /\ actions'[Len(actions) + 1].thread = NoThread
    <3>1. NoThread \in Turn \cup {NoThread}
      OBVIOUS
    <3> QED
      BY <2>1, <3>1, OpenActionEffect DEF TypeOK
  <2>3. ASSUME NEW j \in DOMAIN tasks PROVE CallOK(j)'
    <3>1. CallOK(j)
      BY DEF CallsInv
    <3>2. TurnOf(j)' = TurnOf(j) \/ tasks[j].kind = "ended"
      BY <2>1, <2>2, <3>1, ElementTypes DEF CallOK, TurnOf, Task
    <3> QED
      BY <1>0, <1>4, <2>1, <2>2, <3>1, <3>2 DEF CallOK
  <2> QED
    BY <1>0, <2>1, <2>2, <2>3 DEF CallsInv
<1> QED
  BY <1>1, <1>2, <1>3, <1>4
     DEF GatewayNext, SendMessage, Pause, Resume, End, ForceDmTurn, SetStatus

\* A restart leaves every call idle or over.
LEMMA RestartKeepsCalls ==
  ASSUME TypeOK, CallsInv, Restart
  PROVE  CallsInv'
<1>1. /\ DOMAIN tasks' = DOMAIN tasks /\ Len(tasks') = Len(tasks)
      /\ \A j \in DOMAIN tasks :
           /\ tasks'[j].kind = tasks[j].kind /\ tasks'[j].action = tasks[j].action
           /\ tasks'[j].pc = IF tasks[j].pc \in Over THEN tasks[j].pc ELSE "lost"
  BY LostEffect DEF Restart, TypeOK
<1>2. actions' = actions /\ asked' = asked /\ status' = status
  BY DEF Restart, sessionRow
<1>3. ASSUME NEW j \in DOMAIN tasks PROVE CallOK(j)'
  <2>1. CallOK(j) /\ TurnOf(j)' = TurnOf(j)
    BY <1>1, <1>2 DEF CallsInv, TurnOf
  <2> QED
    BY <1>1, <1>2, <2>1 DEF CallOK, Idle, Over
<1> QED
  BY <1>1, <1>2, <1>3 DEF CallsInv

\* Types and correspondence hold together: each needs the other.
LEMMA CallsAreKept ==
  ASSUME TypeOK, CallsInv, [Next]_vars
  PROVE  TypeOK' /\ CallsInv'
<1>1. status = "SESSION_ENDED" => status' = "SESSION_ENDED"
  BY EndIsFinal
<1>2. ASSUME NEW i \in DOMAIN tasks, Step(i) \/ DatabaseError(i) PROVE TypeOK' /\ CallsInv'
  BY <1>1, <1>2, StepKeepsTypes, StepsAreMoves, MoveKeepsCalls, ParkKeepsCalls
<1>3. CASE GatewayNext /\ UNCHANGED <<dm, faults>>
  BY <1>1, <1>3, GatewayKeepsTypes, GatewayKeepsCalls
<1>4. CASE Restart
  BY <1>4, RestartKeepsTypes, RestartKeepsCalls
<1>5. CASE UNCHANGED vars
  BY <1>5 DEF vars, TypeOK, CallsInv, CallOK, TurnOf
<1> QED
  BY <1>2, <1>3, <1>4, <1>5 DEF Next, Terminated

LEMMA CallsCorrespond == Spec => [](TypeOK /\ CallsInv)
<1>1. Init => TypeOK /\ CallsInv
  <2> SUFFICES ASSUME Init PROVE TypeOK /\ CallsInv
    OBVIOUS
  <2>1. DOMAIN tasks = {} /\ DOMAIN actions = {} /\ Len(tasks) = 0
        /\ tasks \in Seq(Task) /\ actions \in Seq(PendingAction)
    BY DEF Init, GatewayInit
  <2>2. told \in [Turn -> Nat]
    BY DEF Init
  <2>3. status \in Status /\ pausedFrom \in Status \cup {NotPaused}
    BY DEF Init, GatewayInit, Status
  <2>4. checkpointer \in BOOLEAN
    BY DEF Init
  <2>5. TypeOK
    BY <2>1, <2>2, <2>3, <2>4 DEF Init, TypeOK
  <2>6. CallsInv
    BY <2>1, GatewayAssumption DEF Init, CallsInv
  <2> QED
    BY <2>5, <2>6
<1>2. TypeOK /\ CallsInv /\ [Next]_vars => (TypeOK /\ CallsInv)'
  BY CallsAreKept
<1> QED
  BY <1>1, <1>2, PTL DEF Spec

\* Every variable stays within the columns, handlers and states of the code.
THEOREM TypeCorrect == Spec => []TypeOK
BY CallsCorrespond, PTL

-----------------------------------------------------------------------------
(***************************************************************************)
(* The pause and the wait. Only a pause sets paused_from; only the opening *)
(* of an action starts a wait, and whoever closes one ends it.             *)
(***************************************************************************)

\* A row a turn or a command moved, other than by a pause or out of one.
RowMove ==
  \/ UNCHANGED sessionRow
  \/ \E to \in Status \ {"PAUSED"} : SetStatus(to, NotPaused)

\* Every step but the host's pause sets paused_from to null when it moves the row.
LEMMA RowMoves ==
  ASSUME TypeOK, [Next]_vars
  PROVE  \/ RowMove
         \/ Pause
         \/ Resume
<1>1. ASSUME NEW i \in DOMAIN tasks, Step(i) \/ DatabaseError(i) PROVE RowMove
  BY <1>1 DEF RowMove, Status, Step, DatabaseError, OnTriggered, NoProvider, Sourced, EnsureGraph,
         StartTurn, StartRefused, ParkForRoll, ParkRefused, ParkMalformed, Fault, ParkReplayed, Commit, TurnFails,
         ReportFailure, ReportRefused, Finally, OnSessionEnded, sessionRow
<1>2. CASE GatewayNext
  BY <1>2 DEF GatewayNext, RowMove, Status, SendMessage, RollDice, RequestRoll, End, ForceDmTurn,
         sessionRow
<1>3. CASE Restart \/ UNCHANGED vars
  BY <1>3 DEF RowMove, Restart, vars, sessionRow
<1> QED
  BY <1>1, <1>2, <1>3 DEF Next, Terminated

\* M5.6: the pause of a table is recorded while it lasts, and can be lifted.
THEOREM PausesCanBeLifted == Spec => []PauseCanBeLifted
<1>1. Init => PauseCanBeLifted
  BY DEF Init, GatewayInit, PauseCanBeLifted, NotPaused
<1>2. TypeOK /\ PauseCanBeLifted /\ [Next]_vars => PauseCanBeLifted'
  <2> SUFFICES ASSUME TypeOK, PauseCanBeLifted, [Next]_vars PROVE PauseCanBeLifted'
    OBVIOUS
  <2> USE DEF PauseCanBeLifted, SetStatus, CanTransition, TRANSITIONS, NotPaused
  <2>1. CASE RowMove
    BY <2>1 DEF RowMove, sessionRow, Status
  <2>2. CASE Pause
    BY <2>2 DEF Pause, TypeOK, Status
  <2>3. CASE Resume
    BY <2>3 DEF Resume, TypeOK, Status
  <2> QED
    BY <2>1, <2>2, <2>3, RowMoves
<1> QED
  BY <1>1, <1>2, TypeCorrect, PTL DEF Spec

\* A step that opens no action and closes none starts no wait.
LEMMA QuietStep ==
  ASSUME [Next]_vars
  PROVE  \/ /\ UNCHANGED actions
            /\ \/ UNCHANGED sessionRow
               \/ \E to \in Status \ {"PAUSED", "WAITING_FOR_ROLL"} : SetStatus(to, NotPaused)
               \/ Pause
               \/ Resume
         \/ \E c \in Character : RollDice(c)
         \/ \E ids \in SUBSET Character : ids # {} /\ RequestRoll(ids)
         \/ \E i \in DOMAIN tasks : \E ids \in (SUBSET Named) \ {{}} : ParkForRoll(i, ids)
<1> DEFINE Quiet == /\ UNCHANGED actions
                    /\ \/ UNCHANGED sessionRow
                       \/ \E to \in Status \ {"PAUSED", "WAITING_FOR_ROLL"} : SetStatus(to, NotPaused)
<1>1. ASSUME NEW i \in DOMAIN tasks, Step(i) \/ DatabaseError(i),
             ~ \E ids \in (SUBSET Named) \ {{}} : ParkForRoll(i, ids)
      PROVE  Quiet
  BY <1>1 DEF Status, Step, DatabaseError, OnTriggered, NoProvider, Sourced, EnsureGraph,
         StartTurn, StartRefused, ParkRefused, ParkMalformed, Fault, ParkReplayed, Commit, TurnFails,
         ReportFailure, ReportRefused, Finally, OnSessionEnded, sessionRow
<1>2. ASSUME GatewayNext, ~ \E c \in Character : RollDice(c),
             ~ \E ids \in SUBSET Character : ids # {} /\ RequestRoll(ids)
      PROVE  Quiet \/ (UNCHANGED actions /\ (Pause \/ Resume))
  <2>1. CASE \E ids \in SUBSET (Character \cup {Forged}) : RequestRoll(ids)
    BY <1>2, <2>1 DEF RequestRoll
  <2> QED
    BY <1>2, <2>1 DEF GatewayNext, Status, SendMessage, Pause, Resume, End, ForceDmTurn, sessionRow
<1>3. CASE Restart \/ UNCHANGED vars
  BY <1>3 DEF Restart, vars, sessionRow
<1> QED
  BY <1>1, <1>2, <1>3 DEF Next, Terminated

\* M5.5: a wait for a roll, now or after the pause, has an open action.
THEOREM AwaitedRollsExist == Spec => []AwaitedRollExists
<1>1. Init => AwaitedRollExists
  BY DEF Init, GatewayInit, AwaitedRollExists, NotPaused
<1>2. TypeOK /\ PauseCanBeLifted /\ AwaitedRollExists /\ [Next]_vars => AwaitedRollExists'
  <2> SUFFICES ASSUME TypeOK, PauseCanBeLifted, AwaitedRollExists, [Next]_vars
               PROVE  AwaitedRollExists'
    OBVIOUS
  <2>1. CASE UNCHANGED actions /\ UNCHANGED sessionRow
    BY <2>1 DEF AwaitedRollExists, sessionRow
  <2>2. ASSUME UNCHANGED actions, NEW to \in Status \ {"PAUSED", "WAITING_FOR_ROLL"},
               SetStatus(to, NotPaused)
        PROVE  AwaitedRollExists'
    BY <2>2 DEF AwaitedRollExists, SetStatus, NotPaused
  <2>3. CASE UNCHANGED actions /\ (Pause \/ Resume)
    BY <2>3 DEF AwaitedRollExists, Pause, Resume, SetStatus, NotPaused
  <2>4. ASSUME NEW c \in Character, RollDice(c) PROVE AwaitedRollExists'
    BY <2>4 DEF AwaitedRollExists, PauseCanBeLifted, RollDice, SetStatus, AcceptsMutations, NotPaused,
           sessionRow
  <2>5. ASSUME NEW ids \in SUBSET Character, RequestRoll(ids) PROVE AwaitedRollExists'
    <3>1. /\ NoThread \in Turn \cup {NoThread} /\ ids \in SUBSET (Character \cup Named)
          /\ OpenAction(NoThread, ids)
      BY <2>5 DEF RequestRoll
    <3> QED
      BY <3>1, OpenActionEffect DEF AwaitedRollExists, TypeOK
  <2>6. ASSUME NEW i \in DOMAIN tasks, NEW ids \in (SUBSET Named) \ {{}}, ParkForRoll(i, ids)
        PROVE  AwaitedRollExists'
    <3>1. OpenAction(TurnOf(i), ids) /\ TurnOf(i) \in threads /\ ids \in SUBSET (Character \cup Named)
      BY <2>6 DEF ParkForRoll, Invoked
    <3>2. TurnOf(i) \in Turn \cup {NoThread}
      BY <3>1 DEF TypeOK
    <3> QED
      BY <3>1, <3>2, OpenActionEffect DEF AwaitedRollExists, TypeOK
  <2> QED
    BY <2>1, <2>2, <2>3, <2>4, <2>5, <2>6, QuietStep
<1> QED
  BY <1>1, <1>2, TypeCorrect, PausesCanBeLifted, PTL DEF Spec

\* M5.6: a stopped table is still, and an ended one stays ended.
THEOREM StoppedTablesAreStill == Spec => StoppedTableIsStill
<1>1. [Next]_vars => [StoppedStep]_vars
  <2> SUFFICES ASSUME [Next]_vars PROVE StoppedStep
    OBVIOUS
  <2>1. status = "SESSION_ENDED" => status' = "SESSION_ENDED"
    BY EndIsFinal
  <2>2. status \in {"PAUSED", "SESSION_ENDED"} => actions' = actions
    BY QuietStep DEF RollDice, RequestRoll, ParkForRoll, AcceptsMutations
  <2>3. status \in {"PAUSED", "SESSION_ENDED"} => told' = told
    BY DEF Next, Step, DatabaseError, Terminated, vars, OnTriggered, NoProvider, Sourced, EnsureGraph,
           StartTurn, StartRefused, ParkForRoll, ParkRefused, ParkMalformed, Fault, ParkReplayed, Commit, TurnFails,
           ReportFailure, ReportRefused, Finally, OnSessionEnded, Restart, dm, AcceptsMutations
  <2> QED
    BY <2>1, <2>2, <2>3 DEF StoppedStep
<1> QED
  BY <1>1, PTL DEF Spec, StoppedTableIsStill

-----------------------------------------------------------------------------
(***************************************************************************)
(* Checkpoints. Only a call at work deletes the checkpoint of its turn,    *)
(* and no open action parks the turn of a call at work.                    *)
(***************************************************************************)

\* A call at work that has not just parked works on a turn no open action parks.
LEMMA WorkIsNotParked ==
  ASSUME TypeOK, CallsInv, NEW i \in DOMAIN tasks, tasks[i].pc \notin Idle \cup {"parked"},
         NEW a \in DOMAIN actions, actions[a].open
  PROVE  actions[a].thread # TurnOf(i)
<1>1. TurnOf(i) \in Turn /\ TurnOf(i) # NoThread /\ tasks[i].kind \in {"start", "resume"}
  BY WorkingTurn DEF Turn, NoThread
<1>2. CASE tasks[i].kind = "start"
  BY <1>1, <1>2 DEF CallsInv, CallOK, TurnOf, Idle
<1>3. CASE tasks[i].kind = "resume"
  BY <1>1, <1>3 DEF CallsInv, CallOK, TurnOf
<1> QED
  BY <1>1, <1>2, <1>3

\* What a step deletes: the checkpoint of the call that takes it, unless the
\* call is parked or the session is over, or those of closed actions.
LEMMA CheckpointsDeleted ==
  ASSUME TypeOK, CallsInv, [Next]_vars
  PROVE  \/ threads \subseteq threads'
         \/ status = "SESSION_ENDED"
         \/ \E i \in DOMAIN tasks : /\ tasks[i].pc \notin Idle \cup {"parked"}
                                    /\ threads \ {TurnOf(i)} \subseteq threads'
                                    /\ UNCHANGED actions
         \/ Restart
<1>1. ASSUME NEW i \in DOMAIN tasks, Step(i) \/ DatabaseError(i), ~ OnSessionEnded(i)
      PROVE  \/ threads \subseteq threads'
             \/ /\ tasks[i].pc \notin Idle \cup {"parked"} /\ UNCHANGED actions
                /\ threads \ {TurnOf(i)} \subseteq threads'
  BY <1>1 DEF Step, DatabaseError, OnTriggered, NoProvider, Sourced, EnsureGraph,
         StartTurn, StartRefused, ParkForRoll, ParkRefused, ParkMalformed, Fault, ParkReplayed, Commit, TurnFails,
         ReportFailure, ReportRefused, Finally, Forget, Reported, Reporting, dm, Idle
<1>2. ASSUME NEW i \in DOMAIN tasks, OnSessionEnded(i) PROVE status = "SESSION_ENDED"
  BY <1>2 DEF OnSessionEnded, CallsInv, CallOK
<1>3. CASE (GatewayNext /\ UNCHANGED <<dm, faults>>) \/ UNCHANGED vars
  BY <1>3 DEF dm, vars
<1> QED
  BY <1>1, <1>2, <1>3 DEF Next, Terminated

\* M6.8: the checkpoint of a parked turn lives as long as its action is open.
THEOREM OpenActionsKeepThreads == Spec => []OpenActionKeepsThread
<1>1. Init => OpenActionKeepsThread
  BY DEF Init, GatewayInit, OpenActionKeepsThread
<1>2. TypeOK /\ CallsInv /\ OpenActionKeepsThread /\ [Next]_vars => OpenActionKeepsThread'
  <2> SUFFICES ASSUME TypeOK, CallsInv, OpenActionKeepsThread, [Next]_vars,
                      status' # "SESSION_ENDED",
                      NEW a \in DOMAIN actions', actions'[a].open, actions'[a].thread # NoThread
               PROVE  actions'[a].thread \in threads'
    BY DEF OpenActionKeepsThread
  <2>1. status # "SESSION_ENDED"
    BY EndIsFinal
  <2>2. CASE /\ a \in DOMAIN actions /\ actions[a].open /\ actions'[a].thread = actions[a].thread
    <3>1. actions[a].thread \in threads
      BY <2>1, <2>2 DEF OpenActionKeepsThread
    <3>2. CASE threads \subseteq threads'
      BY <2>2, <3>1, <3>2
    <3>3. ASSUME NEW i \in DOMAIN tasks, tasks[i].pc \notin Idle \cup {"parked"},
                 threads \ {TurnOf(i)} \subseteq threads'
          PROVE  actions'[a].thread \in threads'
      BY <2>2, <3>1, <3>3, WorkIsNotParked
    <3>4. CASE Restart
      BY <2>2, <3>1, <3>4 DEF Restart, CallsInv
    <3> QED
      BY <2>1, <3>2, <3>3, <3>4, CheckpointsDeleted
  <2>3. CASE UNCHANGED actions
    BY <2>2, <2>3
  <2>4. ASSUME NEW c \in Character, RollDice(c) PROVE actions'[a].thread \in threads'
    BY <2>2, <2>4, RollEffect
  <2>5. ASSUME NEW ids \in SUBSET Character, RequestRoll(ids) PROVE actions'[a].thread \in threads'
    <3>1. /\ NoThread \in Turn \cup {NoThread} /\ ids \in SUBSET (Character \cup Named)
          /\ OpenAction(NoThread, ids)
      BY <2>5 DEF RequestRoll
    <3> QED
      BY <2>2, <3>1, OpenActionEffect DEF TypeOK
  <2>6. ASSUME NEW i \in DOMAIN tasks, NEW ids \in (SUBSET Named) \ {{}}, ParkForRoll(i, ids)
        PROVE  actions'[a].thread \in threads'
    <3>1. /\ OpenAction(TurnOf(i), ids) /\ TurnOf(i) \in threads /\ threads' = threads
          /\ ids \in SUBSET (Character \cup Named)
      BY <2>6 DEF ParkForRoll, Invoked
    <3>2. TurnOf(i) \in Turn \cup {NoThread}
      BY <3>1 DEF TypeOK
    <3> QED
      BY <2>2, <3>1, <3>2, OpenActionEffect DEF TypeOK
  <2> QED
    BY <2>3, <2>4, <2>5, <2>6, QuietStep
<1> QED
  BY <1>1, <1>2, CallsCorrespond, PTL DEF Spec

-----------------------------------------------------------------------------
(***************************************************************************)
(* Told once. A turn that some call may yet tell, that an open action      *)
(* parks, or that has not begun, is untold; at most one call may yet tell  *)
(* a turn.                                                                 *)
(***************************************************************************)
ToldInv ==
  /\ \A i \in DOMAIN tasks :
       tasks[i].kind \in {"start", "resume"} /\ tasks[i].pc \in Untold /\ TurnOf(i) # NoThread =>
         told[TurnOf(i)] = 0
  /\ \A a \in DOMAIN actions :
       actions[a].open /\ actions[a].thread # NoThread => told[actions[a].thread] = 0
  /\ \A t \in Turn : t \notin DOMAIN tasks => told[t] = 0
  /\ TurnIsToldOnce

\* Two calls that may yet tell work on two turns.
LEMMA OneTellerPerTurn ==
  ASSUME TypeOK, CallsInv, NEW i \in DOMAIN tasks, NEW j \in DOMAIN tasks, i # j,
         tasks[i].pc \in Untold, tasks[j].pc \in Untold,
         tasks[i].kind \in {"start", "resume"}, tasks[j].kind \in {"start", "resume"},
         TurnOf(i) # NoThread
  PROVE  TurnOf(i) # TurnOf(j)
<1>1. CallOK(i) /\ CallOK(j) /\ i \notin asked /\ j \notin asked
  BY DEF CallsInv, CallOK, Untold
<1>2. CASE tasks[i].kind = "start" /\ tasks[j].kind = "start"
  BY <1>2 DEF TurnOf
<1>3. CASE tasks[i].kind = "start" /\ tasks[j].kind = "resume"
  BY <1>1, <1>3 DEF CallsInv, CallOK, TurnOf
<1>4. CASE tasks[i].kind = "resume" /\ tasks[j].kind = "start"
  BY <1>1, <1>4 DEF CallsInv, CallOK, TurnOf
<1>5. CASE tasks[i].kind = "resume" /\ tasks[j].kind = "resume"
  BY <1>1, <1>5 DEF CallsInv, CallOK, TurnOf
<1> QED
  BY <1>2, <1>3, <1>4, <1>5

\* A move tells at most the turn of its call, which no one may tell after it.
LEMMA MoveKeepsTold ==
  ASSUME TypeOK, CallsInv, ToldInv, NEW i \in DOMAIN tasks, NEW label \in TaskState, Move(i, label)
  PROVE  ToldInv'
<1>1. /\ DOMAIN tasks' = DOMAIN tasks
      /\ \A j \in DOMAIN tasks :
           /\ tasks'[j].kind = tasks[j].kind /\ tasks'[j].action = tasks[j].action
           /\ tasks'[j].pc = IF j = i THEN label ELSE tasks[j].pc
      /\ actions' = actions
  BY GotoEffect DEF Move, TypeOK
<1>2. \A j \in DOMAIN tasks : TurnOf(j)' = TurnOf(j)
  BY <1>1 DEF TurnOf
<1>3. \A j \in DOMAIN tasks : tasks'[j].pc \in Untold => tasks[j].pc \in Untold
  BY <1>1 DEF Move
<1>4. CASE told' = told
  BY <1>1, <1>2, <1>3, <1>4 DEF ToldInv, TurnIsToldOnce
<1>5. CASE Tells(i) /\ label \notin Untold
  <2>1. /\ tasks[i].kind \in {"start", "resume"} /\ TurnOf(i) \in Turn /\ TurnOf(i) # NoThread
        /\ tasks[i].pc \in Untold /\ told[TurnOf(i)] = 0
    BY <1>5, WorkingTurn DEF Tells, Idle, Untold, ToldInv, Turn, NoThread
  <2>2. told \in [Turn -> Nat] /\ \A t \in Turn : t # TurnOf(i) => told'[t] = told[t]
    BY <1>5 DEF Tells, TypeOK
  <2>3. told'[TurnOf(i)] <= 1
    BY <1>5, <2>1, <2>2 DEF Tells
  <2>4. ASSUME NEW j \in DOMAIN tasks, tasks'[j].kind \in {"start", "resume"},
               tasks'[j].pc \in Untold, TurnOf(j) # NoThread
        PROVE  told'[TurnOf(j)] = 0
    <3>1. j # i /\ tasks[j].pc \in Untold /\ tasks[j].kind \in {"start", "resume"}
      BY <1>1, <1>5, <2>4
    <3>2. TurnOf(j) # TurnOf(i) /\ TurnOf(j) \in Turn
      BY <2>1, <2>4, <3>1, OneTellerPerTurn, WorkingTurn
    <3> QED
      BY <2>2, <2>4, <3>1, <3>2 DEF ToldInv
  <2>5. ASSUME NEW a \in DOMAIN actions, actions[a].open, actions[a].thread # NoThread
        PROVE  told'[actions[a].thread] = 0
    <3>1. actions[a].thread # TurnOf(i)
      BY <1>5, <2>5, WorkIsNotParked DEF Tells, Idle
    <3>2. actions[a].thread \in Turn
      BY <2>5, ElementTypes DEF PendingAction
    <3> QED
      BY <2>2, <2>5, <3>1, <3>2 DEF ToldInv
  <2>6. TurnOf(i) \in DOMAIN tasks
    BY <2>1 DEF CallsInv, CallOK, TurnOf
  <2>7. \A t \in Turn : t \notin DOMAIN tasks' => told'[t] = 0
    BY <1>1, <2>2, <2>6 DEF ToldInv
  <2>8. TurnIsToldOnce'
    BY <2>2, <2>3 DEF ToldInv, TurnIsToldOnce
  <2> QED
    BY <1>1, <1>2, <2>4, <2>5, <2>7, <2>8 DEF ToldInv
<1> QED
  BY <1>4, <1>5 DEF Move

\* A turn that parks has not been told, and its call tells it no more.
LEMMA ParkKeepsTold ==
  ASSUME TypeOK, CallsInv, ToldInv, NEW i \in DOMAIN tasks,
         NEW ids \in (SUBSET Named) \ {{}}, ParkForRoll(i, ids)
  PROVE  ToldInv'
<1>1. /\ tasks[i].pc = "invoking" /\ TurnOf(i) \in Turn /\ TurnOf(i) # NoThread
      /\ tasks[i].kind \in {"start", "resume"} /\ told' = told
  BY WorkingTurn DEF ParkForRoll, Invoked, Idle, Turn, NoThread
<1>2. told[TurnOf(i)] = 0
  BY <1>1 DEF ToldInv, Untold
<1>3. /\ DOMAIN tasks' = DOMAIN tasks
      /\ \A j \in DOMAIN tasks :
           /\ tasks'[j].kind = tasks[j].kind /\ tasks'[j].action = tasks[j].action
           /\ tasks'[j].pc = IF j = i THEN "parked" ELSE tasks[j].pc
  BY GotoEffect DEF ParkForRoll, TypeOK, TaskState, Running
<1>4. /\ DOMAIN actions' = DOMAIN actions \cup {Len(actions) + 1}
      /\ \A a \in DOMAIN actions : actions'[a] = actions[a]
      /\ actions'[Len(actions) + 1].thread = TurnOf(i)
  <2>1. /\ TurnOf(i) \in Turn \cup {NoThread} /\ ids \in SUBSET (Character \cup Named)
        /\ OpenAction(TurnOf(i), ids)
    BY <1>1 DEF ParkForRoll
  <2> QED
    BY <2>1, OpenActionEffect DEF TypeOK
<1>5. \A j \in DOMAIN tasks : tasks[j].kind \in {"start", "resume"} => TurnOf(j)' = TurnOf(j)
  BY <1>3, <1>4 DEF CallsInv, CallOK, TurnOf
<1>6. \A a \in DOMAIN actions' :
        actions'[a].open /\ actions'[a].thread # NoThread => told'[actions'[a].thread] = 0
  BY <1>1, <1>2, <1>4 DEF ToldInv
<1>7. \A j \in DOMAIN tasks' :
        tasks'[j].kind \in {"start", "resume"} /\ tasks'[j].pc \in Untold /\ TurnOf(j)' # NoThread =>
          told'[TurnOf(j)'] = 0
  BY <1>1, <1>3, <1>5 DEF ToldInv, Untold
<1> QED
  BY <1>1, <1>3, <1>6, <1>7 DEF ToldInv, TurnIsToldOnce

\* A command tells nothing; the call it makes is for a new turn or a parked one.
LEMMA GatewayKeepsTold ==
  ASSUME TypeOK, CallsInv, ToldInv, GatewayNext, UNCHANGED <<dm, faults>>
  PROVE  ToldInv'
<1> USE GatewayAssumption
<1> PICK n \in Nat : n = Len(tasks) + 1
  BY ElementTypes
<1>0. told' = told
  BY DEF dm
<1>1. CASE UNCHANGED <<actions, tasks>>
  BY <1>0, <1>1 DEF ToldInv, TurnOf, TurnIsToldOnce
<1>2. ASSUME NEW kind \in {"start", "ended"}, Call(kind, 0), UNCHANGED actions
      PROVE  ToldInv'
  <2>1. /\ Len(tasks') <= MaxTasks /\ DOMAIN tasks' = DOMAIN tasks \cup {n} /\ n \notin DOMAIN tasks
        /\ \A j \in DOMAIN tasks : tasks'[j] = tasks[j]
        /\ Len(tasks') = n /\ tasks'[n].kind = kind
    <3>1. kind \in {"start", "resume", "ended"} /\ 0 \in Nat
      OBVIOUS
    <3> QED
      BY <1>2, <3>1, CallEffect DEF TypeOK
  <2>2. n \in Turn /\ told[n] = 0
    BY <2>1, ElementTypes DEF Turn, ToldInv
  <2>3. \A j \in DOMAIN tasks : TurnOf(j)' = TurnOf(j)
    BY <1>2, <2>1 DEF TurnOf
  <2>4. kind = "start" => TurnOf(n)' = n
    BY <2>1 DEF TurnOf
  <2> QED
    BY <1>0, <1>2, <2>1, <2>2, <2>3, <2>4 DEF ToldInv, TurnIsToldOnce
<1>3. ASSUME NEW c \in Character, RollDice(c) PROVE ToldInv'
  <2>1. /\ DOMAIN actions' = DOMAIN actions
        /\ \A a \in DOMAIN actions :
             /\ actions'[a].thread = actions[a].thread
             /\ actions'[a].open <=> actions[a].open /\ a \notin OpenFor(c)
        /\ \A a \in OpenFor(c) : a \in DOMAIN actions /\ a \in Nat /\ actions[a].open
    BY <1>3, RollEffect
  <2>2. \A a \in DOMAIN actions' :
          actions'[a].open /\ actions'[a].thread # NoThread => told'[actions'[a].thread] = 0
    BY <1>0, <2>1 DEF ToldInv
  <2>3. ASSUME NEW j \in DOMAIN tasks, tasks'[j] = tasks[j], tasks[j].kind \in {"start", "resume"},
               tasks[j].pc \in Untold, TurnOf(j)' # NoThread
        PROVE  told'[TurnOf(j)'] = 0
    <3>1. TurnOf(j)' = TurnOf(j)
      BY <2>1, <2>3 DEF CallsInv, CallOK, TurnOf
    <3> QED
      BY <1>0, <2>3, <3>1 DEF ToldInv
  <2>4. CASE UNCHANGED tasks
    BY <1>0, <2>2, <2>3, <2>4 DEF ToldInv, TurnIsToldOnce
  <2>5. ASSUME NEW first \in OpenFor(c), Call("resume", first) PROVE ToldInv'
    <3>1. /\ DOMAIN tasks' = DOMAIN tasks \cup {n} /\ n \notin DOMAIN tasks
          /\ \A j \in DOMAIN tasks : tasks'[j] = tasks[j]
          /\ tasks'[n].kind = "resume" /\ tasks'[n].action = first
      BY <2>1, <2>5, CallEffect DEF TypeOK
    <3>2. TurnOf(n)' = actions[first].thread
      BY <2>1, <2>5, <3>1 DEF TurnOf
    <3>3. TurnOf(n)' # NoThread => told'[TurnOf(n)'] = 0
      BY <1>0, <2>1, <2>5, <3>2 DEF ToldInv
    <3> QED
      BY <1>0, <2>2, <2>3, <3>1, <3>3 DEF ToldInv, TurnIsToldOnce
  <2> QED
    BY <1>3, <2>4, <2>5, RollEffect
<1>4. ASSUME NEW ids \in SUBSET (Character \cup {Forged}), RequestRoll(ids) PROVE ToldInv'
  <2>1. /\ ids \in SUBSET (Character \cup Named) /\ OpenAction(NoThread, ids)
        /\ UNCHANGED tasks /\ NoThread \in Turn \cup {NoThread}
    BY <1>4 DEF RequestRoll
  <2>2. /\ DOMAIN actions' = DOMAIN actions \cup {Len(actions) + 1}
        /\ \A a \in DOMAIN actions : actions'[a] = actions[a]
        /\ actions'[Len(actions) + 1].thread = NoThread
    BY <2>1, OpenActionEffect DEF TypeOK
  <2>3. \A j \in DOMAIN tasks : tasks[j].kind \in {"start", "resume"} => TurnOf(j)' = TurnOf(j)
    BY <2>1, <2>2 DEF CallsInv, CallOK, TurnOf
  <2> QED
    BY <1>0, <2>1, <2>2, <2>3 DEF ToldInv, TurnIsToldOnce
<1> QED
  BY <1>1, <1>2, <1>3, <1>4 DEF GatewayNext, SendMessage, Pause, Resume, End, ForceDmTurn

\* M6.6, M6.7: over all its parkings, resumptions and reports a turn is told at
\* most once, also when two turns overlap and when the API restarts.
THEOREM TurnsAreToldOnce == Spec => []TurnIsToldOnce
<1>1. Init => ToldInv
  BY DEF Init, GatewayInit, ToldInv, TurnIsToldOnce
<1>2. TypeOK /\ CallsInv /\ ToldInv /\ [Next]_vars => ToldInv'
  <2> SUFFICES ASSUME TypeOK, CallsInv, ToldInv, [Next]_vars PROVE ToldInv'
    OBVIOUS
  <2>1. ASSUME NEW i \in DOMAIN tasks, Step(i) \/ DatabaseError(i) PROVE ToldInv'
    BY <2>1, StepsAreMoves, MoveKeepsTold, ParkKeepsTold
  <2>2. CASE GatewayNext /\ UNCHANGED <<dm, faults>>
    BY <2>2, GatewayKeepsTold
  <2>3. CASE Restart
    <3>1. /\ DOMAIN tasks' = DOMAIN tasks
          /\ \A j \in DOMAIN tasks :
               /\ tasks'[j].kind = tasks[j].kind /\ tasks'[j].action = tasks[j].action
               /\ tasks'[j].pc = IF tasks[j].pc \in Over THEN tasks[j].pc ELSE "lost"
      BY <2>3, LostEffect DEF Restart, TypeOK
    <3>2. \A j \in DOMAIN tasks : tasks'[j].pc \notin Untold
      BY <3>1 DEF Over, Untold
    <3> QED
      BY <2>3, <3>1, <3>2 DEF Restart, ToldInv, TurnIsToldOnce
  <2>4. CASE UNCHANGED vars
    BY <2>4 DEF vars, ToldInv, TurnOf, TurnIsToldOnce
  <2> QED
    BY <2>1, <2>2, <2>3, <2>4 DEF Next, Terminated
<1>3. ToldInv => TurnIsToldOnce
  BY DEF ToldInv
<1> QED
  BY <1>1, <1>2, <1>3, CallsCorrespond, PTL DEF Spec

-----------------------------------------------------------------------------
(***************************************************************************)
(* Abandoned. The status says generating only behind a call that has just  *)
(* made it so; that call leaves its work in another state of the row, or   *)
(* as a fault.                                                             *)
(***************************************************************************)

\* A generating row is left so by every step that is no fault: a call at work on
\* it moves on to its report, and the calls that begin or end change the row.
LEMMA WorkGoesOn ==
  ASSUME TypeOK, CallsInv, NEW i \in DOMAIN tasks, Step(i) \/ DatabaseError(i), faults' = faults,
         tasks[i].pc \in {"invoking", "failing"},
         status = "DM_GENERATING", status' = "DM_GENERATING"
  PROVE  i \in DOMAIN tasks' /\ tasks'[i].pc = "failing"
<1>1. faults \in Nat
  BY DEF TypeOK
<1>2. ~ DatabaseError(i)
  BY <1>1 DEF DatabaseError, Fault
<1>3. TurnFails(i)
  BY <1>1, <1>2
     DEF Step, OnTriggered, NoProvider, Sourced, EnsureGraph, StartTurn, StartRefused, ParkForRoll,
         ParkRefused, ParkMalformed, ParkReplayed, Fault, Commit, ReportFailure, ReportRefused,
         Finally, OnSessionEnded, SetStatus, Accepts, AcceptsMutations, CanTransition, TRANSITIONS
<1> QED
  BY <1>3, GotoEffect DEF TurnFails, TypeOK, TaskState, Running

\* What a step does to the calls it is not a step of: without a fault they stay.
LEMMA OthersStay ==
  ASSUME TypeOK, CallsInv, [Next]_vars, faults' = faults,
         NEW k \in DOMAIN tasks, ~ Step(k)
  PROVE  k \in DOMAIN tasks' /\ tasks'[k].pc = tasks[k].pc
<1> USE GatewayAssumption
<1>1. faults \in Nat
  BY DEF TypeOK
<1>2. ~ Restart /\ \A i \in DOMAIN tasks : ~ DatabaseError(i)
  BY <1>1 DEF Restart, ProcessDies, DatabaseError, Fault
<1>3. ASSUME NEW i \in DOMAIN tasks, Step(i)
      PROVE  k \in DOMAIN tasks' /\ tasks'[k].pc = tasks[k].pc
  <2>1. i # k
    BY <1>3
  <2>2. ASSUME NEW label \in TaskState, Goto(i, label)
        PROVE  k \in DOMAIN tasks' /\ tasks'[k].pc = tasks[k].pc
    BY <2>1, <2>2, GotoEffect DEF TypeOK
  <2> QED
    BY <1>3, <2>2, StepsAreMoves DEF Move, ParkForRoll, TaskState, Running
<1>4. ASSUME NEW kind \in {"start", "resume", "ended"}, NEW action \in Nat, Call(kind, action)
      PROVE  k \in DOMAIN tasks' /\ tasks'[k].pc = tasks[k].pc
  BY <1>4, CallEffect DEF TypeOK
<1>5. ASSUME NEW c \in Character, RollDice(c) PROVE UNCHANGED tasks \/ \E a \in Nat : Call("resume", a)
  BY <1>5, RollEffect
<1>6. CASE GatewayNext
  <2>1. UNCHANGED tasks \/ \E kind \in {"start", "resume", "ended"}, action \in Nat : Call(kind, action)
    BY <1>5, <1>6 DEF GatewayNext, SendMessage, RequestRoll, Pause, Resume, End, ForceDmTurn
  <2> QED
    BY <1>4, <2>1
<1> QED
  BY <1>2, <1>3, <1>6 DEF Next, Terminated, vars

\* session-state.ts: a generating turn finishes, parks on a roll or fails. What
\* leaves the table generating with nobody at work is a second ask, a malformed
\* id, a refused statement or the death of the process, and nothing else.
THEOREM TurnsAreAbandonedByFaults == Spec => OnlyFaultsAbandon
<1>1. TypeOK /\ CallsInv /\ PauseCanBeLifted /\ [Next]_vars
        => [~Abandoned /\ Abandoned' => faults' # faults]_vars
  <2> SUFFICES ASSUME TypeOK, CallsInv, PauseCanBeLifted, [Next]_vars,
                      ~ Abandoned, Abandoned', faults' = faults
               PROVE  FALSE
    OBVIOUS
  <2>1. status' = "DM_GENERATING" /\ \A k \in DOMAIN tasks' : tasks'[k].pc \notin {"invoking", "failing"}
    BY DEF Abandoned
  <2>2. CASE status = "DM_GENERATING"
    <3>1. PICK k \in DOMAIN tasks : tasks[k].pc \in {"invoking", "failing"}
      BY <2>2 DEF Abandoned
    <3>2. CASE Step(k)
      BY <2>1, <2>2, <3>1, <3>2, WorkGoesOn
    <3>3. CASE ~ Step(k)
      BY <2>1, <3>1, <3>3, OthersStay
    <3> QED
      BY <3>2, <3>3
  <2>3. CASE status # "DM_GENERATING"
    <3>1. \E k \in DOMAIN tasks : StartTurn(k)
      <4>1. ASSUME NEW k \in DOMAIN tasks, Step(k) \/ DatabaseError(k), ~ StartTurn(k) PROVE FALSE
        BY <2>1, <2>3, <4>1
           DEF Step, DatabaseError, OnTriggered, NoProvider, Sourced, EnsureGraph, StartRefused,
               ParkForRoll, ParkRefused, ParkMalformed, ParkReplayed, Commit, TurnFails, ReportFailure,
               ReportRefused, Finally, OnSessionEnded, SetStatus, sessionRow
      <4>2. ~ GatewayNext
        BY <2>1, <2>3 DEF GatewayNext, SendMessage, RollDice, RequestRoll, Pause, Resume, End,
               ForceDmTurn, SetStatus, sessionRow, PauseCanBeLifted, CanTransition, TRANSITIONS
      <4>3. ~ Restart /\ ~ UNCHANGED vars
        BY <2>1, <2>3 DEF Restart, vars, sessionRow
      <4> QED
        BY <4>1, <4>2, <4>3 DEF Next, Terminated
    <3>2. PICK k \in DOMAIN tasks : StartTurn(k)
      BY <3>1
    <3>3. k \in DOMAIN tasks' /\ tasks'[k].pc = "invoking"
      BY <3>2, GotoEffect DEF StartTurn, TypeOK, TaskState, Running
    <3> QED
      BY <2>1, <3>3
  <2> QED
    BY <2>2, <2>3
<1> QED
  BY <1>1, CallsCorrespond, PausesCanBeLifted, PTL DEF Spec, OnlyFaultsAbandon

-----------------------------------------------------------------------------
(***************************************************************************)
(* Who may roll.                                                           *)
(***************************************************************************)

\* REQUEST_ROLL compares the ids with the roster, parkForRoll does not; neither
\* opens an action that names nobody, and no row is rewritten later.
THEOREM RollersAreNamed == Spec => []RollsHaveRollers
<1>1. Init => RollsHaveRollers
  BY DEF Init, GatewayInit, RollsHaveRollers
<1>2. TypeOK /\ RollsHaveRollers /\ [Next]_vars => RollsHaveRollers'
  <2> SUFFICES ASSUME TypeOK, RollsHaveRollers, [Next]_vars PROVE RollsHaveRollers'
    OBVIOUS
  <2>1. CASE UNCHANGED actions
    BY <2>1 DEF RollsHaveRollers
  <2>2. ASSUME NEW c \in Character, RollDice(c) PROVE RollsHaveRollers'
    BY <2>2, RollEffect DEF RollsHaveRollers
  <2>3. ASSUME NEW ids \in SUBSET Character, ids # {}, RequestRoll(ids) PROVE RollsHaveRollers'
    <3>1. /\ NoThread \in Turn \cup {NoThread} /\ ids \in SUBSET (Character \cup Named)
          /\ OpenAction(NoThread, ids)
      BY <2>3 DEF RequestRoll
    <3> QED
      BY <2>3, <3>1, OpenActionEffect DEF RollsHaveRollers, TypeOK
  <2>4. ASSUME NEW i \in DOMAIN tasks, NEW ids \in (SUBSET Named) \ {{}}, ParkForRoll(i, ids)
        PROVE  RollsHaveRollers'
    <3>1. OpenAction(TurnOf(i), ids) /\ TurnOf(i) \in threads /\ ids \in SUBSET (Character \cup Named)
      BY <2>4 DEF ParkForRoll, Invoked
    <3>2. TurnOf(i) \in Turn
      BY <3>1 DEF TypeOK
    <3>3. TurnOf(i) # NoThread
      BY <3>2, GatewayAssumption DEF Turn, NoThread
    <3> QED
      BY <2>4, <3>1, <3>2, <3>3, OpenActionEffect DEF RollsHaveRollers, TypeOK
  <2> QED
    BY <2>1, <2>2, <2>3, <2>4, QuietStep
<1> QED
  BY <1>1, <1>2, TypeCorrect, PTL DEF Spec

\* A session that waits for a roll has an open action; an open action of the
\* host's can be closed by a member of the party, one of a turn's has the
\* checkpoint that brings the turn back, whatever restarts and fails meanwhile.
THEOREM ParkedTurnsAreIntact == Spec => []ParkedTurnIsIntact
BY AwaitedRollsExist, RollersAreNamed, OpenActionsKeepThreads, PTL DEF ParkedTurnIsIntact

=============================================================================
