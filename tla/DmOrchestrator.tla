--------------------------- MODULE DmOrchestrator ---------------------------
(***************************************************************************)
(* The DM's turns at one table: DmOrchestrator's handlers between their    *)
(* awaits, interleaved with each other and with the gateway's commands.    *)
(* Task i is the i-th call publish made; a turn (a resolution, and the     *)
(* checkpoint thread of the same name) has the number of the task that     *)
(* started it. Each of a turn's commits is one step, as SessionService     *)
(* implements AtomicSession; what runs between two of them is not.         *)
(***************************************************************************)
EXTENDS SessionGateway

CONSTANTS
  Named,       \* the character ids the model may put into request_roll
  Malformed,   \* one that is no uuid: the insert into pending_actions fails
  AsksAgain,   \* whether the model may ask for a second roll in one turn
  MaxFaults    \* bound: restarts, statements the database refuses, malformed
               \* ids and second asks, taken together

ASSUME OrchestratorAssumption ==
  /\ AsksAgain \in BOOLEAN
  /\ MaxFaults \in Nat

VARIABLES
  active,        \* the map entry of the session: the turn marked as running
  checkpointer,  \* whether this process has built its graph and checkpointer
  threads,       \* the turns that have a checkpoint
  asked,         \* the turns whose `:ask` command is committed
  told,          \* how many times each turn has narrated or been reported failed
  faults         \* what has gone wrong so far, counted

dm == <<active, checkpointer, threads, asked, told>>
vars == <<status, pausedFrom, actions, tasks, active, checkpointer, threads, asked, told,
          faults>>

NoTurn == 0
Turn == 1..MaxTasks

Over == {"done", "dropped", "lost"}
Running == {"preparing", "starting", "invoking", "failing", "parked", "finishing"}
TaskState == {"triggered", "sourcing", "unsourced"} \cup Running \cup Over

Init ==
  /\ GatewayInit
  /\ active = NoTurn
  /\ checkpointer = FALSE
  /\ threads = {}
  /\ asked = {}
  /\ told = [t \in Turn |-> 0]
  /\ faults = 0

\* The turn a task works on: its own number, or the one a closed roll had parked.
TurnOf(i) == IF tasks[i].kind = "start" THEN i ELSE actions[tasks[i].action].thread

Goto(i, label) == tasks' = [tasks EXCEPT ![i].pc = label]

\* What a mutation that sets this status needs of the locked row.
Accepts(to) == AcceptsMutations(status) /\ CanTransition(status, to)

\* What the code has no answer to.
Fault == faults < MaxFaults /\ faults' = faults + 1

\* deleteThread: does nothing before the process has a checkpointer.
Forget(turns) == threads' = IF checkpointer THEN threads \ turns ELSE threads

-----------------------------------------------------------------------------
\* onTriggered, up to the check of active: a roll that closed a host's own
\* request resumes nothing, and a table with a running turn drops the trigger.
OnTriggered(i) ==
  /\ tasks[i].pc = "triggered"
  /\ tasks[i].kind \in {"start", "resume"}
  /\ Goto(i, IF TurnOf(i) = NoThread THEN "done"
             ELSE IF active # NoTurn THEN "dropped" ELSE "sourcing")
  /\ UNCHANGED <<sessionRow, actions, dm, faults>>

NoProvider(i) ==
  /\ tasks[i].pc = "sourcing"
  /\ Goto(i, "unsourced")
  /\ UNCHANGED <<sessionRow, actions, dm, faults>>

\* The awaits of providerSource.get lie between the check and this mark.
Sourced(i) ==
  /\ tasks[i].pc = "sourcing"
  /\ active' = TurnOf(i)
  /\ Goto(i, "preparing")
  /\ UNCHANGED <<sessionRow, actions, checkpointer, threads, asked, told, faults>>

EnsureGraph(i) ==
  /\ tasks[i].pc = "preparing"
  /\ checkpointer' = TRUE
  /\ Goto(i, "starting")
  /\ UNCHANGED <<sessionRow, actions, active, threads, asked, told, faults>>

\* The `:start` or `:resume` command, and the call of graph.invoke behind it.
StartTurn(i) ==
  /\ tasks[i].pc = "starting"
  /\ AcceptsMutations(status)
  /\ SetStatus("DM_GENERATING", NotPaused)
  /\ threads' = threads \cup (IF tasks[i].kind = "start" THEN {i} ELSE {})
  /\ Goto(i, "invoking")
  /\ UNCHANGED <<actions, active, checkpointer, asked, told, faults>>

\* Refused: the exception passes the finally and ends in onTriggered's log.
StartRefused(i) ==
  /\ tasks[i].pc = "starting"
  /\ ~Accepts("DM_GENERATING")
  /\ Goto(i, "finishing")
  /\ UNCHANGED <<sessionRow, actions, dm, faults>>

\* A resumed run has something to go on only while its checkpoint exists.
Invoked(i) == tasks[i].pc = "invoking" /\ TurnOf(i) \in threads

\* parkForRoll: the interrupt of the graph becomes a pending action.
ParkForRoll(i, ids) ==
  /\ Invoked(i)
  /\ TurnOf(i) \notin asked
  /\ Malformed \notin ids
  /\ AcceptsMutations(status)
  /\ SetStatus("WAITING_FOR_ROLL", NotPaused)
  /\ OpenAction(TurnOf(i), ids)
  /\ asked' = asked \cup {TurnOf(i)}
  /\ Goto(i, "parked")
  /\ UNCHANGED <<active, checkpointer, threads, told, faults>>

\* A second roll in one turn: `:ask` is a replay, which changes nothing and
\* returns like a success.
ParkReplayed(i) ==
  /\ AsksAgain
  /\ Fault
  /\ Invoked(i)
  /\ TurnOf(i) \in asked
  /\ Goto(i, "parked")
  /\ UNCHANGED <<sessionRow, actions, dm>>

\* The command throws; nothing between it and the finally reports a failure.
ParkRefused(i) ==
  /\ Invoked(i)
  /\ TurnOf(i) \notin asked
  /\ ~Accepts("WAITING_FOR_ROLL")
  /\ Goto(i, "finishing")
  /\ UNCHANGED <<sessionRow, actions, dm, faults>>

\* So it does when the insert finds a uuid column given something else.
ParkMalformed(i, ids) ==
  /\ Malformed \in ids
  /\ Fault
  /\ Invoked(i)
  /\ TurnOf(i) \notin asked
  /\ Goto(i, "finishing")
  /\ UNCHANGED <<sessionRow, actions, dm>>

\* commit: the narration and the proposed changes, in one transaction.
Commit(i) ==
  /\ Invoked(i)
  /\ AcceptsMutations(status)
  /\ SetStatus("WAITING_FOR_PLAYERS", NotPaused)
  /\ told' = [told EXCEPT ![TurnOf(i)] = @ + 1]
  /\ Goto(i, "finishing")
  /\ UNCHANGED <<actions, active, checkpointer, threads, asked, faults>>

\* Mutant: a failed turn ends like a parked one, without a report.
TurnFails_Silently(i) ==
  /\ tasks[i].pc = "invoking"
  /\ Goto(i, "finishing")
  /\ UNCHANGED <<sessionRow, actions, dm, faults>>

\* The graph fails or throws, validateProposals rejects, or the row refuses:
\* all of them go to reportFailure.
TurnFails(i) ==
  /\ tasks[i].pc = "invoking"
  /\ Goto(i, "failing")
  /\ UNCHANGED <<sessionRow, actions, dm, faults>>

\* A turn that found no provider has neither been marked nor, if it is new,
\* been given its id.
Reporting(i) == tasks[i].pc \in {"unsourced", "failing"}

Reported(i) ==
  IF tasks[i].pc = "unsourced" /\ tasks[i].kind = "start" THEN {} ELSE {TurnOf(i)}

AfterReport(i) == IF tasks[i].pc = "unsourced" THEN "done" ELSE "finishing"

\* Mutant: a failed turn is tried again, without a limit.
ReportFailure_Retries(i) ==
  /\ Reporting(i)
  /\ Goto(i, IF tasks[i].pc = "unsourced" THEN "done" ELSE "invoking")
  /\ UNCHANGED <<sessionRow, actions, dm, faults>>

\* reportFailure: the event, the way back to the players, deleteThread.
ReportFailure(i) ==
  /\ Reporting(i)
  /\ AcceptsMutations(status)
  /\ IF status \in {"DM_GENERATING", "WAITING_FOR_ROLL"}
     THEN SetStatus("WAITING_FOR_PLAYERS", NotPaused) ELSE UNCHANGED sessionRow
  /\ told' = [t \in Turn |-> told[t] + (IF t \in Reported(i) THEN 1 ELSE 0)]
  /\ Forget(Reported(i))
  /\ Goto(i, AfterReport(i))
  /\ UNCHANGED <<actions, active, checkpointer, asked, faults>>

\* The report itself is refused; it is logged and the checkpoint deleted.
ReportRefused(i) ==
  /\ Reporting(i)
  /\ ~AcceptsMutations(status)
  /\ Forget(Reported(i))
  /\ Goto(i, AfterReport(i))
  /\ UNCHANGED <<sessionRow, actions, active, checkpointer, asked, told, faults>>

\* The finally of both resolutions: the session's mark is deleted, whoever set
\* it, and the checkpoint unless the turn is parked.
Finally(i) ==
  /\ tasks[i].pc \in {"parked", "finishing"}
  /\ active' = NoTurn
  /\ IF tasks[i].pc = "parked" THEN UNCHANGED threads ELSE Forget({TurnOf(i)})
  /\ Goto(i, "done")
  /\ UNCHANGED <<sessionRow, actions, checkpointer, asked, told, faults>>

OnSessionEnded(i) ==
  /\ tasks[i].pc = "triggered" /\ tasks[i].kind = "ended"
  /\ Forget({actions[a].thread : a \in {b \in DOMAIN actions : actions[b].open}})
  /\ Goto(i, "done")
  /\ UNCHANGED <<sessionRow, actions, active, checkpointer, asked, told, faults>>

\* The database refuses a statement: of `:start`, `:resume` or `:ask`, which
\* ends the turn without a word, or of the report, which is only logged.
DatabaseError(i) ==
  /\ Fault
  /\ \/ /\ tasks[i].pc = "starting" \/ (Invoked(i) /\ TurnOf(i) \notin asked)
        /\ Goto(i, "finishing")
        /\ UNCHANGED threads
     \/ /\ Reporting(i)
        /\ Forget(Reported(i))
        /\ Goto(i, AfterReport(i))
  /\ UNCHANGED <<sessionRow, actions, active, checkpointer, asked, told>>

\* The API dies: every call of the orchestrator that is under way is lost, and
\* so is what the process remembered.
ProcessDies ==
  /\ Fault
  /\ active' = NoTurn
  /\ checkpointer' = FALSE

Lost ==
  [i \in DOMAIN tasks |->
     IF tasks[i].pc \in Over THEN tasks[i] ELSE [tasks[i] EXCEPT !.pc = "lost"]]

\* Mutants: the sweep takes the open actions too; the calls that were under way
\* are made again.
Restart_SweepsOpen ==
  /\ ProcessDies
  /\ tasks' = Lost
  /\ threads' = threads \ {actions[a].thread : a \in DOMAIN actions}
  /\ UNCHANGED <<sessionRow, actions, asked, told>>

Restart_Retries ==
  /\ ProcessDies
  /\ tasks' = [i \in DOMAIN tasks |->
                 IF tasks[i].pc \in Over THEN tasks[i] ELSE [tasks[i] EXCEPT !.pc = "triggered"]]
  /\ UNCHANGED <<sessionRow, actions, threads, asked, told>>

\* The API dies and starts again; a trigger lost between a commit and its
\* publish is one that got no further. onApplicationBootstrap deletes the
\* checkpoints of those actions that were closed long enough ago.
Restart ==
  /\ ProcessDies
  /\ tasks' = Lost
  /\ \E old \in SUBSET {a \in DOMAIN actions : ~actions[a].open} :
       threads' = threads \ {actions[a].thread : a \in old}
  /\ UNCHANGED <<sessionRow, actions, asked, told>>

\* The end of the session is final, and so is the work it leaves behind.
Terminated ==
  /\ status = "SESSION_ENDED"
  /\ \A i \in DOMAIN tasks : tasks[i].pc \in Over
  /\ UNCHANGED vars

Step(i) ==
  \/ OnTriggered(i) \/ NoProvider(i) \/ Sourced(i) \/ EnsureGraph(i)
  \/ StartTurn(i) \/ StartRefused(i)
  \/ \E ids \in (SUBSET Named) \ {{}} : ParkForRoll(i, ids) \/ ParkMalformed(i, ids)
  \/ ParkRefused(i) \/ ParkReplayed(i) \/ Commit(i) \/ TurnFails(i)
  \/ ReportFailure(i) \/ ReportRefused(i) \/ Finally(i) \/ OnSessionEnded(i)

Next ==
  \/ GatewayNext /\ UNCHANGED <<dm, faults>>
  \/ \E i \in DOMAIN tasks : Step(i) \/ DatabaseError(i)
  \/ Restart
  \/ Terminated

Spec == Init /\ [][Next]_vars

\* The event loop runs every handler on, and a provider answers or fails. The
\* players and the host owe nothing.
FairSpec == Spec /\ \A i \in Turn : WF_vars(i \in DOMAIN tasks /\ Step(i))

-----------------------------------------------------------------------------
(***************************************************************************)
(* Properties that hold                                                    *)
(***************************************************************************)

PendingAction == [open : BOOLEAN, thread : Turn \cup {NoThread}, authorized : SUBSET (Character \cup Named)]
Task == [kind : {"start", "resume", "ended"}, action : Nat, pc : TaskState]

\* Every variable stays within the columns, handlers and states of the code.
TypeOK ==
  /\ status \in Status
  /\ pausedFrom \in Status \cup {NotPaused}
  /\ actions \in Seq(PendingAction)
  /\ tasks \in Seq(Task)
  /\ active \in Turn \cup {NoTurn}
  /\ checkpointer \in BOOLEAN
  /\ threads \subseteq Turn
  /\ asked \subseteq Turn
  /\ told \in [Turn -> Nat]
  /\ faults \in Nat

\* M5.5: a table that waits for a roll, or will when its pause is over, has an
\* open action - although rolls close several at once, and turns and host
\* controls move the status from under them.
AwaitedRollExists ==
  status = "WAITING_FOR_ROLL" \/ pausedFrom = "WAITING_FOR_ROLL" =>
    \E a \in DOMAIN actions : actions[a].open

\* Which roll closes an action: one of the characters it names. Those the host
\* names are of the party. Those a turn names are the model's and are compared
\* with nobody, so its action may be one that no roll closes.
RollsHaveRollers ==
  \A a \in DOMAIN actions :
    /\ actions[a].authorized # {}
    /\ actions[a].thread = NoThread => actions[a].authorized \subseteq Character

\* "a host who cannot resume from a pause is trapped" (hostControl): paused_from
\* is set exactly while the table is paused, and to a status the table may
\* return to.
PauseCanBeLifted ==
  /\ (status = "PAUSED") <=> (pausedFrom # NotPaused)
  /\ status = "PAUSED" => CanTransition(status, pausedFrom)

\* The row says the DM is generating, and no call is at work that would yet end
\* it "by finishing, by parking on a roll, or by failing" (session-state.ts).
Abandoned ==
  /\ status = "DM_GENERATING"
  /\ \A i \in DOMAIN tasks : tasks[i].pc \notin {"invoking", "failing"}

\* A generating table is abandoned by a fault alone: a second ask, a malformed
\* id, a refused statement or the death of the process. Overlapping turns, rolls,
\* failures and host controls never do it.
OnlyFaultsAbandon == [][~Abandoned /\ Abandoned' => faults' # faults]_vars

\* M6.6, M6.7: a turn is told to the table at most once: it narrates once, or is
\* reported failed once, never both, over all its parkings and resumptions.
TurnIsToldOnce == \A t \in Turn : told[t] <= 1

\* M6.8: "Checkpoints exist to survive the WAITING_FOR_ROLL gap": until the
\* session ends, an open action still has the checkpoint its roll will resume,
\* whichever turns end, fail or restart meanwhile.
OpenActionKeepsThread ==
  status # "SESSION_ENDED" =>
    \A a \in DOMAIN actions :
      actions[a].open /\ actions[a].thread # NoThread => actions[a].thread \in threads

\* parkForRoll, closePendingAction, REQUEST_ROLL: a wait has an open action, a
\* request of the host is one that members of the party close, and the turn
\* behind an action can be taken up again - across restarts, errors, ids of
\* nobody and other turns.
ParkedTurnIsIntact == AwaitedRollExists /\ RollsHaveRollers /\ OpenActionKeepsThread

\* M5.6: a paused table is still. No roll closes or opens an action and no turn
\* is told, whatever handlers were under way when the pause came; and a table
\* that has ended stays so for good.
StoppedStep ==
  status \in {"PAUSED", "SESSION_ENDED"} =>
    /\ actions' = actions
    /\ told' = told
    /\ status = "SESSION_ENDED" => status' = "SESSION_ENDED"

StoppedTableIsStill == [][StoppedStep]_vars

\* Over time: the DM stops generating, or a fault has left it so.
GeneratingEnds == status = "DM_GENERATING" ~> status # "DM_GENERATING" \/ Abandoned

-----------------------------------------------------------------------------
(***************************************************************************)
(* Statements of the repository that the code does not keep                *)
(***************************************************************************)

\* M5.5: "When an authorized roll closes it, that fires the
\* pending_action_completed trigger, which resumes the parked graph run".
ClosedActionIsResumed ==
  "pending_action_completed" \in Registry =>
    \A a \in DOMAIN actions :
      ~actions[a].open /\ actions[a].thread # NoThread =>
        \E i \in DOMAIN tasks :
          tasks[i].kind = "resume" /\ tasks[i].action = a /\ tasks[i].pc # "dropped"

=============================================================================
