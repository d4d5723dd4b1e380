# Formal model of dnd-lm

TLA+ specifications of the server and the browser client of dnd-lm (a multiplayer
table-top session with a language model as Dungeon Master), TLC configurations that
check them on small instances, and TLAPS proofs that hold for every instance.
Paths below are relative to the repository (`src/` in the map of `PROJECT.json`).

## The system

One NestJS process (`apps/api`), one Postgres database, browsers (`apps/web`).

| Part | State it keeps | Operations | Who calls it |
|---|---|---|---|
| `SessionService` (`session.service.ts`) | `sessions` row (status, paused_from, next_sequence, state_version), `session_events`, `commands` | `runCommand`: one transaction per command; `snapshot`, `eventsSince`: reads | gateway, orchestrator, membership |
| State machine (`session-state.ts`) | the table of legal status changes | `canTransition`, `acceptsMutations` | `SessionService.setStatus`, client |
| `SessionGateway` (`session.gateway.ts`) | sockets, rooms, a token bucket per socket, `pending_actions` rows | SEND_MESSAGE, ROLL_DICE, REQUEST_ROLL, HOST_CONTROL, resume, publish, handshake, evict | browsers; evict: HTTP |
| Router (`contracts/router.ts`) | none | `resolveRegistry`, `buildRoster`, `parseMessage` | gateway |
| `DmOrchestrator` (`dm/orchestrator.ts`) | in memory: `active`, the checkpointer; in Postgres: LangGraph checkpoints, `pending_actions` | `onTriggered`, `onSessionEnded`, bootstrap sweep | gateway (not awaited) |
| DM graph (`dm/graph.ts`) | the channels of one graph run per turn, checkpointed at an interrupt | entry, build_context, call_dm, request_roll, execute_read_tools, validate_output | orchestrator |
| Context assembly (`dm/context.ts`) | none | four reads, the layers of a prompt with their budgets, read tools | graph |
| Providers (`dm/provider.ts`, `dm/*.adapter.ts`) | none | one streamed completion through the delta gate | graph |
| Web client (`useSession.ts`, `status.ts`) | high-water mark, quoted version, live status, snapshot, lines | socket handlers, send, roll | React components |
| Campaigns, membership, invites | tables, `campaigns.settings` (jsonb) | create, invite, accept, remove, triggers, select provider | HTTP |
| Characters | sheets (jsonb) | import, hit points, delete; changed by DM proposals | HTTP, orchestrator |
| Provider connections | rows, encrypted keys, stored test verdict | create, update, replace key, test, delete | HTTP (admin) |
| Context cache | memory, per campaign | fill (two queries), invalidate | gateway, HTTP |

Calls: a browser's command goes over the socket to the gateway, which runs it as one
`runCommand` and, after the commit, publishes the returned events into rooms. A
`DM_TRIGGERED` event starts `onTriggered` without awaiting it. A turn writes through
`runCommand` again, between two and three times (`:start` or `:resume`, then `:ask`,
`:commit` or `:failed`), and between those awaits anything else may run: other turns,
rolls, pauses, the end of the session, a restart.

What is hard here, and is therefore what the models are about:

* overlapping transactions at READ COMMITTED, with chat deliberately outside the
  advisory lock;
* duplicates and retries of one command id, before, during and after the original;
* long-running handlers that decide on state they read before an await (`active`, the
  session row, the roster), and share one in-memory mark per session;
* a turn parked across a restart, with its checkpoint in one table and its action in
  another;
* host controls (pause, resume, end) at any moment;
* a socket whose live events and resume answers overtake each other;
* HTTP requests that read one row and write another (memberships, connections, sheets),
  next to each other and next to a turn that commits, with the cache and the sockets
  catching up after the commit;
* text that arrives in pieces cut anywhere.

What makes each part correct, in short: the log has no gap and no command two effects
(sessions); a pause can be lifted and holds (state machine, gateway); a wait has an open
action, an open action the checkpoint its roll resumes, a turn is told once and ends unless a fault stops
it (orchestrator; whether somebody can make the roll a turn asked for is up to the model);
a transcript without repetition, private lines kept private and no status change hidden by an older
snapshot (client); a retry budget that is kept over interrupts and a
narration without its control block (graph); a prompt with the newest lines (context); no
campaign that refers to a deleted connection, no verdict of another configuration
(providers); a line routed by the campaign as it is, no campaign without a host, no invite
used twice, no socket of a removed member (membership, router, cache, gateway); sheets within
reach of what can be read, deletions that last, and edits over HTTP that overwrite nothing unseen
(characters; a turn may overwrite an edit it has not read).
`PROJECT.json` lists the hazards, each at its line.

## Modules

| Module | Models | Lines up with the code |
|---|---|---|
| `SessionStates` | `session-state.ts` | `TRANSITIONS`, `AcceptsMutations` |
| `SessionCommands` | what a command is to `runCommand`: mode, number of events, status it moves to | `Mode`, `Drafts`, `Target`; `LegalMove` is `assertTransition` |
| `AtomicSession` | abstract: a command takes effect once, in one step | what `SessionService` promises its callers |
| `SessionService` | `runCommand`, statement by statement, for any number of calls | one action per statement that touches shared state: `StoredAck`, `Begin`, `AdvisoryLock`, `Claim`/`ClaimViolation`, `ReadSession`/`Refuse`, `Allocate`, `Commit`/`IllegalTransition`, `Publish`; `Abort` and `Crash` at any of them |
| `SessionGateway` | the commands that move the session row, pending actions or wake the DM | one action per command; its `Call` is the `void this.dm...` in `publish` |
| `DmOrchestrator` | composes the gateway with the orchestrator's handlers | `tasks[i]` is the i-th call of the orchestrator, its `pc` the await it stands at; `active`, `checkpointer` the fields of that name, `threads` the checkpoints, `asked` the committed `:ask` commands, `told` a count of narrations and failure reports, `faults` counts what the code has no answer to |
| `DmGraph` | one turn of `graph.ts` | one action per node with the edges that leave it; a variable per channel of `DmState`, a boolean where control asks only whether it is set; `last`, `prompt`, `shown` and `rejected` record what the properties speak of |
| `DmStream` | extends `DmGraph`: one call of `call_dm` in its steps, `makeDeltaGate`, `parseDmOutput`'s split at the marker | `StartCall`, `Delta` (a chunk of any length through `Push`), `FinishCall`, which is `DmGraph`'s `CallDm` |
| `DmContext` | `buildContextPackage` and `DmContextReader` over a table that goes on | `BuildContext` is the node; `TableStep` what changes the rows it reads |
| `SessionClient` | `publish`, `onResume`, `eventsSince` and the client's `useSession` | `log[i].to` is what an event says of the status, `log[i].status` the row after it (a roll request and a roll move the row without a word); `inbox` is a socket, `local` the refs and React state, `request` the progress of `onResume` between its two reads |
| `Router` | `router.ts` | every rule of `parseMessage` in its order, over tags; names are sequences, so that a suffixed handle can equal another's name |
| `Membership` | `campaigns.service.ts`: invites, acceptance, removal, trigger settings | `request[r].pc` is the statement a request stands at, `locks` the rows it holds FOR UPDATE |
| `ContextCache` | `session-context.service.ts`, over `Membership` and `Router` | `fill[f]` between its two queries and its store |
| `SessionSockets` | handshake, rooms, `evict`, over `ContextCache` | `Authenticate`, `Join`, `ReadMembership` are the awaits of the handshake |
| `TokenBucket` | `token-bucket.ts` | `Take`, `Grants` |
| `ProviderConnections` | `connections.service.ts`, `connection-test.service.ts`, `setProvider`; extends `TokenBucket` | `rowLock` is FOR UPDATE; `request[r].read` what a test probed |
| `CharacterSheets` | `characters.service.ts`, `validateProposals` and `applyProposal`, the insert of a pending action | `turn` is the commit of a turn, statement by statement, `turn.own` its uncommitted rows |
| `*Proofs` | theorems about the module of that name; `SessionSocketsProofs` also those of `Router`, `Membership` and `ContextCache`, which it extends, `ProviderConnectionsProofs` those of `TokenBucket` | |
| `MC*` | instances for TLC | |

How they fit: `SessionService` is proved to implement `AtomicSession`. That is what allows
`DmOrchestrator` and `SessionClient` to take a whole `runCommand` as one step. What a
handler does between two of them is never one step. `SessionSockets` extends `ContextCache`,
which extends `Membership`, which extends `Router`: a removal that has committed must still
drop the cache and evict the sockets, and what lies between is the subject. `DmStream` extends
`DmGraph`, whose properties it is checked with.

Abstractions worth knowing:

* Payloads are left out except where a property needs them. An event is its command and its
  version (`SessionService`), or the status it sets and who may see it (`SessionClient`).
* The transaction's own writes become visible in `Commit`, as at READ COMMITTED; what it
  has locked before is in `advisory`, `claimed` and `rowLock`. A connection is taken from
  a finite pool, so that waiting for locks while holding one is in the model.
* `Wrapping` says whether the ORM hands on a driver error as the `cause` of its own. The
  installed drizzle (0.45) does, and then `isUniqueViolation` does not recognise it; the run
  takes either.
* In `DmOrchestrator` a trigger lost because the process died between commit and publish is
  the same state as one whose task is lost right after it was appended, so `Restart` covers it.
* In `DmOrchestrator` the graph is a choice of outcomes: it asks for a roll, commits, or fails. It
  may do so whenever its checkpoint exists. `DmGraph` is that choice in detail: it parks, ends with a
  proposal or a failure (`EndHasOneOutcome`), or throws. There a reply of the model is what
  `parseDmOutput` and the checks of `call_dm` distinguish, and a missing provider is one of its errors.
* A function the prover has to look into has a definition it can read: the roster is folded by a recursive
  function, and the events of an answer are put in order by `InOrder`, which says what the order is
  (TLC's own `SortSeq` is evaluated in Java and has no definition to prove from).
* The registry of triggers is full in the orchestrator's runs and any subset in the proofs.
* A sheet is its current hit points and the rows of one inventory item (`CharacterSheets`), a
  text its number of tokens (`DmContext`) or a sequence of symbols with a fence of three
  (`DmStream`), a connection one row, a key its version (`ProviderConnections`).

## Runs

| Run | Instance | Shows |
|---|---|---|
| `session` | 3 calls, 5 commands of all modes, one with two events and one with none, stale versions, aborts, crashes, 2 connections, wrapped and bare driver errors; 417 564 states | `TypeOK`, `LogIsConsistent`, `AnswersAreTrue`, `PublishedIsCommitted`, `DecidesOnCurrentRow`, `CommitsOnShownVersion`, `PauseAndEndHold`, the refinement `ImplementsAtomicSession`, and `EveryCallAnswered`: no deadlock among advisory lock, unique index, row lock and pool |
| `dm` | a party of one and a character of another table, 2 pending actions, 3 orchestrator calls, 2 faults (restarts, refused statements, malformed ids, second asks); 1 165 224 states | `TypeOK`, `PauseCanBeLifted`, `ParkedTurnIsIntact`, `TurnIsToldOnce`, `OnlyFaultsAbandon`, `StoppedTableIsStill`, `GeneratingEnds` |
| `dm_stream` | 2 attempts, 25 supersteps (the code's values), 2 rolls, 5 completions cut anywhere; 66 052 states | `TurnEndsOnce`, `RejectedProseIsRetracted`, `StreamIsNarration`, `FeedbackReachesModel`, `InvocationEnds` |
| `client` | 1 client, 2 events, 2 connections, 1 failed resume, a crash at any time; 119 857 states | `TranscriptInOrder`, `WhispersStayPrivate`, `StatusIsNotRolledBack`, `AnswerReachesItsSnapshot`, `PlayersCatchUp` |
| `sockets` | 3 users (two of one name, one with the name of a suffixed handle), 1 invite, 2 requests, 1 fill, 1 socket, 1 crash; 1 987 390 states | `TypeOK`, `SomeoneIsInCharge`, `InviteAdmitsOnce`, `HandlesAreUnique`, `RoutesAsTheCampaignIs`, `LiveSocketsAreMembers` |
| `providers` | 4 requests (symmetric), 2 values per field that changes, 2 keys, clock 0..2 either way; 1 568 070 states | `VerdictIsOfThisConfiguration`, `SelectionExists`, `TestsAreLimited`, `AuditTellsWhatHappened` |
| `sheets` | 1 character, 2 requests (symmetric), sheets with no row, or two of the item, replies of one to three proposals; 1 896 540 states | `HpStaysInReach`, `DeletedStaysDeleted`, `StaleTabsAreRefused`; not that nothing is lost: a turn may write over an edit it has not read, and give the row that edit's version |
| `dm_resume`, `dm_context`, `client_gap`, `sheets_reply`, `sheets_delete` | small | disagreements of code and documentation, below |

Bounds. Three calls are the smallest number with a command, its retry and a bystander that
holds the lock or the pool. Two actions and three orchestrator calls are the smallest with a
parked turn, a roll that closes two actions, and a third turn in between. A party of one is enough
with a character of another table: a turn may ask for a roll somebody can make, for one nobody can, or for both, and
a host only for the first (`requestRoll` compares the ids, `parkForRoll` does not). Two faults let one follow
another, such as a restart after a second ask. Two rolls are enough for a roll, an accepted reply, and another roll within one turn of the
graph, and 25 supersteps are far more than the retries of a turn need, so that both the limit and
the ends before it occur. The fence of three symbols begins with a repeated one, as the real one
does; it can be cut at every place, and the completions hold it whole, after a false start, broken
off and not at all. Two events let an event be missed, and then be overtaken by a live one;
clients do not act on each other, and one client plus whispers it is not party to (`Chat`
contains the empty set) is every situation a client can be in; the type of the module still has
any number. A client rolls only when its last roll has been answered. Two requests suffice for an
invite accepted twice, two hosts that remove each other, and a removal next to a change of the
settings. The four provider requests are an update or new key during a test, and a selection and
a deletion. One character is enough for the sheets, because no property relates two; version and
hit-point bounds leave room for an edit, a turn and an edit after it, and replies of three blows for hit points
that go below zero once and would go further if the row were not read again. In `dm_context` two lines
stand for the forty rows the query is limited to. The runs without a deadlock check end when
their requests are used up and everything is delivered.

Fairness. `SessionService`: each call's next step is weakly fair: the event loop runs on
and Postgres serves its lock queues; `Abort`, `Crash` and new calls owe nothing.
`DmOrchestrator`: each handler's next step is weakly fair, which includes that a provider
answers or fails (the adapters set no timeout of their own and rely on the SDK's or the
peer's). Players and host owe nothing. `DmGraph`: the graph goes on while it can, for the same
reasons, and a provider goes on sending until it has sent everything or fails (`DmStream`);
nobody has to roll. `SessionClient`: server, sockets and browser run on, and
the player keeps rolling, the premise of `PlayersCatchUp`; connecting owes nothing.

## What the code does not keep

Each is a run that TLC must find violated, and a finding in `PROJECT.json`.

* `dm_resume` (`session.gateway.ts:523`): a roll closes every open action of its character but
  resumes one, and a resumption that meets a running turn is dropped.
* `dm_context` (`context.ts:227`): the transcript query takes the first forty public lines of
  the session, not the last; the cut that follows drops the oldest of the wrong forty.
* `client_gap` (`useSession.ts:74`): an event that arrives before the answer to `resume` moves the
  high-water mark past the missed events; the answer's events are then dropped for good.
* `sheets_reply` (`orchestrator.ts:952`): the proposals of a reply are each validated against the sheet
  as it was before the first of them; two damages that are valid alone leave negative hit points, which
  no read path accepts.
* `sheets_delete` (`characters.service.ts:176`): the `NOT EXISTS` that guards a deletion sees the pending actions as
  of the start of the statement, and the insert of one takes no lock that a deletion meets. An action that
  commits after that, at the latest while the deletion waits for a row a turn has written, loses its character. The
  comment at `:162` says the guard leaves no window because it is part of the write.

Disagreements without a run of their own; the properties that hold are stated around them:

* A concurrent duplicate is meant to wait, hit the unique index and be given the stored answer.
  `isUniqueViolation` looks at `error.code`, drizzle 0.45 puts the driver's error in `error.cause`;
  the duplicate fails instead. Nothing is done twice (`AnswersAreTrue` with `Wrapping`).
* A turn that asks for a second roll uses the command id `<turn>:ask` again, is answered as a
  replay, counts as parked and leaves the session in DM_GENERATING with no roll to make. A malformed
  character id in the model's request ends the same way (`orchestrator.ts:550`: the insert throws,
  nobody reports it), as do a restart within a turn and a refused statement. `OnlyFaultsAbandon` is checked, and
  proved, with all of them in the model: it says that nothing else leaves a table so.
* "A forged character id must never reach a pending action's authorized set" (`session.gateway.ts:558`). It holds
  of what a host asks for. `validateRollRequest` (`tools.ts:160-183`) and `parkForRoll` store the ids a turn
  names as they are, so a well-formed id of nobody at the table opens a wait that no roll ends; the host has to move on.
  `ParkedTurnIsIntact` therefore promises an open action and its checkpoint, not a roll.
* The displayed status can be rolled back, by events instead of a snapshot: `useSession.ts:167-169` shows the
  snapshot of the answer and then replays the missed events over it. With WAITING_FOR_ROLL in the snapshot and the
  turn's change to DM_GENERATING among the missed ones, the display ends at the latter, since a roll request says
  ROLL_REQUESTED and no SESSION_STATE_CHANGED (`orchestrator.ts:527-541`, `session.gateway.ts:584-600`,
  `status.ts:17`). `SessionClient` has these silent moves, and `StatusIsNotRolledBack` says what is left: a snapshot does
  not hide a change, and a change is not replaced by an older one.
* "Ends a parked checkpoint the moment the session ends" (`orchestrator.ts:204`): not in a process that has not built
  its checkpointer (`:306`), and the sweep at a start takes only closed actions, so the checkpoint of an action that was
  open at the end stays for good.
* `active` is checked before and set after awaits, so two turns of a session can run at once,
  although a comment says one does.

Seen while modelling:

* Session. Two actions can be open at a time although `session.gateway.ts:507` says otherwise (the
  host may resume a pause, or a failed turn may end a wait, with the action still open); `docs/changes/U1.0.md`
  says the orchestrator broadcasts its status changes, but the events of `:start` and `:resume` are
  dropped (`orchestrator.ts:386`, `:643`), so a connected client never shows DM_GENERATING; line 168 of
  `useSession.ts` may set the version back below what was already seen, which costs the player one
  STATE_CONFLICT (`PlayersCatchUp` shows that it is not for ever).
* Graph and stream. The model is told that a roll comes back before it continues (`TOOLS_DOC`), but
  `call_dm` clears `rollNote` with every reply, so the retry after an invalid reply no longer carries the
  roll (only the next call is promised in `FeedbackReachesModel`); `graph.ts:135` calls the recursion limit
  one per turn, but each `graph.invoke` counts its own supersteps, so every roll starts it anew; a
  control block without its fence, which the lenient parser accepts, is streamed to the table as prose
  (`provider.ts:71`); a completion that breaks off inside the fence shows its first half (`provider.ts:72`);
  prose that came with a request for tools is shown and never committed.
* Context. The action thread and the notes are sent in full but counted only up to their budget
  (`context.ts:425`), so a prompt may exceed the total; the last line of the transcript is kept whatever its length; the
  contract is not counted; `unresolvedAction` keeps returning the last completed action, turns later;
  what a turn reads is as of its `build_context`, also after a roll it was parked for; `srdRuleset` (`context.ts:332`) has no caller.
* Sheets. An import may have more hit points than its maximum; `add_item` may push a quantity past 9999,
  after which the row cannot be read; `remove_item` is validated on the sum of duplicate rows but takes from the
  first; `add_item` for a target that has gone is skipped without a word; who may change whose sheet is
  not checked again at the commit, contrary to `contracts/src/index.ts:197`; one unreadable sheet fails
  the list of all; a turn that reads a row before an edit commits writes the whole sheet back over the edit, with the
  same version (`orchestrator.ts:995`), so that a tab which has seen the edit may then write over the turn.
* Campaigns. The owner is a host who cannot be removed, so LAST_HOST (`campaigns.service.ts`) cannot occur; a member
  who accepts an invite spends it; a cache fill that an invalidation overtakes stores what it read before (`session-context.service.ts:63`);
  a selection and a deletion of a connection that overlap leave a campaign with a dangling reference (`SelectionExists` names the exemption).
* Dice and import, read but not modelled: the modifier of a dice expression is not bounded by
  `parseDiceExpression`, so a large one overflows `rolls.total` (int4); in `wotc-sheet.ts` a sheet on which only Flaws is filled, a
  spell's `SaveHit`, and comma-grouped coins ("1,234" is read as 1) are lost without being named, although a comment says
  nothing disappears quietly.

## Proofs

Everything in `*Proofs` is checked by TLAPS for arbitrary constants, under the assumptions
named in the modules, which TLC evaluates on every run:

* `SessionCommands`, `SessionService`: `CommandAssumption` (modes, draft counts and targets are of their types),
  `RequestAssumption` (a finite set of calls, at least one connection);
* `SessionGateway`, `DmOrchestrator`: `GatewayAssumption`, `OrchestratorAssumption`: types of bounds and switches;
* `DmGraph`, `DmStream`: `GraphAssumption` (at least one attempt), `StreamAssumption` (the fence is not empty);
* `Router`: `NameAssumption`, `UserAssumption` (finitely many users; the users table is finite); `Membership`:
  `OwnerAssumption`, `RequestAssumption` (no invite is for an admin, as `CreateInviteRequest` has it,
  `contracts/src/index.ts:324`, and a switch names a trigger of the registry, else UNKNOWN_TRIGGER,
  `campaigns.service.ts:351`); `SessionSockets`: `CrashAssumption`, a bound;
* `ProviderConnections`, `TokenBucket`: `ValueAssumption`, `PatchAssumption` (what the DTOs let a patch say),
  `RequestAssumption` (`NoOne` is no request), `BoundAssumption`, `BucketAssumption`;
* `CharacterSheets`: `CapAssumption`, `SheetAssumption` (an imported row is at version 0, the column's default),
  `ReplyAssumption`; `SessionClient`: `ClientAssumption` (finitely many browsers, types).

Most safety properties of the runs that pass are stated by a theorem, invariants and action properties
alike; the invariants used for it were first checked with TLC on the run's own instance. Those that are not are at
the end of this section.

`SessionServiceProofs`. `TypeCorrect`, then the chain: `LockInv` says who holds what at which
`pc` (one holder of the advisory lock, one uncommitted claim per command, one allocation at a
time). It gives `CurrentInv`: what a mutation read is still the row, an allocation is the next
free range, the checks passed still pass. `DecidesOnCurrentRow` alone is not inductive, because a
commit by another call would change the row under it: the lock facts exclude it for mutations, and
`OnlyCommitWrites` says nothing else writes. With it a commit is an append
(`CommitIsAtomic`), from which follow `NoGaps`, `AnswersDescribeLog`, `VersionsCountMutations`,
`VersionsNeverDecrease`, `DuplicatesAgree`, `PublishesAfterCommit`, the action properties
`ClientsCommitOnShownVersion` and `PausesAndEndsHold`, and the refinement
`TransactionsImplementAtomicSession` (`ViewOfAppend`: the log seen in order grows by the batch).

`DmOrchestratorProofs`. `CallsInv` ties every call to a kind and an action that fit its `pc`:
a resumption's action is closed and has a thread, no two resumptions have the same one, an open
action's turn was asked for and its own call is parked or over. `PausesCanBeLifted`,
`AwaitedRollsExist`, `StoppedTablesAreStill` and `OpenActionsKeepThreads` follow from it with
lemmas on which steps write what (`RowMoves`, `QuietStep`, `CheckpointsDeleted`).
`TurnsAreToldOnce` needs `ToldInv`: a turn that one of its calls may still tell has not been told,
and `OneTellerPerTurn`. `TurnsAreAbandonedByFaults` is a theorem about steps, with every fault allowed: without one, a
call at work on a generating session moves on to its report or the status does (`WorkGoesOn`), the other calls stay
where they are (`OthersStay`), and the only step into DM_GENERATING is that of a call which goes to work. `RollersAreNamed` is what
`ParkedTurnIsIntact` says of rolls: a host's request names members of the party, a turn's somebody. With
`AwaitedRollsExist` and `OpenActionsKeepThreads` it makes `ParkedTurnsAreIntact`. None of them says that a
wait for a roll comes to an end; with an id of nobody it does not.

`DmGraphProofs`. `GraphInv` adds to the types three facts about each node. `AttemptsCountLosses`: while
a run is under way the calls it lost are exactly its attempts; at `validate_output` there is a
final proposal, or one more loss than attempts. That relates `rejected` to the only counter the code
has, and `RetryBudget`, `EndHasOneOutcome` and `CommitsFinalReply` follow. `RequestsAreServed`: a request
sits in its channel only at the node that serves it. `NothingToRetract`: before the first lost attempt
every reply on display was accepted. `CallDmGoes` and `ValidateOutputDecides` state once what the two
branching nodes may do. `FeedbackArrives` assumes MAX_ATTEMPTS <= 2, the code's value: with three, an
error that follows an invalid reply would leave the old validation error in its channel.

`DmStreamProofs`. `StreamImplementsTurn`: a turn with its stream is a turn of `DmGraph`, so the theorems above hold
of what `dm_stream` runs. `StreamsAreNarration` rests on `GateInv`: while no fence has gone by, what has
arrived is what was sent followed by what is held, there is no fence in it, and as much is held as the fence
is long, or all. `StreamIsNarration` is not inductive without the latter: a fence that
begins in what was sent would be complete in a later chunk (`NoPlaceInSent` shows it would end within
what was held, and have been found). The fence is any sequence of symbols that is not empty
(`StreamAssumption`).

`SessionSocketsProofs`. `MembershipInv` holds for every step of the requests, and for all the rest, which leave the
memberships alone (`MembershipStep`). `SomeoneIsInCharge` is not inductive: a removal decided before the
campaign is locked would take whoever it names. `OwnerIsHost` is what the code relies on: the owner is a host, no
removal under way names the owner, and an acceptance does not overwrite a role. `InviteAdmitsOnce` needs
`InvitesAreHeld`, the row lock: between its look and its write an acceptance holds the invite, and
nobody has spent it. `LiveSocketsAreMembers` is inductive beside the types, because the handshake's second
look and the pending eviction are both in its statement. `HandlesAreUnique` is about a fold over members in
any order. `SeatKeepsHandles` says that one more seat keeps the handles different, `RosterOfMembers` that so
does the whole roster. The library's induction theorems cannot be used here (they take an operator as a
parameter, which the provers cannot instantiate); `NumberInduction` states the same of a set of numbers,
from the well-foundedness of `<`, and is. The proof brought out what the comment at
`router.ts:142` ("the full id always works") assumes: that nobody's display name spells
another member's name with the full id behind it. The last candidate is taken unchecked, and nothing excludes such a name: a
display name may have 64 characters and an id without its hyphens has 32. So `HandlesDiffer` proves
`OnlyFullIdsCollide`, for any names: two members share a handle, or one has a reserved one, only where it is
such a last candidate (`Apart` is its form for a roster under construction). That handles are unique otherwise, `HandlesAreUnique`, is
model-checked on a party in which a name equals a suffixed handle and none a full one. `RoutesFollowTheContext` is about one
parse against whatever roster and registry the cache holds: who a line reaches and which trigger it fires. That
these are the campaign's (`RoutesAsTheCampaignIs`) is model-checked only, and but for an overtaken fill.

`ProviderConnectionsProofs`. `RowInv` has two parts besides the types. `UpdateInv`: a request that has the row
locked holds the diff against the row as it still is; from it follows `AuditTellsWhatHappened`, an action
property: the audit's fields are the ones that change, also when the row changed between the first read
and the lock. `VerdictInv`: `VerdictIsOfThisConfiguration`, and no verdict before there is a row.
`LimitInv` is the accounting behind `TestsAreLimited`: the tests
let through, what is in the bucket, and what it is owed since its last refill are together no more than a full
bucket and the forward ticks. Without the debt it is not inductive, since a take credits ticks that went by
long before. `TakeConserves` states it for one take and any clock.

`CharacterSheetsProofs`. `SheetInv` ties the copies of a sheet to the row. `TurnInv`: a turn's proposals are valid for
the sheets it saw, and the sheet it is about to change could be read. `HeldInv`: a row a turn has written but not committed is
still there, and within one proposal of a sheet that could be read; it is what `HpInReach` adds to `HpStaysInReach`, and with the row
lock what `DeletedStays` rests on: nobody deletes a row that is held, and an update of a row that has gone changes none.
`TabInv`: a request under way is about a character.

`SessionClientProofs`. `ClientInv` says of each client what each copy on its way may hold: `RequestOK` the
server's progress between the two reads of `onResume`, `InboxOK` the packets of the socket, `LocalOK` and `SeenOK` the
browser. `Accurate`: a snapshot is the log up to its last event, whatever has been appended
since. `Covered`: what a client may see up to that event is among the answer's or below the client's
high-water mark; `AnswerReachesItsSnapshot` follows. `TranscriptInOrder` needs that all lines are at or
below the mark; `StatusIsNotRolledBack` that the live change is an event of the log that says where the status goes, and that events
are applied in their order. `EventsApplied` is the one lemma about
`applyEvent`: it appends what lies above the mark, in order. It rests on `InOrderOf` (every finite set of
sequences has an order, by `NumberInduction` over its size) and `MaxOf`.

Only model-checked: the liveness properties (`EveryCallAnswered`, `GeneratingEnds`,
`PlayersCatchUp`, `InvocationEnds`), since fairness and ENABLED are beyond the prover; `HandlesAreUnique`,
`RoutesAsTheCampaignIs`, `SelectionExists` and `StaleTabsAreRefused`, whose exemptions or premises are the cases that matter most, so that
a theorem would promise more than it holds; and the five
properties that the code does not keep, which TLC refutes (among them the only one of `DmContext`).
The `TypeOK` of `DmGraph`, `SessionClient`, `ProviderConnections` and `CharacterSheets` is in no run: it is proved.

## Not modelled

Pure functions of text and layout: prompts, dice notation, the derivation of modifiers from a sheet, PDF
import, schemas of DTOs. Network I/O: the protocols of the adapters, DNS. Cryptography: passwords, tokens,
the encryption of keys (a key is a nonce). Tables of addresses (`base-url.ts`; its verdict is a
choice). Rendering; the client's provisional narration buffer and optimistic chat line, which only one
browser sees. Telemetry, logs, dependency injection, scripts. The limit of commands per socket
is the bucket that `ProviderConnections` checks, with other numbers.

## Plan

Done, in this order: the session's transactions and their abstraction, the gateway and the
orchestrator over them, the client over the log, the turn of the graph; then the narration stream and
the context of a turn, membership with router, cache and sockets, provider connections, character sheets.
Then the proofs, component by component: the session and its refinement, the orchestrator, the graph and the
stream; the sockets with membership, router and cache, the provider connections, the sheets, the client. Next:

1. The client's replay against silent moves, as a run of its own next to `client_gap`.
2. A turn that writes over an edit it has not read, likewise next to `sheets_reply`.
