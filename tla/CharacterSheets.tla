-------------------------- MODULE CharacterSheets --------------------------
(***************************************************************************)
(* The stored sheets of a campaign's characters and the four writers that  *)
(* share them: imports, the owner's HP edits, deletions                    *)
(* (characters.service.ts) and the commit of a DM turn                     *)
(* (orchestrator.ts, validateProposals and applyProposal). A turn holds    *)
(* the session row, which none of the others takes, and no lock on the     *)
(* sheets it has validated. The pending action that names characters is    *)
(* here too, because a deletion looks at it.                               *)
(*                                                                         *)
(* A sheet keeps what a turn can change: the current HP and the rows of    *)
(* the inventory that hold one item of the campaign's list (an import may  *)
(* hold several), each the quantity it says.                               *)
(***************************************************************************)
EXTENDS Integers, SequencesExt, FiniteSetsExt

CONSTANTS
  Char,        \* the characters that may be imported
  Request,     \* the HTTP requests that may be made, each once
  MaxHp,       \* the maximum HP of a character
  HpCap,       \* the largest current HP the schema takes, whatever the maximum
  MaxQuantity, \* the largest quantity of an inventory row the schema takes
  Import,      \* bound: the sheets that are imported
  Reply,       \* bound: the proposals a DM turn may commit, in order
  MaxVersion   \* bound: changes of one sheet

ASSUME CapAssumption == MaxHp \in 1..HpCap /\ HpCap \in Nat /\ MaxQuantity \in Nat
ASSUME SheetAssumption == /\ MaxVersion \in Nat \ {0}
                          /\ Import \subseteq [there : {TRUE}, hp : Int, rows : Seq(Int), version : {0}]

VARIABLES
  sheet,       \* the characters table, as committed
  turn,        \* the commit of a DM turn
  ask,         \* a roll request between its checks and its transaction
  open,        \* the open pending action
  request,     \* the HTTP requests
  crossed      \* history: characters turns wrote over an edit they had not read

vars == <<sheet, turn, ask, open, request, crossed>>

NoSheet == [there |-> FALSE, hp |-> 0, rows |-> <<>>, version |-> 0]
Deleted == [NoSheet EXCEPT !.version = 1]   \* an id is not given out again

\* CharacterSheet.parse: what every read path demands of a stored row. It does
\* not compare the current HP with the maximum.
Readable(s) == s.hp \in 0..HpCap /\ \A q \in Range(s.rows) : q \in 1..MaxQuantity

Idle == [pc |-> "idle", reply |-> <<>>, at |-> 1, read |-> NoSheet,
         own |-> [c \in Char |-> NoSheet], saw |-> [c \in Char |-> NoSheet],
         crossed |-> {}]
NewRequest == [pc |-> "new", op |-> "none", char |-> "none", seen |-> NoSheet, hp |-> 0]
NoAction == [chars |-> {}, missing |-> {}]
Close(r, pc) == request' = [request EXCEPT ![r] = [NewRequest EXCEPT !.pc = pc]]

\* Rows the turn has written are locked until it ends.
Held(c) == turn.own[c].there
\* What a statement of the turn reads: its own writes, over what is committed.
View(c) == IF Held(c) THEN turn.own[c] ELSE sheet[c]

Init ==
  /\ sheet = [c \in Char |-> NoSheet]
  /\ turn = Idle
  /\ ask = {}
  /\ open = NoAction
  /\ request = [r \in Request |-> NewRequest]
  /\ crossed = {}

-----------------------------------------------------------------------------
(* Imports and HP edits *)

ImportSheet(c, s) ==
  /\ sheet[c] = NoSheet
  /\ Readable(s)
  /\ sheet' = [sheet EXCEPT ![c] = s]
  /\ UNCHANGED <<turn, ask, open, request, crossed>>

\* A tab lists the characters: one sheet that cannot be read fails the list.
Look(r, c) ==
  /\ request[r].pc = "new"
  /\ sheet[c].there
  /\ \A d \in Char : sheet[d].there => Readable(sheet[d])
  /\ request' = [request EXCEPT ![r] = [NewRequest EXCEPT !.pc = "tab", !.op = "edit", !.char = c, !.seen = sheet[c]]]
  /\ UNCHANGED <<sheet, turn, ask, open, crossed>>

\* requireOwned, and the check against the maximum.
EditHp(r, hp) ==
  LET c == request[r].char
  IN /\ request[r].pc = "tab"
     /\ IF sheet[c].there /\ Readable(sheet[c]) /\ hp <= MaxHp
        THEN request' = [request EXCEPT ![r].pc = "checked", ![r].hp = hp]
        ELSE Close(r, "refused")
     /\ UNCHANGED <<sheet, turn, ask, open, crossed>>

\* One statement, guarded by the version the tab was looking at; it waits for
\* a turn that has written the row and is evaluated on what that turn leaves.
WriteHp(r) ==
  LET c == request[r].char
  IN /\ request[r].pc = "checked" /\ request[r].op = "edit"
     /\ ~Held(c)
     /\ IF sheet[c].there /\ sheet[c].version = request[r].seen.version
        THEN /\ sheet[c].version < MaxVersion
             /\ sheet' = [sheet EXCEPT ![c].hp = request[r].hp, ![c].version = @ + 1]
             /\ Close(r, "done")
        ELSE Close(r, "refused") /\ UNCHANGED sheet
     /\ UNCHANGED <<turn, ask, open, crossed>>

-----------------------------------------------------------------------------
(* Deletion, and the pending action it looks at *)

\* The owner or a host asks; the row is read for its owner.
RemoveCharacter(r, c) ==
  /\ request[r].pc = "new"
  /\ sheet[c].there
  /\ request' = [request EXCEPT ![r] = [NewRequest EXCEPT !.pc = "checked", !.op = "remove", !.char = c]]
  /\ UNCHANGED <<sheet, turn, ask, open, crossed>>

\* The statement begins: which actions are open, and whether the character is
\* there, is as of now. CHARACTER_HAS_OPEN_ACTION answers for either.
StartDelete(r) ==
  LET c == request[r].char
  IN /\ request[r].pc = "checked" /\ request[r].op = "remove"
     /\ IF sheet[c].there /\ c \notin open.chars
        THEN request' = [request EXCEPT ![r].pc = "deleting"]
        ELSE Close(r, "refused")
     /\ UNCHANGED <<sheet, turn, ask, open, crossed>>

\* It waits for a turn that has written the row. Then the row is looked at
\* again, and the actions are not: nothing it locks keeps them from opening.
DeleteCharacter(r) ==
  LET c == request[r].char
  IN /\ request[r].pc = "deleting"
     /\ ~Held(c)
     /\ IF sheet[c].there
        THEN sheet' = [sheet EXCEPT ![c] = Deleted] /\ Close(r, "done")
        ELSE Close(r, "refused") /\ UNCHANGED sheet
     /\ UNCHANGED <<turn, ask, open, crossed>>

\* A host names characters of the roster, a DM whatever its reply says.
RequestRoll(chars, byHost) ==
  /\ ask = {}
  /\ byHost => \A c \in chars : sheet[c].there
  /\ ask' = chars
  /\ UNCHANGED <<sheet, turn, open, request, crossed>>

\* The transaction holds the session row, like a turn's commit. A session that
\* waits for a roll already refuses to wait for another.
OpenAction ==
  /\ ask # {} /\ turn = Idle
  /\ open' = IF open = NoAction THEN [chars |-> ask, missing |-> {c \in ask : ~sheet[c].there}] ELSE open
  /\ ask' = {}
  /\ UNCHANGED <<sheet, turn, request, crossed>>

\* A roll of a character it names, or a host who moves on.
CloseAction ==
  /\ open # NoAction /\ turn = Idle
  /\ open' = NoAction
  /\ UNCHANGED <<sheet, turn, ask, request, crossed>>

-----------------------------------------------------------------------------
(* The commit of a turn *)

Proposal == [op : {"adjust_hp", "add_item", "remove_item"}, char : Char, n : Int]
ASSUME ReplyAssumption == Reply \subseteq Seq(Proposal)

\* validateProposals, of one proposal and one sheet. An addition looks at the
\* item list alone, and a change of scene, which touches no sheet, is left out.
Valid(p, s) ==
  CASE p.op = "adjust_hp" -> p.n # 0 /\ s.there /\ Readable(s) /\ s.hp + p.n \in 0..MaxHp
    [] p.op = "add_item" -> p.n >= 1
    [] p.op = "remove_item" -> p.n >= 1 /\ s.there /\ Readable(s) /\ FoldSeq(+, 0, s.rows) >= p.n

\* applyProposal: HP move by the delta; an item is added to its first row, or as
\* a row of its own, and taken from its first row alone.
Applied(p, s) ==
  [s EXCEPT
     !.hp = IF p.op = "adjust_hp" THEN @ + p.n ELSE @,
     !.rows = CASE p.op = "add_item" /\ @ = <<>> -> <<p.n>>
                [] p.op = "add_item" /\ @ # <<>> -> [@ EXCEPT ![1] = @ + p.n]
                [] p.op = "remove_item" /\ @ # <<>> ->
                     IF Head(@) > p.n THEN [@ EXCEPT ![1] = @ - p.n] ELSE Tail(@)
                [] OTHER -> @,
     !.version = @ + 1]

\* All proposals are held against one select. A reply that is refused, or a
\* sheet that cannot be read, ends the turn with nothing written.
Validate(reply) ==
  /\ turn = Idle
  /\ \A p \in Range(reply) : Valid(p, sheet[p.char])
  /\ turn' = [Idle EXCEPT !.pc = "validated", !.reply = reply, !.saw = sheet]
  /\ UNCHANGED <<sheet, ask, open, request, crossed>>

Current == turn.reply[turn.at]

\* Mutant: the row is taken as it is.
SelectTarget_Unparsed ==
  /\ turn.pc = "validated" /\ turn.at <= Len(turn.reply)
  /\ LET s == View(Current.char)
     IN turn' = IF s.there THEN [turn EXCEPT !.pc = "selected", !.read = s] ELSE [turn EXCEPT !.at = @ + 1]
  /\ UNCHANGED <<sheet, ask, open, request, crossed>>

\* applyProposal selects the row again. A character that is gone is skipped, a
\* sheet that cannot be read rolls the turn back.
SelectTarget ==
  /\ turn.pc = "validated" /\ turn.at <= Len(turn.reply)
  /\ LET s == View(Current.char)
     IN turn' = CASE ~s.there -> [turn EXCEPT !.at = @ + 1]
                  [] s.there /\ ~Readable(s) -> Idle
                  [] OTHER -> [turn EXCEPT !.pc = "selected", !.read = s]
  /\ UNCHANGED <<sheet, ask, open, request, crossed>>

\* Mutant: the version stays what it was.
WriteTarget_KeepsVersion ==
  LET c == Current.char
  IN /\ turn.pc = "selected"
     /\ turn.read.version < MaxVersion
     /\ turn' = [turn EXCEPT !.pc = "validated", !.at = @ + 1,
                  !.own[c] = IF sheet[c].there THEN [Applied(Current, turn.read) EXCEPT !.version = turn.read.version] ELSE @,
                  !.crossed = IF turn.read = View(c) THEN @ ELSE @ \cup {c}]
     /\ UNCHANGED <<sheet, ask, open, request, crossed>>

\* Mutant: a row that has gone is inserted again.
WriteTarget_Upserts ==
  LET c == Current.char
  IN /\ turn.pc = "selected"
     /\ turn.read.version < MaxVersion
     /\ turn' = [turn EXCEPT !.pc = "validated", !.at = @ + 1,
                  !.own[c] = Applied(Current, turn.read),
                  !.crossed = IF turn.read = View(c) THEN @ ELSE @ \cup {c}]
     /\ UNCHANGED <<sheet, ask, open, request, crossed>>

\* The whole sheet as it was read, with the change, whatever the row is by now.
WriteTarget ==
  LET c == Current.char
  IN /\ turn.pc = "selected"
     /\ turn.read.version < MaxVersion
     /\ turn' = [turn EXCEPT !.pc = "validated", !.at = @ + 1,
                  !.own[c] = IF sheet[c].there THEN Applied(Current, turn.read) ELSE @,
                  !.crossed = IF turn.read = View(c) THEN @ ELSE @ \cup {c}]
     /\ UNCHANGED <<sheet, ask, open, request, crossed>>

\* Narration, events and every change in one transaction.
CommitTurn ==
  /\ turn.pc = "validated" /\ turn.at > Len(turn.reply)
  /\ sheet' = [c \in Char |-> View(c)]
  /\ turn' = Idle
  /\ crossed' = crossed \cup turn.crossed
  /\ UNCHANGED <<ask, open, request>>

-----------------------------------------------------------------------------
HttpStep ==
  \/ \E c \in Char, s \in Import : ImportSheet(c, s)
  \/ \E r \in Request :
       \/ \E c \in Char : Look(r, c) \/ RemoveCharacter(r, c)
       \/ \E hp \in 0..HpCap : EditHp(r, hp)
       \/ WriteHp(r)
       \/ StartDelete(r) \/ DeleteCharacter(r)

ActionStep ==
  \/ \E chars \in SUBSET Char \ {{}}, byHost \in BOOLEAN : RequestRoll(chars, byHost)
  \/ OpenAction
  \/ CloseAction

TurnStep ==
  \/ \E reply \in Reply : Validate(reply)
  \/ SelectTarget
  \/ WriteTarget
  \/ CommitTurn

Next == HttpStep \/ ActionStep \/ TurnStep

Spec == Init /\ [][Next]_vars

-----------------------------------------------------------------------------
(* Properties *)

Sheet == [there : BOOLEAN, hp : Int, rows : Seq(Int), version : 0..MaxVersion]

TypeOK ==
  /\ sheet \in [Char -> Sheet]
  /\ turn \in [pc : {"idle", "validated", "selected"}, reply : Reply \cup {<<>>}, at : Nat \ {0},
               read : Sheet, own : [Char -> Sheet], saw : [Char -> Sheet],
               crossed : SUBSET Char]
  /\ turn.at <= Len(turn.reply) + 1
  /\ ask \subseteq Char
  /\ open \in [chars : SUBSET Char, missing : SUBSET Char]
  /\ open.missing \subseteq open.chars
  /\ request \in [Request -> [pc : {"new", "tab", "checked", "deleting", "done", "refused"}, op : {"none", "edit", "remove"},
                              char : Char \cup {"none"}, seen : Sheet, hp : 0..MaxHp]]
  /\ crossed \subseteq Char

\* Proposals are validated one by one against sheets that are changed before
\* they are applied, and HP may leave the range a sheet is read with. They are
\* out by one proposal at most, however long the reply and whatever edits come
\* between, because applyProposal parses the row it changes.
HpStaysInReach ==
  \A c \in Char : sheet[c].there => sheet[c].hp \in (-HpCap)..(HpCap + MaxHp)

\* A character that was deleted does not come back: not from an edit in a tab
\* that still shows it, nor from a turn that read its row before and writes the
\* whole of it after (remove, updateHp, applyProposal).
GoneStaysGone == \A c \in Char : sheet[c] = Deleted => sheet'[c] = Deleted

DeletedStaysDeleted == [][GoneStaysGone]_vars

\* An edit that takes effect finds the HP its tab has seen.
EditsWhatItSaw ==
  \A r \in Request :
    LET c == request[r].char
    IN request[r].op = "edit" /\ request'[r].pc = "done" =>
         c \in crossed \/ sheet[c].hp = request[r].seen.hp

\* A stale tab cannot undo a heal: an edit takes effect only over the HP its tab
\* has seen, whatever edits and turns lie between, unless a turn wrote over an
\* edit it had not read and gave the row the version of that edit (updateHp).
StaleTabsAreRefused == [][EditsWhatItSaw]_vars

-----------------------------------------------------------------------------
(* Statements of the repository that the code does not keep *)

\* "The guard is part of the write, not a check before it" (remove): a deletion
\* takes no character from an open action that it names and that had it when it
\* was opened.
OpenActionsKeepTheirCharacters ==
  \A c \in open.chars : sheet[c].there \/ c \in open.missing

\* A proposal is applied to a sheet it is valid for: the orchestrator validates
\* every entry against current state before anything touches the database.
ProposalsMeetCurrentState ==
  turn.pc = "selected" => Valid(Current, turn.read)

=============================================================================
