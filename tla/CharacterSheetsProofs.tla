------------------------ MODULE CharacterSheetsProofs ------------------------
(***************************************************************************)
(* Proofs about CharacterSheets, for any characters, requests, imports and *)
(* replies, and whatever the bounds.                                       *)
(***************************************************************************)
EXTENDS CharacterSheets, SequenceTheorems, TLAPS

-----------------------------------------------------------------------------
(* The invariant *)

\* A turn holds its proposals against the sheets it saw, and writes to a sheet
\* that can be read.
TurnInv ==
  /\ turn.pc = "idle" => turn = Idle
  /\ turn.pc = "selected" => turn.at <= Len(turn.reply) /\ Readable(turn.read)
  /\ \A p \in Range(turn.reply) : Valid(p, turn.saw[p.char])

\* A row the turn has written is still there, and one proposal past a sheet that
\* could be read.
HeldInv ==
  \A c \in Char : Held(c) =>
    /\ sheet[c].there
    /\ turn.own[c].hp \in (-HpCap)..(HpCap + MaxHp)

\* A request under way is about a character; a tab's is an edit, and what has
\* begun to delete was asked to.
TabOK(req) ==
  /\ req.pc \in {"tab", "checked", "deleting"} => req.char \in Char
  /\ req.pc = "tab" => req.op = "edit"
  /\ req.pc = "deleting" => req.op = "remove"
TabInv == \A r \in Request : TabOK(request[r])

SheetInv == TypeOK /\ TurnInv /\ HeldInv /\ TabInv /\ HpStaysInReach

-----------------------------------------------------------------------------
(* Sheets and proposals *)

\* The sheets the model names are sheets.
LEMMA SheetForms ==
  /\ NoSheet \in Sheet /\ Deleted \in Sheet /\ Import \subseteq Sheet
  /\ ~NoSheet.there /\ ~Deleted.there /\ Deleted # NoSheet
  /\ \A s \in Import : s.there /\ s.version = 0
<1> USE SheetAssumption
<1>1. NoSheet \in Sheet
  <2>1. <<>> \in Seq(Int) /\ 0 \in Int /\ 0 \in 0..MaxVersion
    OBVIOUS
  <2> QED BY <2>1 DEF NoSheet, Sheet
<1>2. ~NoSheet.there /\ NoSheet.version = 0
  BY DEF NoSheet
<1>3. Deleted \in Sheet /\ ~Deleted.there /\ Deleted.version = 1
  <2>1. 1 \in 0..MaxVersion
    OBVIOUS
  <2> QED BY <1>1, <1>2, <2>1 DEF Deleted, Sheet
<1>4. Import \subseteq Sheet /\ \A s \in Import : s.there /\ s.version = 0
  <2>1. {0} \subseteq 0..MaxVersion
    OBVIOUS
  <2> QED BY <2>1 DEF Sheet
<1> QED BY <1>1, <1>2, <1>3, <1>4

\* A proposal makes a sheet of a sheet, one version on, and moves the HP by the
\* delta if it is one of HP.
LEMMA AppliedSheet ==
  ASSUME NEW p \in Proposal, NEW s \in Sheet, s.version < MaxVersion
  PROVE  /\ Applied(p, s) \in Sheet /\ Applied(p, s).there = s.there
         /\ Applied(p, s).version = s.version + 1
         /\ Applied(p, s).hp = IF p.op = "adjust_hp" THEN s.hp + p.n ELSE s.hp
<1> DEFINE hp == IF p.op = "adjust_hp" THEN s.hp + p.n ELSE s.hp
           rows == CASE p.op = "add_item" /\ s.rows = <<>> -> <<p.n>>
                     [] p.op = "add_item" /\ s.rows # <<>> -> [s.rows EXCEPT ![1] = @ + p.n]
                     [] p.op = "remove_item" /\ s.rows # <<>> ->
                          IF Head(s.rows) > p.n THEN [s.rows EXCEPT ![1] = @ - p.n] ELSE Tail(s.rows)
                     [] OTHER -> s.rows
<1>1. s.rows \in Seq(Int) /\ s.hp \in Int /\ p.n \in Int /\ s.version \in 0..MaxVersion /\ p.op \in {"adjust_hp", "add_item", "remove_item"}
  BY DEF Sheet, Proposal
<1>2. hp \in Int
  BY <1>1
<1>3. rows \in Seq(Int)
  <2>1. CASE s.rows = <<>>
    <3>1. rows \in {<<p.n>>, s.rows}
      BY <1>1, <2>1
    <3>2. <<p.n>> \in Seq(Int)
      BY <1>1
    <3> HIDE DEF rows
    <3> QED BY <1>1, <3>1, <3>2
  <2>2. CASE s.rows # <<>>
    <3> DEFINE more == [s.rows EXCEPT ![1] = @ + p.n]
               less == [s.rows EXCEPT ![1] = @ - p.n]
    <3>1. 1 \in 1..Len(s.rows) /\ s.rows[1] \in Int
      BY <1>1, <2>2, EmptySeq, LenProperties
    <3>2. more \in Seq(Int) /\ less \in Seq(Int)
      <4>1. s.rows[1] + p.n \in Int /\ s.rows[1] - p.n \in Int
        BY <1>1, <3>1
      <4> QED BY <1>1, <3>1, <4>1, ExceptSeq
    <3>3. Tail(s.rows) \in Seq(Int)
      BY <1>1, <2>2, HeadTailProperties
    <3>4. rows \in {more, less, Tail(s.rows), s.rows}
      BY <1>1, <2>2
    <3> HIDE DEF rows, more, less
    <3> QED BY <1>1, <3>2, <3>3, <3>4
  <2> QED BY <2>1, <2>2
<1>4. Applied(p, s) = [s EXCEPT !.hp = hp, !.rows = rows, !.version = s.version + 1]
  BY DEF Applied, Sheet
<1> HIDE DEF hp, rows
<1>5. s.version + 1 \in 0..MaxVersion
  BY <1>1, SheetAssumption
<1>6. Applied(p, s) = [there |-> s.there, hp |-> hp, rows |-> rows, version |-> s.version + 1]
  BY <1>4 DEF Sheet
<1> QED BY <1>2, <1>3, <1>5, <1>6 DEF Sheet, hp

\* A valid change of HP is of a sheet that can be read, and leaves its HP within
\* the maximum.
LEMMA ValidHp ==
  ASSUME NEW p, NEW s, p.op = "adjust_hp", Valid(p, s)
  PROVE  s.hp + p.n \in 0..MaxHp /\ Readable(s)
BY Zenon DEF Valid

\* What a turn looks at next is one of its proposals.
LEMMA CurrentProposal ==
  ASSUME TypeOK, turn.at <= Len(turn.reply)
  PROVE  Current \in Proposal /\ Current.char \in Char /\ Current \in Range(turn.reply)
<1>1. turn.reply \in Seq(Proposal) /\ turn.at \in Nat \ {0}
  BY ReplyAssumption DEF TypeOK
<1>2. turn.at \in DOMAIN turn.reply
  BY <1>1, LenProperties
<1>3. Current \in Proposal
  BY <1>1, <1>2 DEF Current
<1> QED BY <1>2, <1>3 DEF Current, Range, Proposal

-----------------------------------------------------------------------------
(* Requests and turns *)

RequestRec == [pc : {"new", "tab", "checked", "deleting", "done", "refused"}, op : {"none", "edit", "remove"},
               char : Char \cup {"none"}, seen : Sheet, hp : 0..MaxHp]
TurnRec == [pc : {"idle", "validated", "selected"}, reply : Reply \cup {<<>>}, at : Nat \ {0},
            read : Sheet, own : [Char -> Sheet], saw : [Char -> Sheet],
            crossed : SUBSET Char]

\* The initial request and turn, and a closed request, are of their types.
LEMMA RecordForms ==
  /\ NewRequest \in RequestRec /\ Idle \in TurnRec
  /\ NewRequest.pc = "new" /\ NewRequest.op = "none"
  /\ Idle.pc = "idle" /\ Idle.reply = <<>> /\ Idle.at = 1 /\ \A c \in Char : Idle.own[c] = NoSheet
<1>1. NewRequest \in RequestRec
  <2>1. 0 \in 0..MaxHp /\ NoSheet \in Sheet
    BY SheetForms, CapAssumption
  <2> QED BY <2>1 DEF NewRequest, RequestRec
<1>2. Idle \in TurnRec
  BY SheetForms DEF Idle, TurnRec
<1> QED BY <1>1, <1>2 DEF NewRequest, Idle

\* A step that changes one request, and no sheet.
LEMMA RequestStep ==
  ASSUME TypeOK, TabInv, NEW r \in Request, NEW new \in RequestRec,
         request' = [request EXCEPT ![r] = new],
         UNCHANGED <<sheet, turn, crossed>>, TabOK(new)
  PROVE  request' \in [Request -> RequestRec] /\ TabInv'
<1>1. /\ request' \in [Request -> RequestRec] /\ request'[r] = new
      /\ \A q \in Request \ {r} : request'[q] = request[q]
  BY DEF TypeOK, RequestRec
<1>2. \A req : TabOK(req) => TabOK(req)'
  BY DEF TabOK
<1> QED BY <1>1, <1>2 DEF TabInv

\* Closing a request leaves nothing to be stale.
LEMMA CloseIsOK ==
  ASSUME NEW pc \in {"done", "refused"}
  PROVE  LET new == [NewRequest EXCEPT !.pc = pc] IN new \in RequestRec /\ TabOK(new)
<1> DEFINE new == [NewRequest EXCEPT !.pc = pc]
<1>1. new \in RequestRec /\ new.pc = pc /\ new.op = "none"
  BY RecordForms DEF RequestRec
<1> HIDE DEF new
<1> QED BY <1>1 DEF TabOK, new

-----------------------------------------------------------------------------
(* The requests *)

\* Every step of an import, a tab, an edit or a deletion keeps the invariant.
LEMMA HttpKeepsSheets == SheetInv /\ HttpStep => SheetInv'
<1> USE SheetForms, CapAssumption, SheetAssumption DEF SheetInv
<1> SUFFICES ASSUME SheetInv, HttpStep PROVE SheetInv'
  OBVIOUS
<1>1. ASSUME NEW r \in Request, NEW new \in RequestRec, TabOK(new),
             request' = [request EXCEPT ![r] = new], UNCHANGED <<sheet, turn, ask, open, crossed>>
      PROVE  SheetInv'
  <2>1. request' \in [Request -> RequestRec] /\ TabInv'
    BY <1>1, RequestStep
  <2>2. TypeOK'
    BY <1>1, <2>1 DEF TypeOK, RequestRec
  <2>3. TurnInv' /\ HeldInv' /\ HpStaysInReach'
    BY <1>1 DEF TurnInv, HeldInv, Held, HpStaysInReach
  <2> QED BY <2>1, <2>2, <2>3
<1>2. ASSUME NEW c \in Char, NEW s \in Import, ImportSheet(c, s) PROVE SheetInv'
  <2>1. TypeOK'
    BY <1>2 DEF TypeOK, ImportSheet
  <2>2. TurnInv'
    BY <1>2 DEF TurnInv, ImportSheet
  <2>3. HeldInv'
    BY <1>2 DEF HeldInv, Held, TypeOK, ImportSheet
  <2>4. TabInv'
    <3>1. \A d \in Char : sheet[d] # NoSheet => sheet'[d] = sheet[d]
      BY <1>2 DEF ImportSheet, TypeOK
    <3>2. \A r \in Request : TabOK(request[r])'
      BY <1>2, <3>1 DEF ImportSheet, TabInv, TabOK
    <3> QED BY <1>2, <3>2 DEF ImportSheet, TabInv
  <2>5. HpStaysInReach'
    <3>1. s.hp \in 0..HpCap
      BY <1>2 DEF ImportSheet, Readable
    <3> QED BY <1>2, <3>1 DEF HpStaysInReach, TypeOK, ImportSheet
  <2> QED BY <2>1, <2>2, <2>3, <2>4, <2>5
<1>3. ASSUME NEW r \in Request, NEW c \in Char, Look(r, c) PROVE SheetInv'
  <2> DEFINE new == [NewRequest EXCEPT !.pc = "tab", !.op = "edit", !.char = c, !.seen = sheet[c]]
  <2>1. /\ new \in RequestRec /\ new.pc = "tab" /\ new.op = "edit" /\ new.char = c /\ new.seen = sheet[c]
        /\ sheet[c] # NoSheet
    BY <1>3, RecordForms DEF RequestRec, TypeOK, Look
  <2>2. request' = [request EXCEPT ![r] = new] /\ UNCHANGED <<sheet, turn, ask, open, crossed>>
    BY <1>3 DEF Look
  <2> HIDE DEF new
  <2>3. sheet[c].version \in Int
    BY DEF TypeOK, Sheet
  <2>4. TabOK(new)
    BY <2>1, <2>3 DEF TabOK
  <2> QED BY <1>1, <2>1, <2>2, <2>4
<1>4. ASSUME NEW r \in Request, NEW c \in Char, RemoveCharacter(r, c) PROVE SheetInv'
  <2> DEFINE new == [NewRequest EXCEPT !.pc = "checked", !.op = "remove", !.char = c]
  <2>1. new \in RequestRec /\ new.pc = "checked" /\ new.op = "remove" /\ new.char = c
    BY RecordForms DEF RequestRec
  <2>2. request' = [request EXCEPT ![r] = new] /\ UNCHANGED <<sheet, turn, ask, open, crossed>>
    BY <1>4 DEF RemoveCharacter
  <2> HIDE DEF new
  <2>3. TabOK(new)
    BY <2>1 DEF TabOK
  <2> QED BY <1>1, <2>1, <2>2, <2>3
<1>5. ASSUME NEW r \in Request, NEW hp \in 0..HpCap, EditHp(r, hp) PROVE SheetInv'
  <2> DEFINE edited == [request[r] EXCEPT !.pc = "checked", !.hp = hp]
             closed == [NewRequest EXCEPT !.pc = "refused"]
  <2>1. request[r] \in RequestRec /\ TabOK(request[r]) /\ request[r].pc = "tab"
    BY <1>5 DEF TypeOK, RequestRec, TabInv, EditHp
  <2>2. \/ request' = [request EXCEPT ![r] = edited] /\ hp <= MaxHp
        \/ request' = [request EXCEPT ![r] = closed]
    BY <1>5 DEF EditHp, Close, TypeOK
  <2>3. UNCHANGED <<sheet, turn, ask, open, crossed>>
    BY <1>5 DEF EditHp
  <2>4. closed \in RequestRec /\ TabOK(closed)
    BY CloseIsOK
  <2>5. ASSUME hp <= MaxHp PROVE edited \in RequestRec /\ TabOK(edited)
    <3>1. hp \in 0..MaxHp
      BY <2>5
    <3>2. /\ edited \in RequestRec /\ edited.pc = "checked" /\ edited.op = request[r].op
          /\ edited.char = request[r].char /\ edited.seen = request[r].seen
      BY <2>1, <3>1 DEF RequestRec
    <3> HIDE DEF edited
    <3> QED BY <2>1, <3>2 DEF TabOK
  <2> HIDE DEF edited, closed
  <2>6. CASE request' = [request EXCEPT ![r] = edited] /\ hp <= MaxHp
    BY <1>1, <2>3, <2>5, <2>6
  <2>7. CASE request' = [request EXCEPT ![r] = closed]
    BY <1>1, <2>3, <2>4, <2>7
  <2> QED BY <2>2, <2>6, <2>7
<1>6. ASSUME NEW r \in Request, NEW pc \in {"done", "refused"},
             request' = [request EXCEPT ![r] = [NewRequest EXCEPT !.pc = pc]],
             UNCHANGED <<turn, ask, open, crossed>>,
             NEW c \in Char, NEW row \in Sheet, ~Held(c), sheet' = [sheet EXCEPT ![c] = row], row # NoSheet,
             row.there => sheet[c].there /\ row.version > sheet[c].version /\ row.hp \in 0..HpCap
      PROVE  SheetInv'
  <2> DEFINE closed == [NewRequest EXCEPT !.pc = pc]
  <2>1. closed \in RequestRec /\ TabOK(closed)
    BY CloseIsOK
  <2> HIDE DEF closed
  <2>2. /\ sheet' \in [Char -> Sheet] /\ sheet'[c] = row
        /\ \A d \in Char \ {c} : sheet'[d] = sheet[d]
    BY <1>6 DEF TypeOK
  <2>3. /\ request' \in [Request -> RequestRec] /\ request'[r] = closed
        /\ \A q \in Request \ {r} : request'[q] = request[q]
    BY <1>6, <2>1 DEF TypeOK, RequestRec, closed
  <2>4. TypeOK'
    BY <1>6, <2>2, <2>3 DEF TypeOK, RequestRec
  <2>5. TurnInv'
    BY <1>6 DEF TurnInv
  <2>6. HeldInv'
    BY <1>6, <2>2 DEF HeldInv, Held
  <2>7. TabInv'
    <3>1. ASSUME NEW q \in Request PROVE TabOK(request[q])'
      <4>1. TabOK(closed) /\ TabOK(request[q])
        BY <2>1 DEF TabInv
      <4>2. q = r => request'[q] = closed
        BY <2>3
      <4>3. q # r => request'[q] = request[q]
        BY <2>3
      <4> QED BY <4>1, <4>2, <4>3 DEF TabOK
    <3> QED BY <3>1 DEF TabInv
  <2>8. HpStaysInReach'
    BY <1>6, <2>2 DEF HpStaysInReach
  <2> QED BY <2>4, <2>5, <2>6, <2>7, <2>8
<1>7. ASSUME NEW r \in Request, WriteHp(r) PROVE SheetInv'
  <2> DEFINE c == request[r].char
             row == [sheet[c] EXCEPT !.hp = request[r].hp, !.version = @ + 1]
  <2>1. c \in Char /\ ~Held(c) /\ request[r].hp \in 0..MaxHp /\ sheet[c] \in Sheet
    BY <1>7 DEF WriteHp, TabInv, TabOK, TypeOK
  <2>2. CASE sheet[c].there /\ sheet[c].version = request[r].seen.version
    <3>1. /\ sheet[c].version < MaxVersion
          /\ request' = [request EXCEPT ![r] = [NewRequest EXCEPT !.pc = "done"]]
          /\ UNCHANGED <<turn, ask, open, crossed>>
      BY <1>7, <2>2 DEF WriteHp, Close
    <3>2. sheet' = [sheet EXCEPT ![c] = row]
      <4>1. sheet' = [sheet EXCEPT ![c].hp = request[r].hp, ![c].version = @ + 1]
        BY <1>7, <2>2 DEF WriteHp
      <4> HIDE DEF c
      <4> QED BY <2>1, <4>1 DEF TypeOK
    <3>3. sheet[c].version \in Int /\ sheet[c].version + 1 \in 0..MaxVersion
      <4>1. \A x \in Sheet : x.version \in 0..MaxVersion
        BY DEF Sheet
      <4>2. sheet[c].version \in 0..MaxVersion
        BY <2>1, <4>1
      <4> HIDE DEF c
      <4> QED BY <3>1, <4>2
    <3>4. /\ row \in Sheet /\ row.there /\ row.version = sheet[c].version + 1 /\ row.hp \in 0..HpCap
      <4>1. request[r].hp \in 0..HpCap /\ request[r].hp \in Int
        <5> HIDE DEF c
        <5>1. \A h \in 0..MaxHp : h \in 0..HpCap /\ h \in Int
          OBVIOUS
        <5> QED BY <2>1, <5>1
      <4>2. ASSUME NEW x \in Sheet, NEW h \in Int, NEW v \in 0..MaxVersion, row = [x EXCEPT !.hp = h, !.version = v]
            PROVE  row \in Sheet /\ row.there = x.there /\ row.version = v /\ row.hp = h
        <5> HIDE DEF row
        <5> QED BY <4>2 DEF Sheet
      <4>3. /\ row \in Sheet /\ row.there = sheet[c].there
            /\ row.version = sheet[c].version + 1 /\ row.hp = request[r].hp
        <5> HIDE DEF c
        <5> QED BY <2>1, <3>3, <4>1, <4>2
      <4> HIDE DEF c, row
      <4> QED BY <2>2, <3>3, <4>1, <4>3
    <3> HIDE DEF row, c
    <3>5. row # NoSheet /\ row.version > sheet[c].version
      BY <3>3, <3>4
    <3> QED BY <1>6, <2>1, <2>2, <3>1, <3>2, <3>4, <3>5
  <2>3. CASE ~(sheet[c].there /\ sheet[c].version = request[r].seen.version)
    <3>1. /\ request' = [request EXCEPT ![r] = [NewRequest EXCEPT !.pc = "refused"]]
          /\ UNCHANGED <<sheet, turn, ask, open, crossed>>
      BY <1>7, <2>3 DEF WriteHp, Close
    <3> QED BY <1>1, <3>1, CloseIsOK
  <2> QED BY <2>2, <2>3
<1>8. ASSUME NEW r \in Request, StartDelete(r) PROVE SheetInv'
  <2> DEFINE c == request[r].char
             started == [request[r] EXCEPT !.pc = "deleting"]
             closed == [NewRequest EXCEPT !.pc = "refused"]
  <2>1. request[r] \in RequestRec /\ TabOK(request[r]) /\ request[r].pc = "checked" /\ request[r].op = "remove"
    BY <1>8 DEF TypeOK, RequestRec, TabInv, StartDelete
  <2>2. \/ request' = [request EXCEPT ![r] = started]
        \/ request' = [request EXCEPT ![r] = closed]
    BY <1>8 DEF StartDelete, Close, TypeOK
  <2>3. UNCHANGED <<sheet, turn, ask, open, crossed>>
    BY <1>8 DEF StartDelete
  <2>4. closed \in RequestRec /\ TabOK(closed)
    BY CloseIsOK
  <2>5. started \in RequestRec /\ TabOK(started)
    <3>1. /\ started \in RequestRec /\ started.pc = "deleting" /\ started.op = "remove"
          /\ started.char = c
      BY <2>1 DEF RequestRec
    <3>2. c \in Char
      BY <2>1 DEF TabOK
    <3> HIDE DEF started, c
    <3> QED BY <3>1, <3>2 DEF TabOK
  <2> HIDE DEF started, closed
  <2> QED BY <1>1, <2>2, <2>3, <2>4, <2>5
<1>9. ASSUME NEW r \in Request, DeleteCharacter(r) PROVE SheetInv'
  <2> DEFINE c == request[r].char
  <2>1. c \in Char /\ ~Held(c)
    BY <1>9 DEF DeleteCharacter, TabInv, TabOK
  <2>2. CASE sheet[c].there
    <3>1. /\ request' = [request EXCEPT ![r] = [NewRequest EXCEPT !.pc = "done"]]
          /\ sheet' = [sheet EXCEPT ![c] = Deleted]
          /\ UNCHANGED <<turn, ask, open, crossed>>
      BY <1>9, <2>2 DEF DeleteCharacter, Close
    <3> HIDE DEF c
    <3> QED BY <1>6, <2>1, <2>2, <3>1
  <2>3. CASE ~sheet[c].there
    <3>1. /\ request' = [request EXCEPT ![r] = [NewRequest EXCEPT !.pc = "refused"]]
          /\ UNCHANGED <<sheet, turn, ask, open, crossed>>
      BY <1>9, <2>3 DEF DeleteCharacter, Close
    <3> QED BY <1>1, <3>1, CloseIsOK
  <2> QED BY <2>2, <2>3
<1> QED BY <1>2, <1>3, <1>4, <1>5, <1>7, <1>8, <1>9 DEF HttpStep

-----------------------------------------------------------------------------
(* The pending action, and the turn *)

\* Every step of a roll request or of its action keeps the invariant.
LEMMA ActionKeepsSheets == SheetInv /\ ActionStep => SheetInv'
<1> USE DEF SheetInv
<1> SUFFICES ASSUME SheetInv, ActionStep PROVE SheetInv'
  OBVIOUS
<1>1. ASSUME NEW chars \in SUBSET Char \ {{}}, NEW byHost \in BOOLEAN, RequestRoll(chars, byHost) PROVE SheetInv'
  <2>1. TypeOK'
    BY <1>1 DEF TypeOK, RequestRoll
  <2>2. TurnInv' /\ HeldInv' /\ TabInv' /\ HpStaysInReach'
    BY <1>1 DEF TurnInv, HeldInv, Held, TabInv, TabOK, HpStaysInReach, RequestRoll
  <2> QED BY <2>1, <2>2
<1>2. ASSUME OpenAction PROVE SheetInv'
  <2>1. TypeOK'
    BY <1>2 DEF TypeOK, OpenAction
  <2>2. TurnInv' /\ HeldInv' /\ TabInv' /\ HpStaysInReach'
    BY <1>2 DEF TurnInv, HeldInv, Held, TabInv, TabOK, HpStaysInReach, OpenAction
  <2> QED BY <2>1, <2>2
<1>3. ASSUME CloseAction PROVE SheetInv'
  <2>1. TypeOK'
    BY <1>3 DEF TypeOK, CloseAction, NoAction
  <2>2. TurnInv' /\ HeldInv' /\ TabInv' /\ HpStaysInReach'
    BY <1>3 DEF TurnInv, HeldInv, Held, TabInv, TabOK, HpStaysInReach, CloseAction
  <2> QED BY <2>1, <2>2
<1> QED BY <1>1, <1>2, <1>3 DEF ActionStep

\* A step that changes the turn alone keeps the invariant, if it leaves a turn
\* of its type that reads what it may and holds rows it may hold.
LEMMA TurnMoves ==
  ASSUME SheetInv, turn' \in TurnRec, turn'.at <= Len(turn'.reply) + 1, TurnInv', HeldInv',
         UNCHANGED <<sheet, ask, open, request, crossed>>
  PROVE  SheetInv'
<1>1. TypeOK'
  BY DEF SheetInv, TypeOK, TurnRec
<1>2. TabInv' /\ HpStaysInReach'
  BY DEF SheetInv, TabInv, TabOK, HpStaysInReach
<1> QED BY <1>1, <1>2 DEF SheetInv

\* A turn that has written nothing holds no row.
LEMMA NothingHeld ==
  ASSUME \A c \in Char : turn.own[c] = NoSheet
  PROVE  HeldInv
BY SheetForms DEF HeldInv, Held

\* Every step of a turn keeps the invariant. What it commits are the rows it
\* holds: each is still there, and what is wrong with it is noted.
LEMMA TurnKeepsSheets == SheetInv /\ TurnStep => SheetInv'
<1> SUFFICES ASSUME SheetInv, TurnStep PROVE SheetInv'
  OBVIOUS
<1>t. turn \in TurnRec /\ TypeOK /\ TurnInv /\ HeldInv
  BY DEF SheetInv, TypeOK, TurnRec
<1>i. ASSUME turn' = Idle, UNCHANGED <<sheet, ask, open, request, crossed>> PROVE SheetInv'
  <2>1. turn' \in TurnRec /\ turn'.at <= Len(turn'.reply) + 1
    BY <1>i, RecordForms
  <2>2. TurnInv'
    BY <1>i, RecordForms DEF TurnInv, Range
  <2>3. HeldInv'
    BY <1>i, RecordForms, SheetForms DEF HeldInv, Held
  <2> QED BY <1>i, <2>1, <2>2, <2>3, TurnMoves
<1>1. ASSUME NEW reply \in Reply, Validate(reply) PROVE SheetInv'
  <2> DEFINE new == [Idle EXCEPT !.pc = "validated", !.reply = reply, !.saw = sheet]
  <2>1. new \in TurnRec /\ new.pc = "validated" /\ new.reply = reply /\ new.at = 1 /\ new.saw = sheet
        /\ new.own = Idle.own
    BY <1>t, RecordForms DEF TurnRec, TypeOK
  <2>2. turn' = new /\ UNCHANGED <<sheet, ask, open, request, crossed>>
        /\ \A p \in Range(reply) : Valid(p, sheet[p.char])
    BY <1>1 DEF Validate
  <2> HIDE DEF new
  <2>3. reply \in Seq(Proposal) /\ Len(reply) \in Nat
    BY ReplyAssumption
  <2>4. turn'.at <= Len(turn'.reply) + 1
    BY <2>1, <2>2, <2>3
  <2>5. TurnInv'
    BY <2>1, <2>2 DEF TurnInv
  <2>6. HeldInv'
    BY <2>1, <2>2, RecordForms, SheetForms DEF HeldInv, Held
  <2> QED BY <2>1, <2>2, <2>4, <2>5, <2>6, TurnMoves
<1>2. ASSUME SelectTarget PROVE SheetInv'
  <2> DEFINE s == View(Current.char)
             skipped == [turn EXCEPT !.at = @ + 1]
             chosen == [turn EXCEPT !.pc = "selected", !.read = s]
  <2>1. turn.pc = "validated" /\ turn.at <= Len(turn.reply) /\ turn.at \in Nat \ {0} /\ Len(turn.reply) \in Nat
    <3>1. turn.reply \in Seq(Proposal)
      <4>1. turn.reply \in Reply \cup {<<>>}
        BY <1>t DEF TurnRec
      <4> QED BY <4>1, ReplyAssumption, EmptySeq
    <3>2. turn.at \in Nat \ {0} /\ Len(turn.reply) \in Nat
      <4>1. turn.at \in Nat \ {0}
        BY <1>t DEF TurnRec
      <4> QED BY <3>1, <4>1, LenProperties
    <3> QED BY <1>2, <3>2 DEF SelectTarget
  <2>2. s \in Sheet
    BY <1>t, <2>1, CurrentProposal DEF View, TypeOK
  <2>3. /\ skipped \in TurnRec /\ skipped.pc = "validated" /\ skipped.at = turn.at + 1 /\ skipped.reply = turn.reply
        /\ skipped.saw = turn.saw /\ skipped.own = turn.own /\ skipped.crossed = turn.crossed
    BY <1>t, <2>1 DEF TurnRec
  <2>4. /\ chosen \in TurnRec /\ chosen.pc = "selected" /\ chosen.at = turn.at /\ chosen.reply = turn.reply /\ chosen.read = s
        /\ chosen.saw = turn.saw /\ chosen.own = turn.own /\ chosen.crossed = turn.crossed
    <3> HIDE DEF s
    <3> QED BY <1>t, <2>2 DEF TurnRec
  <2>5. UNCHANGED <<sheet, ask, open, request, crossed>>
    BY <1>2 DEF SelectTarget
  <2>6. /\ ~s.there => turn' = skipped
        /\ s.there /\ ~Readable(s) => turn' = Idle
        /\ s.there /\ Readable(s) => turn' = chosen
    <3>1. turn' = CASE ~s.there -> skipped
                    [] s.there /\ ~Readable(s) -> Idle
                    [] OTHER -> chosen
      BY <1>2 DEF SelectTarget
    <3> HIDE DEF s, skipped, chosen
    <3> QED BY <3>1
  <2> HIDE DEF s, skipped, chosen
  <2>7. ASSUME turn' = skipped PROVE SheetInv'
    <3>1. turn'.at <= Len(turn'.reply) + 1
      BY <2>1, <2>3, <2>7
    <3>2. TurnInv'
      BY <1>t, <2>3, <2>7 DEF TurnInv
    <3>3. HeldInv'
      BY <1>t, <2>3, <2>5, <2>7 DEF HeldInv, Held
    <3> QED BY <2>3, <2>5, <2>7, <3>1, <3>2, <3>3, TurnMoves
  <2>8. ASSUME turn' = chosen, Readable(s) PROVE SheetInv'
    <3>1. turn'.at <= Len(turn'.reply) + 1
      BY <2>1, <2>4, <2>8
    <3>2. TurnInv'
      BY <1>t, <2>1, <2>4, <2>8 DEF TurnInv, Readable
    <3>3. HeldInv'
      BY <1>t, <2>4, <2>5, <2>8 DEF HeldInv, Held
    <3> QED BY <2>4, <2>5, <2>8, <3>1, <3>2, <3>3, TurnMoves
  <2> QED BY <1>i, <2>5, <2>6, <2>7, <2>8
<1>3. ASSUME WriteTarget PROVE SheetInv'
  <2> DEFINE c == Current.char
             row == IF sheet[c].there THEN Applied(Current, turn.read) ELSE turn.own[c]
             over == IF turn.read = View(c) THEN turn.crossed ELSE turn.crossed \cup {c}
             own == [turn.own EXCEPT ![c] = row]
             new == [turn EXCEPT !.pc = "validated", !.at = @ + 1, !.own[c] = row, !.crossed = over]
  <2>1. /\ turn.pc = "selected" /\ turn.at <= Len(turn.reply) /\ turn.at \in Nat \ {0} /\ Len(turn.reply) \in Nat
        /\ turn.read \in Sheet /\ turn.read.version < MaxVersion /\ Readable(turn.read)
    <3>1. turn.reply \in Seq(Proposal)
      <4>1. turn.reply \in Reply \cup {<<>>}
        BY <1>t DEF TurnRec
      <4> QED BY <4>1, ReplyAssumption, EmptySeq
    <3>2. turn.at \in Nat \ {0} /\ Len(turn.reply) \in Nat /\ turn.read \in Sheet
      <4>1. turn.at \in Nat \ {0} /\ turn.read \in Sheet
        BY <1>t DEF TurnRec
      <4> QED BY <3>1, <4>1, LenProperties
    <3> QED BY <1>3, <1>t, <3>2 DEF WriteTarget, TurnInv
  <2>2. Current \in Proposal /\ c \in Char /\ Valid(Current, turn.saw[c])
    BY <1>t, <2>1, CurrentProposal DEF TurnInv
  <2>3. /\ turn' = new
        /\ UNCHANGED <<sheet, ask, open, request, crossed>>
    BY <1>3 DEF WriteTarget
  <2>4. /\ Applied(Current, turn.read) \in Sheet
        /\ Applied(Current, turn.read).there = turn.read.there
        /\ Applied(Current, turn.read).version = turn.read.version + 1
        /\ Applied(Current, turn.read).hp = IF Current.op = "adjust_hp" THEN turn.read.hp + Current.n ELSE turn.read.hp
    BY <2>1, <2>2, AppliedSheet
  <2>5. row \in Sheet /\ own \in [Char -> Sheet] /\ own[c] = row /\ \A d \in Char \ {c} : own[d] = turn.own[d]
    <3>1. row \in Sheet /\ turn.own \in [Char -> Sheet]
      BY <1>t, <2>2, <2>4 DEF TurnRec
    <3> HIDE DEF row, c
    <3> QED BY <2>2, <3>1
  <2>6. over \in SUBSET Char /\ turn.crossed \subseteq over
    <3>1. turn.crossed \in SUBSET Char
      BY <1>t DEF TurnRec
    <3> HIDE DEF c
    <3> QED BY <2>2, <3>1
  <2>7. turn' = [turn EXCEPT !.pc = "validated", !.at = @ + 1, !.own = own, !.crossed = over]
    <3> HIDE DEF row, over, c
    <3> QED BY <1>t, <2>3 DEF TurnRec
  <2>8. /\ turn' \in TurnRec /\ turn'.pc = "validated" /\ turn'.at = turn.at + 1 /\ turn'.reply = turn.reply
        /\ turn'.saw = turn.saw /\ turn'.own = own /\ turn'.crossed = over
    <3> HIDE DEF row, own, over, new, c
    <3>1. turn.at + 1 \in Nat \ {0}
      BY <2>1
    <3> QED BY <1>t, <2>5, <2>6, <2>7, <3>1 DEF TurnRec
  <2>9. turn'.at <= Len(turn'.reply) + 1
    BY <2>1, <2>8
  <2>10. TurnInv'
    BY <1>t, <2>8 DEF TurnInv
  <2>11. /\ row.there => sheet[c].there
         /\ sheet[c].there => row = Applied(Current, turn.read)
    <3> HIDE DEF c
    <3> QED BY <1>t, <2>2 DEF HeldInv, Held
  <2>12. row.there => row.hp \in (-HpCap)..(HpCap + MaxHp)
    <3> SUFFICES ASSUME sheet[c].there PROVE row.hp \in (-HpCap)..(HpCap + MaxHp)
      BY <2>11
    <3>1. turn.read.hp \in 0..HpCap /\ turn.read.hp \in Int
      BY <2>1 DEF Readable
    <3>2. ASSUME Current.op = "adjust_hp" PROVE turn.read.hp + Current.n \in (-HpCap)..(HpCap + MaxHp)
      <4>1. turn.saw[c].hp + Current.n \in 0..MaxHp /\ turn.saw[c].hp \in 0..HpCap /\ Current.n \in Int
        BY <2>2, <3>2, ValidHp DEF Readable, Proposal
      <4>2. ASSUME NEW h \in 0..HpCap, NEW g \in 0..HpCap, NEW n \in Int, g + n \in 0..MaxHp
            PROVE  h + n \in (-HpCap)..(HpCap + MaxHp)
        BY <4>2, CapAssumption
      <4> HIDE DEF c
      <4> QED BY <3>1, <4>1, <4>2
    <3>3. turn.read.hp \in (-HpCap)..(HpCap + MaxHp)
      BY <3>1, CapAssumption
    <3> HIDE DEF row, c
    <3> QED BY <2>4, <2>11, <3>2, <3>3
  <2>13. HeldInv'
    <3> HIDE DEF row, own, over, new, c
    <3> QED BY <1>t, <2>2, <2>3, <2>5, <2>6, <2>8, <2>11, <2>12 DEF HeldInv, Held
  <2> HIDE DEF new
  <2> QED BY <2>3, <2>8, <2>9, <2>10, <2>13, TurnMoves
<1>4. ASSUME CommitTurn PROVE SheetInv'
  <2>1. /\ sheet' \in [Char -> Sheet] /\ turn' = Idle /\ UNCHANGED <<ask, open, request>>
        /\ crossed' = crossed \cup turn.crossed
        /\ \A c \in Char : /\ Held(c) => sheet'[c] = turn.own[c]
                           /\ ~Held(c) => sheet'[c] = sheet[c]
    <3>1. \A c \in Char : View(c) \in Sheet /\ (Held(c) => View(c) = turn.own[c]) /\ (~Held(c) => View(c) = sheet[c])
      BY <1>t DEF View, TypeOK
    <3> QED BY <1>4, <3>1 DEF CommitTurn
  <2>2. turn.crossed \in SUBSET Char
    BY <1>t DEF TurnRec
  <2>3. TypeOK'
    <3>1. turn' \in TurnRec /\ turn'.at <= Len(turn'.reply) + 1
      BY <2>1, RecordForms
    <3> QED BY <1>t, <2>1, <2>2, <3>1 DEF TypeOK, TurnRec
  <2>4. TurnInv'
    BY <2>1, RecordForms DEF TurnInv, Range
  <2>5. HeldInv'
    BY <2>1, RecordForms, SheetForms DEF HeldInv, Held
  <2>6. TabInv'
    BY <1>t, <2>1 DEF SheetInv, TabInv, TabOK
  <2>7. HpStaysInReach'
    <3>1. \A c \in Char : Held(c) => turn.own[c].hp \in (-HpCap)..(HpCap + MaxHp)
      BY <1>t DEF HeldInv
    <3>2. HpStaysInReach
      BY DEF SheetInv
    <3>3. ASSUME NEW c \in Char, sheet'[c].there PROVE sheet'[c].hp \in (-HpCap)..(HpCap + MaxHp)
      <4>1. CASE Held(c)
        <5>1. sheet'[c] = turn.own[c]
          BY <2>1, <4>1
        <5> QED BY <2>1, <3>1, <4>1, <5>1
      <4>2. CASE ~Held(c)
        <5>1. sheet'[c] = sheet[c]
          BY <2>1, <4>2
        <5> QED BY <2>1, <3>2, <3>3, <5>1 DEF HpStaysInReach
      <4> QED BY <4>1, <4>2
    <3> QED BY <3>3 DEF HpStaysInReach
  <2> QED BY <2>3, <2>4, <2>5, <2>6, <2>7 DEF SheetInv
<1> QED BY <1>1, <1>2, <1>3, <1>4 DEF TurnStep

-----------------------------------------------------------------------------
(* The theorems *)

\* A step that changes nothing keeps the invariant.
LEMMA SheetsStand == SheetInv /\ UNCHANGED vars => SheetInv'
<1> SUFFICES ASSUME SheetInv, UNCHANGED vars PROVE SheetInv'
  OBVIOUS
<1>1. TypeOK' /\ TurnInv' /\ HeldInv'
  BY DEF SheetInv, vars, TypeOK, TurnInv, HeldInv, Held
<1>2. TabInv' /\ HpStaysInReach'
  BY DEF SheetInv, vars, TabInv, TabOK, HpStaysInReach
<1> QED BY <1>1, <1>2 DEF SheetInv

\* The characters' sheets, the turn that writes them and the tabs that look at
\* them fit together whatever the order of their steps.
THEOREM SheetInvariant == Spec => []SheetInv
<1>1. Init => SheetInv
  <2> SUFFICES ASSUME Init PROVE SheetInv
    OBVIOUS
  <2>1. TypeOK
    <3>1. turn \in TurnRec /\ turn.at <= Len(turn.reply) + 1
      BY RecordForms DEF Init
    <3>2. request \in [Request -> RequestRec]
      BY RecordForms DEF Init
    <3>3. sheet \in [Char -> Sheet]
      BY SheetForms DEF Init
    <3> QED BY <3>1, <3>2, <3>3 DEF Init, TypeOK, NoAction, TurnRec, RequestRec
  <2>2. TurnInv
    BY RecordForms DEF Init, TurnInv, Range
  <2>3. HeldInv
    BY RecordForms, NothingHeld DEF Init
  <2>4. TabInv
    BY RecordForms DEF Init, TabInv, TabOK
  <2>5. HpStaysInReach
    BY SheetForms DEF Init, HpStaysInReach
  <2> QED BY <2>1, <2>2, <2>3, <2>4, <2>5 DEF SheetInv
<1>2. SheetInv /\ [Next]_vars => SheetInv'
  BY HttpKeepsSheets, ActionKeepsSheets, TurnKeepsSheets, SheetsStand DEF Next
<1> QED BY <1>1, <1>2, PTL DEF Spec

\* Every variable of the sheets keeps its type, and what was missing when an
\* action was opened is among what it names.
THEOREM TypesCorrect == Spec => []TypeOK
<1>1. SheetInv => TypeOK
  BY DEF SheetInv
<1> QED BY <1>1, SheetInvariant, PTL

\* However long a reply and whatever edits come between, HP leave the range a
\* sheet is read with by one proposal at most (validateProposals, applyProposal,
\* updateHp).
THEOREM HpInReach == Spec => []HpStaysInReach
<1>1. SheetInv => HpStaysInReach
  BY DEF SheetInv
<1> QED BY <1>1, SheetInvariant, PTL

\* A deleted character stays deleted, under tabs and turns that saw it before
\* (remove, updateHp, applyProposal).
THEOREM DeletedStays == Spec => DeletedStaysDeleted
<1>1. SheetInv /\ [Next]_vars => [GoneStaysGone]_vars
  <2> SUFFICES ASSUME SheetInv, Next, NEW c \in Char, sheet[c] = Deleted PROVE sheet'[c] = Deleted
    BY DEF GoneStaysGone
  <2>1. TypeOK /\ TabInv /\ HeldInv
    BY DEF SheetInv
  <2>2. ~sheet[c].there /\ sheet[c] # NoSheet /\ ~Held(c)
    BY <2>1, SheetForms DEF HeldInv
  <2>3. ASSUME NEW d \in Char, NEW s \in Import, ImportSheet(d, s) PROVE sheet'[c] = sheet[c]
    BY <2>1, <2>2, <2>3 DEF ImportSheet, TypeOK
  <2>4. ASSUME NEW r \in Request, WriteHp(r) PROVE sheet'[c] = sheet[c]
    BY <2>1, <2>2, <2>4 DEF WriteHp, TypeOK
  <2>5. ASSUME NEW r \in Request, DeleteCharacter(r) PROVE sheet'[c] = sheet[c]
    BY <2>1, <2>2, <2>5 DEF DeleteCharacter, TypeOK
  <2>6. CASE HttpStep
    BY <2>3, <2>4, <2>5, <2>6 DEF HttpStep, Look, RemoveCharacter, EditHp, StartDelete
  <2>7. CASE ActionStep
    BY <2>7 DEF ActionStep, RequestRoll, OpenAction, CloseAction
  <2>8. CASE TurnStep
    BY <2>2, <2>8 DEF TurnStep, Validate, SelectTarget, WriteTarget, CommitTurn, View
  <2> QED BY <2>6, <2>7, <2>8 DEF Next
<1> QED BY <1>1, SheetInvariant, PTL DEF Spec, DeletedStaysDeleted

=============================================================================
