----------------------------- MODULE DmContext -----------------------------
(***************************************************************************)
(* What the Dungeon Master is told: the context package that build_context *)
(* assembles for a turn out of the sheets, the action thread, the campaign *)
(* notes and the transcript (buildContextPackage), and what the read tools *)
(* answer from it (executeReadTool). Around it the table goes on: lines    *)
(* are said, rolls asked for and made, sheets change.                      *)
(*                                                                         *)
(* A text is the number of tokens it is estimated at; headings and the     *)
(* rounding of estimateTokens are left out.                                *)
(***************************************************************************)
EXTENDS Integers, SequencesExt, FiniteSetsExt

CONSTANTS
  LAYER_BUDGET,    \* tokens: [state, action_thread, notes, prompt_total]
  TranscriptLimit, \* the rows recentPublicMessages is asked for
  Message,         \* what may be said: [visibility, channel, tokens]
  Sheet,           \* what a sheet may be rendered to: [full, core]
  Char,            \* the characters of the campaign
  Notes,           \* tokens of the campaign notes
  Action,          \* tokens of a pending action, with its roll
  MaxLines,        \* bound: lines said
  MaxActions       \* bound: rolls asked for

VARIABLES
  messages,  \* the rows of messages, in sequence order
  sheets,    \* the sheets of the characters
  notes,     \* campaigns.settings.notes, 0 without any
  actions,   \* the pending actions, in the order they were opened
  closed,    \* the completed ones, in the order of completed_at
  package    \* the context package of the turn that runs

vars == <<messages, sheets, notes, actions, closed, package>>

Profile == {"resolve_action", "npc_dialogue", "rules_answer", "recap"}
PROFILE_LAYERS ==
  [p \in Profile |->
     IF p \in {"rules_answer", "recap"} THEN {"contract", "srd", "state", "transcript"}
     ELSE {"contract", "srd", "state", "action_thread", "notes", "transcript"}]

NoPackage == [profile |-> "none", sent |-> <<>>, recorded |-> <<>>, lines |-> <<>>, characters |-> <<>>]

Init ==
  /\ messages = <<>> /\ actions = <<>> /\ closed = <<>>
  /\ sheets \in [Char -> Sheet]
  /\ notes \in Notes
  /\ package = NoPackage

-----------------------------------------------------------------------------
(* The table *)

\* persistMessage: the row of a routed line, at its place in the log.
Say(m) ==
  /\ Len(messages) < MaxLines
  /\ messages' = Append(messages, m)
  /\ UNCHANGED <<sheets, notes, actions, closed, package>>

AskForRoll(tokens) ==
  /\ Len(actions) < MaxActions
  /\ \A i \in DOMAIN actions : actions[i].status # "open"
  /\ actions' = Append(actions, [status |-> "open", tokens |-> tokens])
  /\ UNCHANGED <<messages, sheets, notes, closed, package>>

\* The roll is made, or a host moves on without it.
CloseRoll(i, status) ==
  /\ actions[i].status = "open"
  /\ actions' = [actions EXCEPT ![i].status = status]
  /\ closed' = IF status = "completed" THEN Append(closed, i) ELSE closed
  /\ UNCHANGED <<messages, sheets, notes, package>>

ChangeSheet(c, s) ==
  /\ sheets' = [sheets EXCEPT ![c] = s]
  /\ UNCHANGED <<messages, notes, actions, closed, package>>

-----------------------------------------------------------------------------
(* The reads of DmContextReader *)

\* Private lines are excluded by the WHERE, whatever profile reads.
Public(m) == m.visibility = "public" /\ m.channel \in {"in_character", "ooc"}

PublicLines == SelectSeq([i \in DOMAIN messages |-> i], LAMBDA i : Public(messages[i]))

\* In the order of their sequence, the first ones up to the limit.
RecentPublicMessages(limit) ==
  SubSeq(PublicLines, 1, IF Len(PublicLines) < limit THEN Len(PublicLines) ELSE limit)

\* The open action, or else the one completed last, whatever has been triggered
\* since; <<>> if there is neither.
UnresolvedAction ==
  IF \E i \in DOMAIN actions : actions[i].status = "open"
  THEN <<actions[CHOOSE i \in DOMAIN actions : actions[i].status = "open"]>>
  ELSE IF closed # <<>> THEN <<actions[Last(closed)]>> ELSE <<>>

-----------------------------------------------------------------------------
(* Assembly *)

AtMost(n, limit) == IF n < limit THEN n ELSE limit

Rendered(detail) == MapThenSumSet(LAMBDA c : sheets[c][detail], Char)

\* The whole tier, else the core tier, else the core tier cut to the budget.
StateBlock ==
  AtMost(IF Rendered("full") > LAYER_BUDGET.state THEN Rendered("core") ELSE Rendered("full"),
         LAYER_BUDGET.state)

\* A layer that is there is sent as it is and recorded up to its budget.
Layer(name, tokens) ==
  [sent |-> tokens, recorded |-> AtMost(tokens, LAYER_BUDGET[name])]
Nothing == [sent |-> 0, recorded |-> 0]

Tokens(lines) == FoldSeq(LAMBDA i, n : messages[i].tokens + n, 0, lines)

\* The oldest lines drop until the rest fits; the last one stays in any case.
Kept(lines, remaining) ==
  LET from(k) == SubSeq(lines, k, Len(lines))
      fits == {k \in DOMAIN lines : Tokens(from(k)) <= remaining}
  IN IF lines = <<>> THEN lines
     ELSE from(IF fits = {} THEN Len(lines) ELSE Min(fits))

BuildContextPackage(profile) ==
  LET has(layer) == layer \in PROFILE_LAYERS[profile]
      action == UnresolvedAction
      thread == IF has("action_thread") /\ action # <<>>
                THEN Layer("action_thread", action[1].tokens) ELSE Nothing
      noted == IF has("notes") /\ notes > 0 THEN Layer("notes", notes) ELSE Nothing
      fixed == StateBlock + thread.recorded + noted.recorded
      lines == Kept(RecentPublicMessages(TranscriptLimit), LAYER_BUDGET.prompt_total - fixed)
  IN [profile |-> profile,
      sent |-> <<StateBlock, thread.sent, noted.sent, Tokens(lines)>>,
      recorded |-> <<StateBlock, thread.recorded, noted.recorded, Tokens(lines)>>,
      lines |-> lines,
      characters |-> sheets]

\* The build_context node of a turn. The package serves the whole turn, a roll
\* it parks for included: the checkpoint keeps it.
BuildContext(profile) ==
  /\ package = NoPackage
  /\ package' = BuildContextPackage(profile)
  /\ UNCHANGED <<messages, sheets, notes, actions, closed>>

EndTurn ==
  /\ package # NoPackage
  /\ package' = NoPackage
  /\ UNCHANGED <<messages, sheets, notes, actions, closed>>

-----------------------------------------------------------------------------
TableStep ==
  \/ \E m \in Message : Say(m)
  \/ \E tokens \in Action : AskForRoll(tokens)
  \/ \E i \in DOMAIN actions, status \in {"completed", "cancelled"} : CloseRoll(i, status)
  \/ \E c \in Char, s \in Sheet : ChangeSheet(c, s)

Next == TableStep \/ (\E profile \in Profile : BuildContext(profile)) \/ EndTurn

Spec == Init /\ [][Next]_vars

-----------------------------------------------------------------------------
(* Properties *)

\* The transcript of a package is the end of what was said in public: "Newest
\* survives the cut: the oldest lines drop first." (buildContextPackage)
NewestSurvivesTheCut ==
  [][\A profile \in Profile :
       package = NoPackage /\ package'.profile = profile => IsSuffix(package'.lines, PublicLines)]_vars

=============================================================================
