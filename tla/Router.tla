------------------------------- MODULE Router -------------------------------
(***************************************************************************)
(* The deterministic router (packages/contracts/src/router.ts): the roster *)
(* with its handles, the trigger registry, and the function that turns a   *)
(* line of chat into a route. A handle is a tuple: the normalized display  *)
(* name, alone or followed by what tells two players apart. A text is its  *)
(* leading tag, the handle it names, and whether words follow.             *)
(***************************************************************************)
EXTENDS Integers, Sequences, SequencesExt, FiniteSets

CONSTANTS User, NameOf, IdPrefix   \* NameOf: the normalized display name

ASSUME NameAssumption == NameOf \in [User -> Seq(STRING)]
ASSUME UserAssumption == IsFiniteSet(User)

-----------------------------------------------------------------------------
(* The roster *)

RESERVED_HANDLES == {<<"party">>, <<"dm">>, <<"npc">>, <<"all">>, <<"everyone">>}

\* The handles buildRoster tries for a member, in order.
Candidates(u) == <<NameOf[u], Append(NameOf[u], IdPrefix[u]), Append(NameOf[u], u)>>

Free(h, roster) == h \notin RESERVED_HANDLES /\ \A v \in DOMAIN roster : roster[v] # h

\* Mutant: the handle with the id's prefix is taken unchecked as well.
Handle_PrefixIsEnough(u, roster) ==
  IF Free(Candidates(u)[1], roster) THEN Candidates(u)[1] ELSE Candidates(u)[2]

\* The first free candidate; the last one is taken unchecked.
Handle(u, roster) ==
  IF Free(Candidates(u)[1], roster) THEN Candidates(u)[1]
  ELSE IF Free(Candidates(u)[2], roster) THEN Candidates(u)[2] ELSE Candidates(u)[3]

Seat(u, roster) == [v \in DOMAIN roster \cup {u} |-> IF v = u THEN Handle(u, roster) ELSE roster[v]]

\* The roster of the members, in the order the query returned them.
BuildRoster(members) ==
  LET built[n \in 0..Len(members)] == IF n = 0 THEN <<>> ELSE Seat(members[n], built[n - 1])
  IN built[Len(members)]

-----------------------------------------------------------------------------
(* The registry *)

\* The triggers a text can fire; the other two belong to rolls and to the host.
TRIGGER_REGISTRY ==
  [dm_mention    |-> [tag |-> "@dm",    argument |-> "text",   requiredScope |-> "member"],
   npc_mention   |-> [tag |-> "@npc",   argument |-> "entity", requiredScope |-> "member"],
   ask_command   |-> [tag |-> "/ask",   argument |-> "text",   requiredScope |-> "member"],
   recap_command |-> [tag |-> "/recap", argument |-> "none",   requiredScope |-> "member"]]

TriggerId == DOMAIN TRIGGER_REGISTRY
NoTrigger == "none"

\* Every definition is enabled by default; an override takes it out of the registry.
ResolveRegistry(disabled) == TriggerId \ disabled

-----------------------------------------------------------------------------
(* The decision *)

Reject(code) == [kind |-> "reject", code |-> code]
Route(type, to, visibility, trigger) ==
  [kind |-> "route", recipientType |-> type, recipientIds |-> to,
   visibility |-> visibility, trigger |-> trigger]

\* The members a handle names: one at most, if handles are unique.
Called(h, roster) == {u \in DOMAIN roster : roster[u] = h}

\* A registered tag: its scope, then its argument. No campaign has NPCs yet.
Triggered(id, text, role) ==
  LET d == TRIGGER_REGISTRY[id] IN
    CASE d.requiredScope = "host" /\ role \notin {"host", "admin"} -> Reject("SCOPE_DENIED")
      [] d.argument = "entity" -> Reject("UNKNOWN_NPC")
      [] d.argument = "text" /\ ~text.rest -> Reject("EMPTY_TRIGGER")
      [] OTHER -> Route("dm", {}, "public", id)

\* The built-in routes, none of which wakes the DM; anything else is table talk.
BuiltIn(text, roster) ==
  LET named == Called(text.name, roster) IN
    CASE text.tag = "/roll"  -> Route("dice", {}, "public", NoTrigger)
      [] text.tag = "/sheet" -> Route("sheet", {}, "public", NoTrigger)
      [] text.tag = "/ooc"   -> Route("ooc", {}, "public", NoTrigger)
      [] text.tag = "/whisper" ->
           IF named = {} THEN Reject("UNKNOWN_PLAYER") ELSE Route("whisper", named, "private", NoTrigger)
      [] text.tag = "@party" -> Route("party", DOMAIN roster, "public", NoTrigger)
      [] text.tag = "@" /\ named # {} -> Route("player", named, "public", NoTrigger)
      [] OTHER -> Route("table", {}, "public", NoTrigger)

\* Triggers come first: a disabled one is absent, so its tag is an unknown one.
ParseMessage(text, roster, registry, role) ==
  LET fired == {id \in registry : TRIGGER_REGISTRY[id].tag = text.tag} IN
    CASE text.tag = ""  -> Reject("EMPTY_MESSAGE")
      [] fired # {}     -> Triggered(CHOOSE id \in fired : TRUE, text, role)
      [] OTHER          -> BuiltIn(text, roster)

\* "@" stands for a mention of a handle, "word" for a text without a tag.
Tag == {"", "word", "@", "@party", "/roll", "/sheet", "/ooc", "/whisper"}
         \cup {TRIGGER_REGISTRY[id].tag : id \in TriggerId}
=============================================================================
