---------------------------- MODULE ContextCache ----------------------------
(***************************************************************************)
(* The registry and roster a message is parsed against                     *)
(* (session-context.service.ts): read from the database on a miss, in two  *)
(* queries, held in memory, and dropped by every request that changed what *)
(* it was read from. A fill does not notice that it was overtaken.         *)
(***************************************************************************)
EXTENDS Membership

CONSTANT Fill      \* the fills that may overlap, each once

VARIABLES
  cache,        \* what the process holds for the campaign
  fill          \* the fills on their way

cacheVars == <<cache, fill>>

\* late is history: an invalidation fell between the miss and the store.
NoContext == [held |-> FALSE, registry |-> {}, roster |-> <<>>, late |-> FALSE]
NewFill == [pc |-> "new", registry |-> {}, roster |-> <<>>, late |-> FALSE]

CacheInit ==
  /\ cache = NoContext
  /\ fill = [f \in Fill |-> NewFill]

\* A miss, and the first query: the settings.
ReadSettings(f) ==
  /\ ~cache.held
  /\ fill[f].pc = "new"
  /\ fill' = [fill EXCEPT ![f].pc = "settings", ![f].registry = ResolveRegistry(disabled)]
  /\ UNCHANGED cache

\* The second query: the members, in whatever order they come.
ReadMembers(f) ==
  /\ fill[f].pc = "settings"
  /\ \E order \in SetToSeqs(Members) :
       fill' = [fill EXCEPT ![f].pc = "members", ![f].roster = BuildRoster(order)]
  /\ UNCHANGED cache

StoreContext(f) ==
  /\ fill[f].pc = "members"
  /\ cache' = [held |-> TRUE, registry |-> fill[f].registry, roster |-> fill[f].roster, late |-> fill[f].late]
  /\ fill' = [fill EXCEPT ![f] = [NewFill EXCEPT !.pc = "done"]]

\* The cache is emptied; a fill on its way goes on.
DropContext ==
  /\ cache' = NoContext
  /\ fill' = [f \in Fill |-> IF fill[f].pc \in {"settings", "members"} THEN [fill[f] EXCEPT !.late = TRUE] ELSE fill[f]]

\* Mutant: a removal and the settings drop the context, a new member does not.
Invalidate_NotOnAccept(r) ==
  /\ request[r].pc = "committed"
  /\ IF request[r].op = "accept" THEN UNCHANGED cacheVars ELSE DropContext
  /\ IF request[r].op = "remove" THEN Goto(r, "invalidated") ELSE Finish(r)
  /\ UNCHANGED <<member, invite, disabled, locks>>

\* After the commit of whatever changed the campaign.
Invalidate(r) ==
  /\ request[r].pc = "committed"
  /\ DropContext
  /\ IF request[r].op = "remove" THEN Goto(r, "invalidated") ELSE Finish(r)
  /\ UNCHANGED <<member, invite, disabled, locks>>

-----------------------------------------------------------------------------
(* Properties *)

Handles == UNION {Range(Candidates(u)) : u \in User}

CacheTypeOK ==
  LET Rosters == UNION {[us -> Handles] : us \in SUBSET User}
  IN /\ cache.held \in BOOLEAN /\ cache.late \in BOOLEAN
     /\ cache.registry \subseteq TriggerId /\ cache.roster \in Rosters
     /\ \A f \in Fill : /\ fill[f].pc \in {"new", "settings", "members", "done"}
                        /\ fill[f].registry \subseteq TriggerId /\ fill[f].roster \in Rosters
                        /\ fill[f].late \in BOOLEAN

\* No committed change still waits for its invalidation.
Invalidated == \A r \in Request : request[r].pc # "committed"

\* Rule 3 (router.ts): no two members share a handle and none has that of a
\* tag, in whatever order they are read, though display names, the beginnings of
\* ids and a name that reads like a handle agree. No name here spells a full id.
HandlesAreUnique ==
  \A u \in DOMAIN cache.roster :
    /\ cache.roster[u] \notin RESERVED_HANDLES
    /\ \A v \in DOMAIN cache.roster : cache.roster[u] = cache.roster[v] => u = v

Texts == [tag : Tag, name : Handles \cup {<<"nobody">>}, rest : BOOLEAN]

\* Once a change is invalidated, every text is routed as the campaign is now:
\* to members only, a whisper to one, and to the DM only by a trigger that is
\* enabled; unless the cache was filled by a fill the invalidation overtook.
RoutesAsTheCampaignIs ==
  (cache.held /\ ~cache.late /\ Invalidated) =>
    \A text \in Texts :
      LET d == ParseMessage(text, cache.roster, cache.registry, "player") IN
        d.kind = "route" =>
          /\ d.recipientIds \subseteq Members
          /\ d.recipientType = "party" => d.recipientIds = Members
          /\ d.visibility = "private" => Cardinality(d.recipientIds) = 1
          /\ d.trigger \in (TriggerId \ disabled) \cup {NoTrigger}
          /\ (\E id \in TriggerId \ disabled : TRIGGER_REGISTRY[id].tag = text.tag) => d.trigger # NoTrigger

=============================================================================
