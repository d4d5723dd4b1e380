-------------------------- MODULE MCSessionService --------------------------
(***************************************************************************)
(* Small instances of SessionService. Five commands meet: a chat line, the  *)
(* server's own start of a DM turn (two events here, so that a batch is    *)
(* longer than one), a forced turn whose trigger is off (a mutation with   *)
(* no event), and the host's pause and end. Each call is one of them from  *)
(* the start, so any two calls may be a command and its retry. No symmetry *)
(* among the calls: it is not sound for the liveness property.             *)
(***************************************************************************)
EXTENDS SessionService

CONSTANTS r1, r2, r3

MCRequest == {r1, r2, r3}

MCCommandId == {"say", "turn", "force", "pause", "end"}
MCMode == [c \in CommandId |->
             CASE c = "say" -> "chat" [] c \in {"turn", "force"} -> "mutation" [] OTHER -> "host"]
MCDrafts == [c \in CommandId |-> CASE c = "turn" -> 2 [] c = "force" -> 0 [] OTHER -> 1]
MCTarget == [c \in CommandId |->
               CASE c \in {"say", "force"} -> NoMove
                 [] c = "turn"   -> "DM_GENERATING"
                 [] c = "pause"  -> "PAUSED"
                 [] c = "end"    -> "SESSION_ENDED"]
MCInternal == {"turn"}

=============================================================================
