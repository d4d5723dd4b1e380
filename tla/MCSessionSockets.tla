-------------------------- MODULE MCSessionSockets --------------------------
(***************************************************************************)
(* Small instances of SessionSockets. Two players called Ann whose ids     *)
(* begin alike, and an owner whose display name reads like the handle that *)
(* would tell them apart.                                                  *)
(***************************************************************************)
EXTENDS SessionSockets

CONSTANTS r1, r2

MCRequest == {r1, r2}
MCSymmetry == Permutations(Request)

MCUser == {"owner", "ann1", "ann2"}
MCNameOf == [u \in MCUser |-> IF u = "owner" THEN <<"ann", "id">> ELSE <<"ann">>]
MCIdPrefix == [u \in MCUser |-> "id"]

=============================================================================
