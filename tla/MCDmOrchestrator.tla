-------------------------- MODULE MCDmOrchestrator --------------------------
(***************************************************************************)
(* Small instances of DmOrchestrator: a party of one and the character of  *)
(* another table, so that a turn may ask for rolls its table can make, for *)
(* some it can not, and for some that no uuid column takes.                *)
(***************************************************************************)
EXTENDS DmOrchestrator

CONSTANTS c1, c2, forged, malformed

MCParty == {c1}
MCAnyString == {c1, c2, malformed}

=============================================================================
