------------------------- MODULE MCCharacterSheets -------------------------
(***************************************************************************)
(* Small instances of CharacterSheets: imports with two rows of the item   *)
(* or none, and replies of one to three proposals.                         *)
(***************************************************************************)
EXTENDS CharacterSheets, TLC

CONSTANTS c1, r1, r2

MCChar == {c1}
MCRequest == {r1, r2}
MCSymmetry == Permutations(Request)
MCImport == {[there |-> TRUE, hp |-> h, rows |-> q, version |-> 0] : h \in {3, 4}, q \in {<<>>, <<1, 1>>}}

Change(op, c, n) == [op |-> op, char |-> c, n |-> n]
Damage(c) == Change("adjust_hp", c, -2)
Blow(c) == Change("adjust_hp", c, -3)
MCReply ==
  {<<Blow(c1), Blow(c1), Blow(c1)>>}
    \cup {<<p>> : p \in {Damage(c1), Change("adjust_hp", c1, 1), Change("add_item", c1, 2)}}
    \cup {<<p, q>> : p \in {Damage(c1), Change("remove_item", c1, 2)}, q \in {Damage(c1), Change("add_item", c1, 2)}}

=============================================================================
