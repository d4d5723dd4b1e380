---------------------------- MODULE MCDmContext ----------------------------
(***************************************************************************)
(* A small instance of DmContext: two rows of transcript instead of forty, *)
(* a state layer that fits in full, in its core tier or not at all, and    *)
(* actions and notes on either side of their budgets.                      *)
(***************************************************************************)
EXTENDS DmContext

MCBudget == [state |-> 2, action_thread |-> 1, notes |-> 1, prompt_total |-> 6]
MCMessage ==
  {[visibility |-> "public", channel |-> "in_character", tokens |-> n] : n \in 1..2}
    \cup {[visibility |-> "private", channel |-> "in_character", tokens |-> 1]}
MCSheet == {[full |-> 2, core |-> 1], [full |-> 4, core |-> 2], [full |-> 5, core |-> 3]}
MCChar == {"c1"}

=============================================================================
