----------------------- MODULE MCProviderConnections -----------------------
(***************************************************************************)
(* Small instances of ProviderConnections: two values of every field a     *)
(* request changes, patches of one field and one that moves two.           *)
(***************************************************************************)
EXTENDS ProviderConnections, TLC

CONSTANTS r1, r2, r3, r4

MCRequest == {r1, r2, r3, r4}
MCSymmetry == Permutations(Request)

MCValue == [label |-> {"l1", "l2"}, base_url |-> {"u1", "u2"}, model_id |-> {"m1"}, enabled |-> BOOLEAN]
MCPatch == {[label |-> l] : l \in {"l1", "l2"}} \cup {[base_url |-> u] : u \in {"u1", "u2"}}
             \cup {[enabled |-> e] : e \in BOOLEAN} \cup {[base_url |-> "u1", enabled |-> FALSE]}

=============================================================================
