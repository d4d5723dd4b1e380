----------------------------- MODULE MCDmStream -----------------------------
(***************************************************************************)
(* A small instance of DmStream. The fence is <<f, f, d>>, which begins    *)
(* with a repeated symbol as the real one does, so that prose that ends in *)
(* the first symbol of the fence runs into it. j is a control block.       *)
(***************************************************************************)
EXTENDS DmStream

CONSTANTS p, f, d, j

MCSymbol == {p, f, d, j}
MCMarker == <<f, f, d>>
MCText ==
  { <<p, p, p, p, f, f, d, j>>,   \* narration and block
    <<p, f, f, f, d, j, f>>,      \* narration that ends in the symbol of the fence
    <<p, f, f, p, f, f, d>>,      \* a fence that was none, and a fence without a block
    <<p, p, f, f>>,               \* cut off in the fence
    <<f, j>> }                    \* a block whose fence is wrong

=============================================================================
