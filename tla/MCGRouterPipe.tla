--------------------------- MODULE MCGRouterPipe ---------------------------
(***************************************************************************)
(* An instance of GRouterPipe for TLC: items of one, two and three chunks, *)
(* two of them with as many chunks but different sizes.                    *)
(***************************************************************************)
EXTENDS GRouterPipe

FewSizes == {1, 3, 4, 5}
=============================================================================
