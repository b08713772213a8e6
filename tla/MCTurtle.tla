------------------------------ MODULE MCTurtle ------------------------------
(***************************************************************************)
(* An instance of Turtle for TLC: the client o, a relay a and the provider *)
(* d know each other.  There are two routes from o to d, and requests that *)
(* d does not answer go round the triangle.                                *)
(***************************************************************************)
EXTENDS Turtle, TLC

CONSTANTS o, a, d, h1

TriangleFriends == [n \in Node |-> Node \ {n}]
OneClient == h1 :> o
OneProvider == h1 :> {d}
=============================================================================
