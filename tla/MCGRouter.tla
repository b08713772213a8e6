----------------------------- MODULE MCGRouter -----------------------------
(***************************************************************************)
(* Instances of GRouter for TLC: one message m1 from o to d, over          *)
(*   - a line o - r - d of friends,                                        *)
(*   - a pair o, d of friends, who may also dig tunnels, as long as they   *)
(*     are not connected or all the time.                                  *)
(***************************************************************************)
EXTENDS GRouter, TLC

CONSTANTS o, r, d, m1

OneOrigin == m1 :> o
OneDest == m1 :> d

LineFriends == o :> {r} @@ r :> {o, d} @@ d :> {r}
PairFriends == o :> {d} @@ d :> {o}

\* These networks are ones for which OneVerdict is stated.
ASSUME NetworkHasNoCycles == NoCycles

NoClues == {}
\* Another service of r once saw an item of d come from o.
WrongWayClue == {<<r, d, o>>}
=============================================================================
