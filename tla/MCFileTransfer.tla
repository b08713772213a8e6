--------------------------- MODULE MCFileTransfer ---------------------------
(***************************************************************************)
(* Instances of FileTransfer for TLC: two sources, of which the second has *)
(* only the first chunk; the last chunk is shorter than the others.        *)
(***************************************************************************)
EXTENDS FileTransfer, TLC

CONSTANTS p1, p2

BothAvail == p1 :> Chunk @@ p2 :> {0}
=============================================================================
