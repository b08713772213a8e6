--------------------------- MODULE MCConfigFiles ---------------------------
(***************************************************************************)
(* Instances of ConfigFiles for TLC: one configuration, which both threads *)
(* save.                                                                   *)
(***************************************************************************)
EXTENDS ConfigFiles
=============================================================================
