--------------------------- MODULE MCCollection ---------------------------
(***************************************************************************)
(* Collection for TLC: a host with one thread for each core, one with two, *)
(* and one with two whose core numbers have a gap.                         *)
(***************************************************************************)
EXTENDS Collection

MCHosts == {
  [logical |-> 2, physical |-> 2, sensors |-> {0, 1}],
  [logical |-> 4, physical |-> 2, sensors |-> {0, 1}],
  [logical |-> 4, physical |-> 2, sensors |-> {0, 2}]}
=============================================================================
