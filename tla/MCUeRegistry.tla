---------------------------- MODULE MCUeRegistry ----------------------------
(***************************************************************************)
(* An instance of UeRegistry for TLC.                                      *)
(***************************************************************************)
EXTENDS UeRegistryProperties

MCMainName == <<1, 0>>
MCNames == {<<1, 0>>, <<1, 1>>, <<2, 0>>, <<2, 1>>}
MCSought == {<<1, 0>>, <<1, 1>>}
MCAddressOf == [name \in MCNames |-> 2 * name[1] - 1 + name[2]]
=============================================================================
