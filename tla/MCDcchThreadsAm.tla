---------------------------- MODULE MCDcchThreadsAm ----------------------------
(* An instance of DcchThreadsAm for TLC.                                        *)
EXTENDS DcchThreadsAm, MCDcchThreads
=============================================================================
