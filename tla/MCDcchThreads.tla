----------------------------- MODULE MCDcchThreads -----------------------------
(* Instances of DcchThreads for TLC.                                            *)
EXTENDS DcchThreadsProperties

Files == {"URlcRecv.cpp", "URlc.cpp"}

\* One queue, as the header that declares it means it.
OneQueue == [file \in Files |-> "gRrcUplinkQueue"]

\* A static variable in a header: each translation unit has its own.
StaticQueue == [file \in Files |-> file]
=============================================================================
