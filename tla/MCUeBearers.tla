----------------------------- MODULE MCUeBearers -----------------------------
(* The bearers of a UE with the channels as configured (spreading factors   *)
(* 32 and 64, blocks of 360 bits), with two other spreading factors, and    *)
(* with blocks of 160 bits, which give FACH the PDU size of DCH.            *)
EXTENDS UeBearersProperties
=============================================================================
