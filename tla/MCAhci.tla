------------------------------- MODULE MCAhci -------------------------------
(* A disk of two blocks.                                                   *)
EXTENDS Ahci

MCLbas   == {1, 2}
MCValues == {"v", "w"}
=============================================================================
