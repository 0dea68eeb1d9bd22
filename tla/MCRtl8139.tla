------------------------------ MODULE MCRtl8139 ------------------------------
(* A ring of eight words and frames of two, three and five.                *)
EXTENDS Rtl8139

MCSizes == {2, 3, 5}
==============================================================================
