----------------------------- MODULE MCParseSlots -----------------------------
(* ParseSlots for TLC; the calls are model values of the .cfg files.         *)
EXTENDS ParseSlots
=============================================================================
