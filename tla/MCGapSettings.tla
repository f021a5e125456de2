--------------------------- MODULE MCGapSettings ---------------------------
(* TLC instance of GapSettings: a peripheral that advertises.                *)
EXTENDS GapSettings

MCBit == {"Advertising", "Connectable"}
=============================================================================
