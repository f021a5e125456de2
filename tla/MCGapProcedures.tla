-------------------------- MODULE MCGapProcedures --------------------------
(* TLC instance of GapProcedures: every test, against IUTs that keep         *)
(* advertising and may lose the link once in a connection.                   *)
EXTENDS GapProcedures

MCTest == {"DISC_GENM_1", "CONN_GCEP_1", "CONN_DCON_1", "CONN_CPUP_1",
           "CONN_CPUP_2", "CONN_PAIR_1", "CONN_PAIR_2", "CONN_PAIR_3"}
MCNumericComparison == {"CONN_PAIR_2"}
=============================================================================
