----------------------------- MODULE MCBTPWorker -----------------------------
(* TLC instance of BTPWorker: a test that sends the same command twice, with *)
(* another one in between, as the Defensics health check does.               *)
EXTENDS BTPWorker

CONSTANTS op1, op2

MCOp == {op1, op2}
MCScript == <<op1, op2, op1>>
=============================================================================
