----------------------------- MODULE MCBTPSocket -----------------------------
(* TLC instance of BTPSocket.                                                *)
EXTENDS BTPSocket

=============================================================================
