------------------------ MODULE MCBTPAutomationHandler ------------------------
(* TLC instance of BTPAutomationHandler.                                     *)
EXTENDS BTPAutomationHandler
=============================================================================
