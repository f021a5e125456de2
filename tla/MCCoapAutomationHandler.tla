------------------------ MODULE MCCoapAutomationHandler ------------------------
(* TLC instance of CoapAutomationHandler.                                     *)
EXTENDS CoapAutomationHandler
=============================================================================
