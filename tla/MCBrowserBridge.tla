-------------------------- MODULE MCBrowserBridge --------------------------
(***************************************************************************)
(* Instances of BrowserBridge with an arena of a few slots whose            *)
(* generations run out.                                                     *)
(***************************************************************************)
EXTENDS BrowserBridge
=============================================================================
