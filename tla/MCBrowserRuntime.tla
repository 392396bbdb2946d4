-------------------------- MODULE MCBrowserRuntime --------------------------
(***************************************************************************)
(* An instance of BrowserRuntime.                                           *)
(***************************************************************************)
EXTENDS BrowserRuntime
=============================================================================
