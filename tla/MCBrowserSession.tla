-------------------------- MODULE MCBrowserSession --------------------------
(* Values for the model checking of BrowserSession.                        *)
EXTENDS BrowserSession

CONSTANTS o1, o2
=============================================================================
