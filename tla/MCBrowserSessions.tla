-------------------------- MODULE MCBrowserSessions ---------------------------
(***************************************************************************)
(* A small instance of BrowserSessions: the profiles are model values.     *)
(***************************************************************************)
EXTENDS BrowserSessions, TLC

CONSTANTS a, b

===============================================================================
