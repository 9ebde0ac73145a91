--------------------------- MODULE MC_BrowserSession ---------------------------
(* Instances of BrowserSession for TLC. *)
EXTENDS BrowserSession

CONSTANTS i1, i2
================================================================================
