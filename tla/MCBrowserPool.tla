----------------------------- MODULE MCBrowserPool -----------------------------
(***************************************************************************)
(* Finite instances of BrowserPool.                                        *)
(***************************************************************************)
EXTENDS BrowserPool, TLC

CONSTANTS k1, k2, e1, e2, e3, e4, c1, c2
===============================================================================
