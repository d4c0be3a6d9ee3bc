--------------------------- MODULE MCBrowserSession ---------------------------
(* Small instances of BrowserSession for TLC: see the .cfg files.              *)
EXTENDS BrowserSession, TLC

\* The tabs are interchangeable.
Symmetry == Permutations(Tabs)
=============================================================================
