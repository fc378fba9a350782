------------------------ MODULE MCBrowserInfoRegistry ------------------------
(* Instances of BrowserInfoRegistry for TLC.                               *)
EXTENDS BrowserInfoRegistry, TLC

Symmetry == Permutations(Browser) \cup Permutations(View)
=============================================================================
