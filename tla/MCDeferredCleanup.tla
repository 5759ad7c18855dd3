--------------------------- MODULE MCDeferredCleanup ---------------------------
(* TLC instance of DeferredCleanup: the constants are model values.        *)
EXTENDS DeferredCleanup, TLC
=============================================================================
