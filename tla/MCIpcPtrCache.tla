----------------------------- MODULE MCIpcPtrCache -----------------------------
(* TLC instance of IpcPtrCache: the constants are model values.            *)
EXTENDS IpcPtrCache, TLC
=============================================================================
