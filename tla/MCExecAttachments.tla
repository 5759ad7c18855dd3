--------------------------- MODULE MCExecAttachments ---------------------------
(* TLC instance of ExecAttachments: model values.                          *)
EXTENDS ExecAttachments
=============================================================================
