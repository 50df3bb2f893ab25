--------------------------- MODULE MCCallbackAuth ---------------------------
(* Small instances of CallbackAuth for TLC.                                *)
EXTENDS CallbackAuth, TLC
=============================================================================
