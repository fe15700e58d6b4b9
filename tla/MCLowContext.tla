---------------------------- MODULE MCLowContext ----------------------------
(* One or two files; a threshold of two saves and a window of two ticks, so  *)
(* that a burst, a debounced pair and a flagged file all fit.                *)
EXTENDS LowContext
=============================================================================
