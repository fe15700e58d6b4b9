----------------------------- MODULE MCIpcSearch -----------------------------
(* More commands than slots, so that connections are refused at the limit.   *)
EXTENDS IpcSearch
==============================================================================
