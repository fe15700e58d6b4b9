--------------------------- MODULE MCEmbedEngine ---------------------------
(* The embedder and search handlers, with as many timers as calls, so that   *)
(* stale callbacks, a fresh timer and a running call overlap.                *)
EXTENDS EmbedEngine
=============================================================================
