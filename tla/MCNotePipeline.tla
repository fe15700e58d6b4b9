---------------------------- MODULE MCNotePipeline ----------------------------
(* Instances of NotePipeline for TLC.  The symmetry set is used only by the  *)
(* configuration that checks no liveness.                                    *)
EXTENDS NotePipeline, TLC

Symmetry == Permutations(Writers) \cup Permutations(Terminals)
=============================================================================
