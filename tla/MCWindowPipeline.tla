------------------------- MODULE MCWindowPipeline --------------------------
(* Small instance of WindowPipeline for TLC. *)
EXTENDS WindowPipeline

MCClasses == {{}, {"soft"}, {"hard"}}
=============================================================================
