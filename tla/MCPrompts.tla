------------------------------ MODULE MCPrompts -----------------------------
(* Instances of Prompts for TLC.                                           *)
EXTENDS Prompts

=============================================================================
