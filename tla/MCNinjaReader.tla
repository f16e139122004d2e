---------------------------- MODULE MCNinjaReader ----------------------------
(* NinjaReader with bounded instances for TLC. *)
EXTENDS NinjaReader

=============================================================================
