-------------------------- MODULE MCControlEngine --------------------------
(***************************************************************************)
(* A small instance of ControlEngine: one loaded unit with a route to the  *)
(* output, the only route there may be.                                    *)
(***************************************************************************)
EXTENDS ControlEngine

MC_OneRoute == {[kind |-> "audio", source |-> 1, target |-> EXT]}
=============================================================================
