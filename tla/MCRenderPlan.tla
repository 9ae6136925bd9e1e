---------------------------- MODULE MCRenderPlan ----------------------------
(***************************************************************************)
(* Small instances of RenderPlan: all audio routes among three units, one  *)
(* to the output, a midi route beside an audio route, and one from a port. *)
(***************************************************************************)
EXTENDS RenderPlan

MC_Audio == [kind : {"audio"}, source : {1, 2, 3}, target : {1, 2, 3}]
MC_Out == [kind : {"audio"}, source : {2}, target : {EXT}]
MC_Midi == [kind : {"midi"}, source : {1, EXT}, target : {2}]
MC_Routes == MC_Audio \cup MC_Out \cup MC_Midi
=============================================================================
