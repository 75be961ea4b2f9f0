---------------------------- MODULE MCGameAddons ----------------------------
(* An instance of GameAddons alone. *)
EXTENDS GameAddons

McSame == [d \in Dirs |-> d]
=============================================================================
