--------------------------- MODULE MCStreamControl ---------------------------
(* Instances of StreamControl for TLC. *)
EXTENDS StreamControl
=============================================================================
