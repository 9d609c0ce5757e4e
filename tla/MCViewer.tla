------------------------------ MODULE MCViewer ------------------------------
(* The instances of MCParser, with a viewer beside the collectors and builders. *)
EXTENDS MCParser, Viewer
=============================================================================
