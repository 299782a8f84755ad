------------------------------ MODULE MCManifest ------------------------------
(* Manifest with the bounds of its configuration, for TLC.                 *)
EXTENDS Manifest
=============================================================================
