----------------------------- MODULE MCEditors -----------------------------
(* TLC instance of Editors.                                                   *)
EXTENDS Editors
=============================================================================
