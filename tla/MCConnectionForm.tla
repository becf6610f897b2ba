--------------------------- MODULE MCConnectionForm ---------------------------
(***************************************************************************)
(* All fifteen forms, from every history of at most MaxEdits openings of   *)
(* the dialog.                                                             *)
(***************************************************************************)
EXTENDS ConnectionForm
=============================================================================
