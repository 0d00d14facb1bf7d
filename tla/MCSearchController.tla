---------------------------- MODULE MCSearchController ----------------------------
(***************************************************************************)
(* Two queries: enough for the same one to be submitted again.  The larger *)
(* instance is that of MCTerminalView.                                     *)
(***************************************************************************)
EXTENDS SearchController
=============================================================================
