---------------------------- MODULE MCNativeSession ----------------------------
(***************************************************************************)
(* A child that writes more chunks than may be in flight, every kind of    *)
(* event, and two callers of close(), overlapping or not.                  *)
(***************************************************************************)
EXTENDS NativeSession

=============================================================================
