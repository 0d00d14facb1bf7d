---------------------------- MODULE MCPtyDescriptor ----------------------------
(***************************************************************************)
(* A terminal that is full after two chunks and a host that writes four.   *)
(***************************************************************************)
EXTENDS PtyDescriptor
=============================================================================
