---------------------------- MODULE MCSessionLifecycle ----------------------------
(***************************************************************************)
(* A thread that kills, two terminal modes, a child that may refuse        *)
(* signals, and every start of a thread failing.                           *)
(***************************************************************************)
EXTENDS SessionLifecycle

=============================================================================
