------------------------------ MODULE MCTerminalView ------------------------------
(***************************************************************************)
(* Two queries, feeds that leave up to two units of work, two units to     *)
(* compress, two sizes, one chunk of history, and calls from listeners.    *)
(* Three calls of a search wait at most: of the host, of a write or resize *)
(* that it makes from there, and of what that causes; navigations count,   *)
(* and the listeners a navigation tells may call in addition to the two of *)
(* MaxWaiting.                                                             *)
(***************************************************************************)
EXTENDS TerminalView

MCScenarios ==
  {{"search", "resize"}, {"search", "restoration", "config"}, {"search", "compression"},
   {"compression", "resize"}, {"compression", "restoration", "view"},
   {"hold", "resize", "restoration"}, {"hold", "config"}}
=============================================================================
