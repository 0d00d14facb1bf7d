------------------------------- MODULE BytePipe -------------------------------
(***************************************************************************)
(* What each direction of a session promises of its bytes.  A byte is its  *)
(* position in the stream that enters the pipe.  Bytes leave in the order  *)
(* they entered, each once and none left out; the pipe drops bytes only    *)
(* once it is broken, and reports the end of the stream only when nothing  *)
(* is left in it.  WriteQueue and OutputPump implement this.               *)
(***************************************************************************)
EXTENDS Naturals

VARIABLES
  entered,     \* how many bytes have entered
  delivered,   \* how many have left
  pending,     \* the bytes in the pipe
  state        \* "open", "broken" or "ended"

vars == <<entered, delivered, pending, state>>

Init == entered = 0 /\ delivered = 0 /\ pending = {} /\ state = "open"

Enter ==
  /\ state # "ended"
  /\ entered' > entered
  /\ pending' = pending \cup (entered + 1 .. entered')
  /\ UNCHANGED <<delivered, state>>

Deliver ==
  /\ state # "ended"
  /\ delivered' > delivered
  /\ delivered + 1 .. delivered' \subseteq pending
  /\ pending' = pending \ (delivered + 1 .. delivered')
  /\ UNCHANGED <<entered, state>>

Break ==
  /\ state' = "broken"
  /\ pending' \subseteq pending
  /\ UNCHANGED <<entered, delivered>>

End ==
  /\ state = "open" /\ pending = {}
  /\ state' = "ended"
  /\ UNCHANGED <<entered, delivered, pending>>

Next == Enter \/ Deliver \/ Break \/ End

Spec == Init /\ [][Next]_vars
=============================================================================
