--------------------------- MODULE ChildSupervision ---------------------------
(***************************************************************************)
(* What process_linux.rs promises its caller: "The monitor process becomes *)
(* the real PTY program's parent, owns its wait status, and reports the    *)
(* exit code over a pipe."  A request is answered "started" or "refused",  *)
(* and a started one, later, with the exit code.  ChildSpawn implements    *)
(* this with two forks and two pipes (ImplementsSupervision there).        *)
(***************************************************************************)
EXTENDS Naturals

CONSTANTS
  Sessions,   \* calls of spawn
  Codes       \* exit codes

VARIABLES
  program,   \* "none", "running" or "ended"
  code,      \* the exit code of an ended program
  lost,      \* the supervisor of the session was killed
  answer     \* what the caller has been told: <<what, exit code>>

vars == <<program, code, lost, answer>>

Init ==
  /\ program = [s \in Sessions |-> "none"]
  /\ code = [s \in Sessions |-> 0]
  /\ lost = [s \in Sessions |-> FALSE]
  /\ answer = [s \in Sessions |-> <<"pending", 0>>]

\* The program starts while the caller waits; without a supervisor, at any time.
Start(s) ==
  /\ program[s] = "none"
  /\ answer[s][1] = "pending" \/ lost[s]
  /\ program' = [program EXCEPT ![s] = "running"]
  /\ UNCHANGED <<code, lost, answer>>

\* It ends by itself, or is killed, perhaps before it ever started.
End(s) ==
  /\ program[s] = "running" \/ (program[s] = "none" /\ (answer[s][1] = "pending" \/ lost[s]))
  /\ program' = [program EXCEPT ![s] = "ended"]
  /\ \E c \in Codes : code' = [code EXCEPT ![s] = c]
  /\ UNCHANGED <<lost, answer>>

Lose(s) ==
  /\ lost' = [lost EXCEPT ![s] = TRUE]
  /\ UNCHANGED <<program, code, answer>>

Tell(s, a) ==
  /\ answer' = [answer EXCEPT ![s] = a]
  /\ UNCHANGED <<program, code, lost>>

\* "started" is said of a program that was started, "refused" of one that does
\* not run, the exit code of one that ended with it.
TellStarted(s) == answer[s][1] = "pending" /\ program[s] # "none" /\ Tell(s, <<"started", 0>>)
TellRefused(s) ==
  answer[s][1] = "pending" /\ (program[s] # "running" \/ lost[s]) /\ Tell(s, <<"refused", 0>>)
TellExit(s) ==
  answer[s][1] = "started" /\ program[s] = "ended" /\ Tell(s, <<"exit", code[s]>>)
TellLost(s) == answer[s][1] = "started" /\ lost[s] /\ Tell(s, <<"lost", 0>>)

Next == \E s \in Sessions : Start(s) \/ End(s) \/ Lose(s) \/ TellStarted(s)
                              \/ TellRefused(s) \/ TellExit(s) \/ TellLost(s)

Spec == Init /\ [][Next]_vars
=============================================================================
