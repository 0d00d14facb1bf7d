------------------------------ MODULE ChildSpawn ------------------------------
(***************************************************************************)
(* How ptyx starts a child on Linux and learns its exit code               *)
(* (process_linux.rs, with session::spawn and wait_child around it): the   *)
(* host forks a monitor, the monitor forks the child, an `exec pipe' that  *)
(* exec closes carries the errno of a failed start to the monitor, and an  *)
(* `event pipe' carries messages from the monitor to the host.             *)
(*                                                                         *)
(* Several host threads spawn at the same time.  The monitor never execs,  *)
(* so O_CLOEXEC does not help: it keeps every descriptor the host has open *)
(* when it forks, other sessions' event pipes included.                    *)
(***************************************************************************)
EXTENDS Naturals, Sequences, FiniteSets

CONSTANTS
  Sessions,   \* concurrent calls of session::spawn, each with its child
  Ends,       \* how a program ends: <<"exited", code>> or <<"signaled", signal>>
  Faulty      \* sessions whose monitor may be killed or fail to read

ASSUME ChildSpawnAssumption ==
  /\ "host" \notin Sessions
  /\ Faulty \subseteq Sessions
  /\ Ends \subseteq ({"exited"} \X (0 .. 255)) \cup ({"signaled"} \X (1 .. 64))

VARIABLES
  host,      \* where the host thread is: spawn, later wait_child
  monitor,   \* where the monitor process is
  child,     \* where the child process is
  execPipe,  \* the exec pipe holds an errno
  events,    \* the event pipe
  holders,   \* who was given a write end of the event pipe: "host", monitors
  status,    \* the child's wait status
  told,      \* history: the exit code wait_child returned
  lost       \* history: the monitor was killed

processVars == <<host, monitor, child>>
pipeVars == <<execPipe, events, holders>>
spawnVars == <<host, monitor, child, execPipe, events, holders, status, told, lost>>

HostPcs == {"idle", "fork", "close", "read", "reap", "open", "reapExit",
            "failed", "exited", "lost", "abandoned"}
MonitorPcs == {"none", "start", "readExec", "sendError", "reapFailed", "sendPid", "wait",
               "zombie", "reaped"}
ChildPcs == {"none", "setup", "program", "zombie", "reaped"}

NoStatus == <<"none", 0>>

SpawnInit ==
  /\ host = [s \in Sessions |-> "idle"]
  /\ monitor = [s \in Sessions |-> "none"]
  /\ child = [s \in Sessions |-> "none"]
  /\ execPipe = [s \in Sessions |-> FALSE]
  /\ events = [s \in Sessions |-> <<>>]
  /\ holders = [s \in Sessions |-> {}]
  /\ status = [s \in Sessions |-> NoStatus]
  /\ told = [s \in Sessions |-> 0]
  /\ lost = [s \in Sessions |-> FALSE]

\* wait_for_pid_raw: the exit code that stands for a wait status.
ExitCode(e) == IF e[1] = "signaled" THEN 128 + e[2] ELSE e[2]

Killed == <<"signaled", 9>>

MonitorAlive(s) == monitor[s] \notin {"none", "zombie", "reaped"}

\* Somebody has a write end of s's event pipe: its monitor, the host, or the
\* monitor of another session and, until it execs, that monitor's child.
WriteEndOpen(s) ==
  \E p \in holders[s] :
    \/ p = "host"
    \/ MonitorAlive(p)
    \/ p # s /\ child[p] = "setup"

HostAt(s, from, to) == host[s] = from /\ host' = [host EXCEPT ![s] = to]
MonitorAt(s, from, to) == monitor[s] = from /\ monitor' = [monitor EXCEPT ![s] = to]
ChildAt(s, from, to) == child[s] = from /\ child' = [child EXCEPT ![s] = to]
Send(s, m) == events' = [events EXCEPT ![s] = Append(@, m)]

-----------------------------------------------------------------------------
(***************************************************************************)
(* The host: spawn.                                                        *)
(***************************************************************************)

\* pipe2, or no pipe, or a request that cannot be encoded (SpawnRequest::new).
OpenEventPipe(s) ==
  /\ \/ HostAt(s, "idle", "fork") /\ holders' = [holders EXCEPT ![s] = {"host"}]
     \/ HostAt(s, "idle", "failed") /\ UNCHANGED holders
  /\ UNCHANGED <<monitor, child, execPipe, events, status, told, lost>>

\* fork: the monitor gets every write end the host has open just now.
ForkMonitor(s) ==
  /\ \/ /\ HostAt(s, "fork", "close")
        /\ monitor' = [monitor EXCEPT ![s] = "start"]
        /\ holders' = [t \in Sessions |->
                         IF "host" \in holders[t] THEN holders[t] \cup {s} ELSE holders[t]]
     \/ /\ HostAt(s, "fork", "failed")
        /\ holders' = [holders EXCEPT ![s] = {}]
        /\ UNCHANGED monitor
  /\ UNCHANGED <<child, execPipe, events, status, told, lost>>

\* Fault: the host keeps its write end.
CloseNothing(s) ==
  /\ HostAt(s, "close", "read")
  /\ UNCHANGED <<monitor, child, pipeVars, status, told, lost>>

CloseWriteEnd(s) ==
  /\ HostAt(s, "close", "read")
  /\ holders' = [holders EXCEPT ![s] = @ \ {"host"}]
  /\ UNCHANGED <<monitor, child, execPipe, events, status, told, lost>>

\* read_message: MONITOR_PID makes a SupervisedChild, all else is an error.
ReadSpawnMessage(s) ==
  /\ events[s] # <<>>
  /\ HostAt(s, "read", IF Head(events[s])[1] = "PID" THEN "open" ELSE "reap")
  /\ events' = [events EXCEPT ![s] = Tail(@)]
  /\ UNCHANGED <<monitor, child, execPipe, holders, status, told, lost>>

\* UnexpectedEof: the monitor was killed.
ReadSpawnEof(s) ==
  /\ events[s] = <<>> /\ ~ WriteEndOpen(s)
  /\ HostAt(s, "read", "reap")
  /\ UNCHANGED <<monitor, child, pipeVars, status, told, lost>>

\* Fault: the monitor of a refused child is left to itself.
ReapNothing(s) ==
  /\ HostAt(s, "reap", "failed")
  /\ UNCHANGED <<monitor, child, pipeVars, status, told, lost>>

\* reap_pid; the embedding host may have reaped the monitor before (ECHILD).
ReapMonitor(s) ==
  /\ monitor[s] \in {"zombie", "reaped"}
  /\ monitor' = [monitor EXCEPT ![s] = "reaped"]
  /\ HostAt(s, "reap", "failed")
  /\ UNCHANGED <<child, pipeVars, status, told, lost>>

(***************************************************************************)
(* The host: wait_child, on the thread that session::spawn starts.         *)
(***************************************************************************)

\* read_exit_status: the exit code, then reap_pid ...
ReadExitMessage(s) ==
  /\ events[s] # <<>>
  /\ Head(events[s])[1] = "EXIT"
  /\ HostAt(s, "open", "reapExit")
  /\ told' = [told EXCEPT ![s] = Head(events[s])[2]]
  /\ events' = [events EXCEPT ![s] = Tail(@)]
  /\ UNCHANGED <<monitor, child, execPipe, holders, status, lost>>

ReapExitedMonitor(s) ==
  /\ monitor[s] \in {"zombie", "reaped"}
  /\ monitor' = [monitor EXCEPT ![s] = "reaped"]
  /\ HostAt(s, "reapExit", "exited")
  /\ UNCHANGED <<child, pipeVars, status, told, lost>>

\* ... or the end of the pipe, an error that reaps nothing.
ReadExitEof(s) ==
  /\ events[s] = <<>> /\ ~ WriteEndOpen(s)
  /\ HostAt(s, "open", "lost")
  /\ UNCHANGED <<monitor, child, pipeVars, status, told, lost>>

\* A process is killed from outside, or by process::kill.
KillChild(s) ==
  /\ child' = [child EXCEPT ![s] = "zombie"]
  /\ status' = [status EXCEPT ![s] = Killed]

\* The wait thread cannot be started: session::close kills the child, and the
\* SupervisedChild is dropped without having been waited for.
AbandonChild(s) ==
  /\ HostAt(s, "open", "abandoned")
  /\ IF child[s] \in {"zombie", "reaped"} THEN UNCHANGED <<child, status>> ELSE KillChild(s)
  /\ UNCHANGED <<monitor, pipeVars, told, lost>>

\* "An embedding host can reap direct children before this library can".
EmbedderReaps(s) ==
  /\ MonitorAt(s, "zombie", "reaped")
  /\ UNCHANGED <<host, child, pipeVars, status, told, lost>>

-----------------------------------------------------------------------------
(***************************************************************************)
(* run_monitor.                                                            *)
(***************************************************************************)

\* The exec pipe and the second fork, or MONITOR_EXEC_ERROR without a child.
ForkChild(s) ==
  /\ \/ MonitorAt(s, "start", "readExec") /\ child' = [child EXCEPT ![s] = "setup"]
     \/ MonitorAt(s, "start", "sendError") /\ UNCHANGED child
  /\ UNCHANGED <<host, pipeVars, status, told, lost>>

\* Fault: the child is reported as soon as it is forked.
MonitorReadsNothing(s) ==
  /\ MonitorAt(s, "readExec", "sendPid")
  /\ UNCHANGED <<host, child, pipeVars, status, told, lost>>

\* read_i32_or_eof_raw: an errno (1) ...
MonitorReadsErrno(s) ==
  /\ execPipe[s]
  /\ MonitorAt(s, "readExec", "sendError")
  /\ UNCHANGED <<host, child, pipeVars, status, told, lost>>

\* ... or end of file (0): the child has exec'd, or died without a word ...
MonitorReadsEof(s) ==
  /\ ~ execPipe[s] /\ child[s] # "setup"
  /\ MonitorAt(s, "readExec", "sendPid")
  /\ UNCHANGED <<host, child, pipeVars, status, told, lost>>

\* ... or a failed read (-1), handled as an error of the child.
MonitorReadFails(s) ==
  /\ s \in Faulty
  /\ MonitorAt(s, "readExec", "sendError")
  /\ UNCHANGED <<host, child, pipeVars, status, told, lost>>

\* MONITOR_EXEC_ERROR is written first; then the child, if any, is waited for.
MonitorSendsError(s) ==
  /\ MonitorAt(s, "sendError", IF child[s] = "none" THEN "zombie" ELSE "reapFailed")
  /\ Send(s, <<"EXEC_ERROR", 0>>)
  /\ UNCHANGED <<host, child, execPipe, holders, status, told, lost>>

\* wait_for_pid_raw, and _exit(1).
MonitorReapsFailed(s) ==
  /\ MonitorAt(s, "reapFailed", "zombie")
  /\ ChildAt(s, "zombie", "reaped")
  /\ UNCHANGED <<host, pipeVars, status, told, lost>>

MonitorSendsPid(s) ==
  /\ MonitorAt(s, "sendPid", "wait")
  /\ Send(s, <<"PID", 0>>)
  /\ UNCHANGED <<host, child, execPipe, holders, status, told, lost>>

\* wait_for_pid_raw, MONITOR_EXIT, and _exit(0).
MonitorReportsExit(s) ==
  /\ MonitorAt(s, "wait", "zombie")
  /\ ChildAt(s, "zombie", "reaped")
  /\ Send(s, <<"EXIT", ExitCode(status[s])>>)
  /\ UNCHANGED <<host, execPipe, holders, status, told, lost>>

\* The monitor is killed.
MonitorDies(s) ==
  /\ s \in Faulty /\ MonitorAlive(s)
  /\ monitor' = [monitor EXCEPT ![s] = "zombie"]
  /\ lost' = [lost EXCEPT ![s] = TRUE]
  /\ UNCHANGED <<host, child, pipeVars, status, told>>

-----------------------------------------------------------------------------
(***************************************************************************)
(* exec_child.                                                             *)
(***************************************************************************)

\* setsid, the controlling terminal, dup2, chdir and execvpe, which closes the exec
\* pipe; if one of them fails, errno goes into it (report_exec_error), and _exit(127).
ChildExecs(s) ==
  /\ ChildAt(s, "setup", "program")
  /\ UNCHANGED <<host, monitor, pipeVars, status, told, lost>>

ChildReports(s) ==
  /\ ChildAt(s, "setup", "zombie")
  /\ execPipe' = [execPipe EXCEPT ![s] = TRUE]
  /\ status' = [status EXCEPT ![s] = <<"exited", 127>>]
  /\ UNCHANGED <<host, monitor, events, holders, told, lost>>

\* The program ends, or the child is killed at any time before.
ProgramEnds(s) ==
  /\ ChildAt(s, "program", "zombie")
  /\ \E e \in Ends : status' = [status EXCEPT ![s] = e]
  /\ UNCHANGED <<host, monitor, pipeVars, told, lost>>

ChildKilled(s) ==
  /\ child[s] = "setup"
  /\ KillChild(s)
  /\ UNCHANGED <<host, monitor, pipeVars, told, lost>>

\* An orphan is reaped by init.
InitReaps(s) ==
  /\ ~ MonitorAlive(s)
  /\ ChildAt(s, "zombie", "reaped")
  /\ UNCHANGED <<host, monitor, pipeVars, status, told, lost>>

-----------------------------------------------------------------------------
HostStep(s) == ForkMonitor(s) \/ CloseWriteEnd(s) \/ ReadSpawnMessage(s) \/ ReadSpawnEof(s)
                 \/ ReapMonitor(s)
WaitStep(s) == ReadExitMessage(s) \/ ReapExitedMonitor(s) \/ ReadExitEof(s)
MonitorStep(s) == ForkChild(s) \/ MonitorReadsErrno(s) \/ MonitorReadsEof(s)
                    \/ MonitorSendsError(s) \/ MonitorReapsFailed(s) \/ MonitorSendsPid(s)
                    \/ MonitorReportsExit(s)
ChildStep(s) == ChildExecs(s) \/ ChildReports(s)

\* Every step after OpenEventPipe, which NativeCalls takes with ptyx_spawn.
SpawnStep(s) == HostStep(s) \/ WaitStep(s) \/ AbandonChild(s) \/ EmbedderReaps(s)
                  \/ MonitorStep(s) \/ MonitorReadFails(s) \/ MonitorDies(s)
                  \/ ChildStep(s) \/ ProgramEnds(s) \/ ChildKilled(s) \/ InitReaps(s)

-----------------------------------------------------------------------------
(***************************************************************************)
(* Properties.                                                             *)
(***************************************************************************)

Spawning(s) == host[s] \in {"fork", "close", "read", "reap"}

\* The session's monitor is gone, but its event pipe has another write end: one
\* that the monitor of another session inherited.
Leaked(s) ==
  ~ MonitorAlive(s) /\ \E t \in holders[s] \ {s, "host"} : MonitorAlive(t) \/ child[t] = "setup"

\* The monitor mistook a failed read for a failed start, and waits for a program
\* that runs.
Mistaken(s) == monitor[s] = "reapFailed" /\ child[s] = "program"

Program(s) == IF child[s] = "program" THEN "running"
              ELSE IF child[s] \in {"zombie", "reaped"} /\ ~ execPipe[s] THEN "ended"
              ELSE "none"

Supervision == INSTANCE ChildSupervision WITH
  Codes   <- 0 .. 255,
  program <- [s \in Sessions |-> Program(s)],
  code    <- [s \in Sessions |-> IF Program(s) = "ended" THEN ExitCode(status[s]) ELSE 0],
  answer  <- [s \in Sessions |->
                CASE host[s] = "failed" -> <<"refused", 0>>
                  [] host[s] = "exited" -> <<"exit", told[s]>>
                  [] host[s] = "lost" -> <<"lost", 0>>
                  [] host[s] \in {"open", "reapExit", "abandoned"} -> <<"started", 0>>
                  [] OTHER -> <<"pending", 0>>]

\* The two forks, two pipes and three kinds of message implement the supervision
\* that process_linux.rs:3-5 promises: a program that was refused does not run,
\* then or later, one that was started has exec'd, and the exit code is its own.
ImplementsSupervision == Supervision!Spec

\* Once spawn has failed, or the exit code was returned, no process of the
\* session is left, not even a zombie, whichever step failed (the three
\* reap_pid's of spawn, read_exit_status).  A monitor that was killed orphans its
\* child, and only then a child may be left.
NothingLeftBehind ==
  \A s \in Sessions :
    host[s] \in {"failed", "exited"} =>
      /\ monitor[s] \in {"none", "reaped"}
      /\ child[s] \in {"none", "reaped"} \/ lost[s]

\* spawn returns, unless for ever the monitor of another session keeps the event
\* pipe of a killed one open, or the monitor mistook a running program.
SpawnReturns ==
  \A s \in Sessions :
    []<>(~ Spawning(s)) \/ <>[](Leaked(s) \/ Mistaken(s))

\* The end of the child reaches wait_child, as an exit code or as the end of the
\* pipe, with the same exception.
ExitIsNoticed ==
  \A s \in Sessions :
    (child[s] \in {"zombie", "reaped"} /\ host[s] = "open")
      ~> (host[s] # "open" \/ [](Leaked(s)))
=============================================================================
