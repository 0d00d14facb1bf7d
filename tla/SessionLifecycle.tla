--------------------------- MODULE SessionLifecycle ---------------------------
(***************************************************************************)
(* A native ptyx session on Linux, from ptyx_spawn to ptyx_close           *)
(* (session.rs, runtime.rs, process.rs): the child and the monitor that    *)
(* reaps it, the thread that caches its exit code, the reader, wait, mode  *)
(* and writer threads of the runtime, every way spawn can fail half way,   *)
(* and ptyx_kill racing the child's exit.                                  *)
(*                                                                         *)
(* The reader and the writer appear by what close needs of them: the       *)
(* reader ends by itself or once the stop flag is set, the writer once its *)
(* queue is closed.  OutputPump and WriteQueue model their code and check  *)
(* those promises (CloseStopsReader, CloseCompletes).  Poisoned locks and  *)
(* panicking threads are not modelled.                                     *)
(***************************************************************************)
EXTENDS Naturals

CONSTANTS
  Killers,      \* host threads that call ptyx_kill
  Signals,      \* the signals they send
  Modes,        \* terminal modes of the PTY
  Privileges,   \* {FALSE}, or {FALSE, TRUE} to let kill(2) answer EPERM
  ModeEvents    \* values of RuntimeConfig.enable_mode_events

ASSUME SessionLifecycleAssumption ==
  /\ Signals \subseteq {"KILL", "TERM"}
  /\ "none" \notin Modes
  /\ Modes # {}
  /\ Privileges \subseteq BOOLEAN /\ Privileges # {}
  /\ ModeEvents \subseteq BOOLEAN /\ ModeEvents # {}

VARIABLES
  child,        \* the program on the PTY
  privileged,   \* the child runs with credentials kill(2) refuses
  monitor,      \* the child's parent process
  waitState,    \* WaitState.result
  exitWaiter,   \* thread ptyx-child-wait
  slot,         \* Session.runtime is Some
  stop,         \* the runtime's stop flag
  reader,       \* thread ptyx-reader
  waiter,       \* thread ptyx-wait
  modeEvents,   \* RuntimeConfig.enable_mode_events
  watcher,      \* thread ptyx-mode
  lastMode,     \* mode_loop's last_mode
  ptyMode,      \* the terminal's mode
  writer,       \* thread ptyx-writer
  closed,       \* SessionInner.closed
  owner,        \* where the host call that spawns, and later closes, is
  killer,       \* where each ptyx_kill is
  exitEvent,    \* history: what ptyx-wait posted
  staleSignal   \* history: kill(2) was called with the PID of a reaped child

childVars   == <<child, privileged, monitor, ptyMode>>
threadVars  == <<exitWaiter, reader, waiter, watcher, lastMode, writer>>
sharedVars  == <<waitState, slot, stop, closed, modeEvents>>
historyVars == <<exitEvent, staleSignal>>
vars == <<child, privileged, monitor, waitState, exitWaiter, slot, stop, reader, waiter,
          modeEvents, watcher, lastMode, ptyMode, writer, closed, owner, killer,
          exitEvent, staleSignal>>

\* start_runtime, then the undo of a failed start, then session::close.
Starting == {"exitWaiter", "reader", "wait", "mode"}
Undoing  == {"undoReader", "undoReaderAndWait", "undoWait"}
Closing  == {"kill", "signal", "runtime", "joinReader", "joinWait", "joinMode",
             "joinWriter", "joinExit"}
OwnerPcs == Starting \cup Undoing \cup Closing \cup {"open", "done"}

ThreadPcs == {"none", "running", "done"}
WaiterPcs == {"none", "check", "blocked", "woken", "post", "done"}
WatcherPcs == {"none", "check", "snapshot", "sleep", "done", "failed"}

Init ==
  /\ child = "running"
  /\ privileged \in Privileges
  /\ monitor = "waiting"
  /\ waitState = "none"
  /\ exitWaiter = "none"
  /\ slot = FALSE
  /\ stop = FALSE
  /\ reader = "none"
  /\ waiter = "none"
  /\ modeEvents \in ModeEvents
  /\ watcher = "none"
  /\ lastMode = "none"
  /\ ptyMode \in Modes
  /\ writer = "none"
  /\ closed = FALSE
  /\ owner = "exitWaiter"
  /\ killer = [k \in Killers |-> "idle"]
  /\ exitEvent = "none"
  /\ staleSignal = FALSE

-----------------------------------------------------------------------------
(***************************************************************************)
(* The child and its monitor (process_linux.rs).                           *)
(***************************************************************************)

\* The program ends, or changes the mode of its terminal.
ChildExits ==
  /\ child = "running"
  /\ child' = "zombie"
  /\ UNCHANGED <<privileged, monitor, ptyMode, threadVars, sharedVars, owner, killer,
                 historyVars>>

ChildSetsMode(m) ==
  /\ child = "running"
  /\ ptyMode' = m
  /\ UNCHANGED <<child, privileged, monitor, threadVars, sharedVars, owner, killer,
                 historyVars>>

\* The monitor's waitpid returns; an orphaned child is reaped by init.
Reap ==
  /\ child = "zombie"
  /\ child' = "reaped"
  /\ monitor' = IF monitor = "waiting" THEN "reaped" ELSE monitor
  /\ UNCHANGED <<privileged, ptyMode, threadVars, sharedVars, owner, killer, historyVars>>

\* Fault: the exit message is written before waitpid.
MonitorReportsEarly ==
  /\ monitor = "waiting"
  /\ monitor' = "reported"
  /\ UNCHANGED <<child, privileged, ptyMode, threadVars, sharedVars, owner, killer,
                 historyVars>>

\* The monitor writes MONITOR_EXIT into the pipe and exits.
MonitorReports ==
  /\ monitor = "reaped"
  /\ monitor' = "reported"
  /\ UNCHANGED <<child, privileged, ptyMode, threadVars, sharedVars, owner, killer,
                 historyVars>>

\* The monitor is killed from outside: the pipe ends without MONITOR_EXIT.
MonitorDies ==
  /\ monitor \in {"waiting", "reaped"}
  /\ monitor' = "lost"
  /\ UNCHANGED <<child, privileged, ptyMode, threadVars, sharedVars, owner, killer,
                 historyVars>>

-----------------------------------------------------------------------------
(***************************************************************************)
(* The threads.                                                            *)
(***************************************************************************)

\* ptyx-child-wait: wait_child reads the pipe to MONITOR_EXIT or its end ...
ReadExitStatus ==
  /\ exitWaiter = "running"
  /\ monitor \in {"reported", "lost"}
  /\ exitWaiter' = IF monitor = "reported" THEN "exit" ELSE "failed"
  /\ UNCHANGED <<childVars, reader, waiter, watcher, lastMode, writer, sharedVars, owner,
                 killer, historyVars>>

\* Fault: complete forgets ready.notify_all.
CompleteSilently ==
  /\ exitWaiter \in {"exit", "failed"}
  /\ waitState' = exitWaiter
  /\ exitWaiter' = "done"
  /\ UNCHANGED <<childVars, slot, stop, closed, modeEvents, reader, waiter, watcher, lastMode,
                 writer, owner, killer, historyVars>>

\* ... and WaitState::complete caches it and wakes the wait thread.
Complete ==
  /\ exitWaiter \in {"exit", "failed"}
  /\ waitState' = exitWaiter
  /\ exitWaiter' = "done"
  /\ waiter' = IF waiter = "blocked" THEN "check" ELSE waiter
  /\ UNCHANGED <<childVars, slot, stop, closed, modeEvents, reader, watcher, lastMode, writer,
                 owner, killer, historyVars>>

\* wait_loop: WaitState::wait, then the stop flag, then one event.
WaitChecks ==
  /\ waiter = "check"
  /\ waiter' = IF waitState = "none" THEN "blocked" ELSE "woken"
  /\ UNCHANGED <<childVars, exitWaiter, reader, watcher, lastMode, writer, sharedVars, owner,
                 killer, historyVars>>

WaitReadsStop ==
  /\ waiter = "woken"
  /\ waiter' = IF stop THEN "done" ELSE "post"
  /\ UNCHANGED <<childVars, exitWaiter, reader, watcher, lastMode, writer, sharedVars, owner,
                 killer, historyVars>>

\* post_exit or post_error; a port the host has closed drops the message.
WaitPosts ==
  /\ waiter = "post"
  /\ waiter' = "done"
  /\ exitEvent' \in {waitState, "dropped"}
  /\ UNCHANGED <<childVars, exitWaiter, reader, watcher, lastMode, writer, sharedVars, owner,
                 killer, staleSignal>>

\* reader::run returns: the PTY ended or failed, or the stop flag is set.
ReaderEnds ==
  /\ reader = "running"
  /\ reader' = "done"
  /\ UNCHANGED <<childVars, exitWaiter, waiter, watcher, lastMode, writer, sharedVars, owner,
                 killer, historyVars>>

\* A first ptyx_write starts ptyx-writer (WriteQueue has writes that overlap close).
WriterStarts ==
  /\ writer = "none"
  /\ slot
  /\ owner = "open"
  /\ writer' = "running"
  /\ UNCHANGED <<childVars, exitWaiter, reader, waiter, watcher, lastMode, sharedVars, owner,
                 killer, historyVars>>

\* writer_loop returns: WriteQueue::close was called, with stop, or a write failed.
WriterEnds ==
  /\ writer = "running"
  /\ writer' = "done"
  /\ UNCHANGED <<childVars, exitWaiter, reader, waiter, watcher, lastMode, sharedVars, owner,
                 killer, historyVars>>

\* mode_loop.
WatcherChecks ==
  /\ watcher = "check"
  /\ watcher' = IF stop THEN "done" ELSE "snapshot"
  /\ UNCHANGED <<childVars, exitWaiter, reader, waiter, lastMode, writer, sharedVars, owner,
                 killer, historyVars>>

\* Fault: a watcher that saw no change stops watching.
SnapshotOnce ==
  /\ watcher = "snapshot"
  /\ IF lastMode = ptyMode
     THEN watcher' = "done" /\ UNCHANGED lastMode
     ELSE watcher' = "sleep" /\ lastMode' = ptyMode
  /\ UNCHANGED <<childVars, exitWaiter, reader, waiter, writer, sharedVars, owner, killer,
                 historyVars>>

\* A new mode is posted and remembered; a failed post or snapshot ends the thread.
Snapshot ==
  /\ watcher = "snapshot"
  /\ \/ watcher' = "sleep" /\ lastMode' = ptyMode
     \/ watcher' = "failed" /\ UNCHANGED lastMode
  /\ UNCHANGED <<childVars, exitWaiter, reader, waiter, writer, sharedVars, owner, killer,
                 historyVars>>

\* sleep_interruptibly ends at the deadline, or once stop is set.
WatcherWakes ==
  /\ watcher = "sleep"
  /\ watcher' = "check"
  /\ UNCHANGED <<childVars, exitWaiter, reader, waiter, lastMode, writer, sharedVars, owner,
                 killer, historyVars>>

-----------------------------------------------------------------------------
(***************************************************************************)
(* runtime::spawn: session::spawn has forked the monitor.                  *)
(***************************************************************************)

\* session::close begins: the host calls ptyx_close, or spawn gives up.
BeginClose == closed' = TRUE /\ owner' = "kill"

\* thread::Builder::spawn fails for ptyx-child-wait: nothing else was started.
StartExitWaiter ==
  /\ owner = "exitWaiter"
  /\ \/ exitWaiter' = "running" /\ owner' = "reader" /\ UNCHANGED closed
     \/ BeginClose /\ UNCHANGED exitWaiter
  /\ UNCHANGED <<childVars, waitState, slot, stop, modeEvents, reader, waiter, watcher,
                 lastMode, writer, killer, historyVars>>

StartReader ==
  /\ owner = "reader"
  /\ \/ reader' = "running" /\ owner' = "wait" /\ UNCHANGED closed
     \/ BeginClose /\ UNCHANGED reader
  /\ UNCHANGED <<childVars, waitState, slot, stop, modeEvents, exitWaiter, waiter, watcher,
                 lastMode, writer, killer, historyVars>>

StartWaiter ==
  /\ owner = "wait"
  /\ \/ waiter' = "check" /\ owner' = "mode" /\ UNCHANGED stop
     \/ stop' = TRUE /\ owner' = "undoReader" /\ UNCHANGED waiter
  /\ UNCHANGED <<childVars, waitState, slot, closed, modeEvents, exitWaiter, reader, watcher,
                 lastMode, writer, killer, historyVars>>

\* The last thread; with it the runtime is stored and the handle returned.
StartWatcher ==
  /\ owner = "mode"
  /\ \/ /\ watcher' = IF modeEvents THEN "check" ELSE "none"
        /\ slot' = TRUE
        /\ owner' = "open"
        /\ UNCHANGED stop
     \/ /\ modeEvents
        /\ stop' = TRUE
        /\ owner' = "undoReaderAndWait"
        /\ UNCHANGED <<watcher, slot>>
  /\ UNCHANGED <<childVars, waitState, closed, modeEvents, exitWaiter, reader, waiter,
                 lastMode, writer, killer, historyVars>>

\* handle.join() of a failed start.
UndoReader ==
  /\ owner \in {"undoReader", "undoReaderAndWait"}
  /\ reader = "done"
  /\ IF owner = "undoReader" THEN BeginClose ELSE owner' = "undoWait" /\ UNCHANGED closed
  /\ UNCHANGED <<childVars, waitState, slot, stop, modeEvents, threadVars, killer, historyVars>>

\* wait_handle.join() of a failed start: the child has not been killed yet.
UndoWait ==
  /\ owner = "undoWait"
  /\ waiter = "done"
  /\ BeginClose
  /\ UNCHANGED <<childVars, waitState, slot, stop, modeEvents, threadVars, killer, historyVars>>

-----------------------------------------------------------------------------
(***************************************************************************)
(* ptyx_kill and ptyx_close.                                               *)
(***************************************************************************)

\* libc::kill(child_pid, sig): whether it reaches the child, and what it does.
Delivered == child # "reaped" /\ ~ privileged
SendSignal(sig) ==
  /\ child' = IF Delivered /\ sig = "KILL" /\ child = "running" THEN "zombie" ELSE child
  /\ staleSignal' = (staleSignal \/ child = "reaped")
  /\ UNCHANGED <<privileged, monitor, ptyMode>>

\* The host calls ptyx_kill on an open session; with a cached result it returns false.
KillChecks(k) ==
  /\ owner = "open"
  /\ killer[k] = "idle"
  /\ waitState = "none"
  /\ killer' = [killer EXCEPT ![k] = "signal"]
  /\ UNCHANGED <<childVars, threadVars, sharedVars, owner, historyVars>>

\* signal_child, later; what kill(2) returns goes to the host.
KillSignals(k, sig) ==
  /\ killer[k] = "signal"
  /\ SendSignal(sig)
  /\ killer' = [killer EXCEPT ![k] = "idle"]
  /\ UNCHANGED <<threadVars, sharedVars, owner, exitEvent>>

\* The host gives the handle to ptyx_close; no other call uses it any more.
HostCloses ==
  /\ owner = "open"
  /\ \A k \in Killers : killer[k] # "signal"
  /\ BeginClose
  /\ UNCHANGED <<childVars, threadVars, waitState, slot, stop, modeEvents, killer, historyVars>>

\* process::kill(SIGKILL): skipped when a wait result is cached ...
CloseChecks ==
  /\ owner = "kill"
  /\ owner' = IF waitState # "none" THEN "runtime" ELSE "signal"
  /\ UNCHANGED <<childVars, threadVars, sharedVars, killer, historyVars>>

\* Fault: close asks the child to terminate and trusts it.
CloseSignalsTerm ==
  /\ owner = "signal"
  /\ SendSignal("TERM")
  /\ owner' = "runtime"
  /\ UNCHANGED <<threadVars, sharedVars, killer, exitEvent>>

\* ... and whatever it returns is dropped.
CloseSignals ==
  /\ owner = "signal"
  /\ SendSignal("KILL")
  /\ owner' = "runtime"
  /\ UNCHANGED <<threadVars, sharedVars, killer, exitEvent>>

\* close_runtime sets the stop flag and closes the write queue, if it has a runtime.
CloseRuntime ==
  /\ owner = "runtime"
  /\ IF slot THEN stop' = TRUE /\ owner' = "joinReader"
             ELSE UNCHANGED stop /\ owner' = "joinExit"
  /\ UNCHANGED <<childVars, threadVars, waitState, slot, closed, modeEvents, killer,
                 historyVars>>

JoinReader ==
  /\ owner = "joinReader"
  /\ reader = "done"
  /\ owner' = "joinWait"
  /\ UNCHANGED <<childVars, threadVars, sharedVars, killer, historyVars>>

\* Fault: the wait thread is left to itself.
JoinWaitSkipped ==
  /\ owner = "joinWait"
  /\ owner' = "joinMode"
  /\ UNCHANGED <<childVars, threadVars, sharedVars, killer, historyVars>>

JoinWait ==
  /\ owner = "joinWait"
  /\ waiter = "done"
  /\ owner' = "joinMode"
  /\ UNCHANGED <<childVars, threadVars, sharedVars, killer, historyVars>>

JoinMode ==
  /\ owner = "joinMode"
  /\ watcher \in {"none", "done", "failed"}
  /\ owner' = "joinWriter"
  /\ UNCHANGED <<childVars, threadVars, sharedVars, killer, historyVars>>

\* The writer is joined and the runtime dropped.
JoinWriter ==
  /\ owner = "joinWriter"
  /\ writer \in {"none", "done"}
  /\ slot' = FALSE
  /\ owner' = "joinExit"
  /\ UNCHANGED <<childVars, threadVars, waitState, stop, closed, modeEvents, killer,
                 historyVars>>

\* join_exit_waiter, and the session is freed.
JoinExitWaiter ==
  /\ owner = "joinExit"
  /\ exitWaiter \in {"none", "done"}
  /\ owner' = "done"
  /\ UNCHANGED <<childVars, threadVars, sharedVars, killer, historyVars>>

-----------------------------------------------------------------------------
MonitorStep    == Reap \/ MonitorReports
ExitWaiterStep == ReadExitStatus \/ Complete
WaiterStep     == WaitChecks \/ WaitReadsStop \/ WaitPosts
WatcherStep    == WatcherChecks \/ Snapshot \/ WatcherWakes
SpawnStep == StartExitWaiter \/ StartReader \/ StartWaiter \/ StartWatcher
               \/ UndoReader \/ UndoWait
CloseStep == CloseChecks \/ CloseSignals \/ CloseRuntime \/ JoinReader \/ JoinWait
               \/ JoinMode \/ JoinWriter \/ JoinExitWaiter

Next ==
  \/ ChildExits
  \/ \E m \in Modes : ChildSetsMode(m)
  \/ MonitorStep
  \/ MonitorDies
  \/ ExitWaiterStep
  \/ WaiterStep
  \/ ReaderEnds
  \/ WriterStarts
  \/ WriterEnds
  \/ WatcherStep
  \/ SpawnStep
  \/ HostCloses
  \/ CloseStep
  \/ \E k \in Killers : KillChecks(k)
  \/ \E k \in Killers, sig \in Signals : KillSignals(k, sig)

Spec == Init /\ [][Next]_vars

\* Every thread and the monitor are scheduled, and the reader and the writer
\* end once they are told to.  Nothing makes the child exit or the host close.
FairSpec ==
  /\ Spec
  /\ WF_vars(MonitorStep)
  /\ WF_vars(ExitWaiterStep)
  /\ WF_vars(WaiterStep)
  /\ WF_vars(WatcherStep)
  /\ WF_vars(stop /\ ReaderEnds)
  /\ WF_vars(stop /\ WriterEnds)
  /\ WF_vars(SpawnStep)
  /\ WF_vars(CloseStep)

-----------------------------------------------------------------------------
(***************************************************************************)
(* Properties.                                                             *)
(***************************************************************************)

TypeOK ==
  /\ child \in {"running", "zombie", "reaped"}
  /\ privileged \in BOOLEAN
  /\ monitor \in {"waiting", "reaped", "reported", "lost"}
  /\ waitState \in {"none", "exit", "failed"}
  /\ exitWaiter \in {"none", "running", "exit", "failed", "done"}
  /\ slot \in BOOLEAN
  /\ stop \in BOOLEAN
  /\ reader \in ThreadPcs
  /\ waiter \in WaiterPcs
  /\ modeEvents \in BOOLEAN
  /\ watcher \in WatcherPcs
  /\ lastMode \in Modes \cup {"none"}
  /\ ptyMode \in Modes
  /\ writer \in ThreadPcs
  /\ closed \in BOOLEAN
  /\ owner \in OwnerPcs
  /\ killer \in [Killers -> {"idle", "signal"}]
  /\ exitEvent \in {"none", "exit", "failed", "dropped"}
  /\ staleSignal \in BOOLEAN

\* Once ptyx_close has returned, or a spawn has failed, no thread of the session
\* runs: nothing touches the PTY, the ports or the freed session any more
\* (close, close_runtime, the three undo paths of start_runtime).
ClosedIsQuiet ==
  owner = "done" =>
    {exitWaiter, reader, writer, waiter, watcher} \subseteq {"none", "done", "failed"}

\* ... and the child is not left running, except where process::kill could not
\* reach it: kill(2) was refused, or its monitor died and kill was skipped
\* because a failed wait counts as a cached exit (has_cached_exit).
ClosedChildIsDead ==
  owner = "done" /\ child = "running" => privileged \/ monitor = "lost"

\* An exit code is cached and posted only for a child that has exited and been
\* waited for, whatever kill, close or the monitor's death do meanwhile.
ExitIsTrue ==
  (waitState = "exit" \/ exitEvent = "exit") => child = "reaped"

\* ptyx_spawn returns, with a session or an error, even when a thread cannot be
\* started half way, and ptyx_close returns.  A child that kill(2) refuses can hold
\* close until it exits (close_runtime joins ptyx-wait, which only the child's exit
\* releases), and in a failed start the join of that thread may wait for it.
CallsReturn ==
  /\ (~ privileged \/ <>(child # "running")) => (owner \in Closing ~> owner = "done")
  /\ (<>(child # "running") \/ (~ privileged /\ [](owner # "undoWait"))) =>
       (owner \in Starting \cup Undoing ~> owner \in {"open", "done"})

\* The exit of the child reaches the event port unless the session is closed
\* first or the port is gone: no wakeup of the wait thread is lost.
ExitIsReported ==
  child # "running" ~> (exitEvent # "none" \/ closed)

\* The mode watcher reports every mode that lasts, until close stops it or a
\* failed snapshot or post ends it.
ModeIsReported ==
  \A m \in Modes :
    (ptyMode = m /\ watcher # "none")
      ~> (lastMode = m \/ ptyMode # m \/ stop \/ watcher = "failed")

\* process.rs:3-4: "the session never signals a stale PID after the child has
\* been reaped".
NeverSignalsStalePid == ~ staleSignal

\* ptyx_spawn returns: a start that fails releases the session, whatever the
\* child does (runtime.rs:4-5; session.rs failed_runtime_start_cleanup_releases_session).
FailedStartReleasesSession ==
  owner \in Undoing ~> owner = "done"
=============================================================================
