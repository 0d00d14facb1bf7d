-------------------------- MODULE SessionLifecycleProofs --------------------------
(***************************************************************************)
(* What SessionLifecycle's runs check of its safety, proved for any host   *)
(* threads, signals, modes and configurations.                             *)
(***************************************************************************)
EXTENDS SessionLifecycle, TLAPS

\* An exit code travels from the monitor to the cache and to the event only once
\* the monitor has reaped the child; a failed wait only once the monitor is lost.
ExitInv ==
  /\ monitor \in {"reaped", "reported"} => child = "reaped"
  /\ exitWaiter = "exit" => monitor = "reported"
  /\ exitWaiter = "failed" => monitor = "lost"
  /\ waitState = "exit" => child = "reaped"
  /\ waitState = "failed" => monitor = "lost"
  /\ exitEvent = "exit" => child = "reaped"

Ended == {"none", "done", "failed"}

\* Which threads exist while the runtime starts or a failed start is undone.
StartInv ==
  /\ owner \in Starting \cup Undoing => ~ slot /\ writer = "none" /\ watcher = "none"
  /\ owner \in {"exitWaiter", "reader"} => reader = "none"
  /\ owner \in {"exitWaiter", "reader", "wait", "undoReader"} => waiter = "none"
  /\ owner = "exitWaiter" => exitWaiter = "none"
  /\ owner = "undoWait" => reader = "done"

\* Which threads have ended while the session closes.  Without a runtime (a start
\* that failed, or close after its joins) all but the exit waiter have.
JoinInv ==
  /\ owner = "open" => slot
  /\ owner \in {"joinReader", "joinWait", "joinMode", "joinWriter"} => slot
  /\ owner \in {"joinExit", "done"} => ~ slot
  /\ owner \in Closing \cup {"done"} /\ ~ slot => {reader, waiter, watcher, writer} \subseteq Ended
  /\ owner \in {"joinWait", "joinMode", "joinWriter"} => reader = "done"
  /\ owner \in {"joinMode", "joinWriter"} => waiter = "done"
  /\ owner = "joinWriter" => watcher \in Ended
  /\ owner = "done" => exitWaiter \in {"none", "done"}

\* A child that still runs behind the SIGKILL of close could not be reached.
KilledInv ==
  owner \in (Closing \cup {"done"}) \ {"kill", "signal"} /\ child = "running" =>
    privileged \/ monitor = "lost"

IInv == TypeOK /\ ExitInv /\ StartInv /\ JoinInv /\ KilledInv

-----------------------------------------------------------------------------
\* The two parts of TypeOK: truth values, and the places where processes, threads
\* and calls are.
FlagsOK == {privileged, slot, stop, modeEvents, closed, staleSignal} \subseteq BOOLEAN

PlacesOK ==
  /\ child \in {"running", "zombie", "reaped"}
  /\ monitor \in {"waiting", "reaped", "reported", "lost"}
  /\ waitState \in {"none", "exit", "failed"}
  /\ exitWaiter \in {"none", "running", "exit", "failed", "done"}
  /\ reader \in ThreadPcs /\ writer \in ThreadPcs
  /\ waiter \in WaiterPcs /\ watcher \in WatcherPcs
  /\ lastMode \in Modes \cup {"none"} /\ ptyMode \in Modes
  /\ owner \in OwnerPcs
  /\ killer \in [Killers -> {"idle", "signal"}]
  /\ exitEvent \in {"none", "exit", "failed", "dropped"}

LEMMA TypeParts == TypeOK <=> FlagsOK /\ PlacesOK
BY DEF TypeOK, FlagsOK, PlacesOK

LEMMA InitInv == Init => IInv
BY SessionLifecycleAssumption
   DEF Init, IInv, TypeOK, ExitInv, StartInv, JoinInv, KilledInv, Starting, Undoing, Closing,
       OwnerPcs, ThreadPcs, WaiterPcs, WatcherPcs, Ended

\* Flags are set to truth values only.
LEMMA FlagsStep == FlagsOK /\ [Next]_vars => FlagsOK'
<1> SUFFICES ASSUME FlagsOK, [Next]_vars PROVE FlagsOK'
  OBVIOUS
<1> USE DEF FlagsOK, childVars, threadVars, sharedVars, historyVars
<1>1. CASE \/ ChildExits \/ (\E m \in Modes : ChildSetsMode(m)) \/ Reap \/ MonitorReports
          \/ MonitorDies
  BY <1>1 DEF ChildExits, ChildSetsMode, Reap, MonitorReports, MonitorDies
<1>2. CASE \/ ReadExitStatus \/ Complete \/ WaitChecks \/ WaitReadsStop \/ WaitPosts
          \/ ReaderEnds \/ WriterStarts \/ WriterEnds \/ WatcherChecks \/ Snapshot
          \/ WatcherWakes
  BY <1>2
     DEF ReadExitStatus, Complete, WaitChecks, WaitReadsStop, WaitPosts, ReaderEnds,
         WriterStarts, WriterEnds, WatcherChecks, Snapshot, WatcherWakes
<1>3. CASE \/ StartExitWaiter \/ StartReader \/ StartWaiter \/ StartWatcher \/ UndoReader
          \/ UndoWait
  BY <1>3
     DEF StartExitWaiter, StartReader, StartWaiter, StartWatcher, UndoReader, UndoWait,
         BeginClose
<1>4. CASE \/ (\E k \in Killers : KillChecks(k))
          \/ (\E k \in Killers, sig \in Signals : KillSignals(k, sig)) \/ CloseSignals
  BY <1>4 DEF KillChecks, KillSignals, CloseSignals, SendSignal
<1>5. CASE \/ HostCloses \/ CloseChecks \/ CloseRuntime \/ JoinReader \/ JoinWait
          \/ JoinMode \/ JoinWriter \/ JoinExitWaiter
  BY <1>5
     DEF HostCloses, CloseChecks, CloseRuntime, JoinReader, JoinWait, JoinMode, JoinWriter,
         JoinExitWaiter, BeginClose
<1>6. CASE UNCHANGED vars
  BY <1>6 DEF vars
<1> QED BY <1>1, <1>2, <1>3, <1>4, <1>5, <1>6
        DEF Next, MonitorStep, ExitWaiterStep, WaiterStep, WatcherStep, SpawnStep, CloseStep

\* Every step goes to a place there is.
LEMMA PlacesStep == PlacesOK /\ [Next]_vars => PlacesOK'
<1> SUFFICES ASSUME PlacesOK, [Next]_vars PROVE PlacesOK'
  OBVIOUS
<1> USE DEF PlacesOK, OwnerPcs, Starting, Undoing, Closing, ThreadPcs, WaiterPcs,
            WatcherPcs, childVars, threadVars, sharedVars, historyVars
<1>1. CASE \/ ChildExits \/ (\E m \in Modes : ChildSetsMode(m)) \/ Reap \/ MonitorReports
          \/ MonitorDies
  BY <1>1 DEF ChildExits, ChildSetsMode, Reap, MonitorReports, MonitorDies
<1>2. CASE \/ ReadExitStatus \/ Complete \/ WaitChecks \/ WaitReadsStop \/ WaitPosts
          \/ ReaderEnds \/ WriterStarts \/ WriterEnds \/ WatcherChecks \/ Snapshot
          \/ WatcherWakes
  BY <1>2
     DEF ReadExitStatus, Complete, WaitChecks, WaitReadsStop, WaitPosts, ReaderEnds,
         WriterStarts, WriterEnds, WatcherChecks, Snapshot, WatcherWakes
<1>3. CASE \/ StartExitWaiter \/ StartReader \/ StartWaiter \/ StartWatcher \/ UndoReader
          \/ UndoWait
  BY <1>3
     DEF StartExitWaiter, StartReader, StartWaiter, StartWatcher, UndoReader, UndoWait,
         BeginClose
<1>4. CASE \/ (\E k \in Killers : KillChecks(k))
          \/ (\E k \in Killers, sig \in Signals : KillSignals(k, sig)) \/ CloseSignals
  BY <1>4 DEF KillChecks, KillSignals, CloseSignals, SendSignal
<1>5. CASE \/ HostCloses \/ CloseChecks \/ CloseRuntime \/ JoinReader \/ JoinWait
          \/ JoinMode \/ JoinWriter \/ JoinExitWaiter
  BY <1>5
     DEF HostCloses, CloseChecks, CloseRuntime, JoinReader, JoinWait, JoinMode, JoinWriter,
         JoinExitWaiter, BeginClose
<1>6. CASE UNCHANGED vars
  BY <1>6 DEF vars
<1> QED BY <1>1, <1>2, <1>3, <1>4, <1>5, <1>6
        DEF Next, MonitorStep, ExitWaiterStep, WaiterStep, WatcherStep, SpawnStep, CloseStep

\* The exit code and the failure are passed on as they are.
LEMMA ExitStep == TypeOK /\ ExitInv /\ [Next]_vars => ExitInv'
<1> SUFFICES ASSUME TypeOK, ExitInv, [Next]_vars PROVE ExitInv'
  OBVIOUS
<1> USE DEF TypeOK, ExitInv, childVars, threadVars, sharedVars, historyVars
<1>1. CASE \/ ChildExits \/ (\E m \in Modes : ChildSetsMode(m)) \/ Reap \/ MonitorReports
          \/ MonitorDies
  BY <1>1 DEF ChildExits, ChildSetsMode, Reap, MonitorReports, MonitorDies
<1>2. CASE ReadExitStatus
  BY <1>2 DEF ReadExitStatus
<1>3. CASE Complete
  BY <1>3 DEF Complete
<1>4. CASE WaitPosts
  BY <1>4 DEF WaitPosts
<1>5. CASE \/ (\E k \in Killers : KillChecks(k))
          \/ (\E k \in Killers, sig \in Signals : KillSignals(k, sig)) \/ CloseSignals
  BY <1>5 DEF KillChecks, KillSignals, CloseSignals, SendSignal
<1>6. CASE StartExitWaiter
  BY <1>6 DEF StartExitWaiter
<1>7. CASE \/ WaitChecks \/ WaitReadsStop \/ ReaderEnds \/ WriterStarts \/ WriterEnds
          \/ WatcherChecks \/ Snapshot \/ WatcherWakes \/ StartReader \/ StartWaiter
          \/ StartWatcher \/ UndoReader \/ UndoWait \/ HostCloses \/ CloseChecks
          \/ CloseRuntime \/ JoinReader \/ JoinWait \/ JoinMode \/ JoinWriter
          \/ JoinExitWaiter
  BY <1>7
     DEF WaitChecks, WaitReadsStop, ReaderEnds, WriterStarts, WriterEnds, WatcherChecks,
         Snapshot, WatcherWakes, StartReader, StartWaiter, StartWatcher, UndoReader,
         UndoWait, HostCloses, CloseChecks, CloseRuntime, JoinReader, JoinWait, JoinMode,
         JoinWriter, JoinExitWaiter
<1>8. CASE UNCHANGED vars
  BY <1>8 DEF vars
<1> QED BY <1>1, <1>2, <1>3, <1>4, <1>5, <1>6, <1>7, <1>8
        DEF Next, MonitorStep, ExitWaiterStep, WaiterStep, WatcherStep, SpawnStep, CloseStep

\* Threads start in order, and a failed start joins those that run.
LEMMA StartStep == IInv /\ [Next]_vars => StartInv'
<1> SUFFICES ASSUME IInv, [Next]_vars PROVE StartInv'
  OBVIOUS
<1> USE DEF IInv, StartInv, JoinInv, Ended, Starting, Undoing, Closing, childVars,
            threadVars, sharedVars, historyVars
<1>1. CASE \/ ChildExits \/ (\E m \in Modes : ChildSetsMode(m)) \/ Reap \/ MonitorReports
          \/ MonitorDies
  BY <1>1 DEF ChildExits, ChildSetsMode, Reap, MonitorReports, MonitorDies
<1>2. CASE \/ ReadExitStatus \/ Complete \/ WaitChecks \/ WaitReadsStop \/ WaitPosts
          \/ ReaderEnds \/ WriterStarts \/ WriterEnds \/ WatcherChecks \/ Snapshot
          \/ WatcherWakes
  BY <1>2
     DEF ReadExitStatus, Complete, WaitChecks, WaitReadsStop, WaitPosts, ReaderEnds,
         WriterStarts, WriterEnds, WatcherChecks, Snapshot, WatcherWakes, TypeOK,
         ThreadPcs, ExitInv
<1>3. CASE \/ StartExitWaiter \/ StartReader \/ StartWaiter \/ StartWatcher \/ UndoReader
          \/ UndoWait
  BY <1>3
     DEF StartExitWaiter, StartReader, StartWaiter, StartWatcher, UndoReader, UndoWait,
         BeginClose
<1>4. CASE \/ (\E k \in Killers : KillChecks(k))
          \/ (\E k \in Killers, sig \in Signals : KillSignals(k, sig))
  BY <1>4 DEF KillChecks, KillSignals, SendSignal
<1>5. CASE \/ HostCloses \/ CloseChecks \/ CloseSignals \/ CloseRuntime \/ JoinReader
          \/ JoinWait \/ JoinMode \/ JoinWriter \/ JoinExitWaiter
  BY <1>5
     DEF HostCloses, CloseChecks, CloseSignals, CloseRuntime, JoinReader, JoinWait,
         JoinMode, JoinWriter, JoinExitWaiter, BeginClose, SendSignal
<1>6. CASE UNCHANGED vars
  BY <1>6 DEF vars
<1> QED BY <1>1, <1>2, <1>3, <1>4, <1>5, <1>6
        DEF Next, MonitorStep, ExitWaiterStep, WaiterStep, WatcherStep, SpawnStep, CloseStep

\* close_runtime joins every thread that was started, and none starts meanwhile.
LEMMA JoinStep == IInv /\ [Next]_vars => JoinInv'
<1> SUFFICES ASSUME IInv, [Next]_vars PROVE JoinInv'
  OBVIOUS
<1> USE DEF IInv, StartInv, JoinInv, Ended, Starting, Undoing, Closing, childVars,
            threadVars, sharedVars, historyVars
<1>1. CASE \/ ChildExits \/ (\E m \in Modes : ChildSetsMode(m)) \/ Reap \/ MonitorReports
          \/ MonitorDies
  BY <1>1 DEF ChildExits, ChildSetsMode, Reap, MonitorReports, MonitorDies
<1>2. CASE \/ ReadExitStatus \/ Complete \/ WaitChecks \/ WaitReadsStop \/ WaitPosts
          \/ ReaderEnds \/ WriterStarts \/ WriterEnds \/ WatcherChecks \/ Snapshot
          \/ WatcherWakes
  BY <1>2
     DEF ReadExitStatus, Complete, WaitChecks, WaitReadsStop, WaitPosts, ReaderEnds,
         WriterStarts, WriterEnds, WatcherChecks, Snapshot, WatcherWakes, TypeOK,
         ThreadPcs, WaiterPcs
<1>3. CASE \/ StartExitWaiter \/ StartReader \/ StartWaiter \/ StartWatcher \/ UndoReader
          \/ UndoWait
  BY <1>3
     DEF StartExitWaiter, StartReader, StartWaiter, StartWatcher, UndoReader, UndoWait,
         BeginClose
<1>4. CASE \/ (\E k \in Killers : KillChecks(k))
          \/ (\E k \in Killers, sig \in Signals : KillSignals(k, sig))
  BY <1>4 DEF KillChecks, KillSignals, SendSignal
<1>5. CASE \/ HostCloses \/ CloseChecks \/ CloseSignals \/ CloseRuntime \/ JoinReader
          \/ JoinWait \/ JoinMode \/ JoinWriter \/ JoinExitWaiter
  BY <1>5
     DEF HostCloses, CloseChecks, CloseSignals, CloseRuntime, JoinReader, JoinWait,
         JoinMode, JoinWriter, JoinExitWaiter, BeginClose, SendSignal
<1>6. CASE UNCHANGED vars
  BY <1>6 DEF vars
<1> QED BY <1>1, <1>2, <1>3, <1>4, <1>5, <1>6
        DEF Next, MonitorStep, ExitWaiterStep, WaiterStep, WatcherStep, SpawnStep, CloseStep

\* close goes on without a signal, or with one that had no effect, only then.
LEMMA KilledStep == IInv /\ [Next]_vars => KilledInv'
<1> SUFFICES ASSUME IInv, [Next]_vars PROVE KilledInv'
  OBVIOUS
<1> USE DEF IInv, TypeOK, ExitInv, KilledInv, Starting, Undoing, Closing, childVars,
            threadVars, sharedVars, historyVars
<1>1. CASE \/ ChildExits \/ (\E m \in Modes : ChildSetsMode(m)) \/ Reap \/ MonitorReports
          \/ MonitorDies
  BY <1>1 DEF ChildExits, ChildSetsMode, Reap, MonitorReports, MonitorDies
<1>2. CASE \/ ReadExitStatus \/ Complete \/ WaitChecks \/ WaitReadsStop \/ WaitPosts
          \/ ReaderEnds \/ WriterStarts \/ WriterEnds \/ WatcherChecks \/ Snapshot
          \/ WatcherWakes
  BY <1>2
     DEF ReadExitStatus, Complete, WaitChecks, WaitReadsStop, WaitPosts, ReaderEnds,
         WriterStarts, WriterEnds, WatcherChecks, Snapshot, WatcherWakes
<1>3. CASE \/ StartExitWaiter \/ StartReader \/ StartWaiter \/ StartWatcher \/ UndoReader
          \/ UndoWait
  BY <1>3
     DEF StartExitWaiter, StartReader, StartWaiter, StartWatcher, UndoReader, UndoWait,
         BeginClose
<1>4. CASE \/ (\E k \in Killers : KillChecks(k))
          \/ (\E k \in Killers, sig \in Signals : KillSignals(k, sig)) \/ CloseSignals
  BY <1>4 DEF KillChecks, KillSignals, CloseSignals, SendSignal, Delivered
<1>5. CASE \/ HostCloses \/ CloseChecks \/ CloseRuntime \/ JoinReader \/ JoinWait
          \/ JoinMode \/ JoinWriter \/ JoinExitWaiter
  BY <1>5
     DEF HostCloses, CloseChecks, CloseRuntime, JoinReader, JoinWait, JoinMode, JoinWriter,
         JoinExitWaiter, BeginClose
<1>6. CASE UNCHANGED vars
  BY <1>6 DEF vars
<1> QED BY <1>1, <1>2, <1>3, <1>4, <1>5, <1>6
        DEF Next, MonitorStep, ExitWaiterStep, WaiterStep, WatcherStep, SpawnStep, CloseStep

LEMMA InductiveStep == IInv /\ [Next]_vars => IInv'
BY TypeParts, FlagsStep, PlacesStep, ExitStep, StartStep, JoinStep, KilledStep
   DEF IInv, TypeOK, FlagsOK, PlacesOK

-----------------------------------------------------------------------------
\* IInv holds in every state of every session.
THEOREM Inductive == Spec => []IInv
BY InitInv, InductiveStep, PTL DEF Spec

\* Every variable keeps its type: no thread, process or call is in a place that
\* the code does not have.
THEOREM TypeCorrect == Spec => []TypeOK
<1>1. IInv => TypeOK
  BY DEF IInv
<1> QED BY <1>1, Inductive, PTL

\* When ptyx_close or a failed ptyx_spawn has returned, every thread has ended,
\* whichever threads had been started and in whatever order they end.
THEOREM ClosedIsQuietHolds == Spec => []ClosedIsQuiet
<1>1. IInv => ClosedIsQuiet
  BY DEF IInv, JoinInv, ClosedIsQuiet, Closing, Ended
<1> QED BY <1>1, Inductive, PTL

\* close leaves no child running, but one that kill(2) refused or whose monitor died.
THEOREM ClosedChildIsDeadHolds == Spec => []ClosedChildIsDead
<1>1. IInv => ClosedChildIsDead
  BY DEF IInv, KilledInv, ClosedChildIsDead
<1> QED BY <1>1, Inductive, PTL

\* An exit code is told only of a child that was reaped.
THEOREM ExitIsTrueHolds == Spec => []ExitIsTrue
<1>1. IInv => ExitIsTrue
  BY DEF IInv, ExitInv, ExitIsTrue
<1> QED BY <1>1, Inductive, PTL
=============================================================================
