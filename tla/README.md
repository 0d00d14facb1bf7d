# A TLA+ verification project for libghostty

The repository holds three Dart packages: `ptyx` (pseudo-terminal sessions with
a native Rust core), `libghostty` (bindings of Ghostty's terminal emulator) and
`flterm` (a Flutter terminal widget). This directory has TLA+ models of the
parts whose correctness depends on the order in which threads, processes,
messages, timers and callbacks act, TLC configurations that check them on small
instances, abstract specifications that the detailed ones are shown to implement,
and proofs, checked by TLAPS, of their safety for all values of the parameters.

All source paths below are relative to `src/packages/`. `PROJECT.json` maps each
definition to the lines it models and lists the hazards each property is for.

## 1. Inventory

### ptyx, native core (`ptyx/native/src`)

| Part | State | Operations | Interacts with |
| --- | --- | --- | --- |
| Session (`session.rs`) | closed flag, PID, runtime, wait state | spawn, write, ack, kill, resize, close | everything below |
| Runtime (`runtime.rs`) | thread handles behind one mutex, stop flag | start_runtime, close_runtime | starts and joins reader, writer, wait and mode threads |
| Write queue (`writer.rs`) | deque, byte count, closed, failed, stream error | enqueue, dequeue, fail, close | host threads push, the writer thread pops |
| Reader (`reader.rs`) | batch, stop | poll, read, append, flush | posts to Dart, waits for acknowledgements |
| Output (`output.rs`) | in-flight bytes, external bytes | reserve, post, acknowledge, finalize | reader reserves; host and the Dart finalizers release |
| Descriptor (`fd.rs`) | O_NONBLOCK of the shared descriptor | guard, poll | shared by reader and writer |
| Process (`process.rs`) | cached exit status | complete, wait, kill | wait thread, host threads |
| Linux monitor (`process_linux.rs`) | none but its process | reaps and reports the child | a process of its own, over a pipe |
| Mode watcher (`term_mode.rs`) | last mode posted | poll, compare, post | posts to Dart |
| C ABI, Dart API, config, errors | none | validation, conversion | called by Dart |

### ptyx, Dart side (`ptyx/lib/src`)

`impl/session.dart` keeps the subscription state, unacknowledged bytes while
paused, the closed flag and the exit completer. It receives output and events
on ports, acknowledges what listeners have seen, and closes the native session
in up to two timed steps. The bindings, options and build hook are conversions.

### libghostty (`libghostty/lib/src`)

Handles around native objects: terminal, search, snapshot, render state,
encoders, parsers. The emulator itself is Zig code that is not in the
repository. What can go wrong here is the lifetime of callbacks: effects that
throw, nest or dispose the terminal inside a call.

### flterm (`flterm/lib/src`)

`TerminalSession` combines a terminal, a search controller, a selection, a
render hold (synchronized output), geometry commits and snapshot restoration;
`CompressionScheduler` compresses scrollback when idle; the view attaches
exclusively to a session. Everything runs on one isolate, so the hazards are
re-entrant notifications and timers that fire after the state they were
scheduled for is gone. Rendering, fonts, links and gestures are computation.

### What is hard, and what makes each part correct

* Input: two host threads, the writer and `close` share a queue. Bytes reach the
  PTY in the order they were accepted, the limit holds, losses are reported once,
  a refused stream stays refused, `close` leaves no writer.
* Output: the reader batches under two separate budgets, with acknowledgements
  and finalizers on other threads. Nothing is lost or reordered, the counters
  return to what is really outstanding, `stop` always ends the reader.
* Lifecycle: seven threads of control from spawn to close. `close` returns, and
  then no thread and no child is left; the exit code is the child's; a failed
  start leaves nothing; a signal never goes to a reaped PID.
* Dart session: every byte is acknowledged exactly once through pause, resume,
  cancel and end of output; nothing uses the native session after it is freed.
* Spawn: two forks, two pipes and a dozen calls that may fail. Whatever fails, the
  caller gets one answer, it is true of the child, and a refused spawn leaves no
  process; a malformed request gets to a fork only if what is wrong with it never
  gets to the program.
* Dart close: the caller gets its answer however the waits for the exit end, unless a
  subscription of `modeChanges` stays paused.
* Search: results shown belong to the query and the terminal as they are, with the
  exceptions that `StaleOnlyIfResubmittedOrMissed` names;
  a search ends; no timer outlives what it was scheduled for.
* Terminal view: a frozen frame is always going to be released, the geometry that
  was measured last wins over nested and deferred ones, notifications put off by a
  commit are sent, idle work runs only after a quiet period, and all of it ends.

## 2. The modules

| Module | Source | Actors | A step is |
| --- | --- | --- | --- |
| `WriteQueue` | `writer.rs`, `runtime.rs` | host threads, writer thread, `close` | one critical section of the queue's mutex, one system call |
| `OutputPump` | `reader.rs`, `output.rs`, `message.rs` | reader thread, receiver, finalizers, child | one counter update, post, read or poll |
| `PtyDescriptor` | `fd.rs` | reader, writer, processes on the terminal, `close` | one fcntl or write(2) |
| `SessionLifecycle` | `session.rs`, `runtime.rs`, `process.rs`, `process_linux.rs`, `term_mode.rs` | the call that spawns and closes, five threads, monitor, child, killers | one lock, join, signal or message |
| `NativeSession` | `lib/src/impl/session.dart` | one isolate, native threads that post | one turn of the event loop, or the part of an async call between two awaits |
| `ChildSpawn` | `process_linux.rs` | the calls that spawn, the wait threads, the monitors, the children | one fork, read, write, wait or exec, of two sessions at once |
| `NativeCalls` | `lib.rs`, `abi.rs`, `owned_buffer.rs`, `config.rs`, `dart_api.rs` | the host's calls, over `ChildSpawn` | one call of the C interface; `ptyx_spawn` up to its first fork |
| `SearchController` | `terminal_search_controller.dart` | one isolate, timers, listeners | one call up to its notification, or what follows it |
| `ScrollbackCompression` | `view/compression_scheduler.dart` | the view, timers, idle tasks | one call, timer or idle task |
| `TerminalSession` | `terminal_session.dart` | the host, the program's effects, timers, the renderer | one call up to where it runs somebody else's code, or what it does next |
| `TerminalView` | `view/view_attachment.dart`, and the three above | one isolate | the step of one part with what it causes in the others |
| `BytePipe`, `ChildSupervision` | what the two directions and the monitor promise | | abstract |
| `...Proofs` | the module it is named after | | theorems (section 4) |

Definitions keep the names of the code's functions and fields (`Dequeue`,
`RecordFailure`, `CloseRuntime`, `HandleBytes`, `RunWork`, `queuedBytes`,
`inflight`, `needsFeed`). Variables commented `history` or `external` have no
counterpart in the program: they record what was accepted, written, posted or
acknowledged so that a property can speak of it.

Data is abstracted to what the properties tell apart. In `WriteQueue` and
`OutputPump` a byte is its position in a stream and a buffer is an interval:
loss, duplication and reordering all show as a gap between two numbers. Modes,
errors and queries are model values.

### How the modules fit together

Two modules are compositions. `NativeCalls` extends `ChildSpawn`: `ptyx_spawn`
checks and converts the options and then takes the first step of the spawn, whose
request and result must agree with the options. `TerminalView` extends
`TerminalSession`, `SearchController` and `ScrollbackCompression`, which share the
event loop and meet in notifications: a write or a resize tells the search, then
the session, which tells the view unless a commit is in progress, and the view the
compression scheduler; a navigation makes the terminal notify with `_selecting` set, so
that the search passes over what the session and its listeners do then; dispose ends session and search together but not the scheduler.

`BytePipe` is what either direction promises of its bytes (order, no loss, no
repetition, the end only after everything), and `WriteQueue` and `OutputPump` both
implement it: `Pipe == INSTANCE BytePipe WITH ...` maps the queue, the writer's
chunk and the stream, and on the other side the messages on the port, the batch and
the read buffer, to the bytes in the pipe; `ImplementsBytePipe` is a property of both
runs. `ChildSupervision` is what the monitor promises (a refused program does not
run, an exit code is the program's own), and `ChildSpawn` implements it
(`ImplementsSupervision`).

The rest is composed by promise, not by one large product. `SessionLifecycle`
begins where `NativeCalls` ends, at `start_runtime`. It keeps of the reader and
the writer only that they end once told to. `OutputPump` (`CloseStopsReader`)
and `WriteQueue` (`CloseCompletes`) check those promises on the threads' own
code, and `PtyDescriptor` checks the one promise that both make of the operating
system, that a write(2) returns: it does while the reader runs, and finding F4
says when it does not. `OutputPump` and `NativeSession` are the two ends of the
acknowledgement protocol: the first assumes a receiver that acknowledges no more
than it received, the second shows that the Dart side is such a receiver.

An `MC` module extends its component and defines what a `.cfg` file cannot write
(requests, scenarios); the `.cfg` files choose the constants.

### Modelling decisions a reader should know

* `WriteQueue`. `ptyx_write` checks the limit, copies, and pushes under a second
  lock; the three are separate steps, with failures and close in between. A
  short write leaves the rest of the chunk at the writer; EAGAIN and EINTR take it
  back to the head of the loop, which looks at `closed`. The condition variable
  has spurious wakeups.
* `OutputPump`. Time is left out: poll may time out whenever nothing is readable.
  The acknowledgement may arrive before the post returns, as the code allows for.
* `SessionLifecycle`. `spawn` and `close` are one control path of one host call at
  a time, `owner`. Each of the four thread starts may fail, with its own undo. A
  child may be privileged (kill answers EPERM), and its monitor may die.
* `NativeSession`. `close` may be started again while it waits only when
  `OverlappingClose` is TRUE (the run of finding F2). `modes` is the subscription of
  `modeChanges`, because the last await of `close` is for its done event.
* `SearchController`. Notifications are synchronous, so a listener may call back
  in. `stack` holds the rest of every call whose listeners have not returned, and
  any call may happen on top of it. Changes of the terminal while a navigation tells
  its listeners (`ChangeMissed`) come from there too; the finding's run leaves them out
  (`ChangesWhileSelecting`), so that it shows the resubmission alone. The native search may need another feed after
  any tick, and leaves less work each time unless the terminal changed.
* `ChildSpawn`. Pipes have write ends that a fork duplicates (`holders`), so that the
  end of file of one session's pipe may depend on the monitor of another, which
  never closes what it inherited. Any system call may fail for the sessions in
  `Faulty`; monitor and child may be killed at any step.
* `NativeCalls`. A field of the options is a class of values ("text", "empty", "nul",
  "notUtf8" ...) where only the class is checked, and its number where it is
  converted. `WellFormed` states what `include/ptyx.h` asks for, in one place, of every
  entry of the environment, and `Overlooked` which entries the code asks less of.
* `ScrollbackCompression`. Generations and activity tokens count only as equal or
  different. Outdated idle tasks are one Boolean: there are some, or none.
* `TerminalSession`. `tasks` is what the calls under way have left to do, innermost
  first, as a sequence of small steps (notify, run listeners, end a commit). The
  host may call whenever somebody else's code is at the head of it, from `MaxWaiting`
  such places at a time; the listeners that a navigation tells come on top. Epochs and
  revisions are replaced by a mark on the commit that a later one has overtaken.
* `TerminalView`. `parts` names the parts of the system that a behaviour uses. It is a
  bound: it says which features occur together, and what is left out of a
  scenario is left out of its calls, not of the code that runs.

## 3. The runs

All of these systems end (a session is closed, a controller is disposed), so every
configuration says `CHECK_DEADLOCK FALSE`; that nothing gets stuck earlier is
what the liveness properties say.

| Run | Bounds | Shows |
| --- | --- | --- |
| `write_queue` | 2 callers, writes of 0, 1, 2 and 4 bytes, limit 3, stream of 4 | the limit and the byte count hold (`QueueAccounting`), the queue and its writer are a byte pipe to the PTY (`ImplementsBytePipe`), a loss is reported once (`LossIsReported`) and final (`RefusalIsFinal`), close joins (`ClosedMeansJoined`, `CloseCompletes`), no wakeup is lost (`AcceptedIsWritten`) |
| `output_pump` | reads of 3, batches of 2, 2 bytes in flight, 3 external, 4 bytes of output, both options on and off | the reader is a byte pipe to the port (`ImplementsBytePipe`), both counters are exact and bounded (`InflightExact`, `ExternalAccounted`), stop ends the reader (`CloseStopsReader`), output arrives (`OutputArrives`) |
| `session_lifecycle` | 1 killer, 2 signals, 2 modes, with and without privileges and mode events | after close no thread and no child is left (`ClosedIsQuiet`, `ClosedChildIsDead`), the exit code is true and reported (`ExitIsTrue`, `ExitIsReported`), modes are reported (`ModeIsReported`), spawn and close return (`CallsReturn`) |
| `native_session` | 4 chunks, 2 in flight, 2 event kinds besides the exit, 2 closers one after the other | acknowledgements are exact and held only while the subscription cannot take them (`AcksAccounted`), nothing is used after close (`NoUseAfterClose`), output flows, and every close() frees the session and completes the exit code, and returns unless a subscription of `modeChanges` stays paused (`CloseCompletes`) |
| `pty_descriptor` | a terminal of 2 chunks, 4 written | a write sleeps only while no reader runs (`SleepsOnlyWithoutReader`), close returns if what is on the terminal reads or exits |
| `native_calls` | 2 sessions, one of which may fail anywhere and has 17 malformed requests besides one that passes, with a NUL that a later entry replaces; buffers of up to 2 bytes | a refused or finished spawn leaves no process (`NothingLeftBehind`), only requests reach a fork that are as `ptyx.h` asks or break it in an entry that never reaches the program, and none that is as `ptyx.h` asks is refused as invalid (`OnlyWellFormedForks`), the program gets what was asked for (`SessionIsAsRequested`), host and library agree on who frees a buffer (`OwnershipIsAgreed`), the spawn implements `ChildSupervision`, returns, and notices the exit |
| `terminal_view` | 2 queries, 2 units of search work, 2 units to compress, 2 sizes, 1 chunk of history, 2 calls nested and those from what a navigation tells, 7 scenarios of the parts used together | an unfinished search has its timer (`WorkIsScheduled`), only a resubmission or a change while a navigation is told exposes stale results (`StaleOnlyIfResubmittedOrMissed`), a frozen frame has a timeout that ends it (`FrozenOnlyWhileHeld`), the last geometry wins (`LatestGeometryWins`), compression runs only after a quiet period (`CompressesOnlyWhenQuiet`), and once the host leaves the view alone everything begun is finished (`ViewSettles`) |
| `session_stale_pid`, `session_failed_start`, `session_double_close`, `pty_background_process`, `search_stale_results` | as above or smaller | one finding each (section 5) |

Why the bounds are enough. In `write_queue` the limit is reached, exceeded and
refused, a chunk is larger than the queue, an empty write occurs, a chunk is
written in several pieces with another behind it, and both callers contend with
close for the runtime lock. In `output_pump` a read is larger than a batch and
the stream larger than each budget, so flush is refused half way through an append,
the external budget overflows to a copy, and the reader waits with the batch full.
In `native_session` the child has more chunks than may be in flight, so it depends
on acknowledgements that pause holds back. In `native_calls` two sessions are what it
takes for one monitor to inherit the pipe of another; the second is healthy, so
that what the first does to it shows. In `terminal_view` two units of work are enough
to be interrupted between feed, tick and the next feed, and two nested calls let a
listener of a resize resize, or one of a write dispose, and a listener that a
navigation inside a notification tells change the terminal; the scenarios leave out what
has no state in common (a render hold never meets a search or the compression).
Terminal and search work are two units, so that "some is left" differs from "all is".

Every property has a mutant in `PROJECT.json`: a variant of one mapped definition
(its comment begins `Fault:`) under which TLC finds the property violated.

### Fairness

* Threads are weakly fair: a runnable thread, and one that waits on a condition
  variable with a timeout, runs. Waiters without a timeout are woken only by the
  notifications that the code sends.
* `WriteQueue` assumes strong fairness of a successful write: the child keeps
  reading, so a chunk that is retried is taken in the end. Only
  `AcceptedIsWritten` needs it.
* `OutputPump` assumes nothing of the receiver for `CloseStopsReader`;
  `OutputArrives` states its assumption (the receiver drains and acknowledges)
  in the formula.
* `SessionLifecycle` never assumes that the child exits or that the host closes.
  Where a property depends on either, it says so as a premise.
* `NativeSession`: the event loop delivers messages, among them the done event of a
  subscription that is not paused, and fires timers. Nothing makes the host resume a
  paused subscription; the second part of `CloseCompletes` has that as its premise.
* `ChildSpawn`: threads and processes are scheduled; nothing makes a program end.
  `SpawnReturns` and `ExitIsNoticed` name the one thing that may prevent them: the
  monitor of another session holds a write end of a killed monitor's pipe.
* `TerminalView` has a single weak fairness: an isolate that is left alone runs
  something of what it has to run, whichever timer, task or listener that is.
  `ViewSettles` is therefore a claim of termination: the parts cannot keep each other
  busy. Its premise is that the host, program and view stop calling.
* `PtyDescriptor`: nothing makes a process on the terminal read or exit.

## 4. The proofs

TLC checks one instance; TLAPS proves for all of them. Every safety invariant, every
action property and every refinement that a passing run checks is also a theorem, for
any value of the constants; the liveness properties are TLC's. Each component with
proofs has a module of them beside it. The assumptions are the named `ASSUME`s of the
components (sizes and limits are natural numbers, not zero where the code refuses or
replaces zero; names of different kinds differ; what C types and the operating system
exclude), which TLC evaluates in every run.

All proofs have one shape. The property is not inductive, so an invariant is stated
that is (`IInv`, or one named after its subject), TLC checked it on a run before it
was proved, and one lemma takes it through every action. What it adds to the property
is the reason why the code is right, and is described here.

`WriteQueueProofs`: `TypeOK`, `QueueAccounting`, `LossIsReported`, `ClosedMeansJoined`,
`RefusalIsFinal`, that the PTY receives a prefix of what was accepted
(`PrefixWrittenHolds`), and the refinement of `BytePipe`. `IInv` adds:

* `LockInv`: a caller is between its check and its notification exactly when it
  holds the runtime mutex, and close likewise.
* `CallInv`: a write that reached the queue is not empty and fits an empty queue.
* `ThreadInv`: the runtime's slot is empty exactly when close has returned; while it
  is there, a writer exists exactly if it was started. This is what
  `ClosedMeansJoined` needs against a caller that waited for the mutex.
* `QueueInv`: the queue tiles the end of the stream and `queuedBytes` is its length.
* `StreamInv`: the writer's chunk begins where the PTY's prefix ends and ends
  where the queue begins. Without it a step that takes a chunk tells nothing of
  `written`.
* `FailInv`: the stream error, the failure and the exited writer come together.

The refinement adds `InOrder`: a chunk ends before any later chunk begins, so that a
`write(2)` delivers no byte that a queued chunk holds as well. An accepted chunk enters
the pipe, a write delivers, a failure, close and a chunk given up after close break it,
and everything else is invisible to it; taking a chunk from the queue only moves its
bytes from the one part of `Pending` to the other (`DequeueMoves`).

`OutputPumpProofs`: `TypeOK`, `InflightExact`, `ExternalAccounted` and the refinement of
`BytePipe`. `StreamInv` says that what was drained is posted or still with the reader,
except what a refused post dropped; `CreditInv` bounds a batch by its limit until stop
makes flush keep it, after which nothing is reserved for it; `PortInv` and `QueuedInv`
say that the port holds the bytes posted and not delivered, in order, with the closing
message last; `HeldInv` says that external buffers hold distinct bytes, so that the
sum of their sizes is the number of bytes they hold.

`SessionLifecycleProofs`: `TypeOK`, `ClosedIsQuiet`, `ClosedChildIsDead` and
`ExitIsTrue`. `ExitInv` follows an exit from the monitor to the cache and the event;
`StartInv` and `JoinInv` say which threads exist at each place of a start, its undo and
close; `KilledInv` that a child that still runs behind close's SIGKILL could not be
reached. Without the second, a failed start says nothing of the threads started
before it.

`NativeSessionProofs`: `AcksAccounted` and that nothing is added to a closed controller
(`NoLateAddHolds`), with any number of closers, overlapping or not. `NoUseAfterClose`
and `CloseIsIdempotent` are proved under the hypothesis `~ OverlappingClose`, the
parameter of the model that is FALSE in the run `native_session` and TRUE in
`session_double_close`, where TLC finds F2. Together they say that overlap is all
that F2 needs: any number of calls of `close()` one after the other is safe. The
invariant that carries this (`SoleInv`) is that at most one call is past the test of
`_closed`.

`PtyDescriptorProofs`: `SleepsOnlyWithoutReader`, and that after close the descriptor is
unused and has the flags it was opened with (`ClosedRestoresFlagsHolds`). The flag is
changed by one thread and relied on by another; `GuardInv` says that it is set exactly
while the guard lives.

`NativeCallsProofs`, for any set of concurrent sessions:

* `NothingLeftBehind`. `SpawnInv` relates, session by session, the host's place to its
  monitor, the monitor's to its child, and the messages in the event pipe to both
  (`HostInv`, `ChildInv`, `EventsInv`). A step of one session changes nothing that the
  invariant says of another (`StepLeavesOthers`), although the pipes of one may be held
  open by the monitor of another.
* `ImplementsSupervision`. Of what a host sees of a session, its program, exit code and
  answer, every step changes at most one session's (`OneAtATime`), and that in a way
  that `ChildSupervision` has or not at all.
* `OwnershipIsAgreed`.
* `OnlyWellFormedForks` and `SessionIsAsRequested`. Both depend on what the loop over the
  entries of an environment computes for any number of them. The induction theorems of
  the library take an operator as a parameter and cannot be used, so `InsertedIsSolved`
  goes another way: a closed form (`Solved`) is shown to solve the equation of the
  recursive function, and any other solution would have a least index where it differs
  (`Least`, from the well-foundedness of the naturals), which it cannot have. With that,
  `AcceptedIsWellFormed` shows that the checks in `abi.rs` and `process_linux.rs`
  together accept exactly what `WellFormed` allows and what they overlook: any text in
  the entries of a mode that uses none, and a NUL in a value that a later entry of its
  key replaces. No run has a request of the first kind. The assumption is that strings are of
  the classes the model has and that the host's own environment contains no NUL.

`SearchControllerProofs`: `TypeOK`, `WorkIsScheduled` and
`StaleOnlyIfResubmittedOrMissed` for every depth of nesting. `WorkIsScheduled` speaks only of states in which no call waits
for its listeners. The inductive invariant speaks of the others: an unfinished search
without a timer is *owed* one by some waiting call (`Owed`), no timer is of an outdated
generation, and a native search that is not complete has work left.

`TerminalViewProofs`, about the composition:

* `ViewImplementsSearch`: every step of the view is a step of the search controller's own
  specification or leaves it alone. What was proved of a controller alone therefore
  holds in the view (`SearchInViewHolds`) without a second proof.
* `CompressesOnlyWhenQuiet`. `CompressionInv` says when a task or a timer may exist: it is
  of something pending, and comes after a quiet period unless the activity is unknown,
  which the task finds out first.
* `FrozenOnlyWhileHeld` and `LatestGeometryWins` for any depth of calls from listeners.
  Both speak of states with no call under way; `HoldInv` and `GeometryInv` say what the
  calls under way still owe: that what was not painted is left to the end of a write,
  and that a commit still in progress is of the last geometry or has been overtaken. The
  lemmas about `tasks` say which of its steps remain when one is taken or pushed.

Only model-checked: every liveness property (`AcceptedIsWritten`, `CloseCompletes`,
`CloseStopsReader`, `OutputArrives`, `CallsReturn`, `ExitIsReported`, `ModeIsReported`,
`OutputFlows`, `SpawnReturns`, `ExitIsNoticed`, `ViewSettles`), because the available
provers have no rules for fairness and ENABLED. The properties of the `violation` runs
are false of the code, `CloseIsIdempotent` without the hypothesis above included.
RECURSIVE operators disable the SMT prover, so modules with theorems use recursive
functions instead.

## 5. What the checks found

Each is a run with `expect: violation`; TLC's trace shows the steps.

* F1 `NeverSignalsStalePid`. `process::kill` looks at the cached exit and signals
  afterwards; the monitor reaps the child before the exit is cached. The comments
  in `process.rs` and `session.rs` say a stale PID is never signalled. Nothing
  orders the two, so it can be.
* F2 `CloseIsIdempotent`. Dart `close()` tests `_closed` before up to two awaits and
  sets it after them. Two overlapping calls both free the native session.
* F3 `FailedStartReleasesSession`. If the mode watcher cannot be started,
  `start_runtime` joins the wait thread, which waits for a child that nobody has
  killed: `ptyx_spawn` hangs as long as the child runs.
* F4 `WritesAreInterruptible`. Only the reader makes the shared descriptor
  non-blocking, and its guard restores blocking mode when it ends. A write before
  or after that sleeps as long as a background process holds the terminal
  without reading, and `close` waits for it.
* F5 `NoStaleResults`. Submitting the same query again while a terminal change is
  waiting for its timer cancels the refresh and shows the old results as final.

Observations that are not runs:

* F5 has a second cause. A listener of the search that navigates, called from inside
  another notification, makes the terminal notify while `_selecting` is set; the session
  may then have a state to publish, and a listener of it that writes or resizes changes
  the terminal unseen by `_handleTerminalChanged`
  (`terminal_search_controller.dart:263`): the results of the terminal before the change
  stay complete. `ChangeMissed` is this step, and `terminal_view` reaches it.
* `close()` of the Dart session completes its future only after every subscription of
  `modeChanges` got done, which a paused one does not (`impl/session.dart:115`). The
  session is freed and `exitCode` has completed by then.
* `max_inflight` is tested before a batch is added, so up to `max_inflight - 1` plus
  one batch may be in flight (`InflightExact` states the real bound).
* `ptyx_kill` answers FALSE for a live child when kill(2) is refused (EPERM) or when the
  wait thread failed because the monitor died.
* A child that is killed between fork and exec closes the error pipe without a message,
  and is reported as started (`ChildSupervision` allows for it).
* The monitor keeps inherited write ends of other sessions' event pipes. When a monitor
  is killed, its session notices only once those other monitors are gone: the
  exception in `SpawnReturns` and `ExitIsNoticed`.
* `ptyx_write_owned` truncates the buffer before the write may be refused; a retry with
  a larger length is then an invalid argument, while `ptyx.h` speaks of the
  buffer's capacity.
* `ptyx.h:187-192` asks for `KEY=VALUE` without NUL of every entry of the environment.
  The code accepts a NUL in a value that a later entry of the same key replaces (on Linux;
  it is refused elsewhere), and any text in the modes that use no entries (`Overlooked`).
* `handleResize` returns early when the size equals the committed one, also while another
  commit is in progress, so a nested request for the old size is dropped and the outer
  one wins. `LatestGeometryWins` leaves these requests out (`wanted`).
* A resize that throws may leave the grid changed and the committed geometry old; a later
  request for the old size then returns early. `threw` leaves these out.
* An idle task that runs after the controller was disposed, with the view still attached,
  reads the terminal and throws a StateError (`IdleTask`).
* History that a search restores from compression is not compressed again before the
  next change of the terminal, if compression had finished: nobody is notified
  (the `known` of `Settled`). That reading changes the token is an assumption; the
  documentation says only that accessing compressed history restores it.
* `KittyImageCache`: when the decode of one generation completes and the next is
  transmitted before the painter has looked, the frame has no image, while the
  comment at `rendering/kitty_image_cache.dart:86` says the previous one is kept.

## 6. Not modelled

* Poisoned mutexes and panicking threads; `read_blocking` and the writer loop of
  systems other than Unix; the macOS exit watcher; actual durations.
* Session ids, signal masks, the controlling terminal and moving descriptors in the
  child, which are one step that may fail; the process code of other systems; the
  build hook and the Dart bindings, which convert and pass on.
* The terminal emulator and every encoder and parser: native code that is not in the
  repository. Generated bindings, WebAssembly struct layouts.
* `libghostty`'s effects that throw inside a native call (`bindings/terminal/ffi.dart`).
* `KittyImageCache`: decoder, cache and painter of a single image have a quarter of a
  million states, and with several images what matters (eviction) is out of reach of
  the run time this project allows itself.
* Selection, input encoding, scrolling positions and clipboard of the session; the
  exclusive lease of a view; the scroll policy of a search.
* Rendering, glyph atlases, fonts, links, themes, gestures, text input: computation
  or protocols of the Flutter framework.
* Calls of a search that an effect makes from inside a terminal write or resize,
  before the terminal notifies. Other calls from effects are modelled.

## 7. Plan

1. Effects of libghostty that throw, and the image cache with an abstraction of its
   painter.
2. What `ptyx_kill` returns, in `SessionLifecycle`, and the parts of `close_runtime`
   that the liveness runs rest on as safety lemmas (who a joined thread may wait for).
3. Proofs that the sessions and the terminal's processes cannot block each other except
   as `SpawnReturns` names it, as far as that can be stated as an invariant.
