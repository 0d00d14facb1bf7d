----------------------------- MODULE NativeSession -----------------------------
(***************************************************************************)
(* The Dart half of a session: NativeSession (lib/src/impl/session.dart).  *)
(* One isolate runs it, so a turn of the event loop is one step: a message *)
(* taken from a ReceivePort, a call of the host, a callback of the output  *)
(* stream, or what close() does between two awaits.  The native half posts *)
(* to the two ports at any time until ptyx_close joins its threads.        *)
(*                                                                         *)
(* A chunk of output is one unit: its length is acknowledged whole or not  *)
(* at all.  What the controllers buffer for their listeners is not         *)
(* modelled, only when the output subscription counts as paused.           *)
(***************************************************************************)
EXTENDS Naturals, Sequences

CONSTANTS
  Closers,           \* callers of close()
  OverlappingClose,  \* close() may be called while another close() awaits
  MaxInflight,       \* chunks the native half sends ahead of acknowledgements
  Produced,          \* chunks the child writes
  EventKinds         \* events the native half may post besides the exit

ASSUME NativeSessionAssumption ==
  /\ OverlappingClose \in BOOLEAN
  /\ MaxInflight \in Nat \ {0}
  /\ Produced \in Nat
  /\ EventKinds \subseteq {"mode", "modeError", "outputError", "writeError"}

VARIABLES
  _closed,          \* NativeSession._closed
  exitCode,         \* _exitCode: pending, or how it completed
  outputDone,       \* _outputDone: the output controller is closed
  outputCancelled,  \* _outputCancelled
  pendingAcks,      \* _pendingAcks: chunks kept back
  listener,         \* the subscription of the output stream
  modes,            \* the subscription of _modeController's stream
  outputQueue,      \* output chunks in _outputPort
  eofQueued,        \* PTYX_MESSAGE_CLOSED is behind them
  eventQueue,       \* messages in _eventPort
  closer,           \* where each close() is
  posted,           \* native: chunks posted
  inflight,         \* native: chunks posted and not acknowledged
  eof,              \* native: PTYX_MESSAGE_CLOSED was posted
  events,           \* native: the events posted
  frees,            \* history: calls of ptyx_close
  misuse            \* history: native calls on a freed handle, adds to a closed stream

dartVars   == <<_closed, exitCode, outputDone, outputCancelled, pendingAcks, listener, modes>>
portVars   == <<outputQueue, eofQueued, eventQueue>>
nativeVars == <<posted, inflight, eof, events>>
vars == <<_closed, exitCode, outputDone, outputCancelled, pendingAcks, listener, modes,
          outputQueue, eofQueued, eventQueue, closer, posted, inflight, eof, events, frees,
          misuse>>

Listeners == {"none", "active", "paused", "draining", "cancelled"}
ModeListeners == {"none", "active", "paused"}
CloserPcs == {"idle", "term", "kill", "await"}
ExitKinds == {"exit", "waitError"}
Messages  == EventKinds \cup ExitKinds
Misuses   == {"freedHandle", "closedStream"}

Init ==
  /\ _closed = FALSE
  /\ exitCode = "pending"
  /\ outputDone = FALSE
  /\ outputCancelled = FALSE
  /\ pendingAcks = 0
  /\ listener = "none"
  /\ modes = "none"
  /\ outputQueue = 0
  /\ eofQueued = FALSE
  /\ eventQueue = <<>>
  /\ closer = [c \in Closers |-> "idle"]
  /\ posted = 0
  /\ inflight = 0
  /\ eof = FALSE
  /\ events = {}
  /\ frees = 0
  /\ misuse = {}

\* The misuses a turn may add to the history.
NativeCall  == IF frees > 0 THEN {"freedHandle"} ELSE {}
StreamAdd(isClosed) == IF isClosed THEN {"closedStream"} ELSE {}
Record(new) == misuse' = misuse \cup new

-----------------------------------------------------------------------------
(***************************************************************************)
(* The native half.                                                        *)
(***************************************************************************)

\* The reader posts a chunk; at the limit it waits for acknowledgements.
PostOutput ==
  /\ frees = 0
  /\ ~ eof
  /\ posted < Produced
  /\ inflight < MaxInflight
  /\ posted' = posted + 1
  /\ inflight' = inflight + 1
  /\ outputQueue' = outputQueue + 1
  /\ UNCHANGED <<dartVars, eofQueued, eventQueue, closer, eof, events, frees, misuse>>

\* The reader is at the end of the output, or has failed.
PostClosed ==
  /\ frees = 0
  /\ ~ eof
  /\ eof' = TRUE
  /\ eofQueued' = TRUE
  /\ UNCHANGED <<dartVars, outputQueue, eventQueue, closer, posted, inflight, events, frees,
                 misuse>>

\* Any other thread posts: ptyx-wait once, the others in any order.
PostEvent(e) ==
  /\ frees = 0
  /\ e \notin events
  /\ e \in ExitKinds => events \cap ExitKinds = {}
  /\ events' = events \cup {e}
  /\ eventQueue' = Append(eventQueue, e)
  /\ UNCHANGED <<dartVars, outputQueue, eofQueued, closer, posted, inflight, eof, frees, misuse>>

-----------------------------------------------------------------------------
(***************************************************************************)
(* Acknowledgements.                                                       *)
(***************************************************************************)

\* _canAckOutput, for given values of the fields it reads.
CanAckOutput(cancelled, subscription) == cancelled \/ subscription = "active"

\* _ack for n chunks: ptyx_ack_output, unless the session is closed.
Ack(n) ==
  IF _closed THEN UNCHANGED <<inflight, misuse>>
  ELSE /\ inflight' = inflight - n
       /\ Record(IF n > 0 THEN NativeCall ELSE {})

\* Fault: the output of a canceled subscription is never acknowledged.
FlushAcksIfListening(cancelled, subscription) ==
  IF subscription = "active" THEN Ack(pendingAcks) /\ pendingAcks' = 0
  ELSE UNCHANGED <<inflight, misuse, pendingAcks>>

\* _flushAcks, called with the fields already updated.
FlushAcks(cancelled, subscription) ==
  IF CanAckOutput(cancelled, subscription)
  THEN Ack(pendingAcks) /\ pendingAcks' = 0
  ELSE UNCHANGED <<inflight, misuse, pendingAcks>>

-----------------------------------------------------------------------------
(***************************************************************************)
(* The listener of `output' (dart:async decides when the callbacks run).   *)
(***************************************************************************)

Subscribed(next) ==
  /\ listener' = next
  /\ outputCancelled' = (outputCancelled \/ next = "cancelled")
  /\ FlushAcks(outputCancelled', next)
  /\ UNCHANGED <<_closed, exitCode, outputDone, modes, portVars, closer, posted, eof, events,
                 frees>>

\* onListen.
Listen == listener = "none" /\ Subscribed("active")

\* pause() has no callback here: acknowledgements are held back from now on.
Pause ==
  /\ listener \in {"active", "draining"}
  /\ listener' = "paused"
  /\ UNCHANGED <<_closed, exitCode, outputDone, outputCancelled, pendingAcks, modes, portVars,
                 closer, nativeVars, frees, misuse>>

\* resume(): the subscription counts as paused until what it buffered is delivered ...
Resume ==
  /\ listener = "paused"
  /\ listener' = "draining"
  /\ UNCHANGED <<_closed, exitCode, outputDone, outputCancelled, pendingAcks, modes, portVars,
                 closer, nativeVars, frees, misuse>>

\* ... and then onResume runs.
Resumed == listener = "draining" /\ Subscribed("active")

\* onCancel: the host cancels, or the done event has been delivered.
Cancel == listener \in {"active", "paused", "draining"} /\ Subscribed("cancelled")
StreamDone == listener = "active" /\ outputDone /\ Subscribed("cancelled")

-----------------------------------------------------------------------------
(***************************************************************************)
(* The listener of `modeChanges', a broadcast stream: it may listen again, *)
(* and close() waits until every subscription is gone.  One subscription   *)
(* stands for all of them; what a closed stream gives a new listener is    *)
(* done at once and keeps nobody waiting.                                  *)
(***************************************************************************)

\* What a step of that listener leaves alone.
ModesOnly ==
  UNCHANGED <<_closed, exitCode, outputDone, outputCancelled, pendingAcks, listener, portVars,
              closer, nativeVars, frees, misuse>>

ListenModes == modes = "none" /\ ~ _closed /\ modes' = "active" /\ ModesOnly
PauseModes  == modes = "active" /\ modes' = "paused" /\ ModesOnly
ResumeModes == modes = "paused" /\ modes' = "active" /\ ModesOnly
CancelModes == modes # "none" /\ modes' = "none" /\ ModesOnly

\* The done event reaches a subscription that is not paused, and ends it.
ModesDone == modes = "active" /\ _closed /\ modes' = "none" /\ ModesOnly

-----------------------------------------------------------------------------
(***************************************************************************)
(* Messages.  A closed session ignores what is still queued.               *)
(***************************************************************************)

\* Fault: a chunk for a paused listener is acknowledged at once and kept as well.
HandleBytesTwice ==
  /\ outputQueue > 0
  /\ outputQueue' = outputQueue - 1
  /\ Ack(1)
  /\ pendingAcks' = IF CanAckOutput(outputCancelled, listener) THEN pendingAcks
                    ELSE pendingAcks + 1
  /\ UNCHANGED <<_closed, exitCode, outputDone, outputCancelled, listener, modes, eofQueued,
                 eventQueue, closer, posted, eof, events, frees>>

\* _handleOutput of PTYX_MESSAGE_OUTPUT.
HandleBytes ==
  /\ outputQueue > 0
  /\ outputQueue' = outputQueue - 1
  /\ IF _closed \/ outputDone
     THEN UNCHANGED <<inflight, misuse, pendingAcks>>
     ELSE IF CanAckOutput(outputCancelled, listener)
          THEN Ack(1) /\ UNCHANGED pendingAcks
          ELSE pendingAcks' = pendingAcks + 1 /\ UNCHANGED <<inflight, misuse>>
  /\ UNCHANGED <<_closed, exitCode, outputDone, outputCancelled, listener, modes, eofQueued,
                 eventQueue, closer, posted, eof, events, frees>>

\* _handleOutput of PTYX_MESSAGE_CLOSED: _closeOutput.
HandleClosed ==
  /\ outputQueue = 0
  /\ eofQueued
  /\ eofQueued' = FALSE
  /\ outputDone' = TRUE
  /\ UNCHANGED <<_closed, exitCode, outputCancelled, pendingAcks, listener, modes, outputQueue,
                 eventQueue, closer, nativeVars, frees, misuse>>

\* _exitCode.complete or completeError, unless it has completed.
Complete(result) == exitCode' = IF exitCode = "pending" THEN result ELSE exitCode

\* Fault: an error is added to the output stream whatever its state.
HandleEventUnguarded ==
  /\ eventQueue # <<>>
  /\ eventQueue' = Tail(eventQueue)
  /\ CASE Head(eventQueue) = "exit" -> Complete("value") /\ UNCHANGED misuse
       [] Head(eventQueue) = "waitError" -> Complete("error") /\ UNCHANGED misuse
       [] Head(eventQueue) \in {"mode", "modeError"} ->
            Record(StreamAdd(_closed)) /\ UNCHANGED exitCode
       [] OTHER -> Record(StreamAdd(outputDone)) /\ UNCHANGED exitCode
  /\ UNCHANGED <<_closed, outputDone, outputCancelled, pendingAcks, listener, modes, outputQueue,
                 eofQueued, closer, nativeVars, frees>>

\* _handleEvent and _handleNativeError; the mode controller is closed with the session.
HandleEvent ==
  /\ eventQueue # <<>>
  /\ eventQueue' = Tail(eventQueue)
  /\ IF _closed
     THEN UNCHANGED <<exitCode, misuse>>
     ELSE CASE Head(eventQueue) = "exit" -> Complete("value") /\ UNCHANGED misuse
            [] Head(eventQueue) = "waitError" -> Complete("error") /\ UNCHANGED misuse
            [] Head(eventQueue) \in {"mode", "modeError"} ->
                 Record(StreamAdd(_closed)) /\ UNCHANGED exitCode
            [] OTHER ->
                 /\ IF outputDone \/ outputCancelled THEN UNCHANGED misuse
                    ELSE Record(StreamAdd(outputDone))
                 /\ UNCHANGED exitCode
  /\ UNCHANGED <<_closed, outputDone, outputCancelled, pendingAcks, listener, modes, outputQueue,
                 eofQueued, closer, nativeVars, frees>>

-----------------------------------------------------------------------------
(***************************************************************************)
(* close().                                                                *)
(***************************************************************************)

\* sessionKill, and the wait of at most 50 ms for the exit code.
KillAndWait(c, next) ==
  /\ closer' = [closer EXCEPT ![c] = next]
  /\ Record(NativeCall)
  /\ UNCHANGED <<dartVars, portVars, nativeVars, frees>>

\* From `_closed = true' to the last await: the session is freed, the ports and
\* the controllers are closed, and exitCode completes.
FinishClose(c) ==
  /\ closer' = [closer EXCEPT ![c] = "await"]
  /\ _closed' = TRUE
  /\ frees' = frees + 1
  /\ Record(NativeCall)
  /\ outputQueue' = 0
  /\ eofQueued' = FALSE
  /\ eventQueue' = <<>>
  /\ outputDone' = TRUE
  /\ Complete("error")
  /\ UNCHANGED <<outputCancelled, pendingAcks, listener, modes, nativeVars>>

\* close() is called; on a closed session it returns.
Close(c) ==
  /\ closer[c] = "idle"
  /\ OverlappingClose \/ \A d \in Closers : closer[d] = "idle"
  /\ ~ _closed
  /\ IF exitCode = "pending" THEN KillAndWait(c, "term") ELSE FinishClose(c)

\* The wait after SIGTERM ends: the exit code completed, or 50 ms passed.
CloseAfterTerm(c) ==
  /\ closer[c] = "term"
  /\ IF exitCode = "pending" THEN KillAndWait(c, "kill") ELSE FinishClose(c)

\* Fault: the wait after SIGKILL has no timeout.
CloseAfterExit(c) ==
  /\ closer[c] = "kill"
  /\ exitCode # "pending"
  /\ FinishClose(c)

\* The wait after SIGKILL ends, one way or the other.
CloseAfterKill(c) ==
  /\ closer[c] = "kill"
  /\ FinishClose(c)

\* Future.wait: the cancels of the two port subscriptions complete by themselves,
\* _modeController.close() once no subscription of modeChanges is left.
CloseReturns(c) ==
  /\ closer[c] = "await"
  /\ modes = "none"
  /\ closer' = [closer EXCEPT ![c] = "idle"]
  /\ UNCHANGED <<dartVars, portVars, nativeVars, frees, misuse>>

\* kill(), which returns false on a closed session.
Kill ==
  /\ ~ _closed
  /\ Record(NativeCall)
  /\ UNCHANGED <<dartVars, portVars, closer, nativeVars, frees>>

-----------------------------------------------------------------------------
ModesStep == ListenModes \/ PauseModes \/ ResumeModes \/ CancelModes \/ ModesDone
PortStep == HandleBytes \/ HandleClosed \/ HandleEvent
CloseStep(c) == CloseAfterTerm(c) \/ CloseAfterKill(c)

Next ==
  \/ PostOutput
  \/ PostClosed
  \/ \E e \in Messages : PostEvent(e)
  \/ Listen
  \/ Pause
  \/ Resume
  \/ Resumed
  \/ Cancel
  \/ StreamDone
  \/ ModesStep
  \/ PortStep
  \/ \E c \in Closers : Close(c) \/ CloseStep(c) \/ CloseReturns(c)
  \/ Kill

Spec == Init /\ [][Next]_vars

\* The event loop takes every queued message and runs every timer and stream
\* callback; the native reader posts while it may.  The host owes nothing.
FairSpec ==
  /\ Spec
  /\ WF_vars(PostOutput)
  /\ WF_vars(HandleBytes \/ HandleClosed)
  /\ WF_vars(HandleEvent)
  /\ WF_vars(Resumed)
  /\ WF_vars(ModesDone)
  /\ \A c \in Closers : WF_vars(CloseStep(c)) /\ WF_vars(CloseReturns(c))

-----------------------------------------------------------------------------
(***************************************************************************)
(* Properties.                                                             *)
(***************************************************************************)

\* While the session is open every chunk the native half still counts as in
\* flight is in the port or on _pendingAcks, once: none is acknowledged twice,
\* and none is forgotten, through pause, resume, cancel and the end of output.
\* A chunk is held back only while the subscription cannot take it.
AcksAccounted ==
  ~ _closed =>
    /\ inflight = outputQueue + pendingAcks
    /\ pendingAcks > 0 => ~ CanAckOutput(outputCancelled, listener)

\* No callback that runs after close(), a late resume, cancel or message, calls
\* the native half on a freed handle or adds to a closed controller (which
\* would throw), and neither does an error that overtakes the end of output.
NoUseAfterClose == misuse = {}

\* Output flows: a listener that from some point on is not paused, or has
\* canceled, receives every chunk the child writes unless the output ends
\* or the session is closed first (_canAckOutput, _flushAcks).
OutputFlows ==
  <>[] CanAckOutput(outputCancelled, listener)
    => <>(posted = Produced \/ eof \/ _closed)

\* Whether or not the child ever exits, and whatever the listeners do, close()
\* comes to free the session and completes exitCode.  The future it returns
\* completes too, unless a subscription of modeChanges is paused for good or
\* again and again: it is the one thing close() waits for that is the host's.
CloseCompletes ==
  \A c \in Closers :
    /\ closer[c] # "idle" ~> (_closed /\ exitCode # "pending")
    /\ <>[](modes # "paused") => (closer[c] # "idle" ~> closer[c] = "idle")

\* lib/src/api/session.dart:94-95: "Calling [close] more than once is allowed";
\* errors.dart:17: "Closing a session is idempotent".
CloseIsIdempotent == frees <= 1
=============================================================================
