-------------------------- MODULE NativeSessionProofs --------------------------
(***************************************************************************)
(* What NativeSession's runs check of its safety, proved for any closers,  *)
(* limits and events, and what overlapping calls of close() can break.     *)
(***************************************************************************)
EXTENDS NativeSession, TLAPS

FlagsOK == {_closed, outputDone, outputCancelled, eofQueued, eof} \subseteq BOOLEAN

CountsOK == {pendingAcks, outputQueue, posted, inflight, frees} \subseteq Nat

PlacesOK ==
  /\ exitCode \in {"pending", "value", "error"}
  /\ listener \in Listeners
  /\ modes \in ModeListeners
  /\ closer \in [Closers -> CloserPcs]

TypeOK == FlagsOK /\ CountsOK /\ PlacesOK

\* The end of output is the last message of the port, and nothing is queued or
\* posted once it has been taken.
EndInv ==
  /\ eofQueued => eof
  /\ ~ _closed /\ outputDone => eof /\ outputQueue = 0

\* close() frees the session when it marks it closed, and then only.
FreedInv == frees > 0 => _closed

\* Without overlapping calls one close() runs at a time, and none that has yet to
\* free the session is left once it is closed.
SoleCloser ==
  /\ \A c, d \in Closers : closer[c] # "idle" /\ closer[d] # "idle" => c = d
  /\ \A c \in Closers : closer[c] \in {"term", "kill"} => ~ _closed

\* The controllers are never added to once closed, whoever calls close().
NoLateAdd == "closedStream" \notin misuse

\* What holds however calls of close() overlap.
IInv == TypeOK /\ EndInv /\ FreedInv /\ AcksAccounted /\ NoLateAdd

\* What holds besides when they do not.
SoleInv == SoleCloser /\ NoUseAfterClose /\ CloseIsIdempotent

-----------------------------------------------------------------------------
LEMMA InitInv == Init => IInv /\ SoleInv
<1> SUFFICES ASSUME Init PROVE IInv /\ SoleInv
  OBVIOUS
<1> USE DEF Init
<1>1. TypeOK
  <2>1. FlagsOK
    BY DEF FlagsOK
  <2>2. CountsOK
    BY DEF CountsOK
  <2>3. PlacesOK
    BY DEF PlacesOK, Listeners, ModeListeners, CloserPcs
  <2> QED BY <2>1, <2>2, <2>3 DEF TypeOK
<1>2. EndInv /\ FreedInv /\ AcksAccounted
  BY DEF EndInv, FreedInv, AcksAccounted
<1>3. NoLateAdd /\ SoleInv
  BY DEF NoLateAdd, SoleInv, SoleCloser, NoUseAfterClose, CloseIsIdempotent
<1> QED BY <1>1, <1>2, <1>3 DEF IInv

\* Flags are set to truth values only.
LEMMA FlagsStep == FlagsOK /\ [Next]_vars => FlagsOK'
<1> SUFFICES ASSUME FlagsOK, [Next]_vars PROVE FlagsOK'
  OBVIOUS
<1> USE DEF FlagsOK, dartVars, portVars, nativeVars
<1>1. CASE PostOutput \/ PostClosed \/ (\E e \in Messages : PostEvent(e)) \/ Kill
  BY <1>1 DEF PostOutput, PostClosed, PostEvent, Kill
<1>2. CASE Listen \/ Pause \/ Resume \/ Resumed \/ Cancel \/ StreamDone
  BY <1>2 DEF Listen, Pause, Resume, Resumed, Cancel, StreamDone, Subscribed
<1>3. CASE PortStep
  BY <1>3 DEF PortStep, HandleBytes, HandleClosed, HandleEvent
<1>4. CASE \E c \in Closers : Close(c) \/ CloseStep(c)
  BY <1>4 DEF Close, CloseStep, CloseAfterTerm, CloseAfterKill, KillAndWait, FinishClose
<1>5. CASE ModesStep \/ (\E c \in Closers : CloseReturns(c))
  BY <1>5 DEF ModesStep, ListenModes, PauseModes, ResumeModes, CancelModes, ModesDone,
     ModesOnly, CloseReturns
<1>6. CASE UNCHANGED vars
  BY <1>6 DEF vars
<1> QED BY <1>1, <1>2, <1>3, <1>4, <1>5, <1>6 DEF Next

\* exitCode, the listener and every close() go only to places there are.
LEMMA PlacesStep == PlacesOK /\ [Next]_vars => PlacesOK'
<1> SUFFICES ASSUME PlacesOK, [Next]_vars PROVE PlacesOK'
  OBVIOUS
<1> USE DEF PlacesOK, Listeners, ModeListeners, CloserPcs, dartVars, portVars, nativeVars
<1>1. CASE PostOutput \/ PostClosed \/ (\E e \in Messages : PostEvent(e)) \/ Kill
  BY <1>1 DEF PostOutput, PostClosed, PostEvent, Kill
<1>2. CASE Listen \/ Pause \/ Resume \/ Resumed \/ Cancel \/ StreamDone
  BY <1>2 DEF Listen, Pause, Resume, Resumed, Cancel, StreamDone, Subscribed
<1>3. CASE PortStep
  BY <1>3 DEF PortStep, HandleBytes, HandleClosed, HandleEvent, Complete
<1>4. CASE \E c \in Closers : Close(c) \/ CloseStep(c)
  BY <1>4
     DEF Close, CloseStep, CloseAfterTerm, CloseAfterKill, KillAndWait, FinishClose, Complete
<1>5. CASE ModesStep \/ (\E c \in Closers : CloseReturns(c))
  BY <1>5 DEF ModesStep, ListenModes, PauseModes, ResumeModes, CancelModes, ModesDone,
     ModesOnly, CloseReturns
<1>6. CASE UNCHANGED vars
  BY <1>6 DEF vars
<1> QED BY <1>1, <1>2, <1>3, <1>4, <1>5, <1>6 DEF Next

\* What flushing does: the chunks kept back are acknowledged while the
\* subscription can take output, and stay where they are otherwise.
LEMMA FlushAcksKeeps ==
  ASSUME NEW cancelled, NEW subscription, CountsOK, AcksAccounted, FreedInv,
         FlushAcks(cancelled, subscription)
  PROVE  /\ pendingAcks' \in Nat /\ inflight' \in Nat
         /\ ~ _closed => inflight' = outputQueue + pendingAcks'
         /\ pendingAcks' > 0 => ~ CanAckOutput(cancelled, subscription)
         /\ misuse' = misuse
<1> USE DEF FlushAcks, Ack, CountsOK, AcksAccounted, FreedInv, Record, NativeCall
<1>1. CASE ~ CanAckOutput(cancelled, subscription)
  BY <1>1
<1>2. CASE CanAckOutput(cancelled, subscription) /\ _closed
  BY <1>2
<1>3. CASE CanAckOutput(cancelled, subscription) /\ ~ _closed
  <2>1. pendingAcks' = 0 /\ inflight' = inflight - pendingAcks
    BY <1>3
  <2>2. misuse' = misuse
    BY <1>3
  <2> QED BY <1>3, <2>1, <2>2
<1> QED BY <1>1, <1>2, <1>3

\* No step loses or repeats an acknowledgement, makes a counter negative or marks
\* the session freed while it is open.
LEMMA AcksStep ==
  CountsOK /\ EndInv /\ FreedInv /\ AcksAccounted /\ [Next]_vars
    => CountsOK' /\ EndInv' /\ FreedInv' /\ AcksAccounted'
<1> SUFFICES ASSUME CountsOK, EndInv, FreedInv, AcksAccounted, [Next]_vars
             PROVE  CountsOK' /\ EndInv' /\ FreedInv' /\ AcksAccounted'
  OBVIOUS
<1> USE DEF CountsOK, EndInv, FreedInv, AcksAccounted, dartVars, portVars, nativeVars
<1>1. CASE PostOutput \/ PostClosed \/ (\E e \in Messages : PostEvent(e)) \/ Kill
  BY <1>1 DEF PostOutput, PostClosed, PostEvent, Kill
<1>2. CASE Pause \/ Resume
  BY <1>2 DEF Pause, Resume, CanAckOutput
<1>3. CASE Listen \/ Resumed \/ Cancel \/ StreamDone
  <2>1. PICK next \in Listeners : Subscribed(next)
    BY <1>3 DEF Listen, Resumed, Cancel, StreamDone, Listeners
  <2>2. FlushAcks(outputCancelled', next) /\ listener' = next
    BY <2>1 DEF Subscribed
  <2> QED BY <2>1, <2>2, FlushAcksKeeps DEF Subscribed
<1>4. CASE HandleBytes
  <2>1. CASE _closed \/ outputDone
    BY <1>4, <2>1 DEF HandleBytes
  <2>2. CASE ~ (_closed \/ outputDone) /\ CanAckOutput(outputCancelled, listener)
    BY <1>4, <2>2 DEF HandleBytes, Ack
  <2>3. CASE ~ (_closed \/ outputDone) /\ ~ CanAckOutput(outputCancelled, listener)
    BY <1>4, <2>3 DEF HandleBytes
  <2> QED BY <2>1, <2>2, <2>3
<1>5. CASE HandleClosed \/ HandleEvent
  BY <1>5 DEF HandleClosed, HandleEvent
<1>6. CASE \E c \in Closers : Close(c) \/ CloseStep(c)
  BY <1>6 DEF Close, CloseStep, CloseAfterTerm, CloseAfterKill, KillAndWait, FinishClose
<1>7. CASE ModesStep \/ (\E c \in Closers : CloseReturns(c))
  BY <1>7 DEF ModesStep, ListenModes, PauseModes, ResumeModes, CancelModes, ModesDone,
     ModesOnly, CloseReturns
<1>8. CASE UNCHANGED vars
  BY <1>8 DEF vars
<1> QED BY <1>1, <1>2, <1>3, <1>4, <1>5, <1>6, <1>7, <1>8 DEF Next, PortStep

\* The misuses of one step.  A handle that was freed is used only by a close()
\* that another close() overtook, and no closed controller is ever added to.
LEMMA MisuseStep ==
  FreedInv /\ CountsOK /\ AcksAccounted /\ [Next]_vars
    => \/ misuse' = misuse
       \/ /\ misuse' = misuse \cup {"freedHandle"}
          /\ _closed
          /\ \E c \in Closers : CloseStep(c)
<1> SUFFICES ASSUME FreedInv, CountsOK, AcksAccounted, [Next]_vars
             PROVE  \/ misuse' = misuse
                    \/ /\ misuse' = misuse \cup {"freedHandle"}
                       /\ _closed
                       /\ \E c \in Closers : CloseStep(c)
  OBVIOUS
<1> USE DEF FreedInv, Record, NativeCall
<1>1. CASE PostOutput \/ PostClosed \/ (\E e \in Messages : PostEvent(e)) \/ Kill
  BY <1>1 DEF PostOutput, PostClosed, PostEvent, Kill
<1>2. CASE Pause \/ Resume
  BY <1>2 DEF Pause, Resume
<1>3. CASE Listen \/ Resumed \/ Cancel \/ StreamDone
  BY <1>3, FlushAcksKeeps DEF Listen, Resumed, Cancel, StreamDone, Subscribed
<1>4. CASE HandleBytes \/ HandleClosed
  BY <1>4 DEF HandleBytes, HandleClosed, Ack
<1>5. CASE HandleEvent
  BY <1>5 DEF HandleEvent, StreamAdd
<1>6. CASE \E c \in Closers : Close(c)
  BY <1>6 DEF Close, KillAndWait, FinishClose
<1>7. CASE \E c \in Closers : CloseStep(c)
  BY <1>7 DEF CloseStep, CloseAfterTerm, CloseAfterKill, KillAndWait, FinishClose
<1>8. CASE ModesStep \/ (\E c \in Closers : CloseReturns(c))
  BY <1>8 DEF ModesStep, ListenModes, PauseModes, ResumeModes, CancelModes, ModesDone,
     ModesOnly, CloseReturns
<1>9. CASE UNCHANGED vars
  BY <1>9 DEF vars
<1> QED BY <1>1, <1>2, <1>3, <1>4, <1>5, <1>6, <1>7, <1>8, <1>9 DEF Next, PortStep

LEMMA InductiveStep == IInv /\ [Next]_vars => IInv'
BY FlagsStep, PlacesStep, AcksStep, MisuseStep DEF IInv, TypeOK, NoLateAdd

LEMMA SoleStep ==
  ASSUME ~ OverlappingClose
  PROVE  IInv /\ SoleInv /\ [Next]_vars => SoleInv'
<1> SUFFICES ASSUME IInv, SoleInv, [Next]_vars PROVE SoleInv'
  OBVIOUS
<1> USE DEF dartVars, portVars, nativeVars
<1>1. SoleCloser' /\ CloseIsIdempotent'
  <2> USE DEF SoleInv, SoleCloser, CloseIsIdempotent, IInv, TypeOK, FreedInv, PlacesOK, CountsOK
  <2>1. CASE PostOutput \/ PostClosed \/ (\E e \in Messages : PostEvent(e)) \/ Kill
    BY <2>1 DEF PostOutput, PostClosed, PostEvent, Kill
  <2>2. CASE Listen \/ Pause \/ Resume \/ Resumed \/ Cancel \/ StreamDone
    BY <2>2 DEF Listen, Pause, Resume, Resumed, Cancel, StreamDone, Subscribed
  <2>3. CASE PortStep
    BY <2>3 DEF PortStep, HandleBytes, HandleClosed, HandleEvent
  <2>4. CASE \E c \in Closers : Close(c)
    BY <2>4 DEF Close, KillAndWait, FinishClose
  <2>5. CASE \E c \in Closers : CloseStep(c)
    BY <2>5 DEF CloseStep, CloseAfterTerm, CloseAfterKill, KillAndWait, FinishClose
  <2>6. CASE ModesStep \/ (\E c \in Closers : CloseReturns(c))
    BY <2>6 DEF ModesStep, ListenModes, PauseModes, ResumeModes, CancelModes, ModesDone,
       ModesOnly, CloseReturns
  <2>7. CASE UNCHANGED vars
    BY <2>7 DEF vars
  <2> QED BY <2>1, <2>2, <2>3, <2>4, <2>5, <2>6, <2>7 DEF Next
<1>2. ASSUME NEW c \in Closers, CloseStep(c) PROVE ~ _closed
  BY <1>2 DEF SoleInv, SoleCloser, CloseStep, CloseAfterTerm, CloseAfterKill
<1>3. misuse' = misuse
  BY <1>2, MisuseStep DEF IInv, TypeOK
<1> QED BY <1>1, <1>3 DEF SoleInv, NoUseAfterClose

-----------------------------------------------------------------------------
\* IInv holds in every state of every session.
THEOREM Inductive == Spec => []IInv
BY InitInv, InductiveStep, PTL DEF Spec

\* Every chunk in flight is in the port or kept back, once, while the session is
\* open: what the listener does, and when, neither loses nor repeats an ACK.
THEOREM AcksAccountedHolds == Spec => []AcksAccounted
<1>1. IInv => AcksAccounted
  BY DEF IInv
<1> QED BY <1>1, Inductive, PTL

\* Whatever is still queued or called back after close(), and however calls of
\* close() overlap, no event is added to a closed controller.
THEOREM NoLateAddHolds == Spec => []NoLateAdd
<1>1. IInv => NoLateAdd
  BY DEF IInv
<1> QED BY <1>1, Inductive, PTL

\* When calls of close() do not overlap, SoleInv holds with IInv.
THEOREM SoleInductive ==
  ASSUME ~ OverlappingClose
  PROVE  Spec => [](IInv /\ SoleInv)
BY InitInv, InductiveStep, SoleStep, PTL DEF Spec

\* When calls of close() do not overlap, no callback, message or call that comes
\* after close() uses the freed handle or a closed controller.
THEOREM NoUseAfterCloseHolds ==
  ASSUME ~ OverlappingClose
  PROVE  Spec => []NoUseAfterClose
<1>1. SoleInv => NoUseAfterClose
  BY DEF SoleInv
<1> QED BY <1>1, SoleInductive, PTL

\* When calls of close() do not overlap, the native session is freed once, so
\* that close() is idempotent, as documented: only an overlap can break it.
THEOREM CloseIsIdempotentHolds ==
  ASSUME ~ OverlappingClose
  PROVE  Spec => []CloseIsIdempotent
<1>1. SoleInv => CloseIsIdempotent
  BY DEF SoleInv
<1> QED BY <1>1, SoleInductive, PTL
=============================================================================
