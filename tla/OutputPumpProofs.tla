---------------------------- MODULE OutputPumpProofs ----------------------------
(***************************************************************************)
(* What OutputPump's runs check of its safety, and that it implements      *)
(* BytePipe, proved for any sizes, limits and configurations.              *)
(***************************************************************************)
EXTENDS OutputPump, FiniteSetTheorems, SequenceTheorems, TLAPS

\* The parts of TypeOK: truth values, counters, and places and messages.
FlagsOK == {requireAcks, useExternal, stop, childOpen, portOpen} \subseteq BOOLEAN

CountsOK ==
  {produced, drained, data, batch, inflight, extBytes, posted, received, acked, errors} \subseteq Nat

PlacesOK == reader \in ReaderPcs /\ ret \in Callers

MessagesOK == port \in Seq(Message) /\ held \subseteq Message

Flushing == {"flush", "wait", "reserve", "post"}
Closing  == {"close", "done"}

\* Bytes are in the read buffer only while append takes them or waits for flush.
\* flush goes on only with a batch, and waits and reserves only with ACKs required.
ControlInv ==
  /\ reader \in {"start", "top", "read", "poll"} => data = 0
  /\ reader \in Flushing /\ ret # "append" => data = 0
  /\ reader \in {"wait", "reserve", "post"} => batch > 0
  /\ reader \in {"wait", "reserve"} => requireAcks
  /\ reader = "start" => batch = 0

\* What was drained is posted or still with the reader, but for what a refused
\* post dropped.  The reader keeps nothing back when it closes in the normal way.
StreamInv ==
  /\ posted + batch + data <= drained
  /\ reader \notin Closing \/ portOpen => drained = posted + batch + data
  /\ reader \in Closing /\ ~ stop /\ portOpen => batch = 0 /\ data = 0
  /\ received <= posted

\* A batch outgrows its limit only when stop has made flush keep it, and then
\* nothing is reserved for it any more.
CreditInv ==
  /\ requireAcks =>
       /\ reader \notin Flushing \cup Closing => batch < BatchMax \/ stop
       /\ reader \in {"flush", "wait"} => batch <= BatchMax \/ stop
       /\ reader \in {"reserve", "post"} => batch <= BatchMax
  /\ reader = "reserve" => inflight < MaxInflight
  /\ acked <= received

\* The port holds output in stream order, none of it delivered yet, and CLOSED
\* behind it once the reader is done.
PortInv ==
  /\ ~ portOpen => port = <<>>
  /\ \A i \in 1 .. Len(port) :
       \/ /\ port[i].kind = "output" /\ port[i].len > 0
          /\ received <= port[i].start /\ port[i].start + port[i].len <= posted
       \/ port[i] = Closed /\ i = Len(port) /\ reader = "done"
  /\ \A i, j \in 1 .. Len(port) :
       i < j /\ port[j].kind = "output" => port[i].start + port[i].len <= port[j].start
  /\ reader = "done" /\ port # <<>> => port[Len(port)] = Closed

\* The port holds the bytes posted and not delivered, all of them.
QueuedBytes == UNION {Bytes(port[i]) : i \in 1 .. Len(port)}
QueuedInv == portOpen => QueuedBytes = received + 1 .. posted

\* The receiver's external buffers are messages it has had, of distinct bytes.
HeldInv ==
  /\ \A m \in held :
       /\ m.external /\ m.kind = "output" /\ m.len > 0
       /\ m.start + m.len <= IF portOpen THEN received ELSE posted
  /\ \A m, n \in held :
       m # n => m.start + m.len <= n.start \/ n.start + n.len <= m.start

IInv ==
  /\ TypeOK /\ ControlInv /\ StreamInv /\ CreditInv /\ PortInv /\ QueuedInv /\ HeldInv
  /\ InflightExact /\ ExternalAccounted
-----------------------------------------------------------------------------
LEMMA TypeParts == TypeOK <=> FlagsOK /\ CountsOK /\ PlacesOK /\ MessagesOK
<1>1. FlagsOK <=> /\ requireAcks \in BOOLEAN /\ useExternal \in BOOLEAN /\ stop \in BOOLEAN
                  /\ childOpen \in BOOLEAN /\ portOpen \in BOOLEAN
  BY DEF FlagsOK
<1>2. CountsOK <=> /\ produced \in Nat /\ drained \in Nat /\ data \in Nat /\ batch \in Nat
                   /\ inflight \in Nat /\ extBytes \in Nat /\ posted \in Nat
                   /\ received \in Nat /\ acked \in Nat /\ errors \in Nat
  BY DEF CountsOK
<1> QED BY <1>1, <1>2 DEF TypeOK, PlacesOK, MessagesOK

LEMMA ClosedMessage ==
  /\ Closed \in Message
  /\ Closed.kind = "closed" /\ Closed.start = 0 /\ Closed.len = 0 /\ ~ Closed.external
BY DEF Closed, Message

LEMMA MessageFields ==
  ASSUME NEW m \in Message
  PROVE  m.start \in Nat /\ m.len \in Nat
BY DEF Message

\* The message posted for a batch.
Posted == [kind |-> "output", start |-> posted, len |-> batch,
           external |-> useExternal /\ FitsExternal(batch)]

\* Every step leaves the port and what was posted and delivered alone, or is one
\* of four.
LEMMA PortChange ==
  ASSUME [Next]_vars
  PROVE  \/ UNCHANGED <<port, portOpen, posted, received>>
         \/ PostOutput /\ portOpen
         \/ ClosePorts /\ portOpen
         \/ Deliver
         \/ PortCloses
<1> USE DEF config, child, receiver, bufferVars, readerVars
<1>1. CASE StartReader \/ CheckStop \/ ReadData \/ ReadWouldBlock \/ ReadEof \/ ReadFails
           \/ PollReady \/ PollTimeout
  BY <1>1 DEF StartReader, CheckStop, ReadData, ReadWouldBlock, ReadEof, ReadFails, PollReady,
              PollTimeout
<1>2. CASE AppendChunk \/ AppendDone \/ StartFlush \/ WaitForInflightCapacity
           \/ ReserveInflight
  BY <1>2 DEF AppendChunk, AppendDone, StartFlush, WaitForInflightCapacity, ReserveInflight
<1>3. CASE PostOutput
  BY <1>3 DEF PostOutput, PostFails
<1>4. CASE ClosePorts
  BY <1>4 DEF ClosePorts
<1>5. CASE Produce \/ ChildCloses \/ Stop \/ AckOutput \/ Finalize
  BY <1>5 DEF Produce, ChildCloses, Stop, AckOutput, Finalize
<1>6. CASE Deliver \/ PortCloses
  BY <1>6
<1>7. CASE UNCHANGED vars
  BY <1>7 DEF vars
<1> QED BY <1>1, <1>2, <1>3, <1>4, <1>5, <1>6, <1>7 DEF Next

\* What PostOutput does while the port is open.
LEMMA PostChange ==
  ASSUME TypeOK, PostOutput, portOpen
  PROVE  /\ Posted \in Message
         /\ Posted.kind = "output" /\ Posted.start = posted /\ Posted.len = batch
         /\ port' = Append(port, Posted)
         /\ posted' = posted + batch /\ batch' = 0
         /\ UNCHANGED <<config, stop, child, drained, data, receiver, inflight>>
<1>1. (useExternal /\ FitsExternal(batch)) \in BOOLEAN
  OBVIOUS
<1>2. posted \in Nat /\ batch \in Nat
  BY DEF TypeOK
<1>3. \A e \in BOOLEAN :
        [kind |-> "output", start |-> posted, len |-> batch, external |-> e] \in Message
  BY <1>2 DEF Message
<1>4. Posted \in Message
  BY <1>1, <1>3, Zenon DEF Posted
<1>5. Posted.kind = "output" /\ Posted.start = posted /\ Posted.len = batch
  BY DEF Posted
<1> QED BY <1>4, <1>5 DEF PostOutput, Posted

\* The port after a message is posted, and after one is delivered.
LEMMA Appended ==
  ASSUME MessagesOK, NEW m \in Message, port' = Append(port, m)
  PROVE  /\ port' \in Seq(Message)
         /\ Len(port) \in Nat /\ Len(port') = Len(port) + 1
         /\ port'[Len(port')] = m
         /\ \A i \in 1 .. Len(port) : port'[i] = port[i]
BY DEF MessagesOK

LEMMA Delivered ==
  ASSUME MessagesOK, port # <<>>, port' = Tail(port)
  PROVE  /\ port' \in Seq(Message)
         /\ Len(port) \in Nat \ {0} /\ Len(port') = Len(port) - 1
         /\ Head(port) = port[1] /\ port[1] \in Message
         /\ \A i \in 1 .. Len(port') : port'[i] = port[i + 1]
BY HeadTailProperties, EmptySeq, ElementOfSeq DEF MessagesOK

-----------------------------------------------------------------------------
LEMMA InitInv == Init => IInv
<1> SUFFICES ASSUME Init PROVE IInv
  OBVIOUS
<1> USE OutputPumpAssumption DEF Init
<1>1. FlagsOK
  BY DEF FlagsOK
<1>2. CountsOK
  BY DEF CountsOK
<1>3. PlacesOK /\ MessagesOK
  BY EmptySeq DEF PlacesOK, MessagesOK, ReaderPcs, Callers
<1>4. ControlInv /\ StreamInv /\ CreditInv
  BY DEF ControlInv, StreamInv, CreditInv, Flushing, Closing
<1>5. PortInv /\ HeldInv
  BY EmptySeq DEF PortInv, HeldInv
<1>6. QueuedInv
  BY EmptySeq DEF QueuedInv, QueuedBytes
<1>7. InflightExact
  <2>1. 0 < MaxInflight + BatchMax
    OBVIOUS
  <2> QED BY <2>1 DEF InflightExact
<1>8. ExternalAccounted
  <2>1. Len(port) = 0
    BY EmptySeq
  <2>2. ExternalBytes = {}
    BY <2>1 DEF ExternalBytes, QueuedExternal
  <2>3. 0 <= MaxExternal
    OBVIOUS
  <2> QED BY <2>2, <2>3, FS_EmptySet DEF ExternalAccounted
<1> QED BY <1>1, <1>2, <1>3, <1>4, <1>5, <1>6, <1>7, <1>8, TypeParts DEF IInv

\* Flags are set to truth values only.
LEMMA FlagsStep == FlagsOK /\ [Next]_vars => FlagsOK'
<1> SUFFICES ASSUME FlagsOK, [Next]_vars PROVE FlagsOK'
  OBVIOUS
<1> USE DEF FlagsOK, config, child, receiver, bufferVars, readerVars
<1>1. CASE StartReader \/ CheckStop \/ ReadData \/ ReadWouldBlock \/ ReadEof \/ ReadFails
           \/ PollReady \/ PollTimeout
  BY <1>1 DEF StartReader, CheckStop, ReadData, ReadWouldBlock, ReadEof, ReadFails, PollReady,
              PollTimeout
<1>2. CASE AppendChunk \/ AppendDone \/ StartFlush \/ WaitForInflightCapacity
           \/ ReserveInflight \/ PostOutput \/ ClosePorts
  BY <1>2 DEF AppendChunk, AppendDone, StartFlush, WaitForInflightCapacity, ReserveInflight,
              PostOutput, ClosePorts
<1>3. CASE Produce \/ ChildCloses \/ Stop \/ Deliver \/ AckOutput \/ Finalize \/ PortCloses
  BY <1>3 DEF Produce, ChildCloses, Stop, Deliver, AckOutput, Finalize, PortCloses
<1>4. CASE UNCHANGED vars
  BY <1>4 DEF vars
<1> QED BY <1>1, <1>2, <1>3, <1>4 DEF Next

\* The reader goes only to places there are.
LEMMA PlacesStep == PlacesOK /\ [Next]_vars => PlacesOK'
<1> SUFFICES ASSUME PlacesOK, [Next]_vars PROVE PlacesOK'
  OBVIOUS
<1> USE DEF PlacesOK, ReaderPcs, Callers, readerVars, Flush, FlushReturns
<1>1. CASE StartReader \/ CheckStop \/ ReadData \/ ReadWouldBlock \/ ReadEof \/ ReadFails
           \/ PollReady \/ PollTimeout
  BY <1>1 DEF StartReader, CheckStop, ReadData, ReadWouldBlock, ReadEof, ReadFails, PollReady,
              PollTimeout
<1>2. CASE AppendChunk \/ AppendDone \/ StartFlush \/ WaitForInflightCapacity
           \/ ReserveInflight \/ PostOutput \/ ClosePorts
  BY <1>2 DEF AppendChunk, AppendDone, StartFlush, WaitForInflightCapacity, ReserveInflight,
              PostOutput, PostFails, ClosePorts
<1>3. CASE Produce \/ ChildCloses \/ Stop \/ Deliver \/ AckOutput \/ Finalize \/ PortCloses
  BY <1>3 DEF Produce, ChildCloses, Stop, Deliver, AckOutput, Finalize, PortCloses
<1>4. CASE UNCHANGED vars
  BY <1>4 DEF vars
<1> QED BY <1>1, <1>2, <1>3, <1>4 DEF Next

\* Only messages are posted, delivered and held.
LEMMA MessagesStep == TypeOK /\ [Next]_vars => MessagesOK'
<1> SUFFICES ASSUME TypeOK, [Next]_vars PROVE MessagesOK'
  OBVIOUS
<1>1. MessagesOK
  BY TypeParts
<1>2. port' \in Seq(Message)
  <2>1. CASE PostOutput /\ portOpen
    BY <1>1, <2>1, PostChange, Appended
  <2>2. CASE ClosePorts /\ portOpen
    BY <1>1, <2>2, ClosedMessage, Appended DEF ClosePorts
  <2>3. CASE Deliver
    BY <1>1, <2>3, Delivered DEF Deliver
  <2>4. CASE PortCloses
    BY <2>4, EmptySeq DEF PortCloses
  <2> QED BY <1>1, <2>1, <2>2, <2>3, <2>4, PortChange DEF MessagesOK
<1>3. held' \subseteq Message
  <2> USE DEF config, child, receiver, bufferVars, readerVars
  <2>1. CASE Deliver
    <3>1. Head(port) \in Message
      BY <1>1, <2>1, Delivered DEF Deliver
    <3> QED BY <1>1, <2>1, <3>1 DEF Deliver, MessagesOK
  <2>2. CASE PortCloses
    <3>1. QueuedExternal \subseteq Message
      BY <1>1, ElementOfSeq DEF QueuedExternal, MessagesOK
    <3> QED BY <1>1, <2>2, <3>1 DEF PortCloses, MessagesOK
  <2>3. CASE Finalize
    BY <1>1, <2>3 DEF Finalize, MessagesOK
  <2>4. CASE Produce \/ ChildCloses \/ Stop \/ AckOutput \/ PostOutput \/ ClosePorts
    BY <1>1, <2>4 DEF Produce, ChildCloses, Stop, AckOutput, PostOutput, ClosePorts, MessagesOK
  <2>5. CASE StartReader \/ CheckStop \/ ReadData \/ ReadWouldBlock \/ ReadEof \/ ReadFails
             \/ PollReady \/ PollTimeout
    BY <1>1, <2>5 DEF StartReader, CheckStop, ReadData, ReadWouldBlock, ReadEof, ReadFails,
                      PollReady, PollTimeout, MessagesOK
  <2>6. CASE AppendChunk \/ AppendDone \/ StartFlush \/ WaitForInflightCapacity
             \/ ReserveInflight
    BY <1>1, <2>6 DEF AppendChunk, AppendDone, StartFlush, WaitForInflightCapacity,
                      ReserveInflight, MessagesOK
  <2>7. CASE UNCHANGED vars
    BY <1>1, <2>7 DEF vars, MessagesOK
  <2> QED BY <2>1, <2>2, <2>3, <2>4, <2>5, <2>6, <2>7 DEF Next
<1> QED BY <1>2, <1>3 DEF MessagesOK
-----------------------------------------------------------------------------
\* flush returns where ControlInv wants it; an error ends in close.
LEMMA FlushReturning ==
  ASSUME NEW ok \in BOOLEAN, FlushReturns(ok), PlacesOK
  PROVE  /\ reader' \in {"append", "top", "close"} /\ ret' = ret
         /\ reader' = "append" => ret = "append"
         /\ ~ ok => reader' = "close"
         /\ ok /\ ret = "append" => reader' = "append"
         /\ reader' # "append" /\ ok => ret # "append"
BY DEF FlushReturns, PlacesOK, Callers

LEMMA ControlStep == TypeOK /\ ControlInv /\ [Next]_vars => ControlInv'
<1> SUFFICES ASSUME TypeOK, ControlInv, [Next]_vars PROVE ControlInv'
  OBVIOUS
<1>0. PlacesOK /\ CountsOK
  BY TypeParts
<1> USE DEF ControlInv, Flushing, config, child, receiver, bufferVars, readerVars
<1>1. CASE StartReader \/ CheckStop \/ ReadData \/ ReadWouldBlock \/ ReadEof \/ ReadFails
           \/ PollReady \/ PollTimeout
  BY <1>1 DEF StartReader, CheckStop, ReadData, ReadWouldBlock, ReadEof, ReadFails, PollReady,
              PollTimeout, Flush
<1>2. CASE AppendChunk \/ AppendDone
  BY <1>0, <1>2 DEF AppendChunk, AppendDone, Flush, CountsOK
<1>3. CASE StartFlush
  <2>1. CASE batch = 0
    BY <1>0, <1>3, <2>1, FlushReturning DEF StartFlush
  <2>2. CASE batch # 0
    BY <1>0, <1>3, <2>2 DEF StartFlush, CountsOK
  <2> QED BY <2>1, <2>2
<1>4. CASE WaitForInflightCapacity
  <2>1. CASE stop
    BY <1>0, <1>4, <2>1, FlushReturning DEF WaitForInflightCapacity
  <2>2. CASE ~ stop
    BY <1>4, <2>2 DEF WaitForInflightCapacity
  <2> QED BY <2>1, <2>2
<1>5. CASE ReserveInflight \/ ClosePorts
  BY <1>5 DEF ReserveInflight, ClosePorts
<1>6. CASE PostOutput
  <2>1. CASE portOpen
    BY <1>0, <1>6, <2>1, FlushReturning DEF PostOutput
  <2>2. CASE ~ portOpen
    BY <1>0, <1>6, <2>2, FlushReturning DEF PostOutput, PostFails
  <2> QED BY <2>1, <2>2
<1>7. CASE Produce \/ ChildCloses \/ Stop \/ Deliver \/ AckOutput \/ Finalize \/ PortCloses
  BY <1>7 DEF Produce, ChildCloses, Stop, Deliver, AckOutput, Finalize, PortCloses
<1>8. CASE UNCHANGED vars
  BY <1>8 DEF vars
<1> QED BY <1>1, <1>2, <1>3, <1>4, <1>5, <1>6, <1>7, <1>8 DEF Next

\* A message that is delivered ends within what was posted.
LEMMA DeliveredIsPosted ==
  ASSUME TypeOK, StreamInv, PortInv, Deliver
  PROVE  received + Head(port).len <= posted /\ received' = received + Head(port).len
<1>1. MessagesOK /\ CountsOK
  BY TypeParts
<1>2. /\ Head(port) = port[1] /\ port[1] \in Message /\ 1 \in 1 .. Len(port)
  BY <1>1, Delivered DEF Deliver
<1>3. port[1].start \in Nat /\ port[1].len \in Nat
  BY <1>2, MessageFields
<1>4. \/ received <= port[1].start /\ port[1].start + port[1].len <= posted
      \/ port[1] = Closed
  BY <1>2 DEF PortInv
<1>5. received' = received + port[1].len
  BY <1>2 DEF Deliver
<1>6. received + port[1].len <= posted
  <2>1. CASE port[1] = Closed
    BY <1>1, <2>1, ClosedMessage DEF StreamInv, CountsOK
  <2>2. CASE received <= port[1].start /\ port[1].start + port[1].len <= posted
    BY <1>1, <1>3, <2>2 DEF CountsOK
  <2> QED BY <1>4, <2>1, <2>2
<1> QED BY <1>2, <1>5, <1>6

\* No byte leaves the reader but into the port, or in a batch that is refused.
LEMMA StreamStep ==
  TypeOK /\ ControlInv /\ StreamInv /\ PortInv /\ [Next]_vars => StreamInv'
<1> SUFFICES ASSUME TypeOK, ControlInv, StreamInv, PortInv, [Next]_vars PROVE StreamInv'
  OBVIOUS
<1>0. PlacesOK /\ CountsOK
  BY TypeParts
<1> USE DEF StreamInv, ControlInv, Closing, Flushing, CountsOK, config, child, receiver,
            bufferVars, readerVars
<1>1. CASE StartReader \/ CheckStop \/ ReadWouldBlock \/ ReadEof \/ ReadFails \/ PollReady
           \/ PollTimeout
  BY <1>0, <1>1 DEF StartReader, CheckStop, ReadWouldBlock, ReadEof, ReadFails, PollReady,
                    PollTimeout, Flush
<1>2. CASE ReadData
  BY <1>0, <1>2, OutputPumpAssumption DEF ReadData
<1>3. CASE AppendChunk \/ AppendDone
  BY <1>0, <1>3, OutputPumpAssumption DEF AppendChunk, AppendDone, Flush
<1>4. CASE StartFlush
  <2>1. CASE batch = 0
    BY <1>0, <1>4, <2>1, FlushReturning DEF StartFlush
  <2>2. CASE batch # 0
    BY <1>0, <1>4, <2>2 DEF StartFlush
  <2> QED BY <2>1, <2>2
<1>5. CASE WaitForInflightCapacity
  <2>1. CASE stop
    BY <1>0, <1>5, <2>1, FlushReturning DEF WaitForInflightCapacity
  <2>2. CASE ~ stop
    BY <1>0, <1>5, <2>2 DEF WaitForInflightCapacity
  <2> QED BY <2>1, <2>2
<1>6. CASE ReserveInflight \/ ClosePorts
  BY <1>0, <1>6 DEF ReserveInflight, ClosePorts
<1>7. CASE PostOutput
  <2>1. CASE portOpen
    <3>1. FlushReturns(TRUE)
      BY <1>7, <2>1 DEF PostOutput
    <3>2. reader' \in {"append", "top", "close"} /\ (reader' # "append" => data = 0)
      BY <1>0, <1>7, <3>1, FlushReturning DEF PostOutput
    <3> QED BY <1>0, <1>7, <2>1, <3>2, PostChange
  <2>2. CASE ~ portOpen
    <3>1. reader' = "close" /\ batch' \in {0, batch}
      BY <1>0, <1>7, <2>2, FlushReturning DEF PostOutput, PostFails
    <3> QED BY <1>0, <1>7, <2>2, <3>1 DEF PostOutput, PostFails
  <2> QED BY <2>1, <2>2
<1>8. CASE Produce \/ ChildCloses \/ Stop \/ AckOutput \/ Finalize \/ PortCloses
  BY <1>0, <1>8 DEF Produce, ChildCloses, Stop, AckOutput, Finalize, PortCloses
<1>9. CASE Deliver
  BY <1>0, <1>9, DeliveredIsPosted DEF Deliver
<1>10. CASE UNCHANGED vars
  BY <1>10 DEF vars
<1> QED BY <1>1, <1>2, <1>3, <1>4, <1>5, <1>6, <1>7, <1>8, <1>9, <1>10 DEF Next
-----------------------------------------------------------------------------
\* Taking back no more than there is.
LEMMA Subtracted ==
  ASSUME NEW a \in Nat, NEW b \in Nat
  PROVE  /\ SaturatingSub(a, b) \in Nat /\ SaturatingSub(a, b) <= a
         /\ b <= a => SaturatingSub(a, b) = a - b
BY DEF SaturatingSub

\* The counter follows every reservation, rollback and acknowledgement.
LEMMA CreditStep ==
  TypeOK /\ ControlInv /\ StreamInv /\ PortInv /\ CreditInv /\ InflightExact /\ [Next]_vars
    => CreditInv' /\ InflightExact'
<1> SUFFICES ASSUME TypeOK, ControlInv, StreamInv, PortInv, CreditInv, InflightExact,
                    [Next]_vars
             PROVE  CreditInv' /\ InflightExact'
  OBVIOUS
<1>0. PlacesOK /\ CountsOK /\ BatchMax \in Nat \ {0} /\ MaxInflight \in Nat \ {0}
  BY TypeParts, OutputPumpAssumption
<1> USE DEF CreditInv, InflightExact, Closing, Flushing, PlacesOK, ReaderPcs, CountsOK, config,
            child, receiver, bufferVars, readerVars
<1>1. CASE StartReader \/ CheckStop \/ ReadData \/ ReadWouldBlock \/ ReadEof \/ ReadFails
           \/ PollReady \/ PollTimeout
  BY <1>0, <1>1 DEF StartReader, CheckStop, ReadData, ReadWouldBlock, ReadEof, ReadFails,
                    PollReady, PollTimeout, Flush, ControlInv
<1>2. CASE AppendChunk
  <2>1. batch < BatchMax => batch' <= BatchMax
    BY <1>0, <1>2 DEF AppendChunk
  <2>2. batch' \in Nat /\ reader' \in {"append", "flush"}
    BY <1>0, <1>2 DEF AppendChunk, Flush
  <2>3. reader' = "append" => batch' < BatchMax
    BY <1>0, <1>2, <2>2 DEF AppendChunk, Flush
  <2> QED BY <1>0, <1>2, <2>1, <2>2, <2>3 DEF AppendChunk
<1>3. CASE AppendDone
  BY <1>0, <1>3 DEF AppendDone
<1>4. CASE StartFlush
  <2>1. CASE batch = 0
    <3>1. reader' \in {"append", "top", "close"} /\ ret' = ret
      BY <1>0, <1>4, <2>1, FlushReturning DEF StartFlush
    <3> QED BY <1>0, <1>4, <2>1, <3>1 DEF StartFlush
  <2>2. CASE batch # 0
    BY <1>0, <1>4, <2>2 DEF StartFlush
  <2> QED BY <2>1, <2>2
<1>5. CASE WaitForInflightCapacity
  <2>1. CASE stop
    BY <1>0, <1>5, <2>1, FlushReturning DEF WaitForInflightCapacity
  <2>2. CASE ~ stop
    BY <1>0, <1>5, <2>2 DEF WaitForInflightCapacity
  <2> QED BY <2>1, <2>2
<1>6. CASE ReserveInflight \/ ClosePorts
  BY <1>0, <1>6 DEF ReserveInflight, ClosePorts, ControlInv
<1>7. CASE PostOutput
  <2>1. CASE portOpen
    <3>1. reader = "post" /\ reader' \in {"append", "top", "close"}
      BY <1>0, <1>7, <2>1, FlushReturning DEF PostOutput
    <3>2. posted' = posted + batch /\ batch' = 0
          /\ UNCHANGED <<requireAcks, stop, inflight, acked, received>>
      BY <1>7, <2>1, PostChange
    <3>3. posted' - acked' = posted - acked + batch
      BY <1>0, <3>2
    <3> QED BY <1>0, <3>1, <3>2, <3>3
  <2>2. CASE ~ portOpen
    <3>1. reader' = "close" /\ inflight' = IF requireAcks THEN SaturatingSub(inflight, batch)
                                           ELSE inflight
      BY <1>0, <1>7, <2>2, FlushReturning DEF PostOutput, PostFails
    <3>2. reader = "post" /\ UNCHANGED <<requireAcks, acked, received, posted, stop>>
      BY <1>7, <2>2 DEF PostOutput, PostFails
    <3>3. CASE requireAcks
      <4>1. inflight = posted - acked + batch /\ acked <= posted
        BY <1>0, <3>2, <3>3 DEF StreamInv
      <4>2. inflight' = posted - acked
        BY <1>0, <3>1, <3>3, <4>1, Subtracted
      <4> QED BY <1>0, <3>1, <3>2, <3>3, <4>1, <4>2
    <3>4. CASE ~ requireAcks
      BY <1>0, <3>1, <3>2, <3>4
    <3> QED BY <3>3, <3>4
  <2> QED BY <2>1, <2>2
<1>8. CASE Produce \/ ChildCloses \/ Stop \/ Finalize \/ PortCloses
  BY <1>0, <1>8 DEF Produce, ChildCloses, Stop, Finalize, PortCloses
<1>9. CASE Deliver
  <2>1. received <= received'
    <3>1. Head(port) \in Message
      BY <1>9, Delivered, TypeParts DEF Deliver
    <3> QED BY <1>0, <1>9, <3>1, MessageFields, DeliveredIsPosted
  <2> QED BY <1>0, <1>9, <2>1, DeliveredIsPosted DEF Deliver
<1>10. CASE AckOutput
  <2>1. PICK n \in 1 .. (received - acked) :
          /\ acked' = acked + n
          /\ inflight' = IF requireAcks THEN SaturatingSub(inflight, n) ELSE inflight
    BY <1>10 DEF AckOutput
  <2>2. n \in Nat /\ acked' <= received /\ n <= posted - acked
    BY <1>0, <2>1 DEF StreamInv
  <2>3. requireAcks => n <= inflight
    BY <1>0, <2>2
  <2>4. inflight' = IF requireAcks THEN inflight - n ELSE inflight
    BY <1>0, <2>1, <2>2, <2>3, Subtracted
  <2> QED BY <1>0, <1>10, <2>1, <2>2, <2>3, <2>4 DEF AckOutput
<1>11. CASE UNCHANGED vars
  BY <1>11 DEF vars
<1> QED BY <1>1, <1>2, <1>3, <1>4, <1>5, <1>6, <1>7, <1>8, <1>9, <1>10, <1>11 DEF Next

\* The reader is done once it has posted CLOSED, and stays so.
LEMMA DoneChange ==
  ASSUME [Next]_vars, ~ ClosePorts
  PROVE  reader' = "done" <=> reader = "done"
<1> USE DEF readerVars, bufferVars, Flush
<1>1. CASE StartReader \/ CheckStop \/ ReadData \/ ReadWouldBlock \/ ReadEof \/ ReadFails
           \/ PollReady \/ PollTimeout
  BY <1>1 DEF StartReader, CheckStop, ReadData, ReadWouldBlock, ReadEof, ReadFails, PollReady,
              PollTimeout
<1>2. CASE AppendChunk \/ AppendDone \/ StartFlush \/ WaitForInflightCapacity
           \/ ReserveInflight \/ PostOutput
  BY <1>2 DEF AppendChunk, AppendDone, StartFlush, WaitForInflightCapacity, ReserveInflight,
              PostOutput, PostFails, FlushReturns
<1>3. CASE Produce \/ ChildCloses \/ Stop \/ Deliver \/ AckOutput \/ Finalize \/ PortCloses
  BY <1>3 DEF Produce, ChildCloses, Stop, Deliver, AckOutput, Finalize, PortCloses
<1>4. CASE UNCHANGED vars
  BY <1>4 DEF vars
<1> QED BY <1>1, <1>2, <1>3, <1>4 DEF Next

LEMMA PortStep ==
  TypeOK /\ ControlInv /\ StreamInv /\ PortInv /\ [Next]_vars => PortInv'
<1> SUFFICES ASSUME TypeOK, ControlInv, StreamInv, PortInv, [Next]_vars PROVE PortInv'
  OBVIOUS
<1>0. MessagesOK /\ CountsOK
  BY TypeParts
<1>t. \A i \in 1 .. Len(port) :
        port[i] \in Message /\ port[i].start \in Nat /\ port[i].len \in Nat
  BY <1>0, ElementOfSeq, MessageFields DEF MessagesOK
<1>1. CASE PostOutput /\ portOpen
  <2>1. /\ Len(port) \in Nat /\ Len(port') = Len(port) + 1
        /\ port'[Len(port')] = Posted
        /\ \A i \in 1 .. Len(port) : port'[i] = port[i]
    BY <1>0, <1>1, PostChange, Appended
  <2>2. reader = "post" /\ reader' # "done" /\ batch > 0 /\ portOpen' /\ received' = received
    BY <1>1, DoneChange DEF PostOutput, ControlInv, receiver, ClosePorts
  <2>3. Posted.kind = "output" /\ Posted.start = posted /\ Posted.len = batch
        /\ posted' = posted + batch
    BY <1>1, PostChange
  <2>4. \A i \in 1 .. Len(port) :
          /\ port[i].kind = "output" /\ port[i].len > 0
          /\ received <= port[i].start /\ port[i].start + port[i].len <= posted
    BY <2>2, <1>0 DEF PortInv
  <2>5. \A i \in 1 .. Len(port') :
          /\ port'[i].kind = "output" /\ port'[i].len > 0
          /\ received' <= port'[i].start /\ port'[i].start + port'[i].len <= posted'
    <3> TAKE i \in 1 .. Len(port')
    <3>1. CASE i = Len(port')
      BY <1>0, <2>1, <2>2, <2>3, <3>1 DEF StreamInv, CountsOK
    <3>2. CASE i # Len(port')
      <4>1. i \in 1 .. Len(port) /\ port'[i] = port[i]
        BY <2>1, <3>2
      <4>2. /\ port[i].kind = "output" /\ port[i].len > 0 /\ received <= port[i].start
            /\ port[i].start + port[i].len <= posted
        BY <2>4, <4>1
      <4>3. port[i].start \in Nat /\ port[i].len \in Nat /\ posted \in Nat /\ batch \in Nat
        BY <1>0, <1>t, <4>1 DEF CountsOK
      <4>4. port[i].start + port[i].len <= posted'
        BY <2>3, <4>2, <4>3
      <4> QED BY <2>2, <4>1, <4>2, <4>4
    <3> QED BY <3>1, <3>2
  <2>6. \A i, j \in 1 .. Len(port') :
          i < j => port'[i].start + port'[i].len <= port'[j].start
    <3> SUFFICES ASSUME NEW i \in 1 .. Len(port'), NEW j \in 1 .. Len(port'), i < j
                 PROVE  port'[i].start + port'[i].len <= port'[j].start
      OBVIOUS
    <3>1. i \in 1 .. Len(port) /\ port'[i] = port[i]
      BY <2>1
    <3>2. CASE j = Len(port')
      BY <2>1, <2>3, <2>4, <3>1, <3>2
    <3>3. CASE j # Len(port')
      <4>1. j \in 1 .. Len(port) /\ port'[j] = port[j]
        BY <2>1, <3>3
      <4> QED BY <2>4, <3>1, <4>1 DEF PortInv
    <3> QED BY <3>2, <3>3
  <2> QED BY <2>2, <2>5, <2>6 DEF PortInv
<1>2. CASE ClosePorts /\ portOpen
  <2>1. /\ Len(port) \in Nat /\ Len(port') = Len(port) + 1
        /\ port'[Len(port')] = Closed
        /\ \A i \in 1 .. Len(port) : port'[i] = port[i]
    BY <1>0, <1>2, ClosedMessage, Appended DEF ClosePorts
  <2>2. reader = "close" /\ reader' = "done" /\ UNCHANGED <<portOpen, received, posted>>
    BY <1>2 DEF ClosePorts, receiver
  <2>3. \A i \in 1 .. Len(port) :
          /\ port[i].kind = "output" /\ port[i].len > 0
          /\ received <= port[i].start /\ port[i].start + port[i].len <= posted
    BY <2>2 DEF PortInv
  <2>4. \A i \in 1 .. Len(port') :
          \/ /\ port'[i].kind = "output" /\ port'[i].len > 0
             /\ received' <= port'[i].start /\ port'[i].start + port'[i].len <= posted'
          \/ port'[i] = Closed /\ i = Len(port') /\ reader' = "done"
    <3> TAKE i \in 1 .. Len(port')
    <3>1. CASE i = Len(port')
      BY <2>1, <2>2, <3>1
    <3>2. CASE i # Len(port')
      <4>1. i \in 1 .. Len(port) /\ port'[i] = port[i]
        BY <2>1, <3>2
      <4> QED BY <2>2, <2>3, <4>1
    <3> QED BY <3>1, <3>2
  <2>5. \A i, j \in 1 .. Len(port') :
          i < j /\ port'[j].kind = "output" => port'[i].start + port'[i].len <= port'[j].start
    <3> SUFFICES ASSUME NEW i \in 1 .. Len(port'), NEW j \in 1 .. Len(port'), i < j,
                        port'[j].kind = "output"
                 PROVE  port'[i].start + port'[i].len <= port'[j].start
      OBVIOUS
    <3>1. i \in 1 .. Len(port) /\ port'[i] = port[i]
      BY <2>1
    <3>2. j # Len(port')
      BY <2>1, ClosedMessage
    <3>3. j \in 1 .. Len(port) /\ port'[j] = port[j]
      BY <2>1, <3>2
    <3> QED BY <3>1, <3>3 DEF PortInv
  <2>6. portOpen' /\ port'[Len(port')] = Closed
    BY <1>2, <2>1, <2>2
  <2> QED BY <2>4, <2>5, <2>6 DEF PortInv
<1>3. CASE Deliver
  <2>1. /\ Len(port) \in Nat \ {0} /\ Len(port') = Len(port) - 1
        /\ Head(port) = port[1] /\ port' \in Seq(Message)
        /\ \A i \in 1 .. Len(port') : port'[i] = port[i + 1]
    BY <1>0, <1>3, Delivered DEF Deliver
  <2>2. UNCHANGED <<portOpen, posted, reader>> /\ received' = received + port[1].len
        /\ port # <<>>
    BY <1>3, <2>1 DEF Deliver, readerVars
  <2>3. \A i \in 1 .. Len(port') :
          \/ /\ port'[i].kind = "output" /\ port'[i].len > 0
             /\ received' <= port'[i].start /\ port'[i].start + port'[i].len <= posted'
          \/ port'[i] = Closed /\ i = Len(port') /\ reader' = "done"
    <3> TAKE i \in 1 .. Len(port')
    <3>1. /\ port'[i] = port[i + 1] /\ i + 1 \in 1 .. Len(port) /\ 1 \in 1 .. Len(port)
          /\ 1 < i + 1 /\ 1 # Len(port)
      BY <2>1
    <3>2. /\ received <= port[1].start
      BY <3>1 DEF PortInv
    <3>3. port[i + 1].kind = "output" => received + port[1].len <= port[i + 1].start
      <4> SUFFICES ASSUME port[i + 1].kind = "output"
                   PROVE  received + port[1].len <= port[i + 1].start
        OBVIOUS
      <4>1. port[1].start + port[1].len <= port[i + 1].start
        BY <3>1 DEF PortInv
      <4>2. /\ received \in Nat /\ port[1].start \in Nat /\ port[1].len \in Nat
            /\ port[i + 1].start \in Nat
        BY <1>0, <1>t, <3>1 DEF CountsOK
      <4> QED BY <3>2, <4>1, <4>2
    <3> QED BY <2>1, <2>2, <3>1, <3>3 DEF PortInv
  <2>4. \A i, j \in 1 .. Len(port') :
          i < j /\ port'[j].kind = "output" => port'[i].start + port'[i].len <= port'[j].start
    <3> SUFFICES ASSUME NEW i \in 1 .. Len(port'), NEW j \in 1 .. Len(port'), i < j,
                        port'[j].kind = "output"
                 PROVE  port'[i].start + port'[i].len <= port'[j].start
      OBVIOUS
    <3>1. /\ i + 1 \in 1 .. Len(port) /\ j + 1 \in 1 .. Len(port) /\ i + 1 < j + 1
          /\ port'[i] = port[i + 1] /\ port'[j] = port[j + 1]
      BY <2>1
    <3> QED BY <3>1 DEF PortInv
  <2>5. port' # <<>> => Len(port') \in 1 .. Len(port') /\ port'[Len(port')] = port[Len(port)]
    BY <2>1, EmptySeq
  <2>6. portOpen'
    BY <2>2 DEF PortInv
  <2> QED BY <2>2, <2>3, <2>4, <2>5, <2>6 DEF PortInv
<1>4. CASE PortCloses
  BY <1>4, EmptySeq DEF PortCloses, PortInv
<1>5. CASE UNCHANGED <<port, portOpen, posted, received>> /\ ~ ClosePorts
  BY <1>5, DoneChange DEF PortInv
<1>6. CASE ClosePorts /\ ~ portOpen
  BY <1>6, EmptySeq DEF ClosePorts, PortInv, receiver
<1> QED BY <1>1, <1>2, <1>3, <1>4, <1>5, <1>6, PortChange
-----------------------------------------------------------------------------
\* A message of the port is output yet to be delivered, or CLOSED, which is empty.
LEMMA QueuedMessage ==
  ASSUME TypeOK, PortInv, NEW i \in 1 .. Len(port)
  PROVE  /\ port[i] \in Message /\ port[i].start \in Nat /\ port[i].len \in Nat
         /\ \/ /\ port[i].kind = "output" /\ port[i].len > 0
               /\ received <= port[i].start /\ port[i].start + port[i].len <= posted
            \/ port[i].kind = "closed" /\ port[i].len = 0 /\ ~ port[i].external
BY TypeParts, ElementOfSeq, MessageFields, ClosedMessage DEF PortInv, MessagesOK

LEMMA QueuedRange ==
  TypeOK /\ PortInv => \A b \in QueuedBytes : b \in Nat /\ received < b /\ b <= posted
<1> SUFFICES ASSUME TypeOK, PortInv, NEW b \in QueuedBytes
             PROVE  b \in Nat /\ received < b /\ b <= posted
  OBVIOUS
<1>1. PICK i \in 1 .. Len(port) : b \in Bytes(port[i])
  BY DEF QueuedBytes
<1>2. received \in Nat /\ posted \in Nat
  BY DEF TypeOK
<1> QED BY <1>1, <1>2, QueuedMessage DEF Bytes

\* A posted message adds its bytes to the port.
LEMMA AppendedBytes ==
  ASSUME MessagesOK, NEW m \in Message, port' = Append(port, m)
  PROVE  QueuedBytes' = QueuedBytes \cup Bytes(m)
<1>1. /\ Len(port) \in Nat /\ Len(port') = Len(port) + 1 /\ port'[Len(port')] = m
      /\ \A i \in 1 .. Len(port) : port'[i] = port[i]
  BY Appended
<1>2. 1 .. Len(port') = 1 .. Len(port) \cup {Len(port')}
  BY <1>1
<1>3. QueuedBytes' = UNION {Bytes(port'[i]) : i \in 1 .. Len(port')}
  BY DEF QueuedBytes, Bytes
<1> QED BY <1>1, <1>2, <1>3 DEF QueuedBytes

\* The port holds the next bytes first.
LEMMA DeliveredBytes ==
  ASSUME TypeOK, StreamInv, PortInv, PortInv', QueuedInv, TypeOK', Deliver
  PROVE  /\ portOpen /\ Head(port) = port[1] /\ port[1] \in Message
         /\ port[1].kind = "output" => port[1].start = received
         /\ received' = received + port[1].len
         /\ QueuedBytes' = QueuedBytes \ (received + 1 .. received')
         /\ received + 1 .. received' \subseteq QueuedBytes
<1>1. MessagesOK /\ received \in Nat /\ posted \in Nat
  BY TypeParts DEF TypeOK
<1>2. /\ Len(port) \in Nat \ {0} /\ Len(port') = Len(port) - 1
      /\ Head(port) = port[1] /\ port[1] \in Message /\ 1 \in 1 .. Len(port)
      /\ \A i \in 1 .. Len(port') : port'[i] = port[i + 1]
  BY <1>1, Delivered DEF Deliver
<1>3. received' = received + port[1].len /\ portOpen' = portOpen /\ posted' = posted
  BY <1>2 DEF Deliver
<1>4. portOpen
  BY DEF Deliver, PortInv
<1>5. QueuedBytes = Bytes(port[1]) \cup QueuedBytes'
  <2>1. \A i \in 1 .. Len(port) : i = 1 \/ (i - 1 \in 1 .. Len(port') /\ port'[i - 1] = port[i])
    BY <1>2
  <2>2. \A i \in 1 .. Len(port') : i + 1 \in 1 .. Len(port) /\ port'[i] = port[i + 1]
    BY <1>2
  <2>3. QueuedBytes' = UNION {Bytes(port'[i]) : i \in 1 .. Len(port')}
    BY DEF QueuedBytes, Bytes
  <2>4. ASSUME NEW b \in QueuedBytes PROVE b \in Bytes(port[1]) \cup QueuedBytes'
    <3>1. PICK i \in 1 .. Len(port) : b \in Bytes(port[i])
      BY DEF QueuedBytes
    <3> QED BY <2>1, <2>3, <3>1
  <2>5. ASSUME NEW b \in QueuedBytes' PROVE b \in QueuedBytes
    <3>1. PICK i \in 1 .. Len(port') : b \in Bytes(port'[i])
      BY <2>3
    <3> QED BY <2>2, <3>1 DEF QueuedBytes
  <2>6. Bytes(port[1]) \subseteq QueuedBytes
    BY <1>2 DEF QueuedBytes
  <2> QED BY <2>4, <2>5, <2>6
<1>6. \A b \in QueuedBytes' : b \in Nat /\ received' < b
  <2>1. (TypeOK /\ PortInv => \A b \in QueuedBytes : b \in Nat /\ received < b /\ b <= posted)'
    BY QueuedRange, PTL
  <2> QED BY <2>1
<1>7. QueuedBytes = received + 1 .. posted
  BY <1>4 DEF QueuedInv
<1>8. CASE port[1].kind = "output"
  <2>1. /\ port[1].start \in Nat /\ port[1].len \in Nat /\ port[1].len > 0
        /\ received <= port[1].start /\ port[1].start + port[1].len <= posted
    BY <1>2, <1>8, QueuedMessage
  <2>2. received + 1 \in Bytes(port[1])
    <3>1. received + 1 \in QueuedBytes
      BY <1>1, <1>7, <2>1
    <3>2. received + 1 \notin QueuedBytes'
      BY <1>1, <1>3, <1>6, <2>1
    <3> QED BY <1>5, <3>1, <3>2
  <2>3. port[1].start = received
    BY <1>1, <2>1, <2>2 DEF Bytes
  <2>4. Bytes(port[1]) = received + 1 .. received'
    BY <1>3, <2>3 DEF Bytes
  <2>5. \A b \in received + 1 .. received' : b \notin QueuedBytes'
    BY <1>1, <1>3, <1>6, <2>1
  <2> QED BY <1>2, <1>3, <1>4, <1>5, <2>3, <2>4, <2>5
<1>9. CASE port[1].kind # "output"
  <2>1. port[1].len = 0 /\ port[1].start \in Nat
    BY <1>2, <1>9, QueuedMessage
  <2>2. received + 1 .. received' = {} /\ Bytes(port[1]) = {}
    BY <1>1, <1>3, <2>1 DEF Bytes
  <2> QED BY <1>2, <1>3, <1>4, <1>5, <1>9, <2>2
<1> QED BY <1>8, <1>9

\* CLOSED adds no byte to the port.
LEMMA ClosedBytes ==
  ASSUME MessagesOK, ClosePorts, portOpen
  PROVE  QueuedBytes' = QueuedBytes
<1>1. Bytes(Closed) = {}
  BY ClosedMessage DEF Bytes
<1>2. QueuedBytes' = QueuedBytes \cup Bytes(Closed)
  BY ClosedMessage, AppendedBytes DEF ClosePorts
<1> QED BY <1>1, <1>2

LEMMA QueuedStep ==
  TypeOK /\ ControlInv /\ StreamInv /\ PortInv /\ QueuedInv /\ TypeOK' /\ PortInv' /\ [Next]_vars
    => QueuedInv'
<1> SUFFICES ASSUME TypeOK, ControlInv, StreamInv, PortInv, QueuedInv, TypeOK', PortInv',
                    [Next]_vars
             PROVE  QueuedInv'
  OBVIOUS
<1>0. MessagesOK /\ received \in Nat /\ posted \in Nat /\ batch \in Nat
  BY TypeParts DEF TypeOK
<1>1. CASE PostOutput /\ portOpen
  <2>1. QueuedBytes' = QueuedBytes \cup Bytes(Posted)
    BY <1>0, <1>1, PostChange, AppendedBytes
  <2>2. Bytes(Posted) = posted + 1 .. posted + batch
    BY <1>1, PostChange DEF Bytes
  <2>3. posted' = posted + batch /\ received' = received /\ portOpen' = portOpen
    BY <1>1, PostChange DEF receiver
  <2>4. received <= posted /\ QueuedBytes = received + 1 .. posted
    BY <1>1 DEF StreamInv, QueuedInv
  <2>5. (received + 1 .. posted) \cup (posted + 1 .. posted + batch)
          = received + 1 .. posted + batch
    BY <1>0, <2>4
  <2> QED BY <2>1, <2>2, <2>3, <2>4, <2>5 DEF QueuedInv
<1>2. CASE ClosePorts /\ portOpen
  BY <1>0, <1>2, ClosedBytes DEF QueuedInv, ClosePorts, receiver
<1>3. CASE Deliver
  <2>1. /\ QueuedBytes' = QueuedBytes \ (received + 1 .. received')
        /\ QueuedBytes = received + 1 .. posted
        /\ received' = received + port[1].len /\ port[1].len \in Nat
    BY <1>3, DeliveredBytes, MessageFields DEF QueuedInv
  <2>2. posted' = posted
    BY <1>3 DEF Deliver
  <2>3. (received + 1 .. posted) \ (received + 1 .. received') = received' + 1 .. posted
    BY <1>0, <2>1
  <2> QED BY <2>1, <2>2, <2>3 DEF QueuedInv
<1>4. CASE PortCloses
  BY <1>4 DEF PortCloses, QueuedInv
<1>5. CASE UNCHANGED <<port, portOpen, posted, received>>
  BY <1>5 DEF QueuedInv, QueuedBytes, Bytes
<1> QED BY <1>1, <1>2, <1>3, <1>4, <1>5, PortChange
-----------------------------------------------------------------------------
(***************************************************************************)
(* External buffers.                                                       *)
(***************************************************************************)

\* The messages with an external buffer alive.
Alive == held \cup QueuedExternal

\* An external buffer still in the port is output, after all that was delivered.
LEMMA QueuedExternalMessage ==
  ASSUME TypeOK, PortInv, NEW m \in QueuedExternal
  PROVE  /\ m \in Message /\ m.kind = "output" /\ m.external
         /\ m.start \in Nat /\ m.len \in Nat /\ m.len > 0
         /\ received <= m.start /\ m.start + m.len <= posted
         /\ portOpen
<1>1. PICK i \in 1 .. Len(port) : m = port[i] /\ port[i].external
  BY DEF QueuedExternal
<1>2. portOpen
  BY <1>1, EmptySeq DEF PortInv
<1> QED BY <1>1, <1>2, QueuedMessage

LEMMA AliveMessage ==
  ASSUME TypeOK, StreamInv, PortInv, HeldInv, NEW m \in Alive
  PROVE  /\ m \in Message /\ m.kind = "output" /\ m.external
         /\ m.start \in Nat /\ m.len \in Nat /\ m.len > 0
         /\ m.start + m.len <= posted
<1>1. CASE m \in held
  <2>1. m \in Message /\ m.start \in Nat /\ m.len \in Nat
    BY <1>1, MessageFields DEF TypeOK
  <2>2. received \in Nat /\ posted \in Nat /\ received <= posted
    BY DEF TypeOK, StreamInv
  <2> QED BY <1>1, <2>1, <2>2 DEF HeldInv
<1>2. CASE m \in QueuedExternal
  BY <1>2, QueuedExternalMessage
<1> QED BY <1>1, <1>2 DEF Alive

\* Buffers alive hold different bytes.
LEMMA AliveApart ==
  ASSUME TypeOK, StreamInv, PortInv, HeldInv, NEW m \in Alive, NEW n \in Alive, m # n
  PROVE  m.start + m.len <= n.start \/ n.start + n.len <= m.start
<1>1. CASE m \in held /\ n \in held
  BY <1>1 DEF HeldInv
<1>2. ASSUME NEW x \in held, NEW y \in QueuedExternal PROVE x.start + x.len <= y.start
  <2>1. portOpen /\ received <= y.start /\ y.start \in Nat
    BY QueuedExternalMessage
  <2>2. x.start + x.len <= received
    BY <2>1 DEF HeldInv
  <2>3. x.start \in Nat /\ x.len \in Nat /\ received \in Nat
    BY MessageFields DEF TypeOK
  <2> QED BY <2>1, <2>2, <2>3
<1>3. CASE m \in QueuedExternal /\ n \in QueuedExternal
  <2>1. PICK i \in 1 .. Len(port) : m = port[i]
    BY <1>3 DEF QueuedExternal
  <2>2. PICK j \in 1 .. Len(port) : n = port[j]
    BY <1>3 DEF QueuedExternal
  <2>3. i < j \/ j < i
    BY <2>1, <2>2, TypeParts DEF MessagesOK
  <2> QED BY <1>3, <2>1, <2>2, <2>3, QueuedExternalMessage DEF PortInv
<1> QED BY <1>1, <1>2, <1>3 DEF Alive

\* What a step does to the buffers the receiver holds.
LEMMA HeldChange ==
  ASSUME [Next]_vars
  PROVE  held' = held \/ Deliver \/ PortCloses \/ Finalize
<1> USE DEF receiver, bufferVars, readerVars
<1>1. CASE StartReader \/ CheckStop \/ ReadData \/ ReadWouldBlock \/ ReadEof \/ ReadFails
           \/ PollReady \/ PollTimeout
  BY <1>1 DEF StartReader, CheckStop, ReadData, ReadWouldBlock, ReadEof, ReadFails, PollReady,
              PollTimeout
<1>2. CASE AppendChunk \/ AppendDone \/ StartFlush \/ WaitForInflightCapacity
           \/ ReserveInflight \/ PostOutput \/ ClosePorts
  BY <1>2 DEF AppendChunk, AppendDone, StartFlush, WaitForInflightCapacity, ReserveInflight,
              PostOutput, ClosePorts
<1>3. CASE Produce \/ ChildCloses \/ Stop \/ AckOutput
  BY <1>3 DEF Produce, ChildCloses, Stop, AckOutput
<1>4. CASE UNCHANGED vars
  BY <1>4 DEF vars
<1> QED BY <1>1, <1>2, <1>3, <1>4 DEF Next

\* The step of the receiver or of its collector loses and repeats no buffer.
LEMMA HeldStep ==
  TypeOK /\ StreamInv /\ PortInv /\ QueuedInv /\ HeldInv /\ TypeOK' /\ PortInv' /\ [Next]_vars
    => HeldInv'
<1> SUFFICES ASSUME TypeOK, StreamInv, PortInv, QueuedInv, HeldInv, TypeOK', PortInv',
                    [Next]_vars
             PROVE  HeldInv'
  OBVIOUS
<1>1. ASSUME held' \subseteq Alive, portOpen' = portOpen \/ ~ portOpen', posted' = posted,
             portOpen' => \A m \in held' : m.start + m.len <= received'
      PROVE  HeldInv'
  <2>1. \A m \in held' : m.external /\ m.kind = "output" /\ m.len > 0
                         /\ m.start + m.len <= posted'
    BY <1>1, AliveMessage
  <2>2. \A m, n \in held' :
          m # n => m.start + m.len <= n.start \/ n.start + n.len <= m.start
    BY <1>1, AliveApart
  <2> QED BY <1>1, <2>1, <2>2 DEF HeldInv
<1>2. CASE Deliver
  <2>1. /\ portOpen /\ Head(port) = port[1] /\ port[1] \in Message
        /\ port[1].kind = "output" => port[1].start = received
        /\ received' = received + port[1].len
    BY <1>2, DeliveredBytes
  <2>2. 1 \in 1 .. Len(port) /\ port[1].len \in Nat /\ received \in Nat
    BY <1>2, <2>1, Delivered, TypeParts, MessageFields DEF Deliver, TypeOK
  <2>3. held' = IF port[1].external THEN held \cup {port[1]} ELSE held
    BY <1>2, <2>1 DEF Deliver
  <2>4. held' \subseteq Alive
    BY <2>2, <2>3 DEF Alive, QueuedExternal
  <2>5. \A m \in held : m.start \in Nat /\ m.len \in Nat /\ m.start + m.len <= received
    BY <2>1, MessageFields DEF HeldInv, TypeOK
  <2>6. port[1].external => port[1].start + port[1].len = received'
    BY <2>1, <2>2, QueuedMessage
  <2>7. \A m \in held' : m.start + m.len <= received'
    BY <2>1, <2>2, <2>3, <2>5, <2>6
  <2>8. portOpen' = portOpen /\ posted' = posted
    BY <1>2 DEF Deliver
  <2> QED BY <1>1, <2>4, <2>7, <2>8
<1>3. CASE PortCloses
  BY <1>1, <1>3 DEF PortCloses, Alive
<1>4. CASE Finalize
  BY <1>1, <1>4 DEF Finalize, Alive, HeldInv
<1>5. CASE held' = held /\ PostOutput /\ portOpen
  BY <1>5, PostChange DEF HeldInv, receiver
<1>6. CASE held' = held /\ ClosePorts /\ portOpen
  BY <1>6 DEF HeldInv, ClosePorts, receiver
<1>7. CASE held' = held /\ UNCHANGED <<port, portOpen, posted, received>>
  BY <1>7 DEF HeldInv
<1> QED BY <1>2, <1>3, <1>4, <1>5, <1>6, <1>7, HeldChange, PortChange

\* The bytes in buffers alive are finitely many, and those of a new batch are none
\* of them.
LEMMA ExternalRange ==
  ASSUME TypeOK, StreamInv, PortInv, HeldInv
  PROVE  ExternalBytes \subseteq 1 .. posted /\ IsFiniteSet(ExternalBytes)
<1>1. posted \in Nat
  BY DEF TypeOK
<1>2. ASSUME NEW b \in ExternalBytes PROVE b \in 1 .. posted
  <2>1. PICK m \in Alive : b \in Bytes(m)
    BY DEF ExternalBytes, Alive
  <2> QED BY <1>1, <2>1, AliveMessage DEF Bytes
<1>3. IsFiniteSet(1 .. posted)
  BY <1>1, FS_Interval
<1> QED BY <1>2, <1>3, FS_Subset

LEMMA BytesCount ==
  ASSUME NEW m, m.start \in Nat, m.len \in Nat
  PROVE  IsFiniteSet(Bytes(m)) /\ Cardinality(Bytes(m)) = m.len
<1> DEFINE a == m.start + 1
           b == m.start + m.len
<1>1. a \in Int /\ b \in Int
  OBVIOUS
<1>2. IsFiniteSet(a .. b) /\ Cardinality(a .. b) = IF a > b THEN 0 ELSE b - a + 1
  BY <1>1, FS_Interval
<1> QED BY <1>2 DEF Bytes
\* What a step does to the counter of external bytes.
LEMMA CounterChange ==
  ASSUME [Next]_vars
  PROVE  extBytes' = extBytes \/ (PostOutput /\ portOpen) \/ Finalize
<1> USE DEF bufferVars
<1>1. CASE StartReader \/ CheckStop \/ ReadData \/ ReadWouldBlock \/ ReadEof \/ ReadFails
           \/ PollReady \/ PollTimeout
  BY <1>1 DEF StartReader, CheckStop, ReadData, ReadWouldBlock, ReadEof, ReadFails, PollReady,
              PollTimeout
<1>2. CASE AppendChunk \/ AppendDone \/ StartFlush \/ WaitForInflightCapacity
           \/ ReserveInflight \/ PostOutput \/ ClosePorts
  BY <1>2 DEF AppendChunk, AppendDone, StartFlush, WaitForInflightCapacity, ReserveInflight,
              PostOutput, PostFails, ClosePorts
<1>3. CASE Produce \/ ChildCloses \/ Stop \/ Deliver \/ AckOutput \/ PortCloses
  BY <1>3 DEF Produce, ChildCloses, Stop, Deliver, AckOutput, PortCloses
<1>4. CASE UNCHANGED vars
  BY <1>4 DEF vars
<1> QED BY <1>1, <1>2, <1>3, <1>4 DEF Next

\* Delivering a message, closing the port and posting CLOSED only move buffers.
LEMMA AliveMoves ==
  ASSUME TypeOK, PortInv, [Next]_vars, ~ (PostOutput /\ portOpen), ~ Finalize
  PROVE  Alive' = Alive
<1>0. MessagesOK
  BY TypeParts
<1>q. \A m : m \in QueuedExternal' <=> \E i \in 1 .. Len(port') : m = port'[i] /\ port'[i].external
  BY DEF QueuedExternal
<1>1. CASE Deliver
  <2>1. /\ Len(port) \in Nat \ {0} /\ Len(port') = Len(port) - 1 /\ Head(port) = port[1]
        /\ \A i \in 1 .. Len(port') : port'[i] = port[i + 1]
    BY <1>0, <1>1, Delivered DEF Deliver
  <2>2. held' = held \cup (IF port[1].external THEN {port[1]} ELSE {})
    BY <1>1, <2>1 DEF Deliver
  <2>3. \A i \in 1 .. Len(port) : i = 1 \/ (i - 1 \in 1 .. Len(port') /\ port'[i - 1] = port[i])
    BY <2>1
  <2>4. \A i \in 1 .. Len(port') : i + 1 \in 1 .. Len(port) /\ port'[i] = port[i + 1]
    BY <2>1
  <2>5. 1 \in 1 .. Len(port)
    BY <2>1
  <2>6. ASSUME NEW m \in QueuedExternal
        PROVE  m \in QueuedExternal' \/ (m = port[1] /\ port[1].external)
    <3>1. PICK i \in 1 .. Len(port) : m = port[i] /\ port[i].external
      BY DEF QueuedExternal
    <3>2. CASE i = 1
      BY <3>1, <3>2
    <3>3. CASE i # 1
      <4>1. i - 1 \in 1 .. Len(port') /\ port'[i - 1] = port[i]
        BY <2>3, <3>3
      <4> QED BY <1>q, <3>1, <4>1
    <3> QED BY <3>2, <3>3
  <2>7. QueuedExternal' \subseteq QueuedExternal
    BY <1>q, <2>4 DEF QueuedExternal
  <2>8. port[1].external => port[1] \in QueuedExternal
    BY <2>5 DEF QueuedExternal
  <2> QED BY <2>2, <2>6, <2>7, <2>8 DEF Alive
<1>2. CASE PortCloses
  <2>1. QueuedExternal' = {}
    BY <1>q, <1>2, EmptySeq DEF PortCloses
  <2> QED BY <1>2, <2>1 DEF PortCloses, Alive
<1>3. CASE held' = held /\ ClosePorts /\ portOpen
  <2>1. /\ Len(port) \in Nat /\ Len(port') = Len(port) + 1
        /\ ~ port'[Len(port')].external
        /\ \A i \in 1 .. Len(port) : port'[i] = port[i]
    BY <1>0, <1>3, ClosedMessage, Appended DEF ClosePorts
  <2>2. {j \in 1 .. Len(port') : port'[j].external} = {j \in 1 .. Len(port) : port[j].external}
    BY <2>1
  <2>3. QueuedExternal' = QueuedExternal
    BY <1>q, <2>1, <2>2 DEF QueuedExternal
  <2> QED BY <1>3, <2>3 DEF Alive
<1>4. CASE held' = held /\ UNCHANGED <<port, portOpen, posted, received>>
  BY <1>4 DEF Alive, QueuedExternal
<1> QED BY <1>1, <1>2, <1>3, <1>4, HeldChange, PortChange

\* The counter is the bytes in external buffers, whoever holds them.
LEMMA ExternalStep ==
  TypeOK /\ StreamInv /\ PortInv /\ HeldInv /\ ExternalAccounted /\ [Next]_vars
    => ExternalAccounted' /\ extBytes' \in Nat
<1> SUFFICES ASSUME TypeOK, StreamInv, PortInv, HeldInv, ExternalAccounted, [Next]_vars
             PROVE  ExternalAccounted' /\ extBytes' \in Nat
  OBVIOUS
<1>0. extBytes \in Nat /\ batch \in Nat /\ posted \in Nat /\ MessagesOK
  BY TypeParts DEF TypeOK
<1>a. ExternalBytes = UNION {Bytes(m) : m \in Alive}
  BY DEF ExternalBytes, Alive
<1>b. ExternalBytes' = UNION {Bytes(m) : m \in Alive'}
  BY DEF ExternalBytes, Alive, Bytes
<1>c. /\ ExternalBytes \subseteq 1 .. posted /\ IsFiniteSet(ExternalBytes)
      /\ Cardinality(ExternalBytes) = extBytes
  BY ExternalRange DEF ExternalAccounted
<1>1. CASE PostOutput /\ portOpen
  <2>1. /\ port' = Append(port, Posted) /\ Posted \in Message /\ held' = held
        /\ Posted.start = posted /\ Posted.len = batch
    BY <1>1, PostChange DEF receiver
  <2>2. Posted.external <=> useExternal /\ FitsExternal(batch)
    BY DEF Posted
  <2>3. extBytes' = extBytes + IF useExternal /\ FitsExternal(batch) THEN batch ELSE 0
    BY <1>1 DEF PostOutput
  <2>4. QueuedExternal' = QueuedExternal \cup (IF Posted.external THEN {Posted} ELSE {})
    <3>1. /\ Len(port) \in Nat /\ Len(port') = Len(port) + 1
          /\ port'[Len(port')] = Posted
          /\ \A i \in 1 .. Len(port) : port'[i] = port[i]
      BY <1>0, <2>1, Appended
    <3>2. QueuedExternal' = {port'[i] : i \in {j \in 1 .. Len(port') : port'[j].external}}
      BY DEF QueuedExternal
    <3>3. {j \in 1 .. Len(port') : port'[j].external}
            = {j \in 1 .. Len(port) : port[j].external}
                \cup (IF Posted.external THEN {Len(port')} ELSE {})
      BY <3>1
    <3> HIDE DEF Posted
    <3> QED BY <3>1, <3>2, <3>3 DEF QueuedExternal
  <2>5. CASE Posted.external
    <3>1. ExternalBytes' = ExternalBytes \cup Bytes(Posted)
      BY <1>a, <1>b, <2>1, <2>4, <2>5 DEF Alive
    <3>2. IsFiniteSet(Bytes(Posted)) /\ Cardinality(Bytes(Posted)) = batch
      BY <1>0, <2>1, BytesCount
    <3>3. ExternalBytes \cap Bytes(Posted) = {}
      BY <1>0, <1>c, <2>1 DEF Bytes
    <3>4. Cardinality(ExternalBytes') = extBytes + batch
      <4>1. Cardinality({}) = 0
        BY FS_EmptySet
      <4>2. Cardinality(ExternalBytes')
              = Cardinality(ExternalBytes) + Cardinality(Bytes(Posted))
                  - Cardinality(ExternalBytes \cap Bytes(Posted))
        BY <1>c, <3>1, <3>2, FS_Union
      <4> QED BY <1>0, <1>c, <3>2, <3>3, <4>1, <4>2
    <3> QED BY <1>0, <2>2, <2>3, <2>5, <3>4 DEF ExternalAccounted, FitsExternal
  <2>6. CASE ~ Posted.external
    <3>1. ExternalBytes' = ExternalBytes
      BY <1>a, <1>b, <2>1, <2>4, <2>6 DEF Alive
    <3> QED BY <1>0, <2>2, <2>3, <2>6, <3>1 DEF ExternalAccounted
  <2> QED BY <2>5, <2>6
<1>2. CASE Finalize
  <2>1. PICK m \in held : held' = held \ {m} /\ extBytes' = extBytes - m.len
    BY <1>2 DEF Finalize
  <2>2. m \in Alive /\ m.start \in Nat /\ m.len \in Nat /\ m.len > 0
    BY AliveMessage DEF Alive
  <2>3. m \notin QueuedExternal
    <3>1. ASSUME m \in QueuedExternal PROVE FALSE
      <4>1. portOpen /\ received <= m.start
        BY <3>1, QueuedExternalMessage
      <4>2. m.start + m.len <= received /\ received \in Nat
        BY <4>1 DEF HeldInv, TypeOK
      <4> QED BY <2>2, <4>1, <4>2
    <3> QED BY <3>1
  <2>4. Alive' = Alive \ {m}
    BY <1>2, <2>1, <2>3 DEF Finalize, Alive, QueuedExternal
  <2>5. \A n \in Alive : n # m => Bytes(n) \cap Bytes(m) = {}
    <3> SUFFICES ASSUME NEW n \in Alive, n # m PROVE Bytes(n) \cap Bytes(m) = {}
      OBVIOUS
    <3>1. n.start \in Nat /\ n.len \in Nat
      BY AliveMessage
    <3> QED BY <2>2, <3>1, AliveApart DEF Bytes
  <2>6. ExternalBytes' = ExternalBytes \ Bytes(m)
    BY <1>a, <1>b, <2>2, <2>4, <2>5
  <2>7. ExternalBytes \cap Bytes(m) = Bytes(m)
    BY <1>a, <2>2
  <2>8. Cardinality(Bytes(m)) = m.len
    BY <2>2, BytesCount
  <2>9. Cardinality(ExternalBytes') = extBytes - m.len
    BY <1>c, <2>6, <2>7, <2>8, FS_Difference
  <2>10. Bytes(m) \subseteq ExternalBytes
    BY <1>a, <2>2
  <2>11. m.len <= extBytes
    BY <1>c, <2>8, <2>10, FS_Subset
  <2>12. MaxExternal \in Nat
    BY OutputPumpAssumption
  <2> QED BY <1>0, <2>1, <2>2, <2>9, <2>11, <2>12 DEF ExternalAccounted
<1>3. CASE ~ (PostOutput /\ portOpen) /\ ~ Finalize
  BY <1>0, <1>3, <1>a, <1>b, AliveMoves, CounterChange DEF ExternalAccounted
<1> QED BY <1>1, <1>2, <1>3

-----------------------------------------------------------------------------
\* No counter goes below zero.
LEMMA CountsStep ==
  TypeOK /\ StreamInv /\ PortInv /\ HeldInv /\ ExternalAccounted /\ [Next]_vars => CountsOK'
<1> SUFFICES ASSUME TypeOK, StreamInv, PortInv, HeldInv, ExternalAccounted, [Next]_vars
             PROVE  CountsOK'
  OBVIOUS
<1>0. CountsOK /\ extBytes' \in Nat
  BY TypeParts, ExternalStep
<1> USE DEF CountsOK, config, child, receiver, bufferVars, readerVars
<1>1. CASE StartReader \/ CheckStop \/ ReadWouldBlock \/ ReadEof \/ ReadFails \/ PollReady
           \/ PollTimeout
  BY <1>0, <1>1 DEF StartReader, CheckStop, ReadWouldBlock, ReadEof, ReadFails, PollReady,
                    PollTimeout, Flush
<1>2. CASE ReadData
  BY <1>0, <1>2, OutputPumpAssumption DEF ReadData
<1>3. CASE AppendChunk \/ AppendDone
  BY <1>0, <1>3, OutputPumpAssumption DEF AppendChunk, AppendDone, Flush
<1>4. CASE StartFlush \/ WaitForInflightCapacity
  BY <1>0, <1>4 DEF StartFlush, WaitForInflightCapacity, FlushReturns
<1>5. CASE ReserveInflight \/ ClosePorts
  BY <1>0, <1>5 DEF ReserveInflight, ClosePorts
<1>6. CASE PostOutput
  <2>1. CASE portOpen
    BY <1>0, <1>6, <2>1 DEF PostOutput, FlushReturns
  <2>2. CASE ~ portOpen
    <3>1. inflight' \in Nat
      <4>1. inflight' \in {inflight, SaturatingSub(inflight, batch)}
        BY <1>6, <2>2 DEF PostOutput, PostFails
      <4>2. SaturatingSub(inflight, batch) \in Nat
        BY <1>0, Subtracted
      <4> QED BY <1>0, <4>1, <4>2
    <3>2. errors' \in Nat
      BY <1>0, <1>6, <2>2 DEF PostOutput, PostFails, FlushReturns
    <3>3. batch' \in Nat
      BY <1>0, <1>6, <2>2 DEF PostOutput, PostFails
    <3> QED BY <1>0, <1>6, <2>2, <3>1, <3>2, <3>3 DEF PostOutput, PostFails
  <2> QED BY <2>1, <2>2
<1>7. CASE Produce \/ ChildCloses \/ Stop \/ Finalize \/ PortCloses
  BY <1>0, <1>7, OutputPumpAssumption DEF Produce, ChildCloses, Stop, Finalize, PortCloses
<1>8. CASE Deliver
  <2>1. Head(port).len \in Nat
    BY <1>8, TypeParts, Delivered, MessageFields DEF Deliver
  <2> QED BY <1>0, <1>8, <2>1 DEF Deliver
<1>9. CASE AckOutput
  <2>1. PICK n \in 1 .. (received - acked) :
          /\ acked' = acked + n
          /\ inflight' = IF requireAcks THEN SaturatingSub(inflight, n) ELSE inflight
    BY <1>9 DEF AckOutput
  <2>2. n \in Nat
    BY <1>0, <2>1
  <2>3. inflight' \in Nat
    BY <1>0, <2>1, <2>2, Subtracted
  <2> QED BY <1>0, <1>9, <2>1, <2>2, <2>3 DEF AckOutput
<1>10. CASE UNCHANGED vars
  BY <1>0, <1>10 DEF vars
<1> QED BY <1>1, <1>2, <1>3, <1>4, <1>5, <1>6, <1>7, <1>8, <1>9, <1>10 DEF Next

LEMMA InductiveStep == IInv /\ [Next]_vars => IInv'
<1> SUFFICES ASSUME IInv, [Next]_vars PROVE IInv'
  OBVIOUS
<1> USE DEF IInv
<1>1. TypeOK'
  <2>1. FlagsOK' /\ CountsOK' /\ PlacesOK' /\ MessagesOK'
    BY TypeParts, FlagsStep, CountsStep, PlacesStep, MessagesStep
  <2>2. (TypeOK <=> FlagsOK /\ CountsOK /\ PlacesOK /\ MessagesOK)'
    BY TypeParts, PTL
  <2> QED BY <2>1, <2>2
<1>2. ControlInv' /\ StreamInv' /\ CreditInv' /\ InflightExact' /\ PortInv'
  BY ControlStep, StreamStep, CreditStep, PortStep
<1>3. QueuedInv' /\ HeldInv' /\ ExternalAccounted'
  BY <1>1, <1>2, QueuedStep, HeldStep, ExternalStep
<1> QED BY <1>1, <1>2, <1>3
-----------------------------------------------------------------------------
(***************************************************************************)
(* The refinement of BytePipe.                                             *)
(***************************************************************************)

Kept == posted + 1 .. posted + batch + data

Broken == stop \/ ~ portOpen
Ended  == reader = "done" /\ port = <<>>

LEMMA PendingSplit == Pending = QueuedBytes \cup Kept
BY DEF Pending, QueuedBytes, Kept

\* A step that moves no byte out of the reader and the port, breaks nothing and
\* ends nothing is invisible to the pipe.
LEMMA Stutter ==
  ASSUME UNCHANGED <<drained, received>>, Pending' = Pending, Broken' = Broken,
         Broken \/ Ended' = Ended
  PROVE  UNCHANGED Pipe!vars
<1>1. CASE Broken
  BY <1>1 DEF Pipe!vars, Broken
<1>2. CASE ~ Broken
  BY <1>2 DEF Pipe!vars, Broken, Ended
<1> QED BY <1>1, <1>2

LEMMA Breaks ==
  ASSUME UNCHANGED <<drained, received>>, Pending' \subseteq Pending, Broken'
  PROVE  Pipe!Break
BY DEF Pipe!Break, Broken

\* What the steps of the reader that neither read nor post leave alone, and those
\* of the others that neither stop the session nor touch the port.
LEMMA QuietChange ==
  ASSUME TypeOK, [Next]_vars, ~ ReadData, ~ PostOutput, ~ ClosePorts, ~ Stop, ~ Deliver,
         ~ PortCloses
  PROVE  /\ UNCHANGED <<drained, received, posted, port, portOpen, stop>>
         /\ batch' + data' = batch + data
<1>0. CountsOK
  BY TypeParts
<1> USE DEF CountsOK, config, child, receiver, bufferVars, readerVars
<1>1. CASE StartReader \/ CheckStop \/ ReadWouldBlock \/ ReadEof \/ ReadFails \/ PollReady
           \/ PollTimeout
  BY <1>1 DEF StartReader, CheckStop, ReadWouldBlock, ReadEof, ReadFails, PollReady, PollTimeout
<1>2. CASE AppendChunk
  BY <1>0, <1>2, OutputPumpAssumption DEF AppendChunk
<1>3. CASE AppendDone \/ StartFlush \/ WaitForInflightCapacity \/ ReserveInflight
  BY <1>3 DEF AppendDone, StartFlush, WaitForInflightCapacity, ReserveInflight
<1>4. CASE Produce \/ ChildCloses \/ AckOutput \/ Finalize
  BY <1>4 DEF Produce, ChildCloses, AckOutput, Finalize
<1>5. CASE UNCHANGED vars
  BY <1>5 DEF vars
<1> QED BY <1>1, <1>2, <1>3, <1>4, <1>5 DEF Next

\* read(2) is where bytes enter.
LEMMA ReadEnters ==
  ASSUME IInv, ReadData
  PROVE  Pipe!Enter
<1>1. PICK n \in 1 .. ReadSize : drained' = drained + n /\ data' = n
  BY DEF ReadData
<1>2. /\ n \in Nat /\ n > 0 /\ drained \in Nat /\ posted \in Nat /\ batch \in Nat
      /\ data = 0 /\ drained = posted + batch
  BY <1>1, OutputPumpAssumption
     DEF IInv, TypeOK, ControlInv, StreamInv, Closing, ReadData
<1>3. UNCHANGED <<batch, posted, port, received, stop, portOpen>>
      /\ reader = "read" /\ reader' = "append"
  BY DEF ReadData, receiver
<1>4. QueuedBytes' = QueuedBytes
  BY <1>3 DEF QueuedBytes, Bytes
<1>5. Kept = posted + 1 .. drained
  BY <1>2 DEF Kept
<1>6. Kept' = posted + 1 .. drained + n
  BY <1>1, <1>2, <1>3 DEF Kept
<1>7. posted + 1 .. drained + n = (posted + 1 .. drained) \cup (drained + 1 .. drained + n)
  BY <1>2
<1>8. Pending' = QueuedBytes' \cup Kept'
  BY DEF Pending, QueuedBytes, Kept, Bytes
<1>9. Pending' = Pending \cup (drained + 1 .. drained')
  BY <1>1, <1>4, <1>5, <1>6, <1>7, <1>8, PendingSplit
<1>10. drained' > drained
  BY <1>1, <1>2
<1> QED BY <1>3, <1>9, <1>10 DEF Pipe!Enter

\* A post moves the batch into the port; a refused one may drop it, when the
\* receiver has gone away.
LEMMA PostMaps ==
  ASSUME IInv, PostOutput
  PROVE  Pipe!Break \/ UNCHANGED Pipe!vars
<1>0. /\ MessagesOK /\ TypeOK /\ PlacesOK
      /\ posted \in Nat /\ batch \in Nat /\ data \in Nat
  BY TypeParts DEF IInv, TypeOK
<1>1. Pending' = QueuedBytes' \cup Kept'
  BY DEF Pending, QueuedBytes, Kept, Bytes
<1>2. UNCHANGED <<drained, data, received, stop, portOpen>> /\ reader = "post"
  BY DEF PostOutput, receiver
<1>3. CASE portOpen
  <2>1. QueuedBytes' = QueuedBytes \cup Bytes(Posted)
    BY <1>0, <1>3, PostChange, AppendedBytes
  <2>2. Bytes(Posted) = posted + 1 .. posted + batch
    BY <1>0, <1>3, PostChange DEF Bytes
  <2>3. posted' = posted + batch /\ batch' = 0
    BY <1>0, <1>3, PostChange
  <2>4. Kept' = posted + batch + 1 .. posted + batch + data
    BY <1>0, <1>2, <2>3 DEF Kept
  <2>5. Kept = (posted + 1 .. posted + batch)
                 \cup (posted + batch + 1 .. posted + batch + data)
    BY <1>0 DEF Kept
  <2>6. Pending' = Pending
    BY <1>1, <2>1, <2>2, <2>4, <2>5, PendingSplit
  <2>7. reader' # "done"
    BY <1>0, <1>3, FlushReturning DEF PostOutput
  <2>8. Broken' = Broken /\ Ended' = Ended
    BY <1>2, <2>7 DEF Broken, Ended
  <2> QED BY <1>2, <2>6, <2>8, Stutter
<1>4. CASE ~ portOpen
  <2>1. UNCHANGED <<port, posted>> /\ batch' \in {0, batch}
    BY <1>4 DEF PostOutput, PostFails
  <2>2. QueuedBytes' = QueuedBytes
    BY <2>1 DEF QueuedBytes, Bytes
  <2>3. Kept' \subseteq Kept
    <3>1. Kept' = posted + 1 .. posted + batch' + data
      BY <1>2, <2>1 DEF Kept
    <3>2. CASE batch' = 0
      <4>1. posted + batch' + data = posted + data
        BY <1>0, <3>2
      <4>2. posted + 1 .. posted + data \subseteq posted + 1 .. posted + batch + data
        BY <1>0
      <4> QED BY <3>1, <4>1, <4>2 DEF Kept
    <3>3. CASE batch' = batch
      BY <3>1, <3>3 DEF Kept
    <3> QED BY <2>1, <3>2, <3>3
  <2>4. Pending' \subseteq Pending
    BY <1>1, <2>2, <2>3, PendingSplit
  <2> QED BY <1>2, <1>4, <2>4, Breaks DEF Broken
<1> QED BY <1>3, <1>4

\* The receiver gets the next bytes, or CLOSED with nothing left behind it.
LEMMA DeliverMaps ==
  ASSUME IInv, Deliver, TypeOK', PortInv'
  PROVE  Pipe!Deliver \/ Pipe!End \/ UNCHANGED Pipe!vars
<1>1. /\ portOpen /\ Head(port) = port[1] /\ port[1] \in Message
      /\ received' = received + port[1].len
      /\ QueuedBytes' = QueuedBytes \ (received + 1 .. received')
      /\ received + 1 .. received' \subseteq QueuedBytes
  BY DeliveredBytes DEF IInv
<1>2. /\ UNCHANGED <<drained, data, batch, posted, reader, stop, portOpen>>
      /\ port # <<>> /\ port' = Tail(port)
  BY DEF Deliver, readerVars
<1>3. /\ Len(port) \in Nat \ {0} /\ Len(port') = Len(port) - 1 /\ port' \in Seq(Message)
      /\ 1 \in 1 .. Len(port)
  BY <1>2, TypeParts, Delivered DEF IInv
<1>4. /\ received \in Nat /\ posted \in Nat /\ batch \in Nat /\ data \in Nat
      /\ received <= posted /\ received' <= posted
  BY <1>1, DeliveredIsPosted DEF IInv, TypeOK, StreamInv
<1>r. received' \in Nat
  BY DEF TypeOK
<1>5. Pending' = QueuedBytes' \cup Kept' /\ Kept' = Kept
  BY <1>2 DEF Pending, QueuedBytes, Kept, Bytes
<1>6. Pending' = Pending \ (received + 1 .. received')
  <2>1. Kept \cap (received + 1 .. received') = {}
    BY <1>4, <1>r DEF Kept
  <2> QED BY <1>1, <1>5, <2>1, PendingSplit
<1>7. CASE port[1].kind = "output"
  <2>1. port[1].len \in Nat /\ port[1].len > 0
    BY <1>3, <1>7, QueuedMessage DEF IInv
  <2>2. received' > received
    BY <1>1, <1>4, <2>1
  <2>3. reader = "done" => port' # <<>>
    <3>1. ASSUME reader = "done", port' = <<>> PROVE FALSE
      <4>1. Len(port) = 1
        BY <1>3, <3>1, EmptySeq
      <4>2. port[1] = Closed
        BY <1>2, <3>1, <4>1 DEF IInv, PortInv
      <4> QED BY <1>7, <4>2, ClosedMessage
    <3> QED BY <3>1
  <2>4. ~ Ended /\ ~ Ended'
    BY <1>2, <2>3 DEF Ended
  <2>5. received + 1 .. received' \subseteq Pending
    BY <1>1, PendingSplit
  <2> QED BY <1>2, <1>6, <2>2, <2>4, <2>5 DEF Pipe!Deliver, Ended
<1>8. CASE port[1].kind # "output"
  <2>1. port[1] = Closed /\ Len(port) = 1 /\ reader = "done"
    BY <1>3, <1>8 DEF IInv, PortInv
  <2>2. received' = received
    BY <1>1, <1>4, <2>1, ClosedMessage
  <2>3. port' = <<>>
    BY <1>3, <2>1, EmptySeq
  <2>4. Pending' = Pending
    BY <1>4, <1>6, <2>2
  <2>5. CASE stop
    BY <1>2, <2>2, <2>4, <2>5, Stutter DEF Broken
  <2>6. CASE ~ stop
    <3>1. Kept = {}
      BY <1>1, <1>4, <2>1, <2>6 DEF Kept, IInv, StreamInv, Closing
    <3>2. QueuedBytes' = {}
      <4>1. Len(port') = 0
        BY <1>3, <2>1
      <4> QED BY <4>1 DEF QueuedBytes, Bytes
    <3>3. Pending = {}
      BY <1>5, <2>4, <3>1, <3>2
    <3> QED BY <1>1, <1>2, <2>1, <2>2, <2>3, <2>4, <2>6, <3>3 DEF Pipe!End
  <2> QED BY <2>5, <2>6
<1> QED BY <1>7, <1>8

\* CLOSED is posted behind the output: nothing has ended yet.
LEMMA ClosePortsMaps ==
  ASSUME IInv, ClosePorts
  PROVE  UNCHANGED Pipe!vars
<1>1. UNCHANGED <<drained, data, batch, posted, received, stop, portOpen>> /\ reader = "close"
  BY DEF ClosePorts, receiver
<1>2. QueuedBytes' = QueuedBytes
  <2>1. CASE portOpen
    BY <2>1, TypeParts, ClosedBytes DEF IInv
  <2>2. CASE ~ portOpen
    BY <2>2 DEF ClosePorts, QueuedBytes, Bytes
  <2> QED BY <2>1, <2>2
<1>3. Pending' = Pending
  BY <1>1, <1>2, PendingSplit DEF Pending, QueuedBytes, Kept, Bytes
<1>4. Broken' = Broken
  BY <1>1 DEF Broken
<1>5. portOpen => ~ Ended /\ ~ Ended'
  <2>1. portOpen => port' # <<>>
    BY TypeParts, ClosedMessage, Appended, EmptySeq DEF IInv, ClosePorts
  <2> QED BY <1>1, <2>1 DEF Ended
<1>6. Broken \/ Ended' = Ended
  <2>1. CASE portOpen
    BY <1>5, <2>1 DEF Ended
  <2>2. CASE ~ portOpen
    BY <2>2 DEF Broken
  <2> QED BY <2>1, <2>2
<1> QED BY <1>1, <1>3, <1>4, <1>6, Stutter

\* Every step of the output path is a step of the pipe or invisible to it.
LEMMA StepMaps == IInv /\ [Next]_vars => [Pipe!Next]_(Pipe!vars)
<1> SUFFICES ASSUME IInv, [Next]_vars PROVE Pipe!Next \/ UNCHANGED Pipe!vars
  OBVIOUS
<1>0. TypeOK' /\ PortInv' /\ TypeOK
  BY InductiveStep DEF IInv
<1>1. CASE ReadData
  BY <1>1, ReadEnters DEF Pipe!Next
<1>2. CASE PostOutput
  BY <1>2, PostMaps DEF Pipe!Next
<1>3. CASE Deliver
  BY <1>0, <1>3, DeliverMaps DEF Pipe!Next
<1>4. CASE ClosePorts
  BY <1>4, ClosePortsMaps
<1>5. CASE Stop
  <2>1. UNCHANGED <<drained, received, port, posted, batch, data>> /\ stop'
    BY <1>5 DEF Stop, receiver, readerVars
  <2>2. Pending' = Pending
    BY <2>1 DEF Pending, Bytes
  <2> QED BY <2>1, <2>2, Breaks DEF Broken, Pipe!Next
<1>6. CASE PortCloses
  <2>1. UNCHANGED <<drained, received, posted, batch, data>> /\ ~ portOpen' /\ port' = <<>>
    BY <1>6 DEF PortCloses, readerVars
  <2>2. QueuedBytes' = {} /\ Kept' = Kept
    BY <2>1, EmptySeq DEF QueuedBytes, Bytes, Kept
  <2>3. Pending' = QueuedBytes' \cup Kept'
    BY DEF Pending, QueuedBytes, Kept, Bytes
  <2>4. Pending' \subseteq Pending
    BY <2>2, <2>3, PendingSplit
  <2> QED BY <2>1, <2>4, Breaks DEF Broken, Pipe!Next
<1>7. CASE ~ ReadData /\ ~ PostOutput /\ ~ Deliver /\ ~ ClosePorts /\ ~ Stop /\ ~ PortCloses
  <2>1. /\ UNCHANGED <<drained, received, posted, port, portOpen, stop>>
        /\ batch' + data' = batch + data
    BY <1>0, <1>7, QuietChange
  <2>2. Kept' = Kept
    <3>1. {posted, batch, data} \subseteq Nat /\ {posted', batch', data'} \subseteq Nat
      BY <1>0 DEF TypeOK
    <3>2. posted' + batch' + data' = posted + batch + data
      BY <2>1, <3>1
    <3> QED BY <2>1, <3>2 DEF Kept
  <2>3. Pending' = Pending
    BY <2>1, <2>2, PendingSplit DEF Pending, QueuedBytes, Kept, Bytes
  <2>4. Broken' = Broken /\ Ended' = Ended
    BY <1>7, <2>1, DoneChange DEF Broken, Ended
  <2> QED BY <2>1, <2>3, <2>4, Stutter
<1> QED BY <1>1, <1>2, <1>3, <1>4, <1>5, <1>6, <1>7

LEMMA InitMaps == Init => Pipe!Init
<1> SUFFICES ASSUME Init PROVE Pipe!Init
  OBVIOUS
<1>1. Pending = {}
  BY EmptySeq DEF Init, Pending
<1> QED BY <1>1 DEF Init, Pipe!Init

-----------------------------------------------------------------------------
\* IInv holds in every state of every session's output path.
THEOREM Inductive == Spec => []IInv
BY InitInv, InductiveStep, PTL DEF Spec

\* Every variable keeps its type; the counters, in particular, stay natural
\* numbers through every rollback, acknowledgement and finalizer.
THEOREM TypeCorrect == Spec => []TypeOK
<1>1. IInv => TypeOK
  BY DEF IInv
<1> QED BY <1>1, Inductive, PTL

\* The backpressure counter is exact, and the receiver's debt stays below the
\* limit and one batch, for any sizes of reads, batches and limits.
THEOREM InflightExactHolds == Spec => []InflightExact
<1>1. IInv => InflightExact
  BY DEF IInv
<1> QED BY <1>1, Inductive, PTL

\* external_bytes is the bytes in external buffers alive, and within its limit,
\* whenever the receiver finalizes them and whether or not it is still there.
THEOREM ExternalAccountedHolds == Spec => []ExternalAccounted
<1>1. IInv => ExternalAccounted
  BY DEF IInv
<1> QED BY <1>1, Inductive, PTL

\* The receiver gets what the child wrote in order, each byte once, and CLOSED
\* after all of it, unless the session is stopped or the receiver goes away: for
\* any reads, batches, waits, copies, external buffers and failures.
THEOREM ImplementsBytePipeHolds == Spec => ImplementsBytePipe
BY InitMaps, StepMaps, Inductive, PTL DEF ImplementsBytePipe, Pipe!Spec, Spec
=============================================================================
