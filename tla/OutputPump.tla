------------------------------ MODULE OutputPump ------------------------------
(***************************************************************************)
(* The output path of a ptyx session on Unix: the "ptyx-reader" thread     *)
(* (reader.rs) reads the PTY, batches the bytes (output.rs) and posts them *)
(* to the output port, holding back while the receiver owes               *)
(* acknowledgements for max_inflight bytes or more (runtime::ack_output).  *)
(*                                                                         *)
(* A byte is its position in the stream the child produced.  At any time   *)
(* the reader holds the last `batch + data' bytes it drained, so intervals *)
(* of the stream stand for the buffers.  Time is left out: poll returns a  *)
(* timeout whenever nothing is readable, which is what should make a batch *)
(* leave.  The receiver, its garbage collector and the child are external. *)
(***************************************************************************)
EXTENDS Naturals, Sequences, FiniteSets

CONSTANTS
  ReadSize,       \* OutputConfig.read_buffer_size
  BatchMax,       \* OutputConfig.output_batch_max_bytes
  MaxInflight,    \* OutputConfig.max_inflight
  MaxExternal,    \* OutputConfig.max_external_output_bytes
  AckModes,       \* values of OutputConfig.require_acks to consider
  ExternalModes,  \* values of OutputConfig.use_external_output to consider
  MaxProduced     \* bound: bytes the child produces

ASSUME OutputPumpAssumption ==
  /\ {ReadSize, BatchMax, MaxInflight, MaxExternal} \subseteq Nat \ {0}
  /\ MaxProduced \in Nat
  /\ AckModes \subseteq BOOLEAN
  /\ ExternalModes \subseteq BOOLEAN

VARIABLES
  requireAcks, useExternal,  \* the session's OutputConfig
  stop,       \* SessionRuntime.stop
  produced,   \* bytes the child wrote to the terminal
  childOpen,  \* some process still has the terminal open
  drained,    \* bytes read(2) has returned
  data,       \* of those, bytes still in the read buffer
  batch,      \* Len of OutputBuffer.batch
  inflight,   \* the inflight counter
  extBytes,   \* the external_bytes counter
  reader,     \* where the reader thread is
  ret,        \* which caller of flush is waiting for it
  port,       \* messages posted and not yet delivered
  portOpen,   \* the receiver still accepts messages
  posted,     \* history: stream bytes posted
  received,   \* history: stream bytes delivered
  acked,      \* history: bytes acknowledged
  held,       \* external buffers the receiver has and has not finalized
  errors      \* history: PTYX_ERROR_SOURCE_OUTPUT events posted

config   == <<requireAcks, useExternal>>
child    == <<produced, childOpen>>
receiver == <<portOpen, received, acked, held>>
vars == <<requireAcks, useExternal, stop, produced, childOpen, drained, data, batch, inflight,
          extBytes, reader, ret, port, portOpen, posted, received, acked, held, errors>>

ReaderPcs == {"start", "top", "read", "append", "flush", "wait", "reserve", "post", "poll",
              "close", "done"}
\* The callers of flush: append, the poll timeout, stop or end of file, an error.
Callers  == {"append", "idle", "end", "error"}
Message  == [kind : {"output", "closed"}, start : Nat, len : Nat, external : BOOLEAN]
Closed   == [kind |-> "closed", start |-> 0, len |-> 0, external |-> FALSE]

Init ==
  /\ requireAcks \in AckModes
  /\ useExternal \in ExternalModes
  /\ stop = FALSE
  /\ produced = 0 /\ childOpen = TRUE
  /\ drained = 0 /\ data = 0 /\ batch = 0
  /\ inflight = 0 /\ extBytes = 0
  /\ reader = "start" /\ ret = "end"
  /\ port = <<>> /\ portOpen = TRUE
  /\ posted = 0 /\ received = 0 /\ acked = 0
  /\ held = {}
  /\ errors = 0

SaturatingSub(a, b) == IF b <= a THEN a - b ELSE 0

-----------------------------------------------------------------------------
(***************************************************************************)
(* OutputBuffer: append, flush and its waits.                              *)
(***************************************************************************)

Flush(caller) == reader' = "flush" /\ ret' = caller

\* flush returns to its caller: append and the poll timeout stop at an error,
\* the others go on to close the port in any case.
FlushReturns(ok) ==
  /\ reader' = CASE ret = "append" /\ ok -> "append"
                 [] ret = "idle" /\ ok   -> "top"
                 [] OTHER                -> "close"
  /\ errors' = errors + IF ret = "error" \/ (ret # "end" /\ ~ ok) THEN 1 ELSE 0
  /\ UNCHANGED ret

\* Fault: the room is filled even when fewer bytes are left.
AppendRoom ==
  /\ reader = "append"
  /\ data > 0
  /\ LET room == IF batch < BatchMax THEN BatchMax - batch ELSE 1
         take == room
     IN  /\ data' = data - take
         /\ batch' = batch + take
  /\ IF batch' >= BatchMax THEN Flush("append") ELSE UNCHANGED <<reader, ret>>
  /\ UNCHANGED <<config, stop, child, drained, inflight, extBytes, port, posted, receiver,
                 errors>>

\* One pass of append's loop; a batch that is full, or that grew past its limit
\* while flush could not post, is flushed.
AppendChunk ==
  /\ reader = "append"
  /\ data > 0
  /\ LET room == IF batch < BatchMax THEN BatchMax - batch ELSE 1
         take == IF data < room THEN data ELSE room
     IN  /\ data' = data - take
         /\ batch' = batch + take
  /\ IF batch' >= BatchMax THEN Flush("append") ELSE UNCHANGED <<reader, ret>>
  /\ UNCHANGED <<config, stop, child, drained, inflight, extBytes, port, posted, receiver,
                 errors>>

\* append returns Ok; the reader looks at stop before it reads again.
AppendDone ==
  /\ reader = "append"
  /\ data = 0
  /\ reader' = IF stop THEN "top" ELSE "read"
  /\ UNCHANGED <<config, stop, child, drained, data, batch, inflight, extBytes, ret, port,
                 posted, receiver, errors>>

StartFlush ==
  /\ reader = "flush"
  /\ IF batch = 0
     THEN FlushReturns(TRUE)
     ELSE /\ reader' = IF requireAcks THEN "wait" ELSE "post"
          /\ UNCHANGED <<ret, errors>>
  /\ UNCHANGED <<config, stop, child, drained, data, batch, inflight, extBytes, port, posted,
                 receiver>>

\* Fault: stop does not end the wait for acknowledgements.
WaitIgnoringStop ==
  /\ reader = "wait"
  /\ inflight < MaxInflight
  /\ reader' = "reserve"
  /\ UNCHANGED <<config, stop, child, drained, data, batch, inflight, extBytes, port, posted,
                 receiver, ret, errors>>

\* Fault: room is looked for only after the batch has been counted.
WaitForNothing ==
  /\ reader = "wait"
  /\ reader' = "reserve"
  /\ UNCHANGED <<config, stop, child, drained, data, batch, inflight, extBytes, port, posted,
                 receiver, ret, errors>>

\* wait_for_inflight_capacity: its timed waits end when the counter is below
\* the limit or stop is set; once stopped, flush returns and posts nothing.
WaitForInflightCapacity ==
  /\ reader = "wait"
  /\ stop \/ inflight < MaxInflight
  /\ IF stop
     THEN FlushReturns(TRUE)
     ELSE reader' = "reserve" /\ UNCHANGED <<ret, errors>>
  /\ UNCHANGED <<config, stop, child, drained, data, batch, inflight, extBytes, port, posted,
                 receiver>>

\* reserve_inflight, before the post.
ReserveInflight ==
  /\ reader = "reserve"
  /\ inflight' = inflight + batch
  /\ reader' = "post"
  /\ UNCHANGED <<config, stop, child, drained, data, batch, extBytes, ret, port, posted,
                 receiver, errors>>

\* Fault: a buffer that fits alone is external, whatever is outstanding.
FitsExternalAlone(n) == n <= MaxExternal

\* reserve_external_bytes succeeds for a batch of n bytes.
FitsExternal(n) == extBytes + n <= MaxExternal

\* The post is refused: the reservations are rolled back; a batch that was
\* moved into an external peer is dropped with it.
PostFails ==
  /\ inflight' = IF requireAcks THEN SaturatingSub(inflight, batch) ELSE inflight
  /\ batch' = IF useExternal /\ FitsExternal(batch) THEN 0 ELSE batch
  /\ FlushReturns(FALSE)
  /\ UNCHANGED <<extBytes, port, posted>>

\* post_output_external or post_output_copied.
PostOutput ==
  /\ reader = "post"
  /\ IF portOpen
     THEN LET external == useExternal /\ FitsExternal(batch)
          IN  /\ port' = Append(port, [kind |-> "output", start |-> posted, len |-> batch,
                                       external |-> external])
              /\ extBytes' = extBytes + IF external THEN batch ELSE 0
              /\ posted' = posted + batch
              /\ batch' = 0
              /\ FlushReturns(TRUE)
              /\ UNCHANGED inflight
     ELSE PostFails
  /\ UNCHANGED <<config, stop, child, drained, data, receiver>>

-----------------------------------------------------------------------------
(***************************************************************************)
(* read_unix_fd.                                                           *)
(***************************************************************************)

bufferVars == <<drained, data, batch, inflight, extBytes, port, posted>>

\* set_nonblocking succeeds, or the reader reports and closes.
StartReader ==
  /\ reader = "start"
  /\ \E ok \in BOOLEAN :
        /\ reader' = IF ok THEN "top" ELSE "close"
        /\ errors' = errors + IF ok THEN 0 ELSE 1
  /\ UNCHANGED <<config, stop, child, bufferVars, ret, receiver>>

CheckStop ==
  /\ reader = "top"
  /\ IF stop THEN Flush("end") ELSE reader' = "read" /\ UNCHANGED ret
  /\ UNCHANGED <<config, stop, child, bufferVars, receiver, errors>>

ReadData ==
  /\ reader = "read"
  /\ \E n \in 1 .. ReadSize :
        /\ drained + n <= produced
        /\ drained' = drained + n
        /\ data' = n
  /\ reader' = "append"
  /\ UNCHANGED <<config, stop, child, batch, inflight, extBytes, ret, port, posted, receiver,
                 errors>>

ReadWouldBlock ==
  /\ reader = "read"
  /\ drained = produced
  /\ childOpen
  /\ reader' = "poll"
  /\ UNCHANGED <<config, stop, child, bufferVars, ret, receiver, errors>>

\* Fault: what is batched is not flushed at end of file.
ReadEofUnflushed ==
  /\ reader = "read"
  /\ drained = produced
  /\ ~ childOpen
  /\ reader' = "close"
  /\ UNCHANGED <<config, stop, child, bufferVars, ret, receiver, errors>>

\* End of file, or EIO once every descriptor of the terminal is closed.
ReadEof ==
  /\ reader = "read"
  /\ drained = produced
  /\ ~ childOpen
  /\ Flush("end")
  /\ UNCHANGED <<config, stop, child, bufferVars, receiver, errors>>

\* read(2) or poll(2) fails: flush_and_post_error.
ReadFails ==
  /\ reader \in {"read", "poll"}
  /\ Flush("error")
  /\ UNCHANGED <<config, stop, child, bufferVars, receiver, errors>>

PollReady ==
  /\ reader = "poll"
  /\ drained < produced \/ ~ childOpen
  /\ reader' = "top"
  /\ UNCHANGED <<config, stop, child, bufferVars, ret, receiver, errors>>

\* Fault: a timeout only polls again.
PollAgain ==
  /\ reader = "poll"
  /\ drained = produced
  /\ childOpen
  /\ reader' = "top"
  /\ UNCHANGED <<config, stop, child, bufferVars, ret, receiver, errors>>

PollTimeout ==
  /\ reader = "poll"
  /\ drained = produced
  /\ childOpen
  /\ Flush("idle")
  /\ UNCHANGED <<config, stop, child, bufferVars, receiver, errors>>

\* close_ports; a refused post is ignored.
ClosePorts ==
  /\ reader = "close"
  /\ port' = IF portOpen THEN Append(port, Closed) ELSE port
  /\ reader' = "done"
  /\ UNCHANGED <<config, stop, child, drained, data, batch, inflight, extBytes, ret, posted,
                 receiver, errors>>

-----------------------------------------------------------------------------
(***************************************************************************)
(* The rest of the world.                                                  *)
(***************************************************************************)

readerVars == <<config, drained, data, batch, reader, ret, errors>>

Produce ==
  /\ childOpen
  /\ \E n \in 1 .. (MaxProduced - produced) : produced' = produced + n
  /\ UNCHANGED <<readerVars, stop, childOpen, inflight, extBytes, port, posted, receiver>>

ChildCloses ==
  /\ childOpen
  /\ childOpen' = FALSE
  /\ UNCHANGED <<readerVars, stop, produced, inflight, extBytes, port, posted, receiver>>

\* close_runtime sets the flag; its notify_all only shortens a timed wait.
Stop ==
  /\ ~ stop
  /\ stop' = TRUE
  /\ UNCHANGED <<readerVars, child, inflight, extBytes, port, posted, receiver>>

\* The receiver's event loop takes the next message.
Deliver ==
  /\ port # <<>>
  /\ LET m == Head(port)
     IN  /\ received' = received + m.len
         /\ held' = IF m.external THEN held \cup {m} ELSE held
  /\ port' = Tail(port)
  /\ UNCHANGED <<readerVars, stop, child, inflight, extBytes, posted, portOpen, acked>>

\* ack_output, for bytes the receiver has had.
AckOutput ==
  /\ \E n \in 1 .. (received - acked) :
        /\ acked' = acked + n
        /\ inflight' = IF requireAcks THEN SaturatingSub(inflight, n) ELSE inflight
  /\ UNCHANGED <<readerVars, stop, child, extBytes, port, posted, portOpen, received, held>>

\* external_output_finalizer, when the receiver no longer needs the buffer.
Finalize ==
  /\ \E m \in held :
        /\ held' = held \ {m}
        /\ extBytes' = extBytes - m.len
  /\ UNCHANGED <<readerVars, stop, child, inflight, port, posted, portOpen, received, acked>>

\* The external buffers that the port still holds.
QueuedExternal == {port[i] : i \in {j \in 1 .. Len(port) : port[j].external}}

\* The receiver goes away; what was queued for it is discarded and finalized.
PortCloses ==
  /\ portOpen
  /\ portOpen' = FALSE
  /\ port' = <<>>
  /\ held' = held \cup QueuedExternal
  /\ UNCHANGED <<readerVars, stop, child, inflight, extBytes, posted, received, acked>>

-----------------------------------------------------------------------------
ReaderStep ==
  \/ StartReader \/ CheckStop \/ ReadData \/ ReadWouldBlock \/ ReadEof
  \/ AppendChunk \/ AppendDone
  \/ StartFlush \/ WaitForInflightCapacity \/ ReserveInflight \/ PostOutput
  \/ PollReady \/ PollTimeout \/ ClosePorts

Next ==
  \/ StartReader
  \/ CheckStop
  \/ ReadData
  \/ ReadWouldBlock
  \/ ReadEof
  \/ ReadFails
  \/ AppendChunk
  \/ AppendDone
  \/ StartFlush
  \/ WaitForInflightCapacity
  \/ ReserveInflight
  \/ PostOutput
  \/ PollReady
  \/ PollTimeout
  \/ ClosePorts
  \/ Produce
  \/ ChildCloses
  \/ Stop
  \/ Deliver
  \/ AckOutput
  \/ Finalize
  \/ PortCloses

Spec == Init /\ [][Next]_vars

\* The reader thread runs: read(2) is non-blocking, poll(2) and the condition
\* variable are waited on with a timeout.
ReaderFairness == WF_vars(ReaderStep)

\* The receiver drains its port and acknowledges what it drained.
ReceiverFairness == WF_vars(Deliver) /\ WF_vars(AckOutput)

FairSpec == Spec /\ ReaderFairness

-----------------------------------------------------------------------------
(***************************************************************************)
(* Properties.                                                             *)
(***************************************************************************)

TypeOK ==
  /\ requireAcks \in BOOLEAN /\ useExternal \in BOOLEAN
  /\ stop \in BOOLEAN
  /\ produced \in Nat /\ childOpen \in BOOLEAN
  /\ drained \in Nat /\ data \in Nat /\ batch \in Nat
  /\ inflight \in Nat /\ extBytes \in Nat
  /\ reader \in ReaderPcs /\ ret \in Callers
  /\ port \in Seq(Message) /\ portOpen \in BOOLEAN
  /\ posted \in Nat /\ received \in Nat /\ acked \in Nat
  /\ held \subseteq Message
  /\ errors \in Nat

\* The bytes of the stream a message holds.
Bytes(m) == m.start + 1 .. m.start + m.len

\* The bytes drained and not yet delivered: in the messages of the port, in the
\* batch and in the read buffer.
Pending ==
  (UNION {Bytes(port[i]) : i \in 1 .. Len(port)}) \cup (posted + 1 .. posted + batch + data)

Pipe == INSTANCE BytePipe WITH
  entered   <- drained,
  delivered <- received,
  pending   <- Pending,
  state     <- IF stop \/ ~ portOpen THEN "broken"
               ELSE IF reader = "done" /\ port = <<>> THEN "ended" ELSE "open"

\* Reads, batches, reservations, copied and external messages implement a pipe:
\* the receiver gets the child's output in order, each byte once, and the CLOSED
\* message after all of it, unless close set stop or the receiver went away.
ImplementsBytePipe == Pipe!Spec

\* The backpressure counter is what was posted and not acknowledged, plus the
\* batch reserved but not yet posted: no early or late ACK is lost, and the
\* receiver's debt is below the limit before the last batch, whatever grew while
\* flush was refused.
InflightExact ==
  /\ inflight = IF requireAcks
                THEN posted - acked + IF reader = "post" THEN batch ELSE 0
                ELSE 0
  /\ inflight < MaxInflight + BatchMax

\* The bytes in external buffers alive, in the port or with the receiver.
ExternalBytes == UNION {Bytes(m) : m \in held \cup QueuedExternal}

\* external_bytes is how many bytes those buffers hold: it does not wrap below zero
\* and stays within its limit.
ExternalAccounted ==
  /\ extBytes = Cardinality(ExternalBytes)
  /\ extBytes <= MaxExternal

\* Once stop is set the reader ends, even if the receiver never acknowledges
\* and the child never stops writing: close_runtime can join it.
CloseStopsReader == stop ~> reader = "done"

\* With a receiver that drains and acknowledges, no drained byte stays in the
\* batch and no wait for acknowledgements is for ever.
OutputArrives ==
  ReceiverFairness =>
    \A p \in 1 .. MaxProduced : drained >= p ~> (received >= p \/ stop \/ ~ portOpen)
=============================================================================
