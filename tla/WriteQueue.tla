------------------------------ MODULE WriteQueue ------------------------------
(***************************************************************************)
(* The input path of a ptyx session: ptyx_write and ptyx_write_owned copy  *)
(* or move bytes into a bounded queue (writer.rs, runtime.rs), one         *)
(* "ptyx-writer" thread drains the queue into the PTY, and close_runtime   *)
(* closes the queue and joins the thread.                                  *)
(*                                                                         *)
(* A byte is its position in the stream of accepted input bytes: the queue *)
(* holds intervals of that stream, and the PTY has received its first      *)
(* `written' bytes if the writer never skips, repeats or reorders one.     *)
(*                                                                         *)
(* Every critical section of WriteQueueShared.state is one step.  A step   *)
(* of a caller that ends the call also releases Session.runtime's mutex,   *)
(* which write and write_owned hold until they return.  Poisoned locks     *)
(* (a panic inside a critical section) are not modelled.                   *)
(***************************************************************************)
EXTENDS Naturals, Sequences

CONSTANTS
  Callers,      \* host threads that call ptyx_write or ptyx_write_owned
  Sizes,        \* lengths a caller passes
  MaxBytes,     \* RuntimeConfig.write_queue_max_bytes
  MaxAccepted   \* bound: callers start no write beyond this many stream bytes

ASSUME WriteQueueAssumption ==
  /\ Sizes \subseteq Nat
  /\ MaxBytes \in Nat \ {0}
  /\ MaxAccepted \in Nat
  /\ "closer" \notin Callers
  /\ "free" \notin Callers

VARIABLES
  closed,       \* SessionInner.closed
  runtimeLock,  \* holder of Session.runtime's mutex, or "free"
  slot,         \* Session.runtime is Some
  started,      \* WriteQueue.handle is Some: the thread was started
  queue,        \* WriteQueueState.queue: intervals of the accepted stream
  queuedBytes,  \* WriteQueueState.queued_bytes
  qClosed,      \* WriteQueueState.closed
  failure,      \* WriteQueueState.failure
  writer,       \* where the writer thread is
  writeBusy,    \* SessionInner.write_busy
  cur,          \* the chunk the writer took
  done,         \* how much of it is written
  call,         \* each caller's location and arguments
  closer,       \* where session::close is
  accepted,     \* history: bytes accepted so far
  written,      \* history: bytes the PTY took so far
  writeErrors   \* history: PTYX_ERROR_SOURCE_WRITE events posted

queueVars  == <<queue, queuedBytes, qClosed, failure>>
writerVars == <<writer, writeBusy, cur, done, written, writeErrors>>
vars == <<closed, runtimeLock, slot, started, queue, queuedBytes, qClosed, failure,
          writer, writeBusy, cur, done, call, closer, accepted, written, writeErrors>>

NoFailure  == "none"
\* io::ErrorKind of a failed write or poll, as far as map_write_error tells them apart.
OsErrors   == {"BrokenPipe", "WouldBlock", "PermissionDenied", "Other"}
ErrorKinds == {"Closed", "WouldBlock", "PermissionDenied", "IoFailed", "Busy"}

Chunk == [start : Nat, len : Nat]
Kinds == {"bytes", "owned"}   \* ptyx_write and ptyx_write_owned
NoCall == [pc |-> "idle", kind |-> "bytes", len |-> 0]

CallerPcs == {"idle", "lock", "check", "enqueue", "notify"}
\* Locations of a caller that holds Session.runtime's mutex.
InRuntime == {"check", "enqueue", "notify"}
WriterPcs == {"none", "dequeue", "waiting", "took", "loop", "syscall", "poll", "exited"}
\* Locations at which the writer holds a chunk it has not finished.
Writing   == {"took", "loop", "syscall", "poll"}
CloserPcs == {"idle", "lock", "close", "notify", "join", "done"}

Init ==
  /\ closed = FALSE
  /\ runtimeLock = "free"
  /\ slot = TRUE
  /\ started = FALSE
  /\ queue = <<>>
  /\ queuedBytes = 0
  /\ qClosed = FALSE
  /\ failure = NoFailure
  /\ writer = "none"
  /\ writeBusy = FALSE
  /\ cur = [start |-> 0, len |-> 0]
  /\ done = 0
  /\ call = [c \in Callers |-> NoCall]
  /\ closer = "idle"
  /\ accepted = 0
  /\ written = 0
  /\ writeErrors = 0

-----------------------------------------------------------------------------
(***************************************************************************)
(* Callers.                                                                *)
(***************************************************************************)

\* The call ends, and with it the guard on Session.runtime it may hold.
Return(c) ==
  /\ call' = [call EXCEPT ![c] = NoCall]
  /\ runtimeLock' = IF runtimeLock = c THEN "free" ELSE runtimeLock

GoTo(c, pc) == call' = [call EXCEPT ![c].pc = pc]

\* Fault: a failure of the writer is not looked at.
MayEnqueueAfterFailure(n) ==
  /\ ~qClosed
  /\ queuedBytes + n <= MaxBytes

\* validate_enqueue succeeds: no failure, not closed, and room for n more bytes.
MayEnqueue(n) ==
  /\ failure = NoFailure
  /\ ~qClosed
  /\ queuedBytes + n <= MaxBytes

\* ptyx_write or ptyx_write_owned begins.  An empty ptyx_write, or any write
\* once the session is closed, returns before taking a lock.
Call(c, kind, n) ==
  /\ call[c].pc = "idle"
  /\ accepted + n <= MaxAccepted
  /\ ~ (kind = "bytes" /\ n = 0)
  /\ ~ closed
  /\ call' = [call EXCEPT ![c] = [pc |-> "lock", kind |-> kind, len |-> n]]
  /\ UNCHANGED <<closed, runtimeLock, slot, started, queueVars, writerVars, closer, accepted>>

\* Fault: the runtime taken by an earlier close is not noticed.
LockRuntimeIgnoringSlot(c) ==
  /\ call[c].pc = "lock"
  /\ runtimeLock = "free"
  /\ started' = TRUE
  /\ writer' = IF started THEN writer ELSE "dequeue"
  /\ GoTo(c, "enqueue")
  /\ runtimeLock' = c
  /\ UNCHANGED <<closed, slot, queueVars, writeBusy, cur, done, closer, accepted,
                 written, writeErrors>>

\* The caller owns Session.runtime: the runtime may be gone, ensure_started
\* spawns the writer on first use, and what can never fit is refused.
LockRuntime(c) ==
  /\ call[c].pc = "lock"
  /\ runtimeLock = "free"
  /\ \/ /\ ~ slot
        /\ Return(c)
        /\ UNCHANGED <<started, writer>>
     \/ /\ slot
        /\ started' = TRUE
        /\ writer' = IF started THEN writer ELSE "dequeue"
        /\ IF call[c].len = 0 \/ call[c].len > MaxBytes
           THEN Return(c)
           ELSE /\ GoTo(c, IF call[c].kind = "bytes" THEN "check" ELSE "enqueue")
                /\ runtimeLock' = c
  /\ UNCHANGED <<closed, slot, queueVars, writeBusy, cur, done, closer, accepted,
                 written, writeErrors>>

\* ensure_started fails to spawn the thread: NativeError, and nothing is kept.
StartFails(c) ==
  /\ call[c].pc = "lock"
  /\ runtimeLock = "free"
  /\ slot
  /\ ~ started
  /\ Return(c)
  /\ UNCHANGED <<closed, slot, started, queueVars, writerVars, closer, accepted>>

\* check_enqueue_allowed, before the copy is allocated.
CheckEnqueueAllowed(c) ==
  /\ call[c].pc = "check"
  /\ IF MayEnqueue(call[c].len)
     THEN GoTo(c, "enqueue") /\ UNCHANGED runtimeLock
     ELSE Return(c)
  /\ UNCHANGED <<closed, slot, started, queueVars, writerVars, closer, accepted>>

\* try_reserve_exact fails: OutOfMemory.
AllocationFails(c) ==
  /\ call[c].pc = "enqueue"
  /\ call[c].kind = "bytes"
  /\ Return(c)
  /\ UNCHANGED <<closed, slot, started, queueVars, writerVars, closer, accepted>>

\* enqueue_owned validates again under the lock that pushes the chunk.
Enqueue(c) ==
  /\ call[c].pc = "enqueue"
  /\ \/ /\ MayEnqueue(call[c].len)
        /\ queue' = Append(queue, [start |-> accepted, len |-> call[c].len])
        /\ queuedBytes' = queuedBytes + call[c].len
        /\ accepted' = accepted + call[c].len
        /\ GoTo(c, "notify")
        /\ UNCHANGED runtimeLock
     \/ /\ ~ MayEnqueue(call[c].len)
        /\ Return(c)
        /\ UNCHANGED <<queue, queuedBytes, accepted>>
  /\ UNCHANGED <<closed, slot, started, qClosed, failure, writerVars, closer>>

\* Condvar::notify_one and notify_all: the writer is the only thread that waits.
Wake == writer' = IF writer = "waiting" THEN "dequeue" ELSE writer

\* Fault: the writer is not woken.
NotifyNobody(c) ==
  /\ call[c].pc = "notify"
  /\ Return(c)
  /\ UNCHANGED <<closed, slot, started, queueVars, writerVars, closer, accepted>>

\* ready.notify_one, after the state lock is dropped; the call returns Ok.
NotifyOne(c) ==
  /\ call[c].pc = "notify"
  /\ Wake
  /\ Return(c)
  /\ UNCHANGED <<closed, slot, started, queueVars, writeBusy, cur, done, closer,
                 accepted, written, writeErrors>>

CallerStep(c) ==
  \/ LockRuntime(c)
  \/ StartFails(c)
  \/ CheckEnqueueAllowed(c)
  \/ AllocationFails(c)
  \/ Enqueue(c)
  \/ NotifyOne(c)

-----------------------------------------------------------------------------
(***************************************************************************)
(* The writer thread.                                                      *)
(***************************************************************************)

\* Fault: map_write_error alone.
MappedWriteError(e) == IF e = "Other" THEN "IoFailed" ELSE e

\* map_write_error, then normalize_write_error.
WriteErrorKind(e) ==
  CASE e = "BrokenPipe" -> "Closed"
    [] e = "Other"      -> "IoFailed"
    [] OTHER            -> e

\* Fault: the error is posted, but the queue is not marked as failed.
PostFailureOnly(kind) ==
  /\ queue' = <<>>
  /\ queuedBytes' = 0
  /\ writeErrors' = writeErrors + 1
  /\ writer' = "exited"
  /\ writeBusy' = FALSE
  /\ UNCHANGED <<failure, qClosed, cur, done, written>>

\* record_failure: the queue is failed and emptied, the error is posted, and
\* writer_loop returns, dropping its BusyGuard.
RecordFailure(kind) ==
  /\ failure' = kind
  /\ queue' = <<>>
  /\ queuedBytes' = 0
  /\ writeErrors' = writeErrors + 1
  /\ writer' = "exited"
  /\ writeBusy' = FALSE
  /\ UNCHANGED <<qClosed, cur, done, written>>

SaturatingSub(a, b) == IF b <= a THEN a - b ELSE 0

\* WriteQueueShared::dequeue, one pass of its loop.
Dequeue ==
  /\ writer = "dequeue"
  /\ \/ /\ queue # <<>>
        /\ cur' = Head(queue)
        /\ done' = 0
        /\ queue' = Tail(queue)
        /\ queuedBytes' = SaturatingSub(queuedBytes, Head(queue).len)
        /\ writer' = "took"
        /\ UNCHANGED writeErrors
     \/ /\ queue = <<>>
        /\ writer' = IF failure # NoFailure \/ qClosed THEN "exited" ELSE "waiting"
        /\ writeErrors' = writeErrors + IF failure # NoFailure THEN 1 ELSE 0
        /\ UNCHANGED <<cur, done, queue, queuedBytes>>
  /\ UNCHANGED <<closed, runtimeLock, slot, started, qClosed, failure, writeBusy, call,
                 closer, accepted, written>>

\* A condition variable may wake its waiter without a notification.
SpuriousWake ==
  /\ writer = "waiting"
  /\ writer' = "dequeue"
  /\ UNCHANGED <<closed, runtimeLock, slot, started, queueVars, writeBusy, cur, done, call,
                 closer, accepted, written, writeErrors>>

\* The chunk is in hand: a closed session or a busy guard fails the queue.
StartChunk ==
  /\ writer = "took"
  /\ IF closed \/ writeBusy
     THEN RecordFailure(IF closed THEN "Closed" ELSE "Busy")
     ELSE /\ writeBusy' = TRUE
          /\ writer' = "loop"
          /\ UNCHANGED <<queueVars, cur, done, written, writeErrors>>
  /\ UNCHANGED <<closed, runtimeLock, slot, started, call, closer, accepted>>

\* The head of write_direct_chunk's loop: finished, closed, or write again.
ChunkLoop ==
  /\ writer = "loop"
  /\ writer' = CASE done = cur.len -> "dequeue"
                 [] done # cur.len /\ qClosed -> "exited"
                 [] OTHER -> "syscall"
  /\ writeBusy' = (writer' = "syscall")
  /\ UNCHANGED <<closed, runtimeLock, slot, started, queueVars, cur, done, call, closer,
                 accepted, written, writeErrors>>

\* Fault: after a short write the chunk is tried from its beginning again.
WroteWithoutAdvancing ==
  /\ writer = "syscall"
  /\ \E n \in 1 .. (cur.len - done) :
        /\ done' = IF n = cur.len - done THEN cur.len ELSE done
        /\ written' = written + n
  /\ writer' = "loop"
  /\ UNCHANGED <<closed, runtimeLock, slot, started, queueVars, writeBusy, cur, call,
                 closer, accepted, writeErrors>>

\* write(2) takes some of the rest of the chunk.
Wrote ==
  /\ writer = "syscall"
  /\ \E n \in 1 .. (cur.len - done) :
        /\ done' = done + n
        /\ written' = written + n
  /\ writer' = "loop"
  /\ UNCHANGED <<closed, runtimeLock, slot, started, queueVars, writeBusy, cur, call,
                 closer, accepted, writeErrors>>

\* write(2) is interrupted, or would block and the descriptor is polled.
WroteNothing ==
  /\ writer = "syscall"
  /\ writer' \in {"loop", "poll"}
  /\ UNCHANGED <<closed, runtimeLock, slot, started, queueVars, writeBusy, cur, done, call,
                 closer, accepted, written, writeErrors>>

\* wait_writable_for ends, writable or timed out: the loop is taken again.
Polled ==
  /\ writer = "poll"
  /\ writer' = "loop"
  /\ UNCHANGED <<closed, runtimeLock, slot, started, queueVars, writeBusy, cur, done, call,
                 closer, accepted, written, writeErrors>>

\* write(2) or poll(2) fails for good.
WriteFails ==
  /\ writer \in {"syscall", "poll"}
  /\ \E e \in OsErrors : RecordFailure(WriteErrorKind(e))
  /\ UNCHANGED <<closed, runtimeLock, slot, started, call, closer, accepted>>

-----------------------------------------------------------------------------
(***************************************************************************)
(* session::close, as far as the write queue takes part in it.             *)
(***************************************************************************)

CloseSession ==
  /\ closer = "idle"
  /\ closed' = TRUE
  /\ closer' = "lock"
  /\ UNCHANGED <<runtimeLock, slot, started, queueVars, writerVars, call, accepted>>

CloseLock ==
  /\ closer = "lock"
  /\ runtimeLock = "free"
  /\ runtimeLock' = "closer"
  /\ closer' = "close"
  /\ UNCHANGED <<closed, slot, started, queueVars, writerVars, call, accepted>>

\* Fault: the chunks are dropped, their count is not.
CloseQueueKeepingCount ==
  /\ closer = "close"
  /\ qClosed' = TRUE
  /\ queue' = <<>>
  /\ closer' = "notify"
  /\ UNCHANGED <<closed, runtimeLock, slot, started, queuedBytes, failure, writerVars, call,
                 accepted>>

\* WriteQueueShared::close: closed, and what was queued is dropped.
CloseQueue ==
  /\ closer = "close"
  /\ qClosed' = TRUE
  /\ queue' = <<>>
  /\ queuedBytes' = 0
  /\ closer' = "notify"
  /\ UNCHANGED <<closed, runtimeLock, slot, started, failure, writerVars, call, accepted>>

\* Fault: close does not wake the writer.
CloseWithoutNotify ==
  /\ closer = "notify"
  /\ closer' = "join"
  /\ UNCHANGED <<closed, runtimeLock, slot, started, queueVars, writerVars, call, accepted>>

CloseNotify ==
  /\ closer = "notify"
  /\ Wake
  /\ closer' = "join"
  /\ UNCHANGED <<closed, runtimeLock, slot, started, queueVars, writeBusy, cur, done, call,
                 accepted, written, writeErrors>>

\* WriteQueue::join returns and close_runtime empties the slot.
CloseJoin ==
  /\ closer = "join"
  /\ started => writer = "exited"
  /\ slot' = FALSE
  /\ started' = FALSE
  /\ runtimeLock' = "free"
  /\ closer' = "done"
  /\ UNCHANGED <<closed, queueVars, writerVars, call, accepted>>

CloserStep == CloseLock \/ CloseQueue \/ CloseNotify \/ CloseJoin

-----------------------------------------------------------------------------
WriterStep == Dequeue \/ StartChunk \/ ChunkLoop \/ Polled

Next ==
  \/ \E c \in Callers, kind \in Kinds, n \in Sizes : Call(c, kind, n)
  \/ \E c \in Callers : LockRuntime(c)
  \/ \E c \in Callers : StartFails(c)
  \/ \E c \in Callers : CheckEnqueueAllowed(c)
  \/ \E c \in Callers : AllocationFails(c)
  \/ \E c \in Callers : Enqueue(c)
  \/ \E c \in Callers : NotifyOne(c)
  \/ Dequeue
  \/ SpuriousWake
  \/ StartChunk
  \/ ChunkLoop
  \/ Wrote
  \/ WroteNothing
  \/ Polled
  \/ WriteFails
  \/ CloseSession
  \/ CloseLock
  \/ CloseQueue
  \/ CloseNotify
  \/ CloseJoin

Spec == Init /\ [][Next]_vars

(***************************************************************************)
(* Every thread that can run does run.  A write(2) returns (the descriptor *)
(* is non-blocking), and a child that is being written to keeps reading:   *)
(* a chunk that is tried again and again is taken in the end.              *)
(***************************************************************************)
Fairness ==
  /\ \A c \in Callers : WF_vars(CallerStep(c))
  /\ WF_vars(WriterStep)
  /\ WF_vars(Wrote \/ WroteNothing \/ WriteFails)
  /\ SF_vars(Wrote)
  /\ WF_vars(CloserStep)

FairSpec == Spec /\ Fairness
-----------------------------------------------------------------------------
(***************************************************************************)
(* Properties.                                                             *)
(***************************************************************************)

TypeOK ==
  /\ closed \in BOOLEAN
  /\ runtimeLock \in Callers \cup {"free", "closer"}
  /\ slot \in BOOLEAN
  /\ started \in BOOLEAN
  /\ queue \in Seq(Chunk)
  /\ queuedBytes \in Nat
  /\ qClosed \in BOOLEAN
  /\ failure \in ErrorKinds \cup {NoFailure}
  /\ writer \in WriterPcs
  /\ writeBusy \in BOOLEAN
  /\ cur \in Chunk
  /\ done \in Nat
  /\ call \in [Callers -> [pc : CallerPcs, kind : Kinds, len : Nat]]
  /\ closer \in CloserPcs
  /\ accepted \in Nat
  /\ written \in Nat
  /\ writeErrors \in Nat

\* The first stream byte that is still queued, or the next one to be accepted.
FirstQueued == IF queue = <<>> THEN accepted ELSE queue[1].start

\* The first stream byte the writer has yet to write.
NextUp == IF writer \in Writing THEN cur.start + done ELSE FirstQueued

\* The queue tiles the end of the accepted stream: chunks are not empty, the
\* next begins where one ends and the last ends at `accepted'.
Tiled ==
  /\ \A i \in 1 .. Len(queue) :
        queue[i].len > 0
  /\ \A i \in 1 .. Len(queue) - 1 :
        queue[i + 1].start = queue[i].start + queue[i].len
  /\ queue # <<>> =>
        queue[Len(queue)].start + queue[Len(queue)].len = accepted

\* WriteQueueState.queued_bytes is exactly what the queue holds, and never
\* above write_queue_max_bytes, whatever callers, the writer, failures and
\* close do between a caller's check and its push.
QueueAccounting ==
  /\ Tiled
  /\ queuedBytes = accepted - FirstQueued
  /\ queuedBytes <= MaxBytes

\* The PTY receives the accepted stream in order, no byte twice and none left
\* out: every write(2) starts at the first byte not yet written, and until a
\* failure or close nothing between that byte and `accepted' is dropped.
PrefixWritten ==
  /\ writer = "syscall" => cur.start + done = written
  /\ failure = NoFailure /\ ~ qClosed => NextUp = written

\* The bytes of a chunk from its n-th on.
BytesFrom(chunk, n) == chunk.start + n + 1 .. chunk.start + chunk.len

\* The bytes that are accepted and not yet written: the rest of the chunk in hand
\* and the chunks in the queue.
Pending ==
  (IF writer \in Writing THEN BytesFrom(cur, done) ELSE {})
    \cup UNION {BytesFrom(queue[i], 0) : i \in 1 .. Len(queue)}

Pipe == INSTANCE BytePipe WITH
  entered   <- accepted,
  delivered <- written,
  pending   <- Pending,
  state     <- IF failure # NoFailure \/ qClosed THEN "broken" ELSE "open"

\* The queue, the chunk in the writer's hands and its short and interrupted
\* writes implement a pipe: the program gets the accepted bytes in order, each
\* once, and none is dropped unless the queue has failed or is closed.
ImplementsBytePipe == Pipe!Spec

\* A writer that stops for any reason but close has failed the queue and has
\* posted one error event; no session posts two; and a queue that has failed
\* holds nothing, so no accepted write waits for a thread that is gone.
LossIsReported ==
  /\ writeErrors <= 1
  /\ writer = "exited" /\ ~ qClosed => failure # NoFailure
  /\ failure # NoFailure => writeErrors = 1 /\ writer = "exited" /\ queue = <<>>

\* When close has returned no writer thread runs and none is ever started
\* again, even by a write that was already waiting for Session.runtime.
ClosedMeansJoined == closer = "done" => writer \in {"none", "exited"} /\ runtimeLock = "free"

\* A queue that is closed or has failed accepts nothing more and stays so.
RefusalIsFinal ==
  [][failure # NoFailure \/ qClosed =>
       accepted' = accepted /\ queue' = <<>> /\ (failure' # NoFailure \/ qClosed')]_vars

\* close_runtime always gets its mutex back from writers and joins the thread.
CloseCompletes == closer # "idle" ~> closer = "done"

\* An accepted byte is written, unless the queue fails or is closed first: no
\* wakeup of the writer is lost.
AcceptedIsWritten ==
  \A p \in 1 .. MaxAccepted :
    accepted >= p ~> (written >= p \/ failure # NoFailure \/ qClosed)
=============================================================================
