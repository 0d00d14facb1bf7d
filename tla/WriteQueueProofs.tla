--------------------------- MODULE WriteQueueProofs ---------------------------
(***************************************************************************)
(* The safety of the write queue, for any set of callers, any sizes and    *)
(* any bound on the queue.                                                 *)
(*                                                                         *)
(* The properties are not inductive by themselves.  The inductive          *)
(* invariant adds who holds Session.runtime, that a thread exists exactly  *)
(* when one was started, and how the chunk in the writer's hands joins the *)
(* bytes written to the bytes queued.  The second part is the refinement   *)
(* of BytePipe.                                                            *)
(***************************************************************************)
EXTENDS WriteQueue, TLAPS

\* Session.runtime's mutex has one holder, and holders are where they should be.
LockInv ==
  /\ \A c \in Callers : call[c].pc \in InRuntime <=> runtimeLock = c
  /\ closer \in {"close", "notify", "join"} <=> runtimeLock = "closer"

\* A write that reached the queue is not empty and fits an empty queue.
CallInv ==
  \A c \in Callers : call[c].pc \in InRuntime => call[c].len \in 1 .. MaxBytes

\* The runtime is gone exactly when close has returned; while it is there the
\* thread exists exactly if it was started.
ThreadInv ==
  /\ slot <=> closer # "done"
  /\ slot => (started <=> writer # "none")
  /\ ~ slot => writer \in {"none", "exited"} /\ runtimeLock = "free"

\* The queue tiles the end of the accepted stream and is counted exactly.
QueueInv ==
  /\ QueueAccounting
  /\ \A i \in 1 .. Len(queue) : queue[i].start + queue[i].len <= accepted
  /\ qClosed => queue = <<>>

\* The chunk in hand continues what is written and is continued by the queue.
StreamInv ==
  /\ writer \in Writing => cur.start + done = written /\ done <= cur.len
  /\ writer \in Writing /\ ~ qClosed => cur.start + cur.len = FirstQueued
  /\ writer \notin Writing /\ ~ qClosed /\ failure = NoFailure => FirstQueued = written

\* The error is posted when the queue fails, and the writer has left by then.
FailInv ==
  /\ writer = "exited" /\ ~ qClosed => failure # NoFailure
  /\ failure # NoFailure => writeErrors = 1 /\ writer = "exited" /\ queue = <<>>
  /\ failure = NoFailure => writeErrors = 0

IInv == TypeOK /\ LockInv /\ CallInv /\ ThreadInv /\ QueueInv /\ StreamInv /\ FailInv

-----------------------------------------------------------------------------
\* The two ways a caller's record changes keep its type.
CallTypes == [Callers -> [pc : CallerPcs, kind : Kinds, len : Nat]]

LEMMA ReturnType ==
  ASSUME TypeOK, NEW c \in Callers, Return(c)
  PROVE  call' \in CallTypes /\ runtimeLock' \in Callers \cup {"free", "closer"}
<1>1. NoCall \in [pc : CallerPcs, kind : Kinds, len : Nat]
  BY DEF NoCall, CallerPcs, Kinds
<1> QED BY <1>1 DEF TypeOK, Return, CallTypes

LEMMA GoToType ==
  ASSUME TypeOK, NEW c \in Callers, NEW pc \in CallerPcs, GoTo(c, pc)
  PROVE  call' \in CallTypes
BY DEF TypeOK, GoTo, CallTypes

\* Every variable keeps its type under every action.
LEMMA TypeStep == TypeOK /\ [Next]_vars => TypeOK'
<1> SUFFICES ASSUME TypeOK, [Next]_vars PROVE TypeOK'
  OBVIOUS
<1>1. ASSUME NEW c \in Callers, NEW kind \in Kinds, NEW n \in Sizes, Call(c, kind, n)
      PROVE  TypeOK'
  BY <1>1, WriteQueueAssumption
  DEF TypeOK, Call, queueVars, writerVars, Chunk, CallerPcs
<1>2. ASSUME NEW c \in Callers, LockRuntime(c) PROVE TypeOK'
  <2>1. call' \in CallTypes /\ runtimeLock' \in Callers \cup {"free", "closer"}
    BY <1>2, ReturnType, GoToType DEF LockRuntime, CallerPcs, TypeOK
  <2>2. started' \in BOOLEAN /\ writer' \in WriterPcs
    BY <1>2 DEF LockRuntime, TypeOK, WriterPcs
  <2> QED BY <1>2, <2>1, <2>2 DEF TypeOK, LockRuntime, CallTypes, queueVars
<1>3. ASSUME NEW c \in Callers, StartFails(c) PROVE TypeOK'
  BY <1>3, ReturnType DEF TypeOK, StartFails, CallTypes, queueVars, writerVars
<1>4. ASSUME NEW c \in Callers, CheckEnqueueAllowed(c) PROVE TypeOK'
  <2>1. call' \in CallTypes /\ runtimeLock' \in Callers \cup {"free", "closer"}
    BY <1>4, ReturnType, GoToType DEF CheckEnqueueAllowed, CallerPcs, TypeOK
  <2> QED BY <1>4, <2>1 DEF TypeOK, CheckEnqueueAllowed, CallTypes, queueVars, writerVars
<1>5. ASSUME NEW c \in Callers, AllocationFails(c) PROVE TypeOK'
  BY <1>5, ReturnType DEF TypeOK, AllocationFails, CallTypes, queueVars, writerVars
<1>6. ASSUME NEW c \in Callers, Enqueue(c) PROVE TypeOK'
  <2>1. call' \in CallTypes /\ runtimeLock' \in Callers \cup {"free", "closer"}
    BY <1>6, ReturnType, GoToType DEF Enqueue, CallerPcs, TypeOK
  <2>2. call[c].len \in Nat
    BY DEF TypeOK
  <2>3. [start |-> accepted, len |-> call[c].len] \in Chunk
    BY <2>2 DEF TypeOK, Chunk
  <2>4. queue' \in Seq(Chunk)
    <3>1. \/ queue' = queue
          \/ queue' = Append(queue, [start |-> accepted, len |-> call[c].len])
      BY <1>6 DEF Enqueue
    <3>2. ASSUME NEW chunk \in Chunk PROVE Append(queue, chunk) \in Seq(Chunk)
      BY DEF TypeOK
    <3> QED BY <2>3, <3>1, <3>2 DEF TypeOK
  <2>5. queuedBytes' \in Nat /\ accepted' \in Nat
    BY <1>6, <2>2 DEF Enqueue, TypeOK
  <2> QED BY <1>6, <2>1, <2>4, <2>5 DEF TypeOK, Enqueue, CallTypes, writerVars
<1>7. ASSUME NEW c \in Callers, NotifyOne(c) PROVE TypeOK'
  BY <1>7, ReturnType DEF TypeOK, NotifyOne, Wake, CallTypes, WriterPcs, queueVars
<1>8. CASE Dequeue
  <2>1. queue # <<>> => Head(queue) \in Chunk /\ Tail(queue) \in Seq(Chunk)
    BY DEF TypeOK
  <2>2. queue # <<>> => Head(queue).len \in Nat
    BY <2>1 DEF Chunk
  <2>3. queue' \in Seq(Chunk) /\ cur' \in Chunk /\ done' \in Nat
    BY <1>8, <2>1 DEF Dequeue, TypeOK
  <2>4. queuedBytes' \in Nat /\ writeErrors' \in Nat /\ writer' \in WriterPcs
    BY <1>8, <2>2 DEF Dequeue, TypeOK, SaturatingSub, WriterPcs
  <2> QED BY <1>8, <2>3, <2>4 DEF TypeOK, Dequeue
<1>9. CASE SpuriousWake
  BY <1>9 DEF TypeOK, SpuriousWake, WriterPcs, queueVars
<1>10. ASSUME NEW kind \in ErrorKinds, RecordFailure(kind)
       PROVE  /\ queue' \in Seq(Chunk) /\ queuedBytes' \in Nat /\ qClosed' \in BOOLEAN
              /\ failure' \in ErrorKinds \cup {NoFailure} /\ writer' \in WriterPcs
              /\ writeBusy' \in BOOLEAN /\ cur' \in Chunk /\ done' \in Nat
              /\ written' \in Nat /\ writeErrors' \in Nat
  <2>1. queue' \in Seq(Chunk)
    BY <1>10 DEF RecordFailure
  <2>2. /\ queuedBytes' = 0 /\ failure' = kind /\ writer' = "exited" /\ writeBusy' = FALSE
        /\ writeErrors' = writeErrors + 1 /\ UNCHANGED <<qClosed, cur, done, written>>
    BY <1>10 DEF RecordFailure
  <2>3. /\ queuedBytes' \in Nat /\ done' \in Nat /\ written' \in Nat /\ writeErrors' \in Nat
    BY <2>2 DEF TypeOK
  <2>4. failure' \in ErrorKinds \cup {NoFailure} /\ writer' \in WriterPcs
    BY <2>2 DEF WriterPcs
  <2>5. qClosed' \in BOOLEAN /\ writeBusy' \in BOOLEAN /\ cur' \in Chunk
    BY <2>2 DEF TypeOK
  <2> QED BY <2>1, <2>3, <2>4, <2>5
<1>11. CASE StartChunk
  <2>1. CASE closed \/ writeBusy
    BY <1>10, <1>11, <2>1 DEF TypeOK, StartChunk, ErrorKinds
  <2>2. CASE ~ (closed \/ writeBusy)
    BY <1>11, <2>2 DEF TypeOK, StartChunk, WriterPcs, queueVars
  <2> QED BY <2>1, <2>2
<1>12. CASE ChunkLoop
  BY <1>12 DEF TypeOK, ChunkLoop, WriterPcs, queueVars
<1>13. CASE Wrote
  <2>1. done' \in Nat /\ written' \in Nat
    BY <1>13 DEF TypeOK, Wrote, Chunk
  <2> QED BY <1>13, <2>1 DEF TypeOK, Wrote, WriterPcs, queueVars
<1>14. CASE WroteNothing
  BY <1>14 DEF TypeOK, WroteNothing, WriterPcs, queueVars
<1>15. CASE Polled
  BY <1>15 DEF TypeOK, Polled, WriterPcs, queueVars
<1>16. CASE WriteFails
  <2>1. PICK e \in OsErrors : RecordFailure(WriteErrorKind(e))
    BY <1>16 DEF WriteFails
  <2>2. WriteErrorKind(e) \in ErrorKinds
    BY DEF OsErrors, WriteErrorKind, ErrorKinds
  <2> QED BY <1>10, <1>16, <2>1, <2>2 DEF TypeOK, WriteFails
<1>17. CASE CloseSession
  BY <1>17 DEF TypeOK, CloseSession, CloserPcs, queueVars, writerVars
<1>18. CASE CloseLock
  BY <1>18 DEF TypeOK, CloseLock, CloserPcs, queueVars, writerVars
<1>19. CASE CloseQueue
  BY <1>19 DEF TypeOK, CloseQueue, CloserPcs, writerVars
<1>20. CASE CloseNotify
  BY <1>20 DEF TypeOK, CloseNotify, Wake, CloserPcs, WriterPcs, queueVars
<1>21. CASE CloseJoin
  BY <1>21 DEF TypeOK, CloseJoin, CloserPcs, queueVars, writerVars
<1>22. CASE UNCHANGED vars
  BY <1>22 DEF TypeOK, vars
<1> QED
  BY <1>1, <1>2, <1>3, <1>4, <1>5, <1>6, <1>7, <1>8, <1>9, <1>11, <1>12, <1>13, <1>14,
     <1>15, <1>16, <1>17, <1>18, <1>19, <1>20, <1>21, <1>22 DEF Next

-----------------------------------------------------------------------------
\* What the two helpers make of a caller's record and of the mutex.
LEMMA ReturnEffect ==
  ASSUME TypeOK, NEW c \in Callers, Return(c)
  PROVE  /\ call'[c] = NoCall
         /\ \A d \in Callers \ {c} : call'[d] = call[d]
         /\ runtimeLock' = IF runtimeLock = c THEN "free" ELSE runtimeLock
BY DEF TypeOK, Return

LEMMA GoToEffect ==
  ASSUME TypeOK, NEW c \in Callers, NEW pc, GoTo(c, pc)
  PROVE  /\ call'[c].pc = pc /\ call'[c].len = call[c].len
         /\ \A d \in Callers \ {c} : call'[d] = call[d]
BY DEF TypeOK, GoTo

\* A call that returns gives the mutex back if it held it.
LEMMA ReturnLocks ==
  ASSUME TypeOK, LockInv, CallInv, NEW c \in Callers, Return(c), UNCHANGED closer
  PROVE  LockInv' /\ CallInv'
BY ReturnEffect, WriteQueueAssumption DEF LockInv, CallInv, InRuntime, NoCall

\* A call that holds the mutex and goes on under it changes neither fact.
LEMMA GoToLocks ==
  ASSUME TypeOK, LockInv, CallInv, NEW c \in Callers, call[c].pc \in InRuntime,
         NEW pc \in InRuntime, GoTo(c, pc), UNCHANGED <<closer, runtimeLock>>
  PROVE  LockInv' /\ CallInv'
BY GoToEffect, WriteQueueAssumption DEF LockInv, CallInv

\* Holders of Session.runtime stay where they should be.
LEMMA LockStep == TypeOK /\ LockInv /\ CallInv /\ [Next]_vars => LockInv' /\ CallInv'
<1> SUFFICES ASSUME TypeOK, LockInv, CallInv, [Next]_vars PROVE LockInv' /\ CallInv'
  OBVIOUS
<1>1. ASSUME NEW c \in Callers, NEW kind \in Kinds, NEW n \in Sizes, Call(c, kind, n)
      PROVE  LockInv' /\ CallInv'
  <2>1. call'[c].pc = "lock" /\ \A d \in Callers \ {c} : call'[d] = call[d]
    BY <1>1 DEF Call, TypeOK
  <2>2. call[c].pc = "idle" /\ UNCHANGED <<closer, runtimeLock>>
    BY <1>1 DEF Call
  <2> QED BY <2>1, <2>2, WriteQueueAssumption DEF LockInv, CallInv, InRuntime
<1>2. ASSUME NEW c \in Callers, LockRuntime(c) PROVE LockInv' /\ CallInv'
  <2>1. CASE Return(c)
    BY <1>2, <2>1, ReturnLocks DEF LockRuntime
  <2>2. CASE ~ Return(c)
    <3> DEFINE pc == IF call[c].kind = "bytes" THEN "check" ELSE "enqueue"
    <3>1. /\ GoTo(c, pc) /\ runtimeLock' = c /\ runtimeLock = "free" /\ closer' = closer
          /\ call[c].len # 0 /\ ~ (call[c].len > MaxBytes)
      BY <1>2, <2>2 DEF LockRuntime
    <3>2. call[c].len \in 1 .. MaxBytes
      BY <3>1, WriteQueueAssumption DEF TypeOK
    <3>3. call'[c].pc \in InRuntime
      BY <3>1, GoToEffect DEF InRuntime
    <3>4. call'[c].len = call[c].len /\ \A d \in Callers \ {c} : call'[d] = call[d]
      BY <3>1, GoToEffect
    <3> QED BY <3>1, <3>2, <3>3, <3>4, WriteQueueAssumption DEF LockInv, CallInv
  <2> QED BY <2>1, <2>2
<1>3. ASSUME NEW c \in Callers, StartFails(c) \/ AllocationFails(c) \/ NotifyOne(c)
      PROVE  LockInv' /\ CallInv'
  BY <1>3, ReturnLocks DEF StartFails, AllocationFails, NotifyOne
<1>4. ASSUME NEW c \in Callers, CheckEnqueueAllowed(c) PROVE LockInv' /\ CallInv'
  BY <1>4, ReturnLocks, GoToLocks DEF CheckEnqueueAllowed, InRuntime
<1>5. ASSUME NEW c \in Callers, Enqueue(c) PROVE LockInv' /\ CallInv'
  BY <1>5, ReturnLocks, GoToLocks DEF Enqueue, InRuntime
<1>6. CASE Dequeue \/ SpuriousWake \/ StartChunk \/ ChunkLoop \/ Wrote \/ WroteNothing
           \/ Polled \/ WriteFails
  BY <1>6 DEF LockInv, CallInv, Dequeue, SpuriousWake, StartChunk, ChunkLoop, Wrote,
              WroteNothing, Polled, WriteFails
<1>7. CASE CloseSession \/ CloseLock \/ CloseQueue \/ CloseNotify \/ CloseJoin
  BY <1>7, WriteQueueAssumption
  DEF LockInv, CallInv, CloseSession, CloseLock, CloseQueue, CloseNotify, CloseJoin
<1>8. CASE UNCHANGED vars
  BY <1>8 DEF LockInv, CallInv, vars
<1> QED BY <1>1, <1>2, <1>3, <1>4, <1>5, <1>6, <1>7, <1>8 DEF Next

\* A thread exists exactly when it was started, and none after close.
LEMMA ThreadStep ==
  TypeOK /\ LockInv /\ ThreadInv /\ [Next]_vars => ThreadInv'
<1> SUFFICES ASSUME TypeOK, LockInv, ThreadInv, [Next]_vars PROVE ThreadInv'
  OBVIOUS
<1>1. ASSUME NEW c \in Callers, LockRuntime(c) PROVE ThreadInv'
  BY <1>1 DEF ThreadInv, LockRuntime, Return
<1>2. ASSUME NEW c \in Callers, NotifyOne(c) PROVE ThreadInv'
  BY <1>2 DEF ThreadInv, NotifyOne, Wake, Return
<1>3. ASSUME NEW c \in Callers,
             \/ StartFails(c) \/ CheckEnqueueAllowed(c) \/ AllocationFails(c) \/ Enqueue(c)
             \/ \E kind \in Kinds, n \in Sizes : Call(c, kind, n)
      PROVE  ThreadInv'
  BY <1>3 DEF ThreadInv, StartFails, CheckEnqueueAllowed, AllocationFails, Enqueue, Call,
              Return, writerVars
<1>4. CASE Dequeue \/ SpuriousWake \/ ChunkLoop \/ Wrote \/ WroteNothing \/ Polled
  BY <1>4 DEF ThreadInv, Dequeue, SpuriousWake, ChunkLoop, Wrote, WroteNothing, Polled
<1>5. CASE StartChunk \/ WriteFails
  BY <1>5 DEF ThreadInv, StartChunk, WriteFails, RecordFailure
<1>6. CASE CloseSession \/ CloseLock \/ CloseQueue
  BY <1>6 DEF ThreadInv, CloseSession, CloseLock, CloseQueue, writerVars
<1>7. CASE CloseNotify \/ CloseJoin
  BY <1>7 DEF ThreadInv, CloseNotify, CloseJoin, Wake, writerVars
<1>8. CASE UNCHANGED vars
  BY <1>8 DEF ThreadInv, vars
<1> QED BY <1>1, <1>2, <1>3, <1>4, <1>5, <1>6, <1>7, <1>8 DEF Next

-----------------------------------------------------------------------------
\* A sequence is empty when its length is 0.
LEMMA EmptyMeansNoLength ==
  ASSUME NEW S, NEW s \in Seq(S)
  PROVE  s = <<>> <=> Len(s) = 0
OBVIOUS

\* An empty queue with a count of zero is tiled and exactly counted.
LEMMA EmptyQueue ==
  ASSUME accepted' \in Nat, queue' = <<>>, queuedBytes' = 0
  PROVE  QueueInv' /\ FirstQueued' = accepted'
<1>1. Len(queue') = 0 /\ 1 .. Len(queue') = {} /\ 1 .. Len(queue') - 1 = {}
  OBVIOUS
<1>2. Tiled' /\ FirstQueued' = accepted'
  BY <1>1 DEF Tiled, FirstQueued
<1>3. queuedBytes' = accepted' - FirstQueued'
  <2>1. \A x \in Nat : x - x = 0
    OBVIOUS
  <2> QED BY <1>2, <2>1
<1>4. queuedBytes' <= MaxBytes'
  BY WriteQueueAssumption
<1> QED BY <1>1, <1>2, <1>3, <1>4 DEF QueueInv, QueueAccounting

\* The queue's invariant depends on four variables only.
LEMMA SameQueue ==
  ASSUME QueueInv, UNCHANGED <<queue, queuedBytes, qClosed, accepted>>
  PROVE  QueueInv'
BY DEF QueueInv, QueueAccounting, Tiled, FirstQueued

\* Pushing a chunk that starts at `accepted' keeps the tiling and the count.
LEMMA PushChunk ==
  ASSUME TypeOK, QueueInv, NEW n \in Nat \ {0}, MayEnqueue(n), UNCHANGED qClosed,
         queue' = Append(queue, [start |-> accepted, len |-> n]),
         queuedBytes' = queuedBytes + n, accepted' = accepted + n
  PROVE  QueueInv' /\ FirstQueued' = FirstQueued
<1> DEFINE chunk == [start |-> accepted, len |-> n]
<1>1. /\ queue \in Seq(Chunk) /\ accepted \in Nat /\ queuedBytes \in Nat /\ chunk \in Chunk
      /\ Len(queue) \in Nat
  BY DEF TypeOK, Chunk
<1>2. /\ Len(queue') = Len(queue) + 1 /\ queue' # <<>>
      /\ queue'[Len(queue) + 1] = chunk
      /\ \A i \in 1 .. Len(queue) : queue'[i] = queue[i]
  BY <1>1
<1>3. \A i \in 1 .. Len(queue) : queue[i] \in Chunk /\ queue[i].start \in Nat /\ queue[i].len \in Nat
  <2>1. \A i \in 1 .. Len(queue) : queue[i] \in Chunk
    BY <1>1
  <2> QED BY <2>1 DEF Chunk
<1>4. queue = <<>> <=> Len(queue) = 0
  BY <1>1
<1>5. FirstQueued' = FirstQueued
  BY <1>1, <1>2, <1>4 DEF FirstQueued
<1>6. Tiled'
  <2>1. \A i \in 1 .. Len(queue) + 1 : queue'[i].len > 0
    BY <1>1, <1>2 DEF QueueInv, QueueAccounting, Tiled
  <2>2. \A i \in 1 .. Len(queue) : queue'[i + 1].start = queue'[i].start + queue'[i].len
    <3> SUFFICES ASSUME NEW i \in 1 .. Len(queue)
                 PROVE  queue'[i + 1].start = queue'[i].start + queue'[i].len
      OBVIOUS
    <3>1. CASE i = Len(queue)
      BY <1>1, <1>2, <1>4, <3>1 DEF QueueInv, QueueAccounting, Tiled
    <3>2. CASE i # Len(queue)
      BY <1>1, <1>2, <3>2 DEF QueueInv, QueueAccounting, Tiled
    <3> QED BY <3>1, <3>2
  <2>3. queue'[Len(queue')].start + queue'[Len(queue')].len = accepted'
    BY <1>1, <1>2
  <2> QED BY <1>1, <1>2, <2>1, <2>2, <2>3 DEF Tiled
<1>7. queuedBytes' = accepted' - FirstQueued' /\ queuedBytes' <= MaxBytes
  <2>1. FirstQueued \in Nat
    BY <1>1, <1>3, <1>4 DEF FirstQueued
  <2> QED BY <1>1, <1>5, <2>1, WriteQueueAssumption DEF QueueInv, QueueAccounting, MayEnqueue
<1>8. \A i \in 1 .. Len(queue') : queue'[i].start + queue'[i].len <= accepted'
  BY <1>1, <1>2, <1>3 DEF QueueInv
<1> QED BY <1>5, <1>6, <1>7, <1>8 DEF QueueInv, QueueAccounting, MayEnqueue

\* Taking the first chunk keeps them too, and the next one continues it.
LEMMA PopChunk ==
  ASSUME TypeOK, QueueInv, queue # <<>>, UNCHANGED <<qClosed, accepted>>,
         queue' = Tail(queue),
         queuedBytes' = SaturatingSub(queuedBytes, Head(queue).len)
  PROVE  /\ QueueInv'
         /\ Head(queue) \in Chunk
         /\ Head(queue).start = FirstQueued
         /\ Head(queue).start + Head(queue).len = FirstQueued'
<1>1. /\ queue \in Seq(Chunk) /\ accepted \in Nat /\ queuedBytes \in Nat
      /\ Len(queue) \in Nat \ {0}
  BY DEF TypeOK
<1>2. /\ Len(queue') = Len(queue) - 1
      /\ \A i \in 1 .. Len(queue) - 1 : queue'[i] = queue[i + 1]
      /\ Head(queue) = queue[1]
      /\ queue' \in Seq(Chunk)
  BY <1>1
<1>3. \A i \in 1 .. Len(queue) : queue[i] \in Chunk /\ queue[i].start \in Nat /\ queue[i].len \in Nat
  <2>1. \A i \in 1 .. Len(queue) : queue[i] \in Chunk
    BY <1>1
  <2> QED BY <2>1 DEF Chunk
<1>4. queue' = <<>> <=> Len(queue) = 1
  <2>1. queue' = <<>> <=> Len(queue') = 0
    BY <1>2, EmptyMeansNoLength
  <2> QED BY <1>1, <1>2, <2>1
<1>5. Head(queue).start + Head(queue).len = FirstQueued'
  <2>1. CASE Len(queue) = 1
    BY <1>1, <1>2, <1>4, <2>1 DEF FirstQueued, QueueInv, QueueAccounting, Tiled
  <2>2. CASE Len(queue) # 1
    <3>1. queue'[1] = queue[2] /\ queue[1 + 1].start = queue[1].start + queue[1].len
      BY <1>1, <1>2, <2>2 DEF QueueInv, QueueAccounting, Tiled
    <3> QED BY <1>2, <1>4, <2>2, <3>1 DEF FirstQueued
  <2> QED BY <2>1, <2>2
<1>6. Tiled'
  <2>1. \A i \in 1 .. Len(queue') : queue'[i].len > 0
    BY <1>1, <1>2 DEF QueueInv, QueueAccounting, Tiled
  <2>2. \A i \in 1 .. Len(queue') - 1 : queue'[i + 1].start = queue'[i].start + queue'[i].len
    BY <1>1, <1>2 DEF QueueInv, QueueAccounting, Tiled
  <2>3. queue' # <<>> => queue'[Len(queue')].start + queue'[Len(queue')].len = accepted'
    BY <1>1, <1>2, <1>4 DEF QueueInv, QueueAccounting, Tiled
  <2> QED BY <2>1, <2>2, <2>3 DEF Tiled
<1>7. Head(queue).start = FirstQueued /\ Head(queue) \in Chunk
  BY <1>1, <1>2, <1>3 DEF FirstQueued
<1>8. queuedBytes' = accepted' - FirstQueued' /\ queuedBytes' <= MaxBytes
  <2>1. /\ queue[1].start \in Nat /\ queue[1].len \in Nat
        /\ queue[1].start + queue[1].len <= accepted
    BY <1>1, <1>3 DEF QueueInv
  <2>2. queuedBytes = accepted - queue[1].start /\ queuedBytes <= MaxBytes
    BY <1>2, <1>7 DEF QueueInv, QueueAccounting
  <2>3. queuedBytes' = queuedBytes - queue[1].len
    BY <1>1, <1>2, <2>1, <2>2 DEF SaturatingSub
  <2>4. accepted' = accepted /\ FirstQueued' = queue[1].start + queue[1].len
    BY <1>2, <1>5
  <2>5. MaxBytes \in Nat
    BY WriteQueueAssumption
  <2> DEFINE start == queue[1].start
             len == queue[1].len
  <2>6. /\ start \in Nat /\ len \in Nat /\ accepted \in Nat
        /\ queuedBytes = accepted - start /\ queuedBytes <= MaxBytes
        /\ queuedBytes' = queuedBytes - len
        /\ accepted' = accepted /\ FirstQueued' = start + len
    BY <1>1, <2>1, <2>2, <2>3, <2>4
  <2> HIDE DEF start, len
  <2>7. queuedBytes' = accepted' - FirstQueued'
    BY <2>6
  <2>8. queuedBytes' <= MaxBytes
    BY <1>1, <2>5, <2>6
  <2> QED BY <2>7, <2>8
<1>9. /\ \A i \in 1 .. Len(queue') : queue'[i].start + queue'[i].len <= accepted'
      /\ qClosed' => queue' = <<>>
  BY <1>1, <1>2 DEF QueueInv
<1> QED BY <1>5, <1>6, <1>7, <1>8, <1>9 DEF QueueInv, QueueAccounting

\* The three ways the queue changes, as every action makes one of them.
LEMMA EnqueueEffect ==
  ASSUME TypeOK, LockInv, CallInv, QueueInv, NEW c \in Callers, Enqueue(c)
  PROVE  /\ QueueInv' /\ FirstQueued' = FirstQueued
         /\ MayEnqueue(call[c].len) \/ UNCHANGED queue
<1>1. CASE MayEnqueue(call[c].len)
  <2>1. call[c].len \in Nat \ {0}
    BY <1>1 DEF Enqueue, CallInv, InRuntime, TypeOK
  <2>2. /\ queue' = Append(queue, [start |-> accepted, len |-> call[c].len])
        /\ queuedBytes' = queuedBytes + call[c].len
        /\ accepted' = accepted + call[c].len
        /\ UNCHANGED qClosed
    BY <1>1 DEF Enqueue
  <2> QED BY <1>1, <2>1, <2>2, PushChunk
<1>2. CASE ~ MayEnqueue(call[c].len)
  BY <1>2, SameQueue DEF Enqueue, FirstQueued
<1> QED BY <1>1, <1>2

LEMMA FailureEffect ==
  ASSUME TypeOK, NEW kind, RecordFailure(kind), UNCHANGED accepted
  PROVE  QueueInv' /\ queue' = <<>>
BY EmptyQueue DEF RecordFailure, TypeOK

\* The queue stays tiled and exactly counted.
LEMMA QueueStep ==
  TypeOK /\ LockInv /\ CallInv /\ QueueInv /\ [Next]_vars => QueueInv'
<1> SUFFICES ASSUME TypeOK, LockInv, CallInv, QueueInv, [Next]_vars PROVE QueueInv'
  OBVIOUS
<1>1. ASSUME NEW c \in Callers,
             \/ LockRuntime(c) \/ StartFails(c) \/ CheckEnqueueAllowed(c)
             \/ AllocationFails(c) \/ NotifyOne(c)
             \/ \E kind \in Kinds, n \in Sizes : Call(c, kind, n)
      PROVE  QueueInv'
  BY <1>1, SameQueue DEF LockRuntime, StartFails, CheckEnqueueAllowed, AllocationFails,
                         NotifyOne, Call, queueVars
<1>2. ASSUME NEW c \in Callers, Enqueue(c) PROVE QueueInv'
  BY <1>2, EnqueueEffect
<1>3. CASE Dequeue
  BY <1>3, PopChunk, SameQueue DEF Dequeue
<1>4. CASE StartChunk
  BY <1>4, FailureEffect, SameQueue DEF StartChunk, queueVars
<1>5. CASE WriteFails
  BY <1>5, FailureEffect DEF WriteFails
<1>6. CASE SpuriousWake \/ ChunkLoop \/ Wrote \/ WroteNothing \/ Polled
  BY <1>6, SameQueue DEF SpuriousWake, ChunkLoop, Wrote, WroteNothing, Polled, queueVars
<1>7. CASE CloseQueue
  BY <1>7, EmptyQueue DEF CloseQueue, TypeOK
<1>8. CASE CloseSession \/ CloseLock \/ CloseNotify \/ CloseJoin
  BY <1>8, SameQueue DEF CloseSession, CloseLock, CloseNotify, CloseJoin, queueVars
<1>9. CASE UNCHANGED vars
  BY <1>9, SameQueue DEF vars
<1> QED BY <1>1, <1>2, <1>3, <1>4, <1>5, <1>6, <1>7, <1>8, <1>9 DEF Next

\* A failed queue stays failed, with its one error event and no thread.
LEMMA FailStep ==
  IInv /\ [Next]_vars => FailInv'
<1> SUFFICES ASSUME IInv, [Next]_vars PROVE FailInv'
  OBVIOUS
<1> USE DEF IInv
<1>1. ASSUME NEW c \in Callers, LockRuntime(c) PROVE FailInv'
  BY <1>1 DEF FailInv, ThreadInv, LockRuntime, queueVars
<1>2. ASSUME NEW c \in Callers, Enqueue(c) PROVE FailInv'
  BY <1>2 DEF FailInv, Enqueue, MayEnqueue, writerVars
<1>3. ASSUME NEW c \in Callers, NotifyOne(c) PROVE FailInv'
  BY <1>3 DEF FailInv, NotifyOne, Wake, queueVars
<1>4. ASSUME NEW c \in Callers,
             \/ StartFails(c) \/ CheckEnqueueAllowed(c) \/ AllocationFails(c)
             \/ \E kind \in Kinds, n \in Sizes : Call(c, kind, n)
      PROVE  FailInv'
  BY <1>4 DEF FailInv, StartFails, CheckEnqueueAllowed, AllocationFails, Call, queueVars,
              writerVars
<1>5. ASSUME NEW kind \in ErrorKinds, RecordFailure(kind), writer \in Writing PROVE FailInv'
  <2>1. failure' # NoFailure
    BY <1>5 DEF RecordFailure, ErrorKinds, NoFailure
  <2>2. writeErrors' = 1 /\ writer' = "exited" /\ queue' = <<>>
    BY <1>5 DEF RecordFailure, FailInv, Writing
  <2> QED BY <2>1, <2>2 DEF FailInv
<1>6. CASE Dequeue
  BY <1>6 DEF FailInv, Dequeue, TypeOK
<1>7. CASE StartChunk
  <2>1. CASE closed \/ writeBusy
    BY <1>5, <1>7, <2>1 DEF StartChunk, ErrorKinds, Writing
  <2>2. CASE ~ (closed \/ writeBusy)
    BY <1>7, <2>2 DEF StartChunk, FailInv, queueVars
  <2> QED BY <2>1, <2>2
<1>8. CASE ChunkLoop
  BY <1>8 DEF FailInv, ChunkLoop, queueVars
<1>9. CASE SpuriousWake \/ Wrote \/ WroteNothing \/ Polled
  BY <1>9 DEF FailInv, SpuriousWake, Wrote, WroteNothing, Polled, queueVars
<1>10. CASE WriteFails
  <2>1. PICK e \in OsErrors : RecordFailure(WriteErrorKind(e))
    BY <1>10 DEF WriteFails
  <2>2. WriteErrorKind(e) \in ErrorKinds
    BY DEF OsErrors, WriteErrorKind, ErrorKinds
  <2> QED BY <1>5, <1>10, <2>1, <2>2 DEF WriteFails, Writing
<1>11. CASE CloseNotify
  BY <1>11 DEF FailInv, CloseNotify, Wake, queueVars
<1>12. CASE CloseQueue
  BY <1>12 DEF FailInv, CloseQueue, writerVars
<1>13. CASE CloseSession \/ CloseLock \/ CloseJoin
  BY <1>13 DEF FailInv, CloseSession, CloseLock, CloseJoin, queueVars, writerVars
<1>14. CASE UNCHANGED vars
  BY <1>14 DEF FailInv, vars
<1> QED BY <1>1, <1>2, <1>3, <1>4, <1>6, <1>7, <1>8, <1>9, <1>10, <1>11, <1>12, <1>13, <1>14
        DEF Next

\* What StreamInv reads: it is kept by any step that leaves all of it alone.
LEMMA SameStream ==
  ASSUME StreamInv, FirstQueued' = FirstQueued,
         UNCHANGED <<qClosed, failure, cur, done, written>>,
         writer' = writer \/ (writer' \notin Writing /\ writer \notin Writing)
                          \/ (writer' \in Writing /\ writer \in Writing)
  PROVE  StreamInv'
<1>1. (writer' \in Writing) <=> (writer \in Writing)
  OBVIOUS
<1> QED BY <1>1 DEF StreamInv

\* The PTY gets the stream without gaps, repetitions or reordering.
LEMMA StreamStep == IInv /\ [Next]_vars => StreamInv'
<1> SUFFICES ASSUME IInv, [Next]_vars PROVE StreamInv'
  OBVIOUS
<1> USE DEF IInv
<1>0. /\ cur.start \in Nat /\ cur.len \in Nat /\ done \in Nat /\ written \in Nat
  BY DEF TypeOK, Chunk
<1>1. ASSUME NEW c \in Callers, LockRuntime(c) PROVE StreamInv'
  <2>1. writer' = writer \/ (writer' \notin Writing /\ writer \notin Writing)
    BY <1>1 DEF LockRuntime, ThreadInv, Writing
  <2> QED BY <1>1, <2>1, SameStream DEF LockRuntime, queueVars, FirstQueued
<1>2. ASSUME NEW c \in Callers, Enqueue(c) PROVE StreamInv'
  BY <1>2, EnqueueEffect, SameStream DEF Enqueue, writerVars
<1>3. ASSUME NEW c \in Callers, NotifyOne(c) PROVE StreamInv'
  <2>1. writer' = writer \/ (writer' \notin Writing /\ writer \notin Writing)
    BY <1>3 DEF NotifyOne, Wake, Writing
  <2> QED BY <1>3, <2>1, SameStream DEF NotifyOne, queueVars, FirstQueued
<1>4. ASSUME NEW c \in Callers,
             \/ StartFails(c) \/ CheckEnqueueAllowed(c) \/ AllocationFails(c)
             \/ \E kind \in Kinds, n \in Sizes : Call(c, kind, n)
      PROVE  StreamInv'
  BY <1>4, SameStream DEF StartFails, CheckEnqueueAllowed, AllocationFails, Call, queueVars,
                          writerVars, FirstQueued
<1>5. ASSUME NEW kind \in ErrorKinds, RecordFailure(kind) PROVE StreamInv'
  <2>1. failure' # NoFailure
    BY <1>5 DEF RecordFailure, ErrorKinds, NoFailure
  <2>2. writer' \notin Writing
    BY <1>5 DEF RecordFailure, Writing
  <2> QED BY <2>1, <2>2 DEF StreamInv
<1>6. CASE Dequeue
  <2>1. CASE queue # <<>>
    <3>1. /\ Head(queue) \in Chunk /\ Head(queue).start = FirstQueued
          /\ Head(queue).start + Head(queue).len = FirstQueued'
      BY <1>6, <2>1, PopChunk DEF Dequeue
    <3>2. /\ cur' = Head(queue) /\ done' = 0 /\ writer' = "took" /\ writer = "dequeue"
          /\ UNCHANGED <<written, qClosed, failure>>
      BY <1>6, <2>1 DEF Dequeue
    <3>3. ~ qClosed /\ failure = NoFailure
      BY <2>1 DEF QueueInv, FailInv
    <3>4. FirstQueued = written
      BY <3>2, <3>3 DEF StreamInv, Writing
    <3>5. Head(queue).start \in Nat /\ Head(queue).len \in Nat
      BY <3>1 DEF Chunk
    <3>6. cur'.start + done' = written' /\ done' <= cur'.len
      BY <1>0, <3>1, <3>2, <3>4, <3>5
    <3>7. cur'.start + cur'.len = FirstQueued'
      BY <3>1, <3>2
    <3> QED BY <3>2, <3>6, <3>7 DEF StreamInv, Writing
  <2>2. CASE queue = <<>>
    <3>1. writer' \notin Writing /\ writer \notin Writing
      BY <1>6, <2>2 DEF Dequeue, Writing
    <3> QED BY <1>6, <2>2, <3>1, SameStream DEF Dequeue, FirstQueued
  <2> QED BY <2>1, <2>2
<1>7. CASE StartChunk
  <2>1. CASE closed \/ writeBusy
    BY <1>5, <1>7, <2>1 DEF StartChunk, ErrorKinds
  <2>2. CASE ~ (closed \/ writeBusy)
    BY <1>7, <2>2, SameStream DEF StartChunk, Writing, queueVars, FirstQueued
  <2> QED BY <2>1, <2>2
<1>8. CASE ChunkLoop
  <2>1. CASE done = cur.len
    <3>1. ~ qClosed => written = FirstQueued
      BY <1>0, <1>8, <2>1 DEF ChunkLoop, StreamInv, Writing
    <3>2. writer' = "dequeue" /\ UNCHANGED <<queue, accepted, qClosed, failure, written>>
      BY <1>8, <2>1 DEF ChunkLoop, queueVars
    <3> QED BY <3>1, <3>2 DEF StreamInv, Writing, FirstQueued
  <2>2. CASE done # cur.len /\ qClosed
    BY <1>8, <2>2 DEF ChunkLoop, StreamInv, Writing, queueVars
  <2>3. CASE done # cur.len /\ ~ qClosed
    BY <1>8, <2>3, SameStream DEF ChunkLoop, Writing, queueVars, FirstQueued
  <2> QED BY <2>1, <2>2, <2>3
<1>9. CASE Wrote
  <2>1. PICK n \in 1 .. (cur.len - done) : done' = done + n /\ written' = written + n
    BY <1>9 DEF Wrote
  <2>2. writer \in Writing /\ writer' \in Writing
    BY <1>9 DEF Wrote, Writing
  <2>3. UNCHANGED <<cur, queue, accepted, qClosed, failure>>
    BY <1>9 DEF Wrote, queueVars
  <2>4. cur.start + done' = written' /\ done' <= cur.len
    BY <1>0, <2>1, <2>2 DEF StreamInv
  <2> QED BY <2>2, <2>3, <2>4 DEF StreamInv, FirstQueued
<1>10. CASE SpuriousWake \/ WroteNothing \/ Polled
  BY <1>10, SameStream DEF SpuriousWake, WroteNothing, Polled, Writing, queueVars, FirstQueued
<1>11. CASE WriteFails
  <2>1. PICK e \in OsErrors : RecordFailure(WriteErrorKind(e))
    BY <1>11 DEF WriteFails
  <2>2. WriteErrorKind(e) \in ErrorKinds
    BY DEF OsErrors, WriteErrorKind, ErrorKinds
  <2> QED BY <1>5, <2>1, <2>2
<1>12. CASE CloseNotify
  <2>1. writer' = writer \/ (writer' \notin Writing /\ writer \notin Writing)
    BY <1>12 DEF CloseNotify, Wake, Writing
  <2> QED BY <1>12, <2>1, SameStream DEF CloseNotify, queueVars, FirstQueued
<1>13. CASE CloseQueue
  BY <1>13 DEF CloseQueue, StreamInv, writerVars
<1>14. CASE CloseSession \/ CloseLock \/ CloseJoin
  BY <1>14, SameStream DEF CloseSession, CloseLock, CloseJoin, queueVars, writerVars,
                           FirstQueued
<1>15. CASE UNCHANGED vars
  BY <1>15, SameStream DEF vars, FirstQueued
<1> QED BY <1>1, <1>2, <1>3, <1>4, <1>6, <1>7, <1>8, <1>9, <1>10, <1>11, <1>12, <1>13, <1>14,
           <1>15 DEF Next

-----------------------------------------------------------------------------
\* Nothing is queued, written, locked or failed when the session starts.
LEMMA InitInv == Init => IInv
<1> SUFFICES ASSUME Init PROVE IInv
  OBVIOUS
<1> USE WriteQueueAssumption DEF Init
<1>1. TypeOK
  <2>1. queue \in Seq(Chunk) /\ cur \in Chunk
    BY DEF Chunk
  <2>2. NoCall \in [pc : CallerPcs, kind : Kinds, len : Nat]
    BY DEF NoCall, Kinds, CallerPcs
  <2>3. call \in [Callers -> [pc : CallerPcs, kind : Kinds, len : Nat]]
    BY <2>2
  <2> QED BY <2>1, <2>3 DEF TypeOK, WriterPcs, CloserPcs
<1>2. LockInv /\ CallInv /\ ThreadInv
  BY DEF LockInv, CallInv, ThreadInv, InRuntime, NoCall
<1>3. QueueInv
  <2>1. Tiled /\ FirstQueued = 0
    BY DEF Tiled, FirstQueued
  <2>2. \A i \in 1 .. Len(queue) : queue[i].start + queue[i].len <= accepted
    OBVIOUS
  <2> QED BY <2>1, <2>2 DEF QueueInv, QueueAccounting
<1>4. StreamInv /\ FailInv
  BY DEF StreamInv, FailInv, Writing, FirstQueued
<1> QED BY <1>1, <1>2, <1>3, <1>4 DEF IInv

LEMMA InductiveStep == IInv /\ [Next]_vars => IInv'
BY TypeStep, LockStep, ThreadStep, QueueStep, StreamStep, FailStep DEF IInv

\* IInv holds in every state of every run of the write queue.
THEOREM Inductive == Spec => []IInv
BY InitInv, InductiveStep, PTL DEF Spec

\* Every variable keeps its type; in particular a write failure is stored with
\* one of the kinds normalize_write_error leaves.
THEOREM TypeCorrect == Spec => []TypeOK
<1>1. IInv => TypeOK
  BY DEF IInv
<1> QED BY <1>1, Inductive, PTL

\* WriteQueueState.queued_bytes is exact and bounded by write_queue_max_bytes.
THEOREM QueueAccountingHolds == Spec => []QueueAccounting
<1>1. IInv => QueueAccounting
  BY DEF IInv, QueueInv
<1> QED BY <1>1, Inductive, PTL

\* The PTY receives exactly the accepted bytes, in the order of acceptance.
THEOREM PrefixWrittenHolds == Spec => []PrefixWritten
<1>1. IInv => PrefixWritten
  BY DEF IInv, StreamInv, PrefixWritten, NextUp, Writing
<1> QED BY <1>1, Inductive, PTL

\* A writer that gives up fails the queue and reports it once.
THEOREM LossIsReportedHolds == Spec => []LossIsReported
<1>1. IInv => LossIsReported
  BY DEF IInv, FailInv, LossIsReported, TypeOK
<1> QED BY <1>1, Inductive, PTL

\* No writer thread outlives close or is started after it.
THEOREM ClosedMeansJoinedHolds == Spec => []ClosedMeansJoined
<1>1. IInv => ClosedMeansJoined
  BY DEF IInv, LockInv, ThreadInv, ClosedMeansJoined, TypeOK, InRuntime
<1> QED BY <1>1, Inductive, PTL

\* No step reopens a closed queue, forgets a failure or accepts after either.
LEMMA RefusalStep ==
  ASSUME IInv, [Next]_vars, failure # NoFailure \/ qClosed
  PROVE  /\ accepted' = accepted
         /\ qClosed => qClosed'
         /\ failure # NoFailure => failure' # NoFailure
<1>1. ASSUME NEW c \in Callers, Enqueue(c)
      PROVE  accepted' = accepted /\ UNCHANGED <<qClosed, failure>>
  BY <1>1 DEF Enqueue, MayEnqueue
<1>2. ASSUME NEW c \in Callers,
             \/ LockRuntime(c) \/ StartFails(c) \/ CheckEnqueueAllowed(c)
             \/ AllocationFails(c) \/ NotifyOne(c)
             \/ \E kind \in Kinds, n \in Sizes : Call(c, kind, n)
      PROVE  UNCHANGED <<accepted, qClosed, failure>>
  BY <1>2 DEF LockRuntime, StartFails, CheckEnqueueAllowed, AllocationFails, NotifyOne, Call,
              queueVars
<1>3. CASE StartChunk \/ WriteFails
  <2>1. failure = NoFailure
    BY <1>3 DEF IInv, FailInv, StartChunk, WriteFails
  <2> QED BY <1>3, <2>1 DEF StartChunk, WriteFails, RecordFailure, queueVars
<1>4. CASE \/ Dequeue \/ SpuriousWake \/ ChunkLoop \/ Wrote \/ WroteNothing \/ Polled
           \/ CloseSession \/ CloseLock \/ CloseQueue \/ CloseNotify \/ CloseJoin
  BY <1>4 DEF Dequeue, SpuriousWake, ChunkLoop, Wrote, WroteNothing, Polled, CloseSession,
              CloseLock, CloseQueue, CloseNotify, CloseJoin, queueVars
<1>5. CASE UNCHANGED vars
  BY <1>5 DEF vars
<1> QED BY <1>1, <1>2, <1>3, <1>4, <1>5 DEF Next

\* Once the queue is closed or has failed, no later write is accepted.
THEOREM RefusalIsFinalHolds == Spec => RefusalIsFinal
<1>1. IInv /\ IInv' /\ [Next]_vars =>
        [failure # NoFailure \/ qClosed =>
           accepted' = accepted /\ queue' = <<>> /\ (failure' # NoFailure \/ qClosed')]_vars
  BY RefusalStep DEF IInv, FailInv, QueueInv
<1> QED BY <1>1, Inductive, PTL DEF Spec, RefusalIsFinal

-----------------------------------------------------------------------------
(***************************************************************************)
(* WriteQueue implements BytePipe for any callers, sizes and limits.  The  *)
(* proof adds to IInv that chunks lie in the queue in stream order:        *)
(* without it a write could deliver a byte that a later chunk holds too.   *)
(***************************************************************************)

\* A chunk ends before any later chunk begins.
InOrder ==
  \A i, j \in 1 .. Len(queue) :
    i < j => queue[i].start + queue[i].len <= queue[j].start

InHand == IF writer \in Writing THEN BytesFrom(cur, done) ELSE {}
Queued == UNION {BytesFrom(queue[i], 0) : i \in 1 .. Len(queue)}

\* Every step leaves the queue alone, empties it, appends a chunk or takes one.
LEMMA QueueChange ==
  ASSUME [Next]_vars
  PROVE  \/ queue' = queue
         \/ queue' = <<>>
         \/ \E n : queue' = Append(queue, [start |-> accepted, len |-> n])
         \/ queue # <<>> /\ queue' = Tail(queue)
<1>1. ASSUME NEW c \in Callers,
             \/ LockRuntime(c) \/ StartFails(c) \/ CheckEnqueueAllowed(c)
             \/ AllocationFails(c) \/ NotifyOne(c)
             \/ \E kind \in Kinds, n \in Sizes : Call(c, kind, n)
      PROVE  queue' = queue
  BY <1>1 DEF LockRuntime, StartFails, CheckEnqueueAllowed, AllocationFails, NotifyOne, Call,
              queueVars
<1>2. ASSUME NEW c \in Callers, Enqueue(c)
      PROVE  \/ queue' = queue
             \/ \E n : queue' = Append(queue, [start |-> accepted, len |-> n])
  BY <1>2 DEF Enqueue
<1>3. CASE Dequeue
  BY <1>3 DEF Dequeue
<1>4. CASE StartChunk \/ WriteFails
  BY <1>4 DEF StartChunk, WriteFails, RecordFailure, queueVars
<1>5. CASE SpuriousWake \/ ChunkLoop \/ Wrote \/ WroteNothing \/ Polled
  BY <1>5 DEF SpuriousWake, ChunkLoop, Wrote, WroteNothing, Polled, queueVars
<1>6. CASE CloseQueue
  BY <1>6 DEF CloseQueue
<1>7. CASE CloseSession \/ CloseLock \/ CloseNotify \/ CloseJoin
  BY <1>7 DEF CloseSession, CloseLock, CloseNotify, CloseJoin, queueVars
<1>8. CASE UNCHANGED vars
  BY <1>8 DEF vars
<1> QED BY <1>1, <1>2, <1>3, <1>4, <1>5, <1>6, <1>7, <1>8 DEF Next

LEMMA InOrderStep == IInv /\ InOrder /\ [Next]_vars => InOrder'
<1> SUFFICES ASSUME IInv, InOrder, [Next]_vars PROVE InOrder'
  OBVIOUS
<1>1. queue \in Seq(Chunk) /\ Len(queue) \in Nat
  BY DEF IInv, TypeOK
<1>2. CASE queue' = queue
  BY <1>2 DEF InOrder
<1>3. CASE queue' = <<>>
  BY <1>3 DEF InOrder
<1>4. ASSUME NEW n, queue' = Append(queue, [start |-> accepted, len |-> n]) PROVE InOrder'
  <2>1. /\ Len(queue') = Len(queue) + 1
        /\ \A i \in 1 .. Len(queue) : queue'[i] = queue[i]
        /\ queue'[Len(queue) + 1] = [start |-> accepted, len |-> n]
    BY <1>1, <1>4
  <2> SUFFICES ASSUME NEW i \in 1 .. Len(queue'), NEW j \in 1 .. Len(queue'), i < j
               PROVE  queue'[i].start + queue'[i].len <= queue'[j].start
    BY DEF InOrder
  <2>2. i \in 1 .. Len(queue) /\ queue'[i] = queue[i]
    BY <1>1, <2>1
  <2>3. CASE j = Len(queue) + 1
    <3>1. queue'[j].start = accepted
      BY <2>1, <2>3
    <3>2. queue[i].start + queue[i].len <= accepted
      BY <2>2 DEF IInv, QueueInv
    <3> QED BY <2>2, <3>1, <3>2
  <2>4. CASE j # Len(queue) + 1
    <3>1. j \in 1 .. Len(queue) /\ queue'[j] = queue[j]
      BY <1>1, <2>1, <2>4
    <3> QED BY <2>2, <3>1 DEF InOrder
  <2> QED BY <2>3, <2>4
<1>5. CASE queue # <<>> /\ queue' = Tail(queue)
  <2>1. /\ Len(queue') = Len(queue) - 1
        /\ \A i \in 1 .. Len(queue) - 1 : queue'[i] = queue[i + 1]
    BY <1>1, <1>5
  <2> SUFFICES ASSUME NEW i \in 1 .. Len(queue'), NEW j \in 1 .. Len(queue'), i < j
               PROVE  queue'[i].start + queue'[i].len <= queue'[j].start
    BY DEF InOrder
  <2>2. /\ i + 1 \in 1 .. Len(queue) /\ j + 1 \in 1 .. Len(queue) /\ i + 1 < j + 1
        /\ queue'[i] = queue[i + 1] /\ queue'[j] = queue[j + 1]
    BY <1>1, <2>1
  <2> QED BY <2>2 DEF InOrder
<1> QED BY <1>2, <1>3, <1>4, <1>5, QueueChange

LEMMA InOrderAlways == Spec => []InOrder
<1>1. Init => InOrder
  BY DEF Init, InOrder
<1> QED BY <1>1, Inductive, InOrderStep, PTL DEF Spec

-----------------------------------------------------------------------------
LEMMA PendingSplit == Pending = InHand \cup Queued
BY DEF Pending, InHand, Queued

\* A step that keeps the queue and its state and, byte for byte, what the writer
\* holds is invisible to the pipe.
LEMMA Stutter ==
  ASSUME UNCHANGED <<queue, accepted, written, failure, qClosed>>, InHand' = InHand
  PROVE  UNCHANGED Pipe!vars
BY DEF Pipe!vars, Pending, InHand

\* Giving up the chunk in hand and the queue is the pipe breaking.
LEMMA FailureBreaks ==
  ASSUME NEW kind \in ErrorKinds, RecordFailure(kind), UNCHANGED accepted
  PROVE  Pipe!Break
<1>1. failure' # NoFailure
  BY DEF RecordFailure, ErrorKinds, NoFailure
<1>2. Queued' = {} /\ InHand' = {}
  BY DEF RecordFailure, Queued, InHand, Writing
<1>3. Pending' \subseteq Pending
  BY <1>2, PendingSplit DEF Pending, InHand, Queued
<1>4. UNCHANGED written
  BY DEF RecordFailure
<1> QED BY <1>1, <1>3, <1>4 DEF Pipe!Break

\* Accepting a chunk is bytes entering the pipe.
LEMMA EnqueueEnters ==
  ASSUME IInv, NEW c \in Callers, Enqueue(c), MayEnqueue(call[c].len)
  PROVE  Pipe!Enter
<1> DEFINE n == call[c].len
           chunk == [start |-> accepted, len |-> n]
<1>1. /\ n \in Nat /\ n > 0 /\ accepted \in Nat /\ queue \in Seq(Chunk)
      /\ Len(queue) \in Nat
  BY WriteQueueAssumption DEF Enqueue, IInv, CallInv, InRuntime, TypeOK
<1>2. /\ queue' = Append(queue, chunk) /\ accepted' = accepted + n
      /\ UNCHANGED <<qClosed, failure, writer, cur, done, written>>
  BY DEF Enqueue, MayEnqueue, writerVars
<1> HIDE DEF n
<1>3. /\ Len(queue') = Len(queue) + 1
      /\ \A i \in 1 .. Len(queue) : queue'[i] = queue[i]
      /\ queue'[Len(queue) + 1] = chunk
  BY <1>1, <1>2
<1>4. BytesFrom(chunk, 0) = accepted + 1 .. accepted'
  BY <1>1, <1>2 DEF BytesFrom
<1>5. Queued' = UNION {BytesFrom(queue'[i], 0) : i \in 1 .. Len(queue')}
  BY DEF Queued, BytesFrom
<1>6. 1 .. Len(queue') = (1 .. Len(queue)) \cup {Len(queue) + 1}
  BY <1>1, <1>3
<1>7. \A i \in 1 .. Len(queue) : BytesFrom(queue'[i], 0) = BytesFrom(queue[i], 0)
  BY <1>3
<1>8. BytesFrom(queue'[Len(queue) + 1], 0) = accepted + 1 .. accepted'
  BY <1>3, <1>4
<1>9. Queued' = Queued \cup (accepted + 1 .. accepted')
  BY <1>5, <1>6, <1>7, <1>8, Zenon DEF Queued
<1>10. InHand' = InHand
  BY <1>2 DEF InHand, BytesFrom
<1>11. Pending' = Pending \cup (accepted + 1 .. accepted')
  <2>1. Pending' = InHand' \cup Queued'
    BY DEF Pending, InHand, Queued, BytesFrom
  <2> QED BY <1>9, <1>10, <2>1, PendingSplit
<1>12. accepted' > accepted
  BY <1>1, <1>2
<1>13. ~ (failure # NoFailure \/ qClosed)
  BY DEF MayEnqueue
<1> QED BY <1>2, <1>11, <1>12, <1>13 DEF Pipe!Enter

\* Taking the first chunk moves its bytes from the queue to the writer's hands.
LEMMA DequeueMoves ==
  ASSUME IInv, Dequeue, queue # <<>>
  PROVE  UNCHANGED Pipe!vars
<1>1. queue \in Seq(Chunk) /\ Len(queue) \in Nat \ {0}
  BY DEF IInv, TypeOK
<1>2. /\ cur' = Head(queue) /\ done' = 0 /\ queue' = Tail(queue)
      /\ writer = "dequeue" /\ writer' = "took"
      /\ UNCHANGED <<accepted, written, failure, qClosed>>
  BY DEF Dequeue
<1>3. /\ Len(queue') = Len(queue) - 1
      /\ \A i \in 1 .. Len(queue) - 1 : queue'[i] = queue[i + 1]
      /\ Head(queue) = queue[1]
  BY <1>1, <1>2
<1>4. InHand = {} /\ InHand' = BytesFrom(queue[1], 0)
  BY <1>2, <1>3 DEF InHand, Writing, BytesFrom
<1>5. Queued' = UNION {BytesFrom(queue'[i], 0) : i \in 1 .. Len(queue')}
  BY DEF Queued, BytesFrom
<1>6. Queued = BytesFrom(queue[1], 0) \cup Queued'
  <2>1. ASSUME NEW x \in Queued PROVE x \in BytesFrom(queue[1], 0) \cup Queued'
    <3>1. PICK i \in 1 .. Len(queue) : x \in BytesFrom(queue[i], 0)
      BY <2>1 DEF Queued
    <3>2. CASE i = 1
      BY <3>1, <3>2
    <3>3. CASE i # 1
      <4>1. i - 1 \in 1 .. Len(queue') /\ queue'[i - 1] = queue[i]
        BY <1>1, <1>3, <3>3
      <4> QED BY <1>5, <3>1, <4>1
    <3> QED BY <3>2, <3>3
  <2>2. BytesFrom(queue[1], 0) \subseteq Queued
    <3>1. 1 \in 1 .. Len(queue)
      BY <1>1
    <3> QED BY <3>1 DEF Queued
  <2>3. ASSUME NEW x \in Queued' PROVE x \in Queued
    <3>1. PICK i \in 1 .. Len(queue') : x \in BytesFrom(queue'[i], 0)
      BY <1>5, <2>3
    <3>2. i + 1 \in 1 .. Len(queue) /\ queue'[i] = queue[i + 1]
      BY <1>1, <1>3
    <3> QED BY <3>1, <3>2 DEF Queued
  <2> QED BY <2>1, <2>2, <2>3
<1>7. Pending' = Pending
  <2>1. Pending' = InHand' \cup Queued'
    BY DEF Pending, InHand, Queued, BytesFrom
  <2> QED BY <1>4, <1>6, <2>1, PendingSplit
<1> QED BY <1>2, <1>7 DEF Pipe!vars

\* A write takes the next bytes of the chunk in hand, which no queued chunk holds.
LEMMA WroteDelivers ==
  ASSUME IInv, InOrder, Wrote
  PROVE  Pipe!Deliver
<1>1. PICK n \in 1 .. (cur.len - done) : done' = done + n /\ written' = written + n
  BY DEF Wrote
<1>2. /\ writer = "syscall" /\ writer' = "loop"
      /\ UNCHANGED <<queue, accepted, failure, qClosed, cur>>
  BY DEF Wrote, queueVars
<1>3. /\ cur.start \in Nat /\ cur.len \in Nat /\ done \in Nat /\ written \in Nat
      /\ n \in Nat /\ n > 0 /\ done + n <= cur.len
  BY <1>1 DEF IInv, TypeOK, Chunk
<1>4. cur.start + done = written
  BY <1>2 DEF IInv, StreamInv, Writing
<1>5. InHand = written + 1 .. cur.start + cur.len
  BY <1>2, <1>3, <1>4 DEF InHand, Writing, BytesFrom
<1>6. InHand' = written + n + 1 .. cur.start + cur.len
  <2>1. InHand' = BytesFrom(cur, done + n)
    BY <1>1, <1>2 DEF InHand, Writing, BytesFrom
  <2>2. cur.start + (done + n) + 1 = written + n + 1
    BY <1>3, <1>4
  <2> QED BY <2>1, <2>2 DEF BytesFrom
<1>7. ASSUME NEW x \in Queued PROVE x \notin written + 1 .. written'
  <2>1. PICK i \in 1 .. Len(queue) : x \in BytesFrom(queue[i], 0)
    BY <1>7 DEF Queued
  <2>2. /\ queue \in Seq(Chunk) /\ Len(queue) \in Nat /\ queue # <<>>
        /\ 1 \in 1 .. Len(queue)
    BY <2>1 DEF IInv, TypeOK
  <2>3. queue[1] \in Chunk /\ queue[i] \in Chunk
    BY <2>1, <2>2
  <2>4. /\ queue[1].start \in Nat /\ queue[1].len \in Nat
        /\ queue[i].start \in Nat /\ queue[i].len \in Nat
    BY <2>3 DEF Chunk
  <2>5. cur.start + cur.len = queue[1].start
    BY <1>2, <2>2 DEF IInv, QueueInv, StreamInv, Writing, FirstQueued
  <2>6. queue[1].start <= queue[i].start
    <3>1. CASE i = 1
      BY <2>4, <3>1
    <3>2. CASE i # 1
      <4>1. queue[1].start + queue[1].len <= queue[i].start
        BY <2>1, <2>2, <3>2 DEF InOrder
      <4> QED BY <2>4, <4>1
    <3> QED BY <3>1, <3>2
  <2>7. x \in Nat /\ x >= queue[i].start + 1
    BY <2>1, <2>4 DEF BytesFrom
  <2>8. written' <= cur.start + cur.len
    BY <1>1, <1>3, <1>4
  <2>9. x > written'
    BY <1>1, <1>3, <2>4, <2>5, <2>6, <2>7, <2>8
  <2> QED BY <1>1, <1>3, <2>7, <2>9
<1>8. Queued' = Queued
  BY <1>2 DEF Queued, BytesFrom
<1>9. written + 1 .. written' \subseteq InHand
  BY <1>1, <1>3, <1>4, <1>5
<1>10. InHand' = InHand \ (written + 1 .. written')
  BY <1>1, <1>3, <1>4, <1>5, <1>6
<1>11. Pending' = Pending \ (written + 1 .. written')
  <2>1. Pending' = InHand' \cup Queued'
    BY DEF Pending, InHand, Queued, BytesFrom
  <2> QED BY <1>7, <1>8, <1>10, <2>1, PendingSplit
<1>12. written + 1 .. written' \subseteq Pending
  BY <1>9, PendingSplit
<1>13. written' > written
  BY <1>1, <1>3
<1> QED BY <1>2, <1>11, <1>12, <1>13 DEF Pipe!Deliver

\* A chunk that is finished leaves no byte in hand; one given up after close
\* breaks the pipe, which close has broken already.
LEMMA ChunkLoopMaps ==
  ASSUME IInv, ChunkLoop
  PROVE  Pipe!Break \/ UNCHANGED Pipe!vars
<1>1. UNCHANGED <<queue, accepted, written, failure, qClosed, cur, done>>
  BY DEF ChunkLoop, queueVars
<1>2. cur.start \in Nat /\ cur.len \in Nat
  BY DEF IInv, TypeOK, Chunk
<1>3. CASE done = cur.len
  <2>1. InHand = BytesFrom(cur, cur.len) /\ InHand' = {}
    BY <1>1, <1>3 DEF ChunkLoop, InHand, Writing
  <2>2. BytesFrom(cur, cur.len) = {}
    BY <1>2 DEF BytesFrom
  <2> QED BY <1>1, <2>1, <2>2, Stutter
<1>4. CASE done # cur.len /\ qClosed
  <2>1. InHand' = {} /\ Queued' = Queued
    BY <1>1, <1>4 DEF ChunkLoop, InHand, Writing, Queued, BytesFrom
  <2>2. Pending' \subseteq Pending
    BY <2>1, PendingSplit DEF Pending, InHand, Queued, BytesFrom
  <2> QED BY <1>1, <1>4, <2>2 DEF Pipe!Break
<1>5. CASE done # cur.len /\ ~ qClosed
  <2>1. InHand' = InHand
    BY <1>1, <1>5 DEF ChunkLoop, InHand, Writing, BytesFrom
  <2> QED BY <1>1, <2>1, Stutter
<1> QED BY <1>3, <1>4, <1>5

\* Every step of the write queue is a step of the pipe or invisible to it.
LEMMA StepMaps == IInv /\ InOrder /\ [Next]_vars => [Pipe!Next]_(Pipe!vars)
<1> SUFFICES ASSUME IInv, InOrder, [Next]_vars PROVE Pipe!Next \/ UNCHANGED Pipe!vars
  OBVIOUS
<1>1. ASSUME NEW c \in Callers,
             \/ StartFails(c) \/ CheckEnqueueAllowed(c) \/ AllocationFails(c)
             \/ \E kind \in Kinds, n \in Sizes : Call(c, kind, n)
      PROVE  UNCHANGED Pipe!vars
  BY <1>1, Stutter DEF StartFails, CheckEnqueueAllowed, AllocationFails, Call, queueVars,
                       writerVars, InHand, BytesFrom
<1>2. ASSUME NEW c \in Callers, LockRuntime(c) PROVE UNCHANGED Pipe!vars
  <2>1. InHand' = InHand
    BY <1>2 DEF LockRuntime, IInv, ThreadInv, InHand, Writing, BytesFrom
  <2> QED BY <1>2, <2>1, Stutter DEF LockRuntime, queueVars
<1>3. ASSUME NEW c \in Callers, NotifyOne(c) PROVE UNCHANGED Pipe!vars
  <2>1. InHand' = InHand
    BY <1>3 DEF NotifyOne, Wake, InHand, Writing, BytesFrom
  <2> QED BY <1>3, <2>1, Stutter DEF NotifyOne, queueVars
<1>4. ASSUME NEW c \in Callers, Enqueue(c) PROVE Pipe!Enter \/ UNCHANGED Pipe!vars
  <2>1. CASE MayEnqueue(call[c].len)
    BY <1>4, <2>1, EnqueueEnters
  <2>2. CASE ~ MayEnqueue(call[c].len)
    BY <1>4, <2>2, Stutter DEF Enqueue, writerVars, InHand, BytesFrom
  <2> QED BY <2>1, <2>2
<1>5. CASE Dequeue
  <2>1. CASE queue # <<>>
    BY <1>5, <2>1, DequeueMoves
  <2>2. CASE queue = <<>>
    <3>1. InHand' = InHand
      BY <1>5, <2>2 DEF Dequeue, InHand, Writing
    <3> QED BY <1>5, <2>2, <3>1, Stutter DEF Dequeue
  <2> QED BY <2>1, <2>2
<1>6. CASE StartChunk
  <2>1. CASE closed \/ writeBusy
    BY <1>6, <2>1, FailureBreaks DEF StartChunk, ErrorKinds, Pipe!Next
  <2>2. CASE ~ (closed \/ writeBusy)
    <3>1. InHand' = InHand
      BY <1>6, <2>2 DEF StartChunk, InHand, Writing, BytesFrom
    <3> QED BY <1>6, <2>2, <3>1, Stutter DEF StartChunk, queueVars
  <2> QED BY <2>1, <2>2
<1>7. CASE ChunkLoop
  BY <1>7, ChunkLoopMaps DEF Pipe!Next
<1>8. CASE Wrote
  BY <1>8, WroteDelivers DEF Pipe!Next
<1>9. CASE SpuriousWake \/ WroteNothing \/ Polled
  <2>1. InHand' = InHand
    BY <1>9 DEF SpuriousWake, WroteNothing, Polled, InHand, Writing, BytesFrom
  <2> QED BY <1>9, <2>1, Stutter DEF SpuriousWake, WroteNothing, Polled, queueVars
<1>10. CASE WriteFails
  <2>1. PICK e \in OsErrors : RecordFailure(WriteErrorKind(e))
    BY <1>10 DEF WriteFails
  <2>2. WriteErrorKind(e) \in ErrorKinds
    BY DEF OsErrors, WriteErrorKind, ErrorKinds
  <2> QED BY <1>10, <2>1, <2>2, FailureBreaks DEF WriteFails, Pipe!Next
<1>11. CASE CloseQueue
  <2>1. Queued' = {} /\ InHand' = InHand
    BY <1>11 DEF CloseQueue, writerVars, Queued, InHand, BytesFrom
  <2>2. Pending' \subseteq Pending
    BY <2>1, PendingSplit DEF Pending, InHand, Queued, BytesFrom
  <2> QED BY <1>11, <2>2 DEF CloseQueue, writerVars, Pipe!Break, Pipe!Next
<1>12. CASE CloseNotify
  <2>1. InHand' = InHand
    BY <1>12 DEF CloseNotify, Wake, InHand, Writing, BytesFrom
  <2> QED BY <1>12, <2>1, Stutter DEF CloseNotify, queueVars
<1>13. CASE CloseSession \/ CloseLock \/ CloseJoin
  BY <1>13, Stutter DEF CloseSession, CloseLock, CloseJoin, queueVars, writerVars, InHand,
                        BytesFrom
<1>14. CASE UNCHANGED vars
  BY <1>14, Stutter DEF vars, InHand, BytesFrom
<1> QED BY <1>1, <1>2, <1>3, <1>4, <1>5, <1>6, <1>7, <1>8, <1>9, <1>10, <1>11, <1>12, <1>13,
           <1>14 DEF Next, Pipe!Next

LEMMA InitMaps == Init => Pipe!Init
BY DEF Init, Pipe!Init, Pending, Writing

\* The program behind the PTY gets the accepted bytes in order, each once, and
\* none is dropped before the queue fails or is closed: for any number of
\* callers and any limit, short write, interruption, failure or close.
THEOREM ImplementsBytePipeHolds == Spec => ImplementsBytePipe
BY InitMaps, StepMaps, Inductive, InOrderAlways, PTL
   DEF ImplementsBytePipe, Pipe!Spec, Spec
=============================================================================
