-------------------------- MODULE PtyDescriptorProofs --------------------------
(***************************************************************************)
(* SleepsOnlyWithoutReader, for any terminal and any number of writes.     *)
(* The flag and the thread that owns it are two pieces of state, changed   *)
(* by the reader and read by the writer: the invariant ties them together. *)
(***************************************************************************)
EXTENDS PtyDescriptor, TLAPS

\* Counters never go below zero, though the queue is emptied while the writer
\* takes from it.
TypeInv ==
  /\ {nonblocking, qClosed} \subseteq BOOLEAN
  /\ reader \in ReaderPcs
  /\ writer \in WriterPcs
  /\ {queued, chunks} \subseteq Nat
  /\ room \in 0 .. Capacity
  /\ owner \in OwnerPcs

\* The flag is set exactly while the reader's guard lives.
GuardInv == nonblocking = (reader = "running")

\* A thread that close has joined has ended, and only close closes the queue.
JoinInv ==
  /\ owner \in {"joinWriter", "done"} => reader = "done"
  /\ owner = "done" => writer \in {"none", "exited"}
  /\ qClosed <=> owner \in {"joinReader", "joinWriter", "done"}
  /\ qClosed => queued = 0

IInv == TypeInv /\ GuardInv /\ JoinInv

\* After close has returned neither thread uses the descriptor, and the flags are
\* those it was opened with (close_runtime, NonblockingFd's drop).
ClosedRestoresFlags ==
  owner = "done" =>
    /\ reader = "done" /\ ~ nonblocking
    /\ writer \in {"none", "exited"}

LEMMA InitInv == Init => IInv
<1> SUFFICES ASSUME Init PROVE IInv
  OBVIOUS
<1>1. TypeInv
  <2>1. {nonblocking, qClosed} \subseteq BOOLEAN
    BY Zenon DEF Init
  <2>2. {queued, chunks} \subseteq Nat /\ room \in 0 .. Capacity
    BY PtyDescriptorAssumption DEF Init
  <2>3. reader \in ReaderPcs /\ writer \in WriterPcs /\ owner \in OwnerPcs
    BY DEF Init, ReaderPcs, WriterPcs, OwnerPcs, Closing
  <2> QED BY <2>1, <2>2, <2>3 DEF TypeInv
<1>2. GuardInv /\ JoinInv
  BY DEF Init, GuardInv, JoinInv
<1> QED BY <1>1, <1>2 DEF IInv

LEMMA InductiveStep == IInv /\ [Next]_vars => IInv'
<1> SUFFICES ASSUME IInv, [Next]_vars PROVE IInv'
  OBVIOUS
<1> USE PtyDescriptorAssumption DEF IInv, ReaderPcs, WriterPcs, OwnerPcs, Closing
<1>1. TypeInv'
  <2>1. CASE SetNonblocking \/ RestoreFlags
    BY <2>1 DEF TypeInv, SetNonblocking, RestoreFlags
  <2>2. CASE EnqueueChunk
    BY <2>2 DEF TypeInv, EnqueueChunk
  <2>3. CASE WriterStep
    BY <2>3 DEF TypeInv, WriterStep, Dequeue, ChunkLoop, Wrote, WriteFindsNoRoom,
                WriteFails, Polled
  <2>4. CASE ProgramReads \/ ChildForks \/ ChildExits \/ BackgroundExits
    BY <2>4 DEF TypeInv, ProgramReads, ChildForks, ChildExits, BackgroundExits
  <2>5. CASE HostCloses \/ JoinReader \/ JoinWriter
    BY <2>5 DEF TypeInv, HostCloses, JoinReader, JoinWriter
  <2>6. CASE CloseRuntime
    BY <2>6 DEF TypeInv, CloseRuntime
  <2>7. CASE UNCHANGED vars
    BY <2>7 DEF TypeInv, vars
  <2> QED BY <2>1, <2>2, <2>3, <2>4, <2>5, <2>6, <2>7 DEF Next, CloseStep
<1>2. GuardInv'
  <2>1. CASE SetNonblocking \/ RestoreFlags
    BY <2>1 DEF TypeInv, GuardInv, SetNonblocking, RestoreFlags
  <2>2. CASE UNCHANGED <<nonblocking, reader>>
    BY <2>2 DEF GuardInv
  <2>3. [Next]_vars => SetNonblocking \/ RestoreFlags \/ UNCHANGED <<nonblocking, reader>>
    BY DEF Next, vars, EnqueueChunk, WriterStep, Dequeue, ChunkLoop, Wrote, WriteFindsNoRoom,
           WriteFails, Polled, ProgramReads, ChildForks, ChildExits, BackgroundExits,
           HostCloses, CloseStep, CloseRuntime, JoinReader, JoinWriter
  <2> QED BY <2>1, <2>2, <2>3
<1>3. JoinInv'
  <2> USE DEF TypeInv, JoinInv
  <2>1. CASE SetNonblocking \/ RestoreFlags
    BY <2>1 DEF SetNonblocking, RestoreFlags
  <2>2. CASE EnqueueChunk
    BY <2>2 DEF EnqueueChunk
  <2>3. CASE WriterStep
    BY <2>3 DEF WriterStep, Dequeue, ChunkLoop, Wrote, WriteFindsNoRoom, WriteFails, Polled
  <2>4. CASE ProgramReads \/ ChildForks \/ ChildExits \/ BackgroundExits
    BY <2>4 DEF ProgramReads, ChildForks, ChildExits, BackgroundExits
  <2>5. CASE HostCloses \/ CloseStep
    BY <2>5 DEF HostCloses, CloseStep, CloseRuntime, JoinReader, JoinWriter
  <2>6. CASE UNCHANGED vars
    BY <2>6 DEF vars
  <2> QED BY <2>1, <2>2, <2>3, <2>4, <2>5, <2>6 DEF Next
<1> QED BY <1>1, <1>2, <1>3

\* The types, the guard's flag and the joins are an inductive invariant.
THEOREM Inductive == Spec => []IInv
BY InitInv, InductiveStep, PTL DEF Spec

\* While the reader runs no write(2) goes to sleep.
THEOREM SleepsOnlyWithoutReaderHolds == Spec => SleepsOnlyWithoutReader
<1> DEFINE Awake == writer # "blocked" /\ writer' = "blocked" => reader # "running"
<1>1. IInv /\ [Next]_vars => [Awake]_vars
  <2> SUFFICES ASSUME IInv, Next PROVE Awake
    OBVIOUS
  <2>1. CASE WriteFindsNoRoom
    BY <2>1 DEF IInv, TypeInv, GuardInv, WriteFindsNoRoom
  <2>2. CASE ~ WriteFindsNoRoom
    BY <2>2 DEF Next, SetNonblocking, RestoreFlags, EnqueueChunk, WriterStep, Dequeue,
                ChunkLoop, Wrote, WriteFails, Polled, ProgramReads, ChildForks, ChildExits,
                BackgroundExits, HostCloses, CloseStep, CloseRuntime, JoinReader, JoinWriter
  <2> QED BY <2>1, <2>2
<1> QED BY <1>1, Inductive, PTL DEF Spec, SleepsOnlyWithoutReader

\* After close the descriptor is unused and has the flags it was opened with.
THEOREM ClosedRestoresFlagsHolds == Spec => []ClosedRestoresFlags
<1>1. IInv => ClosedRestoresFlags
  BY DEF IInv, TypeInv, GuardInv, JoinInv, ClosedRestoresFlags
<1> QED BY <1>1, Inductive, PTL
=============================================================================
