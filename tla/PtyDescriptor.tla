----------------------------- MODULE PtyDescriptor -----------------------------
(***************************************************************************)
(* The descriptor the "ptyx-reader" and "ptyx-writer" threads share        *)
(* (fd.rs).  The reader makes it non-blocking for as long as it runs and   *)
(* restores the flags when its guard drops; the writer, in                 *)
(* write_direct_chunk, uses the same descriptor and never sets the flag.   *)
(* WriteQueue and SessionLifecycle assume that write(2) returns; this      *)
(* module is about when it does.                                           *)
(*                                                                         *)
(* One write(2) takes a whole chunk, and every chunk fills one place of    *)
(* the terminal's input buffer.  The terminal has the child on it and      *)
(* perhaps a process the child left behind, which close does not kill.     *)
(***************************************************************************)
EXTENDS Naturals

CONSTANTS
  Capacity,   \* chunks the terminal buffers for the program that reads it
  MaxChunks   \* bound: chunks the host writes

ASSUME PtyDescriptorAssumption ==
  /\ Capacity \in Nat \ {0}
  /\ MaxChunks \in Nat

VARIABLES
  nonblocking,  \* O_NONBLOCK of the master descriptor
  reader,       \* the reader thread, by what it does to the flag
  writer,       \* where the writer thread is
  queued,       \* chunks in the write queue
  qClosed,      \* WriteQueueState.closed, set together with the stop flag
  chunks,       \* chunks accepted so far
  room,         \* free places of the terminal's input buffer
  child,        \* the child runs
  background,   \* another process has the terminal open
  owner         \* where session::close is

vars == <<nonblocking, reader, writer, queued, qClosed, chunks, room, child, background, owner>>

ReaderPcs == {"start", "running", "done"}
WriterPcs == {"none", "dequeue", "loop", "syscall", "blocked", "poll", "exited"}
Closing   == {"runtime", "joinReader", "joinWriter"}
OwnerPcs  == {"open", "done"} \cup Closing

Init ==
  /\ nonblocking = FALSE
  /\ reader = "start"
  /\ writer = "none"
  /\ queued = 0
  /\ qClosed = FALSE
  /\ chunks = 0
  /\ room = Capacity
  /\ child = TRUE
  /\ background = FALSE
  /\ owner = "open"

\* Some process has the other end of the PTY open.
TerminalHeld == child \/ background

-----------------------------------------------------------------------------
(***************************************************************************)
(* The reader.                                                             *)
(***************************************************************************)

\* Fault: the reader polls, but leaves the flag alone.
SetNothing ==
  /\ reader = "start"
  /\ reader' = "running"
  /\ UNCHANGED <<nonblocking, writer, queued, qClosed, chunks, room, child, background, owner>>

\* set_fd_nonblocking; without it the reader reports the error and ends.
SetNonblocking ==
  /\ reader = "start"
  /\ \/ reader' = "running" /\ nonblocking' = TRUE
     \/ reader' = "done" /\ UNCHANGED nonblocking
  /\ UNCHANGED <<writer, queued, qClosed, chunks, room, child, background, owner>>

\* The reader ends, stopped, at end of file or on an error, and the guard's
\* drop restores the flags the descriptor had.
RestoreFlags ==
  /\ reader = "running"
  /\ reader' = "done"
  /\ nonblocking' = FALSE
  /\ UNCHANGED <<writer, queued, qClosed, chunks, room, child, background, owner>>

-----------------------------------------------------------------------------
(***************************************************************************)
(* The writer.                                                             *)
(***************************************************************************)

\* The host writes, and the first write starts the thread.
EnqueueChunk ==
  /\ owner = "open"
  /\ writer # "exited"
  /\ chunks < MaxChunks
  /\ chunks' = chunks + 1
  /\ queued' = queued + 1
  /\ writer' = IF writer = "none" THEN "dequeue" ELSE writer
  /\ UNCHANGED <<nonblocking, reader, qClosed, room, child, background, owner>>

\* Fault: an empty queue is waited on even when it is closed.
DequeueForever ==
  /\ writer = "dequeue"
  /\ queued > 0
  /\ writer' = "loop"
  /\ queued' = queued - 1
  /\ UNCHANGED <<nonblocking, reader, qClosed, chunks, room, child, background, owner>>

\* dequeue; an empty queue is waited on until it is closed.
Dequeue ==
  /\ writer = "dequeue"
  /\ \/ queued > 0 /\ writer' = "loop" /\ queued' = queued - 1
     \/ queued = 0 /\ qClosed /\ writer' = "exited" /\ UNCHANGED queued
  /\ UNCHANGED <<nonblocking, reader, qClosed, chunks, room, child, background, owner>>

\* The head of write_direct_chunk's loop: is_closed, then write(2).
ChunkLoop ==
  /\ writer = "loop"
  /\ writer' = IF qClosed THEN "exited" ELSE "syscall"
  /\ UNCHANGED <<nonblocking, reader, queued, qClosed, chunks, room, child, background, owner>>

\* write(2) finds room, at once or after it slept.
Wrote ==
  /\ writer \in {"syscall", "blocked"}
  /\ TerminalHeld
  /\ room > 0
  /\ room' = room - 1
  /\ writer' = "dequeue"
  /\ UNCHANGED <<nonblocking, reader, queued, qClosed, chunks, child, background, owner>>

\* write(2) finds no room: EAGAIN and a poll, or a sleep in the kernel that no
\* later change of the flag ends.
WriteFindsNoRoom ==
  /\ writer = "syscall"
  /\ TerminalHeld
  /\ room = 0
  /\ writer' = IF nonblocking THEN "poll" ELSE "blocked"
  /\ UNCHANGED <<nonblocking, reader, queued, qClosed, chunks, room, child, background, owner>>

\* EIO once nobody has the terminal: record_failure empties the queue.
WriteFails ==
  /\ writer \in {"syscall", "blocked"}
  /\ ~ TerminalHeld
  /\ writer' = "exited"
  /\ queued' = 0
  /\ UNCHANGED <<nonblocking, reader, qClosed, chunks, room, child, background, owner>>

\* wait_fd_writable_for returns, after 10 ms at the latest.
Polled ==
  /\ writer = "poll"
  /\ writer' = "loop"
  /\ UNCHANGED <<nonblocking, reader, queued, qClosed, chunks, room, child, background, owner>>

-----------------------------------------------------------------------------
(***************************************************************************)
(* The terminal's processes.                                               *)
(***************************************************************************)

ProgramReads ==
  /\ TerminalHeld
  /\ room < Capacity
  /\ room' = room + 1
  /\ UNCHANGED <<nonblocking, reader, writer, queued, qClosed, chunks, child, background, owner>>

\* The child leaves a process in the background of its terminal.
ChildForks ==
  /\ child
  /\ background' = TRUE
  /\ UNCHANGED <<nonblocking, reader, writer, queued, qClosed, chunks, room, child, owner>>

ChildExits ==
  /\ child
  /\ child' = FALSE
  /\ UNCHANGED <<nonblocking, reader, writer, queued, qClosed, chunks, room, background, owner>>

BackgroundExits ==
  /\ background
  /\ background' = FALSE
  /\ UNCHANGED <<nonblocking, reader, writer, queued, qClosed, chunks, room, child, owner>>

-----------------------------------------------------------------------------
(***************************************************************************)
(* session::close.                                                         *)
(***************************************************************************)

\* SIGKILL goes to the child, not to what it left behind.
HostCloses ==
  /\ owner = "open"
  /\ child' = FALSE
  /\ owner' = "runtime"
  /\ UNCHANGED <<nonblocking, reader, writer, queued, qClosed, chunks, room, background>>

CloseRuntime ==
  /\ owner = "runtime"
  /\ qClosed' = TRUE
  /\ queued' = 0
  /\ owner' = "joinReader"
  /\ UNCHANGED <<nonblocking, reader, writer, chunks, room, child, background>>

JoinReader ==
  /\ owner = "joinReader"
  /\ reader = "done"
  /\ owner' = "joinWriter"
  /\ UNCHANGED <<nonblocking, reader, writer, queued, qClosed, chunks, room, child, background>>

JoinWriter ==
  /\ owner = "joinWriter"
  /\ writer \in {"none", "exited"}
  /\ owner' = "done"
  /\ UNCHANGED <<nonblocking, reader, writer, queued, qClosed, chunks, room, child, background>>

-----------------------------------------------------------------------------
WriterStep == Dequeue \/ ChunkLoop \/ Wrote \/ WriteFindsNoRoom \/ WriteFails \/ Polled
CloseStep  == CloseRuntime \/ JoinReader \/ JoinWriter

Next ==
  \/ SetNonblocking
  \/ RestoreFlags
  \/ EnqueueChunk
  \/ WriterStep
  \/ ProgramReads
  \/ ChildForks
  \/ ChildExits
  \/ BackgroundExits
  \/ HostCloses
  \/ CloseStep

Spec == Init /\ [][Next]_vars

\* The session's threads are scheduled and the reader ends once it is stopped;
\* a sleeping write(2) returns when there is room or nobody is left to read.
\* Nothing makes a program on the terminal read, or exit.
FairSpec ==
  /\ Spec
  /\ WF_vars(SetNonblocking)
  /\ WF_vars(qClosed /\ RestoreFlags)
  /\ WF_vars(WriterStep)
  /\ WF_vars(CloseStep)

-----------------------------------------------------------------------------
(***************************************************************************)
(* Properties.                                                             *)
(***************************************************************************)

\* While the reader runs no write(2) goes to sleep: the writer, which never
\* sets the flag itself, only sleeps before the reader has set it or after
\* its guard was dropped.
SleepsOnlyWithoutReader ==
  [][writer # "blocked" /\ writer' = "blocked" => reader # "running"]_vars

\* ptyx_close returns if what is left on the terminal keeps reading or goes away.
CloseCompletes ==
  []<>(room > 0 \/ ~ TerminalHeld) => (owner \in Closing ~> owner = "done")

\* fd.rs:3: the helpers "keep PTY reads and writes interruptible", so closing
\* the queue ends the writer whatever the programs on the terminal do.
WritesAreInterruptible ==
  qClosed ~> writer \in {"none", "exited"}
=============================================================================
