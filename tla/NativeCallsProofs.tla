--------------------------- MODULE NativeCallsProofs ---------------------------
(***************************************************************************)
(* What NativeCalls' run checks of the processes behind a session, proved  *)
(* for any number of concurrent sessions, requests, program ends, killed   *)
(* monitors and write ends inherited by other monitors; and that they      *)
(* implement ChildSupervision.                                             *)
(***************************************************************************)
EXTENDS NativeCalls, SequenceTheorems, WellFoundedInduction, TLAPS

\* The three messages of a monitor.
PidMessage   == <<"PID", 0>>
ErrorMessage == <<"EXEC_ERROR", 0>>
ExitMessage(s) == <<"EXIT", ExitCode(status[s])>>

SpawnTypeOK ==
  /\ host \in [Sessions -> HostPcs]
  /\ monitor \in [Sessions -> MonitorPcs]
  /\ child \in [Sessions -> ChildPcs]
  /\ {execPipe, lost} \subseteq [Sessions -> BOOLEAN]
  /\ DOMAIN events = Sessions
  /\ holders \in [Sessions -> SUBSET (Sessions \cup {"host"})]
  /\ DOMAIN status = Sessions /\ \A s \in Sessions : ExitCode(status[s]) \in 0 .. 255
  /\ DOMAIN told = Sessions

\* Which monitor there is at each place of the host, and that its own write end
\* stays with it, so that a host that reads does not miss its end.
HostInv(s) ==
  /\ host[s] \in {"idle", "fork"} => monitor[s] = "none"
  /\ host[s] = "fork" => "host" \in holders[s]
  /\ host[s] = "failed" => monitor[s] \in {"none", "reaped"}
  /\ host[s] = "exited" => monitor[s] = "reaped"
  /\ monitor[s] # "none" => s \in holders[s]

Execed(s) == child[s] \in {"program", "zombie", "reaped"} /\ ~ execPipe[s]

\* Which child there is at each place of the monitor.  A child whose monitor is
\* gone is gone as well, unless the monitor was killed.
ChildInv(s) ==
  /\ monitor[s] \in {"none", "start"} => child[s] = "none"
  /\ monitor[s] \in {"readExec", "reapFailed"} => child[s] \in {"setup", "program", "zombie"}
  /\ monitor[s] = "sendError" => child[s] # "reaped"
  /\ monitor[s] \in {"sendPid", "wait"} => Execed(s) /\ child[s] # "reaped"
  /\ monitor[s] \in {"zombie", "reaped"} => child[s] \in {"none", "reaped"} \/ lost[s]
  /\ child[s] \in {"none", "setup", "program"} => ~ execPipe[s]

\* What the event pipe holds while the host may read it: the messages of the
\* monitor in order, all of them unless the monitor was killed.  PID is only of a
\* child that has exec'd, EXIT only of one that was reaped, with its status.
EventsInv(s) ==
  LET Gone == monitor[s] \in {"zombie", "reaped"}
  IN
  /\ host[s] \in {"idle", "fork"} => events[s] = <<>>
  /\ host[s] \in {"close", "read"} =>
       \/ monitor[s] \in {"start", "readExec", "sendError", "sendPid"} /\ events[s] = <<>>
       \/ Gone /\ lost[s] /\ events[s] = <<>>
       \/ (monitor[s] = "reapFailed" \/ Gone) /\ events[s] = <<ErrorMessage>>
       \/ (monitor[s] = "wait" \/ (Gone /\ lost[s])) /\ events[s] = <<PidMessage>> /\ Execed(s)
       \/ /\ Gone /\ events[s] = <<PidMessage, ExitMessage(s)>>
          /\ Execed(s) /\ child[s] = "reaped"
  /\ host[s] = "open" =>
       \/ (monitor[s] = "wait" \/ (Gone /\ lost[s])) /\ events[s] = <<>>
       \/ Gone /\ events[s] = <<ExitMessage(s)>> /\ child[s] = "reaped"
  /\ host[s] \in {"open", "reapExit", "exited", "lost", "abandoned"} => Execed(s)
  /\ host[s] \in {"reapExit", "exited"} =>
       child[s] = "reaped" /\ told[s] = ExitCode(status[s])

SessionInv(s) == HostInv(s) /\ ChildInv(s) /\ EventsInv(s)

SpawnInv == SpawnTypeOK /\ \A s \in Sessions : SessionInv(s)

-----------------------------------------------------------------------------
(***************************************************************************)
(* Short sequences and the messages in them.                               *)
(***************************************************************************)

Message == {"PID", "EXEC_ERROR", "EXIT"} \X (0 .. 255)

\* What appending and taking do to the short sequences an event pipe holds.
LEMMA ShortSequences ==
  ASSUME NEW S, NEW a \in S, NEW b \in S
  PROVE  /\ Append(<<>>, a) = <<a>> /\ Append(<<a>>, b) = <<a, b>>
         /\ Head(<<a>>) = a /\ Tail(<<a>>) = <<>>
         /\ Head(<<a, b>>) = a /\ Tail(<<a, b>>) = <<b>>
         /\ <<a>> # <<>> /\ <<a, b>> # <<>>
<1>1. <<>> \in Seq(S) /\ <<a>> \in Seq(S) /\ <<a, b>> \in Seq(S)
  OBVIOUS
<1>2. Append(<<>>, a) = <<a>>
  OBVIOUS
<1>3. Append(<<a>>, b) = <<a, b>>
  <2>1. Append(<<a>>, b) \in Seq(S) /\ Len(Append(<<a>>, b)) = 2
    BY <1>1
  <2>2. Append(<<a>>, b)[1] = a /\ Append(<<a>>, b)[2] = b
    BY <1>1
  <2>3. \A i \in 1 .. 2 : Append(<<a>>, b)[i] = <<a, b>>[i]
    BY <2>2
  <2>4. Len(<<a, b>>) = 2
    OBVIOUS
  <2> QED BY <1>1, <2>1, <2>3, <2>4, SeqEqual
<1>4. Head(<<a>>) = a /\ Tail(<<a>>) = <<>>
  BY <1>1
<1>5. Head(<<a, b>>) = a /\ Tail(<<a, b>>) = <<b>>
  BY <1>1
<1>6. <<a>> # <<>> /\ <<a, b>> # <<>>
  OBVIOUS
<1> QED BY <1>2, <1>3, <1>4, <1>5, <1>6

\* The three messages differ in their first component, and the exit code travels
\* in the second one.
LEMMA MessageKinds ==
  ASSUME SpawnTypeOK, NEW s \in Sessions
  PROVE  /\ {PidMessage, ErrorMessage, ExitMessage(s)} \subseteq Message
         /\ PidMessage[1] = "PID" /\ ErrorMessage[1] = "EXEC_ERROR"
         /\ ExitMessage(s)[1] = "EXIT" /\ ExitMessage(s)[2] = ExitCode(status[s])
BY DEF SpawnTypeOK, PidMessage, ErrorMessage, ExitMessage, Message

\* The sequences of messages that an event pipe ever holds.
LEMMA PipeContents ==
  ASSUME SpawnTypeOK, NEW s \in Sessions
  PROVE  LET p == PidMessage
             e == ErrorMessage
             x == ExitMessage(s)
         IN  /\ Append(<<>>, p) = <<p>> /\ Append(<<>>, e) = <<e>> /\ Append(<<>>, x) = <<x>>
             /\ Append(<<p>>, x) = <<p, x>>
             /\ Head(<<p>>) = p /\ Head(<<e>>) = e /\ Head(<<x>>) = x /\ Head(<<p, x>>) = p
             /\ Tail(<<p>>) = <<>> /\ Tail(<<e>>) = <<>> /\ Tail(<<x>>) = <<>>
             /\ Tail(<<p, x>>) = <<x>>
             /\ <<p>> # <<>> /\ <<e>> # <<>> /\ <<x>> # <<>> /\ <<p, x>> # <<>>
<1>1. {PidMessage, ErrorMessage, ExitMessage(s)} \subseteq Message
  BY MessageKinds
<1>2. PidMessage \in Message /\ ErrorMessage \in Message /\ ExitMessage(s) \in Message
  BY <1>1
<1> QED BY <1>2, ShortSequences

-----------------------------------------------------------------------------
(***************************************************************************)
(* The exit codes.                                                         *)
(***************************************************************************)

\* Every end of a program, a child killed and one that could not exec has an exit
\* code of one byte.
LEMMA ExitCodes ==
  /\ \A e \in Ends : ExitCode(e) \in 0 .. 255
  /\ ExitCode(Killed) \in 0 .. 255 /\ ExitCode(NoStatus) \in 0 .. 255
  /\ ExitCode(<<"exited", 127>>) \in 0 .. 255
<1>1. ASSUME NEW e \in Ends PROVE ExitCode(e) \in 0 .. 255
  <2>1. CASE e \in {"exited"} \X (0 .. 255)
    BY <2>1 DEF ExitCode
  <2>2. CASE e \in {"signaled"} \X (1 .. 64)
    <3>1. e[1] = "signaled" /\ e[2] \in 1 .. 64
      BY <2>2
    <3> QED BY <3>1 DEF ExitCode
  <2> QED BY <2>1, <2>2, ChildSpawnAssumption
<1>2. ExitCode(Killed) = 137 /\ ExitCode(NoStatus) = 0 /\ ExitCode(<<"exited", 127>>) = 127
  BY DEF ExitCode, Killed, NoStatus
<1> QED BY <1>1, <1>2

-----------------------------------------------------------------------------
(***************************************************************************)
(* The steps of a session.                                                 *)
(***************************************************************************)

Step(s) == OpenEventPipe(s) \/ SpawnStep(s)

\* A call of the C interface refuses a session, which the first step of ChildSpawn
\* also may, opens its event pipe, takes a later step, or leaves the processes be.
LEMMA CallsStep ==
  ASSUME Next
  PROVE  UNCHANGED spawnVars \/ \E s \in Sessions : Step(s)
<1>1. CASE PtyxInit \/ AllocBuffer \/ FreeBuffer
  BY <1>1 DEF PtyxInit, AllocBuffer, FreeBuffer
<1>2. ASSUME NEW s \in Sessions, PtyxSpawn(s)
      PROVE  Step(s)
  <2>1. ASSUME NEW why, Refuse(s, why)
        PROVE  OpenEventPipe(s)
    BY <2>1 DEF Refuse, OpenEventPipe, pipeVars
  <2> QED BY <1>2, <2>1 DEF PtyxSpawn, Step
<1>3. ASSUME NEW s \in Sessions, WriteOwned(s)
      PROVE  UNCHANGED spawnVars
  BY <1>3 DEF WriteOwned
<1>4. ASSUME NEW s \in Sessions, SpawnStep(s)
      PROVE  Step(s)
  BY <1>4 DEF Step
<1> QED BY <1>1, <1>2, <1>3, <1>4 DEF Next

\* Types, for the places of the processes, the pipes and the exit codes.
LEMMA PlacesStep ==
  ASSUME NEW s \in Sessions, Step(s),
         host \in [Sessions -> HostPcs], monitor \in [Sessions -> MonitorPcs],
         child \in [Sessions -> ChildPcs]
  PROVE  /\ host' \in [Sessions -> HostPcs] /\ monitor' \in [Sessions -> MonitorPcs]
         /\ child' \in [Sessions -> ChildPcs]
<1>1. \/ host' = host
      \/ \E p \in HostPcs : host' = [host EXCEPT ![s] = p]
  <2>1. CASE OpenEventPipe(s) \/ ForkMonitor(s)
    BY <2>1 DEF OpenEventPipe, ForkMonitor, HostAt, HostPcs
  <2>2. CASE CloseWriteEnd(s) \/ ReadSpawnMessage(s) \/ ReadSpawnEof(s) \/ ReapMonitor(s)
    BY <2>2 DEF CloseWriteEnd, ReadSpawnMessage, ReadSpawnEof, ReapMonitor, HostAt, HostPcs
  <2>3. CASE WaitStep(s) \/ AbandonChild(s)
    BY <2>3 DEF WaitStep, ReadExitMessage, ReapExitedMonitor, ReadExitEof, AbandonChild, HostAt,
                HostPcs
  <2>4. CASE EmbedderReaps(s) \/ MonitorStep(s) \/ MonitorReadFails(s) \/ MonitorDies(s)
    BY <2>4 DEF EmbedderReaps, MonitorStep, ForkChild, MonitorReadsErrno, MonitorReadsEof,
                MonitorSendsError, MonitorReapsFailed, MonitorSendsPid, MonitorReportsExit,
                MonitorReadFails, MonitorDies
  <2>5. CASE ChildStep(s) \/ ProgramEnds(s) \/ ChildKilled(s) \/ InitReaps(s)
    BY <2>5 DEF ChildStep, ChildExecs, ChildReports, ProgramEnds, ChildKilled, InitReaps
  <2> QED BY <2>1, <2>2, <2>3, <2>4, <2>5 DEF Step, SpawnStep, HostStep
<1>2. \/ monitor' = monitor
      \/ \E p \in MonitorPcs : monitor' = [monitor EXCEPT ![s] = p]
  <2>1. CASE OpenEventPipe(s) \/ ForkMonitor(s)
    BY <2>1 DEF OpenEventPipe, ForkMonitor, MonitorPcs
  <2>2. CASE CloseWriteEnd(s) \/ ReadSpawnMessage(s) \/ ReadSpawnEof(s) \/ ReapMonitor(s)
    BY <2>2 DEF CloseWriteEnd, ReadSpawnMessage, ReadSpawnEof, ReapMonitor, MonitorPcs
  <2>3. CASE WaitStep(s) \/ AbandonChild(s)
    BY <2>3 DEF WaitStep, ReadExitMessage, ReapExitedMonitor, ReadExitEof, AbandonChild,
                MonitorPcs
  <2>4. CASE EmbedderReaps(s) \/ ForkChild(s) \/ MonitorReadsErrno(s) \/ MonitorReadsEof(s)
               \/ MonitorReadFails(s) \/ MonitorDies(s)
    BY <2>4 DEF EmbedderReaps, ForkChild, MonitorReadsErrno, MonitorReadsEof, MonitorReadFails,
                MonitorDies, MonitorAt, MonitorPcs
  <2>5. CASE MonitorSendsError(s)
    BY <2>5 DEF MonitorSendsError, MonitorAt, MonitorPcs
  <2>6. CASE MonitorReapsFailed(s) \/ MonitorSendsPid(s) \/ MonitorReportsExit(s)
    BY <2>6 DEF MonitorReapsFailed, MonitorSendsPid, MonitorReportsExit, MonitorAt, MonitorPcs
  <2>7. CASE ChildStep(s) \/ ProgramEnds(s) \/ ChildKilled(s) \/ InitReaps(s)
    BY <2>7 DEF ChildStep, ChildExecs, ChildReports, ProgramEnds, ChildKilled, InitReaps
  <2> QED BY <2>1, <2>2, <2>3, <2>4, <2>5, <2>6, <2>7 DEF Step, SpawnStep, HostStep, MonitorStep
<1>3. \/ child' = child
      \/ \E p \in ChildPcs : child' = [child EXCEPT ![s] = p]
  <2>1. CASE OpenEventPipe(s) \/ HostStep(s) \/ WaitStep(s)
    BY <2>1 DEF OpenEventPipe, HostStep, ForkMonitor, CloseWriteEnd, ReadSpawnMessage,
                ReadSpawnEof, ReapMonitor, WaitStep, ReadExitMessage, ReapExitedMonitor,
                ReadExitEof
  <2>2. CASE AbandonChild(s) \/ ChildKilled(s)
    BY <2>2 DEF AbandonChild, ChildKilled, KillChild, ChildPcs
  <2>3. CASE EmbedderReaps(s) \/ MonitorReadFails(s) \/ MonitorDies(s)
    BY <2>3 DEF EmbedderReaps, MonitorReadFails, MonitorDies
  <2>4. CASE MonitorStep(s)
    BY <2>4 DEF MonitorStep, ForkChild, MonitorReadsErrno, MonitorReadsEof, MonitorSendsError,
                MonitorReapsFailed, MonitorSendsPid, MonitorReportsExit, ChildAt, ChildPcs
  <2>5. CASE ChildStep(s) \/ ProgramEnds(s) \/ InitReaps(s)
    BY <2>5 DEF ChildStep, ChildExecs, ChildReports, ProgramEnds, InitReaps, ChildAt, ChildPcs
  <2> QED BY <2>1, <2>2, <2>3, <2>4, <2>5 DEF Step, SpawnStep
<1> QED BY <1>1, <1>2, <1>3

LEMMA PipesStep ==
  ASSUME NEW s \in Sessions, Step(s),
         {execPipe, lost} \subseteq [Sessions -> BOOLEAN], DOMAIN events = Sessions,
         holders \in [Sessions -> SUBSET (Sessions \cup {"host"})]
  PROVE  /\ {execPipe', lost'} \subseteq [Sessions -> BOOLEAN] /\ DOMAIN events' = Sessions
         /\ holders' \in [Sessions -> SUBSET (Sessions \cup {"host"})]
<1> USE DEF pipeVars
<1>1. CASE OpenEventPipe(s)
  BY <1>1 DEF OpenEventPipe
<1>2. CASE ForkMonitor(s)
  BY <1>2 DEF ForkMonitor
<1>3. CASE CloseWriteEnd(s)
  BY <1>3 DEF CloseWriteEnd
<1>4. CASE ReadSpawnMessage(s) \/ ReadSpawnEof(s) \/ ReapMonitor(s)
  BY <1>4 DEF ReadSpawnMessage, ReadSpawnEof, ReapMonitor
<1>5. CASE WaitStep(s)
  BY <1>5 DEF WaitStep, ReadExitMessage, ReapExitedMonitor, ReadExitEof
<1>6. CASE AbandonChild(s) \/ EmbedderReaps(s) \/ MonitorReadFails(s)
  BY <1>6 DEF AbandonChild, EmbedderReaps, MonitorReadFails
<1>7. CASE MonitorStep(s)
  BY <1>7 DEF MonitorStep, ForkChild, MonitorReadsErrno, MonitorReadsEof, MonitorSendsError,
              MonitorReapsFailed, MonitorSendsPid, MonitorReportsExit, Send
<1>8. CASE MonitorDies(s)
  BY <1>8 DEF MonitorDies
<1>9. CASE ChildStep(s)
  BY <1>9 DEF ChildStep, ChildExecs, ChildReports
<1>10. CASE ProgramEnds(s) \/ ChildKilled(s) \/ InitReaps(s)
  BY <1>10 DEF ProgramEnds, ChildKilled, InitReaps
<1> QED BY <1>1, <1>2, <1>3, <1>4, <1>5, <1>6, <1>7, <1>8, <1>9, <1>10
        DEF Step, SpawnStep, HostStep

LEMMA CodesStep ==
  ASSUME NEW s \in Sessions, Step(s), DOMAIN status = Sessions, DOMAIN told = Sessions,
         \A t \in Sessions : ExitCode(status[t]) \in 0 .. 255
  PROVE  /\ DOMAIN status' = Sessions /\ DOMAIN told' = Sessions
         /\ \A t \in Sessions : ExitCode(status'[t]) \in 0 .. 255
<1>1. DOMAIN told' = Sessions
  <2>1. told' = told \/ \E c : told' = [told EXCEPT ![s] = c]
    <3>1. CASE OpenEventPipe(s) \/ HostStep(s) \/ WaitStep(s) \/ AbandonChild(s)
      BY <3>1 DEF OpenEventPipe, HostStep, ForkMonitor, CloseWriteEnd, ReadSpawnMessage,
                  ReadSpawnEof, ReapMonitor, WaitStep, ReadExitMessage, ReapExitedMonitor,
                  ReadExitEof, AbandonChild
    <3>2. CASE EmbedderReaps(s) \/ MonitorStep(s) \/ MonitorReadFails(s) \/ MonitorDies(s)
      BY <3>2 DEF EmbedderReaps, MonitorStep, ForkChild, MonitorReadsErrno, MonitorReadsEof,
                  MonitorSendsError, MonitorReapsFailed, MonitorSendsPid, MonitorReportsExit,
                  MonitorReadFails, MonitorDies
    <3>3. CASE ChildStep(s) \/ ProgramEnds(s) \/ ChildKilled(s) \/ InitReaps(s)
      BY <3>3 DEF ChildStep, ChildExecs, ChildReports, ProgramEnds, ChildKilled, InitReaps
    <3> QED BY <3>1, <3>2, <3>3 DEF Step, SpawnStep
  <2> QED BY <2>1
<1>2. \/ status' = status
      \/ \E e : ExitCode(e) \in 0 .. 255 /\ status' = [status EXCEPT ![s] = e]
  <2>1. CASE OpenEventPipe(s) \/ HostStep(s) \/ WaitStep(s)
    BY <2>1 DEF OpenEventPipe, HostStep, ForkMonitor, CloseWriteEnd, ReadSpawnMessage,
                ReadSpawnEof, ReapMonitor, WaitStep, ReadExitMessage, ReapExitedMonitor,
                ReadExitEof
  <2>2. CASE AbandonChild(s) \/ ChildKilled(s)
    BY <2>2, ExitCodes DEF AbandonChild, ChildKilled, KillChild
  <2>3. CASE EmbedderReaps(s) \/ MonitorStep(s) \/ MonitorReadFails(s) \/ MonitorDies(s)
    BY <2>3 DEF EmbedderReaps, MonitorStep, ForkChild, MonitorReadsErrno, MonitorReadsEof,
                MonitorSendsError, MonitorReapsFailed, MonitorSendsPid, MonitorReportsExit,
                MonitorReadFails, MonitorDies
  <2>4. CASE ChildStep(s) \/ ProgramEnds(s) \/ InitReaps(s)
    BY <2>4, ExitCodes DEF ChildStep, ChildExecs, ChildReports, ProgramEnds, InitReaps
  <2> QED BY <2>1, <2>2, <2>3, <2>4 DEF Step, SpawnStep
<1> QED BY <1>1, <1>2

LEMMA TypesStep ==
  ASSUME SpawnTypeOK, NEW s \in Sessions, Step(s)
  PROVE  SpawnTypeOK'
BY PlacesStep, PipesStep, CodesStep DEF SpawnTypeOK

\* A step of one session leaves the state of every other alone, except that a
\* monitor may inherit its write end.
OthersAlone(s) ==
  \A t \in Sessions \ {s} :
    /\ host'[t] = host[t] /\ monitor'[t] = monitor[t] /\ child'[t] = child[t]
    /\ execPipe'[t] = execPipe[t] /\ events'[t] = events[t] /\ holders[t] \subseteq holders'[t]
    /\ status'[t] = status[t] /\ told'[t] = told[t] /\ lost'[t] = lost[t]

LEMMA StepLeavesOthers ==
  ASSUME SpawnTypeOK, NEW s \in Sessions, Step(s)
  PROVE  OthersAlone(s)
<1> USE DEF SpawnTypeOK, HostAt, MonitorAt, ChildAt, Send, pipeVars, OthersAlone
<1>1. CASE OpenEventPipe(s)
  BY <1>1 DEF OpenEventPipe
<1>2. CASE ForkMonitor(s)
  BY <1>2 DEF ForkMonitor
<1>3. CASE CloseWriteEnd(s)
  BY <1>3 DEF CloseWriteEnd
<1>4. CASE ReadSpawnMessage(s) \/ ReadSpawnEof(s) \/ ReapMonitor(s)
  BY <1>4 DEF ReadSpawnMessage, ReadSpawnEof, ReapMonitor
<1>5. CASE WaitStep(s)
  BY <1>5 DEF WaitStep, ReadExitMessage, ReapExitedMonitor, ReadExitEof
<1>6. CASE AbandonChild(s) \/ EmbedderReaps(s)
  BY <1>6 DEF AbandonChild, KillChild, EmbedderReaps
<1>7. CASE MonitorStep(s) \/ MonitorReadFails(s) \/ MonitorDies(s)
  BY <1>7 DEF MonitorStep, ForkChild, MonitorReadsErrno, MonitorReadsEof, MonitorReadFails,
              MonitorSendsError, MonitorReapsFailed, MonitorSendsPid, MonitorReportsExit,
              MonitorDies
<1>8. CASE ChildStep(s) \/ ProgramEnds(s) \/ ChildKilled(s) \/ InitReaps(s)
  BY <1>8 DEF ChildStep, ChildExecs, ChildReports, ProgramEnds, ChildKilled, KillChild, InitReaps
<1> QED BY <1>1, <1>2, <1>3, <1>4, <1>5, <1>6, <1>7, <1>8 DEF Step, SpawnStep, HostStep

-----------------------------------------------------------------------------
(***************************************************************************)
(* The invariant is inductive.                                             *)
(***************************************************************************)

\* What the invariant says of a session depends on nothing a step of another one
\* changes; inheriting the write end only helps.
LEMMA OtherSession ==
  ASSUME SpawnTypeOK, NEW s \in Sessions, NEW t \in Sessions, s # t, OthersAlone(s), SessionInv(t)
  PROVE  SessionInv(t)'
<1>1. /\ host'[t] = host[t] /\ monitor'[t] = monitor[t] /\ child'[t] = child[t]
      /\ execPipe'[t] = execPipe[t] /\ events'[t] = events[t] /\ holders[t] \subseteq holders'[t]
      /\ status'[t] = status[t] /\ told'[t] = told[t] /\ lost'[t] = lost[t]
  BY DEF OthersAlone
<1>2. ExitMessage(t)' = ExitMessage(t) /\ (Execed(t)' <=> Execed(t))
  BY <1>1 DEF ExitMessage, Execed
<1>3. HostInv(t)'
  BY <1>1 DEF SessionInv, HostInv
<1>4. ChildInv(t)'
  BY <1>1, <1>2 DEF SessionInv, ChildInv
<1>5. EventsInv(t)'
  BY <1>1, <1>2 DEF SessionInv, EventsInv
<1> QED BY <1>3, <1>4, <1>5 DEF SessionInv

\* Each step of the host keeps the invariant of its session.
LEMMA HostKeepsInv ==
  ASSUME SpawnTypeOK, NEW s \in Sessions, SessionInv(s),
         OpenEventPipe(s) \/ HostStep(s) \/ WaitStep(s) \/ AbandonChild(s)
  PROVE  SessionInv(s)'
<1> USE DEF SpawnTypeOK, SessionInv, HostInv, ChildInv, EventsInv, Execed, HostAt, pipeVars
<1>1. CASE OpenEventPipe(s)
  BY <1>1 DEF OpenEventPipe
<1>2. CASE ForkMonitor(s)
  BY <1>2 DEF ForkMonitor
<1>3. CASE CloseWriteEnd(s)
  <2>1. "host" # s
    BY ChildSpawnAssumption
  <2>2. s \in holders[s] => s \in holders'[s]
    BY <1>3, <2>1 DEF CloseWriteEnd
  <2>3. host[s] = "close" /\ host'[s] = "read" /\ ExitMessage(s)' = ExitMessage(s)
    BY <1>3 DEF CloseWriteEnd, ExitMessage
  <2> QED BY <1>3, <2>2, <2>3 DEF CloseWriteEnd
<1>4. CASE ReadSpawnMessage(s)
  <2>1. host[s] = "read" /\ ExitMessage(s)' = ExitMessage(s)
    BY <1>4 DEF ReadSpawnMessage, ExitMessage
  <2>2. events[s] # <<>> /\ events'[s] = Tail(events[s])
    BY <1>4 DEF ReadSpawnMessage
  <2>3. host'[s] = IF Head(events[s])[1] = "PID" THEN "open" ELSE "reap"
    BY <1>4 DEF ReadSpawnMessage
  <2>4. events[s] \in {<<ErrorMessage>>, <<PidMessage>>, <<PidMessage, ExitMessage(s)>>}
    BY <2>1, <2>2
  <2>5. UNCHANGED <<monitor, child, execPipe, holders, status, told, lost>>
    BY <1>4 DEF ReadSpawnMessage
  <2>6. Head(<<ErrorMessage>>)[1] = "EXEC_ERROR" /\ Head(<<PidMessage>>)[1] = "PID"
        /\ Head(<<PidMessage, ExitMessage(s)>>)[1] = "PID"
    BY PipeContents, MessageKinds
  <2>7. CASE events[s] = <<ErrorMessage>>
    BY <2>1, <2>3, <2>5, <2>6, <2>7
  <2>8. CASE events[s] = <<PidMessage>>
    <3>1. <<PidMessage>> # <<>> /\ <<PidMessage>> # <<ErrorMessage>>
          /\ <<PidMessage>> # <<PidMessage, ExitMessage(s)>>
      BY <2>6, PipeContents
    <3>2. host'[s] = "open" /\ events'[s] = <<>>
      BY <2>2, <2>3, <2>6, <2>8, PipeContents
    <3>3. Execed(s)
      BY <2>1, <2>8, <3>1
    <3> QED BY <2>1, <2>5, <2>8, <3>1, <3>2, <3>3
  <2>9. CASE events[s] = <<PidMessage, ExitMessage(s)>>
    <3>1. <<PidMessage, ExitMessage(s)>> # <<>> /\ <<PidMessage, ExitMessage(s)>> # <<ErrorMessage>>
          /\ <<PidMessage, ExitMessage(s)>> # <<PidMessage>>
      BY <2>6, PipeContents
    <3>2. host'[s] = "open" /\ events'[s] = <<ExitMessage(s)>>
      BY <2>2, <2>3, <2>6, <2>9, PipeContents
    <3>3. Execed(s)
      BY <2>1, <2>9, <3>1
    <3> QED BY <2>1, <2>5, <2>9, <3>1, <3>2, <3>3
  <2> QED BY <2>4, <2>7, <2>8, <2>9
<1>5. CASE ReadSpawnEof(s)
  BY <1>5 DEF ReadSpawnEof, ExitMessage
<1>6. CASE ReapMonitor(s)
  BY <1>6 DEF ReapMonitor, ExitMessage
<1>7. CASE ReadExitMessage(s)
  BY <1>7, PipeContents, MessageKinds DEF ReadExitMessage
<1>8. CASE ReapExitedMonitor(s)
  BY <1>8 DEF ReapExitedMonitor
<1>9. CASE ReadExitEof(s)
  BY <1>9 DEF ReadExitEof
<1>10. CASE AbandonChild(s)
  BY <1>10 DEF AbandonChild, KillChild
<1> QED BY <1>1, <1>2, <1>3, <1>4, <1>5, <1>6, <1>7, <1>8, <1>9, <1>10
        DEF HostStep, WaitStep

\* So does each step of the monitor, of the child and of the system around them.
LEMMA OthersKeepInv ==
  ASSUME SpawnTypeOK, NEW s \in Sessions, SessionInv(s),
         \/ EmbedderReaps(s) \/ MonitorStep(s) \/ MonitorReadFails(s) \/ MonitorDies(s)
         \/ ChildStep(s) \/ ProgramEnds(s) \/ ChildKilled(s) \/ InitReaps(s)
  PROVE  SessionInv(s)'
<1> USE DEF SpawnTypeOK, SessionInv, HostInv, ChildInv, EventsInv, Execed, MonitorAt, ChildAt,
            Send, pipeVars, HostPcs
<1>1. CASE EmbedderReaps(s)
  BY <1>1 DEF EmbedderReaps, ExitMessage
<1>2. CASE ForkChild(s)
  BY <1>2 DEF ForkChild, ExitMessage
<1>3. CASE MonitorReadsErrno(s) \/ MonitorReadsEof(s) \/ MonitorReadFails(s)
  BY <1>3 DEF MonitorReadsErrno, MonitorReadsEof, MonitorReadFails, ExitMessage
<1>4. CASE MonitorSendsError(s)
  <2>1. ErrorMessage = <<"EXEC_ERROR", 0>>
    BY DEF ErrorMessage
  <2>2. /\ monitor[s] = "sendError"
        /\ monitor'[s] = IF child[s] = "none" THEN "zombie" ELSE "reapFailed"
        /\ events'[s] = Append(events[s], ErrorMessage)
        /\ ExitMessage(s)' = ExitMessage(s)
    BY <1>4, <2>1 DEF MonitorSendsError, ExitMessage
  <2>3. events[s] = <<>> => events'[s] = <<ErrorMessage>>
    BY <2>2, PipeContents
  <2>4. UNCHANGED <<host, child, execPipe, holders, status, told, lost>>
    BY <1>4 DEF MonitorSendsError
  <2>5. HostInv(s)'
    BY <2>2, <2>4
  <2>6. ChildInv(s)'
    BY <2>2, <2>4 DEF ChildPcs
  <2>7. EventsInv(s)'
    BY <2>2, <2>3, <2>4
  <2> QED BY <2>5, <2>6, <2>7
<1>5. CASE MonitorReapsFailed(s)
  BY <1>5 DEF MonitorReapsFailed, ExitMessage
<1>6. CASE MonitorSendsPid(s)
  BY <1>6, PipeContents DEF MonitorSendsPid, PidMessage
<1>7. CASE MonitorReportsExit(s)
  <2>1. monitor[s] = "wait" /\ monitor'[s] = "zombie" /\ child'[s] = "reaped"
    BY <1>7 DEF MonitorReportsExit
  <2>2. /\ events'[s] = Append(events[s], ExitMessage(s))
        /\ ExitMessage(s)' = ExitMessage(s)
    BY <1>7 DEF MonitorReportsExit, ExitMessage
  <2>3. UNCHANGED <<host, execPipe, holders, status, told, lost>>
    BY <1>7 DEF MonitorReportsExit
  <2>4. HostInv(s)' /\ ChildInv(s)'
    BY <2>1, <2>3
  <2>5. /\ events[s] = <<>> => events'[s] = <<ExitMessage(s)>>
        /\ events[s] = <<PidMessage>> => events'[s] = <<PidMessage, ExitMessage(s)>>
    BY <2>2, PipeContents
  <2>6. <<ErrorMessage>> # <<PidMessage>>
    BY PipeContents, MessageKinds
  <2>7. EventsInv(s)'
    BY <2>1, <2>2, <2>3, <2>5, <2>6
  <2> QED BY <2>4, <2>7
<1>8. CASE MonitorDies(s)
  BY <1>8 DEF MonitorDies, MonitorAlive, ExitMessage
<1>9. CASE ChildExecs(s)
  BY <1>9 DEF ChildExecs
<1>10. CASE ChildReports(s)
  BY <1>10 DEF ChildReports
<1>11. CASE ProgramEnds(s)
  BY <1>11 DEF ProgramEnds
<1>12. CASE ChildKilled(s)
  BY <1>12 DEF ChildKilled, KillChild
<1>13. CASE InitReaps(s)
  BY <1>13 DEF InitReaps, MonitorAlive, ExitMessage
<1> QED BY <1>1, <1>2, <1>3, <1>4, <1>5, <1>6, <1>7, <1>8, <1>9, <1>10, <1>11, <1>12, <1>13
        DEF MonitorStep, ChildStep

LEMMA InitInv == Init => SpawnInv
<1> SUFFICES ASSUME Init PROVE SpawnInv
  OBVIOUS
<1> USE DEF Init, SpawnInit
<1>1. SpawnTypeOK
  BY ExitCodes DEF SpawnTypeOK, HostPcs, MonitorPcs, ChildPcs
<1>2. ASSUME NEW s \in Sessions PROVE SessionInv(s)
  BY DEF SessionInv, HostInv, ChildInv, EventsInv
<1> QED BY <1>1, <1>2 DEF SpawnInv

LEMMA NextInv == SpawnInv /\ [Next]_vars => SpawnInv'
<1> SUFFICES ASSUME SpawnInv, [Next]_vars PROVE SpawnInv'
  OBVIOUS
<1>1. CASE UNCHANGED spawnVars
  BY <1>1 DEF spawnVars, SpawnInv, SpawnTypeOK, SessionInv, HostInv, ChildInv, EventsInv, Execed,
              ExitMessage
<1>2. ASSUME NEW s \in Sessions, Step(s)
      PROVE  SpawnInv'
  <2>1. SpawnTypeOK /\ SpawnTypeOK' /\ OthersAlone(s)
    BY <1>2, TypesStep, StepLeavesOthers DEF SpawnInv
  <2>2. SessionInv(s)'
    BY <1>2, <2>1, HostKeepsInv, OthersKeepInv DEF SpawnInv, Step, SpawnStep
  <2>3. ASSUME NEW t \in Sessions, t # s PROVE SessionInv(t)'
    BY <2>1, <2>3, OtherSession DEF SpawnInv
  <2> QED BY <2>1, <2>2, <2>3 DEF SpawnInv
<1> QED BY <1>1, <1>2, CallsStep DEF vars

\* What a session's processes are doing and what its pipe holds agree, for any
\* number of sessions that fork their monitors at the same time.
THEOREM Inductive == Spec => []SpawnInv
BY InitInv, NextInv, PTL DEF Spec

\* A spawn that failed and a wait that returned leave no process behind, not even
\* a zombie, whichever of the steps of process_linux.rs failed; only of a monitor
\* that was killed a child may be left.
THEOREM NothingLeftBehindHolds == Spec => []NothingLeftBehind
<1>1. SpawnInv => NothingLeftBehind
  BY DEF SpawnInv, SessionInv, HostInv, ChildInv, EventsInv, NothingLeftBehind
<1> QED BY <1>1, Inductive, PTL

-----------------------------------------------------------------------------
(***************************************************************************)
(* The owned buffer, and the checks before the fork.                       *)
(***************************************************************************)

BufferInv ==
  /\ owned \in BOOLEAN
  /\ ~ owned => buffer = NoBuffer
  /\ owned => buffer \in Nat \ {0}

LEMMA BufferStep == BufferInv /\ [Next]_vars => BufferInv'
<1> SUFFICES ASSUME BufferInv, [Next]_vars PROVE BufferInv'
  OBVIOUS
<1> USE DEF BufferInv
<1>1. CASE UNCHANGED <<buffer, owned>>
  BY <1>1
<1>2. CASE AllocBuffer
  BY <1>2 DEF AllocBuffer
<1>3. CASE FreeBuffer
  BY <1>3 DEF FreeBuffer
<1>4. ASSUME NEW s \in Sessions, WriteOwned(s)
      PROVE  BufferInv'
  <2>1. PICK n \in 1 .. MaxBuffer + 1 :
          \/ n <= buffer /\ buffer' = NoBuffer /\ owned' = FALSE
          \/ buffer' = TakeOwnedBuffer(n) /\ UNCHANGED owned
    BY <1>4 DEF WriteOwned
  <2>2. owned
    BY <1>4 DEF WriteOwned
  <2>3. TakeOwnedBuffer(n) \in Nat \ {0}
    BY <2>2 DEF TakeOwnedBuffer
  <2> QED BY <2>1, <2>2, <2>3
<1> QED BY <1>1, <1>2, <1>3, <1>4 DEF Next, PtyxInit, PtyxSpawn, vars, callVars

\* Whichever way ptyx_write_owned ends, the host was told that it owns a buffer
\* exactly when there is one to free.
THEOREM OwnershipIsAgreedHolds == Spec => []OwnershipIsAgreed
<1>1. Init => BufferInv
  BY DEF Init, BufferInv
<1>2. BufferInv => OwnershipIsAgreed
  BY DEF BufferInv, OwnershipIsAgreed, NoBuffer
<1> QED BY <1>1, <1>2, BufferStep, PTL DEF Spec

-----------------------------------------------------------------------------
(***************************************************************************)
(* The refinement: the views that ChildSpawn substitutes in                *)
(* ChildSupervision, one session at a time.                                *)
(***************************************************************************)

CodeOf(s) == IF Program(s) = "ended" THEN ExitCode(status[s]) ELSE 0
AnswerOf(s) ==
  CASE host[s] = "failed" -> <<"refused", 0>>
    [] host[s] = "exited" -> <<"exit", told[s]>>
    [] host[s] = "lost" -> <<"lost", 0>>
    [] host[s] \in {"open", "reapExit", "abandoned"} -> <<"started", 0>>
    [] OTHER -> <<"pending", 0>>

ProgramMap == [s \in Sessions |-> Program(s)]
CodeMap == [s \in Sessions |-> CodeOf(s)]
AnswerMap == [s \in Sessions |-> AnswerOf(s)]

\* The answer for each place of the host, and what its first component tells apart.
Answers ==
  \A s \in Sessions :
    /\ host[s] \in {"idle", "fork", "close", "read", "reap"} =>
         AnswerOf(s) = <<"pending", 0>> /\ AnswerOf(s)[1] = "pending"
    /\ host[s] \in {"open", "reapExit", "abandoned"} =>
         AnswerOf(s) = <<"started", 0>> /\ AnswerOf(s)[1] = "started"
    /\ host[s] = "failed" => AnswerOf(s) = <<"refused", 0>>
    /\ host[s] = "exited" => AnswerOf(s) = <<"exit", told[s]>>
    /\ host[s] = "lost" => AnswerOf(s) = <<"lost", 0>>

LEMMA AnswersHold == Answers
<1> SUFFICES ASSUME NEW s \in Sessions
             PROVE  /\ host[s] \in {"idle", "fork", "close", "read", "reap"} =>
                         AnswerOf(s) = <<"pending", 0>> /\ AnswerOf(s)[1] = "pending"
                    /\ host[s] \in {"open", "reapExit", "abandoned"} =>
                         AnswerOf(s) = <<"started", 0>> /\ AnswerOf(s)[1] = "started"
                    /\ host[s] = "failed" => AnswerOf(s) = <<"refused", 0>>
                    /\ host[s] = "exited" => AnswerOf(s) = <<"exit", told[s]>>
                    /\ host[s] = "lost" => AnswerOf(s) = <<"lost", 0>>
  BY DEF Answers
<1>1. host[s] \in {"idle", "fork", "close", "read", "reap"} => AnswerOf(s) = <<"pending", 0>>
  BY DEF AnswerOf
<1>2. host[s] \in {"open", "reapExit", "abandoned"} => AnswerOf(s) = <<"started", 0>>
  BY DEF AnswerOf
<1>3. host[s] = "failed" => AnswerOf(s) = <<"refused", 0>>
  BY DEF AnswerOf
<1>4. host[s] = "exited" => AnswerOf(s) = <<"exit", told[s]>>
  BY DEF AnswerOf
<1>5. host[s] = "lost" => AnswerOf(s) = <<"lost", 0>>
  BY DEF AnswerOf
<1> QED BY <1>1, <1>2, <1>3, <1>4, <1>5

LEMMA AnswersHoldNext == Answers'
BY AnswersHold, PTL

\* A step of session s changes the views at s only.
LEMMA ViewsChangeAtOne ==
  ASSUME SpawnTypeOK, SpawnTypeOK', NEW s \in Sessions, OthersAlone(s)
  PROVE  /\ ProgramMap' = [ProgramMap EXCEPT ![s] = Program(s)']
         /\ CodeMap' = [CodeMap EXCEPT ![s] = CodeOf(s)']
         /\ AnswerMap' = [AnswerMap EXCEPT ![s] = AnswerOf(s)']
         /\ lost' = [lost EXCEPT ![s] = lost'[s]]
<1>1. ASSUME NEW t \in Sessions, t # s
      PROVE  /\ Program(t)' = Program(t)
             /\ CodeOf(t)' = CodeOf(t)
             /\ AnswerOf(t)' = AnswerOf(t)
             /\ lost'[t] = lost[t]
  <2>1. /\ host'[t] = host[t] /\ child'[t] = child[t] /\ execPipe'[t] = execPipe[t]
        /\ status'[t] = status[t] /\ told'[t] = told[t] /\ lost'[t] = lost[t]
    BY <1>1 DEF OthersAlone
  <2>2. Program(t)' = Program(t)
    BY <2>1 DEF Program
  <2> QED BY <2>1, <2>2 DEF CodeOf, AnswerOf
<1>2. ProgramMap' = [ProgramMap EXCEPT ![s] = Program(s)']
  BY <1>1 DEF ProgramMap
<1>3. CodeMap' = [CodeMap EXCEPT ![s] = CodeOf(s)']
  BY <1>1 DEF CodeMap
<1>4. AnswerMap' = [AnswerMap EXCEPT ![s] = AnswerOf(s)']
  BY <1>1 DEF AnswerMap
<1>5. lost' = [lost EXCEPT ![s] = lost'[s]]
  BY <1>1 DEF SpawnTypeOK
<1> QED BY <1>2, <1>3, <1>4, <1>5

\* Unless they change at s as well, they do not change.
LEMMA ViewsStay ==
  ASSUME SpawnTypeOK, SpawnTypeOK', NEW s \in Sessions, OthersAlone(s)
  PROVE  /\ Program(s)' = Program(s) => ProgramMap' = ProgramMap
         /\ CodeOf(s)' = CodeOf(s) => CodeMap' = CodeMap
         /\ AnswerOf(s)' = AnswerOf(s) => AnswerMap' = AnswerMap
         /\ lost'[s] = lost[s] => lost' = lost
<1>1. ProgramMap = [ProgramMap EXCEPT ![s] = Program(s)]
  BY DEF ProgramMap
<1>2. CodeMap = [CodeMap EXCEPT ![s] = CodeOf(s)]
  BY DEF CodeMap
<1>3. AnswerMap = [AnswerMap EXCEPT ![s] = AnswerOf(s)]
  BY DEF AnswerMap
<1>4. lost = [lost EXCEPT ![s] = lost[s]]
  BY DEF SpawnTypeOK
<1> QED BY <1>1, <1>2, <1>3, <1>4, ViewsChangeAtOne

\* What a step of ChildSupervision does, seen at its session.
Stays(s) == Program(s)' = Program(s) /\ CodeOf(s)' = CodeOf(s)
Starts(s) ==
  /\ Program(s) = "none" /\ (AnswerOf(s)[1] = "pending" \/ lost[s])
  /\ Program(s)' = "running" /\ CodeOf(s)' = CodeOf(s)
EndsWith(s) ==
  /\ \/ Program(s) = "running"
     \/ Program(s) = "none" /\ (AnswerOf(s)[1] = "pending" \/ lost[s])
  /\ Program(s)' = "ended" /\ CodeOf(s)' \in 0 .. 255
Told(s) ==
  \/ AnswerOf(s)[1] = "pending" /\ Program(s) # "none" /\ AnswerOf(s)' = <<"started", 0>>
  \/ /\ AnswerOf(s)[1] = "pending" /\ (Program(s) # "running" \/ lost[s])
     /\ AnswerOf(s)' = <<"refused", 0>>
  \/ /\ AnswerOf(s)[1] = "started" /\ Program(s) = "ended"
     /\ AnswerOf(s)' = <<"exit", CodeOf(s)>>
  \/ AnswerOf(s)[1] = "started" /\ lost[s] /\ AnswerOf(s)' = <<"lost", 0>>

OneAtATime(s) ==
  \/ Stays(s) /\ AnswerOf(s)' = AnswerOf(s) /\ lost'[s] \in {lost[s], TRUE}
  \/ (Starts(s) \/ EndsWith(s)) /\ AnswerOf(s)' = AnswerOf(s) /\ lost'[s] = lost[s]
  \/ Told(s) /\ Stays(s) /\ lost'[s] = lost[s]

\* Such a change at one session, with the others left alone, is a step of
\* ChildSupervision or a stutter.
LEMMA OneAtATimeMaps ==
  ASSUME SpawnTypeOK, SpawnTypeOK', NEW s \in Sessions, OthersAlone(s), OneAtATime(s)
  PROVE  [Supervision!Next]_(Supervision!vars)
<1>1. /\ ProgramMap[s] = Program(s) /\ CodeMap[s] = CodeOf(s) /\ AnswerMap[s] = AnswerOf(s)
  BY DEF ProgramMap, CodeMap, AnswerMap
<1>2. CASE Stays(s) /\ AnswerOf(s)' = AnswerOf(s) /\ lost'[s] = lost[s]
  <2>1. UNCHANGED <<ProgramMap, CodeMap, lost, AnswerMap>>
    BY <1>2, ViewsStay DEF Stays
  <2> QED BY <2>1 DEF Supervision!vars, ProgramMap, CodeMap, AnswerMap, CodeOf, AnswerOf
<1>3. CASE Stays(s) /\ AnswerOf(s)' = AnswerOf(s) /\ lost'[s] = TRUE
  <2>1. UNCHANGED <<ProgramMap, CodeMap, AnswerMap>> /\ lost' = [lost EXCEPT ![s] = TRUE]
    BY <1>3, ViewsStay, ViewsChangeAtOne DEF Stays
  <2>2. Supervision!Lose(s)
    BY <2>1 DEF Supervision!Lose, ProgramMap, CodeMap, AnswerMap, CodeOf, AnswerOf
  <2> QED BY <2>2 DEF Supervision!Next
<1>4. CASE Starts(s) /\ AnswerOf(s)' = AnswerOf(s) /\ lost'[s] = lost[s]
  <2>1. /\ ProgramMap' = [ProgramMap EXCEPT ![s] = "running"]
        /\ UNCHANGED <<CodeMap, lost, AnswerMap>>
    BY <1>4, ViewsStay, ViewsChangeAtOne DEF Starts
  <2>2. ProgramMap[s] = "none" /\ (AnswerMap[s][1] = "pending" \/ lost[s])
    BY <1>1, <1>4 DEF Starts
  <2>3. Supervision!Start(s)
    BY <2>1, <2>2 DEF Supervision!Start, ProgramMap, CodeMap, AnswerMap, CodeOf, AnswerOf
  <2> QED BY <2>3 DEF Supervision!Next
<1>5. CASE EndsWith(s) /\ AnswerOf(s)' = AnswerOf(s) /\ lost'[s] = lost[s]
  <2>1. /\ ProgramMap' = [ProgramMap EXCEPT ![s] = "ended"]
        /\ \E c \in 0 .. 255 : CodeMap' = [CodeMap EXCEPT ![s] = c]
        /\ UNCHANGED <<lost, AnswerMap>>
    BY <1>5, ViewsStay, ViewsChangeAtOne DEF EndsWith
  <2>2. \/ ProgramMap[s] = "running"
        \/ ProgramMap[s] = "none" /\ (AnswerMap[s][1] = "pending" \/ lost[s])
    BY <1>1, <1>5 DEF EndsWith
  <2>3. Supervision!End(s)
    BY <2>1, <2>2 DEF Supervision!End, ProgramMap, CodeMap, AnswerMap, CodeOf, AnswerOf
  <2> QED BY <2>3 DEF Supervision!Next
<1>6. CASE Told(s) /\ Stays(s) /\ lost'[s] = lost[s]
  <2>1. /\ UNCHANGED <<ProgramMap, CodeMap, lost>>
        /\ AnswerMap' = [AnswerMap EXCEPT ![s] = AnswerOf(s)']
    BY <1>6, ViewsStay, ViewsChangeAtOne DEF Stays
  <2>2. \/ /\ AnswerMap[s][1] = "pending" /\ ProgramMap[s] # "none"
           /\ AnswerMap' = [AnswerMap EXCEPT ![s] = <<"started", 0>>]
        \/ /\ AnswerMap[s][1] = "pending" /\ (ProgramMap[s] # "running" \/ lost[s])
           /\ AnswerMap' = [AnswerMap EXCEPT ![s] = <<"refused", 0>>]
        \/ /\ AnswerMap[s][1] = "started" /\ ProgramMap[s] = "ended"
           /\ AnswerMap' = [AnswerMap EXCEPT ![s] = <<"exit", CodeMap[s]>>]
        \/ /\ AnswerMap[s][1] = "started" /\ lost[s]
           /\ AnswerMap' = [AnswerMap EXCEPT ![s] = <<"lost", 0>>]
    BY <1>1, <1>6, <2>1 DEF Told
  <2>3. \/ Supervision!TellStarted(s) \/ Supervision!TellRefused(s)
        \/ Supervision!TellExit(s) \/ Supervision!TellLost(s)
    BY <2>1, <2>2
       DEF Supervision!TellStarted, Supervision!TellRefused, Supervision!TellExit,
           Supervision!TellLost, Supervision!Tell, ProgramMap, CodeMap, AnswerMap, CodeOf,
           AnswerOf
  <2> QED BY <2>3 DEF Supervision!Next
<1> QED BY <1>2, <1>3, <1>4, <1>5, <1>6 DEF OneAtATime

\* The steps of the host: it answers in six of them.
LEMMA HostMaps ==
  ASSUME SpawnTypeOK, SpawnTypeOK', NEW s \in Sessions, SessionInv(s),
         OpenEventPipe(s) \/ HostStep(s) \/ WaitStep(s) \/ AbandonChild(s)
  PROVE  OneAtATime(s)
<1> USE DEF HostAt, SpawnTypeOK, pipeVars
<1>1. Answers /\ Answers'
  BY AnswersHold, AnswersHoldNext
<1>2. CASE OpenEventPipe(s)
  <2>1. host[s] = "idle" /\ host'[s] \in {"fork", "failed"} /\ child[s] = "none"
    BY <1>2 DEF OpenEventPipe, SessionInv, HostInv, ChildInv
  <2>2. Program(s) = "none" /\ Stays(s) /\ lost'[s] = lost[s]
    BY <1>2, <2>1 DEF OpenEventPipe, Stays, Program, CodeOf
  <2> QED BY <1>1, <2>1, <2>2 DEF Answers, OneAtATime, Told
<1>3. CASE ForkMonitor(s)
  <2>1. host[s] = "fork" /\ host'[s] \in {"close", "failed"} /\ child[s] = "none"
    BY <1>3 DEF ForkMonitor, SessionInv, HostInv, ChildInv
  <2>2. Program(s) = "none" /\ Stays(s) /\ lost'[s] = lost[s]
    BY <1>3, <2>1 DEF ForkMonitor, Stays, Program, CodeOf
  <2> QED BY <1>1, <2>1, <2>2 DEF Answers, OneAtATime, Told
<1>4. CASE CloseWriteEnd(s) \/ ReadSpawnEof(s)
  <2>1. host[s] \in {"close", "read"} /\ host'[s] \in {"read", "reap"}
    BY <1>4 DEF CloseWriteEnd, ReadSpawnEof
  <2>2. Stays(s) /\ lost'[s] = lost[s]
    BY <1>4 DEF CloseWriteEnd, ReadSpawnEof, Stays, Program, CodeOf
  <2> QED BY <1>1, <2>1, <2>2 DEF Answers, OneAtATime
<1>5. CASE ReadSpawnMessage(s)
  <2>1. host[s] = "read" /\ host'[s] = IF Head(events[s])[1] = "PID" THEN "open" ELSE "reap"
    BY <1>5 DEF ReadSpawnMessage
  <2>2. Stays(s) /\ lost'[s] = lost[s]
    BY <1>5 DEF ReadSpawnMessage, Stays, Program, CodeOf
  <2>3. CASE host'[s] = "reap"
    BY <1>1, <2>1, <2>2, <2>3 DEF Answers, OneAtATime
  <2>4. CASE Head(events[s])[1] = "PID"
    <3>1. events[s] \in {<<ErrorMessage>>, <<PidMessage>>, <<PidMessage, ExitMessage(s)>>}
      BY <1>5, <2>1 DEF ReadSpawnMessage, SessionInv, EventsInv
    <3>2. Head(<<ErrorMessage>>)[1] = "EXEC_ERROR"
      BY PipeContents, MessageKinds
    <3>3. events[s] # <<>> /\ events[s] # <<ErrorMessage>>
      BY <1>5, <2>4, <3>2 DEF ReadSpawnMessage
    <3>4. Execed(s)
      BY <2>1, <3>1, <3>3 DEF SessionInv, EventsInv
    <3>5. Program(s) # "none"
      BY <3>4 DEF Execed, Program
    <3> QED BY <1>1, <2>1, <2>2, <2>4, <3>5 DEF Answers, OneAtATime, Told
  <2> QED BY <2>1, <2>3, <2>4
<1>6. CASE ReapMonitor(s)
  <2>1. host[s] = "reap" /\ host'[s] = "failed" /\ monitor[s] \in {"zombie", "reaped"}
    BY <1>6 DEF ReapMonitor
  <2>2. child[s] \in {"none", "reaped"} \/ lost[s]
    BY <2>1 DEF SessionInv, ChildInv
  <2>3. Program(s) # "running" \/ lost[s]
    BY <2>2 DEF Program
  <2>4. Stays(s) /\ lost'[s] = lost[s]
    BY <1>6 DEF ReapMonitor, Stays, Program, CodeOf
  <2> QED BY <1>1, <2>1, <2>3, <2>4 DEF Answers, OneAtATime, Told
<1>7. CASE ReadExitMessage(s)
  <2>1. host[s] = "open" /\ host'[s] = "reapExit"
    BY <1>7 DEF ReadExitMessage
  <2>2. Stays(s) /\ lost'[s] = lost[s]
    BY <1>7 DEF ReadExitMessage, Stays, Program, CodeOf
  <2> QED BY <1>1, <2>1, <2>2 DEF Answers, OneAtATime
<1>8. CASE ReapExitedMonitor(s)
  <2>1. host[s] = "reapExit" /\ host'[s] = "exited" /\ told'[s] = told[s]
    BY <1>8 DEF ReapExitedMonitor
  <2>2. child[s] = "reaped" /\ ~ execPipe[s] /\ told[s] = ExitCode(status[s])
    BY <2>1 DEF SessionInv, EventsInv, Execed
  <2>3. Program(s) = "ended" /\ CodeOf(s) = told[s]
    BY <2>2 DEF Program, CodeOf
  <2>4. Stays(s) /\ lost'[s] = lost[s]
    BY <1>8 DEF ReapExitedMonitor, Stays, Program, CodeOf
  <2> QED BY <1>1, <2>1, <2>3, <2>4 DEF Answers, OneAtATime, Told
<1>9. CASE ReadExitEof(s)
  <2>1. host[s] = "open" /\ host'[s] = "lost" /\ events[s] = <<>> /\ ~ WriteEndOpen(s)
    BY <1>9 DEF ReadExitEof
  <2>2. monitor[s] # "wait"
    <3> SUFFICES ASSUME monitor[s] = "wait" PROVE FALSE
      OBVIOUS
    <3>1. s \in holders[s] /\ MonitorAlive(s)
      BY DEF SessionInv, HostInv, MonitorAlive
    <3> QED BY <2>1, <3>1 DEF WriteEndOpen
  <2>3. lost[s]
    BY <2>1, <2>2, PipeContents DEF SessionInv, EventsInv
  <2>4. Stays(s) /\ lost'[s] = lost[s]
    BY <1>9 DEF ReadExitEof, Stays, Program, CodeOf
  <2> QED BY <1>1, <2>1, <2>3, <2>4 DEF Answers, OneAtATime, Told
<1>10. CASE AbandonChild(s)
  <2>1. host[s] = "open" /\ host'[s] = "abandoned" /\ lost'[s] = lost[s]
    BY <1>10 DEF AbandonChild
  <2>2. AnswerOf(s)' = AnswerOf(s)
    BY <1>1, <2>1 DEF Answers
  <2>3. CASE child[s] \in {"zombie", "reaped"}
    <3>1. Stays(s)
      BY <1>10, <2>3 DEF AbandonChild, Stays, Program, CodeOf
    <3> QED BY <2>1, <2>2, <3>1 DEF OneAtATime
  <2>4. CASE child[s] \notin {"zombie", "reaped"}
    <3>1. child[s] = "program" /\ ~ execPipe[s]
      BY <2>1, <2>4 DEF SessionInv, EventsInv, Execed
    <3>2. child'[s] = "zombie" /\ ~ execPipe'[s]
      BY <1>10, <2>4, <3>1 DEF AbandonChild, KillChild
    <3>3. Program(s) = "running" /\ Program(s)' = "ended"
      BY <3>1, <3>2 DEF Program
    <3>4. CodeOf(s)' \in 0 .. 255
      BY <3>3 DEF CodeOf
    <3> QED BY <2>1, <2>2, <3>3, <3>4 DEF OneAtATime, EndsWith
  <2> QED BY <2>3, <2>4
<1> QED BY <1>2, <1>3, <1>4, <1>5, <1>6, <1>7, <1>8, <1>9, <1>10 DEF HostStep, WaitStep

\* A child that has not exec'd yet has a caller who waits, or a monitor that was
\* killed: the only two reasons for which a program may start.
LEMMA SetupIsPending ==
  ASSUME SpawnTypeOK, NEW s \in Sessions, SessionInv(s), child[s] = "setup"
  PROVE  AnswerOf(s)[1] = "pending" \/ lost[s]
<1>1. host[s] \notin {"open", "reapExit", "exited", "lost", "abandoned"}
  BY DEF SessionInv, EventsInv, Execed
<1>2. host[s] = "failed" => lost[s]
  BY DEF SessionInv, HostInv, ChildInv
<1> QED BY <1>1, <1>2, AnswersHold DEF Answers, SpawnTypeOK, HostPcs

\* The other steps: the program starts or ends, the supervisor is lost, or nothing
\* that the caller could tell happens.
LEMMA OthersMap ==
  ASSUME SpawnTypeOK, SpawnTypeOK', NEW s \in Sessions, SessionInv(s),
         \/ EmbedderReaps(s) \/ MonitorStep(s) \/ MonitorReadFails(s) \/ MonitorDies(s)
         \/ ChildStep(s) \/ ProgramEnds(s) \/ ChildKilled(s) \/ InitReaps(s)
  PROVE  OneAtATime(s)
<1> USE DEF MonitorAt, ChildAt, SpawnTypeOK, pipeVars
<1>1. ASSUME host' = host, told' = told PROVE AnswerOf(s)' = AnswerOf(s)
  BY <1>1 DEF AnswerOf
<1>2. CASE \/ EmbedderReaps(s) \/ MonitorReadsErrno(s) \/ MonitorReadsEof(s)
           \/ MonitorReadFails(s) \/ MonitorSendsError(s) \/ MonitorSendsPid(s)
  <2>1. UNCHANGED <<host, child, execPipe, status, told, lost>>
    BY <1>2 DEF EmbedderReaps, MonitorReadsErrno, MonitorReadsEof, MonitorReadFails,
                MonitorSendsError, MonitorSendsPid
  <2>2. Stays(s)
    BY <2>1 DEF Stays, Program, CodeOf
  <2> QED BY <1>1, <2>1, <2>2 DEF OneAtATime
<1>3. CASE ForkChild(s)
  <2>1. UNCHANGED <<host, execPipe, status, told, lost>>
    BY <1>3 DEF ForkChild
  <2>2. child[s] = "none" /\ child'[s] \in {"none", "setup"}
    BY <1>3 DEF ForkChild, SessionInv, ChildInv
  <2>3. Stays(s)
    BY <2>2 DEF Stays, Program, CodeOf
  <2> QED BY <1>1, <2>1, <2>3 DEF OneAtATime
<1>4. CASE MonitorReapsFailed(s) \/ MonitorReportsExit(s) \/ InitReaps(s)
  <2>1. UNCHANGED <<host, execPipe, status, told, lost>>
    BY <1>4 DEF MonitorReapsFailed, MonitorReportsExit, InitReaps
  <2>2. child[s] = "zombie" /\ child'[s] = "reaped"
    BY <1>4 DEF MonitorReapsFailed, MonitorReportsExit, InitReaps
  <2>3. Stays(s)
    BY <2>1, <2>2 DEF Stays, Program, CodeOf
  <2> QED BY <1>1, <2>1, <2>3 DEF OneAtATime
<1>5. CASE MonitorDies(s)
  <2>1. UNCHANGED <<host, child, execPipe, status, told>> /\ lost'[s] = TRUE
    BY <1>5 DEF MonitorDies
  <2>2. Stays(s)
    BY <2>1 DEF Stays, Program, CodeOf
  <2> QED BY <1>1, <2>1, <2>2 DEF OneAtATime
<1>6. CASE ChildExecs(s)
  <2>1. UNCHANGED <<host, execPipe, status, told, lost>>
    BY <1>6 DEF ChildExecs
  <2>2. child[s] = "setup" /\ child'[s] = "program"
    BY <1>6 DEF ChildExecs
  <2>3. Starts(s)
    BY <2>2, SetupIsPending DEF Starts, Program, CodeOf
  <2> QED BY <1>1, <2>1, <2>3 DEF OneAtATime
<1>7. CASE ChildReports(s)
  <2>1. UNCHANGED <<host, told, lost>>
    BY <1>7 DEF ChildReports
  <2>2. child[s] = "setup" /\ child'[s] = "zombie" /\ execPipe'[s] = TRUE
    BY <1>7 DEF ChildReports
  <2>3. Stays(s)
    BY <2>2 DEF Stays, Program, CodeOf
  <2> QED BY <1>1, <2>1, <2>3 DEF OneAtATime
<1>8. CASE ProgramEnds(s) \/ ChildKilled(s)
  <2>1. UNCHANGED <<host, execPipe, told, lost>>
    BY <1>8 DEF ProgramEnds, ChildKilled
  <2>2. child[s] \in {"setup", "program"} /\ child'[s] = "zombie" /\ ~ execPipe[s]
    BY <1>8 DEF ProgramEnds, ChildKilled, KillChild, SessionInv, ChildInv
  <2>3. Program(s)' = "ended" /\ CodeOf(s)' \in 0 .. 255
    BY <2>1, <2>2 DEF Program, CodeOf
  <2>4. EndsWith(s)
    BY <2>2, <2>3, SetupIsPending DEF EndsWith, Program
  <2> QED BY <1>1, <2>1, <2>4 DEF OneAtATime
<1> QED BY <1>2, <1>3, <1>4, <1>5, <1>6, <1>7, <1>8 DEF MonitorStep, ChildStep

\* The two forks, two pipes and three kinds of message implement the supervision
\* that process_linux.rs promises, for any number of sessions: a program that was
\* refused does not run, one that was started has exec'd, and the exit code is its
\* own, though every read and fork may fail, a monitor may be killed anywhere, and
\* monitors hold each other's pipes open.
THEOREM ImplementsSupervisionHolds == Spec => ImplementsSupervision
<1>1. Init => Supervision!Init
  <2> SUFFICES ASSUME Init PROVE Supervision!Init
    OBVIOUS
  <2>1. \A s \in Sessions : Program(s) = "none" /\ CodeOf(s) = 0 /\ AnswerOf(s) = <<"pending", 0>>
    BY AnswersHold DEF Init, SpawnInit, Program, CodeOf, Answers
  <2>2. /\ ProgramMap = [s \in Sessions |-> "none"]
        /\ CodeMap = [s \in Sessions |-> 0]
        /\ AnswerMap = [s \in Sessions |-> <<"pending", 0>>]
    BY <2>1 DEF ProgramMap, CodeMap, AnswerMap
  <2> QED BY <2>2 DEF Supervision!Init, Init, SpawnInit, ProgramMap, CodeMap, AnswerMap, CodeOf,
                      AnswerOf
<1>2. SpawnInv /\ SpawnInv' /\ [Next]_vars => [Supervision!Next]_(Supervision!vars)
  <2> SUFFICES ASSUME SpawnInv, SpawnInv', [Next]_vars
               PROVE  [Supervision!Next]_(Supervision!vars)
    OBVIOUS
  <2>1. CASE UNCHANGED spawnVars
    BY <2>1 DEF spawnVars, Supervision!vars, Program
  <2>2. ASSUME NEW s \in Sessions, Step(s)
        PROVE  [Supervision!Next]_(Supervision!vars)
    <3>1. SpawnTypeOK /\ SpawnTypeOK' /\ SessionInv(s) /\ OthersAlone(s)
      BY <2>2, StepLeavesOthers DEF SpawnInv
    <3>2. OneAtATime(s)
      BY <2>2, <3>1, HostMaps, OthersMap DEF Step, SpawnStep
    <3> QED BY <3>1, <3>2, OneAtATimeMaps
  <2> QED BY <2>1, <2>2, CallsStep DEF vars
<1> QED BY <1>1, <1>2, Inductive, PTL DEF Spec, ImplementsSupervision, Supervision!Spec

-----------------------------------------------------------------------------
(***************************************************************************)
(* What the loop over the entries computes, for any entries: the last      *)
(* entry of a key counts, and a key without an entry keeps its value.      *)
(* Solved solves the equation of the recursion outright; that no other     *)
(* function does is shown by the least index at which one would differ.    *)
(***************************************************************************)

\* A nonempty set of natural numbers has a least one.
LEMMA Least ==
  ASSUME NEW T, T \subseteq Nat, T # {}
  PROVE  \E n \in T : \A m \in T : n <= m
<1>1. PICK n \in T : \A m \in T : <<m, n>> \notin OpToRel(<, Nat)
  BY NatLessThanWellFounded, WFMin
<1>2. ASSUME NEW m \in T PROVE ~ (m < n)
  BY <1>1, <1>2 DEF OpToRel
<1> QED BY <1>2

Entry == [key : STRING, value : STRING]

KeysUpTo(entries, i) == {entries[j].key : j \in 1 .. i}

IsLast(entries, i, k, j) ==
  entries[j].key = k /\ \A l \in 1 .. i : entries[l].key = k => l <= j

LastAt(entries, i, k) == CHOOSE j \in 1 .. i : IsLast(entries, i, k, j)

Solved(base, entries, i) ==
  [k \in DOMAIN base \cup KeysUpTo(entries, i) |->
     IF k \in KeysUpTo(entries, i) THEN entries[LastAt(entries, i, k)].value ELSE base[k]]

\* A key has a last entry.
LEMMA LastAtIsLast ==
  ASSUME NEW entries, NEW i \in Nat, NEW k \in KeysUpTo(entries, i)
  PROVE  LastAt(entries, i, k) \in 1 .. i /\ IsLast(entries, i, k, LastAt(entries, i, k))
<1> DEFINE T == {n \in Nat : \A l \in 1 .. i : entries[l].key = k => l <= n}
<1>1. i \in T
  OBVIOUS
<1>2. PICK m \in T : \A n \in T : m <= n
  <2>1. T \subseteq Nat /\ T # {}
    BY <1>1
  <2> HIDE DEF T
  <2> QED BY <2>1, Least
<1>3. PICK l \in 1 .. i : entries[l].key = k
  BY DEF KeysUpTo
<1>4. m \in Nat /\ l <= m /\ m <= i
  BY <1>1, <1>2, <1>3
<1>5. m - 1 \notin T
  BY <1>2, <1>4
<1>6. PICK j \in 1 .. i : entries[j].key = k /\ ~ (j <= m - 1)
  BY <1>3, <1>4, <1>5
<1>7. j = m
  BY <1>2, <1>4, <1>6
<1>8. IsLast(entries, i, k, m)
  BY <1>2, <1>6, <1>7 DEF IsLast
<1> QED BY <1>6, <1>7, <1>8 DEF LastAt

\* One entry more is the last of its own key and changes no other key's last.
LEMMA LastAtStep ==
  ASSUME NEW entries, NEW i \in Nat \ {0}, NEW k \in KeysUpTo(entries, i)
  PROVE  \/ entries[i].key = k /\ LastAt(entries, i, k) = i
         \/ /\ entries[i].key # k /\ k \in KeysUpTo(entries, i - 1)
            /\ LastAt(entries, i, k) = LastAt(entries, i - 1, k)
<1> DEFINE p == LastAt(entries, i, k)
<1>1. p \in 1 .. i /\ IsLast(entries, i, k, p)
  BY LastAtIsLast
<1>2. CASE entries[i].key = k
  BY <1>1, <1>2 DEF IsLast
<1>3. CASE entries[i].key # k
  <2>1. p \in 1 .. i - 1
    BY <1>1, <1>3 DEF IsLast
  <2>2. k \in KeysUpTo(entries, i - 1)
    BY <1>1, <2>1 DEF KeysUpTo, IsLast
  <2> DEFINE q == LastAt(entries, i - 1, k)
  <2>3. q \in 1 .. i - 1 /\ IsLast(entries, i - 1, k, q)
    <3>1. i - 1 \in Nat
      OBVIOUS
    <3> QED BY <2>2, <3>1, LastAtIsLast
  <2>4. q <= p /\ p <= q
    BY <1>1, <2>1, <2>3 DEF IsLast
  <2>5. p = q
    BY <2>1, <2>3, <2>4
  <2> QED BY <1>3, <2>2, <2>5
<1> QED BY <1>2, <1>3

\* The closed form obeys the recursion: one entry more is one Insert more.
LEMMA SolvedStep ==
  ASSUME NEW base, NEW entries, NEW i \in Nat \ {0}
  PROVE  Solved(base, entries, i) = Insert(Solved(base, entries, i - 1), entries[i])
<1> DEFINE old == Solved(base, entries, i - 1)
           new == Solved(base, entries, i)
           e == entries[i]
<1>1. KeysUpTo(entries, i) = KeysUpTo(entries, i - 1) \cup {e.key}
  <2>1. 1 .. i = (1 .. i - 1) \cup {i}
    OBVIOUS
  <2> QED BY <2>1 DEF KeysUpTo
<1>2. DOMAIN old = DOMAIN base \cup KeysUpTo(entries, i - 1)
  BY DEF Solved
<1>3. new = [k \in DOMAIN old \cup {e.key} |-> new[k]]
  BY <1>1, <1>2 DEF Solved
<1>4. ASSUME NEW k \in DOMAIN old \cup {e.key}
      PROVE  new[k] = IF k = e.key THEN e.value ELSE old[k]
  <2>1. CASE k = e.key
    <3>1. k \in KeysUpTo(entries, i)
      BY <1>1, <2>1
    <3>2. LastAt(entries, i, k) = i
      BY <2>1, <3>1, LastAtStep
    <3> QED BY <2>1, <3>1, <3>2 DEF Solved
  <2>2. CASE k # e.key /\ k \in KeysUpTo(entries, i - 1)
    <3>1. k \in KeysUpTo(entries, i)
      BY <1>1, <2>2
    <3>2. LastAt(entries, i, k) = LastAt(entries, i - 1, k)
      BY <2>2, <3>1, LastAtStep
    <3> QED BY <2>2, <3>1, <3>2 DEF Solved
  <2>3. CASE k # e.key /\ k \notin KeysUpTo(entries, i - 1)
    <3>1. k \in DOMAIN base /\ k \notin KeysUpTo(entries, i)
      BY <1>1, <1>2, <2>3
    <3> QED BY <2>3, <3>1 DEF Solved
  <2> QED BY <2>1, <2>2, <2>3
<1> HIDE DEF old, new, e
<1>5. new = [k \in DOMAIN old \cup {e.key} |-> IF k = e.key THEN e.value ELSE old[k]]
  BY <1>3, <1>4
<1> QED BY <1>5 DEF Insert, old, new, e

\* The loop computes the closed form.
LEMMA InsertedIsSolved ==
  ASSUME NEW base, base = [k \in DOMAIN base |-> base[k]],
         NEW entries, Len(entries) \in Nat
  PROVE  Inserted(base, entries) = Solved(base, entries, Len(entries))
<1> DEFINE n == Len(entries)
           Unfold(f) == [i \in 0 .. n |->
                           IF i = 0 THEN base ELSE Insert(f[i - 1], entries[i])]
           solution == [i \in 0 .. n |-> Solved(base, entries, i)]
           env == CHOOSE f : f = Unfold(f)
<1>1. solution = Unfold(solution)
  <2>1. Solved(base, entries, 0) = base
    <3>1. KeysUpTo(entries, 0) = {}
      BY DEF KeysUpTo
    <3> QED BY <3>1 DEF Solved
  <2>2. ASSUME NEW i \in 0 .. n, i # 0
        PROVE  Solved(base, entries, i) = Insert(solution[i - 1], entries[i])
    <3>1. i \in Nat \ {0} /\ i - 1 \in 0 .. n
      BY <2>2
    <3>2. solution[i - 1] = Solved(base, entries, i - 1)
      BY <3>1
    <3> QED BY <3>1, <3>2, SolvedStep
  <2> QED BY <2>1, <2>2
<1>2. env = Unfold(env)
  BY <1>1
<1>3. \A i \in 0 .. n : env[i] = IF i = 0 THEN base ELSE Insert(env[i - 1], entries[i])
  <2> HIDE DEF env
  <2> QED BY <1>2
<1>4. \A i \in 0 .. n : solution[i] = IF i = 0 THEN base ELSE Insert(solution[i - 1], entries[i])
  <2> HIDE DEF solution
  <2> QED BY <1>1
<1>5. Inserted(base, entries) = env[n]
  BY DEF Inserted
<1>6. solution[n] = Solved(base, entries, n)
  OBVIOUS
<1>7. ASSUME NEW j \in 0 .. n, env[j] # solution[j] PROVE FALSE
  <2> HIDE DEF env, solution
  <2> DEFINE T == {i \in 0 .. n : env[i] # solution[i]}
  <2>1. T \subseteq Nat /\ T # {}
    BY <1>7
  <2>2. PICK i \in T : \A m \in T : i <= m
    <3> HIDE DEF T
    <3> QED BY <2>1, Least
  <2>3. i \in 0 .. n /\ env[i] # solution[i]
    OBVIOUS
  <2>4. i # 0
    BY <1>3, <1>4, <2>3
  <2>5. i - 1 \in 0 .. n /\ i - 1 \notin T
    BY <2>2, <2>3, <2>4
  <2> QED BY <1>3, <1>4, <2>3, <2>4, <2>5
<1> HIDE DEF env, solution
<1> QED BY <1>5, <1>6, <1>7

-----------------------------------------------------------------------------
(***************************************************************************)
(* What passes the checks of the two files, against what ptyx.h asks for.  *)
(***************************************************************************)

\* The options a call may pass, as NativeCallsAssumption has them.
IsRequest(r) ==
  /\ {r.executable, r.argument, r.cwd} \subseteq {"empty", "text", "nul", "notUtf8", "nullData"}
  /\ r.env \in Seq([key : STRING, value : STRING])
  /\ r.size \in [{"rows", "columns", "pixels"} -> Nat]

Kept(r) == IF r.envMode \in {"inherit", "overlay"} THEN DOMAIN HostEnvironment ELSE {}

\* The last entry of a key counts; a key without an entry has the host's value,
\* where the mode keeps it.
LEMMA EnvironmentIs ==
  ASSUME NEW r, IsRequest(r)
  PROVE  LET env == Environment(r)
             keys == Keys(EntriesOf(r))
         IN  /\ DOMAIN env = keys \cup Kept(r)
             /\ \A k \in keys : env[k] = LastValue(r.env, k)
             /\ \A k \in DOMAIN env \ keys : env[k] = HostEnvironment[k]
<1> DEFINE es == EntriesOf(r)
           base == IF r.envMode \in {"inherit", "overlay"} THEN HostEnvironment ELSE <<>>
           n == Len(es)
<1>1. es = r.env \/ es = <<>>
  BY DEF EntriesOf
<1>2. n \in Nat /\ DOMAIN es = 1 .. n
  BY <1>1 DEF IsRequest
<1>3. DOMAIN base = Kept(r) /\ base = [k \in DOMAIN base |-> base[k]]
  <2>1. CASE r.envMode \in {"inherit", "overlay"}
    BY <2>1, NativeCallsAssumption DEF Kept
  <2>2. CASE r.envMode \notin {"inherit", "overlay"}
    <3>1. DOMAIN <<>> = {} /\ <<>> = [k \in {} |-> base[k]]
      OBVIOUS
    <3> QED BY <2>2, <3>1 DEF Kept
  <2> QED BY <2>1, <2>2
<1>4. \A k \in Kept(r) : base[k] = HostEnvironment[k]
  BY DEF Kept
<1>5. Environment(r) = Solved(base, es, n)
  <2>1. Environment(r) = Inserted(base, es)
    BY DEF Environment
  <2> HIDE DEF base, es
  <2> QED BY <1>2, <1>3, <2>1, InsertedIsSolved
<1>6. Keys(es) = KeysUpTo(es, n)
  BY <1>2 DEF Keys, KeysUpTo
<1>7. ASSUME NEW k \in Keys(es)
      PROVE  es[LastAt(es, n, k)].value = LastValue(r.env, k)
  <2>1. es = r.env
    <3>1. CASE es = <<>>
      BY <1>7, <3>1 DEF Keys
    <3> QED BY <1>1, <3>1
  <2>2. LastValue(es, k) = es[LastAt(es, n, k)].value
    BY <1>2 DEF LastValue, LastAt, IsLast
  <2> QED BY <2>1, <2>2
<1> HIDE DEF es, base, n
<1>8. DOMAIN Environment(r) = Keys(es) \cup Kept(r)
  BY <1>3, <1>5, <1>6 DEF Solved
<1>9. \A k \in Keys(es) : Environment(r)[k] = LastValue(r.env, k)
  BY <1>5, <1>6, <1>7 DEF Solved
<1>10. \A k \in Kept(r) \ Keys(es) : Environment(r)[k] = HostEnvironment[k]
  BY <1>3, <1>4, <1>5, <1>6 DEF Solved
<1> QED BY <1>8, <1>9, <1>10 DEF es

Accepted(r) == OptionsStatus(r) = "OK" /\ ~ SpawnRequestFails(r)

\* The checks of the environment, spread over the loop, the map and CString::new,
\* look at what each key ends up with, not at every entry.
LEMMA EnvironmentChecks ==
  ASSUME NEW r, IsRequest(r)
  PROVE  ~ EnvironmentFails(r) <=>
           /\ \A i \in DOMAIN EntriesOf(r) :
                r.env[i].value # "missing" /\ r.env[i].key \notin {"empty", "nul"}
           /\ \A k \in Keys(EntriesOf(r)) : LastValue(r.env, k) # "nul"
<1> DEFINE env == Environment(r)
           es == EntriesOf(r)
<1>1. /\ DOMAIN env = Keys(es) \cup Kept(r)
      /\ \A k \in Keys(es) : env[k] = LastValue(r.env, k)
      /\ \A k \in DOMAIN env \ Keys(es) : env[k] = HostEnvironment[k]
  BY EnvironmentIs
<1>2. "nul" \notin Kept(r) /\ \A k \in Kept(r) : HostEnvironment[k] # "nul"
  BY NativeCallsAssumption DEF Kept
<1>3. \A i \in DOMAIN es : es[i] = r.env[i]
  BY DEF EntriesOf
<1>4. "nul" \in Keys(es) <=> \E i \in DOMAIN es : r.env[i].key = "nul"
  BY <1>3 DEF Keys
<1> HIDE DEF env, es
<1>5. "nul" \in DOMAIN env <=> \E i \in DOMAIN es : r.env[i].key = "nul"
  BY <1>1, <1>2, <1>4
<1>6. (\E k \in DOMAIN env : env[k] = "nul") <=> \E k \in Keys(es) : LastValue(r.env, k) = "nul"
  BY <1>1, <1>2
<1>7. EnvironmentFails(r) <=>
        \/ \E i \in DOMAIN es : r.env[i].value = "missing" \/ r.env[i].key = "empty"
        \/ "nul" \in DOMAIN env
        \/ \E k \in DOMAIN env : env[k] = "nul"
  BY DEF EnvironmentFails, env, es
<1>8. ~ EnvironmentFails(r) <=>
        /\ \A i \in DOMAIN es : r.env[i].value # "missing" /\ r.env[i].key \notin {"empty", "nul"}
        /\ \A k \in Keys(es) : LastValue(r.env, k) # "nul"
  BY <1>5, <1>6, <1>7
<1> QED BY <1>8 DEF es

\* to_pty_size refuses what is out of range, and nothing else.
LEMMA SizeChecks ==
  ASSUME NEW r, IsRequest(r)
  PROVE  ~ SizeFails(r.size) <=>
           /\ r.size.rows \in 1 .. MaxU16 /\ r.size.columns \in 1 .. MaxU16
           /\ r.size.pixels \in 0 .. MaxU16
<1>1. /\ DOMAIN r.size = {"rows", "columns", "pixels"}
      /\ {r.size.rows, r.size.columns, r.size.pixels} \subseteq Nat
  BY DEF IsRequest
<1>2. SizeFails(r.size) <=>
        \/ r.size.rows = 0 \/ r.size.columns = 0
        \/ r.size.rows > MaxU16 \/ r.size.columns > MaxU16 \/ r.size.pixels > MaxU16
  BY <1>1 DEF SizeFails
<1>3. \A n \in Nat : /\ n \in 1 .. MaxU16 <=> ~ (n = 0 \/ n > MaxU16)
                     /\ n \in 0 .. MaxU16 <=> ~ (n > MaxU16)
  <2>1. MaxU16 \in Nat
    BY DEF MaxU16
  <2> QED BY <2>1
<1>4. r.size.rows \in Nat /\ r.size.columns \in Nat /\ r.size.pixels \in Nat
  BY <1>1
<1> QED BY <1>2, <1>3, <1>4, Zenon

\* The entries that pass the checks of the two files are those that are well formed
\* and those that Overlooked names.
LEMMA EntryChecks ==
  ASSUME NEW r, IsRequest(r)
  PROVE  /\ \A i \in DOMAIN r.env : ~ StringFails(r.env[i].value)
         /\ ~ EnvironmentFails(r)
         <=> \A i \in DOMAIN r.env \ Overlooked(r) : EntryIsWellFormed(r.env[i])
<1> DEFINE textual == \A i \in DOMAIN r.env : ~ StringFails(r.env[i].value)
           keyed == \A i \in DOMAIN r.env :
                      r.env[i].value # "missing" /\ r.env[i].key \notin {"empty", "nul"}
           noNul == \A k \in Keys(r.env) : LastValue(r.env, k) # "nul"
           wellFormed == \A i \in DOMAIN r.env \ Overlooked(r) : EntryIsWellFormed(r.env[i])
<1>1. CASE EntriesOf(r) = <<>>
  <2>1. DOMAIN EntriesOf(r) = {} /\ Keys(EntriesOf(r)) = {}
    BY <1>1 DEF Keys
  <2>2. ~ EnvironmentFails(r)
    BY <2>1, EnvironmentChecks
  <2>3. \A i \in DOMAIN r.env : i \notin Overlooked(r) <=> StringFails(r.env[i].value)
    BY <1>1 DEF Overlooked, StringFails
  <2>4. \A i \in DOMAIN r.env : StringFails(r.env[i].value) => ~ EntryIsWellFormed(r.env[i])
    BY DEF StringFails, EntryIsWellFormed
  <2> QED BY <2>2, <2>3, <2>4
<1>2. CASE EntriesOf(r) # <<>>
  <2>1. EntriesOf(r) = r.env
    BY <1>2 DEF EntriesOf
  <2>2. ~ EnvironmentFails(r) <=> keyed /\ noNul
    BY <2>1, EnvironmentChecks
  <2>3. \A i \in DOMAIN r.env :
          i \in Overlooked(r) <=>
            /\ r.env[i].value = "nul" /\ r.env[i].key \notin {"empty", "nul"}
            /\ \E j \in DOMAIN r.env : j > i /\ r.env[j].key = r.env[i].key
    BY <1>2 DEF Overlooked
  <2> DEFINE n == Len(r.env)
  <2>4. n \in Nat /\ DOMAIN r.env = 1 .. n /\ Keys(r.env) = KeysUpTo(r.env, n)
    BY DEF IsRequest, Keys, KeysUpTo
  <2>5. ASSUME NEW k \in Keys(r.env)
        PROVE  /\ LastAt(r.env, n, k) \in 1 .. n /\ IsLast(r.env, n, k, LastAt(r.env, n, k))
               /\ LastValue(r.env, k) = r.env[LastAt(r.env, n, k)].value
    <3>1. k \in KeysUpTo(r.env, n)
      BY <2>4
    <3>2. LastAt(r.env, n, k) \in 1 .. n /\ IsLast(r.env, n, k, LastAt(r.env, n, k))
      BY <2>4, <3>1, LastAtIsLast
    <3>3. LastValue(r.env, k) = r.env[LastAt(r.env, n, k)].value
      BY <2>4 DEF LastValue, LastAt, IsLast
    <3> QED BY <3>2, <3>3
  <2> HIDE DEF n
  <2>6. ASSUME textual, keyed, noNul, NEW i \in DOMAIN r.env \ Overlooked(r)
        PROVE  EntryIsWellFormed(r.env[i])
    <3>1. r.env[i].value # "nul"
      <4> SUFFICES ASSUME r.env[i].value = "nul" PROVE FALSE
        OBVIOUS
      <4> DEFINE k == r.env[i].key
                 m == LastAt(r.env, n, k)
      <4>1. k \in Keys(r.env)
        BY DEF Keys
      <4>2. /\ m \in 1 .. n /\ IsLast(r.env, n, k, m)
            /\ LastValue(r.env, k) = r.env[m].value
        BY <2>5, <4>1
      <4>3. ~ \E j \in DOMAIN r.env : j > i /\ r.env[j].key = k
        BY <2>3, <2>6
      <4>4. m = i
        BY <2>4, <4>2, <4>3 DEF IsLast
      <4> QED BY <2>6, <4>1, <4>2, <4>4
    <3> QED BY <2>6, <3>1 DEF EntryIsWellFormed, StringFails
  <2>7. ASSUME wellFormed PROVE textual /\ keyed
    <3> SUFFICES ASSUME NEW i \in DOMAIN r.env
        PROVE  /\ ~ StringFails(r.env[i].value)
               /\ r.env[i].value # "missing" /\ r.env[i].key \notin {"empty", "nul"}
      OBVIOUS
    <3>1. CASE i \in Overlooked(r)
      BY <2>3, <3>1 DEF StringFails
    <3>2. CASE i \notin Overlooked(r)
      BY <2>7, <3>2 DEF EntryIsWellFormed, StringFails
    <3> QED BY <3>1, <3>2
  <2>8. ASSUME wellFormed, NEW k \in Keys(r.env) PROVE LastValue(r.env, k) # "nul"
    <3> DEFINE m == LastAt(r.env, n, k)
    <3>1. /\ m \in 1 .. n /\ IsLast(r.env, n, k, m)
          /\ LastValue(r.env, k) = r.env[m].value
      BY <2>5
    <3>2. m \in DOMAIN r.env /\ ~ \E j \in DOMAIN r.env : j > m /\ r.env[j].key = r.env[m].key
      BY <2>4, <3>1 DEF IsLast
    <3>3. m \notin Overlooked(r)
      BY <2>3, <3>2
    <3> QED BY <2>8, <3>1, <3>2, <3>3 DEF EntryIsWellFormed
  <2> QED BY <2>2, <2>6, <2>7, <2>8
<1> QED BY <1>1, <1>2

\* A request is accepted exactly when it is well formed but for the entries that the
\* code overlooks.
LEMMA AcceptedIsWellFormed ==
  ASSUME NEW r, IsRequest(r)
  PROVE  Accepted(r) <=> WellFormedBut(r, Overlooked(r))
<1>1. OptionsStatus(r) = "OK" <=>
        r.flags \subseteq SupportedFlags /\ 0 \notin r.ports /\ ~ SpawnConfigFails(r) /\ r.out
  BY DEF OptionsStatus
<1> DEFINE valuesOk == \A i \in DOMAIN r.env : ~ StringFails(r.env[i].value)
           entriesOk ==
             \A i \in DOMAIN r.env \ Overlooked(r) : EntryIsWellFormed(r.env[i])
           sizeOk ==
             /\ r.size.rows \in 1 .. MaxU16 /\ r.size.columns \in 1 .. MaxU16
             /\ r.size.pixels \in 0 .. MaxU16
<1>2. valuesOk /\ ~ EnvironmentFails(r) <=> entriesOk
  BY EntryChecks
<1>3. ~ SizeFails(r.size) <=> sizeOk
  BY SizeChecks, Zenon
<1>4. WellFormedBut(r, Overlooked(r)) <=>
        /\ r.flags \subseteq SupportedFlags /\ 0 \notin r.ports /\ r.out
        /\ r.executable = "text" /\ {r.argument, r.cwd} \subseteq {"empty", "text"}
        /\ r.envMode \in EnvironmentModes /\ entriesOk /\ sizeOk
  <2>1. ASSUME WellFormedBut(r, Overlooked(r)) PROVE entriesOk /\ sizeOk
    BY <2>1, Zenon DEF WellFormedBut
  <2>2. ASSUME entriesOk, sizeOk,
               r.flags \subseteq SupportedFlags /\ 0 \notin r.ports /\ r.out,
               r.executable = "text" /\ {r.argument, r.cwd} \subseteq {"empty", "text"},
               r.envMode \in EnvironmentModes
        PROVE  WellFormedBut(r, Overlooked(r))
    BY <2>2, Zenon DEF WellFormedBut
  <2>3. WellFormedBut(r, Overlooked(r)) =>
          /\ r.flags \subseteq SupportedFlags /\ 0 \notin r.ports /\ r.out
          /\ r.executable = "text" /\ {r.argument, r.cwd} \subseteq {"empty", "text"}
          /\ r.envMode \in EnvironmentModes
    BY Zenon DEF WellFormedBut
  <2> HIDE DEF entriesOk, sizeOk
  <2> QED BY <2>1, <2>2, <2>3, Zenon
<1> HIDE DEF entriesOk, sizeOk
<1>5. /\ r.executable \in {"empty", "text", "nul", "notUtf8", "nullData"}
      /\ r.argument \in {"empty", "text", "nul", "notUtf8", "nullData"}
      /\ r.cwd \in {"empty", "text", "nul", "notUtf8", "nullData"}
  BY DEF IsRequest
<1>6. ~ SpawnConfigFails(r) <=>
        /\ r.executable \notin {"empty", "notUtf8", "nullData"}
        /\ {r.argument, r.cwd} \cap {"notUtf8", "nullData"} = {}
        /\ valuesOk /\ r.envMode \in EnvironmentModes /\ sizeOk
  BY <1>3 DEF SpawnConfigFails, StringFails
<1>7. ~ SpawnRequestFails(r) <=>
        /\ r.executable # "nul" /\ r.argument # "nul" /\ r.cwd # "nul"
        /\ ~ EnvironmentFails(r)
  BY DEF SpawnRequestFails
<1>8. r.executable \notin {"empty", "notUtf8", "nullData"} /\ r.executable # "nul"
        <=> r.executable = "text"
  BY <1>5
<1>9. {r.argument, r.cwd} \cap {"notUtf8", "nullData"} = {} /\ r.argument # "nul" /\ r.cwd # "nul"
        <=> {r.argument, r.cwd} \subseteq {"empty", "text"}
  BY <1>5
<1> HIDE DEF valuesOk
<1> QED BY <1>1, <1>2, <1>4, <1>6, <1>7, <1>8, <1>9 DEF Accepted

\* Every default is within the limits of its option, and what is within them is
\* taken as it is.
LEMMA ConfigIsAsRequested ==
  ASSUME NEW options, NEW f \in DOMAIN Defaults
  PROVE  /\ options[f] = 0 => Config(options)[f] = Defaults[f]
         /\ options[f] \in Limits[f][1] .. Limits[f][2] => Config(options)[f] = options[f]
<1>1. Config(options)[f] = Clamp(OrDefault(options[f], Defaults[f]), Limits[f])
  BY DEF Config
<1>2. /\ {Limits[f][1], Limits[f][2], Defaults[f]} \subseteq Int
      /\ 1 <= Limits[f][1]
      /\ Limits[f][1] <= Defaults[f] /\ Defaults[f] <= Limits[f][2]
  BY DEF Defaults, Limits, KiB, MiB, Largest
<1> QED BY <1>1, <1>2 DEF Clamp, OrDefault

-----------------------------------------------------------------------------
(***************************************************************************)
(* The options of a session from its checks to its program.                *)
(***************************************************************************)

Checked(s) == initialized /\ request[s] \in RequestsOf[s] /\ Accepted(request[s])

Rejected(s) == request[s] \in RequestsOf[s] /\ ~ Accepted(request[s])

\* A host that has got past its first step has checked the options, and a status of
\* INVALID_ARGUMENT is about the options that the session has kept.
CheckedInv ==
  /\ DOMAIN request = Sessions /\ DOMAIN refused = Sessions
  /\ \A s \in Sessions :
       /\ host[s] \notin {"idle", "failed"} \/ monitor[s] # "none" => Checked(s)
       /\ host[s] = "idle" => request[s] = <<>> /\ refused[s] = "OK"
       /\ refused[s] = "INVALID_ARGUMENT" /\ request[s] # <<>> => Rejected(s)

LEMMA CheckedStep == SpawnInv /\ CheckedInv /\ [Next]_vars => CheckedInv'
<1> SUFFICES ASSUME SpawnInv, CheckedInv, [Next]_vars PROVE CheckedInv'
  OBVIOUS
<1>1. CASE UNCHANGED <<host, monitor, request, refused>> /\ (initialized' = initialized \/ initialized')
  <2>1. ASSUME NEW s \in Sessions, Checked(s) PROVE Checked(s)'
    BY <1>1, <2>1 DEF Checked
  <2> QED BY <1>1, <2>1 DEF CheckedInv, Rejected
<1>2. ASSUME NEW s \in Sessions, PtyxSpawn(s)
      PROVE  CheckedInv'
  <2>1. /\ host[s] = "idle" /\ monitor[s] = "none" /\ monitor' = monitor
        /\ initialized' = initialized
    BY <1>2 DEF PtyxSpawn, Refuse, OpenEventPipe, HostAt, SpawnInv, SessionInv, HostInv
  <2>2. \A t \in Sessions \ {s} :
          host'[t] = host[t] /\ request'[t] = request[t] /\ refused'[t] = refused[t]
    BY <1>2 DEF PtyxSpawn, Refuse, OpenEventPipe, HostAt, SpawnInv, SpawnTypeOK, CheckedInv
  <2>3. DOMAIN request' = Sessions /\ DOMAIN refused' = Sessions
    BY <1>2 DEF PtyxSpawn, Refuse, OpenEventPipe, CheckedInv
  <2>4. request[s] = <<>> /\ refused[s] = "OK"
    BY <2>1 DEF CheckedInv
  <2> DEFINE Good == /\ host'[s] \in {"fork", "failed"}
                     /\ host'[s] = "fork" => Checked(s)'
                     /\ refused'[s] = "INVALID_ARGUMENT" /\ request'[s] # <<>> => Rejected(s)'
  <2>5. ASSUME NEW why, Refuse(s, why)
        PROVE  host'[s] = "failed" /\ refused'[s] = why
    BY <2>5 DEF Refuse, HostAt, SpawnInv, SpawnTypeOK, CheckedInv
  <2>6. ASSUME NEW r \in RequestsOf[s], initialized, request' = [request EXCEPT ![s] = r],
               OptionsStatus(r) # "OK" /\ Refuse(s, OptionsStatus(r))
        PROVE  Good
    <3>1. request'[s] = r /\ ~ Accepted(r)
      BY <2>6 DEF Accepted, CheckedInv
    <3>2. host'[s] = "failed"
      BY <2>5, <2>6
    <3> QED BY <3>1, <3>2 DEF Rejected
  <2>7. ASSUME NEW r \in RequestsOf[s], initialized, request' = [request EXCEPT ![s] = r],
               \E why \in {"SPAWN_FAILED", "IO_FAILED", "UNSUPPORTED"} : Refuse(s, why)
        PROVE  Good
    BY <2>5, <2>7
  <2>8. ASSUME NEW r \in RequestsOf[s], initialized, request' = [request EXCEPT ![s] = r],
               SpawnRequestFails(r) /\ Refuse(s, "INVALID_ARGUMENT")
        PROVE  Good
    <3>1. request'[s] = r /\ ~ Accepted(r)
      BY <2>8 DEF Accepted, CheckedInv
    <3>2. host'[s] = "failed"
      BY <2>5, <2>8
    <3> QED BY <3>1, <3>2 DEF Rejected
  <2>9. ASSUME NEW r \in RequestsOf[s], initialized, request' = [request EXCEPT ![s] = r],
                OptionsStatus(r) = "OK", ~ SpawnRequestFails(r),
                OpenEventPipe(s), UNCHANGED refused
         PROVE  Good
    <3>1. request'[s] = r /\ Accepted(r)
      BY <2>9 DEF Accepted, CheckedInv
    <3>2. host'[s] \in {"fork", "failed"}
      BY <2>9 DEF OpenEventPipe, HostAt, SpawnInv, SpawnTypeOK
    <3>3. refused'[s] = "OK"
      BY <2>4, <2>9
    <3> QED BY <2>1, <2>9, <3>1, <3>2, <3>3 DEF Checked
  <2>10. Good
    <3> HIDE DEF Good
    <3>1. CASE Refuse(s, "INVALID_ARGUMENT") /\ UNCHANGED request
      BY <2>4, <2>5, <3>1 DEF Good
    <3> QED BY <1>2, <3>1, <2>6, <2>7, <2>8, <2>9 DEF PtyxSpawn
  <2> QED BY <2>1, <2>2, <2>3, <2>10 DEF CheckedInv, Checked, Rejected
<1>3. ASSUME NEW s \in Sessions, SpawnStep(s), UNCHANGED callVars
      PROVE  CheckedInv'
  <2>1. Step(s) /\ OthersAlone(s) /\ UNCHANGED <<initialized, request, refused>>
    BY <1>3, StepLeavesOthers DEF Step, SpawnInv, callVars
  <2>2. \/ host'[s] = host[s] /\ monitor'[s] = monitor[s]
        \/ /\ host[s] \notin {"idle", "failed"} \/ monitor[s] # "none"
           /\ host'[s] = "idle" => host[s] = "idle"
    <3>1. CASE host[s] \notin {"idle", "failed"} \/ monitor[s] # "none"
      <4>1. host'[s] = "idle" => host[s] = "idle"
        BY <1>3
           DEF SpawnStep, HostStep, WaitStep, MonitorStep, ChildStep, ForkMonitor, CloseWriteEnd,
               ReadSpawnMessage, ReadSpawnEof, ReapMonitor, ReadExitMessage, ReapExitedMonitor,
               ReadExitEof, AbandonChild, EmbedderReaps, ForkChild, MonitorReadsErrno,
               MonitorReadsEof, MonitorSendsError, MonitorReapsFailed, MonitorSendsPid,
               MonitorReportsExit, MonitorReadFails, MonitorDies, MonitorAlive, ChildExecs,
               ChildReports, ProgramEnds, ChildKilled, InitReaps, HostAt, MonitorAt,
               SpawnInv, SpawnTypeOK
      <4> QED BY <3>1, <4>1
    <3>2. CASE host[s] \in {"idle", "failed"} /\ monitor[s] = "none"
      BY <1>3, <3>2
         DEF SpawnStep, HostStep, WaitStep, MonitorStep, ChildStep, ForkMonitor, CloseWriteEnd,
             ReadSpawnMessage, ReadSpawnEof, ReapMonitor, ReadExitMessage, ReapExitedMonitor,
             ReadExitEof, AbandonChild, EmbedderReaps, ForkChild, MonitorReadsErrno,
             MonitorReadsEof, MonitorSendsError, MonitorReapsFailed, MonitorSendsPid,
             MonitorReportsExit, MonitorReadFails, MonitorDies, MonitorAlive, ChildExecs,
             ChildReports, ProgramEnds, ChildKilled, InitReaps, HostAt, MonitorAt
    <3> QED BY <3>1, <3>2
  <2> QED BY <2>1, <2>2 DEF OthersAlone, CheckedInv, Checked, Rejected
<1> QED BY <1>1, <1>2, <1>3
        DEF Next, PtyxInit, AllocBuffer, FreeBuffer, WriteOwned, spawnVars, vars, callVars

\* What is known of the options of every session, always.
LEMMA CheckedHolds == Spec => []CheckedInv
<1>1. Init => CheckedInv
  BY DEF Init, SpawnInit, CheckedInv
<1> QED BY <1>1, CheckedStep, Inductive, PTL DEF Spec

\* A process is forked only after ptyx_init and for a request that is well formed
\* but for the entries that Overlooked names, and no well-formed request is refused
\* as an invalid argument: the checks in abi.rs and process_linux.rs, with the
\* opening of the terminal between them, are together not stronger than what
\* include/ptyx.h asks for, and weaker only where Overlooked says so.
THEOREM OnlyWellFormedForksHolds == Spec => []OnlyWellFormedForks
<1>1. CheckedInv => OnlyWellFormedForks
  <2> SUFFICES ASSUME CheckedInv, NEW s \in Sessions
      PROVE  /\ monitor[s] # "none" =>
                  initialized /\ WellFormedBut(request[s], Overlooked(request[s]))
             /\ SpawnStatus(s) = "INVALID_ARGUMENT" /\ request[s] # <<>> => ~ WellFormed(request[s])
    BY DEF OnlyWellFormedForks
  <2>1. \A r \in RequestsOf[s] : Accepted(r) <=> WellFormedBut(r, Overlooked(r))
    BY NativeCallsAssumption, AcceptedIsWellFormed DEF IsRequest
  <2>2. \A r \in RequestsOf[s] : WellFormed(r) => WellFormedBut(r, Overlooked(r))
    BY DEF WellFormed, WellFormedBut
  <2>3. SpawnStatus(s) = "INVALID_ARGUMENT" => refused[s] = "INVALID_ARGUMENT"
    BY DEF SpawnStatus
  <2> QED BY <2>1, <2>2, <2>3 DEF CheckedInv, Checked, Rejected
<1> QED BY <1>1, CheckedHolds, PTL

\* A session runs as its request asks: its environment has the last entry of every
\* key, for any entries, and every option is the default, or as given within its
\* limits (environment, runtime_config_from_options).
THEOREM SessionIsAsRequestedHolds == Spec => []SessionIsAsRequested
<1>1. SpawnInv /\ CheckedInv => SessionIsAsRequested
  <2> SUFFICES ASSUME SpawnInv, CheckedInv, NEW s \in Sessions, child[s] = "program"
      PROVE  LET r == request[s]
                 env == Environment(r)
                 keys == Keys(EntriesOf(r))
             IN  /\ DOMAIN env = keys \cup Kept(r)
                 /\ \A k \in DOMAIN env :
                      env[k] = IF k \in keys THEN LastValue(r.env, k) ELSE HostEnvironment[k]
                 /\ \A f \in DOMAIN Defaults :
                      /\ r.options[f] = 0 => Config(r.options)[f] = Defaults[f]
                      /\ r.options[f] \in Limits[f][1] .. Limits[f][2]
                           => Config(r.options)[f] = r.options[f]
    BY DEF SessionIsAsRequested, Kept
  <2>1. monitor[s] # "none"
    BY DEF SpawnInv, SessionInv, ChildInv
  <2>2. IsRequest(request[s])
    BY <2>1, NativeCallsAssumption DEF CheckedInv, Checked, IsRequest
  <2> QED BY <2>2, EnvironmentIs, ConfigIsAsRequested
<1> QED BY <1>1, CheckedHolds, Inductive, PTL
=============================================================================
