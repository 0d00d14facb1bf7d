------------------------------ MODULE TerminalView ------------------------------
(***************************************************************************)
(* One terminal on one isolate: its session, its search and the scrollback *)
(* compression of its view.  They meet where something is notified: a      *)
(* terminal that changes tells the search controller and then the session, *)
(* which tells the view of a frame unless a geometry is being committed,   *)
(* and listeners of any of them may call any of them again.                *)
(*                                                                         *)
(* What a call has to finish comes before any timer or idle task.  `stack' *)
(* has one entry for each "search" and each "selected" in `tasks'.  Host   *)
(* and program use only the parts of one scenario, a bound on what is      *)
(* explored.                                                               *)
(***************************************************************************)
EXTENDS SearchController, ScrollbackCompression, TerminalSession

CONSTANT Scenarios   \* bound: sets of parts that are used together

VARIABLE parts       \* the parts that are used

viewVars == <<vars, compressionVars, sessionVars, parts>>

Uses(part) == part \in parts /\ UNCHANGED parts

ViewInit ==
  /\ parts \in Scenarios
  /\ Init
  /\ CompressionInit /\ ("view" \in parts \/ (backlog = 0 /\ supported))
  /\ SessionInit /\ (restoration # "none" <=> "restoration" \in parts)

-----------------------------------------------------------------------------
(***************************************************************************)
(* Calls.                                                                  *)
(***************************************************************************)

\* There is more to compress: after a write, a resize or a chunk of history, of
\* which the view is told later, or as a search restores what it reads.
Growth == ("compression" \in parts /\ ScrollbackGrows) \/ UNCHANGED compressionVars
GrowthIfResized == IF grid' = grid THEN UNCHANGED compressionVars ELSE Growth

\* A navigation makes the terminal notify, and so the session: it has a frame to
\* publish, and what a call under way has changed and not published yet.
Told == IF UnderWay("changed") \/ UnderWay("state") THEN "changed" ELSE "frame"

\* The calls of a search controller, but from an effect.
SearchCall ==
  /\ Uses("search")
  /\ Callable /\ ~ UnderWay("effects") /\ ~ UnderWay("report")
  /\ \/ (\E q \in Queries : Search(q)) /\ Push(<<T("search")>>) /\ Growth
     \/ Clear /\ UNCHANGED <<tasks, compressionVars>>
     \/ SelectMatch /\ Push(<<T(Told), T("selected")>>) /\ Growth
  /\ UNCHANGED <<closed, holdVars, geometryVars, restorationVars>>

ContentCall ==
  /\ \/ Write /\ Growth /\ UNCHANGED parts
     \/ Uses("resize") /\ (\E g \in Grids : HandleResize(g)) /\ GrowthIfResized
  /\ UNCHANGED vars

HoldCall ==
  /\ Uses("hold")
  /\ BeginRenderHold \/ EndRenderHold \/ SetRenderSurfaceCallbacks
  /\ UNCHANGED <<vars, compressionVars>>

ConfigCall == Uses("config") /\ SetConfig /\ UNCHANGED <<vars, compressionVars>>

\* The session disposes its search; the view disposes its scheduler itself.
DisposeAll == DisposeSession /\ Dispose /\ UNCHANGED <<compressionVars, parts>>

\* Attaching, detaching and disposing the view.
ViewCall ==
  /\ Uses("view")
  /\ (~ closed /\ Schedule) \/ Cancel \/ EndCompression
  /\ UNCHANGED <<vars, sessionVars>>

-----------------------------------------------------------------------------
(***************************************************************************)
(* What calls do next.                                                     *)
(***************************************************************************)

\* The terminal notifies the search, or the session has it refreshed.
SearchIsTold ==
  /\ TellSearch
  /\ \/ TerminalChanges /\ tasks' # Tail(tasks)
     \/ ChangeMissed /\ tasks' = Tail(tasks)
     \/ (disposed \/ ~ HasQuery) /\ UNCHANGED vars /\ tasks' = Tail(tasks)
  /\ UNCHANGED <<compressionVars, parts>>

ListenersReturn ==
  /\ Return
  /\ IF Head(tasks).op \in {"search", "selected"} THEN Resume ELSE UNCHANGED vars
  /\ UNCHANGED <<compressionVars, parts>>

\* ViewAttachment._handleTerminalChanged, for a frame that is not put off.
ViewIsTold ==
  /\ PublishFrame
  /\ IF "compression" \in parts /\ ~ closed /\ ~ Committing
     THEN NotifyActivity ELSE UNCHANGED compressionVars
  /\ UNCHANGED <<vars, parts>>

SessionContinues ==
  /\ NotifySession \/ PublishViewport \/ Continue
  /\ UNCHANGED <<vars, compressionVars, parts>>

-----------------------------------------------------------------------------
(***************************************************************************)
(* The event loop, when no call is under way.                              *)
(***************************************************************************)

SearchTimer ==
  /\ tasks = <<>>
  /\ RunWork
  /\ IF stack' = <<>> THEN UNCHANGED <<tasks, compressionVars>>
     ELSE tasks' = <<T("search")>> /\ Growth
  /\ UNCHANGED <<closed, holdVars, geometryVars, restorationVars, parts>>

HoldTimer == HoldTimesOut /\ UNCHANGED <<vars, compressionVars, parts>>

RestorationTimer ==
  /\ (RestoreChunk /\ Growth) \/ (FinishRestoration /\ GrowthIfResized)
  /\ UNCHANGED <<vars, parts>>

CompressionTimer == tasks = <<>> /\ TimerFires /\ UNCHANGED <<vars, sessionVars, parts>>

\* A step that is not ignored throws once the controller is disposed.
IdleTask(current) ==
  /\ tasks = <<>>
  /\ IF closed /\ ~ Ignored(current)
     THEN /\ task /\ task' = FALSE
          /\ UNCHANGED <<backlog, supported, known, timer, outdated, pending, unsupported,
                         ended, quiet, asked>>
     ELSE Step(current)
  /\ UNCHANGED <<vars, sessionVars, parts>>

-----------------------------------------------------------------------------
HostActs == SearchCall \/ ContentCall \/ HoldCall \/ ConfigCall \/ DisposeAll \/ ViewCall

IsolateRuns ==
  \/ SearchIsTold \/ ListenersReturn \/ ViewIsTold \/ SessionContinues
  \/ SearchTimer \/ HoldTimer \/ RestorationTimer \/ CompressionTimer
  \/ \E current \in BOOLEAN : IdleTask(current)

ViewNext == HostActs \/ IsolateRuns

\* Listeners return, and an isolate that is left alone runs what it has to run.
ViewSpec == ViewInit /\ [][ViewNext]_viewVars /\ WF_viewVars(IsolateRuns)

-----------------------------------------------------------------------------
(***************************************************************************)
(* Properties.                                                             *)
(***************************************************************************)

\* Nothing that was begun is left: no call, no notification kept back, no
\* unfinished search, no held frame, no restoration without an answer, and no
\* compression, but of what a search restored later (then the token is another).
Settled ==
  /\ tasks = <<>> /\ (unsent = {} \/ closed)
  /\ disposed \/ ~ IsSearching
  /\ phase = "released" /\ surface = "live"
  /\ completion # "open"
  /\ closed \/ ~ pending
  /\ closed \/ backlog = 0 \/ ~ asked \/ ~ known \/ ~ supported \/ ended

\* The parts of a view do not keep each other busy, nor does one lose what
\* another told it: once the host leaves it alone, everything it began is
\* finished, and stays so.
ViewSettles == <>[]Settled \/ []<><<HostActs>>_viewVars
=============================================================================
