----------------------------- MODULE TerminalSession -----------------------------
(***************************************************************************)
(* TerminalSession of flterm: the render hold of synchronized output, the  *)
(* commits of geometry, and the restoration of a snapshot, for one         *)
(* terminal on one isolate.                                                *)
(*                                                                         *)
(* Whatever notifies somebody may be called again before it has finished.  *)
(* `tasks' is what the calls under way have left to do, innermost first;   *)
(* the host may call while listeners or effects run (Callable).            *)
(*                                                                         *)
(* External: the terminal, which has a grid and answers a write with       *)
(* effects, and the host.  Of the renderer's surface, one phase matters:   *)
(* "live", or the frame of a hold, "pending" until it is painted.  A       *)
(* geometry is its grid.  The epoch and the revision numbers only serve to *)
(* recognize what is outdated; a task says so itself.                      *)
(***************************************************************************)
EXTENDS Naturals, Sequences, FiniteSets

CONSTANTS
  Grids,       \* sizes of the terminal
  MaxChunks,   \* bound: chunks of history in a snapshot
  MaxWaiting   \* bound: listeners and effects that the host calls from at a time

ASSUME TerminalSessionAssumption ==
  /\ "none" \notin Grids
  /\ MaxChunks \in Nat
  /\ MaxWaiting \in Nat

VARIABLES
  tasks,         \* what the calls under way do next
  closed,        \* _disposed
  phase,         \* _renderHoldPhase
  timeout,       \* _renderHoldTimeout is set
  callbacks,     \* _renderSurfaceCallbacks is set: a renderer is attached
  surface,       \* the renderer's presentation
  grid,          \* terminal: its size
  committed,     \* _committedGeometry
  deferred,      \* _deferredGeometry
  unsent,        \* the notifications that wait for the commit
  defers,        \* _deferResize
  restoration,   \* _restorationState
  restoreTimer,  \* _restorationWork and _snapshotDecoder are set
  chunks,        \* external: history left in the snapshot
  completion,    \* _restorationCompletion
  wanted,        \* history: the geometry measured last
  threw          \* history: the last resize of the terminal threw

holdVars == <<phase, timeout, callbacks, surface>>
geometryVars == <<grid, committed, deferred, unsent, wanted, threw>>
restorationVars == <<defers, restoration, restoreTimer, chunks, completion>>
sessionVars == <<tasks, closed, holdVars, geometryVars, restorationVars>>

SessionInit ==
  /\ tasks = <<>> /\ closed = FALSE
  /\ phase = "released" /\ timeout = FALSE /\ callbacks = FALSE /\ surface = "live"
  /\ grid \in Grids
  /\ committed = "none" /\ deferred = "none" /\ wanted = "none"
  /\ unsent = {} /\ threw = FALSE
  /\ \E restored \in BOOLEAN :
       /\ restoration = IF restored THEN "restoring" ELSE "none"
       /\ restoreTimer = restored
       /\ defers \in IF restored THEN BOOLEAN ELSE {FALSE}
       /\ completion = IF restored THEN "open" ELSE "none"
       /\ chunks \in IF restored THEN 0 .. MaxChunks ELSE {0}

-----------------------------------------------------------------------------
(***************************************************************************)
(* Calls under way.                                                        *)
(***************************************************************************)

T(op) == [op |-> op]

\* Somebody else's code runs: listeners of the session or of its search,
\* effects of a write, the size report of a resize.
Waiting == {"listeners", "search", "effects", "report"}

At(op) == tasks # <<>> /\ Head(tasks).op = op
UnderWay(op) == \E i \in DOMAIN tasks : tasks[i].op = op
Waits == {i \in DOMAIN tasks : tasks[i].op \in Waiting}
Selections == {i \in DOMAIN tasks : tasks[i].op = "selected"}

\* The host may call, and nests no more calls than the bound, which does not
\* count what a selection tells; MaxNesting bounds that.
Callable ==
  /\ ~ closed
  /\ tasks # <<>> => Head(tasks).op \in Waiting
  /\ Cardinality(Waits) < MaxWaiting + Cardinality(Selections)

Push(new) == tasks' = new \o tasks
Replace(new) == tasks' = new \o Tail(tasks)

\* Listeners, the effects of a write, or the native selection have returned.
Return ==
  /\ tasks # <<>>
  /\ Head(tasks).op \in Waiting \cup {"selected"}
  /\ Replace(<<>>)
  /\ UNCHANGED <<closed, holdVars, geometryVars, restorationVars>>

-----------------------------------------------------------------------------
(***************************************************************************)
(* Notifications.  While a geometry is being committed they are put off.   *)
(***************************************************************************)

Committing == UnderWay("commit")

\* A notification n, which goes on with then, if it is not put off.
Publish(n, then) ==
  /\ At(n)
  /\ \/ closed /\ Replace(<<>>) /\ UNCHANGED unsent
     \/ ~ closed /\ Committing /\ Replace(<<>>) /\ unsent' = unsent \cup {n}
     \/ ~ closed /\ ~ Committing /\ Replace(then) /\ UNCHANGED unsent
  /\ UNCHANGED <<closed, holdVars, grid, committed, deferred, wanted, threw, restorationVars>>

\* notifyListeners
NotifySession == Publish("state", <<T("listeners")>>)

\* _publishViewportChange: the search is a listener.
PublishViewport == Publish("viewport", <<T("listeners"), T("frame")>>)

\* _publishFrameChange: the view and the renderer are listeners.
PublishFrame == Publish("frame", <<>>)

\* The terminal notifies the search, or the session has it refreshed; its
\* listeners run unless it has no query.
TellSearch ==
  /\ At("terminal") \/ At("refresh")
  /\ Replace(<<>>) \/ Replace(<<T("search")>>)
  /\ UNCHANGED <<closed, holdVars, geometryVars, restorationVars>>

-----------------------------------------------------------------------------
(***************************************************************************)
(* The render hold.                                                        *)
(***************************************************************************)

\* _finishRenderHold
FinishRenderHold ==
  /\ phase' = "released"
  /\ timeout' = FALSE
  /\ surface' = IF callbacks THEN "live" ELSE surface
  /\ UNCHANGED callbacks

\* write, up to the effects; there is none while the effects of another run.
Write ==
  /\ Callable
  /\ ~ UnderWay("effects")
  /\ Push(<<T("effects"), T("terminal"), T("changed"), T("wrote")>>)
  /\ UNCHANGED <<closed, holdVars, geometryVars, restorationVars>>

\* _handleRenderHold(held: true), when the program begins a synchronized update:
\* capturing may be refused or throw, and without a renderer there is none.
BeginRenderHold ==
  /\ At("effects")
  /\ phase = "released"
  /\ timeout' = TRUE
  /\ \/ /\ callbacks
        /\ phase' = "captured"
        /\ surface' \in {"pending", "held"}
     \/ phase' = "releaseAfterWrite" /\ UNCHANGED surface
  /\ Push(<<T("state")>>)
  /\ UNCHANGED <<closed, callbacks, geometryVars, restorationVars>>

\* The program ends the update, or a resize does; or the host does, by modeSet
\* or by an interaction.
EndRenderHold ==
  /\ Callable \/ At("effects") \/ At("report")
  /\ phase # "released"
  /\ FinishRenderHold
  /\ Push(<<T("state")>>)
  /\ UNCHANGED <<closed, geometryVars, restorationVars>>

\* config: modes, which may end a hold, and options; the search is refreshed.
SetConfig ==
  /\ Callable
  /\ \/ UNCHANGED holdVars /\ Push(<<T("refresh"), T("state")>>)
     \/ phase # "released" /\ FinishRenderHold /\ Push(<<T("state"), T("refresh"), T("state")>>)
  /\ UNCHANGED <<closed, geometryVars, restorationVars>>

\* _renderHoldTimeout fires.
HoldTimesOut ==
  /\ tasks = <<>>
  /\ timeout
  /\ FinishRenderHold
  /\ Push(<<T("state")>>)
  /\ UNCHANGED <<closed, geometryVars, restorationVars>>

\* Fault: the hold is left to the next renderer.
SwapCallbacks(on) ==
  /\ callbacks' = on
  /\ UNCHANGED <<phase, timeout, surface>>

\* A hold ends with the renderer it was captured by, without notification.
ReleaseCallbacks(on) ==
  /\ callbacks' = on
  /\ phase' = "released"
  /\ timeout' = FALSE
  /\ surface' = IF callbacks THEN "live" ELSE surface

\* _setRenderSurfaceCallbacks, as a renderer is attached or detached.
SetRenderSurfaceCallbacks ==
  /\ tasks = <<>>
  /\ ~ closed
  /\ ReleaseCallbacks(~ callbacks)
  /\ UNCHANGED <<tasks, closed, geometryVars, restorationVars>>

\* _onTerminalChanged: the state may be another, and the modes of the
\* configuration are applied when the alternate screen is left.
TerminalChanged ==
  /\ At("changed")
  /\ \/ /\ UNCHANGED holdVars
        /\ Replace(<<>>) \/ (~ closed /\ (Replace(<<T("frame")>>) \/ Replace(<<T("state"), T("frame")>>)))
     \/ /\ ~ closed /\ phase # "released"
        /\ FinishRenderHold
        /\ Replace(<<T("state"), T("state"), T("frame")>>)
  /\ closed \/ tasks' # Tail(tasks)
  /\ UNCHANGED <<closed, geometryVars, restorationVars>>

\* The last part of the outermost write: what was not captured is released, a
\* captured frame is painted, which may fail.  Then the view may scroll.
WriteEnds ==
  /\ At("wrote")
  /\ LET outermost == ~ \E i \in 2 .. Len(tasks) : tasks[i].op = "wrote"
     IN  \/ /\ ~ outermost \/ phase = "released"
            /\ UNCHANGED holdVars
            /\ Replace(<<>>) \/ Replace(<<T("viewport")>>)
         \/ /\ outermost /\ phase = "releaseAfterWrite"
            /\ FinishRenderHold
            /\ Replace(<<T("state")>>) \/ Replace(<<T("state"), T("viewport")>>)
         \/ /\ outermost /\ phase = "captured"
            /\ surface' = "held" /\ UNCHANGED <<phase, timeout, callbacks>>
            /\ Replace(<<>>) \/ Replace(<<T("viewport")>>)
         \/ /\ outermost /\ phase = "captured" /\ surface = "pending"
            /\ FinishRenderHold
            /\ Replace(<<T("state")>>)
  /\ UNCHANGED <<closed, geometryVars, restorationVars>>

-----------------------------------------------------------------------------
(***************************************************************************)
(* Geometry.                                                               *)
(***************************************************************************)

\* Fault: a commit that a nested one has overtaken is finished all the same.
OutdatedNever(ts) == ts

\* The commits under way, once a later one has begun.
Outdated(ts) ==
  [i \in DOMAIN ts |-> IF ts[i].op = "commit" THEN [ts[i] EXCEPT !.current = FALSE] ELSE ts[i]]

\* _commitGeometry, up to the effects of the resize, in a call that has rest left
\* to do, and otherwise if it threw, as a resize may before or after it is done.
CommitGeometry(g, rest, otherwise) ==
  \/ /\ grid = g
     /\ tasks' = <<[op |-> "commit", g |-> g, current |-> TRUE]>> \o rest \o Outdated(tasks)
     /\ UNCHANGED <<grid, threw>>
  \/ /\ grid # g
     /\ \E ok \in BOOLEAN :
          /\ grid' \in IF ok THEN {g} ELSE {grid, g}
          /\ threw' = ~ ok
          /\ tasks' = <<T("report"), T("terminal"), T("changed"),
                        [op |-> "commit", g |-> g, current |-> ok]>>
                      \o (IF ok THEN rest ELSE otherwise) \o Outdated(tasks)

\* handleResize.  `wanted' leaves out what it answers early during a commit.
HandleResize(g) ==
  /\ Callable
  /\ \/ /\ restoration = "restoring" /\ defers
        /\ deferred' = g /\ committed' = grid /\ wanted' = g
        /\ UNCHANGED <<tasks, grid, threw>>
     \/ /\ ~ (restoration = "restoring" /\ defers)
        /\ g = committed /\ ~ Committing
        /\ wanted' = g
        /\ UNCHANGED <<tasks, grid, committed, deferred, threw>>
     \/ /\ ~ (restoration = "restoring" /\ defers)
        /\ g # committed
        /\ CommitGeometry(g, <<[op |-> "resized", g |-> g]>>, <<>>)
        /\ wanted' = g
        /\ UNCHANGED <<committed, deferred>>
  /\ UNCHANGED <<closed, holdVars, unsent, restorationVars>>

\* _flushGeometryNotifications
Flush ==
  (IF "viewport" \in unsent THEN <<T("listeners")>> ELSE <<>>)
  \o (IF unsent \cap {"viewport", "frame"} # {} THEN <<T("frame")>> ELSE <<>>)
  \o (IF "state" \in unsent THEN <<T("state")>> ELSE <<>>)

\* The last part of _commitGeometry.
CommitEnds ==
  /\ At("commit")
  /\ committed' = IF Head(tasks).current /\ ~ closed THEN Head(tasks).g ELSE committed
  /\ IF closed \/ \E i \in 2 .. Len(tasks) : tasks[i].op = "commit"
     THEN Replace(<<>>) /\ UNCHANGED unsent
     ELSE Replace(Flush) /\ unsent' = {}
  /\ UNCHANGED <<closed, holdVars, grid, deferred, wanted, threw, restorationVars>>

\* onResize is told the size, unless another was committed meanwhile.
ReportSize ==
  /\ At("resized")
  /\ Replace(IF closed \/ committed # Head(tasks).g THEN <<>> ELSE <<T("listeners")>>)
  /\ UNCHANGED <<closed, holdVars, geometryVars, restorationVars>>

-----------------------------------------------------------------------------
(***************************************************************************)
(* Restoration.                                                            *)
(***************************************************************************)

\* _restoreHistory, when there is another chunk of history.
RestoreChunk ==
  /\ tasks = <<>>
  /\ restoreTimer
  /\ chunks > 0
  /\ chunks' = chunks - 1
  /\ tasks' \in {<<T("viewport"), T("state")>>, <<T("refresh"), T("viewport"), T("state")>>}
  /\ UNCHANGED <<closed, holdVars, geometryVars, defers, restoration, restoreTimer,
                 completion>>

\* Fault: the geometry that was measured meanwhile is dropped.
FinishWithoutCommit(rest) ==
  /\ tasks' = rest
  /\ UNCHANGED <<grid, threw>>

FinishWith(rest) ==
  IF deferred = "none" THEN tasks' = rest /\ UNCHANGED <<grid, threw>>
  ELSE CommitGeometry(deferred, <<[op |-> "resized", g |-> deferred]>> \o rest, rest)

\* _finishRestoration, when nothing is left or the decoder throws.
FinishRestoration ==
  /\ tasks = <<>>
  /\ restoreTimer
  /\ restoration' \in IF chunks = 0 THEN {"complete", "failed"} ELSE {"failed"}
  /\ restoreTimer' = FALSE
  /\ deferred' = "none"
  /\ FinishWith(<<T("settle"), T("viewport"), T("state")>>)
  /\ UNCHANGED <<closed, holdVars, committed, unsent, wanted, defers, chunks, completion>>

\* Its last part; a resize or a callback that threw makes it a failure.
SettleRestoration ==
  /\ At("settle")
  /\ restoration' \in {restoration, "failed"}
  /\ completion' = "settled"
  /\ Replace(<<>>)
  /\ UNCHANGED <<closed, holdVars, geometryVars, defers, restoreTimer, chunks>>

\* dispose, which an effect must not call.
DisposeSession ==
  /\ Callable
  /\ ~ UnderWay("effects") /\ ~ UnderWay("report")
  /\ closed' = TRUE
  /\ phase' = "released" /\ timeout' = FALSE /\ callbacks' = FALSE
  /\ surface' = IF phase # "released" /\ callbacks THEN "live" ELSE surface
  /\ IF restoration = "restoring"
     THEN restoration' = "failed" /\ completion' = "settled"
     ELSE UNCHANGED <<restoration, completion>>
  /\ restoreTimer' = FALSE
  /\ UNCHANGED <<tasks, geometryVars, defers, chunks>>

-----------------------------------------------------------------------------
\* What a call under way does next by itself, notifications apart.
Continue == TerminalChanged \/ WriteEnds \/ CommitEnds \/ ReportSize \/ SettleRestoration

-----------------------------------------------------------------------------
(***************************************************************************)
(* Properties.                                                             *)
(***************************************************************************)

\* The surface shows a frozen frame only while the session holds it, so that the
\* timeout is set which ends it; and once no call is under way, what is held has
\* been painted.
FrozenOnlyWhileHeld ==
  /\ surface # "live" => phase = "captured" /\ timeout /\ callbacks
  /\ phase # "released" <=> timeout
  /\ tasks = <<>> => surface # "pending" /\ phase # "releaseAfterWrite"

\* Once no call is under way, the terminal has the size the view was told, which
\* is the last one it asked for, unless history is still being restored or the
\* resize threw; and no notification was kept back.
LatestGeometryWins ==
  tasks = <<>> /\ ~ closed =>
    /\ unsent = {}
    /\ restoration # "restoring" => deferred = "none"
    /\ committed # "none" /\ ~ threw => committed = grid
    /\ wanted # "none" /\ ~ threw /\ ~ (restoration = "restoring" /\ defers) => committed = wanted
=============================================================================
