---------------------------- MODULE SearchController ----------------------------
(***************************************************************************)
(* TerminalSearchControllerImpl of flterm: a search that advances a bounded *)
(* step at a time from zero-duration timers, while the host changes the    *)
(* query, navigates and writes to the terminal.                            *)
(*                                                                         *)
(* One isolate runs everything, but notifyListeners calls the listeners    *)
(* synchronously, and a listener may search, navigate, clear, write to the *)
(* terminal or dispose before the call that notified it goes on.  `stack'  *)
(* holds what those calls have left to do.  Calls made by an effect of a   *)
(* terminal write, before the terminal notifies, are not modelled.         *)
(*                                                                         *)
(* The native search is external: it has a needle, results as of its last  *)
(* feed, and units of work left.  Queries are equal here when the native   *)
(* search compares them as equal.                                          *)
(***************************************************************************)
EXTENDS Naturals, Sequences

CONSTANTS
  Queries,     \* non-empty search texts
  MaxUnits,    \* bound: units of native work one feed leaves
  MaxNesting,  \* bound: calls that wait for their listeners at a time
  ChangesWhileSelecting  \* bound: the terminal may change while a selection is told

ASSUME SearchControllerAssumption ==
  /\ "none" \notin Queries
  /\ MaxUnits \in Nat
  /\ MaxNesting \in Nat
  /\ ChangesWhileSelecting \in BOOLEAN

VARIABLES
  needle,     \* native: the query, or "none"
  status,     \* native: SearchStatus
  units,      \* native: work left since the last feed
  fresh,      \* native: the last feed saw the terminal as it is now
  needsFeed,  \* _needsFeed
  selecting,  \* _selecting
  work,       \* _work: no timer, or one of this or of an outdated generation
  disposed,   \* _disposed
  stack       \* what the calls that wait for their listeners do next

nativeVars == <<needle, status, units, fresh>>
vars == <<needle, status, units, fresh, needsFeed, selecting, work, disposed, stack>>

Statuses == {"running", "feedRequired", "complete"}
Timers   == {"none", "current", "outdated"}
Rests    == {"ifSearching", "schedule", "nothing", "selected"}

Init ==
  /\ needle = "none"
  /\ status = "complete" /\ units = 0 /\ fresh = TRUE
  /\ needsFeed = FALSE /\ selecting = FALSE
  /\ work = "none"
  /\ disposed = FALSE
  /\ stack = <<>>

HasQuery == needle # "none"

\* isSearching, on a controller that is not disposed.
IsSearching == HasQuery /\ (needsFeed \/ status # "complete")

\* notifyListeners, in a call that does r once the listeners have returned.
Notify(r) ==
  /\ Len(stack) < MaxNesting
  /\ stack' = <<r>> \o stack

-----------------------------------------------------------------------------
(***************************************************************************)
(* The native search.                                                      *)
(***************************************************************************)

\* Units a feed may find: everything again unless the search has seen this terminal.
Backlog == IF fresh THEN units ELSE MaxUnits

\* ghostty_search_feed reads the terminal and leaves n units of work.
Feed(n) ==
  /\ units' = n
  /\ fresh' = TRUE
  /\ status' = IF n = 0 THEN "complete" ELSE "running"

\* ghostty_search_tick: a unit of work, after which the search may need to read
\* the terminal again.
Tick(left) ==
  /\ units' = left - 1
  /\ status' \in IF left = 1 THEN {"complete"} ELSE {"running", "feedRequired"}

\* Fault: a search that is complete is ticked as well.
TickAlways(s, left) == Tick(left)

\* What _runWork does with a search in the status s.
TickIfRunning(s, left) ==
  IF s = "running" THEN Tick(left) ELSE units' = left /\ status' = s

\* ghostty_search_run: everything, on the terminal as it is.
RunToCompletion ==
  /\ units' = 0
  /\ fresh' = TRUE
  /\ status' = "complete"

-----------------------------------------------------------------------------
(***************************************************************************)
(* Timers.                                                                 *)
(***************************************************************************)

\* Fault: the generation moves on, but the timer is kept.
CancelWorkKeepingTimer == work' = IF work = "none" THEN "none" ELSE "outdated"

CancelWork == work' = "none"

\* Fault: a listener may have disposed the controller meanwhile.
ScheduleWorkAnyway(t) == work' = IF t # "none" \/ ~ HasQuery THEN t ELSE "current"

\* _scheduleWork from a state with the timer t.
ScheduleWork(t) == work' = IF disposed \/ t # "none" \/ ~ HasQuery THEN t ELSE "current"

-----------------------------------------------------------------------------
(***************************************************************************)
(* The host's calls.                                                       *)
(***************************************************************************)

\* search(query): the same needle keeps results and status, a new one restarts
\* the search; what needs a feed is fed before anybody is told.
Search(q) ==
  /\ ~ disposed
  /\ CancelWork
  /\ needle' = q
  /\ IF q # needle THEN \E n \in 0 .. MaxUnits : Feed(n)
     ELSE IF status = "feedRequired" THEN \E n \in 0 .. Backlog : Feed(n)
     ELSE UNCHANGED <<status, units, fresh>>
  /\ needsFeed' = FALSE
  /\ Notify("ifSearching")
  /\ UNCHANGED <<selecting, disposed>>

\* clear(), and search with an empty query.
Clear ==
  /\ ~ disposed
  /\ HasQuery
  /\ CancelWork
  /\ needle' = "none"
  /\ status' = "complete" /\ units' = 0 /\ fresh' = TRUE
  /\ needsFeed' = FALSE
  /\ UNCHANGED <<selecting, disposed, stack>>

\* Fault: what was pending is forgotten without being run.
SelectMatchUnfed ==
  /\ ~ disposed
  /\ HasQuery
  /\ CancelWork
  /\ needsFeed' = FALSE
  /\ selecting' = TRUE
  /\ Notify("selected")
  /\ UNCHANGED <<needle, status, units, fresh, disposed>>

\* next() and previous(), up to the native selection, which notifies the
\* terminal's listeners: _handleTerminalChanged passes it over.
SelectMatch ==
  /\ ~ disposed
  /\ HasQuery
  /\ CancelWork
  /\ RunToCompletion
  /\ needsFeed' = FALSE
  /\ selecting' = TRUE
  /\ Notify("selected")
  /\ UNCHANGED <<needle, disposed>>

Dispose ==
  /\ ~ disposed
  /\ disposed' = TRUE
  /\ CancelWork
  /\ UNCHANGED <<needle, status, units, fresh, needsFeed, selecting, stack>>

-----------------------------------------------------------------------------
(***************************************************************************)
(* The terminal and the event loop.                                        *)
(***************************************************************************)

\* _handleTerminalChanged, when a terminal with other contents notifies, or
\* refresh(), whether or not the contents are others.
TerminalChanges ==
  /\ ~ disposed
  /\ HasQuery
  /\ ~ selecting
  /\ fresh' \in {fresh, FALSE}
  /\ needsFeed' = TRUE
  /\ Notify("schedule")
  /\ UNCHANGED <<needle, status, units, selecting, work, disposed>>

\* The same, when a listener of the terminal that a selection notifies makes
\* the change: _handleTerminalChanged passes this over as well.
ChangeMissed ==
  /\ ChangesWhileSelecting
  /\ ~ disposed
  /\ HasQuery
  /\ selecting
  /\ fresh' \in {fresh, FALSE}
  /\ UNCHANGED <<needle, status, units, needsFeed, selecting, work, disposed, stack>>

\* A timer fires: _runWork, up to and including its notification.
RunWork ==
  /\ stack = <<>>
  /\ work # "none"
  /\ work' = "none"
  /\ IF disposed \/ work = "outdated" \/ ~ HasQuery
     THEN UNCHANGED <<status, units, fresh, needsFeed, stack>>
     ELSE /\ needsFeed' = FALSE
          /\ IF needsFeed \/ status = "feedRequired"
             THEN /\ fresh' = TRUE
                  /\ \E n \in 0 .. Backlog :
                       TickIfRunning(IF n = 0 THEN "complete" ELSE "running", n)
             ELSE TickIfRunning(status, units) /\ UNCHANGED fresh
          /\ Notify(IF status' = "complete" THEN "nothing" ELSE "schedule")
  /\ UNCHANGED <<needle, selecting, disposed>>

\* The listeners have returned: what is left of the innermost waiting call.
\* isSearching throws once the controller is disposed; _scheduleWork returns.
\* A navigation tells its own listeners too, with nothing left to do after them.
Resume ==
  /\ stack # <<>>
  /\ stack' = Tail(stack)
  /\ IF Head(stack) = "schedule" \/ (Head(stack) = "ifSearching" /\ IsSearching)
     THEN ScheduleWork(work)
     ELSE UNCHANGED work
  /\ selecting' = (selecting /\ Head(stack) # "selected")
  /\ UNCHANGED <<needle, status, units, fresh, needsFeed, disposed>>

-----------------------------------------------------------------------------
Next ==
  \/ \E q \in Queries : Search(q)
  \/ Clear
  \/ SelectMatch
  \/ Dispose
  \/ TerminalChanges
  \/ ChangeMissed
  \/ RunWork
  \/ Resume

Spec == Init /\ [][Next]_vars

-----------------------------------------------------------------------------
(***************************************************************************)
(* Properties.                                                             *)
(***************************************************************************)

TypeOK ==
  /\ needle \in Queries \cup {"none"}
  /\ status \in Statuses
  /\ units \in 0 .. MaxUnits
  /\ fresh \in BOOLEAN
  /\ needsFeed \in BOOLEAN
  /\ selecting \in BOOLEAN
  /\ work \in Timers
  /\ disposed \in BOOLEAN
  /\ stack \in Seq(Rests)

\* The getters answer with the native results of an older terminal.
ShowsStaleResults == ~ disposed /\ HasQuery /\ ~ needsFeed /\ ~ fresh

\* Once no call is waiting for its listeners, whatever they did, a search that
\* is not finished has the timer that continues it; a disposed controller has
\* no timer at all, even when a listener disposed it.
WorkIsScheduled ==
  /\ stack = <<>> /\ ~ disposed /\ IsSearching => work = "current"
  /\ disposed => work = "none"

\* Two steps let stale results be seen: a search for the query that is already
\* set, and a change made by a listener that is told of a selection.  No timer,
\* no other call, and nothing that waits for its listeners does.
StaleOnlyIfResubmittedOrMissed ==
  [][~ ShowsStaleResults /\ ShowsStaleResults' =>
       (needle \in Queries /\ Search(needle)) \/ ChangeMissed]_vars

\* The class's comment: "While flterm refreshes invalidated results, result
\* getters return empty or null values rather than stale snapshots."
NoStaleResults == ~ ShowsStaleResults
=============================================================================
