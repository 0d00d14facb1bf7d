-------------------------- MODULE ScrollbackCompression --------------------------
(***************************************************************************)
(* CompressionScheduler of flterm, and the calls ViewAttachment makes of   *)
(* it: once the terminal has been quiet for 250 ms its scrollback is       *)
(* compressed, a bounded step in each idle task, with 1 ms between them.   *)
(*                                                                         *)
(* An idle task cannot be canceled.  Generations and activity tokens only  *)
(* count as equal or different, so no bound is needed on either, nor on    *)
(* the outdated tasks that wait: there are some, or none.                  *)
(*                                                                         *)
(* Terminal.compress is external: it takes a unit of what there is to do.  *)
(***************************************************************************)
EXTENDS Naturals

CONSTANT MaxBacklog   \* bound: units of scrollback to compress

ASSUME ScrollbackCompressionAssumption == MaxBacklog \in Nat \ {0}

VARIABLES
  backlog,      \* terminal: units of scrollback that are not compressed
  supported,    \* terminal: whether this target can compress
  known,        \* compressionActivity is the token in _activity
  timer,        \* _timer: "none", or its delay, "quiet" or "yield"
  task,         \* an idle task of this generation waits
  outdated,     \* idle tasks of earlier generations wait
  pending,      \* _compressionPending
  unsupported,  \* _unsupported
  ended,        \* _disposed
  quiet,        \* history: a quiet period has passed since the last activity
  asked         \* history: compression was asked for, and not canceled since

compressionVars == <<backlog, supported, known, timer, task, outdated, pending, unsupported,
                     ended, quiet, asked>>

CompressionInit ==
  /\ backlog \in 0 .. MaxBacklog
  /\ supported \in BOOLEAN
  /\ known = TRUE
  /\ timer = "none"
  /\ task = FALSE /\ outdated = FALSE
  /\ pending = FALSE /\ unsupported = FALSE /\ ended = FALSE
  /\ quiet = FALSE /\ asked = FALSE

CanSchedule == ~ unsupported /\ ~ ended

\* _cancelPending, from a step that leaves the task of this generation, if t.
CancelPending(t) ==
  /\ timer' = "none"
  /\ task' = FALSE
  /\ outdated' = (outdated \/ t)
  /\ pending' = FALSE

\* _restart
Restart(delay, t) ==
  /\ timer' = delay
  /\ task' = FALSE
  /\ outdated' = (outdated \/ t)
  /\ pending' = TRUE

-----------------------------------------------------------------------------
(***************************************************************************)
(* The terminal and the view.                                              *)
(***************************************************************************)

\* The terminal is written to; it notifies later (notifyActivity).
ScrollbackGrows ==
  /\ backlog' \in backlog .. MaxBacklog
  /\ known' = FALSE
  /\ quiet' = FALSE
  /\ UNCHANGED <<supported, timer, task, outdated, pending, unsupported, ended, asked>>

\* notifyActivity: an unchanged token only postpones what is pending.
NotifyActivity ==
  /\ quiet' = FALSE
  /\ IF ~ CanSchedule \/ (known /\ ~ pending)
     THEN UNCHANGED <<known, timer, task, outdated, pending, asked>>
     ELSE known' = TRUE /\ asked' = TRUE /\ Restart("quiet", task)
  /\ UNCHANGED <<backlog, supported, unsupported, ended>>

\* schedule, when a view is attached to a scroll position.
Schedule ==
  /\ CanSchedule
  /\ known' = TRUE /\ asked' = TRUE
  /\ quiet' = FALSE
  /\ Restart("quiet", task)
  /\ UNCHANGED <<backlog, supported, unsupported, ended>>

\* cancel, when the view is detached.
Cancel ==
  /\ ~ ended
  /\ CancelPending(task)
  /\ asked' = FALSE
  /\ UNCHANGED <<backlog, supported, known, unsupported, ended, quiet>>

EndCompression ==
  /\ ~ ended
  /\ ended' = TRUE
  /\ CancelPending(task)
  /\ UNCHANGED <<backlog, supported, known, unsupported, quiet, asked>>

-----------------------------------------------------------------------------
(***************************************************************************)
(* The event loop.                                                         *)
(***************************************************************************)

TimerFires ==
  /\ timer # "none"
  /\ timer' = "none"
  /\ task' = TRUE
  /\ quiet' = (quiet \/ timer = "quiet")
  /\ UNCHANGED <<backlog, supported, known, outdated, pending, unsupported, ended, asked>>

\* Fault: the generation of a task is not looked at.
IgnoredIfEnded(current) == ~ CanSchedule

\* A task of an earlier generation does nothing.
Ignored(current) == ~ current \/ ~ CanSchedule

\* The token has changed, though nothing was reported.
FindActivity ==
  /\ known' = TRUE
  /\ Restart("quiet", FALSE)

\* Terminal.compress, a bounded step, and what _step does with its result.
Compress ==
  /\ backlog' = IF supported /\ backlog > 0 THEN backlog - 1 ELSE backlog
  /\ UNCHANGED known
  /\ \/ ~ supported /\ unsupported' = TRUE /\ CancelPending(FALSE)
     \/ /\ supported /\ backlog' > 0
        /\ Restart("yield", FALSE)
        /\ UNCHANGED unsupported
     \/ /\ supported /\ backlog' = 0
        /\ pending' = FALSE
        /\ task' = FALSE
        /\ UNCHANGED <<timer, outdated, unsupported>>

\* _step, from an idle task; of the outdated ones, any number may be left.
Step(current) ==
  /\ IF current THEN task ELSE outdated
  /\ IF Ignored(current)
     THEN /\ task' = (task /\ ~ current)
          /\ outdated' \in {outdated /\ current, outdated}
          /\ UNCHANGED <<backlog, known, timer, pending, unsupported>>
     ELSE \/ known /\ Compress
          \/ ~ known /\ FindActivity /\ UNCHANGED <<backlog, unsupported>>
  /\ UNCHANGED <<supported, ended, quiet, asked>>

-----------------------------------------------------------------------------
(***************************************************************************)
(* Properties.                                                             *)
(***************************************************************************)

\* Scrollback is compressed, at most one unit in a step, only after a quiet
\* period without any activity, however many idle tasks of earlier generations
\* still run, and never after cancel or dispose.
CompressesOnlyWhenQuiet ==
  [][backlog' < backlog =>
       /\ quiet /\ pending /\ asked /\ ~ ended
       /\ backlog' = backlog - 1]_compressionVars
=============================================================================
