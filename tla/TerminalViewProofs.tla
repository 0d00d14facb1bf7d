--------------------------- MODULE TerminalViewProofs ---------------------------
(***************************************************************************)
(* TerminalView, for any sizes, queries, history, scrollback and depth of  *)
(* calls from listeners, and for any set of scenarios:                     *)
(*   - the view drives its search as SearchController allows, so that what *)
(*     SearchControllerProofs says of a controller holds in the view;      *)
(*   - scrollback is compressed only in quiet periods;                     *)
(*   - a frozen frame and a geometry are never left behind.                *)
(* The last two speak of states in which no call is under way.  The        *)
(* invariants say what the calls under way still owe.                      *)
(***************************************************************************)
EXTENDS TerminalView, SearchControllerProofs, SequenceTheorems

-----------------------------------------------------------------------------
(***************************************************************************)
(* The invariants.                                                         *)
(***************************************************************************)

\* A timer or a task is of something pending that was asked for.  Unless the
\* activity is unknown, which a task finds out first, a task, or the 1 ms timer
\* that leads to one, comes after a quiet period.
CompressionInv ==
  /\ backlog \in Nat
  /\ {supported, known, task, outdated, pending, unsupported, ended, quiet, asked} \subseteq BOOLEAN
  /\ timer \in {"none", "quiet", "yield"}
  /\ timer # "none" \/ task => pending /\ CanSchedule
  /\ task => timer = "none"
  /\ pending => asked
  /\ known /\ (task \/ timer = "yield") => quiet

Ops == {"listeners", "search", "effects", "report", "state", "viewport", "frame", "terminal",
        "refresh", "changed", "wrote", "settle", "selected"}

Task == [op : Ops] \cup [op : {"commit"}, g : Grids, current : BOOLEAN]
          \cup [op : {"resized"}, g : Grids]

Has(ts, op) == \E i \in DOMAIN ts : ts[i].op = op

\* The effects of a write run inside it: the write's last part comes later.
EffectsEnd(ts) ==
  \A i \in DOMAIN ts : ts[i].op = "effects" => \E j \in DOMAIN ts : i < j /\ ts[j].op = "wrote"

\* The sizes that commits under way will commit.
Coming(ts) == {ts[i].g : i \in {j \in DOMAIN ts : ts[j].op = "commit" /\ ts[j].current}}

SessionTypeOK ==
  /\ tasks \in Seq(Task)
  /\ {closed, timeout, callbacks, defers, restoreTimer, threw} \subseteq BOOLEAN
  /\ phase \in {"released", "captured", "releaseAfterWrite"}
  /\ surface \in {"live", "pending", "held"}
  /\ grid \in Grids
  /\ {committed, deferred, wanted} \subseteq Grids \cup {"none"}

\* A hold has its timeout, a frozen frame is held, and what was not captured or
\* not painted is left to the end of a write that is under way.
HoldInv ==
  /\ surface # "live" <=> phase = "captured"
  /\ phase = "captured" => callbacks
  /\ phase # "released" <=> timeout
  /\ EffectsEnd(tasks)
  /\ surface = "pending" \/ phase = "releaseAfterWrite" => Has(tasks, "wrote")

Deferring == restoration = "restoring" /\ defers

\* A geometry is deferred only while history is restored, and then it is the last
\* one; else a commit under way is of the last one and of the terminal's size, or
\* there is none and that is the committed one.  A commit that a later one has
\* overtaken says nothing.
GeometryInv ==
  ~ closed =>
    /\ unsent # {} => Has(tasks, "commit")
    /\ Has(tasks, "settle") => restoration # "restoring"
    /\ restoreTimer => restoration = "restoring"
    /\ deferred # "none" => Deferring /\ deferred = wanted
    /\ Deferring /\ wanted # "none" => deferred = wanted
    /\ ~ threw => /\ Coming(tasks) \subseteq {grid}
                  /\ Coming(tasks) = {} /\ committed # "none" => committed = grid
    /\ ~ threw /\ wanted # "none" /\ ~ Deferring =>
         /\ Coming(tasks) \subseteq {wanted}
         /\ Coming(tasks) = {} => committed = wanted

SessionInv == SessionTypeOK /\ HoldInv /\ GeometryInv

-----------------------------------------------------------------------------
(***************************************************************************)
(* The search in the view.                                                 *)
(***************************************************************************)

LEMMA ViewStepsOfSearch == [ViewNext]_viewVars => [Next]_vars
<1> SUFFICES ASSUME [ViewNext]_viewVars PROVE [Next]_vars
  OBVIOUS
<1>1. CASE SearchCall
  BY <1>1 DEF SearchCall, Next
<1>2. CASE ContentCall \/ HoldCall \/ ConfigCall \/ ViewCall
  BY <1>2 DEF ContentCall, HoldCall, ConfigCall, ViewCall
<1>3. CASE DisposeAll
  BY <1>3 DEF DisposeAll, Next
<1>4. CASE SearchIsTold
  BY <1>4 DEF SearchIsTold, Next
<1>5. CASE ListenersReturn
  BY <1>5 DEF ListenersReturn, Next
<1>6. CASE ViewIsTold \/ SessionContinues
  BY <1>6 DEF ViewIsTold, SessionContinues
<1>7. CASE SearchTimer
  BY <1>7 DEF SearchTimer, Next
<1>8. CASE HoldTimer \/ RestorationTimer \/ CompressionTimer
  BY <1>8 DEF HoldTimer, RestorationTimer, CompressionTimer
<1>9. CASE \E current \in BOOLEAN : IdleTask(current)
  BY <1>9 DEF IdleTask
<1>10. CASE UNCHANGED viewVars
  BY <1>10 DEF viewVars
<1> QED BY <1>1, <1>2, <1>3, <1>4, <1>5, <1>6, <1>7, <1>8, <1>9, <1>10
        DEF ViewNext, HostActs, IsolateRuns

\* The view calls its search from listeners, effects and timers only as
\* SearchController says a host may: no interleaving of the three parts leads a
\* search where the controller alone could not go.
THEOREM ViewImplementsSearch == ViewSpec => Spec
<1>1. ViewInit => Init
  BY DEF ViewInit
<1> QED BY <1>1, ViewStepsOfSearch, PTL DEF ViewSpec, Spec

\* So the types, the timer that an unfinished search has once no call waits, and
\* the two ways in which stale results come to be seen, hold of a search in a view,
\* whatever the session and the listeners do while a navigation is told.
THEOREM SearchInViewHolds ==
  ViewSpec => []TypeOK /\ []WorkIsScheduled /\ StaleOnlyIfResubmittedOrMissed
BY ViewImplementsSearch, SearchTypeCorrect, WorkIsScheduledHolds,
   StaleOnlyIfResubmittedOrMissedHolds, PTL

-----------------------------------------------------------------------------
(***************************************************************************)
(* Scrollback compression in the view.                                     *)
(***************************************************************************)

\* A step of a closed view throws.
TaskThrows ==
  /\ task /\ task' = FALSE
  /\ UNCHANGED <<backlog, supported, known, timer, outdated, pending, unsupported, ended, quiet,
                 asked>>

CompressionNext ==
  \/ ScrollbackGrows \/ NotifyActivity \/ Schedule \/ Cancel \/ EndCompression \/ TimerFires
  \/ TaskThrows \/ \E current \in BOOLEAN : Step(current)

LEMMA ViewStepsOfCompression == [ViewNext]_viewVars => [CompressionNext]_compressionVars
<1> SUFFICES ASSUME [ViewNext]_viewVars PROVE [CompressionNext]_compressionVars
  OBVIOUS
<1> USE DEF CompressionNext, Growth
<1>1. CASE SearchCall
  BY <1>1 DEF SearchCall
<1>2. CASE ContentCall
  BY <1>2 DEF ContentCall, GrowthIfResized
<1>3. CASE HoldCall \/ ConfigCall \/ DisposeAll
  BY <1>3 DEF HoldCall, ConfigCall, DisposeAll
<1>4. CASE ViewCall
  BY <1>4 DEF ViewCall
<1>5. CASE SearchIsTold \/ ListenersReturn \/ SessionContinues \/ HoldTimer
  BY <1>5 DEF SearchIsTold, ListenersReturn, SessionContinues, HoldTimer
<1>6. CASE ViewIsTold
  BY <1>6 DEF ViewIsTold
<1>7. CASE SearchTimer
  BY <1>7 DEF SearchTimer
<1>8. CASE RestorationTimer
  BY <1>8 DEF RestorationTimer, GrowthIfResized
<1>9. CASE CompressionTimer
  BY <1>9 DEF CompressionTimer
<1>10. CASE \E current \in BOOLEAN : IdleTask(current)
  BY <1>10 DEF IdleTask, TaskThrows
<1>11. CASE UNCHANGED viewVars
  BY <1>11 DEF viewVars
<1> QED BY <1>1, <1>2, <1>3, <1>4, <1>5, <1>6, <1>7, <1>8, <1>9, <1>10, <1>11
        DEF ViewNext, HostActs, IsolateRuns

LEMMA CompressionStep == CompressionInv /\ [CompressionNext]_compressionVars => CompressionInv'
<1> SUFFICES ASSUME CompressionInv, [CompressionNext]_compressionVars PROVE CompressionInv'
  OBVIOUS
<1> USE DEF CompressionInv, CanSchedule
<1>1. CASE ScrollbackGrows
  <2>1. backlog' \in Nat
    BY <1>1, ScrollbackCompressionAssumption DEF ScrollbackGrows
  <2> QED BY <1>1, <2>1 DEF ScrollbackGrows
<1>2. CASE NotifyActivity
  BY <1>2 DEF NotifyActivity, Restart
<1>3. CASE Schedule
  BY <1>3 DEF Schedule, Restart
<1>4. CASE Cancel
  BY <1>4 DEF Cancel, CancelPending
<1>5. CASE EndCompression
  BY <1>5 DEF EndCompression, CancelPending
<1>6. CASE TimerFires
  BY <1>6 DEF TimerFires
<1>7. CASE TaskThrows
  BY <1>7 DEF TaskThrows
<1>8. ASSUME NEW current \in BOOLEAN, Step(current)
      PROVE  CompressionInv'
  <2>1. CASE Ignored(current)
    BY <1>8, <2>1 DEF Step, Ignored
  <2>2. CASE ~ Ignored(current) /\ known /\ Compress
    <3>1. backlog' \in Nat
      BY <2>2 DEF Compress
    <3>2. task /\ ~ unsupported /\ ~ ended /\ current = TRUE
      BY <1>8, <2>2 DEF Step, Ignored
    <3>3. UNCHANGED <<supported, known, ended, quiet, asked>>
      BY <1>8, <2>2 DEF Step, Compress
    <3>4. \/ unsupported' = TRUE /\ CancelPending(FALSE)
          \/ Restart("yield", FALSE) /\ UNCHANGED unsupported
          \/ pending' = FALSE /\ task' = FALSE /\ UNCHANGED <<timer, outdated, unsupported>>
      BY <2>2 DEF Compress
    <3>5. /\ timer' \in {"none", "yield"} /\ ~ task'
          /\ {task', outdated', pending', unsupported'} \subseteq BOOLEAN
      BY <3>2, <3>4 DEF Restart, CancelPending
    <3>6. timer' # "none" => pending' /\ ~ unsupported'
      BY <3>2, <3>4 DEF Restart, CancelPending
    <3> QED BY <3>1, <3>2, <3>3, <3>5, <3>6
  <2>3. CASE ~ Ignored(current) /\ ~ known /\ FindActivity /\ UNCHANGED <<backlog, unsupported>>
    BY <1>8, <2>3 DEF Step, FindActivity, Restart, Ignored
  <2> QED BY <1>8, <2>1, <2>2, <2>3 DEF Step
<1>9. CASE UNCHANGED compressionVars
  BY <1>9 DEF compressionVars
<1> QED BY <1>1, <1>2, <1>3, <1>4, <1>5, <1>6, <1>7, <1>8, <1>9 DEF CompressionNext

THEOREM CompressionInductive == ViewSpec => []CompressionInv
<1>1. ViewInit => CompressionInv
  <2> SUFFICES ASSUME CompressionInit PROVE CompressionInv
    BY DEF ViewInit
  <2>1. backlog \in Nat
    BY ScrollbackCompressionAssumption DEF CompressionInit
  <2>2. {supported, known, task, outdated, pending, unsupported, ended, quiet, asked}
          \subseteq BOOLEAN
    BY DEF CompressionInit
  <2> QED BY <2>1, <2>2 DEF CompressionInit, CompressionInv
<1> QED BY <1>1, ViewStepsOfCompression, CompressionStep, PTL DEF ViewSpec

\* Scrollback is compressed, a unit in a step, only after a quiet period, and never
\* after cancel or dispose: for any scrollback, and whatever writes, searches and
\* restored history do to the terminal between two idle tasks.
THEOREM CompressesOnlyWhenQuietHolds == ViewSpec => CompressesOnlyWhenQuiet
<1> DEFINE Quietly == /\ quiet /\ pending /\ asked /\ ~ ended
                      /\ backlog' = backlog - 1
<1>1. CompressionInv /\ [CompressionNext]_compressionVars
        => [backlog' < backlog => Quietly]_compressionVars
  <2> SUFFICES ASSUME CompressionInv, CompressionNext, backlog' < backlog
               PROVE  Quietly
    OBVIOUS
  <2>1. ASSUME backlog' = backlog PROVE FALSE
    BY <2>1 DEF CompressionInv
  <2>2. ~ ScrollbackGrows
    BY ScrollbackCompressionAssumption DEF ScrollbackGrows, CompressionInv
  <2>3. PICK current \in BOOLEAN : Step(current)
    BY <2>1, <2>2
       DEF CompressionNext, NotifyActivity, Schedule, Cancel, EndCompression, TimerFires,
           TaskThrows
  <2>4. ~ Ignored(current) /\ known /\ Compress
    BY <2>1, <2>3 DEF Step
  <2>5. current /\ CanSchedule /\ task
    BY <2>3, <2>4 DEF Step, Ignored
  <2>6. quiet /\ pending /\ asked /\ ~ ended
    BY <2>4, <2>5 DEF CompressionInv, CanSchedule
  <2>7. backlog' = backlog - 1
    BY <2>1, <2>4 DEF Compress
  <2> QED BY <2>6, <2>7
<1> QED BY <1>1, ViewStepsOfCompression, CompressionInductive, PTL
        DEF ViewSpec, CompressesOnlyWhenQuiet

-----------------------------------------------------------------------------
(***************************************************************************)
(* What pushing, popping and overtaking do to the calls under way.         *)
(***************************************************************************)

CommitsAt(ts, i, g) == ts[i].op = "commit" /\ ts[i].current /\ ts[i].g = g

LEMMA InComing ==
  ASSUME NEW ts, NEW g
  PROVE  g \in Coming(ts) <=> \E i \in DOMAIN ts : CommitsAt(ts, i, g)
BY DEF Coming, CommitsAt

LEMMA PushViews ==
  ASSUME NEW new \in Seq(Task), NEW s \in Seq(Task)
  PROVE  /\ new \o s \in Seq(Task)
         /\ \A op : Has(new \o s, op) <=> Has(new, op) \/ Has(s, op)
         /\ EffectsEnd(new) /\ EffectsEnd(s) => EffectsEnd(new \o s)
         /\ Coming(new \o s) = Coming(new) \cup Coming(s)
<1> DEFINE n == Len(new)
<1>1. /\ new \o s \in Seq(Task) /\ n \in Nat /\ Len(s) \in Nat
      /\ DOMAIN new = 1 .. n /\ DOMAIN s = 1 .. Len(s)
      /\ DOMAIN (new \o s) = 1 .. (n + Len(s))
      /\ \A i \in 1 .. (n + Len(s)) :
           (new \o s)[i] = IF i <= n THEN new[i] ELSE s[i - n]
  BY ConcatProperties
<1>2. ASSUME NEW i \in DOMAIN new PROVE i \in DOMAIN (new \o s) /\ (new \o s)[i] = new[i]
  BY <1>1, <1>2
<1>3. ASSUME NEW i \in DOMAIN s
      PROVE  i + n \in DOMAIN (new \o s) /\ (new \o s)[i + n] = s[i]
  <2>1. i + n \in 1 .. (n + Len(s)) /\ ~ (i + n <= n) /\ (i + n) - n = i
    BY <1>1, <1>3
  <2> QED BY <1>1, <2>1
<1>4. ASSUME NEW i \in DOMAIN (new \o s)
      PROVE  \/ i \in DOMAIN new /\ (new \o s)[i] = new[i]
             \/ i - n \in DOMAIN s /\ (new \o s)[i] = s[i - n] /\ i = (i - n) + n
  BY <1>1, <1>4
<1> HIDE DEF n
<1>5. \A op : Has(new \o s, op) <=> Has(new, op) \/ Has(s, op)
  BY <1>2, <1>3, <1>4 DEF Has
<1>6. EffectsEnd(new) /\ EffectsEnd(s) => EffectsEnd(new \o s)
  <2> SUFFICES ASSUME EffectsEnd(new), EffectsEnd(s), NEW i \in DOMAIN (new \o s),
                      (new \o s)[i].op = "effects"
               PROVE  \E j \in DOMAIN (new \o s) : i < j /\ (new \o s)[j].op = "wrote"
    BY DEF EffectsEnd
  <2>1. CASE i \in DOMAIN new /\ (new \o s)[i] = new[i]
    BY <1>2, <2>1 DEF EffectsEnd
  <2>2. CASE i - n \in DOMAIN s /\ (new \o s)[i] = s[i - n]
    <3>1. PICK j \in DOMAIN s : i - n < j /\ s[j].op = "wrote"
      BY <2>2 DEF EffectsEnd
    <3>2. i < j + n
      BY <1>1, <3>1
    <3> QED BY <1>3, <3>1, <3>2
  <2> QED BY <1>4, <2>1, <2>2
<1>7. ASSUME NEW g PROVE g \in Coming(new \o s) <=> g \in Coming(new) \/ g \in Coming(s)
  <2>1. ASSUME g \in Coming(new \o s) PROVE g \in Coming(new) \/ g \in Coming(s)
    <3>1. PICK i \in DOMAIN (new \o s) : CommitsAt(new \o s, i, g)
      BY <2>1, InComing
    <3>2. (i \in DOMAIN new /\ CommitsAt(new, i, g)) \/ (i - n \in DOMAIN s /\ CommitsAt(s, i - n, g))
      BY <1>4, <3>1 DEF CommitsAt
    <3> QED BY <3>2, InComing
  <2>2. ASSUME g \in Coming(new) PROVE g \in Coming(new \o s)
    <3>1. PICK i \in DOMAIN new : CommitsAt(new, i, g)
      BY <2>2, InComing
    <3>2. i \in DOMAIN (new \o s) /\ CommitsAt(new \o s, i, g)
      BY <1>2, <3>1 DEF CommitsAt
    <3> QED BY <3>2, InComing
  <2>3. ASSUME g \in Coming(s) PROVE g \in Coming(new \o s)
    <3>1. PICK i \in DOMAIN s : CommitsAt(s, i, g)
      BY <2>3, InComing
    <3>2. i + n \in DOMAIN (new \o s) /\ CommitsAt(new \o s, i + n, g)
      BY <1>3, <3>1 DEF CommitsAt
    <3> QED BY <3>2, InComing
  <2> QED BY <2>1, <2>2, <2>3
<1> QED BY <1>1, <1>5, <1>6, <1>7

LEMMA PopViews ==
  ASSUME NEW s \in Seq(Task), s # <<>>
  PROVE  /\ Head(s) \in Task /\ Tail(s) \in Seq(Task)
         /\ \A op : Has(s, op) <=> Head(s).op = op \/ Has(Tail(s), op)
         /\ EffectsEnd(s) => EffectsEnd(Tail(s))
         /\ EffectsEnd(s) /\ Head(s).op = "effects" => Has(Tail(s), "wrote")
         /\ Coming(s) = Coming(Tail(s)) \cup
              (IF Head(s).op = "commit" /\ Head(s).current THEN {Head(s).g} ELSE {})
         /\ \A op : Has(Tail(s), op) <=> \E i \in 2 .. Len(s) : s[i].op = op
<1>1. /\ Len(s) \in Nat \ {0} /\ DOMAIN s = 1 .. Len(s)
      /\ Head(s) = s[1] /\ Head(s) \in Task
      /\ Tail(s) \in Seq(Task) /\ DOMAIN Tail(s) = 1 .. (Len(s) - 1)
      /\ \A i \in 1 .. (Len(s) - 1) : Tail(s)[i] = s[i + 1]
  BY HeadTailProperties, ElementOfSeq
<1>2. ASSUME NEW i \in DOMAIN Tail(s) PROVE i + 1 \in 2 .. Len(s) /\ s[i + 1] = Tail(s)[i]
  BY <1>1, <1>2
<1>3. ASSUME NEW i \in 2 .. Len(s)
      PROVE  i - 1 \in DOMAIN Tail(s) /\ Tail(s)[i - 1] = s[i]
  <2>1. i - 1 \in 1 .. (Len(s) - 1) /\ (i - 1) + 1 = i
    BY <1>1, <1>3
  <2> QED BY <1>1, <2>1
<1>4. 1 \in DOMAIN s /\ \A i \in DOMAIN s : i = 1 \/ i \in 2 .. Len(s)
  BY <1>1
<1>5. 2 .. Len(s) \subseteq DOMAIN s
  BY <1>1
<1>6. \A op : Has(Tail(s), op) <=> \E i \in 2 .. Len(s) : s[i].op = op
  BY <1>2, <1>3 DEF Has
<1>7. \A op : Has(s, op) <=> Head(s).op = op \/ Has(Tail(s), op)
  BY <1>1, <1>4, <1>5, <1>6 DEF Has
<1>8. EffectsEnd(s) => EffectsEnd(Tail(s))
  <2> SUFFICES ASSUME EffectsEnd(s), NEW i \in DOMAIN Tail(s), Tail(s)[i].op = "effects"
               PROVE  \E j \in DOMAIN Tail(s) : i < j /\ Tail(s)[j].op = "wrote"
    BY DEF EffectsEnd
  <2>1. PICK j \in DOMAIN s : i + 1 < j /\ s[j].op = "wrote"
    BY <1>2, <1>5 DEF EffectsEnd
  <2>2. j \in 2 .. Len(s) /\ i < j - 1
    BY <1>1, <2>1
  <2> QED BY <1>3, <2>1, <2>2
<1>9. EffectsEnd(s) /\ Head(s).op = "effects" => Has(Tail(s), "wrote")
  <2> SUFFICES ASSUME EffectsEnd(s), Head(s).op = "effects" PROVE Has(Tail(s), "wrote")
    OBVIOUS
  <2>1. PICK j \in DOMAIN s : 1 < j /\ s[j].op = "wrote"
    BY <1>1, <1>4 DEF EffectsEnd
  <2>2. j \in 2 .. Len(s)
    BY <1>4, <2>1
  <2> QED BY <1>6, <2>1, <2>2
<1>10. ASSUME NEW g
       PROVE  g \in Coming(s) <=>
                \/ g \in Coming(Tail(s))
                \/ Head(s).op = "commit" /\ Head(s).current /\ g = Head(s).g
  <2>1. ASSUME g \in Coming(s)
        PROVE  \/ g \in Coming(Tail(s))
               \/ Head(s).op = "commit" /\ Head(s).current /\ g = Head(s).g
    <3>1. PICK i \in DOMAIN s : CommitsAt(s, i, g)
      BY <2>1, InComing
    <3>2. CASE i = 1
      BY <1>1, <3>1, <3>2 DEF CommitsAt
    <3>3. CASE i \in 2 .. Len(s)
      <4>1. i - 1 \in DOMAIN Tail(s) /\ CommitsAt(Tail(s), i - 1, g)
        BY <1>3, <3>1, <3>3 DEF CommitsAt
      <4> QED BY <4>1, InComing
    <3> QED BY <1>4, <3>2, <3>3
  <2>2. ASSUME g \in Coming(Tail(s)) PROVE g \in Coming(s)
    <3>1. PICK i \in DOMAIN Tail(s) : CommitsAt(Tail(s), i, g)
      BY <2>2, InComing
    <3>2. i + 1 \in DOMAIN s /\ CommitsAt(s, i + 1, g)
      BY <1>2, <1>5, <3>1 DEF CommitsAt
    <3> QED BY <3>2, InComing
  <2>3. ASSUME Head(s).op = "commit", Head(s).current, g = Head(s).g PROVE g \in Coming(s)
    <3>1. 1 \in DOMAIN s /\ CommitsAt(s, 1, g)
      BY <1>1, <1>4, <2>3 DEF CommitsAt
    <3> QED BY <3>1, InComing
  <2> QED BY <2>1, <2>2, <2>3
<1>11. Coming(s) = Coming(Tail(s)) \cup
         (IF Head(s).op = "commit" /\ Head(s).current THEN {Head(s).g} ELSE {})
  BY <1>10
<1> QED BY <1>1, <1>6, <1>7, <1>8, <1>9, <1>11

\* A later commit leaves every call in its place, and none that will commit.
LEMMA OutdatedViews ==
  ASSUME NEW s \in Seq(Task)
  PROVE  /\ Outdated(s) \in Seq(Task)
         /\ \A op : Has(Outdated(s), op) <=> Has(s, op)
         /\ EffectsEnd(s) => EffectsEnd(Outdated(s))
         /\ Coming(Outdated(s)) = {}
<1> DEFINE o == Outdated(s)
<1>1. Len(s) \in Nat /\ DOMAIN s = 1 .. Len(s) /\ DOMAIN o = DOMAIN s
  BY DEF Outdated
<1>2. ASSUME NEW i \in DOMAIN s
      PROVE  /\ o[i] \in Task /\ o[i].op = s[i].op
             /\ o[i].op = "commit" => ~ o[i].current
  <2>1. s[i] \in Task
    BY ElementOfSeq, <1>1
  <2>2. CASE s[i].op = "commit"
    <3>1. s[i] \in [op : {"commit"}, g : Grids, current : BOOLEAN]
      BY <2>1, <2>2 DEF Task, Ops
    <3>2. o[i] = [s[i] EXCEPT !.current = FALSE]
      BY <2>2 DEF Outdated
    <3> QED BY <3>1, <3>2 DEF Task
  <2>3. CASE s[i].op # "commit"
    <3>1. o[i] = s[i]
      BY <2>3 DEF Outdated
    <3> QED BY <2>1, <2>3, <3>1
  <2> QED BY <2>2, <2>3
<1> HIDE DEF o
<1>3. o \in Seq(Task)
  <2>1. o = [i \in 1 .. Len(s) |-> o[i]]
    BY <1>1 DEF o, Outdated
  <2>2. \A i \in 1 .. Len(s) : o[i] \in Task
    BY <1>1, <1>2
  <2> QED BY <1>1, <2>1, <2>2, SeqDef
<1>4. \A op : Has(o, op) <=> Has(s, op)
  BY <1>1, <1>2 DEF Has
<1>5. EffectsEnd(s) => EffectsEnd(o)
  BY <1>1, <1>2 DEF EffectsEnd
<1>6. Coming(o) = {}
  BY <1>1, <1>2 DEF Coming
<1> QED BY <1>3, <1>4, <1>5, <1>6 DEF o

\* Most of what a call leaves to do is plain: it owes nothing, and it is not what
\* another one owes.
Special == {"effects", "wrote", "settle", "commit"}
Plain == [op : Ops \ Special] \cup [op : {"resized"}, g : Grids]

LEMMA PlainTasks ==
  /\ \A op \in Ops \ Special : T(op) \in Plain
  /\ \A op \in Ops : T(op) \in Task /\ T(op).op = op
  /\ Plain \subseteq Task
BY DEF Plain, Task, T, Special

LEMMA PlainViews ==
  ASSUME NEW new \in Seq(Plain)
  PROVE  /\ new \in Seq(Task)
         /\ \A op \in Special : ~ Has(new, op)
         /\ EffectsEnd(new)
         /\ Coming(new) = {}
<1>1. Len(new) \in Nat /\ DOMAIN new = 1 .. Len(new)
  OBVIOUS
<1>2. ASSUME NEW i \in DOMAIN new PROVE new[i] \in Plain
  BY <1>1, ElementOfSeq
<1>3. \A i \in DOMAIN new : new[i].op \notin Special
  BY <1>2 DEF Plain, Special
<1>4. new \in Seq(Task)
  BY PlainTasks, SeqMonotonic
<1>5. \A op \in Special : ~ Has(new, op)
  BY <1>3 DEF Has
<1>6. EffectsEnd(new)
  BY <1>3 DEF EffectsEnd, Special
<1>7. Coming(new) = {}
  BY <1>3 DEF Coming, Special
<1> QED BY <1>4, <1>5, <1>6, <1>7

\* What the invariants look at in the calls under way.
ViewsKept ==
  /\ tasks' \in Seq(Task)
  /\ EffectsEnd(tasks')
  /\ \A op \in {"wrote", "settle", "commit"} : Has(tasks', op) <=> Has(tasks, op)
  /\ Coming(tasks') = Coming(tasks)

LEMMA PlainStep ==
  ASSUME tasks \in Seq(Task), EffectsEnd(tasks), NEW new \in Seq(Plain),
         \/ Push(new)
         \/ tasks # <<>> /\ Head(tasks).op \notin {"wrote", "settle", "commit"} /\ Replace(new)
  PROVE  ViewsKept
<1>1. /\ new \in Seq(Task) /\ EffectsEnd(new) /\ Coming(new) = {}
      /\ \A op \in {"wrote", "settle", "commit"} : ~ Has(new, op)
  BY PlainViews DEF Special
<1>2. CASE Push(new)
  <2>1. tasks' = new \o tasks
    BY <1>2 DEF Push
  <2>2. /\ new \o tasks \in Seq(Task)
        /\ \A op : Has(new \o tasks, op) <=> Has(new, op) \/ Has(tasks, op)
        /\ EffectsEnd(new \o tasks)
        /\ Coming(new \o tasks) = Coming(new) \cup Coming(tasks)
    BY <1>1, PushViews
  <2> QED BY <1>1, <2>1, <2>2 DEF ViewsKept
<1>3. CASE /\ tasks # <<>> /\ Head(tasks).op \notin {"wrote", "settle", "commit"}
           /\ Replace(new)
  <2> DEFINE rest == Tail(tasks)
  <2>1. /\ rest \in Seq(Task) /\ EffectsEnd(rest)
        /\ \A op : Has(tasks, op) <=> Head(tasks).op = op \/ Has(rest, op)
        /\ Coming(tasks) = Coming(rest) \cup
             (IF Head(tasks).op = "commit" /\ Head(tasks).current THEN {Head(tasks).g} ELSE {})
    BY <1>3, PopViews
  <2>2. /\ \A op \in {"wrote", "settle", "commit"} : Has(tasks, op) <=> Has(rest, op)
        /\ Coming(tasks) = Coming(rest)
    BY <1>3, <2>1
  <2>3. tasks' = new \o rest
    BY <1>3 DEF Replace
  <2> HIDE DEF rest
  <2>4. /\ new \o rest \in Seq(Task)
        /\ \A op : Has(new \o rest, op) <=> Has(new, op) \/ Has(rest, op)
        /\ EffectsEnd(new \o rest)
        /\ Coming(new \o rest) = Coming(new) \cup Coming(rest)
    BY <1>1, <2>1, PushViews
  <2> QED BY <1>1, <2>2, <2>3, <2>4 DEF ViewsKept
<1> QED BY <1>2, <1>3

\* With the views and the other variables kept, so are the invariants.
LEMMA GeometryKept ==
  ASSUME GeometryInv, ViewsKept, UNCHANGED <<closed, geometryVars, restorationVars>>
  PROVE  GeometryInv'
BY DEF GeometryInv, ViewsKept, geometryVars, restorationVars, Deferring

LEMMA HoldKept ==
  ASSUME HoldInv, ViewsKept, UNCHANGED holdVars
  PROVE  HoldInv'
BY DEF HoldInv, ViewsKept, holdVars

LEMMA FinishedHold ==
  ASSUME SessionTypeOK, HoldInv, FinishRenderHold, EffectsEnd(tasks')
  PROVE  HoldInv' /\ phase' = "released" /\ surface' = "live" /\ callbacks' = callbacks
BY DEF SessionTypeOK, HoldInv, FinishRenderHold

-----------------------------------------------------------------------------
(***************************************************************************)
(* A commit.                                                               *)
(***************************************************************************)

Commit(g, current) == [op |-> "commit", g |-> g, current |-> current]

\* The calls of a commit itself.
LEMMA CommitTasks ==
  ASSUME NEW g \in Grids, NEW b \in BOOLEAN,
         NEW new \in {<<Commit(g, b)>>, <<T("report"), T("terminal"), T("changed"), Commit(g, b)>>}
  PROVE  /\ new \in Seq(Task)
         /\ EffectsEnd(new)
         /\ \A op \in Special : Has(new, op) <=> op = "commit"
         /\ Coming(new) = IF b THEN {g} ELSE {}
<1>1. Commit(g, b) \in Task /\ \A op \in Ops : T(op) \in Task /\ T(op).op = op
  BY PlainTasks DEF Commit, Task
<1>2. CASE new = <<Commit(g, b)>>
  <2>1. DOMAIN new = {1} /\ new[1] = Commit(g, b) /\ new \in Seq(Task)
    BY <1>1, <1>2
  <2>2. new[1].op = "commit" /\ new[1].g = g /\ new[1].current = b
    BY <2>1 DEF Commit
  <2>3. EffectsEnd(new) /\ \A op \in Special : Has(new, op) <=> op = "commit"
    BY <2>1, <2>2 DEF EffectsEnd, Has
  <2>4. Coming(new) = IF b THEN {g} ELSE {}
    BY <2>1, <2>2 DEF Coming
  <2> QED BY <2>1, <2>3, <2>4
<1>3. CASE new = <<T("report"), T("terminal"), T("changed"), Commit(g, b)>>
  <2>1. T("report") \in Task /\ T("terminal") \in Task /\ T("changed") \in Task
    BY <1>1 DEF Ops
  <2>2. DOMAIN new = 1 .. 4 /\ new \in Seq(Task)
    BY <1>1, <1>3, <2>1
  <2>3. /\ new[1].op = "report" /\ new[2].op = "terminal" /\ new[3].op = "changed"
        /\ new[4].op = "commit" /\ new[4].g = g /\ new[4].current = b
    BY <1>3 DEF Commit, T
  <2>4. \A i \in DOMAIN new : i \in {1, 2, 3, 4}
    BY <2>2
  <2>5. EffectsEnd(new)
    BY <2>3, <2>4 DEF EffectsEnd
  <2>6. \A op \in Special : Has(new, op) <=> op = "commit"
    BY <2>2, <2>3, <2>4 DEF Has, Special
  <2>7. \A i \in DOMAIN new : new[i].op = "commit" <=> i = 4
    BY <2>3, <2>4
  <2>8. Coming(new) = IF b THEN {g} ELSE {}
    BY <2>2, <2>3, <2>7 DEF Coming
  <2> QED BY <2>2, <2>5, <2>6, <2>8
<1> QED BY <1>2, <1>3

\* What a commit leaves to be done after it: no write and no other commit.
Quiet(rest) ==
  /\ rest \in Seq(Task)
  /\ EffectsEnd(rest)
  /\ ~ Has(rest, "wrote") /\ ~ Has(rest, "commit")
  /\ Coming(rest) = {}

\* A commit overtakes all others, and unless its resize threw it comes to the size
\* that the terminal has then.
LEMMA CommitViews ==
  ASSUME SessionTypeOK, EffectsEnd(tasks), NEW g \in Grids, NEW rest, NEW otherwise,
         Quiet(rest), Quiet(otherwise), CommitGeometry(g, rest, otherwise)
  PROVE  /\ tasks' \in Seq(Task)
         /\ EffectsEnd(tasks')
         /\ Has(tasks', "commit")
         /\ Has(tasks', "wrote") <=> Has(tasks, "wrote")
         /\ Has(tasks', "settle") =>
              Has(tasks, "settle") \/ Has(rest, "settle") \/ Has(otherwise, "settle")
         /\ grid' \in Grids /\ threw' \in BOOLEAN
         /\ ~ threw' => grid' = g /\ Coming(tasks') = {g}
<1> DEFINE o == Outdated(tasks)
<1>1. /\ o \in Seq(Task) /\ EffectsEnd(o) /\ Coming(o) = {}
      /\ \A op : Has(o, op) <=> Has(tasks, op)
  BY OutdatedViews DEF SessionTypeOK
<1>2. ASSUME NEW b \in BOOLEAN, NEW r \in {rest, otherwise},
             NEW new \in {<<Commit(g, b)>>,
                          <<T("report"), T("terminal"), T("changed"), Commit(g, b)>>}
      PROVE  /\ new \o r \o o \in Seq(Task) /\ EffectsEnd(new \o r \o o)
             /\ Has(new \o r \o o, "commit")
             /\ Has(new \o r \o o, "wrote") <=> Has(tasks, "wrote")
             /\ Has(new \o r \o o, "settle") => Has(tasks, "settle") \/ Has(r, "settle")
             /\ b => Coming(new \o r \o o) = {g}
  <2>1. /\ new \in Seq(Task) /\ EffectsEnd(new) /\ Has(new, "commit")
        /\ ~ Has(new, "wrote") /\ ~ Has(new, "settle")
        /\ b => Coming(new) = {g}
    <3>1. /\ new \in Seq(Task) /\ EffectsEnd(new)
          /\ \A op \in Special : Has(new, op) <=> op = "commit"
          /\ Coming(new) = IF b THEN {g} ELSE {}
      BY CommitTasks
    <3> QED BY <3>1 DEF Special
  <2>2. /\ r \in Seq(Task) /\ EffectsEnd(r) /\ ~ Has(r, "wrote") /\ ~ Has(r, "commit")
        /\ Coming(r) = {}
    BY DEF Quiet
  <2>3. /\ new \o r \in Seq(Task)
        /\ \A op : Has(new \o r, op) <=> Has(new, op) \/ Has(r, op)
        /\ EffectsEnd(new \o r)
        /\ Coming(new \o r) = Coming(new) \cup Coming(r)
    BY <2>1, <2>2, PushViews
  <2> DEFINE nr == new \o r
  <2> HIDE DEF nr, o
  <2>4. /\ nr \o o \in Seq(Task)
        /\ \A op : Has(nr \o o, op) <=> Has(nr, op) \/ Has(o, op)
        /\ EffectsEnd(nr \o o)
        /\ Coming(nr \o o) = Coming(nr) \cup Coming(o)
    BY <1>1, <2>3, PushViews DEF nr
  <2>5. /\ Has(nr \o o, "commit")
        /\ Has(nr \o o, "wrote") <=> Has(tasks, "wrote")
        /\ Has(nr \o o, "settle") => Has(tasks, "settle") \/ Has(r, "settle")
    BY <1>1, <2>1, <2>2, <2>3, <2>4 DEF nr
  <2>6. b => Coming(nr \o o) = {g}
    BY <1>1, <2>1, <2>2, <2>3, <2>4 DEF nr
  <2> QED BY <2>4, <2>5, <2>6 DEF nr
<1>3. CASE /\ grid = g
           /\ tasks' = <<Commit(g, TRUE)>> \o rest \o o
           /\ UNCHANGED <<grid, threw>>
  <2>1. threw \in BOOLEAN
    BY DEF SessionTypeOK
  <2> QED BY <1>2, <1>3, <2>1
<1>4. ASSUME NEW ok \in BOOLEAN,
             grid' \in IF ok THEN {g} ELSE {grid, g},
             threw' = ~ ok,
             tasks' = <<T("report"), T("terminal"), T("changed"), Commit(g, ok)>>
                        \o (IF ok THEN rest ELSE otherwise) \o o
      PROVE  /\ tasks' \in Seq(Task) /\ EffectsEnd(tasks')
             /\ Has(tasks', "commit")
             /\ Has(tasks', "wrote") <=> Has(tasks, "wrote")
             /\ Has(tasks', "settle") =>
                  Has(tasks, "settle") \/ Has(rest, "settle") \/ Has(otherwise, "settle")
             /\ grid' \in Grids /\ threw' \in BOOLEAN
             /\ ~ threw' => grid' = g /\ Coming(tasks') = {g}
  <2>1. grid' \in Grids /\ threw' \in BOOLEAN /\ (~ threw' => grid' = g)
    BY <1>4 DEF SessionTypeOK
  <2>2. CASE ok
    BY <1>2, <1>4, <2>1, <2>2
  <2>3. CASE ~ ok
    BY <1>2, <1>4, <2>1, <2>3
  <2> QED BY <2>2, <2>3
<1> HIDE DEF o
<1> QED BY <1>3, <1>4 DEF CommitGeometry, Commit, o

-----------------------------------------------------------------------------
(***************************************************************************)
(* Every step of a session keeps its invariant.                            *)
(***************************************************************************)

LEMMA PlainLists ==
  /\ <<>> \in Seq(Plain)
  /\ \A a \in Ops \ Special : <<T(a)>> \in Seq(Plain)
  /\ \A a, b \in Ops \ Special : <<T(a), T(b)>> \in Seq(Plain)
  /\ \A a, b, c \in Ops \ Special : <<T(a), T(b), T(c)>> \in Seq(Plain)
<1>1. \A op \in Ops \ Special : T(op) \in Plain
  BY PlainTasks
<1>2. ASSUME NEW a \in Plain, NEW b \in Plain, NEW c \in Plain
      PROVE  <<a>> \in Seq(Plain) /\ <<a, b>> \in Seq(Plain) /\ <<a, b, c>> \in Seq(Plain)
  OBVIOUS
<1>3. <<>> \in Seq(Plain)
  OBVIOUS
<1> QED BY <1>1, <1>2, <1>3

\* A step that only pushes plain calls, or puts them in the place of one that owes
\* nothing, and leaves the session itself alone.
LEMMA PlainKeeps ==
  ASSUME SessionInv, NEW new \in Seq(Plain),
         \/ Push(new)
         \/ tasks # <<>> /\ Head(tasks).op \notin {"wrote", "settle", "commit"} /\ Replace(new),
         UNCHANGED <<closed, holdVars, geometryVars, restorationVars>>
  PROVE  SessionInv'
<1>1. ViewsKept
  BY PlainStep DEF SessionInv, SessionTypeOK, HoldInv
<1>2. HoldInv'
  BY <1>1, HoldKept DEF SessionInv
<1>3. GeometryInv'
  BY <1>1, GeometryKept DEF SessionInv
<1>4. SessionTypeOK'
  BY <1>1 DEF SessionInv, SessionTypeOK, ViewsKept, holdVars, geometryVars, restorationVars
<1> QED BY <1>2, <1>3, <1>4 DEF SessionInv

\* The same, with a hold that ends.
LEMMA PlainFinishKeeps ==
  ASSUME SessionInv, NEW new \in Seq(Plain),
         \/ Push(new)
         \/ tasks # <<>> /\ Head(tasks).op \notin {"wrote", "settle", "commit"} /\ Replace(new),
         FinishRenderHold,
         UNCHANGED <<closed, geometryVars, restorationVars>>
  PROVE  SessionInv'
<1>1. ViewsKept
  BY PlainStep DEF SessionInv, SessionTypeOK, HoldInv
<1>2. HoldInv' /\ phase' = "released" /\ surface' = "live" /\ callbacks' = callbacks
  BY <1>1, FinishedHold DEF SessionInv, ViewsKept
<1>3. GeometryInv'
  BY <1>1, GeometryKept DEF SessionInv
<1>4. timeout' = FALSE
  BY DEF FinishRenderHold
<1>5. SessionTypeOK'
  BY <1>1, <1>2, <1>4 DEF SessionInv, SessionTypeOK, ViewsKept, geometryVars, restorationVars
<1> QED BY <1>2, <1>3, <1>5 DEF SessionInv

LEMMA ReturnKeeps == ASSUME SessionInv, Return PROVE SessionInv'
<1>1. tasks # <<>> /\ Head(tasks).op \notin {"wrote", "settle", "commit"} /\ Replace(<<>>)
  BY DEF Return, Waiting
<1> QED BY <1>1, PlainLists, PlainKeeps DEF Return

LEMMA TellSearchKeeps == ASSUME SessionInv, TellSearch PROVE SessionInv'
<1>1. tasks # <<>> /\ Head(tasks).op \notin {"wrote", "settle", "commit"}
  BY DEF TellSearch, At
<1>2. <<>> \in Seq(Plain) /\ <<T("search")>> \in Seq(Plain)
  BY PlainLists DEF Ops, Special
<1> QED BY <1>1, <1>2, PlainKeeps DEF TellSearch

\* A notification that is put off belongs to a commit under way.
LEMMA PublishKeeps ==
  ASSUME SessionInv, NEW n \in {"state", "viewport", "frame"}, NEW then \in Seq(Plain),
         Publish(n, then)
  PROVE  SessionInv'
<1>1. tasks # <<>> /\ Head(tasks).op \notin {"wrote", "settle", "commit"}
  BY DEF Publish, At
<1>2. PICK new \in {<<>>, then} : Replace(new)
  BY DEF Publish
<1>3. new \in Seq(Plain)
  BY PlainLists
<1>4. ViewsKept
  BY <1>1, <1>2, <1>3, PlainStep DEF SessionInv, SessionTypeOK, HoldInv
<1>5. UNCHANGED <<closed, holdVars, grid, committed, deferred, wanted, threw, restorationVars>>
  BY DEF Publish
<1>6. unsent' = unsent \/ Has(tasks, "commit")
  BY DEF Publish, Committing, UnderWay, Has
<1>7. HoldInv'
  BY <1>4, <1>5, HoldKept DEF SessionInv
<1>8. GeometryInv'
  BY <1>4, <1>5, <1>6 DEF SessionInv, GeometryInv, ViewsKept, restorationVars, Deferring
<1>9. SessionTypeOK'
  BY <1>4, <1>5 DEF SessionInv, SessionTypeOK, ViewsKept, holdVars, restorationVars
<1> QED BY <1>7, <1>8, <1>9 DEF SessionInv

LEMMA NotificationsKeep ==
  ASSUME SessionInv, NotifySession \/ PublishViewport \/ PublishFrame
  PROVE  SessionInv'
<1>1. /\ <<>> \in Seq(Plain) /\ <<T("listeners")>> \in Seq(Plain)
      /\ <<T("listeners"), T("frame")>> \in Seq(Plain)
  BY PlainLists DEF Ops, Special
<1> QED BY <1>1, PublishKeeps DEF NotifySession, PublishViewport, PublishFrame

\* The calls of a write: its effects come before its last part.
LEMMA WriteKeeps == ASSUME SessionInv, Write PROVE SessionInv'
<1> DEFINE new == <<T("effects"), T("terminal"), T("changed"), T("wrote")>>
<1>1. \A op \in {"effects", "terminal", "changed", "wrote"} : T(op) \in Task /\ T(op).op = op
  BY PlainTasks DEF Ops
<1>2. DOMAIN new = 1 .. 4 /\ new \in Seq(Task)
  BY <1>1
<1>3. /\ new[1].op = "effects" /\ new[2].op = "terminal" /\ new[3].op = "changed"
      /\ new[4].op = "wrote"
  BY <1>1
<1>4. \A i \in DOMAIN new : i \in {1, 2, 3, 4}
  BY <1>2
<1> HIDE DEF new
<1>5. EffectsEnd(new)
  <2>1. 1 < 4 /\ 4 \in DOMAIN new
    BY <1>2
  <2> QED BY <1>3, <1>4, <2>1 DEF EffectsEnd
<1>6. Has(new, "wrote") /\ ~ Has(new, "settle") /\ ~ Has(new, "commit") /\ Coming(new) = {}
  BY <1>2, <1>3, <1>4 DEF Has, Coming
<1>7. tasks' = new \o tasks
  BY DEF Write, Push, new
<1>8. tasks \in Seq(Task) /\ EffectsEnd(tasks)
  BY DEF SessionInv, SessionTypeOK, HoldInv
<1>9. /\ new \o tasks \in Seq(Task)
      /\ \A op : Has(new \o tasks, op) <=> Has(new, op) \/ Has(tasks, op)
      /\ EffectsEnd(new \o tasks)
      /\ Coming(new \o tasks) = Coming(new) \cup Coming(tasks)
  BY <1>2, <1>5, <1>8, PushViews
<1>10. /\ tasks' \in Seq(Task) /\ EffectsEnd(tasks') /\ Has(tasks', "wrote")
       /\ Has(tasks', "settle") <=> Has(tasks, "settle")
       /\ Has(tasks', "commit") <=> Has(tasks, "commit")
       /\ Coming(tasks') = Coming(tasks)
  BY <1>6, <1>7, <1>9
<1>11. UNCHANGED <<closed, holdVars, geometryVars, restorationVars>>
  BY DEF Write
<1>12. HoldInv'
  BY <1>10, <1>11 DEF SessionInv, HoldInv, holdVars
<1>13. GeometryInv'
  BY <1>10, <1>11 DEF SessionInv, GeometryInv, geometryVars, restorationVars, Deferring
<1>14. SessionTypeOK'
  BY <1>10, <1>11 DEF SessionInv, SessionTypeOK, holdVars, geometryVars, restorationVars
<1> QED BY <1>12, <1>13, <1>14 DEF SessionInv

\* A hold begins in the effects of a write, whose last part paints or releases it.
LEMMA BeginKeeps == ASSUME SessionInv, BeginRenderHold PROVE SessionInv'
<1>1. <<T("state")>> \in Seq(Plain) /\ Push(<<T("state")>>)
  BY PlainLists DEF Ops, Special, BeginRenderHold
<1>2. ViewsKept
  BY <1>1, PlainStep DEF SessionInv, SessionTypeOK, HoldInv
<1>3. Has(tasks, "wrote")
  <2>1. tasks # <<>> /\ Head(tasks).op = "effects"
    BY DEF BeginRenderHold, At
  <2>2. tasks \in Seq(Task) /\ EffectsEnd(tasks)
    BY DEF SessionInv, SessionTypeOK, HoldInv
  <2>3. /\ Has(Tail(tasks), "wrote")
        /\ \A op : Has(tasks, op) <=> Head(tasks).op = op \/ Has(Tail(tasks), op)
    BY <2>1, <2>2, PopViews
  <2> QED BY <2>3
<1>4. Has(tasks', "wrote") /\ EffectsEnd(tasks')
  BY <1>2, <1>3 DEF ViewsKept
<1>5. /\ phase = "released" /\ timeout' = TRUE /\ callbacks' = callbacks
      /\ \/ callbacks /\ phase' = "captured" /\ surface' \in {"pending", "held"}
         \/ phase' = "releaseAfterWrite" /\ surface' = surface
  BY DEF BeginRenderHold
<1>6. HoldInv'
  BY <1>4, <1>5 DEF SessionInv, HoldInv
<1>7. GeometryInv'
  BY <1>2, GeometryKept DEF SessionInv, BeginRenderHold
<1>8. SessionTypeOK'
  BY <1>2, <1>5 DEF SessionInv, SessionTypeOK, ViewsKept, BeginRenderHold, geometryVars,
                    restorationVars
<1> QED BY <1>6, <1>7, <1>8 DEF SessionInv

LEMMA HoldCallsKeep ==
  ASSUME SessionInv, EndRenderHold \/ SetConfig \/ HoldTimesOut
  PROVE  SessionInv'
<1>1. /\ <<T("state")>> \in Seq(Plain) /\ <<T("refresh"), T("state")>> \in Seq(Plain)
      /\ <<T("state"), T("refresh"), T("state")>> \in Seq(Plain)
  BY PlainLists DEF Ops, Special
<1>2. CASE EndRenderHold \/ HoldTimesOut
  BY <1>1, <1>2, PlainFinishKeeps DEF EndRenderHold, HoldTimesOut
<1>3. CASE SetConfig
  BY <1>1, <1>3, PlainFinishKeeps, PlainKeeps DEF SetConfig
<1> QED BY <1>2, <1>3

LEMMA TerminalChangedKeeps == ASSUME SessionInv, TerminalChanged PROVE SessionInv'
<1>1. tasks # <<>> /\ Head(tasks).op \notin {"wrote", "settle", "commit"}
  BY DEF TerminalChanged, At
<1>2. /\ <<>> \in Seq(Plain) /\ <<T("frame")>> \in Seq(Plain)
      /\ <<T("state"), T("frame")>> \in Seq(Plain)
      /\ <<T("state"), T("state"), T("frame")>> \in Seq(Plain)
  BY PlainLists DEF Ops, Special
<1> QED BY <1>1, <1>2, PlainFinishKeeps, PlainKeeps DEF TerminalChanged

\* What a renderer leaves behind is live, and the hold is released with it.
LEMMA CallbacksKeep == ASSUME SessionInv, SetRenderSurfaceCallbacks PROVE SessionInv'
<1>1. /\ phase' = "released" /\ timeout' = FALSE /\ callbacks' = ~ callbacks
      /\ surface' = IF callbacks THEN "live" ELSE surface
      /\ UNCHANGED <<tasks, closed, geometryVars, restorationVars>>
  BY DEF SetRenderSurfaceCallbacks, ReleaseCallbacks
<1>2. surface' = "live"
  BY <1>1 DEF SessionInv, HoldInv
<1>3. HoldInv'
  BY <1>1, <1>2 DEF SessionInv, HoldInv
<1>4. GeometryInv'
  BY <1>1 DEF SessionInv, GeometryInv, geometryVars, restorationVars, Deferring
<1>5. callbacks' \in BOOLEAN
  BY <1>1
<1>6. SessionTypeOK'
  BY <1>1, <1>2, <1>5 DEF SessionInv, SessionTypeOK, geometryVars, restorationVars
<1> QED BY <1>3, <1>4, <1>6 DEF SessionInv

\* The outermost write leaves nothing captured but unpainted; an inner one leaves
\* it to the outer one.
LEMMA WriteEndsKeeps == ASSUME SessionInv, WriteEnds PROVE SessionInv'
<1> DEFINE rest == Tail(tasks)
<1>1. tasks # <<>> /\ Head(tasks).op = "wrote" /\ tasks \in Seq(Task) /\ EffectsEnd(tasks)
  BY DEF WriteEnds, At, SessionInv, SessionTypeOK, HoldInv
<1>2. /\ rest \in Seq(Task) /\ EffectsEnd(rest)
      /\ \A op : Has(tasks, op) <=> Head(tasks).op = op \/ Has(rest, op)
      /\ Coming(tasks) = Coming(rest) \cup
           (IF Head(tasks).op = "commit" /\ Head(tasks).current THEN {Head(tasks).g} ELSE {})
      /\ \A op : Has(rest, op) <=> \E i \in 2 .. Len(tasks) : tasks[i].op = op
  BY <1>1, PopViews
<1>3. /\ Coming(tasks) = Coming(rest)
      /\ Has(tasks, "settle") <=> Has(rest, "settle")
      /\ Has(tasks, "commit") <=> Has(rest, "commit")
  BY <1>1, <1>2
<1>4. PICK new \in {<<>>, <<T("viewport")>>, <<T("state")>>, <<T("state"), T("viewport")>>} :
        tasks' = new \o rest
  BY DEF WriteEnds, Replace
<1>5. new \in Seq(Plain)
  BY PlainLists DEF Ops, Special
<1>6. /\ new \in Seq(Task) /\ EffectsEnd(new) /\ Coming(new) = {}
      /\ \A op \in Special : ~ Has(new, op)
  BY <1>5, PlainViews
<1> HIDE DEF rest
<1>7. /\ new \o rest \in Seq(Task)
      /\ \A op : Has(new \o rest, op) <=> Has(new, op) \/ Has(rest, op)
      /\ EffectsEnd(new \o rest)
      /\ Coming(new \o rest) = Coming(new) \cup Coming(rest)
  BY <1>2, <1>6, PushViews
<1>8. /\ tasks' \in Seq(Task) /\ EffectsEnd(tasks')
      /\ Has(tasks', "settle") <=> Has(tasks, "settle")
      /\ Has(tasks', "commit") <=> Has(tasks, "commit")
      /\ Has(tasks', "wrote") <=> Has(rest, "wrote")
      /\ Coming(tasks') = Coming(tasks)
  BY <1>3, <1>4, <1>6, <1>7 DEF Special
<1>9. UNCHANGED <<closed, geometryVars, restorationVars>>
  BY DEF WriteEnds
<1>10. \/ Has(rest, "wrote") /\ UNCHANGED holdVars
       \/ phase = "released" /\ UNCHANGED holdVars
       \/ FinishRenderHold
       \/ phase = "captured" /\ surface' = "held" /\ UNCHANGED <<phase, timeout, callbacks>>
  BY <1>2 DEF WriteEnds
<1>11. HoldInv' /\ phase' \in {"released", "captured", "releaseAfterWrite"}
         /\ surface' \in {"live", "pending", "held"} /\ {timeout', callbacks'} \subseteq BOOLEAN
  <2>1. CASE Has(rest, "wrote") /\ UNCHANGED holdVars
    BY <1>8, <2>1 DEF SessionInv, SessionTypeOK, HoldInv, holdVars
  <2>2. CASE phase = "released" /\ UNCHANGED holdVars
    BY <1>8, <2>2 DEF SessionInv, SessionTypeOK, HoldInv, holdVars
  <2>3. CASE FinishRenderHold
    <3>1. timeout' = FALSE
      BY <2>3 DEF FinishRenderHold
    <3> QED BY <1>8, <2>3, <3>1, FinishedHold DEF SessionInv, SessionTypeOK
  <2>4. CASE phase = "captured" /\ surface' = "held" /\ UNCHANGED <<phase, timeout, callbacks>>
    <3>1. callbacks
      BY <1>10, <2>4 DEF WriteEnds, SessionInv, HoldInv
    <3> QED BY <1>8, <2>4, <3>1 DEF SessionInv, SessionTypeOK, HoldInv
  <2> QED BY <1>10, <2>1, <2>2, <2>3, <2>4
<1>12. GeometryInv'
  BY <1>8, <1>9 DEF SessionInv, GeometryInv, geometryVars, restorationVars, Deferring
<1>13. SessionTypeOK'
  BY <1>8, <1>9, <1>11 DEF SessionInv, SessionTypeOK, geometryVars, restorationVars
<1> QED BY <1>11, <1>12, <1>13 DEF SessionInv

\* What is measured is deferred, or is the committed geometry, or is committed.
LEMMA HandleResizeKeeps ==
  ASSUME SessionInv, NEW g \in Grids, HandleResize(g)
  PROVE  SessionInv'
<1>1. ~ closed /\ UNCHANGED <<closed, holdVars, unsent, restorationVars>> /\ wanted' = g
  BY DEF HandleResize, Callable
<1>2. g # "none"
  BY TerminalSessionAssumption
<1>3. CASE /\ restoration = "restoring" /\ defers
           /\ deferred' = g /\ committed' = grid
           /\ UNCHANGED <<tasks, grid, threw>>
  <2>1. HoldInv'
    BY <1>1, <1>3 DEF SessionInv, HoldInv, holdVars
  <2>2. GeometryInv'
    BY <1>1, <1>2, <1>3 DEF SessionInv, GeometryInv, restorationVars, Deferring
  <2>3. SessionTypeOK'
    BY <1>1, <1>3 DEF SessionInv, SessionTypeOK, holdVars, restorationVars
  <2> QED BY <2>1, <2>2, <2>3 DEF SessionInv
<1>4. CASE /\ ~ (restoration = "restoring" /\ defers)
           /\ g = committed /\ ~ Committing
           /\ UNCHANGED <<tasks, grid, committed, deferred, threw>>
  <2>1. HoldInv'
    BY <1>1, <1>4 DEF SessionInv, HoldInv, holdVars
  <2>2. Coming(tasks) = {}
    BY <1>4 DEF Coming, Committing, UnderWay
  <2>3. deferred = "none"
    BY <1>1, <1>4 DEF SessionInv, GeometryInv, Deferring
  <2>4. GeometryInv'
    BY <1>1, <1>4, <2>2, <2>3 DEF SessionInv, GeometryInv, restorationVars, Deferring
  <2>5. SessionTypeOK'
    BY <1>1, <1>4 DEF SessionInv, SessionTypeOK, holdVars, restorationVars
  <2> QED BY <2>1, <2>4, <2>5 DEF SessionInv
<1>5. CASE /\ ~ (restoration = "restoring" /\ defers)
           /\ CommitGeometry(g, <<[op |-> "resized", g |-> g]>>, <<>>)
           /\ UNCHANGED <<committed, deferred>>
  <2>1. [op |-> "resized", g |-> g] \in Plain
    BY DEF Plain
  <2>2. <<[op |-> "resized", g |-> g]>> \in Seq(Plain) /\ <<>> \in Seq(Plain)
    BY <2>1
  <2>3. \A rest \in {<<[op |-> "resized", g |-> g]>>, <<>>} :
          Quiet(rest) /\ ~ Has(rest, "settle")
    BY <2>2, PlainViews DEF Quiet, Special
  <2>4. /\ tasks' \in Seq(Task)
        /\ EffectsEnd(tasks')
        /\ Has(tasks', "commit")
        /\ Has(tasks', "wrote") <=> Has(tasks, "wrote")
        /\ Has(tasks', "settle") => Has(tasks, "settle")
        /\ grid' \in Grids /\ threw' \in BOOLEAN
        /\ ~ threw' => grid' = g /\ Coming(tasks') = {g}
    BY <1>5, <2>3, CommitViews DEF SessionInv, HoldInv
  <2>5. HoldInv'
    BY <1>1, <2>4 DEF SessionInv, HoldInv, holdVars
  <2>6. deferred = "none"
    BY <1>1, <1>5 DEF SessionInv, GeometryInv, Deferring
  <2>7. GeometryInv'
    BY <1>1, <1>5, <2>4, <2>6 DEF SessionInv, GeometryInv, restorationVars, Deferring
  <2>8. SessionTypeOK'
    BY <1>1, <1>5, <2>4 DEF SessionInv, SessionTypeOK, holdVars, restorationVars
  <2> QED BY <2>5, <2>7, <2>8 DEF SessionInv
<1> QED BY <1>3, <1>4, <1>5 DEF HandleResize

LEMMA FlushIsPlain == Flush \in Seq(Plain)
<1> DEFINE a == IF "viewport" \in unsent THEN <<T("listeners")>> ELSE <<>>
           b == IF unsent \cap {"viewport", "frame"} # {} THEN <<T("frame")>> ELSE <<>>
           c == IF "state" \in unsent THEN <<T("state")>> ELSE <<>>
<1>1. a \in Seq(Plain) /\ b \in Seq(Plain) /\ c \in Seq(Plain)
  BY PlainLists DEF Ops, Special
<1> HIDE DEF a, b, c
<1>2. (a \o b) \o c \in Seq(Plain)
  BY <1>1, ConcatProperties
<1> QED BY <1>2 DEF Flush, a, b, c

\* The commit that is not overtaken leaves the terminal's size, the last one, as
\* the committed one; the outermost sends what was put off.
LEMMA CommitEndsKeeps == ASSUME SessionInv, CommitEnds PROVE SessionInv'
<1> DEFINE rest == Tail(tasks)
           top == Head(tasks)
<1>1. tasks # <<>> /\ top.op = "commit" /\ tasks \in Seq(Task) /\ EffectsEnd(tasks)
  BY DEF CommitEnds, At, SessionInv, SessionTypeOK, HoldInv
<1>2. /\ top \in Task /\ rest \in Seq(Task) /\ EffectsEnd(rest)
      /\ \A op : Has(tasks, op) <=> top.op = op \/ Has(rest, op)
      /\ Coming(tasks) = Coming(rest) \cup
           (IF top.op = "commit" /\ top.current THEN {top.g} ELSE {})
      /\ \A op : Has(rest, op) <=> \E i \in 2 .. Len(tasks) : tasks[i].op = op
  BY <1>1, PopViews
<1>3. top.g \in Grids
  BY <1>1, <1>2 DEF Task, Ops
<1>4. PICK new \in {<<>>, Flush} : tasks' = new \o rest
  BY DEF CommitEnds, Replace
<1>5. /\ new \in Seq(Task) /\ EffectsEnd(new) /\ Coming(new) = {}
      /\ \A op \in Special : ~ Has(new, op)
  <2>1. new \in Seq(Plain)
    BY PlainLists, FlushIsPlain
  <2> QED BY <2>1, PlainViews
<1>6. /\ UNCHANGED <<closed, holdVars, grid, deferred, wanted, threw, restorationVars>>
      /\ committed' = IF top.current /\ ~ closed THEN top.g ELSE committed
  BY DEF CommitEnds
<1>7. unsent' = {} \/ closed \/ Has(rest, "commit")
  BY <1>2 DEF CommitEnds
<1> HIDE DEF rest, top
<1>8. /\ new \o rest \in Seq(Task)
      /\ \A op : Has(new \o rest, op) <=> Has(new, op) \/ Has(rest, op)
      /\ EffectsEnd(new \o rest)
      /\ Coming(new \o rest) = Coming(new) \cup Coming(rest)
  BY <1>2, <1>5, PushViews
<1>9. /\ tasks' \in Seq(Task) /\ EffectsEnd(tasks')
      /\ Has(tasks', "settle") <=> Has(tasks, "settle")
      /\ Has(tasks', "commit") <=> Has(rest, "commit")
      /\ Has(tasks', "wrote") <=> Has(tasks, "wrote")
      /\ Coming(tasks') = Coming(rest)
  BY <1>1, <1>2, <1>4, <1>5, <1>8 DEF Special
<1>10. Coming(tasks) = Coming(tasks') \cup (IF top.current THEN {top.g} ELSE {})
  BY <1>1, <1>2, <1>9
<1>11. HoldInv'
  BY <1>6, <1>9 DEF SessionInv, HoldInv, holdVars
<1>12. GeometryInv'
  <2> SUFFICES ASSUME ~ closed PROVE GeometryInv'
    BY <1>6 DEF GeometryInv
  <2>1. unsent' # {} => Has(tasks', "commit")
    BY <1>7, <1>9
  <2>2. UNCHANGED <<closed, grid, deferred, wanted, threw, restoration, restoreTimer, defers>>
    BY <1>6 DEF restorationVars
  <2>3. GeometryInv /\ (Deferring' <=> Deferring)
    BY <2>2 DEF SessionInv, Deferring
  <2>4. ~ threw => /\ Coming(tasks') \subseteq {grid}
                   /\ Coming(tasks') = {} /\ committed' # "none" => committed' = grid
    <3>1. CASE top.current
      BY <1>6, <1>10, <2>3, <3>1 DEF GeometryInv
    <3>2. CASE ~ top.current
      BY <1>6, <1>10, <2>3, <3>2 DEF GeometryInv
    <3> QED BY <3>1, <3>2
  <2>5. ~ threw /\ wanted # "none" /\ ~ Deferring =>
          /\ Coming(tasks') \subseteq {wanted}
          /\ Coming(tasks') = {} => committed' = wanted
    <3>1. CASE top.current
      BY <1>6, <1>10, <2>3, <3>1 DEF GeometryInv
    <3>2. CASE ~ top.current
      BY <1>6, <1>10, <2>3, <3>2 DEF GeometryInv
    <3> QED BY <3>1, <3>2
  <2> QED BY <1>9, <2>1, <2>2, <2>3, <2>4, <2>5 DEF GeometryInv
<1>13. SessionTypeOK'
  BY <1>3, <1>6, <1>9 DEF SessionInv, SessionTypeOK, holdVars, restorationVars
<1> QED BY <1>11, <1>12, <1>13 DEF SessionInv

LEMMA ReportSizeKeeps == ASSUME SessionInv, ReportSize PROVE SessionInv'
<1>1. tasks # <<>> /\ Head(tasks).op \notin {"wrote", "settle", "commit"}
  BY DEF ReportSize, At
<1>2. <<>> \in Seq(Plain) /\ <<T("listeners")>> \in Seq(Plain)
  BY PlainLists DEF Ops, Special
<1> QED BY <1>1, <1>2, PlainKeeps DEF ReportSize

LEMMA RestoreChunkKeeps == ASSUME SessionInv, RestoreChunk PROVE SessionInv'
<1>1. PICK new \in {<<T("viewport"), T("state")>>, <<T("refresh"), T("viewport"), T("state")>>} :
        tasks' = new
  BY DEF RestoreChunk
<1>2. new \in Seq(Plain)
  BY PlainLists DEF Ops, Special
<1>3. tasks = <<>> /\ new \o tasks = new
  BY <1>2 DEF RestoreChunk
<1>4. ViewsKept
  BY <1>1, <1>2, <1>3, PlainStep DEF SessionInv, SessionTypeOK, HoldInv, Push
<1>5. UNCHANGED <<closed, holdVars, geometryVars, defers, restoration, restoreTimer>>
  BY DEF RestoreChunk
<1>6. HoldInv'
  BY <1>4, <1>5, HoldKept DEF SessionInv
<1>7. GeometryInv'
  BY <1>4, <1>5 DEF SessionInv, GeometryInv, ViewsKept, geometryVars, Deferring
<1>8. SessionTypeOK'
  BY <1>4, <1>5 DEF SessionInv, SessionTypeOK, ViewsKept, holdVars, geometryVars
<1> QED BY <1>6, <1>7, <1>8 DEF SessionInv

\* A geometry that was measured while history was restored is committed at its end.
LEMMA FinishRestorationKeeps == ASSUME SessionInv, FinishRestoration PROVE SessionInv'
<1> DEFINE rest == <<T("settle"), T("viewport"), T("state")>>
           resized == <<[op |-> "resized", g |-> deferred]>>
<1>1. /\ restoration' # "restoring" /\ restoreTimer' = FALSE /\ deferred' = "none"
      /\ FinishWith(rest)
      /\ UNCHANGED <<closed, holdVars, committed, unsent, wanted, defers>>
  BY DEF FinishRestoration
<1>2. /\ tasks = <<>> /\ tasks \in Seq(Task) /\ EffectsEnd(tasks) /\ Coming(tasks) = {}
      /\ \A op : ~ Has(tasks, op)
  BY DEF FinishRestoration, Has, Coming, EffectsEnd
<1>3. \A op \in {"settle", "viewport", "state"} : T(op) \in Task /\ T(op).op = op
  BY PlainTasks DEF Ops
<1>4. DOMAIN rest = 1 .. 3 /\ rest \in Seq(Task)
  BY <1>3
<1>5. rest[1].op = "settle" /\ rest[2].op = "viewport" /\ rest[3].op = "state"
  BY <1>3
<1>6. \A i \in DOMAIN rest : i \in {1, 2, 3}
  BY <1>4
<1> HIDE DEF rest
<1>7. Quiet(rest)
  BY <1>4, <1>5, <1>6 DEF Quiet, EffectsEnd, Has, Coming
<1>8. /\ tasks' \in Seq(Task) /\ EffectsEnd(tasks')
      /\ grid' \in Grids /\ threw' \in BOOLEAN
      /\ ~ Has(tasks', "wrote")
      /\ unsent # {} /\ ~ closed => Has(tasks', "commit")
      /\ \/ deferred = "none" /\ Coming(tasks') = {} /\ UNCHANGED <<grid, threw>>
         \/ deferred # "none" /\ (~ threw' => grid' = deferred /\ Coming(tasks') = {deferred})
  <2>1. unsent = {} \/ closed
    BY <1>2 DEF SessionInv, GeometryInv
  <2>2. CASE deferred = "none"
    <3>1. tasks' = rest /\ UNCHANGED <<grid, threw>>
      BY <1>1, <2>2 DEF FinishWith
    <3>2. grid \in Grids /\ threw \in BOOLEAN
      BY DEF SessionInv, SessionTypeOK
    <3> QED BY <1>7, <2>1, <2>2, <3>1, <3>2 DEF Quiet
  <2>3. CASE deferred # "none"
    <3>1. deferred \in Grids
      BY <2>3 DEF SessionInv, SessionTypeOK
    <3>2. [op |-> "resized", g |-> deferred] \in Plain
      BY <3>1 DEF Plain
    <3>3. resized \in Seq(Plain)
      BY <3>2
    <3> HIDE DEF resized
    <3>4. /\ resized \in Seq(Task) /\ EffectsEnd(resized) /\ Coming(resized) = {}
          /\ \A op \in Special : ~ Has(resized, op)
      BY <3>3, PlainViews
    <3>5. /\ resized \o rest \in Seq(Task)
          /\ \A op : Has(resized \o rest, op) <=> Has(resized, op) \/ Has(rest, op)
          /\ EffectsEnd(resized \o rest)
          /\ Coming(resized \o rest) = Coming(resized) \cup Coming(rest)
      BY <1>7, <3>4, PushViews DEF Quiet
    <3>6. Quiet(resized \o rest)
      BY <1>7, <3>4, <3>5 DEF Quiet, Special
    <3>7. CommitGeometry(deferred, resized \o rest, rest)
      BY <1>1, <2>3 DEF FinishWith, resized
    <3>8. /\ tasks' \in Seq(Task)
          /\ EffectsEnd(tasks')
          /\ Has(tasks', "commit")
          /\ Has(tasks', "wrote") <=> Has(tasks, "wrote")
          /\ grid' \in Grids /\ threw' \in BOOLEAN
          /\ ~ threw' => grid' = deferred /\ Coming(tasks') = {deferred}
      BY <1>2, <1>7, <3>1, <3>6, <3>7, CommitViews DEF SessionInv
    <3> QED BY <1>2, <2>3, <3>8
  <2> QED BY <2>2, <2>3
<1>9. HoldInv'
  BY <1>1, <1>2, <1>8 DEF SessionInv, HoldInv, holdVars
<1>10. GeometryInv'
  <2> SUFFICES ASSUME ~ closed PROVE GeometryInv'
    BY <1>1 DEF GeometryInv
  <2>1. GeometryInv /\ ~ Deferring'
    BY <1>1 DEF SessionInv, Deferring
  <2>2. CASE deferred = "none" /\ Coming(tasks') = {} /\ UNCHANGED <<grid, threw>>
    <3>1. wanted # "none" => ~ Deferring
      BY <2>1, <2>2 DEF GeometryInv
    <3> QED BY <1>1, <1>2, <1>8, <2>1, <2>2, <3>1 DEF GeometryInv
  <2>3. CASE deferred # "none" /\ (~ threw' => grid' = deferred /\ Coming(tasks') = {deferred})
    <3>1. deferred = wanted
      BY <2>1, <2>3 DEF GeometryInv
    <3> QED BY <1>1, <1>8, <2>1, <2>3, <3>1 DEF GeometryInv
  <2> QED BY <1>8, <2>2, <2>3
<1>11. SessionTypeOK'
  BY <1>1, <1>8 DEF SessionInv, SessionTypeOK, holdVars
<1> QED BY <1>9, <1>10, <1>11 DEF SessionInv

LEMMA SettleKeeps == ASSUME SessionInv, SettleRestoration PROVE SessionInv'
<1> DEFINE rest == Tail(tasks)
<1>1. tasks # <<>> /\ Head(tasks).op = "settle" /\ tasks \in Seq(Task) /\ EffectsEnd(tasks)
  BY DEF SettleRestoration, At, SessionInv, SessionTypeOK, HoldInv
<1>2. /\ rest \in Seq(Task) /\ EffectsEnd(rest)
      /\ \A op : Has(tasks, op) <=> Head(tasks).op = op \/ Has(rest, op)
      /\ Coming(tasks) = Coming(rest) \cup
           (IF Head(tasks).op = "commit" /\ Head(tasks).current THEN {Head(tasks).g} ELSE {})
  BY <1>1, PopViews
<1>3. tasks' = rest
  <2>1. tasks' = <<>> \o rest
    BY DEF SettleRestoration, Replace
  <2> HIDE DEF rest
  <2> QED BY <1>2, <2>1
<1> HIDE DEF rest
<1>4. /\ tasks' \in Seq(Task) /\ EffectsEnd(tasks')
      /\ \A op \in {"wrote", "commit"} : Has(tasks', op) <=> Has(tasks, op)
      /\ Coming(tasks') = Coming(tasks)
      /\ Has(tasks, "settle")
  BY <1>1, <1>2, <1>3
<1>5. /\ UNCHANGED <<closed, holdVars, geometryVars, defers, restoreTimer>>
      /\ restoration' \in {restoration, "failed"}
  BY DEF SettleRestoration
<1>6. HoldInv'
  BY <1>4, <1>5 DEF SessionInv, HoldInv, holdVars
<1>7. GeometryInv'
  <2> SUFFICES ASSUME ~ closed PROVE GeometryInv'
    BY <1>5 DEF GeometryInv
  <2>1. restoration # "restoring" /\ restoration' # "restoring"
    BY <1>4, <1>5 DEF SessionInv, GeometryInv
  <2>2. ~ Deferring /\ ~ Deferring'
    BY <2>1 DEF Deferring
  <2>3. UNCHANGED <<closed, grid, committed, deferred, unsent, wanted, threw, restoreTimer>>
    BY <1>5 DEF geometryVars
  <2> QED BY <1>4, <2>1, <2>2, <2>3 DEF SessionInv, GeometryInv
<1>8. SessionTypeOK'
  BY <1>4, <1>5 DEF SessionInv, SessionTypeOK, holdVars, geometryVars
<1> QED BY <1>6, <1>7, <1>8 DEF SessionInv

LEMMA DisposeSessionKeeps == ASSUME SessionInv, DisposeSession PROVE SessionInv'
<1>1. /\ closed' = TRUE /\ phase' = "released" /\ timeout' = FALSE /\ callbacks' = FALSE
      /\ surface' = IF phase # "released" /\ callbacks THEN "live" ELSE surface
      /\ restoreTimer' = FALSE
      /\ UNCHANGED <<tasks, geometryVars, defers>>
  BY DEF DisposeSession
<1>2. surface' = "live"
  BY <1>1 DEF SessionInv, SessionTypeOK, HoldInv
<1>3. HoldInv'
  BY <1>1, <1>2 DEF SessionInv, HoldInv
<1>4. GeometryInv'
  BY <1>1 DEF GeometryInv
<1>5. SessionTypeOK'
  BY <1>1, <1>2 DEF SessionInv, SessionTypeOK, geometryVars
<1> QED BY <1>3, <1>4, <1>5 DEF SessionInv

\* The calls of the search controller, and its timer.
LEMMA SearchCallsKeep ==
  ASSUME SessionInv,
         \/ tasks' = tasks \/ Push(<<T("search")>>) \/ Push(<<T(Told), T("selected")>>)
         \/ tasks = <<>> /\ tasks' = <<T("search")>>,
         UNCHANGED <<closed, holdVars, geometryVars, restorationVars>>
  PROVE  SessionInv'
<1>0. Told \in Ops \ Special /\ "selected" \in Ops \ Special /\ "search" \in Ops \ Special
  BY DEF Told, Ops, Special
<1>1. /\ <<>> \in Seq(Plain) /\ <<T("search")>> \in Seq(Plain)
      /\ <<T(Told), T("selected")>> \in Seq(Plain)
  BY <1>0, PlainLists
<1>2. tasks \in Seq(Task)
  BY DEF SessionInv, SessionTypeOK
<1>3. PICK new \in {<<>>, <<T("search")>>, <<T(Told), T("selected")>>} : Push(new)
  <2>1. CASE tasks' = tasks
    <3>1. <<>> \o tasks = tasks
      BY <1>2
    <3> QED BY <2>1, <3>1 DEF Push
  <2>2. CASE tasks = <<>> /\ tasks' = <<T("search")>>
    <3>1. <<T("search")>> \o <<>> = <<T("search")>>
      BY <1>1
    <3> QED BY <2>2, <3>1 DEF Push
  <2> QED BY <2>1, <2>2
<1> QED BY <1>1, <1>3, PlainKeeps

LEMMA InitSession == ViewInit => SessionInv
<1> SUFFICES ASSUME SessionInit PROVE SessionInv
  BY DEF ViewInit, SessionInv
<1>1. /\ tasks = <<>> /\ closed = FALSE
      /\ phase = "released" /\ timeout = FALSE /\ callbacks = FALSE /\ surface = "live"
      /\ grid \in Grids
      /\ committed = "none" /\ deferred = "none" /\ wanted = "none"
      /\ unsent = {} /\ threw = FALSE
  BY DEF SessionInit
<1>2. PICK restored \in BOOLEAN :
        /\ restoration = IF restored THEN "restoring" ELSE "none"
        /\ restoreTimer = restored
        /\ defers \in IF restored THEN BOOLEAN ELSE {FALSE}
  BY DEF SessionInit
<1>3. tasks \in Seq(Task) /\ EffectsEnd(tasks) /\ Coming(tasks) = {} /\ \A op : ~ Has(tasks, op)
  BY <1>1 DEF EffectsEnd, Coming, Has
<1>4. defers \in BOOLEAN /\ restoreTimer \in BOOLEAN /\ (restoreTimer => restoration = "restoring")
  BY <1>2
<1>5. SessionTypeOK
  BY <1>1, <1>3, <1>4 DEF SessionTypeOK
<1>6. HoldInv
  BY <1>1, <1>3 DEF HoldInv
<1>7. GeometryInv
  BY <1>1, <1>3, <1>4 DEF GeometryInv
<1> QED BY <1>5, <1>6, <1>7 DEF SessionInv

LEMMA NextSession == SessionInv /\ [ViewNext]_viewVars => SessionInv'
<1> SUFFICES ASSUME SessionInv, [ViewNext]_viewVars PROVE SessionInv'
  OBVIOUS
<1>1. CASE UNCHANGED sessionVars
  BY <1>1, SearchCallsKeep DEF sessionVars
<1>2. CASE SearchCall \/ SearchTimer
  BY <1>2, SearchCallsKeep DEF SearchCall, SearchTimer
<1>3. CASE ContentCall
  BY <1>3, WriteKeeps, HandleResizeKeeps DEF ContentCall
<1>4. CASE HoldCall
  BY <1>4, BeginKeeps, HoldCallsKeep, CallbacksKeep DEF HoldCall
<1>5. CASE ConfigCall \/ HoldTimer
  BY <1>5, HoldCallsKeep DEF ConfigCall, HoldTimer
<1>6. CASE DisposeAll
  BY <1>6, DisposeSessionKeeps DEF DisposeAll
<1>7. CASE ViewCall
  BY <1>1, <1>7 DEF ViewCall
<1>8. CASE SearchIsTold
  BY <1>8, TellSearchKeeps DEF SearchIsTold
<1>9. CASE ListenersReturn
  BY <1>9, ReturnKeeps DEF ListenersReturn
<1>10. CASE ViewIsTold
  BY <1>10, NotificationsKeep DEF ViewIsTold
<1>11. CASE SessionContinues
  BY <1>11, NotificationsKeep, TerminalChangedKeeps, WriteEndsKeeps, CommitEndsKeeps,
     ReportSizeKeeps, SettleKeeps DEF SessionContinues, Continue
<1>12. CASE RestorationTimer
  BY <1>12, RestoreChunkKeeps, FinishRestorationKeeps DEF RestorationTimer
<1>13. CASE CompressionTimer
  BY <1>1, <1>13 DEF CompressionTimer
<1>14. CASE \E current \in BOOLEAN : IdleTask(current)
  BY <1>1, <1>14 DEF IdleTask
<1>15. CASE UNCHANGED viewVars
  BY <1>1, <1>15 DEF viewVars
<1> QED BY <1>2, <1>3, <1>4, <1>5, <1>6, <1>7, <1>8, <1>9, <1>10, <1>11, <1>12, <1>13, <1>14,
           <1>15 DEF ViewNext, HostActs, IsolateRuns

THEOREM SessionInductive == ViewSpec => []SessionInv
BY InitSession, NextSession, PTL DEF ViewSpec

\* The surface shows a frozen frame only while the session holds it with a timeout
\* set, and once no call is under way what is held has been painted: for any depth
\* of writes, effects and listeners that begin, end and time out holds in each
\* other, and whatever renderers come and go.
THEOREM FrozenOnlyWhileHeldHolds == ViewSpec => []FrozenOnlyWhileHeld
<1>1. SessionInv => FrozenOnlyWhileHeld
  <2>1. tasks = <<>> => ~ Has(tasks, "wrote")
    BY DEF Has
  <2> QED BY <2>1 DEF SessionInv, HoldInv, FrozenOnlyWhileHeld
<1> QED BY <1>1, SessionInductive, PTL

\* Once no call is under way the terminal, the committed geometry and the last one
\* that was measured agree, unless a resize threw or history is being restored,
\* and no notification was kept back: for any sizes, any depth of nested resizes
\* and any moment at which the restoration ends.
THEOREM LatestGeometryWinsHolds == ViewSpec => []LatestGeometryWins
<1>1. SessionInv => LatestGeometryWins
  <2>1. tasks = <<>> => ~ Has(tasks, "commit") /\ Coming(tasks) = {}
    BY DEF Has, Coming
  <2> QED BY <2>1 DEF SessionInv, GeometryInv, Deferring, LatestGeometryWins
<1> QED BY <1>1, SessionInductive, PTL
=============================================================================
