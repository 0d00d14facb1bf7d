------------------------- MODULE SearchControllerProofs -------------------------
(***************************************************************************)
(* SearchController for every set of queries, every bound on the native    *)
(* work and every depth of calls from listeners: an unfinished search      *)
(* always has its timer once no call waits for its listeners, and only a   *)
(* resubmitted query, or a change that a navigation's own flag hides, lets *)
(* stale results be seen.                                                  *)
(*                                                                         *)
(* WorkIsScheduled says nothing of the states in which calls are waiting,  *)
(* so it is not inductive.  What holds in those is that an unfinished      *)
(* search without a timer is owed one: a waiting call will schedule it.    *)
(***************************************************************************)
EXTENDS SearchController, TLAPS

\* A call that waits for its listeners will schedule the search's work.
Owed == \E i \in 1 .. Len(stack) : stack[i] \in {"schedule", "ifSearching"}

SearchInv ==
  /\ status # "complete" => units > 0
  /\ work # "outdated"
  /\ disposed => work = "none"
  /\ ~ disposed /\ IsSearching => work = "current" \/ Owed

IInv == TypeOK /\ SearchInv

\* Pushing a frame leaves a sequence of frames, with the new one in front and the
\* old ones behind it.
LEMMA PushFrame ==
  ASSUME NEW s \in Seq(Rests), NEW r \in Rests
  PROVE  /\ <<r>> \o s \in Seq(Rests)
         /\ Len(<<r>> \o s) = Len(s) + 1
         /\ (<<r>> \o s)[1] = r
         /\ \A i \in 1 .. Len(s) : (<<r>> \o s)[i + 1] = s[i]
  OBVIOUS

\* Popping the innermost frame leaves the others in their order.
LEMMA PopFrame ==
  ASSUME NEW s \in Seq(Rests), s # <<>>
  PROVE  /\ Tail(s) \in Seq(Rests)
         /\ Head(s) = s[1] /\ Head(s) \in Rests
         /\ Len(s) \in Nat \ {0}
         /\ Len(Tail(s)) = Len(s) - 1
         /\ \A i \in 2 .. Len(s) : Tail(s)[i - 1] = s[i]
  OBVIOUS

\* A call that notifies its listeners and schedules afterwards owes the work.
LEMMA NotifyOwes ==
  ASSUME TypeOK, NEW r \in {"schedule", "ifSearching"}, Notify(r)
  PROVE  stack' \in Seq(Rests) /\ Owed'
<1>1. r \in Rests /\ stack \in Seq(Rests) /\ stack' = <<r>> \o stack
  BY DEF TypeOK, Notify, Rests
<1>2. stack' \in Seq(Rests) /\ Len(stack') = Len(stack) + 1 /\ stack'[1] = r
  BY <1>1, PushFrame
<1>3. Len(stack) \in Nat
  BY <1>1
<1>4. 1 \in 1 .. Len(stack')
  BY <1>2, <1>3
<1> QED
  BY <1>2, <1>4 DEF Owed

\* Popping a frame that schedules nothing leaves what is owed.
LEMMA PopKeepsOwed ==
  ASSUME TypeOK, stack # <<>>, stack' = Tail(stack), Owed,
         Head(stack) \notin {"schedule", "ifSearching"}
  PROVE  Owed'
<1>1. stack \in Seq(Rests)
  BY DEF TypeOK
<1>2. PICK i \in 1 .. Len(stack) : stack[i] \in {"schedule", "ifSearching"}
  BY DEF Owed
<1>3. /\ Head(stack) = stack[1]
      /\ Len(stack) \in Nat \ {0}
      /\ Len(stack') = Len(stack) - 1
      /\ \A j \in 2 .. Len(stack) : stack'[j - 1] = stack[j]
  BY <1>1, PopFrame
<1>4. i # 1
  BY <1>2, <1>3
<1>5. i \in 2 .. Len(stack) /\ i - 1 \in 1 .. Len(stack')
  BY <1>3, <1>4
<1>6. stack'[i - 1] \in {"schedule", "ifSearching"}
  BY <1>2, <1>3, <1>5
<1> QED
  BY <1>5, <1>6 DEF Owed

\* What the native calls leave: a search that is not complete has work left.
LEMMA FeedLeavesWork ==
  ASSUME NEW n \in 0 .. MaxUnits, Feed(n)
  PROVE  /\ units' \in 0 .. MaxUnits /\ status' \in Statuses /\ fresh' \in BOOLEAN
         /\ status' # "complete" => units' > 0
  BY SearchControllerAssumption DEF Feed, Statuses

LEMMA TickLeavesWork ==
  ASSUME NEW n \in 0 .. MaxUnits, NEW s \in Statuses, s # "complete" => n > 0,
         TickIfRunning(s, n)
  PROVE  /\ units' \in 0 .. MaxUnits /\ status' \in Statuses
         /\ status' # "complete" => units' > 0
  BY SearchControllerAssumption DEF TickIfRunning, Tick, Statuses

\* What a feed may find is within the bound.
LEMMA BacklogBounded ==
  ASSUME TypeOK
  PROVE  0 .. Backlog \subseteq 0 .. MaxUnits
  BY SearchControllerAssumption DEF TypeOK, Backlog

LEMMA InitInv == Init => IInv
<1> SUFFICES ASSUME Init
             PROVE  IInv
  OBVIOUS
<1>1. 0 \in 0 .. MaxUnits
  BY SearchControllerAssumption
<1>2. TypeOK
  <2>1. stack \in Seq(Rests)
    BY DEF Init
  <2>2. status \in Statuses /\ work \in Timers
    BY DEF Init, Statuses, Timers
  <2> QED
    BY <1>1, <2>1, <2>2 DEF Init, TypeOK
<1>3. SearchInv
  BY DEF Init, SearchInv, IsSearching, HasQuery
<1> QED
  BY <1>2, <1>3 DEF IInv
-----------------------------------------------------------------------------
\* search keeps the invariant: it cancels the timer, and owes one.
LEMMA SearchKeeps ==
  ASSUME IInv, NEW q \in Queries, Search(q)
  PROVE  IInv'
<1>1. TypeOK
  BY DEF IInv
<1>2. /\ ~ disposed /\ disposed' = disposed /\ selecting' = selecting
      /\ work' = "none" /\ needle' = q /\ needsFeed' = FALSE
  BY DEF Search, CancelWork
<1>3. stack' \in Seq(Rests) /\ Owed'
  BY <1>1, NotifyOwes DEF Search
<1>4. /\ units' \in 0 .. MaxUnits /\ status' \in Statuses /\ fresh' \in BOOLEAN
      /\ status' # "complete" => units' > 0
  <2>1. CASE q # needle
    BY <2>1, FeedLeavesWork DEF Search
  <2>2. CASE q = needle /\ status = "feedRequired"
    BY <1>1, <2>2, FeedLeavesWork, BacklogBounded DEF Search
  <2>3. CASE q = needle /\ status # "feedRequired"
    BY <2>3 DEF Search, IInv, TypeOK, SearchInv
  <2> QED
    BY <2>1, <2>2, <2>3
<1>5. TypeOK'
  BY <1>1, <1>2, <1>3, <1>4 DEF TypeOK, Timers
<1> QED
  BY <1>2, <1>3, <1>4, <1>5 DEF IInv, SearchInv

\* A change of the terminal keeps the invariant: it owes the work it asks for.
LEMMA TerminalChangesKeeps ==
  ASSUME IInv, TerminalChanges
  PROVE  IInv'
<1>1. TypeOK
  BY DEF IInv
<1>2. stack' \in Seq(Rests) /\ Owed'
  BY <1>1, NotifyOwes DEF TerminalChanges
<1>3. TypeOK'
  BY <1>1, <1>2 DEF TerminalChanges, TypeOK
<1> QED
  BY <1>2, <1>3 DEF TerminalChanges, IInv, SearchInv

\* A timer keeps the invariant: work that is left is owed by the call itself.
LEMMA RunWorkKeeps ==
  ASSUME IInv, RunWork
  PROVE  IInv'
<1>1. TypeOK /\ work = "current" /\ ~ disposed /\ stack = <<>>
  BY DEF IInv, SearchInv, RunWork, TypeOK, Timers
<1>2. /\ work' = "none" /\ disposed' = disposed /\ needle' = needle /\ selecting' = selecting
  BY DEF RunWork
<1>3. CASE ~ HasQuery
  <2>1. UNCHANGED <<status, units, fresh, needsFeed, stack>>
    BY <1>3 DEF RunWork
  <2>2. TypeOK'
    BY <1>1, <1>2, <2>1 DEF TypeOK, Timers
  <2> QED
    BY <1>1, <1>2, <1>3, <2>1, <2>2 DEF IInv, SearchInv, IsSearching, HasQuery
<1>4. CASE HasQuery
  <2>1. /\ needsFeed' = FALSE
        /\ Notify(IF status' = "complete" THEN "nothing" ELSE "schedule")
    BY <1>1, <1>4 DEF RunWork
  <2>2. /\ units' \in 0 .. MaxUnits /\ status' \in Statuses /\ fresh' \in BOOLEAN
        /\ status' # "complete" => units' > 0
    <3>1. CASE needsFeed \/ status = "feedRequired"
      <4>1. fresh' = TRUE
        BY <1>1, <1>4, <3>1 DEF RunWork
      <4>2. PICK n \in 0 .. Backlog : TickIfRunning(IF n = 0 THEN "complete" ELSE "running", n)
        BY <1>1, <1>4, <3>1 DEF RunWork
      <4>3. n \in 0 .. MaxUnits
        BY <1>1, <4>2, BacklogBounded
      <4>4. (IF n = 0 THEN "complete" ELSE "running") \in Statuses
        BY DEF Statuses
      <4>5. (IF n = 0 THEN "complete" ELSE "running") # "complete" => n > 0
        BY <4>3, SearchControllerAssumption
      <4> QED
        BY <4>1, <4>2, <4>3, <4>4, <4>5, TickLeavesWork
    <3>2. CASE ~ (needsFeed \/ status = "feedRequired")
      <4>1. TickIfRunning(status, units) /\ fresh' = fresh
        BY <1>1, <1>4, <3>2 DEF RunWork
      <4>2. units \in 0 .. MaxUnits /\ status \in Statuses /\ (status # "complete" => units > 0)
        BY DEF IInv, TypeOK, SearchInv
      <4> QED
        BY <1>1, <4>1, <4>2, TickLeavesWork DEF TypeOK
    <3> QED
      BY <3>1, <3>2
  <2>3. stack' \in Seq(Rests)
    BY <1>1, <2>1, PushFrame DEF Notify, TypeOK, Rests
  <2>4. status' # "complete" => Owed'
    BY <1>1, <2>1, NotifyOwes
  <2>5. TypeOK'
    BY <1>1, <1>2, <2>1, <2>2, <2>3 DEF TypeOK, Timers
  <2> QED
    BY <1>1, <1>2, <2>1, <2>2, <2>4, <2>5 DEF IInv, SearchInv, IsSearching, HasQuery
<1> QED
  BY <1>3, <1>4

\* A call that goes on keeps the invariant: it schedules what it owed.
LEMMA ResumeKeeps ==
  ASSUME IInv, Resume
  PROVE  IInv'
<1>1. /\ TypeOK /\ stack # <<>> /\ stack' = Tail(stack)
      /\ UNCHANGED <<needle, status, units, fresh, needsFeed, disposed>>
  BY DEF IInv, Resume
<1>2. stack' \in Seq(Rests) /\ Head(stack) \in Rests
  BY <1>1, PopFrame DEF TypeOK
<1>3. IsSearching' = IsSearching
  BY <1>1 DEF IsSearching, HasQuery
<1>4. work' \in {work, "current"} /\ (disposed => work' = work)
  BY DEF Resume, ScheduleWork
<1>5. ~ disposed /\ IsSearching' => work' = "current" \/ Owed'
  <2> SUFFICES ASSUME ~ disposed, IsSearching
               PROVE  work' = "current" \/ Owed'
    BY <1>3
  <2>1. CASE Head(stack) \in {"schedule", "ifSearching"}
    BY <2>1 DEF Resume, ScheduleWork, IsSearching, IInv, SearchInv, TypeOK, Timers
  <2>2. CASE Head(stack) \notin {"schedule", "ifSearching"} /\ work = "current"
    BY <1>4, <2>2
  <2>3. CASE Head(stack) \notin {"schedule", "ifSearching"} /\ work # "current"
    BY <1>1, <2>3, PopKeepsOwed DEF IInv, SearchInv
  <2> QED
    BY <2>1, <2>2, <2>3
<1>6. selecting' \in BOOLEAN
  BY DEF Resume
<1>7. TypeOK'
  BY <1>1, <1>2, <1>4, <1>6 DEF TypeOK, Timers
<1> QED
  BY <1>1, <1>4, <1>5, <1>7 DEF IInv, SearchInv

\* A navigation keeps the invariant: it leaves nothing that would need a timer.
LEMMA SelectMatchKeeps ==
  ASSUME IInv, SelectMatch
  PROVE  IInv'
<1>1. 0 \in 0 .. MaxUnits
  BY SearchControllerAssumption
<1>2. /\ work' = "none" /\ needsFeed' = FALSE /\ selecting' = TRUE
      /\ units' = 0 /\ fresh' = TRUE /\ status' = "complete"
      /\ UNCHANGED <<needle, disposed>>
  BY DEF SelectMatch, CancelWork, RunToCompletion
<1>3. stack' \in Seq(Rests)
  <2>1. stack \in Seq(Rests) /\ "selected" \in Rests /\ stack' = <<"selected">> \o stack
    BY DEF SelectMatch, Notify, IInv, TypeOK, Rests
  <2> QED
    BY <2>1, PushFrame
<1>4. TypeOK'
  BY <1>1, <1>2, <1>3 DEF IInv, TypeOK, Statuses, Timers
<1> QED
  BY <1>2, <1>4 DEF IInv, SearchInv, IsSearching, HasQuery

\* Every step keeps the invariant.
LEMMA NextKeeps == IInv /\ [Next]_vars => IInv'
<1> SUFFICES ASSUME IInv, [Next]_vars
             PROVE  IInv'
  OBVIOUS
<1>0. 0 \in 0 .. MaxUnits
  BY SearchControllerAssumption
<1>1. CASE \E q \in Queries : Search(q)
  BY <1>1, SearchKeeps
<1>2. CASE Clear
  <2>1. TypeOK'
    BY <1>0, <1>2 DEF Clear, CancelWork, IInv, TypeOK, Statuses, Timers
  <2>2. SearchInv'
    BY <1>2 DEF Clear, CancelWork, SearchInv, IsSearching, HasQuery
  <2> QED
    BY <2>1, <2>2 DEF IInv
<1>3. CASE SelectMatch
  BY <1>3, SelectMatchKeeps
<1>4. CASE Dispose
  BY <1>4 DEF Dispose, CancelWork, IInv, TypeOK, SearchInv, Timers
<1>5. CASE TerminalChanges
  BY <1>5, TerminalChangesKeeps
<1>6. CASE RunWork
  BY <1>6, RunWorkKeeps
<1>7. CASE Resume
  BY <1>7, ResumeKeeps
<1>8. CASE UNCHANGED vars
  BY <1>8 DEF vars, IInv, TypeOK, SearchInv, IsSearching, HasQuery, Owed
<1>9. CASE ChangeMissed
  BY <1>9 DEF ChangeMissed, IInv, TypeOK, SearchInv, IsSearching, HasQuery, Owed
<1> QED
  BY <1>1, <1>2, <1>3, <1>4, <1>5, <1>6, <1>7, <1>8, <1>9 DEF Next

\* The strengthened invariant holds of every behaviour.
THEOREM SearchInductive == Spec => []IInv
  BY InitInv, NextKeeps, PTL DEF Spec

\* The types of the native search's status, the timer and the waiting calls.
THEOREM SearchTypeCorrect == Spec => []TypeOK
<1>1. IInv => TypeOK
  BY DEF IInv
<1> QED
  BY <1>1, SearchInductive, PTL

\* Once no call waits for its listeners an unfinished search has the timer that
\* continues it, and a disposed controller has none.
THEOREM WorkIsScheduledHolds == Spec => []WorkIsScheduled
<1>1. IInv => WorkIsScheduled
  <2> SUFFICES ASSUME IInv
               PROVE  WorkIsScheduled
    OBVIOUS
  <2>1. stack = <<>> => ~ Owed
    BY DEF Owed
  <2> QED
    BY <2>1 DEF IInv, SearchInv, WorkIsScheduled
<1> QED
  BY <1>1, SearchInductive, PTL
-----------------------------------------------------------------------------
\* Stale results come to be seen in two ways only, whatever the controller's
\* listeners do at any depth: by a search for the query that is set, which
\* forgets that a feed is needed, and by a change during the notification of a
\* navigation, which _handleTerminalChanged passes over.
THEOREM StaleOnlyIfResubmittedOrMissedHolds == Spec => StaleOnlyIfResubmittedOrMissed
<1> DEFINE Exposes == ~ ShowsStaleResults /\ ShowsStaleResults'
           Resubmits == needle \in Queries /\ Search(needle)
<1>1. [Next]_vars => [Exposes => Resubmits \/ ChangeMissed]_vars
  <2> SUFFICES ASSUME Next, Exposes
               PROVE  Resubmits \/ ChangeMissed
    OBVIOUS
  <2>1. CASE \E q \in Queries : Search(q)
    <3>1. PICK q \in Queries : Search(q)
      BY <2>1
    <3>2. q # needle => fresh' = TRUE
      BY <3>1 DEF Search, Feed
    <3> QED
      BY <3>1, <3>2 DEF ShowsStaleResults
  <2>2. CASE Clear
    BY <2>2 DEF Clear, ShowsStaleResults
  <2>3. CASE SelectMatch
    BY <2>3 DEF SelectMatch, RunToCompletion, ShowsStaleResults
  <2>4. CASE Dispose
    BY <2>4 DEF Dispose, ShowsStaleResults
  <2>5. CASE TerminalChanges
    BY <2>5 DEF TerminalChanges, ShowsStaleResults
  <2>6. CASE RunWork
    BY <2>6 DEF RunWork, ShowsStaleResults, HasQuery
  <2>7. CASE Resume
    BY <2>7 DEF Resume, ShowsStaleResults, HasQuery
  <2> QED
    BY <2>1, <2>2, <2>3, <2>4, <2>5, <2>6, <2>7 DEF Next
<1> QED
  BY <1>1, PTL DEF Spec, StaleOnlyIfResubmittedOrMissed
=============================================================================
