------------------------- MODULE DeliverableReview --------------------------
(***************************************************************************)
(* The review of one deliverable: DeliverableWorkflowService               *)
(* (app/services/deliverable_workflow_service.py) and the endpoints that   *)
(* call it (app/api/routes/campaigns.py, app/api/core_routes.py).          *)
(*                                                                         *)
(* The status column of a deliverable is deprecated: its status is read    *)
(* off timestamps, so what a transition does is what it stamps.  Windows   *)
(* and round events are rows of their own, and the counters that number    *)
(* them are columns of the deliverable that a session reads, adds one to   *)
(* and writes back.                                                        *)
(*                                                                         *)
(* Everything a request decides, it decides on the snapshot of its own     *)
(* transaction, so Begin computes what it will write and Commit writes it. *)
(* The history variable overlapped remembers whether any two requests have *)
(* run at the same time: some properties hold only until then.             *)
(***************************************************************************)
EXTENDS Integers

CONSTANTS
  Workers,    \* server threads, each with a session of its own
  Steps,      \* the workflow steps linked to the deliverable
  Manual,     \* the kinds whose rounds users also increment by hand
  StepWaits,  \* what users and the engine make a linked step wait on
  MaxRound,   \* bound: rounds of one kind
  MaxEvents,  \* bound: round events of one kind (further commits wait)
  NoTx        \* a worker without an open transaction

Kinds == {"internal", "client", "amends"}
Rounds == 1..MaxRound

\* ReviewWindow rows.  A round's window is inserted only by a session that
\* sees none, so a worker inserts at most one for each round.
Windows == Kinds \X Rounds \X Workers
\* The code never assigns ReviewWindowStatus.OVERDUE.
WindowStatus == {"absent", "open", "complete"}

\* The timestamps that say how far the deliverable is.
Stamps == {"current_start", "awaiting_internal_review_since",
           "awaiting_client_review_since", "client_changes_requested_at",
           "approved_at", "ready_to_publish_at",
           "scheduled_or_published_at", "actual_done"}

\* WaitingOnType of a step, and "none"; nothing assigns EXTERNAL.
Waits == {"none", "internal", "client", "dependency"}

\* What an open transaction is going to write.
Writes == [set : SUBSET Stamps, unset : SUBSET Stamps,
           kind : Kinds \union {"none"}, round : 0..MaxRound,
           opened : SUBSET Windows, closed : SUBSET Windows,
           wait : Waits, waiters : SUBSET Steps]

ASSUME AskedAssumption == Manual \subseteq Kinds /\ StepWaits \subseteq Waits
ASSUME BoundsAssumption == MaxRound \in Nat /\ MaxEvents \in Nat
ASSUME NoTxAssumption == NoTx \notin Writes

VARIABLES
  stamps,      \* the timestamps of the deliverable that are set
  rounds,      \* rounds[k]: internal_review_rounds and its two siblings
  events,      \* events[k]: how many round events of this kind are recorded
  window,      \* window[r]: status of a row of review_windows
  waiting,     \* waiting[s]: waiting_on_type of a linked step
  finished,    \* the linked steps with actual_done set
  tx,          \* tx[w]: the writes of worker w's open transaction, or NoTx
  overlapped   \* history: have two requests ever run at the same time?

vars == <<stamps, rounds, events, window, waiting, finished, tx, overlapped>>

TypeOK ==
  /\ stamps \subseteq Stamps
  /\ rounds \in [Kinds -> 0..MaxRound]
  /\ events \in [Kinds -> 0..MaxEvents]
  /\ window \in [Windows -> WindowStatus]
  /\ waiting \in [Steps -> Waits]
  /\ finished \subseteq Steps
  /\ tx \in [Workers -> Writes \union {NoTx}]
  /\ overlapped \in BOOLEAN

(* A deliverable as generated: it has a start date and no review yet; its  *)
(* first step waits for nobody, the others for a predecessor.              *)
Init ==
  /\ stamps = {"current_start"}
  /\ rounds = [k \in Kinds |-> 0]
  /\ events = [k \in Kinds |-> 0]
  /\ window = [r \in Windows |-> "absent"]
  /\ waiting \in [Steps -> {"none", "dependency"}]
  /\ finished = {}
  /\ tx = [w \in Workers |-> NoTx]
  /\ overlapped = FALSE

Idle(w) == tx[w] = NoTx

(* Whether a request that runs now runs alongside another one.             *)
Overlaps == overlapped' = (overlapped \/ \E w \in Workers : ~Idle(w))

-----------------------------------------------------------------------------
(* Mutant: an open client review is looked for before a sign-off.          *)
CurrentStatusReviewFirst(at) ==
  IF "actual_done" \in at THEN "complete"
  ELSE IF "scheduled_or_published_at" \in at THEN "scheduled_or_published"
  ELSE IF "ready_to_publish_at" \in at THEN "ready_to_publish"
  ELSE IF "client_changes_requested_at" \in at THEN "client_changes_requested"
  ELSE IF "approved_at" \in at THEN "approved"
  ELSE IF "awaiting_client_review_since" \in at THEN "awaiting_client_review"
  ELSE IF "awaiting_internal_review_since" \in at THEN "awaiting_internal_review"
  ELSE IF "current_start" \in at THEN "in_progress" ELSE "planned"

(* _current_status: the furthest timestamp that is set.                    *)
CurrentStatus(at) ==
  IF "actual_done" \in at THEN "complete"
  ELSE IF "scheduled_or_published_at" \in at THEN "scheduled_or_published"
  ELSE IF "ready_to_publish_at" \in at THEN "ready_to_publish"
  ELSE IF "approved_at" \in at THEN "approved"
  ELSE IF "client_changes_requested_at" \in at THEN "client_changes_requested"
  ELSE IF "awaiting_client_review_since" \in at THEN "awaiting_client_review"
  ELSE IF "awaiting_internal_review_since" \in at THEN "awaiting_internal_review"
  ELSE IF "current_start" \in at THEN "in_progress" ELSE "planned"

(* Mutant: the client's answer is not waited for.                          *)
RulesSkippingClient ==
  { <<"in_progress", "awaiting_internal_review">>,
    <<"awaiting_internal_review", "internal_review_complete">>,
    <<"in_progress", "awaiting_client_review">>,
    <<"in_progress", "approved">>,
    <<"awaiting_client_review", "approved">> }

(* RULES, without the roles: some user of the campaign may make each move. *)
Rules ==
  { <<"planned", "in_progress">>,
    <<"in_progress", "awaiting_internal_review">>,
    <<"awaiting_internal_review", "internal_review_complete">>,
    <<"in_progress", "awaiting_client_review">>,
    <<"internal_review_complete", "awaiting_client_review">>,
    <<"awaiting_client_review", "client_changes_requested">>,
    <<"awaiting_client_review", "approved">>,
    <<"client_changes_requested", "in_progress">>,
    <<"approved", "ready_to_publish">>,
    <<"ready_to_publish", "scheduled_or_published">>,
    <<"scheduled_or_published", "complete">> }

Targets == {rule[2] : rule \in Rules}

(* The timestamps a transition sets, and those it clears.                  *)
StampsSet(to) ==
  CASE to = "awaiting_internal_review" -> {"awaiting_internal_review_since"}
    [] to = "awaiting_client_review"   -> {"awaiting_client_review_since"}
    [] to = "client_changes_requested" -> {"client_changes_requested_at"}
    [] to = "approved"                 -> {"approved_at"}
    [] to = "ready_to_publish"         -> {"ready_to_publish_at"}
    [] to = "scheduled_or_published"   -> {"scheduled_or_published_at"}
    [] to = "complete"                 -> {"actual_done"}
    [] OTHER                           -> {}

StampsCleared(to) ==
  CASE to = "internal_review_complete" -> {"awaiting_internal_review_since"}
    [] to \in {"client_changes_requested", "approved"}
                                       -> {"awaiting_client_review_since"}
    [] OTHER                           -> {}

(* The round a transition starts, if any.                                  *)
StartsRound(to) ==
  CASE to = "awaiting_internal_review" -> "internal"
    [] to = "awaiting_client_review"   -> "client"
    [] to = "client_changes_requested" -> "amends"
    [] OTHER                           -> "none"

(* The kinds of window a transition closes.                                *)
ClosesKinds(to) ==
  CASE to = "internal_review_complete" -> {"internal"}
    [] to = "awaiting_client_review"   -> {"amends"}
    [] to = "client_changes_requested" -> {"client"}
    [] to \in {"approved", "ready_to_publish", "scheduled_or_published", "complete"}
                                       -> {"client", "amends"}
    [] OTHER                           -> {}

(* Mutant: a wait outside the enumeration.                                 *)
StepsWaitOnMisnamed(to) ==
  CASE to = "awaiting_client_review" -> "client_review"
    [] to \in {"awaiting_internal_review", "client_changes_requested"} -> "internal"
    [] OTHER -> "none"

(* What the open steps wait on afterwards.                                 *)
StepsWaitOn(to) ==
  CASE to = "awaiting_client_review" -> "client"
    [] to \in {"awaiting_internal_review", "client_changes_requested"} -> "internal"
    [] OTHER -> "none"

OpenSteps == Steps \ finished

(* Mutant: only the waits on the client are lifted.                        *)
WaitersClientOnly(to) ==
  IF StepsWaitOn(to) = "none"
    THEN {s \in OpenSteps : waiting[s] = "client"}
    ELSE {s \in OpenSteps : waiting[s] # StepsWaitOn(to)}

(* _apply_waiting_state_to_open_steps: the steps whose wait is rewritten.  *)
Waiters(to) ==
  IF StepsWaitOn(to) = "none"
    THEN {s \in OpenSteps : waiting[s] \in {"internal", "client"}}
    ELSE {s \in OpenSteps : waiting[s] # StepsWaitOn(to)}

(* _complete_open_window                                                   *)
OpenWindows(kinds) ==
  {r \in Windows : r[1] \in kinds /\ window[r] = "open"}

(* Mutant: the round is left out of the query.                             *)
OpenedWindowsAnyRound(w, k, n, reopen) ==
  LET existing == {r \in Windows : r[1] = k /\ window[r] # "absent"}
  IN  IF existing = {} THEN {{<<k, n, w>>}}
      ELSE {IF reopen /\ window[r] = "complete" THEN {r} ELSE {} : r \in existing}

(* _open_review_window: a new row, or, of the rows of this round, the one  *)
(* the query returns first, reopened if it is complete and may be.         *)
OpenedWindows(w, k, n, reopen) ==
  LET existing == {r \in Windows : r[1] = k /\ r[2] = n /\ window[r] # "absent"}
  IN  IF existing = {} THEN {{<<k, n, w>>}}
      ELSE {IF reopen /\ window[r] = "complete" THEN {r} ELSE {} : r \in existing}

-----------------------------------------------------------------------------
(* A session with writes m opens.                                          *)
Start(w, m) ==
  /\ tx' = [tx EXCEPT ![w] = m]
  /\ Overlaps
  /\ UNCHANGED <<stamps, rounds, events, window, waiting, finished>>

(* POST /deliverables/{id}/transition.  A request for the status the       *)
(* deliverable already has changes nothing, one that RULES does not list   *)
(* is refused with 400, and so is asking for changes without a comment.    *)
Transition(w, to) ==
  LET k == StartsRound(to)
      n == IF k = "none" THEN 0 ELSE rounds[k] + 1
  IN  /\ Idle(w)
      /\ <<CurrentStatus(stamps), to>> \in Rules
      /\ n <= MaxRound
      /\ \E opened \in IF k = "none" THEN {{}} ELSE OpenedWindows(w, k, n, FALSE) :
           Start(w, [set |-> StampsSet(to), unset |-> StampsCleared(to),
                     kind |-> k, round |-> n,
                     opened |-> opened, closed |-> OpenWindows(ClosesKinds(to)),
                     wait |-> StepsWaitOn(to), waiters |-> Waiters(to)])

(* Mutant: the counter is advanced and the window forgotten.               *)
IncrementRoundNoWindow(w, k) ==
  /\ Idle(w)
  /\ rounds[k] < MaxRound
  /\ Start(w, [set |-> {}, unset |-> {}, kind |-> k, round |-> rounds[k] + 1,
               opened |-> {}, closed |-> {}, wait |-> "none", waiters |-> {}])

(* POST /deliverables/{id}/review-rounds/increment, in any status          *)
IncrementRound(w, k) ==
  /\ Idle(w)
  /\ rounds[k] < MaxRound
  /\ \E opened \in OpenedWindows(w, k, rounds[k] + 1, TRUE) :
       Start(w, [set |-> {}, unset |-> {}, kind |-> k, round |-> rounds[k] + 1,
                 opened |-> opened, closed |-> {}, wait |-> "none", waiters |-> {}])

(* Mutant: a manual increment is not recorded as an event.                 *)
CommitManualUnrecorded(w) ==
  LET m == tx[w]
  IN  /\ ~Idle(w)
      /\ stamps' = (stamps \ m.unset) \union m.set
      /\ rounds' = IF m.kind = "none" THEN rounds ELSE [rounds EXCEPT ![m.kind] = m.round]
      /\ m.kind # "none" => events[m.kind] < MaxEvents
      /\ events' = IF m.kind = "none" \/ m.set = {} THEN events
                   ELSE [events EXCEPT ![m.kind] = @ + 1]
      /\ window' = [r \in Windows |-> IF r \in m.opened THEN "open"
                                      ELSE IF r \in m.closed THEN "complete"
                                      ELSE window[r]]
      /\ waiting' = [s \in Steps |-> IF s \in m.waiters THEN m.wait ELSE waiting[s]]
      /\ tx' = [tx EXCEPT ![w] = NoTx]
      /\ UNCHANGED <<finished, overlapped>>

(* The commit: every column and row the session changed is written.        *)
Commit(w) ==
  LET m == tx[w]
  IN  /\ ~Idle(w)
      /\ stamps' = (stamps \ m.unset) \union m.set
      /\ rounds' = IF m.kind = "none" THEN rounds ELSE [rounds EXCEPT ![m.kind] = m.round]
      /\ m.kind # "none" => events[m.kind] < MaxEvents
      /\ events' = IF m.kind = "none" THEN events ELSE [events EXCEPT ![m.kind] = @ + 1]
      /\ window' = [r \in Windows |-> IF r \in m.opened THEN "open"
                                      ELSE IF r \in m.closed THEN "complete"
                                      ELSE window[r]]
      /\ waiting' = [s \in Steps |-> IF s \in m.waiters THEN m.wait ELSE waiting[s]]
      /\ tx' = [tx EXCEPT ![w] = NoTx]
      /\ UNCHANGED <<finished, overlapped>>

(* The request dies before it commits.                                     *)
Abort(w) ==
  /\ ~Idle(w)
  /\ tx' = [tx EXCEPT ![w] = NoTx]
  /\ UNCHANGED <<stamps, rounds, events, window, waiting, finished, overlapped>>

(* POST /deliverables/{id}/ready-to-publish stamps whatever the status is, *)
(* and touches neither windows nor steps.                                  *)
MarkReadyToPublish ==
  /\ stamps' = stamps \union {"ready_to_publish_at"}
  /\ Overlaps
  /\ UNCHANGED <<rounds, events, window, waiting, finished, tx>>

(* The step endpoints on a linked step.  A step that is finished stops     *)
(* waiting, unless only its completion date was edited; an open one can be *)
(* made to wait on anybody.                                                *)
ChangeStep(s, done, wait) ==
  /\ wait \in {"none", waiting[s]} \/ (~done /\ wait \in StepWaits)
  /\ waiting' = [waiting EXCEPT ![s] = wait]
  /\ finished' = IF done THEN finished \union {s} ELSE finished \ {s}
  /\ Overlaps
  /\ UNCHANGED <<stamps, rounds, events, window, tx>>

Next ==
  \/ \E w \in Workers :
       \/ \E to \in Targets : Transition(w, to)
       \/ \E k \in Manual : IncrementRound(w, k)
       \/ Commit(w)
       \/ Abort(w)
  \/ MarkReadyToPublish
  \/ \E s \in Steps, done \in BOOLEAN, wait \in Waits : ChangeStep(s, done, wait)

Spec == Init /\ [][Next]_vars

-----------------------------------------------------------------------------
(* How far signed off each status is.                                      *)
SignOff(status) ==
  CASE status = "approved"               -> 1
    [] status = "ready_to_publish"       -> 2
    [] status = "scheduled_or_published" -> 3
    [] status = "complete"               -> 4
    [] OTHER                             -> 0

(* However requests overlap, a deliverable never loses a sign-off: once    *)
(* approved it never shows as under review again, once published never as  *)
(* merely approved.  _current_status has to rank the timestamps for this,  *)
(* as two overlapping answers of the client both leave theirs.             *)
SignOffHolds ==
  [][SignOff(CurrentStatus(stamps')) >= SignOff(CurrentStatus(stamps))]_vars

(* However requests overlap, nothing is approved that the client has not   *)
(* been shown: some client round was opened first.                         *)
ApprovalFollowsReview ==
  "approved_at" \in stamps => rounds["client"] >= 1

(* However requests overlap, a counter never runs ahead of the audit       *)
(* trail, and no window has a number that no event accounts for.           *)
RoundsAreRecorded ==
  \A k \in Kinds :
    /\ rounds[k] <= events[k]
    /\ \A r \in Windows : r[1] = k /\ window[r] # "absent" => r[2] <= events[k]

(* Until requests overlap, the counter is the number of events, and each   *)
(* round up to it has exactly one window, later rounds none: a transition  *)
(* and a manual increment number rounds from the same column.              *)
RoundsAreExact ==
  ~overlapped =>
    \A k \in Kinds :
      /\ events[k] = rounds[k]
      /\ \A n \in Rounds :
           LET rows == {v \in Workers : window[<<k, n, v>>] # "absent"}
           IN  IF n <= rounds[k] THEN \E v \in Workers : rows = {v} ELSE rows = {}

(* The kind of window the ops job watches while a status lasts.            *)
TimedBy(status) ==
  CASE status = "awaiting_internal_review" -> {"internal"}
    [] status = "awaiting_client_review"   -> {"client"}
    [] status = "client_changes_requested" -> {"amends"}
    [] OTHER                               -> {}

(* Until requests overlap, a review that is awaited is timed: the window   *)
(* of its latest round is open, so the ops job sees it when it is overdue. *)
(* Manual increments, which move the latest round, keep it so.             *)
ReviewIsTimed ==
  ~overlapped =>
    \A k \in TimedBy(CurrentStatus(stamps)) :
      \E r \in Windows : r[1] = k /\ r[2] = rounds[k] /\ window[r] = "open"

(* Until requests overlap, the end of a review lifts the waits it put on   *)
(* the steps, whichever way it ends, except through ready-to-publish.      *)
EndOfReviewLiftsWaits ==
  [][ /\ ~overlapped'
      /\ TimedBy(CurrentStatus(stamps)) # {}
      /\ TimedBy(CurrentStatus(stamps')) = {}
      /\ CurrentStatus(stamps') # "ready_to_publish"
      => \A s \in Steps \ finished' : waiting'[s] \in {"none", "dependency"} ]_vars

-----------------------------------------------------------------------------
(* deliverable_workflow_service.py:393 calls the move to "in_progress" the *)
(* resumed flow: once the client has asked for changes, a transition to    *)
(* "in_progress", which RULES lists, puts the deliverable in progress.     *)
ResumeTakesEffect ==
  CurrentStatus(stamps) = "client_changes_requested" =>
    CurrentStatus((stamps \ StampsCleared("in_progress"))
                    \union StampsSet("in_progress")) = "in_progress"

=============================================================================
