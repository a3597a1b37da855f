----------------------------- MODULE StepDates -----------------------------
(***************************************************************************)
(* The dates of steps, as functions of the rows: what completing or        *)
(* rescheduling a step does to those after it                              *)
(* (app/services/workflow_engine_service.py), and how the repair of a      *)
(* campaign times the steps of its template again and spreads its          *)
(* publications (app/services/stage_integrity_service.py).                 *)
(*                                                                         *)
(* Statuses are abstracted to what health asks of them: open, done or      *)
(* cancelled.  The steps of the template are taken to exist.               *)
(***************************************************************************)
EXTENDS TimelineHealth, Sequences, SequencesExt

CONSTANTS
  Preds,           \* Preds[s]: the predecessors of step s
  RowOrders,       \* the orders in which a query may return the steps
  Templated,       \* the promotion and reporting steps of the template, in its order
  Needs,           \* Needs[s]: those of Preds[s] that the template names
  Lasting,         \* Lasting[s]: working days the template gives step s
  Milestones,
  AnchorsOf,       \* AnchorsOf[s]: the milestones that may anchor it, the first preferred
  Reporting,       \* the steps of the reporting stage
  Publishing,      \* the steps that publish an article or a video, in their order
  Socials,         \* Socials[s]: the social promotion that follows publishing step s
  ContentReviews,  \* the steps at which the client reviews the content
  CreatedOn        \* the day the campaign was created

ASSUME StepsAssumption ==
  /\ Preds \in [Steps -> SUBSET Steps] /\ \A s \in Steps : s \notin Preds[s]
  /\ RowOrders \subseteq Seq(Steps) /\ \A order \in RowOrders : ToSet(order) = Steps
ASSUME TemplateAssumption ==
  /\ Templated \in Seq(Steps) /\ Publishing \in Seq(Steps)
  /\ ContentReviews \subseteq Steps /\ Reporting \subseteq Steps
  /\ \A s \in Steps : Needs[s] \subseteq Preds[s] /\ Lasting[s] \in Nat \ {0}
                      /\ AnchorsOf[s] \in Seq(Milestones) /\ Socials[s] \in Seq(Steps)
  /\ CreatedOn \in Nat /\ IsFiniteSet(Milestones)

AnyDay == Nat \union {NoDay}
Closing == {"open", "done", "cancelled"}

\* A recalculation under way: the rows, and the steps visited.
StepRow == [start : AnyDay, due : AnyDay, baseStart : AnyDay, baseDue : AnyDay,
            earliest : AnyDay, done : AnyDay, status : Closing]
Chain == [step : [Steps -> StepRow], visited : SUBSET Steps]

-----------------------------------------------------------------------------
(* The steps after a step.                                                 *)

\* _duration_working_days
Duration(row) ==
  IF row.baseStart = NoDay \/ row.baseDue = NoDay THEN 1
  ELSE Max({1, WorkingDaysBetween(row.baseStart, row.baseDue)})

WithDue(row) ==
  IF row.due # NoDay THEN row
  ELSE [row EXCEPT !.due = NextWorkingDay(AddWorkingDays(row.start, Duration(row)))]

\* When a step ends, as far as those after it can tell.
Finish(row) == OrElse(row.done, row.due)

\* What one visit of the chain does to t.
Rescheduled(today, step, t) ==
  LET ends == {Finish(step[p]) : p \in Preds[t]} \ {NoDay}
      from == IF ends # {} THEN Max(ends) ELSE OrElse(step[t].start, today)
      first == NextWorkingDay(from)
  IN  WithDue([step[t] EXCEPT !.earliest = first,
                              !.start = IF @ < first THEN first ELSE @])

\* The step s is visited; t is one after it.
Follows(step, s, t) == s \in Preds[t] /\ step[t].done = NoDay
Marked(chain, s) == [chain EXCEPT !.visited = @ \union {s}]
Pushed(today, chain, t) == [chain EXCEPT !.step[t] = Rescheduled(today, chain.step, t)]

(* Mutant: a step that was visited is not rescheduled again.               *)
VisitOnce(today, order) ==
  LET visit[n \in 0..Cardinality(Steps)] ==
        [chain \in Chain |-> [s \in Steps |->
           IF n = 0 \/ s \in chain.visited THEN chain
           ELSE FoldLeft(LAMBDA acc, t :
                           IF ~Follows(acc.step, s, t) \/ t \in acc.visited THEN acc
                           ELSE visit[n - 1][Pushed(today, acc, t)][t],
                         Marked(chain, s), order)]]
  IN  visit[Cardinality(Steps)]

\* _recalculate_successor_chain: depth first; a step that was visited is
\* rescheduled again, but not those after it.  No call of it is nested deeper
\* than there are steps.
Visit(today, order) ==
  LET visit[n \in 0..Cardinality(Steps)] ==
        [chain \in Chain |-> [s \in Steps |->
           IF n = 0 \/ s \in chain.visited THEN chain
           ELSE FoldLeft(LAMBDA acc, t : IF ~Follows(acc.step, s, t) THEN acc
                                         ELSE visit[n - 1][Pushed(today, acc, t)][t],
                         Marked(chain, s), order)]]
  IN  visit[Cardinality(Steps)]

Recalculated(today, step, s, order) ==
  Visit(today, order)[[step |-> step, visited |-> {}]][s].step

Ready(step, t) == \A p \in Preds[t] : step[p].done # NoDay

\* _activate_successors
Activate(today, step, s, t, order) ==
  IF ~Follows(step, s, t) THEN step
  ELSE IF ~Ready(step, t) THEN [step EXCEPT ![t].status = "open"]
  ELSE LET begin == NextWorkingDay(Max({step[t].start, step[s].done}))
       IN  Recalculated(today, [step EXCEPT ![t] = WithDue([@ EXCEPT
             !.start = begin, !.earliest = begin, !.status = "open"])], t, order)

Activated(today, step, s, order) ==
  FoldLeft(LAMBDA acc, t : Activate(today, acc, s, t, order), step, order)

-----------------------------------------------------------------------------
(* The dates a request sets on one step.                                   *)

\* What override_step_due does to the step itself.
Moved(today, row, day) ==
  LET begin == OrElse(row.start, NextWorkingDay(today))
  IN  [row EXCEPT !.start = begin, !.due = NextWorkingDay(day), !.earliest = OrElse(@, begin)]

Blank == -2   \* a completion date that is given and blank

\* The date fields of manage_step; NoDay is a field that is absent.
WithDates(today, row, edit) ==
  LET begun == IF edit.start = NoDay THEN row
               ELSE [row EXCEPT !.start = NextWorkingDay(edit.start), !.earliest = NextWorkingDay(edit.start)]
      ended == IF edit.due = NoDay THEN begun ELSE Moved(today, begun, edit.due)
      ordered == IF ended.start # NoDay /\ ended.due # NoDay /\ ended.due < ended.start
                   THEN [ended EXCEPT !.due = ended.start] ELSE ended
  IN  IF edit.completion = NoDay THEN ordered
      ELSE IF edit.completion = Blank THEN [ordered EXCEPT !.done = NoDay]
      ELSE [ordered EXCEPT !.done = NextWorkingDay(edit.completion), !.status = "done"]

\* The status actions of manage_step other than done.  The steps they reopen get
\* a start ("begun") or not ("waiting"); "unblocked" keeps the completion.
WithStatus(today, row, status) ==
  CASE status = "none"      -> row
    [] status = "cancelled" -> [row EXCEPT !.done = today, !.status = "cancelled"]
    [] status = "waiting"   -> [row EXCEPT !.done = NoDay, !.status = "open"]
    [] status = "unblocked" -> [row EXCEPT !.status = "open"]
    [] status = "begun"     -> [row EXCEPT !.done = NoDay, !.status = "open",
                                           !.start = OrElse(@, NextWorkingDay(today))]

-----------------------------------------------------------------------------
(* The repair of a campaign.                                               *)

Anchor(campaign, milestone, s) ==
  LET first == SelectInSeq(AnchorsOf[s], LAMBDA m : milestone[m].due # NoDay)
      end == IF s \in Reporting THEN campaign.end ELSE NoDay
  IN  IF first # 0 THEN milestone[AnchorsOf[s][first]].due
      ELSE OrElse(end, OrElse(campaign.start, CreatedOn))

Window(row, begin, due) ==
  [row EXCEPT !.baseStart = begin, !.start = begin, !.baseDue = due, !.due = due]

(* Mutant: a step is never timed earlier than it was.                      *)
RetimedStepForward(campaign, milestone, step, s) ==
  LET begin == Max({step[s].start, OrElse(Latest({step[p].due : p \in Needs[s]}),
                                          Anchor(campaign, milestone, s))})
  IN  [step EXCEPT ![s] = Window(@, begin, AddWorkingDays(begin, Lasting[s]))]

\* _retime_step, whatever was planned by hand and whether or not the step is done.
RetimedStep(campaign, milestone, step, s) ==
  LET begin == OrElse(Latest({step[p].due : p \in Needs[s]}), Anchor(campaign, milestone, s))
  IN  [step EXCEPT ![s] = Window(@, begin, AddWorkingDays(begin, Lasting[s]))]

\* Each step of the template in turn.
Retimed(campaign, milestone, step) ==
  FoldLeft(LAMBDA acc, s : RetimedStep(campaign, milestone, acc, s), step, Templated)

\* A publication, or a social promotion, on one day.
OnDay(row, begin) == Window(row, begin, NextWorkingDay(AddWorkingDays(begin, 1)))
Placed(today, step, s, begin, order) ==
  IF OnDay(step[s], begin) = step[s] THEN step
  ELSE Recalculated(today, [step EXCEPT ![s] = OnDay(@, begin)], s, order)

StartOf(row) == OrElse(row.start, row.baseStart)
EndOf(row) == OrElse(row.due, OrElse(row.baseDue, StartOf(row)))

\* The publications still to come, the day to spread them from, and the first of
\* those that are left.
ToPublish(step) == {s \in ToSet(Publishing) : step[s].done = NoDay}
SpreadFrom(today, campaign, step) ==
  OrElse(Latest({EndOf(step[r]) : r \in ContentReviews}),
    OrElse(Earliest({StartOf(step[s]) : s \in ToPublish(step)}), OrElse(campaign.start, today)))
PlaceIn(publishing, s) == SelectInSeq(publishing, LAMBDA t : t = s)
Sooner(step, anchor, s, t) ==
  LET key(x) == OrElse(StartOf(step[x]), anchor)
  IN  \/ key(s) < key(t)
      \/ key(s) = key(t) /\ PlaceIn(Publishing, s) < PlaceIn(Publishing, t)
First(step, anchor, left) == CHOOSE s \in left : \A t \in left \ {s} : Sooner(step, anchor, s, t)

\* The social promotions that follow the publication s.
Promoted(today, step, s, order) ==
  FoldLeft(LAMBDA acc, t : IF step[t].done # NoDay THEN acc
                           ELSE Placed(today, acc, t, NextWorkingDay(step[s].due), order),
           step, Socials[s])

\* The publication whose turn it is, if any is left, weeks after the anchor; was are
\* the rows the order of the publications was read from.
Spread(today, was, anchor, acc, weeks, order) ==
  LET s == First(was, anchor, acc.left)
      begin == NextWorkingDay(Max({EndOf(acc.step[p]) : p \in Preds[s]}
                                    \union {NextWorkingDay(anchor + 7 * weeks)}))
  IN  IF acc.left = {} THEN acc
      ELSE [step |-> IF OnDay(acc.step[s], begin) = acc.step[s] THEN acc.step
                     ELSE Promoted(today, Placed(today, acc.step, s, begin, order), s, order),
            left |-> acc.left \ {s}]

\* _stagger_publish_steps_for_campaign: one publication a week from the content
\* review on, each followed by its social promotion if it moved.
Staggered(today, campaign, step, order) ==
  LET anchor == SpreadFrom(today, campaign, step)
  IN  IF Cardinality(ToPublish(step)) <= 1 THEN step
      ELSE FoldLeft(LAMBDA acc, i : Spread(today, step, anchor, acc, i - 1, order),
                    [step |-> step, left |-> ToPublish(step)], [i \in DOMAIN Publishing |-> i]).step

Reconciled(today, campaign, milestone, step, order) ==
  Staggered(today, campaign, Retimed(campaign, milestone, step), order)

-----------------------------------------------------------------------------
(* What the repair asks of a template if it is to settle.                  *)

Template == ToSet(Templated)
Publications == ToSet(Publishing)

(* No step of the template comes before one it needs, or twice.            *)
TemplateInOrder ==
  \A i, j \in 1..Len(Templated) :
    i <= j => /\ Templated[j] \notin Needs[Templated[i]]
              /\ Templated[j] = Templated[i] => i = j

(* The publications and their promotions are steps of the template, and    *)
(* what comes after a step of the template is one.                         *)
TemplateIsClosed ==
  /\ Publications \subseteq Template
  /\ \A s \in Publications : ToSet(Socials[s]) \subseteq Template
  /\ \A s \in Template, t \in Steps : s \in Preds[t] => t \in Template
=============================================================================
