--------------------------- MODULE TimelineHealth ---------------------------
(***************************************************************************)
(* Working days, and the timeline health of a campaign                     *)
(* (app/services/calendar_service.py, timeline_service.py,                 *)
(* timeline_health_service.py), as functions of the rows they read.        *)
(*                                                                         *)
(* Days are numbered from the first day of a week, and what falls before   *)
(* that day falls on it.  The reason that goes with a health and the       *)
(* buffer shown with it are left out, and the number of buffer days, which *)
(* the configuration gives by kind and by name, is a constant of each row. *)
(***************************************************************************)
EXTENDS Integers, FiniteSets, FiniteSetsExt, Functions

CONSTANTS
  WorkingWeek,     \* the days of a week that are worked, of 0..6
  Holidays,        \* the days that are not, whichever day of the week
  Steps, Stages, Deliverables,
  StageOf,         \* StageOf[s]: the stage of step s
  DeliverableOf,   \* DeliverableOf[s]: its deliverable, or NoDeliverable
  NoDeliverable,
  Hours,           \* Hours[s]: planned_hours of s
  OwnCapacity,     \* OwnCapacity[s]: weekly hours of the role that owns s ...
  EffortCapacity,  \* ... and, added up, of the roles of its efforts
  ManagerCapacity, \* weekly hours of a campaign manager
  TeamCapacity,    \* weekly hours of everybody assigned to the campaign
  Buffer           \* Buffer[x]: buffer days of a step, a stage, ...

NoDay == -1
NoDeliverables == Deliverables = {}
Rows == Steps \union Stages \union Deliverables \union {"campaign"}

ASSUME CalendarAssumption ==
  /\ WorkingWeek \subseteq 0..6 /\ WorkingWeek # {}
  /\ Holidays \subseteq Nat /\ IsFiniteSet(Holidays)
ASSUME WorkAssumption ==
  /\ IsFiniteSet(Steps) /\ IsFiniteSet(Deliverables)
  /\ StageOf \in [Steps -> Stages] /\ NoDeliverable \notin Deliverables
  /\ DeliverableOf \in [Steps -> Deliverables \union {NoDeliverable}]
  /\ Hours \in [Steps -> Nat] /\ OwnCapacity \in [Steps -> Nat] /\ EffortCapacity \in [Steps -> Nat]
  /\ ManagerCapacity \in Nat /\ TeamCapacity \in Nat /\ Buffer \in [Rows -> Nat]

-----------------------------------------------------------------------------
(* The calendar.                                                           *)

IsWorkingDay(d) == d % 7 \in WorkingWeek /\ d \notin Holidays
Working == {d \in Nat : IsWorkingDay(d)}

LastHoliday == Max(Holidays \union {0})

(* Mutant: a day off is kept.                                              *)
NextWorkingDaySame(d) == d

\* next_working_day_on_or_after: there is one in the week after the last holiday.
NextWorkingDay(d) ==
  LET from == Max({d, 0})
  IN  Min({e \in from..(from + LastHoliday + 7) : IsWorkingDay(e)})

\* working_days_between: the days after start, up to end.
WorkingDaysBetween(start, end) ==
  IF start <= end THEN Cardinality({d \in (start + 1)..end : IsWorkingDay(d)})
  ELSE -Cardinality({d \in (end + 1)..start : IsWorkingDay(d)})

\* add_working_days
AddWorkingDays(start, days) ==
  LET after[n \in 0..days] == IF n = 0 THEN start ELSE NextWorkingDay(after[n - 1] + 1)
  IN  after[days]

-----------------------------------------------------------------------------
(* The health of one row.                                                  *)

\* The first date that is set; the earliest and the latest of several.
OrElse(d, e) == IF d # NoDay THEN d ELSE e
Earliest(days) == IF days \subseteq {NoDay} THEN NoDay ELSE Min(days \ {NoDay})
Latest(days) == IF days \subseteq {NoDay} THEN NoDay ELSE Max(days)

\* SEVERITY_ORDER; "none" is the worst of no rows.
Rank(health) == CASE health = "none" -> -1 [] health = "not_started" -> 0
                  [] health = "on_track" -> 1 [] health = "at_risk" -> 2 [] health = "off_track" -> 3

\* _worst
Worst(healths) == IF healths = {} THEN "none"
                  ELSE CHOOSE h \in healths : \A g \in healths : Rank(g) <= Rank(h)

\* _rollup_guard
Guarded(worst) == IF worst \in {"at_risk", "off_track"} THEN worst ELSE "on_track"

\* _daily_capacity, four times over: the days of a week the code divides by.
FourDaysCapacity(weekly) == IF weekly < 4 THEN 4 ELSE weekly
NobodysCapacity == 32

(* Mutant: days after the due date count like days before it.              *)
EvaluateWindowLate(today, w) ==
  LET between == WorkingDaysBetween(today, w.due)
      left == IF between < 0 THEN -between ELSE between
  IN  IF w.start = NoDay \/ w.due = NoDay THEN "at_risk"
      ELSE IF today < w.start THEN "not_started"
      ELSE IF w.closed THEN Guarded(w.worst)
      ELSE IF left * w.capacity < 4 * w.hours \/ left < w.needs THEN "off_track"
      ELSE IF left <= w.buffer THEN "at_risk"
      ELSE Guarded(w.worst)

\* _evaluate_window
EvaluateWindow(today, w) ==
  IF w.start = NoDay \/ w.due = NoDay THEN "at_risk"
  ELSE IF today < w.start THEN "not_started"
  ELSE IF w.closed THEN Guarded(w.worst)
  ELSE LET between == WorkingDaysBetween(today, w.due)
           left == IF between < 0 THEN 0 ELSE between
       IN  IF today > w.due \/ left * w.capacity < 4 * w.hours \/ left < w.needs THEN "off_track"
           ELSE IF left <= w.buffer THEN "at_risk"
           ELSE Guarded(w.worst)

-----------------------------------------------------------------------------
(* Steps, deliverables, stages and the campaign.  In what follows step,    *)
(* stage, deliverable and campaign are the rows.                           *)

Open(step, some) == {s \in some : step[s].done = NoDay}
HoursLeft(step, some) == SumFunctionOnSet(Hours, Open(step, some))
EffortLeft(step, some) == SumFunctionOnSet(EffortCapacity, Open(step, some))

StepHealth(today, campaign, step, s) ==
  LET row == step[s]
  IN EvaluateWindow(today,
       [start |-> OrElse(row.earliest, OrElse(row.start, OrElse(row.baseStart, campaign.start))),
        due |-> OrElse(row.due, OrElse(row.baseDue, campaign.end)),
        closed |-> row.done # NoDay \/ row.status # "open",
        hours |-> HoursLeft(step, {s}), needs |-> 0,
        capacity |-> FourDaysCapacity(OwnCapacity[s]), buffer |-> Buffer[s], worst |-> "none"])

\* _step_turnaround_days
Turnaround(campaign, row) ==
  LET baseline == row.baseStart # NoDay /\ row.baseDue # NoDay
      from == IF baseline THEN row.baseStart ELSE OrElse(row.start, campaign.start)
      to   == IF baseline THEN row.baseDue ELSE OrElse(row.due, campaign.end)
  IN  IF from = NoDay \/ to = NoDay THEN 1 ELSE Max({1, WorkingDaysBetween(from, to)})

TurnaroundLeft(campaign, step, some) ==
  SumFunctionOnSet([s \in Steps |-> Turnaround(campaign, step[s])], Open(step, some))

StepsOf(d) == {s \in Steps : DeliverableOf[s] = d}
Inside(g) == {s \in Steps : StageOf[s] = g}

DeliverableHealth(today, campaign, step, deliverable, d) ==
  LET row == deliverable[d]
      mine == StepsOf(d)
      starts == Earliest(UNION {{step[s].start, step[s].baseStart} : s \in mine})
  IN EvaluateWindow(today,
       [start |-> OrElse(starts, campaign.start),
        due |-> OrElse(row.due, OrElse(row.baseDue,
                  OrElse(Latest({step[s].due : s \in mine}), campaign.end))),
        closed |-> row.published,
        hours |-> HoursLeft(step, mine), needs |-> 0,
        capacity |-> IF Open(step, mine) = {} THEN NobodysCapacity
                     ELSE FourDaysCapacity(EffortLeft(step, mine)),
        buffer |-> Buffer[d],
        worst |-> Worst({StepHealth(today, campaign, step, s) : s \in mine})])

StageHealth(today, campaign, step, stage, g) ==
  LET row == stage[g]
      mine == Inside(g)
  IN EvaluateWindow(today,
       [start |-> OrElse(row.start, OrElse(row.baseStart, campaign.start)),
        due |-> OrElse(row.due, OrElse(row.baseDue, campaign.end)),
        closed |-> row.status # "open",
        hours |-> HoursLeft(step, mine), needs |-> TurnaroundLeft(campaign, step, mine),
        capacity |-> FourDaysCapacity(IF Open(step, mine) = {} THEN ManagerCapacity
                                      ELSE EffortLeft(step, mine)),
        buffer |-> Buffer[g],
        worst |-> Worst({StepHealth(today, campaign, step, s) : s \in mine})])

\* The day the campaign's own window begins.
CampaignStart(campaign, deliverable) ==
  OrElse(campaign.start, Earliest({deliverable[d].due : d \in Deliverables}))

\* A stage off track takes the campaign with it, whatever its own window says;
\* anything else below it can only put it at risk.
CampaignHealth(today, campaign, step, stage, deliverable) ==
  LET own == EvaluateWindow(today,
               [start |-> CampaignStart(campaign, deliverable),
                due |-> OrElse(campaign.end, Latest({deliverable[d].due : d \in Deliverables})),
                closed |-> campaign.status # "open",
                hours |-> HoursLeft(step, Steps), needs |-> TurnaroundLeft(campaign, step, Steps),
                capacity |-> FourDaysCapacity(TeamCapacity), buffer |-> Buffer["campaign"],
                worst |-> "none"])
      stages == {StageHealth(today, campaign, step, stage, g) : g \in Stages}
      others == IF NoDeliverables THEN {StepHealth(today, campaign, step, s) : s \in Steps}
                ELSE {DeliverableHealth(today, campaign, step, deliverable, d) : d \in Deliverables}
  IN  IF "off_track" \in stages THEN "off_track"
      ELSE IF own = "on_track" /\ {"at_risk", "off_track"} \intersect (stages \union others) # {}
        THEN "at_risk"
      ELSE own
=============================================================================
