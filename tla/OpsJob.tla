-------------------------------- MODULE OpsJob ------------------------------
(***************************************************************************)
(* The ops job: risks, escalations and the capacity ledger                 *)
(* (app/services/ops_job_service.py, campaign_health_service.py,           *)
(* risk_service.py, capacity_override_service.py).                         *)
(*                                                                         *)
(* A run reads the state of one campaign, opens a system risk for every    *)
(* cause that has none, closes the risks whose cause is gone, resolves the *)
(* escalations of closed risks and escalates what is severe or old.  It    *)
(* writes what it has decided when it commits; a run that overlaps it has  *)
(* decided on the same rows.  Escalations are also resolved by hand, and   *)
(* people over capacity get overrides.                                     *)
(*                                                                         *)
(* Dates are bands: how late a step or a review window is, and how long a  *)
(* step has been idle, in the units the code compares with.  Rows nothing  *)
(* reads any more (closed risks without an open escalation) are forgotten. *)
(* The job's stage repair is in WorkflowTxn; the owners and due dates it   *)
(* fills in do not touch risks.                                            *)
(***************************************************************************)
EXTENDS Integers, FiniteSets

CONSTANTS
  Jobs,        \* database sessions in which the job may run
  Steps,       \* open or finished steps of the campaign
  Windows,     \* its review windows
  Loads,       \* what the ledger has rows for: a person's role in a week
  Situations,  \* the states the campaign may be in
  Critical,    \* the steps the template marks as health_critical
  ClientSide,  \* the windows that wait for the client
  DueRank,     \* DueRank[x]: orders steps and windows by due date, then as collected
  StrictSql,   \* does the database refuse a text that is too long?
  MaxCopies,   \* bound: risks of one key, and escalations of one risk
  MaxOverlaps, \* bound: runs begun while another is running
  MaxChanges   \* bound: how often the campaign changes

Dimensions == {"timeliness", "stagnation", "dependency_blockage", "replanning"}

\* A step: late 0 not due, 1 due but no working day has passed, 2 one to four working
\* days, 3 more.  idle: 0 below the step's threshold, 1 at it, 2 at twice it.
Condition == [done : BOOLEAN, late : 0..3, idle : 0..2, pushes : 0..3,
              waiting : {"nobody", "dependency", "others"}]

\* A review window is as late, 0 when it is closed; a load has no hours, hours
\* that fit the weekly capacity, or more.
Situation == [step : [Steps -> Condition], window : [Windows -> 0..3],
              load : [Loads -> {"none", "fits", "over"}]]

Keys == ({"step_overdue", "step_stalled_waiting", "health:checkpoint_health"} \X Steps)
          \union ({"review_window_overdue"} \X Windows)
          \union (Dimensions \X (Steps \union {"campaign"}))
          \union ({"capacity_overload"} \X Loads)

Severity == {"medium", "high", "critical"}
Why == Dimensions \union {"itself"}
Risk == Keys \X (1..MaxCopies)
Escalation == Risk \X (1..MaxCopies)

ASSUME SituationAssumption == Situations \subseteq Situation
ASSUME WorldAssumption == Critical \subseteq Steps /\ ClientSide \subseteq Windows
ASSUME RankAssumption ==
  /\ DueRank \in [Steps \union Windows -> Nat]
  /\ \A x, y \in Steps \union Windows : DueRank[x] = DueRank[y] => x = y
ASSUME KindAssumption == Steps \intersect Windows = {} /\ "campaign" \notin Steps
ASSUME StrictAssumption == StrictSql \in BOOLEAN
ASSUME BoundAssumption == MaxCopies \in Nat /\ MaxOverlaps \in Nat /\ MaxChanges \in Nat

VARIABLES
  now,       \* the state of the campaign
  headOps,   \* is there a head of operations?
  ledger,    \* capacity_ledger
  risks,     \* the system risks that matter, by key and copy
  escalations, \* the unresolved escalations
  job,       \* what each running job will write
  overlaps,  \* number of runs begun while another was running
  changes    \* number of changes of the campaign so far

world == <<now, headOps>>
vars == <<world, ledger, risks, escalations, job, overlaps, changes>>

Row == [open : BOOLEAN, severity : Severity, why : Why, aged : BOOLEAN]
LedgerRow == [known : BOOLEAN, over : BOOLEAN, requested : BOOLEAN, approved : BOOLEAN]

None == [insert |-> {}, change |-> {}, close |-> {}, resolve |-> {}, escalate |-> {},
         alarm |-> {}, hours |-> << >>]
Idle == [running |-> FALSE, plan |-> None]

\* What a run will write; keys and risks come with severity and reason.
IsPlan(p) ==
  /\ DOMAIN p = {"insert", "change", "close", "resolve", "escalate", "alarm", "hours"}
  /\ p.insert \subseteq Keys \X Severity \X Why
  /\ p.change \subseteq Risk \X Severity \X Why
  /\ p.close \subseteq Risk /\ p.resolve \subseteq Escalation
  /\ p.escalate \subseteq Risk /\ p.alarm \subseteq Keys
  /\ DOMAIN p.hours \subseteq Loads /\ \A l \in DOMAIN p.hours : p.hours[l] \in BOOLEAN

TypeOK ==
  /\ now \in Situations
  /\ headOps \in BOOLEAN
  /\ ledger \in [Loads -> LedgerRow]
  /\ DOMAIN risks \subseteq Risk /\ \A r \in DOMAIN risks : risks[r] \in Row
  /\ escalations \subseteq (DOMAIN risks) \X (1..MaxCopies)
  /\ DOMAIN job = Jobs /\ \A j \in Jobs : job[j].running \in BOOLEAN /\ IsPlan(job[j].plan)
  /\ overlaps \in 0..MaxOverlaps
  /\ changes \in 0..MaxChanges

Init ==
  /\ now \in Situations
  /\ headOps \in BOOLEAN
  /\ ledger = [l \in Loads |-> [known |-> FALSE, over |-> FALSE, requested |-> FALSE,
                                approved |-> FALSE]]
  /\ risks = << >>
  /\ escalations = {}
  /\ job = [j \in Jobs |-> Idle]
  /\ overlaps = 0
  /\ changes = 0

-----------------------------------------------------------------------------
(* The health of the campaign.  A signal is on_track, which nothing here   *)
(* acts on, at_risk (2) or off_track (3); 0 stands for less.               *)

Late(x) == IF x \in Steps THEN now.step[x].late ELSE now.window[x]

Timeliness(s) == IF Late(s) = 3 /\ s \in Critical THEN 3 ELSE IF Late(s) >= 2 THEN 2 ELSE 0

Stagnation(s) == IF now.step[s].idle = 0 THEN 0 ELSE now.step[s].idle + 1

DependencyBlockage(s) == IF now.step[s].waiting = "dependency" THEN Stagnation(s) ELSE 0

Replanning(s) == IF now.step[s].pushes >= 3 /\ Late(s) >= 2 THEN 3
                 ELSE IF now.step[s].pushes >= 2 THEN 2 ELSE 0

SignalOf(d, s) == CASE d = "timeliness" -> Timeliness(s)
                    [] d = "stagnation" -> Stagnation(s)
                    [] d = "dependency_blockage" -> DependencyBlockage(s)
                    [] d = "replanning" -> Replanning(s)

\* The order in which the signals are collected.
Order(d) == CASE d = "timeliness" -> 1 [] d = "stagnation" -> 2
              [] d = "dependency_blockage" -> 3 [] d = "replanning" -> 4

OpenSteps == {s \in Steps : ~now.step[s].done}

\* [dimension, where, level, due date, position among the signals]
StepSignals(s) ==
  {[of |-> d, at |-> s, level |-> SignalOf(d, s), due |-> DueRank[s], nth |-> Order(d)] :
     d \in {e \in Dimensions : SignalOf(e, s) >= 2}}

WindowSignals ==
  {[of |-> "timeliness", at |-> "campaign", level |-> Late(w), due |-> DueRank[w], nth |-> 5] :
     w \in {v \in Windows : Late(v) >= 2}}

\* Severity first, then the later due date, then the first one collected.
Before(x, y) ==
  \/ x.level > y.level
  \/ x.level = y.level /\ (x.due > y.due \/ (x.due = y.due /\ x.nth < y.nth))

WorstOf(signals) == {x \in signals : \A y \in signals : ~Before(y, x)}

(* Mutant: what is at risk becomes a risk of low severity.                 *)
GradedLow(level) == IF level = 3 THEN "critical" ELSE "low"

Graded(level) == IF level = 3 THEN "critical" ELSE "medium"

\* health_risk_signals: every checkpoint at its worst, and the worst signal of all.
HealthCauses ==
  {<<<<"health:checkpoint_health", x.at>>, Graded(x.level), x.of>> :
     x \in UNION {WorstOf(StepSignals(s)) : s \in OpenSteps}}
    \union {<<<<x.of, x.at>>, Graded(x.level), x.of>> :
              x \in WorstOf(WindowSignals \union UNION {StepSignals(s) : s \in OpenSteps})}

-----------------------------------------------------------------------------
(* The causes of risks: key, severity and what the health reason says.     *)

\* RiskService.evaluate_step_risk: late counts before stalled.
StepCauses ==
  {<<<<"step_overdue", s>>, "high", "itself">> : s \in {t \in OpenSteps : Late(t) >= 1}}
    \union {<<<<"step_stalled_waiting", s>>, "medium", "itself">> :
              s \in {t \in OpenSteps : /\ Late(t) = 0
                                       /\ now.step[t].waiting # "nobody" /\ now.step[t].idle >= 1}}

WindowCauses ==
  {<<<<"review_window_overdue", w>>,
     IF Late(w) = 3 THEN "critical" ELSE IF w \in ClientSide THEN "high" ELSE "medium",
     "itself">> : w \in {v \in Windows : Late(v) >= 1}}

CapacityCauses ==
  {<<<<"capacity_overload", l>>, "medium", "itself">> :
     l \in {m \in Loads : now.load[m] = "over" /\ ~ledger[m].approved}}

Causes == StepCauses \union WindowCauses \union CapacityCauses \union HealthCauses

-----------------------------------------------------------------------------
(* One run.                                                                *)

OpenRisks(k) == {r \in DOMAIN risks : r[1] = k /\ risks[r].open}
KeysOf(causes) == {c[1] : c \in causes}

\* _is_review_stalled_2x_threshold: it looks the id of a window up among the
\* deliverables, and nothing raises the other codes it knows.
StalledTwice(k) == FALSE

\* A health risk ages by its updated_at, which any change of it renews.
IsHealth(k) == k[1] \in Dimensions \union {"health:checkpoint_health"}
Escalates(k, severity, aged) ==
  \/ severity \in {"high", "critical"}
  \/ IsHealth(k) /\ severity = "medium" /\ aged
  \/ StalledTwice(k)

(* Mutant: the escalations a risk has are not looked up.                   *)
UnresolvedNever(r) == FALSE

Unresolved(r) == \E e \in escalations : e[1] = r

\* _close_resolved_system_risks
ToClose(causes) == {r \in DOMAIN risks : risks[r].open /\ r[1] \notin KeysOf(causes)}

\* A risk as the run sees it once it has set the fields of what it found.
After(change, r) ==
  IF \A c \in change : c[1] # r THEN risks[r]
  ELSE LET c == CHOOSE c \in change : c[1] = r
       IN  [risks[r] EXCEPT !.severity = c[2], !.why = c[3],
                            !.aged = @ /\ risks[r].severity = c[2] /\ risks[r].why = c[3]]

\* What a run writes.  updated says which open risk of a key the upsert found.
\* The risks it closes are still open to the query of the escalations, and the
\* escalations it resolves still unresolved: nothing is flushed in between.
PlanOf(causes, updated) ==
  LET found == {c \in causes : OpenRisks(c[1]) # {}}
      fresh == causes \ found
      change == {<<updated[c[1]], c[2], c[3]>> : c \in found}
      closing == ToClose(causes)
  IN [insert |-> fresh,
      change |-> {c \in change : <<risks[c[1]].severity, risks[c[1]].why>> # <<c[2], c[3]>>},
      close |-> closing,
      resolve |-> {e \in escalations : ~risks[e[1]].open \/ e[1] \in closing},
      escalate |-> IF ~headOps THEN {}
                   ELSE {r \in DOMAIN risks :
                           /\ risks[r].open /\ ~Unresolved(r)
                           /\ Escalates(r[1], After(change, r).severity, After(change, r).aged)},
      alarm |-> IF ~headOps THEN {}
                ELSE {c[1] : c \in {d \in fresh : Escalates(d[1], d[2], FALSE)}},
      hours |-> [l \in {m \in Loads : now.load[m] # "none"} |-> now.load[l] = "over"]]

\* The keys whose open risk the upsert has to find; of several it takes any.
Upserts == LET found == {k \in KeysOf(Causes) : OpenRisks(k) # {}}
           IN  {f \in [found -> DOMAIN risks] : \A k \in found : f[k] \in OpenRisks(k)}

Begin(j) ==
  /\ ~job[j].running
  /\ \E updated \in Upserts :
       job' = [job EXCEPT ![j] = [running |-> TRUE, plan |-> PlanOf(Causes, updated)]]
  /\ overlaps' = overlaps + (IF \E i \in Jobs : job[i].running THEN 1 ELSE 0)
  /\ overlaps' <= MaxOverlaps
  /\ UNCHANGED <<world, ledger, risks, escalations, changes>>

-----------------------------------------------------------------------------
\* The risks another run is going to touch.
Mentioned(j) ==
  LET p == job[j].plan
  IN  p.close \union {c[1] : c \in p.change} \union p.escalate
        \union {e[1] : e \in p.resolve}

Others(j) == UNION {Mentioned(i) : i \in Jobs \ {j}}

FreeCopies(j, k) == {n \in 1..MaxCopies : <<k, n>> \notin DOMAIN risks \union Others(j)}
NewRisk(j, k) == <<k, CHOOSE n \in FreeCopies(j, k) : TRUE>>

FreeMarks(r) == {n \in 1..MaxCopies : <<r, n>> \notin escalations}
NewEscalation(r) == <<r, CHOOSE n \in FreeMarks(r) : TRUE>>

Fits(j) ==
  LET p == job[j].plan
  IN  /\ \A c \in p.insert : FreeCopies(j, c[1]) # {}
      /\ \A r \in p.escalate : FreeMarks(r) # {}

\* The code of a capacity risk is longer than risk_code: a strict database
\* refuses the row, and the whole run with it.
TooLong(p) == StrictSql /\ \E c \in p.insert : c[1][1] = "capacity_overload"

Written(p, r) ==
  LET shown == IF \A c \in p.change : c[1] # r THEN risks[r]
               ELSE LET c == CHOOSE c \in p.change : c[1] = r
                    IN  [risks[r] EXCEPT !.severity = c[2], !.why = c[3], !.aged = FALSE]
  IN  [shown EXCEPT !.open = @ /\ r \notin p.close]

(* Mutant: the escalations of closed risks are left alone.                 *)
ResolvedNone(p) == escalations

Resolved(p) == escalations \ p.resolve

Commit(j) ==
  LET p == job[j].plan
      fresh == {NewRisk(j, c[1]) : c \in p.insert}
      cause(r) == CHOOSE c \in p.insert : c[1] = r[1]
      all == [r \in DOMAIN risks \union fresh |->
                IF r \in fresh THEN [open |-> TRUE, severity |-> cause(r)[2], why |-> cause(r)[3],
                                     aged |-> FALSE]
                ELSE Written(p, r)]
      raised == {NewEscalation(r) : r \in p.escalate \union {NewRisk(j, k) : k \in p.alarm}}
      left == Resolved(p) \union raised
  IN  /\ job[j].running
      /\ Fits(j) /\ ~TooLong(p)
      /\ escalations' = left
      /\ risks' = [r \in {q \in DOMAIN all : \/ all[q].open \/ q \in Others(j)
                                             \/ \E e \in left : e[1] = q} |-> all[r]]
      /\ ledger' = [l \in Loads |-> IF l \in DOMAIN p.hours
                                    THEN [ledger[l] EXCEPT !.known = TRUE, !.over = p.hours[l]]
                                    ELSE ledger[l]]
      /\ job' = [job EXCEPT ![j] = Idle]
      /\ UNCHANGED <<world, overlaps, changes>>

Abort(j) ==
  /\ job[j].running
  /\ job' = [job EXCEPT ![j] = Idle]
  /\ UNCHANGED <<world, ledger, risks, escalations, overlaps, changes>>

-----------------------------------------------------------------------------
(* What happens between the runs.                                          *)

jobUnchanged == UNCHANGED <<job, overlaps>>

Changes == changes < MaxChanges /\ changes' = changes + 1 /\ jobUnchanged
             /\ UNCHANGED <<ledger, risks, escalations>>

CampaignMoves ==
  /\ Changes
  /\ now' \in Situations \ {now}
  /\ UNCHANGED headOps

HeadOpsMoves ==
  /\ Changes
  /\ headOps' = ~headOps
  /\ UNCHANGED now

\* Three working days pass without a run.
DaysPass ==
  /\ \E r \in DOMAIN risks : IsHealth(r[1]) /\ ~risks[r].aged
  /\ risks' = [r \in DOMAIN risks |-> [risks[r] EXCEPT !.aged = IsHealth(r[1])]]
  /\ jobUnchanged /\ UNCHANGED <<world, ledger, escalations, changes>>

\* POST /escalations/{id}/resolve
ResolveByHand(e) ==
  /\ escalations' = escalations \ {e}
  /\ risks' = [r \in {q \in DOMAIN risks : \/ risks[q].open
                                           \/ \E f \in escalations' : f[1] = q
                                           \/ \E j \in Jobs : q \in Mentioned(j)} |-> risks[r]]
  /\ jobUnchanged /\ UNCHANGED <<world, ledger, changes>>

\* CapacityOverrideService.request_override
RequestOverride(l) ==
  /\ ledger[l].known /\ ledger[l].over
  /\ ledger' = [ledger EXCEPT ![l].requested = TRUE, ![l].approved = FALSE]
  /\ jobUnchanged /\ UNCHANGED <<world, risks, escalations, changes>>

\* CapacityOverrideService.decide_override: a request stays decidable for ever.
DecideOverride(l, approve) ==
  /\ ledger[l].requested
  /\ ledger' = [ledger EXCEPT ![l].approved = approve]
  /\ jobUnchanged /\ UNCHANGED <<world, risks, escalations, changes>>

Next ==
  \/ \E j \in Jobs : Begin(j) \/ Commit(j) \/ Abort(j)
  \/ CampaignMoves \/ HeadOpsMoves \/ DaysPass
  \/ \E l \in Loads : RequestOverride(l)
  \/ \E l \in Loads, approve \in BOOLEAN : DecideOverride(l, approve)
  \/ \E e \in escalations : ResolveByHand(e)

Spec == Init /\ [][Next]_vars

-----------------------------------------------------------------------------
(* As long as no two runs overlap, a cause has one open risk and a risk    *)
(* one unresolved escalation (the look-ups before the inserts in           *)
(* _upsert_system_risk and _ensure_escalations).                           *)
OneOfEach ==
  overlaps = 0 =>
    /\ \A k \in Keys : Cardinality(OpenRisks(k)) <= 1
    /\ \A e, f \in escalations : e[1] = f[1] => e = f

\* Nothing a run looked at has changed since it began.
UpToDate(j) == \E updated \in Upserts : job[j].plan = PlanOf(Causes, updated)

Severe(k) == \E c \in Causes : c[1] = k /\ c[2] \in {"high", "critical"}
Escalated(r) == \E e \in escalations : e[1] = r

\* The open risks are those of the causes, and every severe one is escalated.
Settled ==
  /\ \A k \in Keys : OpenRisks(k) # {} <=> k \in KeysOf(Causes)
  /\ headOps => \A k \in Keys : Severe(k) => \E r \in OpenRisks(k) : Escalated(r)

(* A run that commits what is still true leaves only risks that have a     *)
(* cause, all of them, the severe ones escalated: one run is enough to     *)
(* follow any change of the campaign, whatever overlapping runs and people *)
(* left before it.  An escalation may stay with a risk this very run has   *)
(* closed, its queries not seeing what it has written, but not with one    *)
(* that was closed before (run_all).                                       *)
FreshRunSettles ==
  [][\A j \in Jobs : Commit(j) /\ UpToDate(j) =>
       /\ Settled'
       /\ \A e \in escalations' : risks'[e[1]].open \/ risks[e[1]].open]_vars
=============================================================================
