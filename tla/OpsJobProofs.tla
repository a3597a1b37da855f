----------------------------- MODULE OpsJobProofs ----------------------------
(***************************************************************************)
(* OpsJob for any sessions, steps, windows, loads and bounds: nothing is   *)
(* doubled until runs overlap, and a run that is up to date when it        *)
(* commits settles the risks, whatever overlapping runs did before it.     *)
(***************************************************************************)
EXTENDS OpsJob, FiniteSetTheorems, TLAPS

(* A plan mentions only risks that exist, and raises the alarm only for    *)
(* risks it opens.                                                         *)
PlanHolds(j) ==
  /\ Mentioned(j) \subseteq DOMAIN risks
  /\ \A k \in job[j].plan.alarm : \E c \in job[j].plan.insert : c[1] = k

(* Until runs overlap there is one, and what it found missing still is.    *)
Alone ==
  overlaps = 0 =>
    /\ \A i, j \in Jobs : job[i].running /\ job[j].running => i = j
    /\ \A j \in Jobs : job[j].running =>
         /\ \A c \in job[j].plan.insert : OpenRisks(c[1]) = {}
         /\ \A r \in job[j].plan.escalate : ~Unresolved(r)

(* OneOfEach without counting.                                             *)
NoneDoubled ==
  overlaps = 0 =>
    /\ \A q, r \in DOMAIN risks : risks[q].open /\ risks[r].open /\ q[1] = r[1] => q = r
    /\ \A e, f \in escalations : e[1] = f[1] => e = f

IInv ==
  /\ TypeOK
  /\ \A j \in Jobs : PlanHolds(j)
  /\ Alone
  /\ NoneDoubled

-----------------------------------------------------------------------------
(* The causes a run can find.                                              *)

Signal == [of : Dimensions, at : Steps \union {"campaign"}, level : {2, 3},
           due : Nat, nth : 1..5]

LEMMA SituationFacts ==
  ASSUME TypeOK
  PROVE  /\ \A s \in Steps : now.step[s] \in Condition
         /\ \A w \in Windows : now.window[w] \in 0..3
BY SituationAssumption DEF TypeOK, Situation

LEMMA LevelOfSignal ==
  ASSUME TypeOK, NEW s \in Steps, NEW d \in Dimensions, SignalOf(d, s) >= 2
  PROVE  SignalOf(d, s) \in {2, 3}
<1>1. now.step[s].late \in 0..3 /\ now.step[s].idle \in 0..2 /\ Late(s) = now.step[s].late
  BY SituationFacts DEF Condition, Late
<1>2. /\ Timeliness(s) \in {0, 2, 3} /\ Stagnation(s) \in {0, 2, 3}
      /\ Replanning(s) \in {0, 2, 3}
  BY <1>1 DEF Timeliness, Stagnation, Replanning
<1>3. DependencyBlockage(s) \in {0, 2, 3}
  BY <1>2 DEF DependencyBlockage
<1>4. SignalOf(d, s) \in {0, 2, 3}
  BY <1>2, <1>3 DEF SignalOf, Dimensions
<1>. QED  BY <1>4

LEMMA StepSignalFacts ==
  ASSUME TypeOK, NEW s \in Steps
  PROVE  /\ StepSignals(s) \subseteq Signal
         /\ \A x \in StepSignals(s) : x.at = s /\ x.due = DueRank[s] /\ x.nth \in 1..4
         /\ \A x, y \in StepSignals(s) : x.nth = y.nth => x = y
<1>1. DueRank[s] \in Nat
  BY RankAssumption
<1>2. \A d \in Dimensions : Order(d) \in 1..4
  BY DEF Order, Dimensions
<1>3. \A d, e \in Dimensions : Order(d) = Order(e) => d = e
  BY DEF Order, Dimensions
<1>4. ASSUME NEW x \in StepSignals(s)
      PROVE  \E d \in Dimensions : /\ SignalOf(d, s) \in {2, 3}
                                   /\ x = [of |-> d, at |-> s, level |-> SignalOf(d, s),
                                           due |-> DueRank[s], nth |-> Order(d)]
  BY <1>4, LevelOfSignal DEF StepSignals
<1>5. ASSUME NEW x \in StepSignals(s)
      PROVE  x \in Signal /\ x.at = s /\ x.due = DueRank[s] /\ x.nth \in 1..4
  <2>1. PICK d \in Dimensions : /\ SignalOf(d, s) \in {2, 3}
                                /\ x = [of |-> d, at |-> s, level |-> SignalOf(d, s),
                                        due |-> DueRank[s], nth |-> Order(d)]
    BY <1>4
  <2>2. Order(d) \in 1..4 /\ Order(d) \in 1..5
    BY <1>2
  <2>. QED  BY <1>1, <2>1, <2>2 DEF Signal
<1>6. ASSUME NEW x \in StepSignals(s), NEW y \in StepSignals(s), x.nth = y.nth  PROVE x = y
  BY <1>3, <1>4, <1>6
<1>. QED  BY <1>5, <1>6

LEMMA WindowSignalFacts ==
  ASSUME TypeOK
  PROVE  /\ WindowSignals \subseteq Signal
         /\ \A x \in WindowSignals : /\ x.of = "timeliness" /\ x.at = "campaign" /\ x.nth = 5
                                     /\ \E w \in Windows : x.due = DueRank[w]
<1>1. ASSUME NEW w \in Windows, Late(w) >= 2  PROVE Late(w) \in {2, 3} /\ DueRank[w] \in Nat
  <2>1. w \notin Steps
    BY KindAssumption
  <2>. QED  BY <1>1, <2>1, SituationFacts, RankAssumption DEF Late
<1>2. ASSUME NEW x \in WindowSignals
      PROVE  /\ x \in Signal /\ x.of = "timeliness" /\ x.at = "campaign" /\ x.nth = 5
             /\ \E w \in Windows : x.due = DueRank[w]
  <2>1. PICK w \in Windows : /\ Late(w) >= 2
                             /\ x = [of |-> "timeliness", at |-> "campaign", level |-> Late(w),
                                     due |-> DueRank[w], nth |-> 5]
    BY <1>2 DEF WindowSignals
  <2>. QED  BY <1>1, <2>1 DEF Signal, Dimensions
<1>. QED  BY <1>2

AllSignals == WindowSignals \union UNION {StepSignals(s) : s \in OpenSteps}

(* Of the signals of one step, one is worst; of all, those of one place.   *)
LEMMA WorstIsOne ==
  ASSUME TypeOK
  PROVE  /\ \A s \in Steps : \A x, y \in WorstOf(StepSignals(s)) : x = y
         /\ \A x, y \in WorstOf(AllSignals) : x.of = y.of /\ x.at = y.at /\ x.level = y.level
<1>1. ASSUME NEW x \in Signal, NEW y \in Signal, ~Before(x, y), ~Before(y, x)
      PROVE  x.level = y.level /\ x.due = y.due /\ x.nth = y.nth
  BY <1>1 DEF Before, Signal
<1>2. ASSUME NEW s \in Steps, NEW x \in WorstOf(StepSignals(s)), NEW y \in WorstOf(StepSignals(s))
      PROVE  x = y
  <2>1. x \in StepSignals(s) /\ y \in StepSignals(s) /\ ~Before(x, y) /\ ~Before(y, x)
    BY <1>2 DEF WorstOf
  <2>. QED  BY <1>1, <2>1, StepSignalFacts
<1>3. ASSUME NEW x \in WorstOf(AllSignals), NEW y \in WorstOf(AllSignals)
      PROVE  x.of = y.of /\ x.at = y.at /\ x.level = y.level
  <2>1. x \in AllSignals /\ y \in AllSignals /\ ~Before(x, y) /\ ~Before(y, x)
    BY <1>3 DEF WorstOf
  <2>2. AllSignals \subseteq Signal
    BY StepSignalFacts, WindowSignalFacts DEF AllSignals, OpenSteps
  <2>3. x.level = y.level /\ x.due = y.due /\ x.nth = y.nth
    BY <1>1, <2>1, <2>2
  <2>4. CASE x \in WindowSignals /\ y \in WindowSignals
    BY <2>3, <2>4, WindowSignalFacts
  <2>5. CASE x \notin WindowSignals /\ y \notin WindowSignals
    <3>1. PICK s \in Steps, t \in Steps : x \in StepSignals(s) /\ y \in StepSignals(t)
      BY <2>1, <2>5 DEF AllSignals, OpenSteps
    <3>2. s = t
      BY <2>3, <3>1, StepSignalFacts, RankAssumption
    <3>3. x = y
      BY <2>3, <3>1, <3>2, StepSignalFacts
    <3>. QED  BY <3>3
  <2>6. CASE x \in WindowSignals /\ y \notin WindowSignals
    <3>1. PICK t \in Steps : y \in StepSignals(t)
      BY <2>1, <2>6 DEF AllSignals, OpenSteps
    <3>. QED  BY <2>3, <2>6, <3>1, StepSignalFacts, WindowSignalFacts
  <2>7. CASE x \notin WindowSignals /\ y \in WindowSignals
    <3>1. PICK t \in Steps : x \in StepSignals(t)
      BY <2>1, <2>7 DEF AllSignals, OpenSteps
    <3>. QED  BY <2>3, <2>7, <3>1, StepSignalFacts, WindowSignalFacts
  <2>. QED  BY <2>4, <2>5, <2>6, <2>7
<1>. QED  BY <1>2, <1>3

WorstSignals == UNION {WorstOf(StepSignals(s)) : s \in OpenSteps}

LEMMA HealthCausesAre ==
  HealthCauses =
    {<<<<"health:checkpoint_health", x.at>>, Graded(x.level), x.of>> : x \in WorstSignals}
      \union {<<<<x.of, x.at>>, Graded(x.level), x.of>> : x \in WorstOf(AllSignals)}
BY DEF HealthCauses, WorstSignals, AllSignals

LEMMA SignalsTyped ==
  ASSUME TypeOK
  PROVE  /\ WorstSignals \subseteq Signal /\ \A x \in WorstSignals : x.at \in Steps
         /\ WorstOf(AllSignals) \subseteq Signal
         /\ \A x \in Signal : Graded(x.level) \in Severity
<1>1. AllSignals \subseteq Signal
  BY StepSignalFacts, WindowSignalFacts DEF AllSignals, OpenSteps
<1>2. \A x \in WorstSignals : x \in Signal /\ x.at \in Steps
  BY StepSignalFacts DEF WorstSignals, WorstOf, OpenSteps
<1>. QED  BY <1>1, <1>2 DEF WorstOf, Graded, Severity

Cause == Keys \X Severity \X Why

(* The causes are well typed, whatever the state of the campaign.          *)
LEMMA CausesTyped ==
  ASSUME TypeOK
  PROVE  Causes \subseteq Cause
<1>1. StepCauses \subseteq Cause
  BY DEF StepCauses, OpenSteps, Cause, Keys, Severity, Why
<1>2. WindowCauses \subseteq Cause
  BY DEF WindowCauses, Cause, Keys, Severity, Why
<1>3. CapacityCauses \subseteq Cause
  BY DEF CapacityCauses, Cause, Keys, Severity, Why
<1>4. HealthCauses \subseteq Cause
  <2>1. ASSUME NEW x \in WorstSignals
        PROVE  <<<<"health:checkpoint_health", x.at>>, Graded(x.level), x.of>> \in Cause
    BY <2>1, SignalsTyped DEF Signal, Cause, Keys, Why
  <2>2. ASSUME NEW x \in WorstOf(AllSignals)
        PROVE  <<<<x.of, x.at>>, Graded(x.level), x.of>> \in Cause
    BY <2>2, SignalsTyped DEF Signal, Cause, Keys, Why
  <2>. QED  BY <2>1, <2>2, HealthCausesAre
<1>. QED  BY <1>1, <1>2, <1>3, <1>4 DEF Causes

(* A key has at most one cause: the scans never disagree about a risk.     *)
LEMMA CausesUnique ==
  ASSUME TypeOK, NEW c \in Causes, NEW d \in Causes, c[1] = d[1]
  PROVE  c = d
<1>. DEFINE InStep(e) == /\ e[1][1] \in {"step_overdue", "step_stalled_waiting"}
                         /\ e = IF e[1][1] = "step_overdue"
                                THEN <<<<"step_overdue", e[1][2]>>, "high", "itself">>
                                ELSE <<<<"step_stalled_waiting", e[1][2]>>, "medium", "itself">>
            InWindow(e) == /\ e[1][1] = "review_window_overdue"
                           /\ e = <<<<"review_window_overdue", e[1][2]>>,
                                    IF Late(e[1][2]) = 3 THEN "critical"
                                    ELSE IF e[1][2] \in ClientSide THEN "high" ELSE "medium",
                                    "itself">>
            InCapacity(e) == /\ e[1][1] = "capacity_overload"
                             /\ e = <<<<"capacity_overload", e[1][2]>>, "medium", "itself">>
            OfCheckpoint(e) == /\ e[1][1] = "health:checkpoint_health"
                               /\ \E s \in Steps : \E x \in WorstOf(StepSignals(s)) :
                                    /\ x.at = s
                                    /\ e = <<<<"health:checkpoint_health", x.at>>,
                                             Graded(x.level), x.of>>
            OfCampaign(e) == /\ e[1][1] \in Dimensions
                             /\ \E x \in WorstOf(AllSignals) :
                                  e = <<<<x.of, x.at>>, Graded(x.level), x.of>>
<1>1. ASSUME NEW e \in StepCauses  PROVE InStep(e)
  BY <1>1 DEF StepCauses
<1>2. ASSUME NEW e \in WindowCauses  PROVE InWindow(e)
  BY <1>2 DEF WindowCauses
<1>3. ASSUME NEW e \in CapacityCauses  PROVE InCapacity(e)
  BY <1>3 DEF CapacityCauses
<1>4. ASSUME NEW e \in HealthCauses  PROVE OfCheckpoint(e) \/ OfCampaign(e)
  <2>1. CASE \E x \in WorstSignals :
               e = <<<<"health:checkpoint_health", x.at>>, Graded(x.level), x.of>>
    <3>1. PICK x \in WorstSignals :
            e = <<<<"health:checkpoint_health", x.at>>, Graded(x.level), x.of>>
      BY <2>1
    <3>2. PICK s \in Steps : x \in WorstOf(StepSignals(s))
      BY DEF WorstSignals, OpenSteps
    <3>3. x.at = s
      BY <3>2, StepSignalFacts DEF WorstOf
    <3>. QED  BY <3>1, <3>2, <3>3
  <2>2. CASE \E x \in WorstOf(AllSignals) : e = <<<<x.of, x.at>>, Graded(x.level), x.of>>
    <3>1. PICK x \in WorstOf(AllSignals) : e = <<<<x.of, x.at>>, Graded(x.level), x.of>>
      BY <2>2
    <3>2. x.of \in Dimensions
      BY SignalsTyped DEF Signal
    <3>. QED  BY <3>1, <3>2
  <2>. QED  BY <1>4, <2>1, <2>2, HealthCausesAre
<1>5. ASSUME NEW e \in Causes
      PROVE  InStep(e) \/ InWindow(e) \/ InCapacity(e) \/ OfCheckpoint(e) \/ OfCampaign(e)
  BY <1>1, <1>2, <1>3, <1>4, <1>5, Zenon DEF Causes
<1>6. CASE c[1][1] \in {"step_overdue", "step_stalled_waiting"}
  <2>1. InStep(c) /\ InStep(d)
    BY <1>5, <1>6 DEF Dimensions
  <2>. QED  BY <2>1
<1>7. CASE c[1][1] = "review_window_overdue"
  <2>1. InWindow(c) /\ InWindow(d)
    BY <1>5, <1>7 DEF Dimensions
  <2>. QED  BY <2>1
<1>8. CASE c[1][1] = "capacity_overload"
  <2>1. InCapacity(c) /\ InCapacity(d)
    BY <1>5, <1>8 DEF Dimensions
  <2>. QED  BY <2>1
<1>9. CASE c[1][1] = "health:checkpoint_health"
  <2>1. OfCheckpoint(c) /\ OfCheckpoint(d)
    BY <1>5, <1>9 DEF Dimensions
  <2>2. PICK s \in Steps : \E x \in WorstOf(StepSignals(s)) :
          x.at = s /\ c = <<<<"health:checkpoint_health", x.at>>, Graded(x.level), x.of>>
    BY <2>1
  <2>3. PICK t \in Steps : \E y \in WorstOf(StepSignals(t)) :
          y.at = t /\ d = <<<<"health:checkpoint_health", y.at>>, Graded(y.level), y.of>>
    BY <2>1
  <2>4. s = t
    BY <2>2, <2>3
  <2>. QED  BY <2>2, <2>3, <2>4, WorstIsOne
<1>10. CASE c[1][1] \in Dimensions
  <2>1. OfCampaign(c) /\ OfCampaign(d)
    BY <1>5, <1>10 DEF Dimensions
  <2>. QED  BY <2>1, WorstIsOne
<1>. QED  BY <1>5, <1>6, <1>7, <1>8, <1>9, <1>10

-----------------------------------------------------------------------------
(* What a run decides on what it has read.                                 *)

LEMMA OpenRiskFacts ==
  ASSUME NEW k, NEW r \in OpenRisks(k)
  PROVE  r \in DOMAIN risks /\ r[1] = k /\ risks[r].open
BY DEF OpenRisks

LEMMA UpsertFacts ==
  ASSUME NEW updated \in Upserts, NEW c \in Causes, OpenRisks(c[1]) # {}
  PROVE  updated[c[1]] \in OpenRisks(c[1])
<1>. DEFINE found == {k \in KeysOf(Causes) : OpenRisks(k) # {}}
<1>1. c[1] \in found
  BY DEF KeysOf
<1>2. \A k \in found : updated[k] \in OpenRisks(k)
  BY DEF Upserts
<1>. QED  BY <1>1, <1>2

(* The fields of a plan, one by one.                                       *)
PlanReads(p, updated) ==
  /\ DOMAIN p = {"insert", "change", "close", "resolve", "escalate", "alarm", "hours"}
  /\ p.insert = {c \in Causes : OpenRisks(c[1]) = {}}
  /\ \A c \in p.change : \E d \in Causes :
       OpenRisks(d[1]) # {} /\ c = <<updated[d[1]], d[2], d[3]>>
  /\ p.close = ToClose(Causes)
  /\ p.resolve = {e \in escalations : ~risks[e[1]].open \/ e[1] \in ToClose(Causes)}
  /\ \A r \in p.escalate : r \in DOMAIN risks /\ risks[r].open /\ ~Unresolved(r)
  /\ \A k \in p.alarm : \E c \in p.insert : c[1] = k
  /\ p.hours = [l \in {m \in Loads : now.load[m] # "none"} |-> now.load[l] = "over"]

LEMMA PlanFields ==
  ASSUME NEW updated
  PROVE  PlanReads(PlanOf(Causes, updated), updated)
<1>. DEFINE p == PlanOf(Causes, updated)
<1>1. DOMAIN p = {"insert", "change", "close", "resolve", "escalate", "alarm", "hours"}
  BY DEF PlanOf
<1>2. p.insert = {c \in Causes : OpenRisks(c[1]) = {}}
  BY DEF PlanOf
<1>3. \A c \in p.change : \E d \in Causes :
        OpenRisks(d[1]) # {} /\ c = <<updated[d[1]], d[2], d[3]>>
  BY DEF PlanOf
<1>4. /\ p.close = ToClose(Causes)
      /\ p.resolve = {e \in escalations : ~risks[e[1]].open \/ e[1] \in ToClose(Causes)}
  BY DEF PlanOf
<1>5. \A r \in p.escalate : r \in DOMAIN risks /\ risks[r].open /\ ~Unresolved(r)
  BY DEF PlanOf
<1>6. \A k \in p.alarm : \E c \in p.insert : c[1] = k
  BY DEF PlanOf
<1>7. p.hours = [l \in {m \in Loads : now.load[m] # "none"} |-> now.load[l] = "over"]
  BY DEF PlanOf
<1>. HIDE DEF p
<1>8. PlanReads(p, updated)
  BY <1>1, <1>2, <1>3, <1>4, <1>5, <1>6, <1>7 DEF PlanReads
<1>. QED  BY <1>8 DEF p

(* A plan is well typed and mentions only risks that exist.                *)
LEMMA PlanSound ==
  ASSUME TypeOK, NEW updated \in Upserts, NEW p, PlanReads(p, updated)
  PROVE  /\ IsPlan(p)
         /\ p.close \subseteq DOMAIN risks
         /\ \A c \in p.change : c[1] \in DOMAIN risks
         /\ p.escalate \subseteq DOMAIN risks
         /\ \A e \in p.resolve : e[1] \in DOMAIN risks
<1>1. /\ DOMAIN risks \subseteq Risk
      /\ escalations \subseteq (DOMAIN risks) \X (1..MaxCopies)
      /\ now.load \in [Loads -> {"none", "fits", "over"}]
  BY SituationAssumption DEF TypeOK, Situation
<1>2. p.insert \subseteq Cause
  BY CausesTyped DEF PlanReads
<1>3. ASSUME NEW c \in p.change
      PROVE  c \in Risk \X Severity \X Why /\ c[1] \in DOMAIN risks
  <2>1. PICK d \in Causes : OpenRisks(d[1]) # {} /\ c = <<updated[d[1]], d[2], d[3]>>
    BY <1>3 DEF PlanReads
  <2>2. updated[d[1]] \in DOMAIN risks
    BY <2>1, UpsertFacts, OpenRiskFacts
  <2>. QED  BY <1>1, <2>1, <2>2, CausesTyped DEF Cause
<1>4. p.close \subseteq DOMAIN risks /\ p.escalate \subseteq DOMAIN risks
  BY DEF PlanReads, ToClose
<1>5. \A e \in p.resolve : e \in Escalation /\ e[1] \in DOMAIN risks
  BY <1>1 DEF PlanReads, Escalation
<1>6. p.alarm \subseteq Keys
  BY <1>2 DEF PlanReads, Cause
<1>7. DOMAIN p.hours \subseteq Loads /\ \A l \in DOMAIN p.hours : p.hours[l] \in BOOLEAN
  BY DEF PlanReads
<1>8. p.insert \subseteq Keys \X Severity \X Why
  BY <1>2 DEF Cause
<1>9. IsPlan(p)
  BY <1>1, <1>3, <1>4, <1>5, <1>6, <1>7, <1>8 DEF PlanReads, IsPlan
<1>. QED  BY <1>3, <1>4, <1>5, <1>9

LEMMA NoneFacts ==
  /\ IsPlan(None)
  /\ \A j \in Jobs : job[j].plan = None => PlanHolds(j)
BY DEF IsPlan, None, PlanHolds, Mentioned

-----------------------------------------------------------------------------
LEMMA InitInv == Init => IInv
<1>. SUFFICES ASSUME Init PROVE IInv
  OBVIOUS
<1>1. \A j \in Jobs : job[j].running = FALSE /\ job[j].plan = None
  BY DEF Init, Idle
<1>2. DOMAIN risks = {} /\ escalations = {}
  BY DEF Init
<1>3. ledger \in [Loads -> LedgerRow]
  BY DEF Init, LedgerRow
<1>4. overlaps \in 0..MaxOverlaps /\ changes \in 0..MaxChanges
  BY BoundAssumption DEF Init
<1>5. TypeOK
  BY <1>1, <1>2, <1>3, <1>4, NoneFacts DEF TypeOK, Init
<1>6. Alone /\ NoneDoubled
  BY <1>1, <1>2 DEF Alone, NoneDoubled
<1>. QED  BY <1>1, <1>5, <1>6, NoneFacts DEF IInv

LEMMA BeginInv == ASSUME IInv, NEW j \in Jobs, Begin(j) PROVE IInv'
<1>1. PICK updated \in Upserts :
        job' = [job EXCEPT ![j] = [running |-> TRUE, plan |-> PlanOf(Causes, updated)]]
  BY DEF Begin
<1>. DEFINE p == PlanOf(Causes, updated)
<1>2. job' = [job EXCEPT ![j] = [running |-> TRUE, plan |-> p]] /\ PlanReads(p, updated)
  BY <1>1, PlanFields
<1>. HIDE DEF p
<1>3. /\ IsPlan(p) /\ p.close \subseteq DOMAIN risks
      /\ \A c \in p.change : c[1] \in DOMAIN risks
      /\ p.escalate \subseteq DOMAIN risks /\ \A e \in p.resolve : e[1] \in DOMAIN risks
  BY <1>2, PlanSound DEF IInv
<1>4. /\ \A r \in p.escalate : ~Unresolved(r)
      /\ \A k \in p.alarm : \E c \in p.insert : c[1] = k
      /\ \A c \in p.insert : OpenRisks(c[1]) = {}
  BY <1>2 DEF PlanReads
<1>5. /\ DOMAIN job' = Jobs
      /\ job'[j].running = TRUE /\ job'[j].plan = p
      /\ \A i \in Jobs : i # j => job'[i] = job[i]
  BY <1>2 DEF IInv, TypeOK
<1>6. /\ UNCHANGED <<now, headOps, ledger, risks, escalations, changes>>
      /\ overlaps \in Nat /\ overlaps' \in 0..MaxOverlaps
      /\ overlaps' = 0 => overlaps = 0 /\ \A i \in Jobs : ~job[i].running
  BY BoundAssumption DEF Begin, IInv, TypeOK, world
<1>7. TypeOK'
  BY <1>3, <1>5, <1>6 DEF IInv, TypeOK
<1>8. ASSUME NEW i \in Jobs  PROVE PlanHolds(i)'
  BY <1>3, <1>4, <1>5, <1>6 DEF IInv, PlanHolds, Mentioned
<1>9. Alone'
  <2>. SUFFICES ASSUME overlaps' = 0 PROVE Alone'
    BY DEF Alone
  <2>1. \A i \in Jobs : job'[i].running => i = j
    BY <1>5, <1>6
  <2>. QED  BY <1>4, <1>5, <1>6, <2>1 DEF Alone, OpenRisks, Unresolved
<1>10. NoneDoubled'
  BY <1>6 DEF IInv, NoneDoubled
<1>. QED  BY <1>7, <1>8, <1>9, <1>10 DEF IInv

LEMMA AbortInv == ASSUME IInv, NEW j \in Jobs, Abort(j) PROVE IInv'
<1>1. /\ DOMAIN job' = Jobs
      /\ job'[j].running = FALSE /\ job'[j].plan = None
      /\ \A i \in Jobs : i # j => job'[i] = job[i]
  BY DEF IInv, TypeOK, Abort, Idle
<1>2. UNCHANGED <<now, headOps, ledger, risks, escalations, overlaps, changes>>
  BY DEF Abort, world
<1>3. TypeOK'
  BY <1>1, <1>2, NoneFacts DEF IInv, TypeOK
<1>4. ASSUME NEW i \in Jobs  PROVE PlanHolds(i)'
  <2>1. CASE i = j
    BY <1>1, <2>1 DEF None, PlanHolds, Mentioned
  <2>2. CASE i # j
    BY <1>1, <1>2, <2>2 DEF IInv, PlanHolds, Mentioned
  <2>. QED  BY <2>1, <2>2
<1>5. Alone' /\ NoneDoubled'
  BY <1>1, <1>2 DEF IInv, Alone, NoneDoubled, OpenRisks, Unresolved
<1>. QED  BY <1>3, <1>4, <1>5 DEF IInv

(* The campaign, the ledger and the counters may change without a run.     *)
LEMMA AsideInv ==
  ASSUME IInv, UNCHANGED <<risks, escalations, job, overlaps>>,
         now' \in Situations, headOps' \in BOOLEAN, ledger' \in [Loads -> LedgerRow],
         changes' \in 0..MaxChanges
  PROVE  IInv'
<1>1. TypeOK'
  BY DEF IInv, TypeOK
<1>2. \A j \in Jobs : PlanHolds(j)'
  BY DEF IInv, PlanHolds, Mentioned
<1>3. Alone' /\ NoneDoubled'
  BY DEF IInv, Alone, NoneDoubled, OpenRisks, Unresolved
<1>. QED  BY <1>1, <1>2, <1>3 DEF IInv

LEMMA LedgerChanges ==
  ASSUME ledger \in [Loads -> LedgerRow], NEW l \in Loads, NEW b \in BOOLEAN
  PROVE  /\ [ledger EXCEPT ![l].requested = TRUE, ![l].approved = FALSE] \in [Loads -> LedgerRow]
         /\ [ledger EXCEPT ![l].approved = b] \in [Loads -> LedgerRow]
<1>1. ledger[l] \in LedgerRow
  OBVIOUS
<1>2. \A row \in LedgerRow : /\ [row EXCEPT !.requested = TRUE] \in LedgerRow
                             /\ [row EXCEPT !.approved = b] \in LedgerRow
                             /\ [row EXCEPT !.approved = FALSE] \in LedgerRow
  BY DEF LedgerRow
<1>3. [ledger EXCEPT ![l].approved = b] \in [Loads -> LedgerRow]
  BY <1>1, <1>2
<1>4. DEFINE once == [ledger EXCEPT ![l].requested = TRUE]
<1>5. once \in [Loads -> LedgerRow]
  BY <1>1, <1>2
<1>6. [once EXCEPT ![l].approved = FALSE] \in [Loads -> LedgerRow]
  <2>. HIDE DEF once
  <2>. QED  BY <1>2, <1>5
<1>. QED  BY <1>3, <1>6

LEMMA CampaignMovesInv == ASSUME IInv, CampaignMoves \/ HeadOpsMoves PROVE IInv'
<1>1. changes' \in 0..MaxChanges
  BY BoundAssumption DEF IInv, TypeOK, CampaignMoves, HeadOpsMoves, Changes
<1>2. now' \in Situations /\ headOps' \in BOOLEAN /\ ledger' \in [Loads -> LedgerRow]
  BY DEF IInv, TypeOK, CampaignMoves, HeadOpsMoves, Changes
<1>3. UNCHANGED <<risks, escalations, job, overlaps>>
  BY DEF CampaignMoves, HeadOpsMoves, Changes, jobUnchanged
<1>. QED  BY <1>1, <1>2, <1>3, AsideInv

LEMMA OverridesInv ==
  ASSUME IInv, NEW l \in Loads,
         RequestOverride(l) \/ \E approve \in BOOLEAN : DecideOverride(l, approve)
  PROVE  IInv'
<1>1. ledger' \in [Loads -> LedgerRow]
  <2>1. ledger \in [Loads -> LedgerRow]
    BY DEF IInv, TypeOK
  <2>2. CASE RequestOverride(l)
    <3>1. ledger' = [ledger EXCEPT ![l].requested = TRUE, ![l].approved = FALSE]
      BY <2>2, Zenon DEF RequestOverride
    <3>2. [ledger EXCEPT ![l].requested = TRUE, ![l].approved = FALSE] \in [Loads -> LedgerRow]
      BY <2>1, LedgerChanges
    <3>. QED  BY <3>1, <3>2, Zenon
  <2>3. CASE \E approve \in BOOLEAN : DecideOverride(l, approve)
    <3>1. PICK b \in BOOLEAN : ledger' = [ledger EXCEPT ![l].approved = b]
      BY <2>3, Zenon DEF DecideOverride
    <3>2. [ledger EXCEPT ![l].approved = b] \in [Loads -> LedgerRow]
      BY <2>1, LedgerChanges
    <3>. QED  BY <3>1, <3>2, Zenon
  <2>. QED  BY <2>2, <2>3
<1>2. UNCHANGED <<now, headOps, risks, escalations, job, overlaps, changes>>
  BY DEF RequestOverride, DecideOverride, jobUnchanged, world
<1>. QED  BY <1>1, <1>2, AsideInv DEF IInv, TypeOK

LEMMA DaysPassInv == ASSUME IInv, DaysPass PROVE IInv'
<1>1. UNCHANGED <<now, headOps, ledger, escalations, job, overlaps, changes>>
  BY DEF DaysPass, jobUnchanged, world
<1>2. risks' = [r \in DOMAIN risks |-> [risks[r] EXCEPT !.aged = IsHealth(r[1])]]
  BY DEF DaysPass
<1>3. DOMAIN risks' = DOMAIN risks
  BY <1>2
<1>4. ASSUME NEW r \in DOMAIN risks
      PROVE  risks'[r] \in Row /\ risks'[r].open = risks[r].open
  <2>1. risks[r] \in Row /\ IsHealth(r[1]) \in BOOLEAN
    BY DEF IInv, TypeOK, IsHealth
  <2>2. risks'[r] = [risks[r] EXCEPT !.aged = IsHealth(r[1])]
    BY <1>2
  <2>. HIDE DEF IsHealth
  <2>. QED  BY <2>1, <2>2 DEF Row
<1>5. TypeOK'
  BY <1>1, <1>3, <1>4 DEF IInv, TypeOK
<1>6. \A j \in Jobs : PlanHolds(j)'
  BY <1>1, <1>3 DEF IInv, PlanHolds, Mentioned
<1>7. \A k : OpenRisks(k)' = OpenRisks(k)
  BY <1>3, <1>4 DEF OpenRisks
<1>8. Alone' /\ NoneDoubled'
  BY <1>1, <1>3, <1>4, <1>7 DEF IInv, Alone, NoneDoubled, Unresolved
<1>. QED  BY <1>5, <1>6, <1>8 DEF IInv

LEMMA ResolveByHandInv == ASSUME IInv, NEW e \in escalations, ResolveByHand(e) PROVE IInv'
<1>. DEFINE kept == {q \in DOMAIN risks : \/ risks[q].open
                                          \/ \E f \in escalations' : f[1] = q
                                          \/ \E j \in Jobs : q \in Mentioned(j)}
<1>1. /\ escalations' = escalations \ {e}
      /\ risks' = [r \in kept |-> risks[r]]
      /\ UNCHANGED <<now, headOps, ledger, job, overlaps, changes>>
  BY DEF ResolveByHand, jobUnchanged, world
<1>2. DOMAIN risks' = kept /\ kept \subseteq DOMAIN risks /\ \A r \in kept : risks'[r] = risks[r]
  BY <1>1
<1>3. /\ \A f \in escalations' : f \in escalations /\ f[1] \in kept
      /\ escalations \subseteq (DOMAIN risks) \X (1..MaxCopies)
  BY <1>1 DEF IInv, TypeOK
<1>4. \A j \in Jobs : Mentioned(j) \subseteq kept
  BY DEF IInv, PlanHolds
<1>5. \A r \in DOMAIN risks : risks[r].open => r \in kept
  OBVIOUS
<1>. HIDE DEF kept
<1>6. escalations' \subseteq (DOMAIN risks') \X (1..MaxCopies)
  BY <1>2, <1>3
<1>7. TypeOK'
  BY <1>1, <1>2, <1>6 DEF IInv, TypeOK
<1>8. \A j \in Jobs : PlanHolds(j)'
  BY <1>1, <1>2, <1>4 DEF IInv, PlanHolds, Mentioned
<1>9. \A k : OpenRisks(k)' = OpenRisks(k)
  BY <1>2, <1>5 DEF OpenRisks
<1>10. Alone' /\ NoneDoubled'
  BY <1>1, <1>2, <1>3, <1>9 DEF IInv, Alone, NoneDoubled, Unresolved
<1>. QED  BY <1>7, <1>8, <1>10 DEF IInv

-----------------------------------------------------------------------------
(* What a commit writes.                                                   *)

(* The risks and escalations a commit adds are new, one for each key and   *)
(* for each risk.                                                          *)
LEMMA NewRows ==
  ASSUME IInv, NEW j \in Jobs, Fits(j)
  PROVE  /\ \A c \in job[j].plan.insert :
              /\ NewRisk(j, c[1]) \in Risk /\ NewRisk(j, c[1])[1] = c[1]
              /\ NewRisk(j, c[1]) \notin DOMAIN risks /\ NewRisk(j, c[1]) \notin Others(j)
         /\ \A r : NewEscalation(r)[1] = r
         /\ \A r \in job[j].plan.escalate : NewEscalation(r)[2] \in 1..MaxCopies
         /\ \A k \in job[j].plan.alarm : NewEscalation(NewRisk(j, k))[2] \in 1..MaxCopies
<1>. DEFINE p == job[j].plan
<1>1. IsPlan(p) /\ DOMAIN risks \subseteq Risk
  BY DEF IInv, TypeOK
<1>2. ASSUME NEW c \in p.insert
      PROVE  \E n \in 1..MaxCopies : /\ NewRisk(j, c[1]) = <<c[1], n>>
                                     /\ <<c[1], n>> \notin DOMAIN risks \union Others(j)
  <2>1. FreeCopies(j, c[1]) # {}
    BY DEF Fits
  <2>2. (CHOOSE n \in FreeCopies(j, c[1]) : TRUE) \in FreeCopies(j, c[1])
    BY <2>1
  <2>. QED  BY <2>2 DEF NewRisk, FreeCopies
<1>3. \A c \in p.insert : c[1] \in Keys
  BY <1>1 DEF IsPlan
<1>4. ASSUME NEW c \in p.insert
      PROVE  /\ NewRisk(j, c[1]) \in Risk /\ NewRisk(j, c[1])[1] = c[1]
             /\ NewRisk(j, c[1]) \notin DOMAIN risks /\ NewRisk(j, c[1]) \notin Others(j)
  <2>1. PICK n \in 1..MaxCopies : /\ NewRisk(j, c[1]) = <<c[1], n>>
                                  /\ <<c[1], n>> \notin DOMAIN risks \union Others(j)
    BY <1>2
  <2>. QED  BY <1>3, <2>1 DEF Risk
<1>5. ASSUME NEW r, FreeMarks(r) # {}  PROVE NewEscalation(r)[2] \in 1..MaxCopies
  <2>1. (CHOOSE n \in FreeMarks(r) : TRUE) \in FreeMarks(r)
    BY <1>5
  <2>. QED  BY <2>1 DEF NewEscalation, FreeMarks
<1>6. \A r \in p.escalate : NewEscalation(r)[2] \in 1..MaxCopies
  BY <1>5 DEF Fits
<1>7. ASSUME NEW k \in p.alarm  PROVE NewEscalation(NewRisk(j, k))[2] \in 1..MaxCopies
  <2>1. PICK c \in p.insert : c[1] = k
    BY DEF IInv, PlanHolds
  <2>2. NewRisk(j, k) \notin DOMAIN risks
    BY <1>4, <2>1
  <2>3. \A n : <<NewRisk(j, k), n>> \notin escalations
    BY <2>2 DEF IInv, TypeOK
  <2>4. PICK n \in 1..MaxCopies : TRUE
    BY <1>2, <2>1
  <2>5. FreeMarks(NewRisk(j, k)) # {}
    BY <2>3, <2>4 DEF FreeMarks
  <2>. QED  BY <1>5, <2>5
<1>8. \A r : NewEscalation(r)[1] = r
  BY DEF NewEscalation
<1>. QED  BY <1>4, <1>6, <1>7, <1>8

(* A risk a commit changes stays a risk, and is closed only by its plan.   *)
LEMMA WrittenRow ==
  ASSUME IInv, NEW j \in Jobs, NEW q \in DOMAIN risks
  PROVE  LET new == Written(job[j].plan, q)
         IN  new \in Row /\ new.open = (risks[q].open /\ q \notin job[j].plan.close)
<1>. DEFINE p == job[j].plan
            shown == IF \A c \in p.change : c[1] # q THEN risks[q]
                     ELSE LET c == CHOOSE c \in p.change : c[1] = q
                          IN  [risks[q] EXCEPT !.severity = c[2], !.why = c[3], !.aged = FALSE]
<1>1. /\ risks[q] \in Row
      /\ \A c \in p.change : c \in Risk \X Severity \X Why
  BY DEF IInv, TypeOK, IsPlan
<1>2. shown \in Row /\ shown.open = risks[q].open
  <2>1. CASE \A c \in p.change : c[1] # q
    BY <1>1, <2>1
  <2>2. CASE \E c \in p.change : c[1] = q
    <3>. DEFINE c == CHOOSE c \in p.change : c[1] = q
    <3>1. c \in p.change
      BY <2>2
    <3>2. c[2] \in Severity /\ c[3] \in Why
      BY <1>1, <3>1
    <3>3. shown = [risks[q] EXCEPT !.severity = c[2], !.why = c[3], !.aged = FALSE]
      BY <2>2
    <3>. HIDE DEF c, shown
    <3>. QED  BY <1>1, <3>2, <3>3 DEF Row
  <2>. QED  BY <2>1, <2>2
<1>3. Written(p, q) = [shown EXCEPT !.open = @ /\ q \notin p.close]
  BY Zenon DEF Written
<1>. HIDE DEF shown
<1>4. "open" \in DOMAIN shown
  BY <1>2 DEF Row
<1>5. Written(p, q).open = (shown.open /\ q \notin p.close)
  BY <1>3, <1>4, Zenon
<1>6. Written(p, q) \in Row
  <2>1. (shown.open /\ q \notin p.close) \in BOOLEAN
    OBVIOUS
  <2>2. \A b \in BOOLEAN : [shown EXCEPT !.open = b] \in Row
    BY <1>2 DEF Row
  <2>3. [shown EXCEPT !.open = shown.open /\ q \notin p.close] \in Row
    BY <2>1, <2>2, Zenon
  <2>. QED  BY <1>3, <2>3, Zenon
<1>. QED  BY <1>2, <1>5, <1>6, Zenon DEF p

(* What a commit leaves, in the terms of the plan.                         *)
NewRisks(j) == {NewRisk(j, c[1]) : c \in job[j].plan.insert}
RaisedFor(j) == job[j].plan.escalate \union {NewRisk(j, k) : k \in job[j].plan.alarm}
Kept(j) == {q \in DOMAIN risks \union NewRisks(j) :
              \/ q \in NewRisks(j)
              \/ risks[q].open /\ q \notin job[j].plan.close
              \/ q \in Others(j)
              \/ \E e \in escalations' : e[1] = q}

LEMMA CommitEffect ==
  ASSUME IInv, NEW j \in Jobs, Commit(j)
  PROVE  /\ escalations' = (escalations \ job[j].plan.resolve)
                             \union {NewEscalation(r) : r \in RaisedFor(j)}
         /\ DOMAIN risks' = Kept(j)
         /\ \A q \in Kept(j) \ NewRisks(j) : risks'[q] = Written(job[j].plan, q)
         /\ \A q \in NewRisks(j) : \E c \in job[j].plan.insert :
              c[1] = q[1] /\ risks'[q] = [open |-> TRUE, severity |-> c[2], why |-> c[3],
                                          aged |-> FALSE]
         /\ UNCHANGED <<now, headOps, overlaps, changes>>
         /\ DOMAIN job' = Jobs /\ job'[j] = Idle /\ \A i \in Jobs : i # j => job'[i] = job[i]
<1>. DEFINE p == job[j].plan
            fresh == {NewRisk(j, c[1]) : c \in p.insert}
            cause(r) == CHOOSE c \in p.insert : c[1] = r[1]
            all == [r \in DOMAIN risks \union fresh |->
                      IF r \in fresh THEN [open |-> TRUE, severity |-> cause(r)[2],
                                           why |-> cause(r)[3], aged |-> FALSE]
                      ELSE Written(p, r)]
            raised == {NewEscalation(r) : r \in p.escalate \union {NewRisk(j, k) : k \in p.alarm}}
            left == Resolved(p) \union raised
            kept == {q \in DOMAIN all : \/ all[q].open \/ q \in Others(j)
                                        \/ \E e \in left : e[1] = q}
<1>1. /\ escalations' = left /\ risks' = [r \in kept |-> all[r]] /\ Fits(j)
      /\ job' = [job EXCEPT ![j] = Idle]
  BY DEF Commit
<1>2. UNCHANGED <<now, headOps, overlaps, changes>>
  BY DEF Commit, world
<1>3. fresh = NewRisks(j) /\ p = job[j].plan
  BY DEF NewRisks
<1>4. left = (escalations \ p.resolve) \union {NewEscalation(r) : r \in RaisedFor(j)}
  BY DEF Resolved, RaisedFor
<1>5. ASSUME NEW q \in fresh
      PROVE  \E c \in p.insert : c[1] = q[1] /\ all[q] = [open |-> TRUE, severity |-> c[2],
                                                         why |-> c[3], aged |-> FALSE]
  <2>1. PICK d \in p.insert : q = NewRisk(j, d[1])
    OBVIOUS
  <2>2. d[1] = q[1]
    BY <1>1, <2>1, NewRows
  <2>3. cause(q) \in p.insert /\ cause(q)[1] = q[1]
    BY <2>2
  <2>4. all[q] = [open |-> TRUE, severity |-> cause(q)[2], why |-> cause(q)[3], aged |-> FALSE]
    OBVIOUS
  <2>. HIDE DEF cause, all
  <2>. QED  BY <2>3, <2>4
<1>6. /\ DOMAIN all = DOMAIN risks \union fresh
      /\ \A q \in DOMAIN risks \ fresh : all[q] = Written(p, q)
  OBVIOUS
<1>7. \A q \in fresh : q \notin DOMAIN risks
  BY <1>1, NewRows
<1>. HIDE DEF left, all, fresh
<1>8. \A q \in DOMAIN risks : Written(p, q).open = (risks[q].open /\ q \notin p.close)
  BY WrittenRow
<1>9. kept = Kept(j)
  <2>1. ASSUME NEW q \in DOMAIN risks \union fresh
        PROVE  all[q].open <=> (q \in fresh \/ (risks[q].open /\ q \notin p.close))
    <3>1. CASE q \in fresh
      <4>1. PICK c \in p.insert : all[q] = [open |-> TRUE, severity |-> c[2],
                                            why |-> c[3], aged |-> FALSE]
        BY <1>5, <3>1
      <4>2. all[q].open = TRUE
        BY <4>1
      <4>. QED  BY <3>1, <4>2, Zenon
    <3>2. CASE q \notin fresh
      <4>1. all[q].open = (risks[q].open /\ q \notin p.close)
        BY <1>6, <1>8, <3>2
      <4>. QED  BY <3>2, <4>1
    <3>. QED  BY <3>1, <3>2
  <2>. QED  BY <1>1, <1>3, <1>6, <2>1 DEF Kept
<1>10. DOMAIN risks' = Kept(j) /\ \A q \in Kept(j) : risks'[q] = all[q]
  <2>. HIDE DEF kept
  <2>. QED  BY <1>1, <1>9
<1>11. NewRisks(j) \subseteq Kept(j)
  BY DEF Kept
<1>12. DOMAIN job' = Jobs /\ job'[j] = Idle /\ \A i \in Jobs : i # j => job'[i] = job[i]
  BY <1>1 DEF IInv, TypeOK
<1>13. escalations' = (escalations \ p.resolve) \union {NewEscalation(r) : r \in RaisedFor(j)}
  BY <1>1, <1>4
<1>14. \A q \in Kept(j) \ NewRisks(j) : risks'[q] = Written(p, q)
  BY <1>3, <1>6, <1>10 DEF Kept
<1>15. \A q \in NewRisks(j) : \E c \in p.insert :
         c[1] = q[1] /\ risks'[q] = [open |-> TRUE, severity |-> c[2], why |-> c[3], aged |-> FALSE]
  BY <1>3, <1>5, <1>10, <1>11
<1>. QED  BY <1>2, <1>10, <1>12, <1>13, <1>14, <1>15

LEMMA CommitInv == ASSUME IInv, NEW j \in Jobs, Commit(j) PROVE IInv'
<1>. DEFINE p == job[j].plan
<1>1. /\ escalations' = (escalations \ p.resolve) \union {NewEscalation(r) : r \in RaisedFor(j)}
      /\ DOMAIN risks' = Kept(j)
      /\ \A q \in Kept(j) \ NewRisks(j) : risks'[q] = Written(p, q)
      /\ \A q \in NewRisks(j) : \E c \in p.insert :
           c[1] = q[1] /\ risks'[q] = [open |-> TRUE, severity |-> c[2], why |-> c[3],
                                       aged |-> FALSE]
      /\ UNCHANGED <<now, headOps, overlaps, changes>>
      /\ DOMAIN job' = Jobs /\ job'[j] = Idle /\ \A i \in Jobs : i # j => job'[i] = job[i]
  BY CommitEffect
<1>2. Fits(j) /\ job[j].running
  BY DEF Commit
<1>3. /\ IsPlan(p) /\ DOMAIN risks \subseteq Risk /\ PlanHolds(j)
      /\ escalations \subseteq (DOMAIN risks) \X (1..MaxCopies)
      /\ p.escalate \subseteq DOMAIN risks
  BY DEF IInv, TypeOK, PlanHolds, Mentioned
<1>4. ASSUME NEW q \in NewRisks(j)
      PROVE  /\ q \in Risk /\ q \notin DOMAIN risks /\ q \notin Others(j)
             /\ \E c \in p.insert : q = NewRisk(j, c[1]) /\ q[1] = c[1]
  BY <1>2, NewRows DEF NewRisks
<1>5. Kept(j) \subseteq DOMAIN risks \union NewRisks(j) /\ Kept(j) \subseteq Risk
  BY <1>3, <1>4 DEF Kept
<1>6. ASSUME NEW q \in Kept(j)
      PROVE  risks'[q] \in Row /\ (q \notin NewRisks(j) /\ risks'[q].open => risks[q].open)
  <2>1. CASE q \in NewRisks(j)
    <3>1. PICK c \in p.insert : risks'[q] = [open |-> TRUE, severity |-> c[2], why |-> c[3],
                                             aged |-> FALSE]
      BY <1>1, <2>1
    <3>2. c[2] \in Severity /\ c[3] \in Why
      BY <1>3 DEF IsPlan
    <3>. QED  BY <2>1, <3>1, <3>2 DEF Row
  <2>2. CASE q \notin NewRisks(j)
    <3>1. q \in DOMAIN risks /\ risks'[q] = Written(p, q)
      BY <1>1, <1>5, <2>2
    <3>2. Written(p, q) \in Row /\ Written(p, q).open = (risks[q].open /\ q \notin p.close)
      BY <3>1, WrittenRow
    <3>. QED  BY <3>1, <3>2, Zenon
  <2>. QED  BY <2>1, <2>2
<1>7. ASSUME NEW r \in RaisedFor(j)
      PROVE  /\ NewEscalation(r) \in {r} \X (1..MaxCopies)
             /\ r \in DOMAIN risks \union NewRisks(j)
             /\ r \in p.escalate \/ r \in NewRisks(j)
  <2>1. CASE r \in p.escalate
    BY <1>2, <1>3, <2>1, NewRows DEF NewEscalation
  <2>2. CASE r \notin p.escalate
    <3>1. PICK k \in p.alarm : r = NewRisk(j, k)
      BY <2>2 DEF RaisedFor
    <3>2. PICK c \in p.insert : c[1] = k
      BY <1>3 DEF PlanHolds
    <3>. QED  BY <1>2, <3>1, <3>2, NewRows DEF NewEscalation, NewRisks
  <2>. QED  BY <2>1, <2>2
<1>8. escalations' \subseteq Kept(j) \X (1..MaxCopies)
  <2>1. ASSUME NEW e \in escalations'
        PROVE  e \in (DOMAIN risks \union NewRisks(j)) \X (1..MaxCopies)
    BY <1>1, <1>3, <1>7
  <2>. QED  BY <2>1 DEF Kept
<1>9. ledger' \in [Loads -> LedgerRow]
  <2>1. ledger' = [l \in Loads |-> IF l \in DOMAIN p.hours
                                   THEN [ledger[l] EXCEPT !.known = TRUE, !.over = p.hours[l]]
                                   ELSE ledger[l]]
    BY DEF Commit
  <2>2. ledger \in [Loads -> LedgerRow]
    BY DEF IInv, TypeOK
  <2>3. ASSUME NEW l \in Loads, l \in DOMAIN p.hours
        PROVE  [ledger[l] EXCEPT !.known = TRUE, !.over = p.hours[l]] \in LedgerRow
    <3>1. p.hours[l] \in BOOLEAN /\ ledger[l] \in LedgerRow
      BY <1>3, <2>2, <2>3 DEF IsPlan
    <3>. QED  BY <3>1 DEF LedgerRow
  <2>. QED  BY <2>1, <2>2, <2>3
<1>10. TypeOK'
  <2>1. ASSUME NEW i \in Jobs  PROVE job'[i].running \in BOOLEAN /\ IsPlan(job'[i].plan)
    <3>1. CASE i = j
      <4>1. job'[i].running = FALSE /\ job'[i].plan = None
        BY <1>1, <3>1 DEF Idle
      <4>. QED  BY <4>1, NoneFacts, Zenon
    <3>2. CASE i # j
      BY <1>1, <3>2 DEF IInv, TypeOK
    <3>. QED  BY <3>1, <3>2
  <2>. QED  BY <1>1, <1>5, <1>6, <1>8, <1>9, <2>1 DEF IInv, TypeOK
<1>11. ASSUME NEW i \in Jobs  PROVE PlanHolds(i)'
  <2>1. CASE i = j
    BY <1>1, <2>1 DEF PlanHolds, Mentioned, Idle, None
  <2>2. CASE i # j
    <3>1. Mentioned(i) \subseteq DOMAIN risks /\ Mentioned(i) \subseteq Others(j)
      BY <2>2 DEF IInv, PlanHolds, Others
    <3>2. Mentioned(i) \subseteq Kept(j) /\ Mentioned(i)' = Mentioned(i) /\ job'[i] = job[i]
      BY <1>1, <2>2, <3>1 DEF Kept, Mentioned
    <3>. QED  BY <1>1, <3>2 DEF IInv, PlanHolds
  <2>. QED  BY <2>1, <2>2
<1>12. Alone'
  <2>. SUFFICES ASSUME overlaps' = 0 PROVE Alone'
    BY DEF Alone
  <2>1. \A i \in Jobs : ~job'[i].running
    BY <1>1, <1>2 DEF IInv, Alone, Idle
  <2>. QED  BY <2>1 DEF Alone
<1>13. NoneDoubled'
  <2>. SUFFICES ASSUME overlaps' = 0 PROVE NoneDoubled'
    BY DEF NoneDoubled
  <2>1. /\ \A c \in p.insert : OpenRisks(c[1]) = {}
        /\ \A r \in p.escalate : ~Unresolved(r)
    BY <1>1, <1>2 DEF IInv, Alone
  <2>2. ASSUME NEW q \in Kept(j), NEW r \in Kept(j), q \notin NewRisks(j),
               risks'[q].open, risks'[r].open, q[1] = r[1]
        PROVE  q = r
    <3>1. q \in DOMAIN risks /\ risks[q].open /\ q \in OpenRisks(q[1])
      BY <1>5, <1>6, <2>2 DEF OpenRisks
    <3>2. r \notin NewRisks(j)
      BY <1>4, <2>1, <2>2, <3>1
    <3>3. r \in DOMAIN risks /\ risks[r].open
      BY <1>5, <1>6, <2>2, <3>2
    <3>. QED  BY <1>1, <2>2, <3>1, <3>3 DEF IInv, NoneDoubled
  <2>3. ASSUME NEW q \in NewRisks(j), NEW r \in NewRisks(j), q[1] = r[1]
        PROVE  q = r
    BY <1>4, <2>3
  <2>4. \A q, r \in DOMAIN risks' : risks'[q].open /\ risks'[r].open /\ q[1] = r[1] => q = r
    BY <1>1, <2>2, <2>3
  <2>5. ASSUME NEW e \in escalations, NEW r \in RaisedFor(j), e[1] = NewEscalation(r)[1]
        PROVE  FALSE
    <3>1. e[1] = r /\ e[1] \in DOMAIN risks
      BY <1>3, <1>7, <2>5
    <3>. QED  BY <1>4, <1>7, <2>1, <3>1 DEF Unresolved
  <2>6. ASSUME NEW e \in escalations', NEW f \in escalations', e[1] = f[1]
        PROVE  e = f
    <3>1. CASE e \in escalations /\ f \in escalations
      BY <1>1, <2>6, <3>1 DEF IInv, NoneDoubled
    <3>2. CASE \E q, r \in RaisedFor(j) : e = NewEscalation(q) /\ f = NewEscalation(r)
      BY <1>7, <2>6, <3>2
    <3>. QED  BY <1>1, <2>5, <2>6, <3>1, <3>2
  <2>. QED  BY <2>4, <2>6 DEF NoneDoubled
<1>. QED  BY <1>10, <1>11, <1>12, <1>13 DEF IInv

-----------------------------------------------------------------------------
LEMMA StepInv == IInv /\ [Next]_vars => IInv'
<1>. SUFFICES ASSUME IInv, [Next]_vars PROVE IInv'
  OBVIOUS
<1>1. CASE \E j \in Jobs : Begin(j)  BY <1>1, BeginInv
<1>2. CASE \E j \in Jobs : Commit(j)  BY <1>2, CommitInv
<1>3. CASE \E j \in Jobs : Abort(j)  BY <1>3, AbortInv
<1>4. CASE CampaignMoves \/ HeadOpsMoves  BY <1>4, CampaignMovesInv
<1>5. CASE DaysPass  BY <1>5, DaysPassInv
<1>6. CASE \E l \in Loads : RequestOverride(l)  BY <1>6, OverridesInv
<1>7. CASE \E l \in Loads, approve \in BOOLEAN : DecideOverride(l, approve)
  BY <1>7, OverridesInv
<1>8. CASE \E e \in escalations : ResolveByHand(e)  BY <1>8, ResolveByHandInv
<1>9. CASE UNCHANGED vars
  BY <1>9, AsideInv DEF vars, world, IInv, TypeOK
<1>. QED
  BY <1>1, <1>2, <1>3, <1>4, <1>5, <1>6, <1>7, <1>8, <1>9, Zenon DEF Next

LEMMA Inductive == Spec => []IInv
<1>. QED  BY InitInv, StepInv, PTL DEF Spec

(* However runs overlap or abort, risks, escalations, ledger and plans are *)
(* well typed, for any campaign.                                           *)
THEOREM TypeCorrect == Spec => []TypeOK
<1>1. IInv => TypeOK
  BY DEF IInv
<1>. QED  BY <1>1, Inductive, PTL

(* Until two runs overlap, no cause has two open risks and no risk two     *)
(* unresolved escalations, for any causes and any bounds                   *)
(* (_upsert_system_risk, _ensure_escalations).                             *)
THEOREM NothingDoubled == Spec => []OneOfEach
<1>1. ASSUME IInv, overlaps = 0, NEW k  PROVE Cardinality(OpenRisks(k)) <= 1
  <2>1. CASE OpenRisks(k) = {}
    BY <2>1, FS_EmptySet
  <2>2. CASE OpenRisks(k) # {}
    <3>1. PICK r : r \in OpenRisks(k)
      BY <2>2
    <3>2. OpenRisks(k) = {r}
      BY <1>1, <3>1 DEF OpenRisks, IInv, NoneDoubled
    <3>. QED  BY <3>2, FS_Singleton
  <2>. QED  BY <2>1, <2>2
<1>2. IInv => OneOfEach
  BY <1>1 DEF OneOfEach, IInv, NoneDoubled
<1>. QED  BY <1>2, Inductive, PTL

-----------------------------------------------------------------------------
(* A run that is up to date when it commits.                               *)

(* What the run sets on the risks it has found.                            *)
Changed(updated) ==
  {<<updated[c[1]], c[2], c[3]>> : c \in {d \in Causes : OpenRisks(d[1]) # {}}}

LEMMA PlanEscalates ==
  ASSUME NEW updated, headOps
  PROVE  LET p == PlanOf(Causes, updated)
         IN  /\ \A c \in p.insert : Escalates(c[1], c[2], FALSE) => c[1] \in p.alarm
             /\ \A r \in DOMAIN risks :
                  /\ risks[r].open /\ ~Unresolved(r)
                  /\ Escalates(r[1], After(Changed(updated), r).severity,
                               After(Changed(updated), r).aged)
                  => r \in p.escalate
<1>. DEFINE p == PlanOf(Causes, updated)
<1>1. \A c \in p.insert : Escalates(c[1], c[2], FALSE) => c[1] \in p.alarm
  BY DEF PlanOf
<1>2. p.escalate = {r \in DOMAIN risks :
                      /\ risks[r].open /\ ~Unresolved(r)
                      /\ Escalates(r[1], After(Changed(updated), r).severity,
                                   After(Changed(updated), r).aged)}
  BY DEF PlanOf, Changed
<1>. QED  BY <1>1, <1>2

(* The severity a run sees is that of the cause.                           *)
LEMMA SeveritySeen ==
  ASSUME TypeOK, NEW updated \in Upserts, NEW c \in Causes, OpenRisks(c[1]) # {}
  PROVE  After(Changed(updated), updated[c[1]]).severity = c[2]
<1>. DEFINE r == updated[c[1]]
<1>1. r \in OpenRisks(c[1]) /\ r \in DOMAIN risks /\ r[1] = c[1]
  BY UpsertFacts, OpenRiskFacts
<1>2. <<r, c[2], c[3]>> \in Changed(updated)
  BY DEF Changed
<1>3. ASSUME NEW x \in Changed(updated), x[1] = r  PROVE x[2] = c[2]
  <2>1. PICK d \in Causes : OpenRisks(d[1]) # {} /\ x = <<updated[d[1]], d[2], d[3]>>
    BY DEF Changed
  <2>2. updated[d[1]] \in OpenRisks(d[1])
    BY <2>1, UpsertFacts
  <2>3. d[1] = c[1]
    BY <1>1, <1>3, <2>1, <2>2, OpenRiskFacts
  <2>. QED  BY <2>1, <2>3, CausesUnique
<1>. DEFINE x == CHOOSE x \in Changed(updated) : x[1] = r
<1>4. x \in Changed(updated) /\ x[1] = r
  BY <1>2
<1>5. After(Changed(updated), r) =
        [risks[r] EXCEPT !.severity = x[2], !.why = x[3],
                         !.aged = @ /\ risks[r].severity = x[2] /\ risks[r].why = x[3]]
  BY <1>4, Zenon DEF After
<1>6. risks[r] \in Row
  BY <1>1 DEF TypeOK
<1>. HIDE DEF x, r
<1>7. "severity" \in DOMAIN risks[r]
  BY <1>6 DEF Row
<1>8. After(Changed(updated), r).severity = x[2]
  BY <1>5, <1>7
<1>. QED  BY <1>3, <1>4, <1>8 DEF r

(* A commit does not touch what causes depend on.                          *)
LEMMA CausesStay ==
  ASSUME TypeOK, now' = now, \A l \in Loads : ledger'[l].approved = ledger[l].approved
  PROVE  Causes' = Causes
<1>1. OpenSteps' = OpenSteps /\ \A x : Late(x)' = Late(x)
  BY DEF OpenSteps, Late
<1>2. StepCauses' = StepCauses
  BY <1>1 DEF StepCauses
<1>3. WindowCauses' = WindowCauses
  BY <1>1 DEF WindowCauses
<1>4. CapacityCauses' = CapacityCauses
  BY DEF CapacityCauses
<1>5. \A d, s : SignalOf(d, s)' = SignalOf(d, s)
  BY <1>1 DEF SignalOf, Timeliness, Stagnation, DependencyBlockage, Replanning
<1>6. (\A s : StepSignals(s)' = StepSignals(s)) /\ WindowSignals' = WindowSignals
  BY <1>1, <1>5 DEF StepSignals, WindowSignals
<1>7. HealthCauses' = HealthCauses
  BY <1>1, <1>6, Zenon DEF HealthCauses
<1>. QED  BY <1>2, <1>3, <1>4, <1>7, Zenon DEF Causes

LEMMA FreshRun ==
  ASSUME IInv, NEW j \in Jobs, Commit(j), UpToDate(j)
  PROVE  /\ Settled'
         /\ \A e \in escalations' : risks'[e[1]].open \/ risks[e[1]].open
<1>. DEFINE p == job[j].plan
<1>1. /\ escalations' = (escalations \ p.resolve) \union {NewEscalation(r) : r \in RaisedFor(j)}
      /\ DOMAIN risks' = Kept(j)
      /\ \A q \in Kept(j) \ NewRisks(j) : risks'[q] = Written(p, q)
      /\ \A q \in NewRisks(j) : \E c \in p.insert :
           c[1] = q[1] /\ risks'[q] = [open |-> TRUE, severity |-> c[2], why |-> c[3],
                                       aged |-> FALSE]
      /\ UNCHANGED <<now, headOps>>
  BY CommitEffect
<1>2. PICK updated \in Upserts : p = PlanOf(Causes, updated)
  BY DEF UpToDate
<1>3. PlanReads(p, updated)
  BY <1>2, PlanFields
<1>4. TypeOK /\ Fits(j) /\ \A q \in DOMAIN risks : risks[q] \in Row
  BY DEF IInv, Commit, TypeOK
<1>5. Causes' = Causes
  <2>1. ledger' = [l \in Loads |-> IF l \in DOMAIN p.hours
                                   THEN [ledger[l] EXCEPT !.known = TRUE, !.over = p.hours[l]]
                                   ELSE ledger[l]]
    BY DEF Commit
  <2>2. ASSUME NEW l \in Loads  PROVE ledger'[l].approved = ledger[l].approved
    <3>1. ledger[l] \in LedgerRow
      BY <1>4 DEF TypeOK
    <3>. QED  BY <2>1, <3>1 DEF LedgerRow
  <2>. QED  BY <1>1, <1>4, <2>2, CausesStay
<1>6. ASSUME NEW q \in NewRisks(j)
      PROVE  /\ q \in Kept(j) /\ q \notin DOMAIN risks /\ risks'[q].open
             /\ \E c \in p.insert : c[1] = q[1] /\ q = NewRisk(j, c[1])
  <2>1. q \in Kept(j) /\ risks'[q].open
    BY <1>1 DEF Kept
  <2>. QED  BY <1>4, <2>1, NewRows DEF NewRisks
<1>7. ASSUME NEW q \in DOMAIN risks, risks[q].open, q \notin p.close
      PROVE  q \in Kept(j) /\ risks'[q].open
  <2>1. q \in Kept(j) /\ q \notin NewRisks(j)
    BY <1>6, <1>7 DEF Kept
  <2>2. risks'[q] = Written(p, q) /\ Written(p, q).open = (risks[q].open /\ q \notin p.close)
    BY <1>1, <2>1, WrittenRow
  <2>. QED  BY <1>7, <2>1, <2>2, Zenon
<1>8. ASSUME NEW q \in Kept(j), q \notin NewRisks(j), risks'[q].open
      PROVE  q \in DOMAIN risks /\ risks[q].open /\ q \notin p.close
  <2>1. q \in DOMAIN risks
    BY <1>8 DEF Kept
  <2>2. risks'[q] = Written(p, q) /\ Written(p, q).open = (risks[q].open /\ q \notin p.close)
    BY <1>1, <1>8, <2>1, WrittenRow
  <2>. QED  BY <1>8, <2>1, <2>2, Zenon
<1>9. ASSUME NEW c \in Causes, NEW r \in OpenRisks(c[1])  PROVE r \notin p.close
  BY <1>3, <1>9, OpenRiskFacts DEF PlanReads, ToClose, KeysOf
<1>10. ASSUME NEW c \in Causes, OpenRisks(c[1]) = {}
       PROVE  c \in p.insert /\ NewRisk(j, c[1]) \in NewRisks(j) /\ NewRisk(j, c[1])[1] = c[1]
  <2>1. c \in p.insert
    BY <1>3, <1>10 DEF PlanReads
  <2>. QED  BY <1>4, <2>1, NewRows DEF NewRisks
<1>11. ASSUME NEW k  PROVE OpenRisks(k)' # {} <=> k \in KeysOf(Causes)
  <2>1. ASSUME NEW r \in OpenRisks(k)'  PROVE k \in KeysOf(Causes)
    <3>1. r \in Kept(j) /\ r[1] = k /\ risks'[r].open
      BY <1>1 DEF OpenRisks
    <3>2. CASE r \in NewRisks(j)
      BY <1>3, <1>6, <3>1, <3>2 DEF PlanReads, KeysOf
    <3>3. CASE r \notin NewRisks(j)
      BY <1>3, <1>8, <3>1, <3>3 DEF PlanReads, ToClose
    <3>. QED  BY <3>2, <3>3
  <2>2. ASSUME NEW c \in Causes, c[1] = k  PROVE OpenRisks(k)' # {}
    <3>1. CASE OpenRisks(k) = {}
      BY <1>1, <1>6, <1>10, <2>2, <3>1 DEF OpenRisks
    <3>2. CASE OpenRisks(k) # {}
      <4>1. PICK r : r \in OpenRisks(k)
        BY <3>2
      <4>2. r \in Kept(j) /\ risks'[r].open /\ r[1] = k
        BY <1>7, <1>9, <2>2, <4>1, OpenRiskFacts
      <4>. QED  BY <1>1, <4>2 DEF OpenRisks
    <3>. QED  BY <3>1, <3>2
  <2>. QED  BY <2>1, <2>2 DEF KeysOf
<1>12. ASSUME headOps, NEW c \in Causes, c[2] \in {"high", "critical"}
       PROVE  \E r \in OpenRisks(c[1])' : Escalated(r)'
  <2>1. \A k, aged : Escalates(k, c[2], aged)
    BY <1>12 DEF Escalates
  <2>2. CASE OpenRisks(c[1]) = {}
    <3>. DEFINE r == NewRisk(j, c[1])
    <3>1. r \in NewRisks(j) /\ r[1] = c[1] /\ r \in Kept(j) /\ risks'[r].open
      BY <1>6, <1>10, <2>2
    <3>2. c[1] \in p.alarm
      BY <1>2, <1>10, <1>12, <2>1, <2>2, PlanEscalates
    <3>3. NewEscalation(r) \in escalations' /\ NewEscalation(r)[1] = r
      BY <1>1, <3>2 DEF RaisedFor, NewEscalation
    <3>. QED  BY <1>1, <3>1, <3>3 DEF OpenRisks, Escalated
  <2>3. CASE OpenRisks(c[1]) # {}
    <3>. DEFINE r == updated[c[1]]
    <3>1. r \in OpenRisks(c[1]) /\ r \in DOMAIN risks /\ r[1] = c[1] /\ risks[r].open
      BY <2>3, UpsertFacts, OpenRiskFacts
    <3>2. r \notin p.close /\ r \in Kept(j) /\ risks'[r].open
      BY <1>7, <1>9, <3>1
    <3>3. Escalates(r[1], After(Changed(updated), r).severity, After(Changed(updated), r).aged)
      BY <1>4, <2>1, <2>3, SeveritySeen
    <3>. HIDE DEF r
    <3>4. CASE Unresolved(r)
      <4>1. PICK e \in escalations : e[1] = r
        BY <3>4 DEF Unresolved
      <4>2. e \notin p.resolve
        BY <1>3, <3>1, <3>2, <4>1 DEF PlanReads
      <4>. QED  BY <1>1, <3>1, <3>2, <4>1, <4>2 DEF OpenRisks, Escalated
    <3>5. CASE ~Unresolved(r)
      <4>1. r \in p.escalate
        BY <1>2, <1>12, <3>1, <3>3, <3>5, PlanEscalates
      <4>2. NewEscalation(r) \in escalations' /\ NewEscalation(r)[1] = r
        BY <1>1, <4>1 DEF RaisedFor, NewEscalation
      <4>. QED  BY <1>1, <3>1, <3>2, <4>2 DEF OpenRisks, Escalated
    <3>. QED  BY <3>4, <3>5
  <2>. QED  BY <2>2, <2>3
<1>13. Settled'
  <2>1. \A k \in Keys : (OpenRisks(k)' # {} <=> k \in KeysOf(Causes)')
    BY <1>5, <1>11 DEF KeysOf
  <2>2. ASSUME headOps', NEW k \in Keys, Severe(k)'
        PROVE  \E r \in OpenRisks(k)' : Escalated(r)'
    <3>1. PICK c \in Causes : c[1] = k /\ c[2] \in {"high", "critical"}
      BY <1>5, <2>2 DEF Severe
    <3>. QED  BY <1>1, <1>12, <2>2, <3>1
  <2>. QED  BY <2>1, <2>2 DEF Settled
<1>14. ASSUME NEW e \in escalations'  PROVE risks'[e[1]].open \/ risks[e[1]].open
  <2>1. CASE e \in escalations /\ e \notin p.resolve
    BY <1>3, <2>1 DEF PlanReads
  <2>2. CASE \E r \in RaisedFor(j) : e = NewEscalation(r)
    <3>1. PICK r \in RaisedFor(j) : e = NewEscalation(r)
      BY <2>2
    <3>2. e[1] = r
      BY <3>1 DEF NewEscalation
    <3>3. CASE r \in p.escalate
      BY <1>3, <3>2, <3>3 DEF PlanReads
    <3>4. CASE \E k \in p.alarm : r = NewRisk(j, k)
      <4>1. PICK k \in p.alarm : r = NewRisk(j, k)
        BY <3>4
      <4>2. PICK c \in p.insert : c[1] = k
        BY <1>3 DEF PlanReads
      <4>3. r \in NewRisks(j)
        BY <4>1, <4>2 DEF NewRisks
      <4>. QED  BY <1>6, <3>2, <4>3
    <3>. QED  BY <3>3, <3>4 DEF RaisedFor
  <2>. QED  BY <1>1, <2>1, <2>2
<1>. QED  BY <1>13, <1>14

(* One run that is up to date when it commits is enough: it leaves exactly *)
(* the risks that have a cause, the severe ones escalated, whatever other  *)
(* runs and people left, for any campaign (run_all).                       *)
THEOREM FreshRunsSettle == Spec => FreshRunSettles
<1>1. IInv => \A j \in Jobs : Commit(j) /\ UpToDate(j) =>
                /\ Settled'
                /\ \A e \in escalations' : risks'[e[1]].open \/ risks[e[1]].open
  BY FreshRun
<1>. QED  BY <1>1, Inductive, PTL DEF FreshRunSettles
=============================================================================
