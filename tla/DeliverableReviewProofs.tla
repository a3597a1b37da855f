----------------------- MODULE DeliverableReviewProofs ----------------------
(***************************************************************************)
(* Theorems about DeliverableReview, for any number of threads, steps and  *)
(* rounds.                                                                 *)
(***************************************************************************)
EXTENDS DeliverableReview, TLAPS

-----------------------------------------------------------------------------
(* The statuses RULES leads to.                                            *)
LEMMA RuleTargets ==
  ASSUME NEW from, NEW to, <<from, to>> \in Rules
  PROVE  to \in {"in_progress", "awaiting_internal_review",
                 "internal_review_complete", "awaiting_client_review",
                 "client_changes_requested", "approved", "ready_to_publish",
                 "scheduled_or_published", "complete"}
  BY DEF Rules

(* A transition stamps and clears timestamps, starts at most one round and *)
(* names a wait.                                                           *)
LEMMA EffectTypes ==
  ASSUME NEW from, NEW to, <<from, to>> \in Rules
  PROVE  /\ StampsSet(to) \subseteq Stamps
         /\ StampsCleared(to) \subseteq {"awaiting_internal_review_since",
                                         "awaiting_client_review_since"}
         /\ StartsRound(to) \in Kinds \union {"none"}
         /\ ClosesKinds(to) \subseteq Kinds
         /\ StepsWaitOn(to) \in Waits
<1>1. StampsSet(to) \subseteq Stamps
  BY RuleTargets DEF StampsSet, Stamps
<1>2. StampsCleared(to) \subseteq {"awaiting_internal_review_since",
                                   "awaiting_client_review_since"}
  BY RuleTargets DEF StampsCleared
<1>3. StartsRound(to) \in Kinds \union {"none"}
  BY RuleTargets DEF StartsRound, Kinds
<1>4. ClosesKinds(to) \subseteq Kinds
  BY RuleTargets DEF ClosesKinds, Kinds
<1>5. StepsWaitOn(to) \in Waits
  BY RuleTargets DEF StepsWaitOn, Waits
<1> QED
  BY <1>1, <1>2, <1>3, <1>4, <1>5

(* The window a round opens is a window of that round.                     *)
LEMMA OpenedRound ==
  ASSUME NEW w \in Workers, NEW k \in Kinds, NEW n \in Rounds,
         NEW reopen \in BOOLEAN,
         NEW opened \in OpenedWindows(w, k, n, reopen)
  PROVE  /\ opened \subseteq Windows
         /\ \A r \in opened : r[1] = k /\ r[2] = n
  BY DEF OpenedWindows, Windows

-----------------------------------------------------------------------------
(* What an opening session decides to write, by the request it serves.     *)
Transits(to, m) ==
  /\ <<CurrentStatus(stamps), to>> \in Rules
  /\ m.set = StampsSet(to) /\ m.unset = StampsCleared(to)
  /\ m.kind = StartsRound(to) /\ m.closed = OpenWindows(ClosesKinds(to))
  /\ m.wait = StepsWaitOn(to) /\ m.waiters = Waiters(to)

Increments(m) ==
  /\ m.kind \in Kinds
  /\ m.set = {} /\ m.unset = {} /\ m.closed = {} /\ m.waiters = {}

Numbers(w, m) ==
  \/ m.kind = "none" /\ m.opened = {}
  \/ /\ m.kind \in Kinds
     /\ m.round \in Rounds /\ m.round = rounds[m.kind] + 1
     /\ \E reopen \in BOOLEAN : m.opened \in OpenedWindows(w, m.kind, m.round, reopen)

Decides(w, m) == Numbers(w, m) /\ (Increments(m) \/ \E to \in Targets : Transits(to, m))

(* A request that begins opens a session with such writes.                 *)
LEMMA BeginDecides ==
  ASSUME TypeOK, NEW w \in Workers,
         \/ \E to \in Targets : Transition(w, to)
         \/ \E k \in Manual : IncrementRound(w, k)
  PROVE  \E m \in Writes : Idle(w) /\ Start(w, m) /\ Decides(w, m)
<1>1. ASSUME NEW to \in Targets, Transition(w, to)
      PROVE  \E m \in Writes : Idle(w) /\ Start(w, m) /\ Decides(w, m)
  <2> DEFINE k == StartsRound(to)
             n == IF k = "none" THEN 0 ELSE rounds[k] + 1
             choices == IF k = "none" THEN {{}} ELSE OpenedWindows(w, k, n, FALSE)
             m(opened) == [set |-> StampsSet(to), unset |-> StampsCleared(to),
                           kind |-> k, round |-> n,
                           opened |-> opened, closed |-> OpenWindows(ClosesKinds(to)),
                           wait |-> StepsWaitOn(to), waiters |-> Waiters(to)]
  <2>1. /\ Idle(w) /\ <<CurrentStatus(stamps), to>> \in Rules /\ n <= MaxRound
        /\ \E opened \in choices : Start(w, m(opened))
    BY <1>1 DEF Transition
  <2>2. PICK opened \in choices : Start(w, m(opened))
    BY <2>1
  <2>3. /\ StampsSet(to) \subseteq Stamps
        /\ StampsCleared(to) \subseteq Stamps
        /\ k \in Kinds \union {"none"}
        /\ StepsWaitOn(to) \in Waits
    BY <2>1, EffectTypes DEF Stamps
  <2>4. k # "none" => n \in Rounds
    BY <2>1, <2>3, BoundsAssumption DEF TypeOK, Rounds
  <2>5. n \in 0..MaxRound
    BY <2>4, BoundsAssumption DEF Rounds
  <2>6. opened \subseteq Windows
    <3>1. CASE k = "none"
      BY <3>1, <2>2
    <3>2. CASE k # "none"
      <4>1. k \in Kinds /\ n \in Rounds /\ opened \in OpenedWindows(w, k, n, FALSE)
        BY <3>2, <2>2, <2>3, <2>4
      <4> HIDE DEF k, n
      <4> QED
        BY <4>1, OpenedRound
    <3> QED
      BY <3>1, <3>2
  <2>7. OpenWindows(ClosesKinds(to)) \subseteq Windows /\ Waiters(to) \subseteq Steps
    BY DEF OpenWindows, Waiters, OpenSteps
  <2>8. m(opened) \in Writes
    BY <2>3, <2>5, <2>6, <2>7 DEF Writes
  <2>9. Transits(to, m(opened))
    BY <2>1 DEF Transits
  <2>10. Numbers(w, m(opened))
    <3>1. CASE k = "none"
      BY <3>1, <2>2 DEF Numbers
    <3>2. CASE k # "none"
      BY <3>2, <2>2, <2>3, <2>4 DEF Numbers
    <3> QED
      BY <3>1, <3>2
  <2> HIDE DEF m
  <2> QED
    BY <2>1, <2>2, <2>8, <2>9, <2>10 DEF Decides
<1>2. ASSUME NEW k \in Manual, IncrementRound(w, k)
      PROVE  \E m \in Writes : Idle(w) /\ Start(w, m) /\ Decides(w, m)
  <2> DEFINE m(opened) == [set |-> {}, unset |-> {}, kind |-> k, round |-> rounds[k] + 1,
                           opened |-> opened, closed |-> {}, wait |-> "none", waiters |-> {}]
  <2>1. /\ Idle(w) /\ rounds[k] < MaxRound
        /\ \E opened \in OpenedWindows(w, k, rounds[k] + 1, TRUE) : Start(w, m(opened))
    BY <1>2 DEF IncrementRound
  <2>2. PICK opened \in OpenedWindows(w, k, rounds[k] + 1, TRUE) : Start(w, m(opened))
    BY <2>1
  <2>3. k \in Kinds
    BY AskedAssumption
  <2>4. rounds[k] + 1 \in Rounds /\ rounds[k] + 1 \in 0..MaxRound
    BY <2>1, <2>3, BoundsAssumption DEF TypeOK, Rounds
  <2>5. opened \subseteq Windows
    BY <2>2, <2>3, <2>4 DEF OpenedWindows, Windows
  <2>6. m(opened) \in Writes
    BY <2>3, <2>4, <2>5 DEF Writes, Waits
  <2>7. Increments(m(opened)) /\ Numbers(w, m(opened))
    BY <2>2, <2>3, <2>4 DEF Increments, Numbers
  <2> HIDE DEF m
  <2> QED
    BY <2>1, <2>2, <2>6, <2>7 DEF Decides
<1> QED
  BY <1>1, <1>2

(* The steps of the system, as the proofs below take them apart.           *)
Begins == \E w \in Workers, m \in Writes : Idle(w) /\ Start(w, m) /\ Decides(w, m)
Ends == \E w \in Workers : Commit(w) \/ Abort(w)
Changes == \E s \in Steps, done \in BOOLEAN, wait \in Waits : ChangeStep(s, done, wait)

LEMMA StepCases ==
  ASSUME TypeOK, [Next]_vars
  PROVE  Begins \/ Ends \/ MarkReadyToPublish \/ Changes \/ UNCHANGED vars
  BY BeginDecides DEF Next, Begins, Ends, Changes

-----------------------------------------------------------------------------
(* Every column, row and open session keeps its type.                      *)
THEOREM TypeCorrect == Spec => []TypeOK
<1>1. Init => TypeOK
  <2> SUFFICES ASSUME Init PROVE TypeOK
    OBVIOUS
  <2>1. stamps \subseteq Stamps /\ finished \subseteq Steps /\ overlapped \in BOOLEAN
    BY DEF Init, Stamps
  <2>2. rounds \in [Kinds -> 0..MaxRound] /\ events \in [Kinds -> 0..MaxEvents]
    BY BoundsAssumption DEF Init
  <2>3. window \in [Windows -> WindowStatus]
    BY DEF Init, WindowStatus
  <2>4. waiting \in [Steps -> Waits]
    BY DEF Init, Waits
  <2>5. tx \in [Workers -> Writes \union {NoTx}]
    BY DEF Init
  <2> QED
    BY <2>1, <2>2, <2>3, <2>4, <2>5 DEF TypeOK
<1>2. TypeOK /\ [Next]_vars => TypeOK'
  <2> SUFFICES ASSUME TypeOK, [Next]_vars PROVE TypeOK'
    OBVIOUS
  <2>1. CASE Begins
    BY <2>1 DEF Begins, Start, Overlaps, TypeOK
  <2>2. ASSUME NEW w \in Workers, Commit(w) PROVE TypeOK'
    <3> DEFINE m == tx[w]
    <3>1. m \in Writes
      BY <2>2 DEF Commit, Idle, TypeOK
    <3>2. stamps' \subseteq Stamps
      BY <2>2, <3>1 DEF Commit, TypeOK, Writes
    <3>3. rounds' \in [Kinds -> 0..MaxRound]
      BY <2>2, <3>1 DEF Commit, TypeOK, Writes
    <3>4. events' \in [Kinds -> 0..MaxEvents]
      BY <2>2, <3>1, BoundsAssumption DEF Commit, TypeOK, Writes
    <3>5. window' \in [Windows -> WindowStatus]
      BY <2>2 DEF Commit, TypeOK, WindowStatus
    <3>6. waiting' \in [Steps -> Waits]
      BY <2>2, <3>1 DEF Commit, TypeOK, Writes
    <3>7. finished' \subseteq Steps /\ overlapped' \in BOOLEAN
          /\ tx' \in [Workers -> Writes \union {NoTx}]
      BY <2>2 DEF Commit, TypeOK
    <3> QED
      BY <3>2, <3>3, <3>4, <3>5, <3>6, <3>7 DEF TypeOK
  <2>3. ASSUME NEW w \in Workers, Abort(w) PROVE TypeOK'
    BY <2>3 DEF Abort, TypeOK
  <2>4. CASE MarkReadyToPublish
    BY <2>4 DEF MarkReadyToPublish, Overlaps, TypeOK, Stamps
  <2>5. CASE Changes
    BY <2>5 DEF Changes, ChangeStep, Overlaps, TypeOK
  <2>6. CASE UNCHANGED vars
    BY <2>6 DEF vars, TypeOK
  <2> QED
    BY StepCases, <2>1, <2>2, <2>3, <2>4, <2>5, <2>6 DEF Ends
<1> QED
  BY <1>1, <1>2, PTL DEF Spec

-----------------------------------------------------------------------------
(* The windows a session opens are those of the round it numbers, and      *)
(* belong to no session that starts no round.                              *)
LEMMA OpensOwnRound ==
  ASSUME NEW w \in Workers, NEW m \in Writes, Numbers(w, m)
  PROVE  \A r \in m.opened :
           m.kind \in Kinds /\ m.round \in Rounds /\ r[1] = m.kind /\ r[2] = m.round
<1>1. CASE m.kind = "none" /\ m.opened = {}
  BY <1>1
<1>2. CASE ~(m.kind = "none" /\ m.opened = {})
  BY <1>2, OpenedRound DEF Numbers
<1> QED
  BY <1>1, <1>2

(* The windows a session closes are there.                                 *)
LEMMA ClosesPresent ==
  ASSUME NEW w \in Workers, NEW m \in Writes, Decides(w, m)
  PROVE  \A r \in m.closed : r \in Windows /\ window[r] = "open"
  BY DEF Decides, Increments, Transits, OpenWindows

(* What RoundsAreRecorded needs to survive: a session's own round is at    *)
(* most one ahead of the events, also of those recorded since it began.    *)
Recorded ==
  /\ \A k \in Kinds : rounds[k] <= events[k]
  /\ \A r \in Windows : window[r] # "absent" => r[2] <= events[r[1]]
  /\ \A w \in Workers : ~Idle(w) =>
       /\ tx[w].kind # "none" => tx[w].round <= events[tx[w].kind] + 1
       /\ \A r \in tx[w].opened : tx[w].kind \in Kinds /\ r[1] = tx[w].kind /\ r[2] = tx[w].round
       /\ \A r \in tx[w].closed : window[r] # "absent"

(* However requests overlap, no counter runs ahead of the recorded events. *)
THEOREM RoundsRecorded == Spec => []RoundsAreRecorded
<1>1. Init => Recorded
  BY DEF Init, Recorded, Idle
<1>2. TypeOK /\ TypeOK' /\ Recorded /\ [Next]_vars => Recorded'
  <2> SUFFICES ASSUME TypeOK, TypeOK', Recorded, [Next]_vars PROVE Recorded'
    OBVIOUS
  <2>1. ASSUME NEW w \in Workers, NEW m \in Writes, Idle(w), Start(w, m), Decides(w, m)
        PROVE  Recorded'
    <3>1. m.kind # "none" => m.round <= events[m.kind] + 1
      BY <2>1 DEF Decides, Numbers, Recorded, TypeOK
    <3>2. \A r \in m.opened : m.kind \in Kinds /\ r[1] = m.kind /\ r[2] = m.round
      BY <2>1, OpensOwnRound DEF Decides
    <3>3. \A r \in m.closed : window[r] # "absent"
      BY <2>1, ClosesPresent
    <3>4. \A v \in Workers : tx'[v] = IF v = w THEN m ELSE tx[v]
      BY <2>1 DEF Start, TypeOK
    <3>5. UNCHANGED <<rounds, events, window>>
      BY <2>1 DEF Start
    <3> QED
      BY <3>1, <3>2, <3>3, <3>4, <3>5 DEF Recorded, Idle
  <2>2. ASSUME NEW w \in Workers, Commit(w) PROVE Recorded'
    <3> DEFINE m == tx[w]
    <3>1. /\ m \in Writes
          /\ m.kind # "none" => m.round <= events[m.kind] + 1
          /\ \A r \in m.opened : m.kind \in Kinds /\ r[1] = m.kind /\ r[2] = m.round
          /\ \A r \in m.closed : window[r] # "absent"
      BY <2>2 DEF Commit, Idle, TypeOK, Recorded
    <3>2. m.kind \in Kinds \union {"none"} /\ m.round \in 0..MaxRound
      BY <3>1 DEF Writes
    <3>3. \A k \in Kinds : /\ events[k] \in Nat /\ rounds[k] \in Nat
                           /\ events'[k] = IF k = m.kind THEN events[k] + 1 ELSE events[k]
                           /\ rounds'[k] = IF k = m.kind THEN m.round ELSE rounds[k]
      BY <2>2, <3>2, BoundsAssumption DEF Commit, TypeOK, Kinds
    <3>4. \A k \in Kinds : rounds'[k] <= events'[k]
      BY <3>1, <3>2, <3>3, BoundsAssumption DEF Recorded, Kinds
    <3>5. \A r \in Windows : window'[r] # "absent" => window[r] # "absent" \/ r \in m.opened
      BY <2>2, <3>1 DEF Commit
    <3>6. \A r \in Windows : r[1] \in Kinds /\ r[2] \in Int
      BY BoundsAssumption DEF Windows, Rounds
    <3>7. \A r \in Windows : window'[r] # "absent" => r[2] <= events'[r[1]]
      <4> SUFFICES ASSUME NEW r \in Windows, window'[r] # "absent"
                   PROVE  r[2] <= events'[r[1]]
        OBVIOUS
      <4>1. CASE window[r] # "absent"
        BY <4>1, <3>3, <3>6 DEF Recorded
      <4>2. CASE r \in m.opened
        <5>1. r[1] = m.kind /\ m.kind \in Kinds /\ r[2] = m.round /\ m.kind # "none"
          BY <4>2, <3>1 DEF Kinds
        <5> HIDE DEF m
        <5> QED
          BY <5>1, <3>1, <3>3
      <4> QED
        BY <4>1, <4>2, <3>5
    <3>8. \A r \in Windows : window[r] # "absent" => window'[r] # "absent"
      BY <2>2 DEF Commit
    <3>9. \A v \in Workers : tx'[v] = IF v = w THEN NoTx ELSE tx[v]
      BY <2>2 DEF Commit, TypeOK
    <3>10. ASSUME NEW v \in Workers, ~(Idle(v))'
           PROVE  /\ tx'[v].kind # "none" => tx'[v].round <= events'[tx'[v].kind] + 1
                  /\ \A r \in tx'[v].opened : tx'[v].kind \in Kinds /\ r[1] = tx'[v].kind /\ r[2] = tx'[v].round
                  /\ \A r \in tx'[v].closed : window'[r] # "absent"
      <4>1. tx'[v] = tx[v] /\ tx[v] \in Writes /\ ~Idle(v)
        BY <3>9, <3>10 DEF Idle, TypeOK
      <4>2. tx[v].kind \in Kinds \union {"none"} /\ tx[v].closed \subseteq Windows /\ tx[v].round \in Int
        BY <4>1, BoundsAssumption DEF Writes
      <4>3. tx[v].kind # "none" => tx[v].round <= events'[tx[v].kind] + 1
        BY <4>1, <4>2, <3>3 DEF Recorded
      <4>4. \A r \in tx[v].closed : window'[r] # "absent"
        BY <4>1, <4>2, <3>8 DEF Recorded
      <4> QED
        BY <4>1, <4>3, <4>4 DEF Recorded
    <3> QED
      BY <3>4, <3>7, <3>10 DEF Recorded
  <2>3. ASSUME NEW w \in Workers, Abort(w) PROVE Recorded'
    BY <2>3 DEF Abort, Recorded, Idle, TypeOK
  <2>4. CASE MarkReadyToPublish
    BY <2>4 DEF MarkReadyToPublish, Recorded, Idle
  <2>5. CASE Changes
    BY <2>5 DEF Changes, ChangeStep, Recorded, Idle
  <2>6. CASE UNCHANGED vars
    BY <2>6 DEF vars, Recorded, Idle
  <2> QED
    BY StepCases, <2>1, <2>2, <2>3, <2>4, <2>5, <2>6 DEF Begins, Ends
<1>3. Recorded => RoundsAreRecorded
  BY DEF Recorded, RoundsAreRecorded
<1> QED
  BY <1>1, <1>2, <1>3, TypeCorrect, PTL DEF Spec

-----------------------------------------------------------------------------
(* What a session may do to a sign-off: it never clears one.               *)
ClearsReviewsOnly ==
  \A w \in Workers : ~Idle(w) =>
    tx[w].unset \subseteq {"awaiting_internal_review_since", "awaiting_client_review_since"}

LEMMA SignOffMonotone ==
  ASSUME NEW A, NEW B,
         \A x \in {"approved_at", "ready_to_publish_at", "scheduled_or_published_at",
                   "actual_done"} : x \in A => x \in B
  PROVE  SignOff(CurrentStatus(B)) >= SignOff(CurrentStatus(A))
  BY DEF SignOff, CurrentStatus

(* However requests overlap, a sign-off holds.                             *)
THEOREM SignOffsHold == Spec => SignOffHolds
<1>1. Init => ClearsReviewsOnly
  BY DEF Init, ClearsReviewsOnly, Idle
<1>2. TypeOK /\ ClearsReviewsOnly /\ [Next]_vars => ClearsReviewsOnly'
  <2> SUFFICES ASSUME TypeOK, ClearsReviewsOnly, [Next]_vars PROVE ClearsReviewsOnly'
    OBVIOUS
  <2>1. ASSUME NEW w \in Workers, NEW m \in Writes, Start(w, m), Decides(w, m)
        PROVE  ClearsReviewsOnly'
    <3>1. m.unset \subseteq {"awaiting_internal_review_since", "awaiting_client_review_since"}
      BY <2>1, EffectTypes DEF Decides, Increments, Transits
    <3> QED
      BY <2>1, <3>1 DEF Start, ClearsReviewsOnly, Idle, TypeOK
  <2>2. CASE Ends
    BY <2>2 DEF Ends, Commit, Abort, ClearsReviewsOnly, Idle, TypeOK
  <2>3. CASE MarkReadyToPublish \/ Changes \/ UNCHANGED vars
    BY <2>3 DEF MarkReadyToPublish, Changes, ChangeStep, vars, ClearsReviewsOnly, Idle
  <2> QED
    BY StepCases, <2>1, <2>2, <2>3 DEF Begins
<1>3. TypeOK /\ ClearsReviewsOnly /\ [Next]_vars
        => [SignOff(CurrentStatus(stamps')) >= SignOff(CurrentStatus(stamps))]_vars
  <2> SUFFICES ASSUME TypeOK, ClearsReviewsOnly, [Next]_vars
               PROVE  SignOff(CurrentStatus(stamps')) >= SignOff(CurrentStatus(stamps))
    OBVIOUS
  <2>1. \A x \in {"approved_at", "ready_to_publish_at", "scheduled_or_published_at",
                  "actual_done"} : x \in stamps => x \in stamps'
    <3>1. CASE Ends
      BY <3>1 DEF Ends, Commit, Abort, ClearsReviewsOnly
    <3>2. CASE ~Ends
      BY <3>2, StepCases DEF Begins, Start, MarkReadyToPublish, Changes, ChangeStep, vars
    <3> QED
      BY <3>1, <3>2
  <2> QED
    BY <2>1, SignOffMonotone
<1> QED
  BY <1>1, <1>2, <1>3, TypeCorrect, PTL DEF Spec, SignOffHolds

-----------------------------------------------------------------------------
(* What ApprovalFollowsReview needs to survive.                            *)
Reviewed ==
  /\ "awaiting_client_review_since" \in stamps \/ "approved_at" \in stamps
       => rounds["client"] >= 1
  /\ \A w \in Workers : ~Idle(w) =>
       /\ tx[w].kind # "none" => tx[w].round >= 1
       /\ "approved_at" \in tx[w].set => rounds["client"] >= 1
       /\ "awaiting_client_review_since" \in tx[w].set => tx[w].kind = "client"

(* However requests overlap, an approval follows a client round.           *)
THEOREM ApprovalsFollowReviews == Spec => []ApprovalFollowsReview
<1>1. Init => Reviewed
  BY DEF Init, Reviewed, Idle
<1>2. TypeOK /\ Reviewed /\ [Next]_vars => Reviewed'
  <2> SUFFICES ASSUME TypeOK, Reviewed, [Next]_vars PROVE Reviewed'
    OBVIOUS
  <2>1. ASSUME NEW w \in Workers, NEW m \in Writes, Start(w, m), Decides(w, m)
        PROVE  Reviewed'
    <3>1. m.kind # "none" => m.round >= 1
      BY <2>1, BoundsAssumption DEF Decides, Numbers, Rounds
    <3>2. "approved_at" \in m.set => rounds["client"] >= 1
      <4> SUFFICES ASSUME "approved_at" \in m.set PROVE rounds["client"] >= 1
        OBVIOUS
      <4>1. PICK to \in Targets : Transits(to, m)
        BY <2>1 DEF Decides, Increments
      <4>2. to = "approved" /\ <<CurrentStatus(stamps), to>> \in Rules
        BY <4>1, RuleTargets DEF Transits, StampsSet
      <4>3. CurrentStatus(stamps) = "awaiting_client_review"
        BY <4>2 DEF Rules
      <4>4. "awaiting_client_review_since" \in stamps
        BY <4>3 DEF CurrentStatus
      <4> QED
        BY <4>4 DEF Reviewed
    <3>3. "awaiting_client_review_since" \in m.set => m.kind = "client"
      <4> SUFFICES ASSUME "awaiting_client_review_since" \in m.set PROVE m.kind = "client"
        OBVIOUS
      <4>1. PICK to \in Targets : Transits(to, m)
        BY <2>1 DEF Decides, Increments
      <4>2. to = "awaiting_client_review"
        BY <4>1, RuleTargets DEF Transits, StampsSet
      <4> QED
        BY <4>1, <4>2 DEF Transits, StartsRound
    <3> QED
      BY <2>1, <3>1, <3>2, <3>3 DEF Start, Reviewed, Idle, TypeOK
  <2>2. ASSUME NEW w \in Workers, Commit(w) PROVE Reviewed'
    <3> DEFINE m == tx[w]
    <3>1. /\ m \in Writes
          /\ m.kind # "none" => m.round >= 1
          /\ "approved_at" \in m.set => rounds["client"] >= 1
          /\ "awaiting_client_review_since" \in m.set => m.kind = "client"
      BY <2>2 DEF Commit, Idle, TypeOK, Reviewed
    <3>2. rounds'["client"] = IF m.kind = "client" THEN m.round ELSE rounds["client"]
      BY <2>2, <3>1 DEF Commit, TypeOK, Kinds
    <3>3. /\ rounds["client"] >= 1 => rounds'["client"] >= 1
          /\ m.kind = "client" => rounds'["client"] >= 1
      BY <3>1, <3>2
    <3>4. \A x \in Stamps : x \in stamps' => x \in stamps \/ x \in m.set
      BY <2>2 DEF Commit
    <3>5. "awaiting_client_review_since" \in stamps' \/ "approved_at" \in stamps'
            => rounds'["client"] >= 1
      BY <3>1, <3>3, <3>4 DEF Reviewed, Stamps
    <3> QED
      BY <2>2, <3>3, <3>5 DEF Commit, Reviewed, Idle, TypeOK
  <2>3. ASSUME NEW w \in Workers, Abort(w) PROVE Reviewed'
    BY <2>3 DEF Abort, Reviewed, Idle, TypeOK
  <2>4. CASE MarkReadyToPublish
    BY <2>4 DEF MarkReadyToPublish, Reviewed, Idle
  <2>5. CASE Changes \/ UNCHANGED vars
    BY <2>5 DEF Changes, ChangeStep, vars, Reviewed, Idle
  <2> QED
    BY StepCases, <2>1, <2>2, <2>3, <2>4, <2>5 DEF Begins, Ends
<1>3. Reviewed => ApprovalFollowsReview
  BY DEF Reviewed, ApprovalFollowsReview
<1> QED
  BY <1>1, <1>2, <1>3, TypeCorrect, PTL DEF Spec

-----------------------------------------------------------------------------
(* As long as no requests overlap there is at most one open session, and   *)
(* what it decided still is what the rows call for.                        *)
Alone ==
  ~overlapped =>
    /\ \A v, w \in Workers : ~Idle(v) /\ ~Idle(w) => v = w
    /\ \A w \in Workers : ~Idle(w) => Decides(w, tx[w])

LEMMA AloneStays ==
  ASSUME TypeOK, Alone, [Next]_vars
  PROVE  Alone'
<1>1. ASSUME NEW w \in Workers, NEW m \in Writes, Idle(w), Start(w, m), Decides(w, m)
      PROVE  Alone'
  <2> SUFFICES ASSUME ~overlapped' PROVE Alone'
    BY DEF Alone
  <2>1. \A v \in Workers : Idle(v)
    BY <1>1 DEF Start, Overlaps
  <2>2. \A v \in Workers : tx'[v] = IF v = w THEN m ELSE NoTx
    BY <1>1, <2>1 DEF Start, Idle, TypeOK
  <2>3. UNCHANGED <<stamps, rounds, window, waiting, finished>>
    BY <1>1 DEF Start
  <2>4. (Decides(w, m))'
    BY <1>1, <2>3 DEF Decides, Numbers, Increments, Transits, OpenedWindows,
                      OpenWindows, Waiters, OpenSteps
  <2> QED
    BY <2>2, <2>4 DEF Alone, Idle
<1>2. CASE Ends
  <2> SUFFICES ASSUME NEW w \in Workers, Commit(w) \/ Abort(w), ~overlapped'
               PROVE  Alone'
    BY <1>2 DEF Ends, Alone
  <2>1. ~overlapped /\ ~Idle(w) /\ tx' = [tx EXCEPT ![w] = NoTx]
    BY DEF Commit, Abort
  <2>2. \A v \in Workers : (Idle(v))'
    BY <2>1 DEF Alone, Idle, TypeOK
  <2> QED
    BY <2>2 DEF Alone, Idle
<1>3. CASE MarkReadyToPublish \/ Changes
  <2> SUFFICES ASSUME ~overlapped' PROVE Alone'
    BY DEF Alone
  <2>1. \A w \in Workers : Idle(w)
    BY <1>3 DEF MarkReadyToPublish, Changes, ChangeStep, Overlaps
  <2>2. tx' = tx
    BY <1>3 DEF MarkReadyToPublish, Changes, ChangeStep
  <2> QED
    BY <2>1, <2>2 DEF Alone, Idle
<1>4. CASE UNCHANGED vars
  <2>1. /\ stamps' = stamps /\ rounds' = rounds /\ window' = window
        /\ waiting' = waiting /\ finished' = finished
        /\ tx' = tx /\ overlapped' = overlapped
    BY <1>4 DEF vars
  <2>2. ASSUME NEW w \in Workers, Decides(w, tx[w]) PROVE (Decides(w, tx[w]))'
    BY <2>1, <2>2 DEF Decides, Numbers, Increments, Transits, OpenedWindows,
                      OpenWindows, Waiters, OpenSteps
  <2> QED
    BY <2>1, <2>2 DEF Alone, Idle
<1> QED
  BY StepCases, <1>1, <1>2, <1>3, <1>4 DEF Begins

(* What a lone session has decided.                                        *)
LEMMA LoneDecision ==
  ASSUME TypeOK, Alone, ~overlapped, NEW w \in Workers, ~Idle(w)
  PROVE  tx[w] \in Writes /\ Decides(w, tx[w])
  BY DEF Alone, Idle, TypeOK

(* With exact rounds, a new round finds no window and inserts one.         *)
LEMMA FreshRound ==
  ASSUME TypeOK, RoundsAreExact, ~overlapped,
         NEW w \in Workers, NEW m \in Writes, Numbers(w, m), m.kind # "none"
  PROVE  m.opened = {<<m.kind, m.round, w>>}
<1>1. /\ m.kind \in Kinds /\ m.round \in Rounds /\ m.round = rounds[m.kind] + 1
      /\ \E reopen \in BOOLEAN : m.opened \in OpenedWindows(w, m.kind, m.round, reopen)
  BY DEF Numbers
<1>2. \A v \in Workers : window[<<m.kind, m.round, v>>] = "absent"
  <2>1. ~(m.round <= rounds[m.kind])
    BY <1>1, BoundsAssumption DEF TypeOK
  <2>2. {v \in Workers : window[<<m.kind, m.round, v>>] # "absent"} = {}
    BY <1>1, <2>1 DEF RoundsAreExact
  <2> QED
    BY <2>2
<1>3. {r \in Windows : r[1] = m.kind /\ r[2] = m.round /\ window[r] # "absent"} = {}
  BY <1>1, <1>2 DEF Windows
<1> QED
  BY <1>1, <1>3 DEF OpenedWindows

(* Until requests overlap, rounds, events and windows agree.               *)
LEMMA ExactStays ==
  ASSUME TypeOK, Alone, RoundsAreExact, [Next]_vars
  PROVE  RoundsAreExact'
<1>1. ASSUME NEW w \in Workers, Commit(w), ~overlapped PROVE RoundsAreExact'
  <2> DEFINE m == tx[w]
  <2>1. m \in Writes /\ Decides(w, m)
    BY <1>1, LoneDecision DEF Commit
  <2>2. /\ m.kind # "none" => m.kind \in Kinds /\ m.round \in Rounds
                              /\ m.round = rounds[m.kind] + 1
        /\ m.kind = "none" => m.opened = {}
    BY <2>1 DEF Decides, Numbers, Kinds
  <2>3. m.kind # "none" => m.opened = {<<m.kind, m.round, w>>}
    BY <1>1, <2>1, FreshRound DEF Decides
  <2>4. \A r \in Windows : window'[r] # "absent" <=> window[r] # "absent" \/ r \in m.opened
    <3>1. \A r \in m.closed : window[r] # "absent"
      BY <2>1, ClosesPresent
    <3> QED
      BY <1>1, <3>1 DEF Commit
  <2>5. \A k \in Kinds : /\ events'[k] = IF k = m.kind THEN events[k] + 1 ELSE events[k]
                         /\ rounds'[k] = IF k = m.kind THEN m.round ELSE rounds[k]
    BY <1>1, <2>2 DEF Commit, TypeOK, Kinds
  <2> SUFFICES ASSUME NEW k \in Kinds
               PROVE  /\ events'[k] = rounds'[k]
                      /\ \A n \in Rounds :
                           LET rows == {v \in Workers : window'[<<k, n, v>>] # "absent"}
                           IN  IF n <= rounds'[k] THEN \E v \in Workers : rows = {v} ELSE rows = {}
    BY DEF RoundsAreExact
  <2>6. events[k] = rounds[k] /\ rounds[k] \in Nat
    BY <1>1, BoundsAssumption DEF RoundsAreExact, TypeOK
  <2>7. events'[k] = rounds'[k]
    BY <2>2, <2>5, <2>6 DEF Kinds
  <2> SUFFICES ASSUME NEW n \in Rounds
               PROVE  LET rows == {v \in Workers : window'[<<k, n, v>>] # "absent"}
                      IN  IF n <= rounds'[k] THEN \E v \in Workers : rows = {v} ELSE rows = {}
    BY <2>7
  <2> DEFINE before == {v \in Workers : window[<<k, n, v>>] # "absent"}
             after == {v \in Workers : window'[<<k, n, v>>] # "absent"}
  <2>8. IF n <= rounds[k] THEN \E v \in Workers : before = {v} ELSE before = {}
    BY <1>1 DEF RoundsAreExact
  <2>9. \A v \in Workers : <<k, n, v>> \in Windows
    BY DEF Windows
  <2>10. n \in Int
    BY BoundsAssumption DEF Rounds
  <2>11. CASE k = m.kind /\ n = m.round
    <3>1. m.kind # "none" /\ m.opened = {<<k, n, w>>}
      BY <2>3, <2>11 DEF Kinds
    <3>2. ~(n <= rounds[k]) /\ n <= rounds'[k]
      BY <2>2, <2>5, <2>6, <2>10, <2>11, <3>1
    <3>3. before = {}
      BY <2>8, <3>2
    <3>4. after = {w}
      BY <2>4, <2>9, <3>1, <3>3
    <3> QED
      BY <3>2, <3>4
  <2>12. CASE ~(k = m.kind /\ n = m.round)
    <3>1. \A v \in Workers : <<k, n, v>> \notin m.opened
      BY <2>2, <2>3, <2>12
    <3>2. after = before
      BY <2>4, <2>9, <3>1
    <3>3. n <= rounds'[k] <=> n <= rounds[k]
      BY <2>2, <2>5, <2>6, <2>10, <2>12 DEF Kinds
    <3> HIDE DEF before, after
    <3>4. IF n <= rounds'[k] THEN \E v \in Workers : after = {v} ELSE after = {}
      BY <2>8, <3>2, <3>3
    <3> QED
      BY <3>4 DEF after
  <2> QED
    BY <2>11, <2>12
<1>2. ASSUME NEW w \in Workers, Commit(w), overlapped PROVE RoundsAreExact'
  BY <1>2 DEF Commit, RoundsAreExact
<1>3. ASSUME NEW w \in Workers, Abort(w) PROVE RoundsAreExact'
  BY <1>3 DEF Abort, RoundsAreExact
<1>4. CASE Begins \/ MarkReadyToPublish \/ Changes
  <2>1. UNCHANGED <<rounds, events, window>> /\ (overlapped => overlapped')
    BY <1>4 DEF Begins, Start, MarkReadyToPublish, Changes, ChangeStep, Overlaps
  <2> QED
    BY <2>1 DEF RoundsAreExact
<1>5. CASE UNCHANGED vars
  BY <1>5 DEF vars, RoundsAreExact
<1> QED
  BY StepCases, <1>1, <1>2, <1>3, <1>4, <1>5 DEF Ends

THEOREM RoundsExact == Spec => []RoundsAreExact
<1>1. Init => Alone /\ RoundsAreExact
  <2> SUFFICES ASSUME Init PROVE Alone /\ RoundsAreExact
    OBVIOUS
  <2>1. Alone
    BY DEF Init, Alone, Idle
  <2>2. \A k \in Kinds, n \in Rounds :
          /\ events[k] = rounds[k] /\ ~(n <= rounds[k])
          /\ {v \in Workers : window[<<k, n, v>>] # "absent"} = {}
    BY BoundsAssumption DEF Init, Windows, Rounds
  <2>3. \A k \in Kinds : events[k] = rounds[k]
    BY DEF Init
  <2> QED
    BY <2>1, <2>2, <2>3 DEF RoundsAreExact
<1>2. TypeOK /\ Alone /\ RoundsAreExact /\ [Next]_vars => Alone' /\ RoundsAreExact'
  BY AloneStays, ExactStays
<1> QED
  BY <1>1, <1>2, TypeCorrect, PTL DEF Spec

-----------------------------------------------------------------------------
(* A transition, seen from the status it leaves.  The awaited statuses are *)
(* entered with a round of their own kind; only the changes the client     *)
(* asked for outlast a transition out of them.                             *)
LEMMA StatusAfter ==
  ASSUME NEW at, NEW to, <<CurrentStatus(at), to>> \in Rules
  PROVE  LET after == CurrentStatus((at \ StampsCleared(to)) \union StampsSet(to))
         IN  \/ TimedBy(after) = {} /\ StepsWaitOn(to) = "none"
             \/ StartsRound(to) # "none" /\ TimedBy(after) = {StartsRound(to)}
             \/ /\ to = "in_progress"
                /\ after = CurrentStatus(at)
<1> DEFINE after == CurrentStatus((at \ StampsCleared(to)) \union StampsSet(to))
<1>1. ASSUME NEW from, from = CurrentStatus(at), <<from, to>> \in Rules
      PROVE  \/ TimedBy(after) = {} /\ StepsWaitOn(to) = "none"
             \/ StartsRound(to) # "none" /\ TimedBy(after) = {StartsRound(to)}
             \/ to = "in_progress" /\ after = CurrentStatus(at)
  <2>1. CASE to = "in_progress"
    BY <2>1 DEF CurrentStatus, StampsSet, StampsCleared
  <2>2. CASE to = "awaiting_internal_review"
    <3>1. from = "in_progress"
      BY <1>1, <2>2 DEF Rules
    <3>2. after = "awaiting_internal_review"
      BY <1>1, <2>2, <3>1 DEF CurrentStatus, StampsSet, StampsCleared
    <3> QED
      BY <2>2, <3>2 DEF TimedBy, StartsRound
  <2>3. CASE to = "awaiting_client_review"
    <3>1. from \in {"in_progress", "internal_review_complete"}
      BY <1>1, <2>3 DEF Rules
    <3>2. after = "awaiting_client_review"
      BY <1>1, <2>3, <3>1 DEF CurrentStatus, StampsSet, StampsCleared
    <3> QED
      BY <2>3, <3>2 DEF TimedBy, StartsRound
  <2>4. CASE to = "client_changes_requested"
    <3>1. from = "awaiting_client_review"
      BY <1>1, <2>4 DEF Rules
    <3>2. after = "client_changes_requested"
      BY <1>1, <2>4, <3>1 DEF CurrentStatus, StampsSet, StampsCleared
    <3> QED
      BY <2>4, <3>2 DEF TimedBy, StartsRound
  <2>5. CASE to = "internal_review_complete"
    <3>1. from = "awaiting_internal_review"
      BY <1>1, <2>5 DEF Rules
    <3>2. after \in {"in_progress", "planned"}
      BY <1>1, <2>5, <3>1 DEF CurrentStatus, StampsSet, StampsCleared
    <3> QED
      BY <2>5, <3>2 DEF TimedBy, StepsWaitOn
  <2>6. CASE to \in {"approved", "ready_to_publish", "scheduled_or_published", "complete"}
    <3>1. after \in {"approved", "ready_to_publish", "scheduled_or_published", "complete"}
      BY <2>6 DEF CurrentStatus, StampsSet, StampsCleared
    <3> QED
      BY <2>6, <3>1 DEF TimedBy, StepsWaitOn
  <2> QED
    BY <1>1, <2>1, <2>2, <2>3, <2>4, <2>5, <2>6, RuleTargets
<1> QED
  BY <1>1

(* Until requests overlap, an awaited review is timed.                     *)
LEMMA TimedStays ==
  ASSUME TypeOK, Alone, RoundsAreExact, ReviewIsTimed, [Next]_vars
  PROVE  ReviewIsTimed'
<1>1. ASSUME NEW w \in Workers, Commit(w), ~overlapped PROVE ReviewIsTimed'
  <2> DEFINE m == tx[w]
             after == CurrentStatus(stamps')
  <2>1. m \in Writes /\ Decides(w, m)
    BY <1>1, LoneDecision DEF Commit
  <2> SUFFICES ASSUME NEW k \in TimedBy(after)
               PROVE  \E r \in Windows : r[1] = k /\ r[2] = rounds'[k] /\ window'[r] = "open"
    BY DEF ReviewIsTimed
  <2>2. k \in Kinds
    BY DEF TimedBy, Kinds
  <2>3. stamps' = (stamps \ m.unset) \union m.set
    BY <1>1 DEF Commit
  <2>4. CASE m.kind = k
    <3>1. m.kind # "none" /\ m.kind \in Kinds /\ m.round \in Rounds
      BY <2>1, <2>2, <2>4 DEF Decides, Numbers, Kinds
    <3>2. m.opened = {<<k, m.round, w>>}
      BY <1>1, <2>1, <2>4, <3>1, FreshRound DEF Decides
    <3>3. <<k, m.round, w>> \in Windows
      BY <2>2, <3>1 DEF Windows
    <3>4. window'[<<k, m.round, w>>] = "open" /\ rounds'[k] = m.round
      BY <1>1, <2>2, <2>4, <3>1, <3>2, <3>3 DEF Commit, TypeOK
    <3> QED
      BY <3>3, <3>4
  <2>5. CASE m.kind # k
    <3>1. k \in TimedBy(CurrentStatus(stamps)) /\ m.closed = {}
      <4>1. CASE Increments(m)
        BY <2>3, <4>1 DEF Increments
      <4>2. ASSUME NEW to \in Targets, Transits(to, m)
            PROVE  k \in TimedBy(CurrentStatus(stamps)) /\ m.closed = {}
        <5>1. /\ <<CurrentStatus(stamps), to>> \in Rules
              /\ after = CurrentStatus((stamps \ StampsCleared(to)) \union StampsSet(to))
              /\ m.kind = StartsRound(to)
              /\ m.closed = OpenWindows(ClosesKinds(to))
          BY <2>3, <4>2 DEF Transits
        <5>2. to = "in_progress" /\ after = CurrentStatus(stamps)
          <6> HIDE DEF after
          <6> QED
            BY <2>5, <5>1, StatusAfter
        <5>3. ClosesKinds(to) = {}
          BY <5>2 DEF ClosesKinds
        <5> QED
          BY <5>1, <5>2, <5>3 DEF OpenWindows
      <4> QED
        BY <2>1, <4>1, <4>2 DEF Decides
    <3>2. PICK r \in Windows : r[1] = k /\ r[2] = rounds[k] /\ window[r] = "open"
      BY <1>1, <3>1 DEF ReviewIsTimed
    <3>3. window'[r] = "open"
      BY <1>1, <3>1, <3>2 DEF Commit
    <3>4. rounds'[k] = rounds[k]
      BY <1>1, <2>2, <2>5 DEF Commit, TypeOK
    <3> QED
      BY <3>2, <3>3, <3>4
  <2> QED
    BY <2>4, <2>5
<1>2. ASSUME NEW w \in Workers, Commit(w), overlapped PROVE ReviewIsTimed'
  BY <1>2 DEF Commit, ReviewIsTimed
<1>3. ASSUME NEW w \in Workers, Abort(w) PROVE ReviewIsTimed'
  BY <1>3 DEF Abort, ReviewIsTimed
<1>4. CASE Begins \/ Changes
  <2>1. UNCHANGED <<stamps, rounds, window>> /\ (overlapped => overlapped')
    BY <1>4 DEF Begins, Start, Changes, ChangeStep, Overlaps
  <2> QED
    BY <2>1 DEF ReviewIsTimed
<1>5. CASE MarkReadyToPublish
  <2>1. TimedBy(CurrentStatus(stamps')) = {}
    <3>1. CurrentStatus(stamps') \in {"complete", "scheduled_or_published", "ready_to_publish"}
      BY <1>5 DEF MarkReadyToPublish, CurrentStatus
    <3> QED
      BY <3>1 DEF TimedBy
  <2> QED
    BY <2>1 DEF ReviewIsTimed
<1>6. CASE UNCHANGED vars
  BY <1>6 DEF vars, ReviewIsTimed
<1> QED
  BY StepCases, <1>1, <1>2, <1>3, <1>4, <1>5, <1>6 DEF Ends

THEOREM ReviewsTimed == Spec => []ReviewIsTimed
<1>1. Init => Alone /\ ReviewIsTimed
  <2> SUFFICES ASSUME Init PROVE Alone /\ ReviewIsTimed
    OBVIOUS
  <2>1. CurrentStatus(stamps) = "in_progress"
    BY DEF Init, CurrentStatus
  <2>2. TimedBy(CurrentStatus(stamps)) = {}
    BY <2>1 DEF TimedBy
  <2> QED
    BY <2>2 DEF Init, Alone, Idle, ReviewIsTimed
<1>2. TypeOK /\ Alone /\ RoundsAreExact /\ ReviewIsTimed /\ [Next]_vars
        => Alone' /\ ReviewIsTimed'
  BY AloneStays, TimedStays
<1> QED
  BY <1>1, <1>2, TypeCorrect, RoundsExact, PTL DEF Spec

(* Until requests overlap, the end of a review lifts its waits.            *)
THEOREM ReviewEndsLift == Spec => EndOfReviewLiftsWaits
<1> DEFINE Lifts ==
      /\ ~overlapped'
      /\ TimedBy(CurrentStatus(stamps)) # {}
      /\ TimedBy(CurrentStatus(stamps')) = {}
      /\ CurrentStatus(stamps') # "ready_to_publish"
      => \A s \in Steps \ finished' : waiting'[s] \in {"none", "dependency"}
<1>1. Init => Alone
  BY DEF Init, Alone, Idle
<1>2. TypeOK /\ Alone /\ [Next]_vars => Alone'
  BY AloneStays
<1>3. TypeOK /\ Alone /\ [Next]_vars => [Lifts]_vars
  <2> SUFFICES ASSUME TypeOK, Alone, [Next]_vars,
                      ~overlapped',
                      TimedBy(CurrentStatus(stamps)) # {},
                      TimedBy(CurrentStatus(stamps')) = {},
                      CurrentStatus(stamps') # "ready_to_publish",
                      NEW s \in Steps \ finished'
               PROVE  waiting'[s] \in {"none", "dependency"}
    OBVIOUS
  <2>1. ASSUME NEW w \in Workers, Commit(w)
        PROVE  waiting'[s] \in {"none", "dependency"}
    <3> DEFINE m == tx[w]
    <3>1. Decides(w, m) /\ stamps' = (stamps \ m.unset) \union m.set
      BY <2>1, LoneDecision DEF Commit
    <3>2. ~Increments(m)
      BY <3>1 DEF Increments
    <3>3. PICK to \in Targets : Transits(to, m)
      BY <3>1, <3>2 DEF Decides
    <3>4. /\ <<CurrentStatus(stamps), to>> \in Rules
          /\ CurrentStatus(stamps') = CurrentStatus((stamps \ StampsCleared(to)) \union StampsSet(to))
          /\ m.wait = StepsWaitOn(to) /\ m.waiters = Waiters(to)
      BY <3>1, <3>3 DEF Transits
    <3>5. StepsWaitOn(to) = "none"
      <4> HIDE DEF m
      <4> QED
        BY <3>4, StatusAfter
    <3>6. s \in OpenSteps /\ waiting[s] \in Waits
      BY <2>1 DEF Commit, OpenSteps, TypeOK
    <3>7. waiting'[s] = IF waiting[s] \in {"internal", "client"} THEN "none" ELSE waiting[s]
      BY <2>1, <3>4, <3>5, <3>6 DEF Commit, Waiters
    <3> QED
      BY <3>6, <3>7 DEF Waits
  <2>2. CASE MarkReadyToPublish
    <3>1. CurrentStatus(stamps) \notin {"complete", "scheduled_or_published"}
      BY DEF TimedBy
    <3>2. "actual_done" \notin stamps /\ "scheduled_or_published_at" \notin stamps
      BY <3>1 DEF CurrentStatus
    <3>3. CurrentStatus(stamps') = "ready_to_publish"
      BY <2>2, <3>2 DEF MarkReadyToPublish, CurrentStatus
    <3> QED
      BY <3>3
  <2>3. CASE stamps' = stamps
    BY <2>3
  <2>4. Begins \/ Changes \/ UNCHANGED vars \/ (\E w \in Workers : Abort(w)) => stamps' = stamps
    BY DEF Begins, Start, Changes, ChangeStep, vars, Abort
  <2> QED
    BY StepCases, <2>1, <2>2, <2>3, <2>4 DEF Ends
<1> QED
  BY <1>1, <1>2, <1>3, TypeCorrect, PTL DEF Spec, EndOfReviewLiftsWaits

=============================================================================
