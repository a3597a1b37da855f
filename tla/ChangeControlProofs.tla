------------------------- MODULE ChangeControlProofs ------------------------
(***************************************************************************)
(* Theorems about ChangeControl for any requests, roles and workers.       *)
(* Three hold however decisions overlap; the last two are about a server   *)
(* that handles one decision at a time (~Overlap).                         *)
(***************************************************************************)
EXTENDS ChangeControl, TLAPS

(* Outcome and Written stay within the columns they are written to.        *)
LEMMA OutcomeType ==
  ASSUME NEW t \in Session
  PROVE  /\ Outcome(t) \in ReqStatus
         /\ Ballot(t) \in [Roles -> Votes]
         /\ Ballot(t)[t.role] = t.decision
         /\ Outcome(t) = "activated" /\ t.status # "activated" => Activates(t)
         /\ Outcome(t) \in {"rejected", "activated", t.status}
BY DEF Outcome, Ballot, Session, ReqStatus, Votes, Decisions

LEMMA TypeInit == Init => TypeOK
<1> SUFFICES ASSUME Init PROVE TypeOK
  OBVIOUS
<1>1. req \in [Requests -> ReqRow] /\ approval \in [Requests -> [Roles -> Votes]]
  BY DEF Init, ReqRow, ReqStatus, Votes
<1>2. tx \in [Workers -> Session \union {NoTx}]
  BY DEF Init
<1>3. overlapped \in BOOLEAN
  BY DEF Init
<1> QED BY <1>1, <1>2, <1>3 DEF TypeOK

(* The rows always hold values of their columns' types.                    *)
THEOREM TypeCorrect == Spec => []TypeOK
<1>1. Init => TypeOK
  BY TypeInit
<1>2. TypeOK /\ [Next]_vars => TypeOK'
  <2> SUFFICES ASSUME TypeOK, [Next]_vars PROVE TypeOK'
    OBVIOUS
  <2> USE DEF TypeOK
  <2>1. CASE \E r \in Requests : Create(r)
    BY <2>1 DEF Create, ReqRow, ReqStatus
  <2>2. ASSUME NEW w \in Workers, NEW r \in Requests, NEW role \in Roles,
               NEW d \in Decisions, Begin(w, r, role, d)
        PROVE  TypeOK'
    <3>1. req[r].status \in ReqStatus /\ approval[r] \in [Roles -> Votes]
      BY DEF ReqRow
    <3>2. [r |-> r, role |-> role, decision |-> d, status |-> req[r].status,
           approval |-> approval[r]] \in Session
      BY <3>1 DEF Session
    <3> QED BY <2>2, <3>2 DEF Begin
  <2>3. ASSUME NEW w \in Workers, Commit(w) PROVE TypeOK'
    <3> DEFINE t == tx[w]
    <3>1. t \in Session
      BY <2>3 DEF Commit, Idle
    <3>2. /\ t.r \in Requests /\ t.role \in Roles
          /\ t.decision \in Votes /\ Outcome(t) \in ReqStatus
      BY <3>1, OutcomeType DEF Session, Votes, Decisions
    <3>3. Activates(t) \in BOOLEAN
      BY DEF Activates
    <3>4. approval' \in [Requests -> [Roles -> Votes]]
      BY <2>3, <3>2 DEF Commit, Written
    <3>5. req' \in [Requests -> ReqRow]
      <4>1. req[t.r] \in ReqRow
        BY <3>2
      <4>2. Written(Outcome(t), t.status, req[t.r].status) \in ReqStatus
        BY <3>2, <4>1 DEF Written, ReqRow
      <4>3. (req[t.r].activated_at \/ Activates(t)) \in BOOLEAN
        OBVIOUS
      <4> QED BY <2>3, <4>1, <4>2, <4>3 DEF Commit, ReqRow
    <3>6. tx' \in [Workers -> Session \union {NoTx}]
      BY <2>3 DEF Commit
    <3>7. overlapped' \in BOOLEAN
      BY <2>3 DEF Commit
    <3> QED BY <3>4, <3>5, <3>6, <3>7
  <2>4. CASE \E w \in Workers : Abort(w)
    BY <2>4 DEF Abort
  <2>5. CASE UNCHANGED vars
    BY <2>5 DEF vars
  <2> QED BY <2>1, <2>2, <2>3, <2>4, <2>5 DEF Next
<1> QED BY <1>1, <1>2, PTL DEF Spec

-----------------------------------------------------------------------------
(* PendingHidesNoRejection is not inductive: a session that commits must    *)
(* not revive "pending".  What it saw may be stale, but a status that left  *)
(* "pending" never returns to it, so seeing anything else means that the    *)
(* row is not pending any more.                                             *)
SeenStatus(w) ==
  ~Idle(w) => LET r == tx[w].r IN
    /\ tx[w].status # "absent" /\ req[r].status # "absent"
    /\ req[r].status = "pending" => tx[w].status = "pending"

FreshRow(r) ==
  req[r].status = "absent" =>
    \A role \in Roles : approval[r][role] = "PENDING"

PendingInv ==
  /\ TypeOK
  /\ PendingHidesNoRejection
  /\ \A w \in Workers : SeenStatus(w)
  /\ \A r \in Requests : FreshRow(r)

LEMMA PendingInit == Init => PendingInv
BY TypeInit DEF Init, PendingInv, PendingHidesNoRejection, SeenStatus, FreshRow, Idle

(* TypeOK is preserved by every step, for use in the step lemmas below.    *)
LEMMA PendingStep == PendingInv /\ TypeOK' /\ [Next]_vars => PendingInv'
<1> SUFFICES ASSUME PendingInv, TypeOK', [Next]_vars PROVE PendingInv'
  OBVIOUS
<1> USE DEF PendingInv
<1>1. ASSUME NEW r \in Requests, Create(r) PROVE PendingInv'
  BY <1>1 DEF Create, TypeOK, ReqRow, PendingHidesNoRejection, SeenStatus,
     FreshRow, Idle
<1>2. ASSUME NEW w \in Workers, NEW r \in Requests, NEW role \in Roles,
             NEW d \in Decisions, Begin(w, r, role, d)
      PROVE  PendingInv'
  <2>1. UNCHANGED <<req, approval>> /\ req[r].status # "absent"
    BY <1>2 DEF Begin
  <2>2. ASSUME NEW v \in Workers PROVE SeenStatus(v)'
    <3>1. CASE v = w
      BY <1>2, <3>1 DEF Begin, SeenStatus, Idle, TypeOK
    <3>2. CASE v # w
      BY <1>2, <3>2 DEF Begin, SeenStatus, Idle, TypeOK
    <3> QED BY <3>1, <3>2
  <2> QED BY <2>1, <2>2 DEF PendingHidesNoRejection, FreshRow
<1>3. ASSUME NEW w \in Workers, Commit(w) PROVE PendingInv'
  <2> DEFINE t == tx[w]
  <2>1. /\ t \in Session /\ t.r \in Requests /\ t.role \in Roles
        /\ t.decision \in Decisions /\ ~Idle(w)
    BY <1>3 DEF Commit, Idle, TypeOK, Session
  <2>2. /\ req' = [req EXCEPT ![t.r] =
                     [status |-> Written(Outcome(t), t.status, @.status),
                      activated_at |-> @.activated_at \/ Activates(t)]]
        /\ approval' = [approval EXCEPT ![t.r][t.role] =
                          Written(t.decision, t.approval[t.role], @)]
        /\ tx' = [tx EXCEPT ![w] = NoTx]
    BY <1>3 DEF Commit
  <2>3. req'[t.r].status = Written(Outcome(t), t.status, req[t.r].status)
    BY <2>1, <2>2 DEF TypeOK
  <2>4. \A r \in Requests \ {t.r} :
          req'[r] = req[r] /\ approval'[r] = approval[r]
    BY <2>1, <2>2 DEF TypeOK
  <2>5. req'[t.r].status # "absent"
    BY <2>1, <2>3, OutcomeType DEF Written, SeenStatus
  <2>6. req'[t.r].status = "pending" =>
          req[t.r].status = "pending" /\ t.decision = "APPROVED"
    <3>1. t.status # "pending" => req[t.r].status # "pending"
      BY <2>1 DEF SeenStatus
    <3>2. Outcome(t) = "pending" => t.status = "pending" /\ ~Rejects(t)
      BY <2>1, OutcomeType DEF Outcome
    <3>3. ~Rejects(t) => t.decision # "REJECTED"
      BY <2>1, OutcomeType DEF Rejects
    <3> QED BY <2>1, <2>3, <3>1, <3>2, <3>3, OutcomeType DEF Written, Decisions
  <2>7. PendingHidesNoRejection'
    <3> SUFFICES ASSUME NEW r \in Requests, req'[r].status = "pending",
                        NEW role \in Roles
                 PROVE  approval'[r][role] # "REJECTED"
      BY DEF PendingHidesNoRejection
    <3>1. CASE r # t.r
      BY <2>4, <3>1 DEF PendingHidesNoRejection
    <3>2. CASE r = t.r
      BY <2>1, <2>2, <2>6, <3>2
         DEF PendingHidesNoRejection, Written, TypeOK
    <3> QED BY <3>1, <3>2
  <2>8. ASSUME NEW v \in Workers PROVE SeenStatus(v)'
    <3>1. CASE v = w
      BY <2>2, <3>1 DEF SeenStatus, Idle, TypeOK
    <3>2. CASE v # w /\ ~Idle(v)
      <4>1. tx'[v] = tx[v] /\ tx[v].r \in Requests
        BY <2>2, <3>2 DEF Idle, TypeOK, Session
      <4> QED BY <2>4, <2>5, <2>6, <3>2, <4>1 DEF SeenStatus
    <3>3. CASE v # w /\ Idle(v)
      BY <2>2, <3>3 DEF SeenStatus, Idle, TypeOK
    <3> QED BY <3>1, <3>2, <3>3
  <2>9. \A r \in Requests : FreshRow(r)'
    BY <2>4, <2>5 DEF FreshRow
  <2> QED BY <2>7, <2>8, <2>9
<1>4. ASSUME NEW w \in Workers, Abort(w) PROVE PendingInv'
  BY <1>4 DEF Abort, PendingHidesNoRejection, SeenStatus, FreshRow, Idle, TypeOK
<1>5. CASE UNCHANGED vars
  BY <1>5 DEF vars, PendingHidesNoRejection, SeenStatus, FreshRow, Idle, TypeOK
<1> QED BY <1>1, <1>2, <1>3, <1>4, <1>5 DEF Next

(* However decisions overlap, no rejection hides behind a pending request. *)
THEOREM RejectionsShow == Spec => []PendingHidesNoRejection
<1>1. PendingInv => PendingHidesNoRejection
  BY DEF PendingInv
<1> QED BY <1>1, TypeCorrect, PendingInit, PendingStep, PTL DEF Spec

-----------------------------------------------------------------------------
(* However decisions overlap, an activated request carries its date: the   *)
(* date is never cleared, and the status is written as "activated" only by *)
(* the session whose vote activates.                                       *)
THEOREM ActivationsAreDated == Spec => []ActivatedIsDated
<1>1. Init => ActivatedIsDated
  BY DEF Init, ActivatedIsDated
<1>2. TypeOK /\ TypeOK' /\ ActivatedIsDated /\ [Next]_vars => ActivatedIsDated'
  <2> SUFFICES ASSUME TypeOK, TypeOK', ActivatedIsDated, [Next]_vars
               PROVE  ActivatedIsDated'
    OBVIOUS
  <2>1. CASE \E r \in Requests : Create(r)
    BY <2>1 DEF Create, TypeOK, ReqRow, ActivatedIsDated
  <2>2. ASSUME NEW w \in Workers, Commit(w) PROVE ActivatedIsDated'
    <3> DEFINE t == tx[w]
    <3>1. t \in Session /\ t.r \in Requests
      BY <2>2 DEF Commit, Idle, TypeOK, Session
    <3>2. req' = [req EXCEPT ![t.r] =
                    [status |-> Written(Outcome(t), t.status, @.status),
                     activated_at |-> @.activated_at \/ Activates(t)]]
      BY <2>2 DEF Commit
    <3>3. Written(Outcome(t), t.status, req[t.r].status) = "activated"
            => req[t.r].status = "activated" \/ Activates(t)
      BY <3>1, OutcomeType DEF Written
    <3> QED BY <3>1, <3>2, <3>3 DEF ActivatedIsDated, TypeOK, ReqRow
  <2>3. CASE UNCHANGED req
    BY <2>3 DEF ActivatedIsDated
  <2> QED BY <2>1, <2>2, <2>3 DEF Next, Begin, Abort, vars
<1> QED BY <1>1, <1>2, TypeCorrect, PTL DEF Spec

-----------------------------------------------------------------------------
(* When decisions do not overlap, an open session has read what is still   *)
(* in the database; that is what makes the outcome it computes correct.    *)
ReadsCurrent(w) ==
  ~Idle(w) => LET r == tx[w].r IN
    /\ tx[w].status = req[r].status /\ req[r].status # "absent"
    /\ tx[w].approval = approval[r]
    /\ \A v \in Workers : v # w => Idle(v)

SerialInv ==
  /\ TypeOK
  /\ AgreesWithVotes
  /\ \A w \in Workers : ReadsCurrent(w)
  /\ \A r \in Requests : FreshRow(r)

LEMMA SerialInit == Init => SerialInv
BY TypeInit, RolesAssumption DEF Init, SerialInv, AgreesWithVotes, ReadsCurrent,
   FreshRow, Idle

(* What a commit writes when nothing its session t read has changed since. *)
CommitEffect(t) ==
  /\ t \in Session /\ t.r \in Requests /\ t.role \in Roles
  /\ t.decision \in Decisions /\ req[t.r].status # "absent"
  /\ approval' = [approval EXCEPT ![t.r][t.role] = t.decision]
  /\ approval'[t.r] = Ballot(t)
  /\ req'[t.r].status = Outcome(t)
  /\ \A r \in Requests \ {t.r} :
       req'[r] = req[r] /\ approval'[r] = approval[r]

LEMMA SerialCommit ==
  ASSUME SerialInv, NEW w \in Workers, Commit(w)
  PROVE  CommitEffect(tx[w]) /\ tx' = [tx EXCEPT ![w] = NoTx]
<1> DEFINE t == tx[w]
<1> USE DEF SerialInv
<1>1. /\ t \in Session /\ t.r \in Requests /\ t.role \in Roles
      /\ t.decision \in Decisions /\ ~Idle(w)
  BY DEF Commit, Idle, TypeOK, Session
<1>2. /\ req' = [req EXCEPT ![t.r] =
                   [status |-> Written(Outcome(t), t.status, @.status),
                    activated_at |-> @.activated_at \/ Activates(t)]]
      /\ approval' = [approval EXCEPT ![t.r][t.role] =
                        Written(t.decision, t.approval[t.role], @)]
      /\ tx' = [tx EXCEPT ![w] = NoTx]
  BY DEF Commit
<1>3. /\ t.status = req[t.r].status /\ req[t.r].status # "absent"
      /\ t.approval = approval[t.r]
  BY <1>1 DEF ReadsCurrent
<1>4. approval' = [approval EXCEPT ![t.r][t.role] = t.decision]
  BY <1>1, <1>2, <1>3 DEF Written, TypeOK
<1>5. approval'[t.r] = Ballot(t)
  BY <1>1, <1>3, <1>4 DEF Ballot, TypeOK
<1>6. req'[t.r].status = Outcome(t)
  BY <1>1, <1>2, <1>3 DEF Written, TypeOK
<1>7. \A r \in Requests \ {t.r} :
        req'[r] = req[r] /\ approval'[r] = approval[r]
  BY <1>1, <1>2, <1>4 DEF TypeOK
<1> QED BY <1>1, <1>2, <1>3, <1>4, <1>5, <1>6, <1>7 DEF CommitEffect

(* The outcome of an up-to-date session is the status its votes call for.  *)
OutcomeFits(t) ==
  /\ Outcome(t) # "absent"
  /\ Outcome(t) = "activated" <=>
       \A role \in Roles : Ballot(t)[role] = "APPROVED"
  /\ (\E role \in Roles : Ballot(t)[role] = "REJECTED")
       => Outcome(t) = "rejected"

LEMMA SerialOutcome ==
  ASSUME SerialInv, NEW w \in Workers, Commit(w)
  PROVE  OutcomeFits(tx[w])
<1> DEFINE t == tx[w]
<1> USE DEF SerialInv
<1>1. /\ t \in Session /\ t.r \in Requests /\ t.role \in Roles
      /\ t.status = req[t.r].status /\ req[t.r].status # "absent"
      /\ t.approval = approval[t.r] /\ t.decision \in Decisions
  BY DEF Commit, Idle, TypeOK, Session, ReadsCurrent
<1>2. Ballot(t) = [approval[t.r] EXCEPT ![t.role] = t.decision]
  BY <1>1 DEF Ballot
<1>3. Activates(t) => ~Rejects(t)
  BY <1>1, RolesAssumption DEF Activates, Rejects
<1>4. ASSUME Outcome(t) = "activated", ~Activates(t) PROVE FALSE
  <2>1. t.status = "activated" /\ ~Rejects(t)
    BY <1>4 DEF Outcome
  <2>2. \A role \in Roles : approval[t.r][role] = "APPROVED"
    BY <1>1, <2>1 DEF AgreesWithVotes
  <2>3. t.decision = "APPROVED"
    BY <1>1, <2>1, OutcomeType DEF Rejects, Decisions
  <2> QED BY <1>1, <1>2, <1>4, <2>2, <2>3 DEF Activates, TypeOK
<1>5. Outcome(t) # "absent"
  BY <1>1, OutcomeType
<1> QED BY <1>3, <1>4, <1>5 DEF OutcomeFits, Outcome, Rejects, Activates

LEMMA OverlapLasts == [Next]_vars /\ ~overlapped' => ~overlapped
BY DEF Next, Create, Begin, Commit, Abort, vars

LEMMA SerialStep ==
  SerialInv /\ TypeOK' /\ [Next]_vars /\ ~overlapped' => SerialInv'
<1> SUFFICES ASSUME SerialInv, TypeOK', [Next]_vars, ~overlapped'
             PROVE  SerialInv'
  OBVIOUS
<1>1. ASSUME NEW r \in Requests, Create(r) PROVE SerialInv'
  <2> USE DEF SerialInv
  <2>1. /\ approval' = approval /\ tx' = tx /\ req[r].status = "absent"
        /\ req'[r].status = "pending"
        /\ \A q \in Requests \ {r} : req'[q] = req[q]
    BY <1>1 DEF Create, TypeOK
  <2>2. AgreesWithVotes'
    BY <2>1, RolesAssumption DEF AgreesWithVotes, FreshRow
  <2>3. ASSUME NEW w \in Workers PROVE ReadsCurrent(w)'
    <3>1. CASE Idle(w)
      BY <2>1, <3>1 DEF ReadsCurrent, Idle
    <3>2. CASE ~Idle(w)
      <4>1. tx[w].r \in Requests \ {r}
        BY <2>1, <3>2 DEF ReadsCurrent, TypeOK, Session, Idle
      <4> QED BY <2>1, <3>2, <4>1 DEF ReadsCurrent, Idle
    <3> QED BY <3>1, <3>2
  <2> QED BY <2>1, <2>2, <2>3 DEF FreshRow
<1>2. ASSUME NEW w \in Workers, NEW r \in Requests, NEW role \in Roles,
             NEW d \in Decisions, Begin(w, r, role, d)
      PROVE  SerialInv'
  <2> USE DEF SerialInv
  <2>1. /\ UNCHANGED <<req, approval>> /\ req[r].status # "absent"
        /\ \A v \in Workers : Idle(v)
        /\ tx' = [tx EXCEPT ![w] = [r |-> r, role |-> role, decision |-> d,
                                   status |-> req[r].status,
                                   approval |-> approval[r]]]
    BY <1>2 DEF Begin
  <2>2. ASSUME NEW v \in Workers PROVE ReadsCurrent(v)'
    BY <2>1 DEF ReadsCurrent, Idle, TypeOK
  <2> QED BY <2>1, <2>2 DEF AgreesWithVotes, FreshRow
<1>3. ASSUME NEW w \in Workers, Commit(w) PROVE SerialInv'
  <2> DEFINE t == tx[w]
  <2>0. CommitEffect(t) /\ OutcomeFits(t) /\ tx' = [tx EXCEPT ![w] = NoTx]
    BY <1>3, SerialCommit, SerialOutcome
  <2> HIDE DEF t
  <2>1. AgreesWithVotes'
    <3> SUFFICES ASSUME NEW r \in Requests
        PROVE /\ req'[r].status = "activated" <=>
                   \A role \in Roles : approval'[r][role] = "APPROVED"
              /\ (\E role \in Roles : approval'[r][role] = "REJECTED")
                   => req'[r].status = "rejected"
      BY DEF AgreesWithVotes
    <3>1. CASE r = t.r
      BY <2>0, <3>1 DEF CommitEffect, OutcomeFits
    <3>2. CASE r # t.r
      BY <2>0, <3>2 DEF CommitEffect, SerialInv, AgreesWithVotes
    <3> QED BY <3>1, <3>2
  <2>2. \A v \in Workers : Idle(v)'
    <3>1. \A v \in Workers : v # w => Idle(v)
      BY <1>3 DEF SerialInv, ReadsCurrent, Commit
    <3> QED BY <2>0, <3>1 DEF Idle, SerialInv, TypeOK
  <2>3. \A r \in Requests : FreshRow(r)'
    BY <2>0 DEF CommitEffect, OutcomeFits, SerialInv, FreshRow
  <2> QED BY <2>1, <2>2, <2>3 DEF SerialInv, ReadsCurrent
<1>4. ASSUME NEW w \in Workers, Abort(w) PROVE SerialInv'
  BY <1>4 DEF Abort, SerialInv, AgreesWithVotes, ReadsCurrent, FreshRow,
     Idle, TypeOK
<1>5. CASE UNCHANGED vars
  BY <1>5 DEF vars, SerialInv, AgreesWithVotes, ReadsCurrent, FreshRow,
     Idle, TypeOK
<1> QED BY <1>1, <1>2, <1>3, <1>4, <1>5 DEF Next

(* One decision at a time: activated exactly when every required role has  *)
(* approved, rejected whenever one has rejected.                           *)
THEOREM SerialStatus == Spec => []StatusAgreesWithVotes
<1>1. (~overlapped => SerialInv) => StatusAgreesWithVotes
  BY DEF SerialInv, StatusAgreesWithVotes
<1>2. (~overlapped => SerialInv) /\ TypeOK' /\ [Next]_vars
        => (~overlapped => SerialInv)'
  BY SerialStep, OverlapLasts
<1> QED BY <1>1, <1>2, TypeCorrect, SerialInit, PTL DEF Spec

(* One decision at a time: the service keeps the dual-approval promise.    *)
(* A commit is the vote, everything else but Create is invisible.          *)
THEOREM SerialRefinement == Spec => KeepsPromise
<1> DEFINE raised == {r \in Requests : req[r].status # "absent"}
           active == {r \in Requests : req[r].status = "activated"}
<1>1. Init => Promise!Init
  BY DEF Init, Promise!Init
<1>2. (~overlapped => SerialInv) /\ TypeOK' /\ [Next]_vars
        => [~overlapped' => [Promise!Next]_(Promise!vars)]_vars
  <2> SUFFICES ASSUME SerialInv, TypeOK', [Next]_vars, ~overlapped'
               PROVE  Promise!Next \/ UNCHANGED Promise!vars
    BY OverlapLasts
  <2>1. ASSUME NEW r \in Requests, Create(r) PROVE Promise!Raise(r)
    BY <2>1 DEF Create, SerialInv, TypeOK, Promise!Raise
  <2>2. ASSUME NEW w \in Workers, Commit(w) PROVE Promise!Next
    <3>1. CommitEffect(tx[w]) /\ OutcomeFits(tx[w])
      BY <2>2, SerialCommit, SerialOutcome
    <3>2. PICK r \in Requests, role \in Roles, d \in Decisions :
            r = tx[w].r /\ role = tx[w].role /\ d = tx[w].decision
      BY <3>1 DEF CommitEffect
    <3>3. Promise!Vote(r, role, d)
      <4>1. r \in raised /\ approval' = [approval EXCEPT ![r][role] = d]
        BY <3>1, <3>2 DEF CommitEffect
      <4>2. raised' = raised
        BY <3>1 DEF CommitEffect, OutcomeFits
      <4>3. active' = IF \A k \in Roles : approval'[r][k] = "APPROVED"
                        THEN active \union {r} ELSE active \ {r}
        BY <3>1, <3>2 DEF CommitEffect, OutcomeFits
      <4> QED BY <4>1, <4>2, <4>3 DEF Promise!Vote
    <3> QED BY <3>3 DEF Promise!Next, Decisions
  <2>3. CASE UNCHANGED <<req, approval>>
    BY <2>3 DEF Promise!vars
  <2> QED BY <2>1, <2>2, <2>3 DEF Next, Begin, Abort, vars, Promise!Next
<1>3. (~overlapped => SerialInv) /\ TypeOK' /\ [Next]_vars
        => (~overlapped => SerialInv)'
  BY SerialStep, OverlapLasts
<1> QED BY <1>1, <1>2, <1>3, TypeCorrect, SerialInit, PTL
        DEF Spec, KeepsPromise
=============================================================================
