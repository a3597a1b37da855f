---------------------------- MODULE ChangeControl ---------------------------
(***************************************************************************)
(* ChangeControlService and the two endpoints that call it                 *)
(* (app/services/change_control_service.py, app/api/core_routes.py).       *)
(*                                                                         *)
(* A decision is one database transaction.  The session reads the request  *)
(* and all of its approval rows, computes the outcome from what it read,   *)
(* and at commit writes only the columns whose value it changed.  Nothing  *)
(* in the code locks the rows it reads and no row carries a version, so    *)
(* two decisions whose transactions overlap do not see each other.  Begin  *)
(* takes the snapshot, Commit writes.  The history variable overlapped     *)
(* remembers whether two decisions have ever been open at the same time.   *)
(*                                                                         *)
(* The approver's identity is abstracted: the endpoint's role check only   *)
(* restricts who may cast the vote of a role, and some user always may.    *)
(***************************************************************************)
CONSTANTS
  Requests,   \* identities of the change requests
  Roles,      \* REQUIRED_ROLES
  Workers,    \* server threads, each with a session of its own
  NoTx        \* a worker without an open transaction

Votes == {"PENDING", "APPROVED", "REJECTED"}

\* The decisions apply_approval accepts; any other string is refused with 400.
Decisions == {"APPROVED", "REJECTED"}

\* "absent": create_request has not committed the row yet.
ReqStatus == {"absent", "pending", "rejected", "activated"}

ReqRow == [status : ReqStatus, activated_at : BOOLEAN]

\* What an open transaction was asked to record, and what it read.
Session == [r : Requests, role : Roles, decision : Decisions,
            status : ReqStatus, approval : [Roles -> Votes]]

ASSUME RolesAssumption == Roles # {}
ASSUME NoTxAssumption == NoTx \notin Session

VARIABLES
  req,        \* req[r]: the row of sow_change_requests
  approval,   \* approval[r][role]: the status column of sow_change_approvals
  tx,         \* tx[w]: the open transaction of worker w, or NoTx
  overlapped  \* history: have two decisions ever been open at once?

vars == <<req, approval, tx, overlapped>>

TypeOK ==
  /\ req \in [Requests -> ReqRow]
  /\ approval \in [Requests -> [Roles -> Votes]]
  /\ tx \in [Workers -> Session \union {NoTx}]
  /\ overlapped \in BOOLEAN

Init ==
  /\ req = [r \in Requests |-> [status |-> "absent", activated_at |-> FALSE]]
  /\ approval = [r \in Requests |-> [role \in Roles |-> "PENDING"]]
  /\ tx = [w \in Workers |-> NoTx]
  /\ overlapped = FALSE

Idle(w) == tx[w] = NoTx

-----------------------------------------------------------------------------
(* create_request: the request and one pending approval per required role, *)
(* committed together.                                                     *)
Create(r) ==
  /\ req[r].status = "absent"
  /\ req' = [req EXCEPT ![r].status = "pending"]
  /\ UNCHANGED <<approval, tx, overlapped>>

(* A worker starts apply_approval: it loads the request and its approvals. *)
Begin(w, r, role, d) ==
  /\ Idle(w)
  /\ req[r].status # "absent"
  /\ tx' = [tx EXCEPT ![w] = [r |-> r, role |-> role, decision |-> d,
                              status |-> req[r].status,
                              approval |-> approval[r]]]
  /\ overlapped' = (overlapped \/ \E v \in Workers : ~Idle(v))
  /\ UNCHANGED <<req, approval>>

(* The approvals as the session sees them once its own vote is recorded.   *)
Ballot(t) == [t.approval EXCEPT ![t.role] = t.decision]

Rejects(t) == \E role \in Roles : Ballot(t)[role] = "REJECTED"

(* Mutant: the approvals are re-read without the vote being recorded.      *)
ActivatesWithoutOwnVote(t) == \A role \in Roles : t.approval[role] = "APPROVED"

Activates(t) == \A role \in Roles : Ballot(t)[role] = "APPROVED"

(* Mutants: a name outside the enumeration; a rejection that no later vote *)
(* can lift; a status computed from nothing instead of left alone.         *)
OutcomeMisnamed(t) ==
  IF Rejects(t) THEN "rejected" ELSE IF Activates(t) THEN "active" ELSE t.status
OutcomeFinal(t) ==
  IF Rejects(t) \/ t.status = "rejected" THEN "rejected"
  ELSE IF Activates(t) THEN "activated" ELSE t.status
OutcomeFromScratch(t) ==
  IF Rejects(t) THEN "rejected" ELSE IF Activates(t) THEN "activated" ELSE "pending"

Outcome(t) ==
  IF Rejects(t) THEN "rejected"
  ELSE IF Activates(t) THEN "activated"
  ELSE t.status

(* A column is part of the UPDATE only when the session changed it.        *)
Written(new, seen, current) == IF new # seen THEN new ELSE current

(* Mutant: a rejection also clears activated_at.                           *)
CommitClearingDate(w) ==
  LET t == tx[w]
  IN  /\ ~Idle(w)
      /\ approval' = [approval EXCEPT ![t.r][t.role] =
                        Written(t.decision, t.approval[t.role], @)]
      /\ req' = [req EXCEPT ![t.r] =
                   [status |-> Written(Outcome(t), t.status, @.status),
                    activated_at |-> ~Rejects(t) /\ (@.activated_at \/ Activates(t))]]
      /\ tx' = [tx EXCEPT ![w] = NoTx]
      /\ UNCHANGED overlapped

(* The commit: status and the vote are columns written only when the value *)
(* changed; activated_at is a fresh timestamp whenever the vote activates. *)
Commit(w) ==
  LET t == tx[w]
  IN  /\ ~Idle(w)
      /\ approval' = [approval EXCEPT ![t.r][t.role] =
                        Written(t.decision, t.approval[t.role], @)]
      /\ req' = [req EXCEPT ![t.r] =
                   [status |-> Written(Outcome(t), t.status, @.status),
                    activated_at |-> @.activated_at \/ Activates(t)]]
      /\ tx' = [tx EXCEPT ![w] = NoTx]
      /\ UNCHANGED overlapped

(* The request dies before it commits: the session is closed and nothing   *)
(* of it reaches the database (a lost connection, a deadlock victim).      *)
Abort(w) ==
  /\ ~Idle(w)
  /\ tx' = [tx EXCEPT ![w] = NoTx]
  /\ UNCHANGED <<req, approval, overlapped>>

Next ==
  \/ \E r \in Requests : Create(r)
  \/ \E w \in Workers, r \in Requests, role \in Roles, d \in Decisions :
        Begin(w, r, role, d)
  \/ \E w \in Workers : Commit(w) \/ Abort(w)

Spec == Init /\ [][Next]_vars

-----------------------------------------------------------------------------
(* A change is in force only with every required approval, and carries the *)
(* status its votes call for: activated exactly when all the votes are     *)
(* approvals, rejected whenever one is a rejection (apply_approval's last  *)
(* branches, over any sequence of votes and changes of mind), as long as   *)
(* no two decisions have overlapped.                                       *)
AgreesWithVotes ==
  \A r \in Requests :
    /\ req[r].status = "activated" <=>
         \A role \in Roles : approval[r][role] = "APPROVED"
    /\ (\E role \in Roles : approval[r][role] = "REJECTED")
         => req[r].status = "rejected"

StatusAgreesWithVotes == ~overlapped => AgreesWithVotes

(* However decisions overlap, a committed rejection is never lost behind a *)
(* request that still shows as pending.                                    *)
PendingHidesNoRejection ==
  \A r \in Requests :
    req[r].status = "pending" =>
      \A role \in Roles : approval[r][role] # "REJECTED"

(* A request is shown as activated only if its activation was recorded:    *)
(* activated_at and the status are set by the same branch, but written     *)
(* column by column by sessions that may overlap.                          *)
ActivatedIsDated ==
  \A r \in Requests : req[r].status = "activated" => req[r].activated_at

(* The promise itself: the same votes, and in force while "activated".     *)
Promise == INSTANCE DualApproval WITH
  raised <- {r \in Requests : req[r].status # "absent"},
  vote   <- approval,
  active <- {r \in Requests : req[r].status = "activated"}

(* While decisions do not overlap, every step of the service is a step of  *)
(* the promise, or invisible to it.                                        *)
KeepsPromise ==
  Promise!Init /\ [][~overlapped' => [Promise!Next]_(Promise!vars)]_vars

-----------------------------------------------------------------------------
(* roles-and-governance.md:48, "a change becomes active only when both     *)
(* required approvals are approved".                                       *)
ActiveOnlyIfApproved ==
  \A r \in Requests :
    req[r].status = "activated" =>
      \A role \in Roles : approval[r][role] = "APPROVED"

=============================================================================
