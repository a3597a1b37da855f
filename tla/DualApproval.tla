---------------------------- MODULE DualApproval ----------------------------
(***************************************************************************)
(* What SOW change control promises (docs/roles-and-governance.md, "SOW    *)
(* change control"): every required role casts, and may revise, a vote on  *)
(* a raised change, and the change is active exactly while all the votes   *)
(* are approvals.  There are no sessions, snapshots or status columns here.*)
(***************************************************************************)
CONSTANTS
  Requests,   \* change requests that may be raised
  Roles       \* the approver roles that must all approve

VARIABLES
  raised,     \* the requests that exist
  vote,       \* vote[r][role]: the role's current vote on r
  active      \* the requests that are in force

vars == <<raised, vote, active>>

Votes == {"PENDING", "APPROVED", "REJECTED"}

Init ==
  /\ raised = {}
  /\ vote = [r \in Requests |-> [role \in Roles |-> "PENDING"]]
  /\ active = {}

Raise(r) ==
  /\ r \notin raised
  /\ raised' = raised \union {r}
  /\ UNCHANGED <<vote, active>>

Vote(r, role, v) ==
  /\ r \in raised
  /\ vote' = [vote EXCEPT ![r][role] = v]
  /\ active' = IF \A k \in Roles : vote'[r][k] = "APPROVED"
                 THEN active \union {r}
                 ELSE active \ {r}
  /\ UNCHANGED raised

Next ==
  \E r \in Requests :
    \/ Raise(r)
    \/ \E role \in Roles, v \in {"APPROVED", "REJECTED"} : Vote(r, role, v)

Spec == Init /\ [][Next]_vars
=============================================================================
