---------------------------- MODULE MCWorkflowTxn ---------------------------
(* A chain and a join over three stages: draft waits for brief, publish    *)
(* for design and draft.  Server threads are interchangeable.              *)
EXTENDS WorkflowTxn, TLC

CONSTANTS brief, design, draft, publish, planning, production, promotion, article

MCStageOf == [s \in Steps |-> IF s \in {brief, design} THEN planning
                             ELSE IF s = draft THEN production ELSE promotion]
MCPreds == [s \in Steps |-> IF s = draft THEN {brief}
                           ELSE IF s = publish THEN {design, draft} ELSE {}]
MCDeliverableOf == [s \in Steps |-> IF s = draft THEN article ELSE NoDeliverable]
MCBirthStage == [d \in Deliverables |-> production]

Symmetry == Permutations(Workers)
=============================================================================
