-------------------------- MODULE MCWorkflowEngine --------------------------
(* Up to three steps over three stages: publish, in promotion, waits       *)
(* for design and draft, both in production; draft belongs to an article.  *)
(* The planning stage has no steps.                                        *)
EXTENDS WorkflowEngine

CONSTANTS design, draft, publish, planning, production, promotion, article

MCStageOf == [s \in Steps |-> IF s = publish THEN promotion ELSE production]
MCPreds == [s \in Steps |-> IF s = publish THEN {design, draft} \intersect Steps
                                          ELSE {}]
MCDeliverableOf == [s \in Steps |-> IF s = draft THEN article ELSE NoDeliverable]
MCBirthStage == [d \in Deliverables |-> production]
=============================================================================
