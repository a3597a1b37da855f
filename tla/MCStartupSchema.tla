--------------------------- MODULE MCStartupSchema --------------------------
(* Three steps, one of each wording that matters: the stage of "call" is   *)
(* always there, that of "report" depends on the campaign, and that of     *)
(* "post" is looked for under other words than it is derived from.         *)
EXTENDS StartupSchema

CONSTANTS call, report, post

MCWordingOf == [t \in Steps |-> IF t = call THEN "planning"
                                ELSE IF t = report THEN "reporting" ELSE "distribution"]
MCDeliverableStageOf == [t \in Steps |-> "production"]
MCRevisions == <<3, 2, 1>>
=============================================================================
