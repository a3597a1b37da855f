----------------------------- MODULE MCSchedule -----------------------------
(* The client reviews the content, an article and a video are published,   *)
(* the article is promoted, and a report waits for both publications; a    *)
(* week has four working days, and the ninth day is a holiday.  A campaign *)
(* as it is generated, which ends on a day off, and one of before there    *)
(* were offsets, made on a day off, with dates that are missing.           *)
EXTENDS Schedule

CONSTANTS review, article, video, promote, report,   \* the steps
          d, production, promotion, content_plan, publishing

MCPreds == [s \in Steps |-> CASE s = review -> {} [] s \in {article, video} -> {review}
                              [] s = promote -> {article} [] s = report -> {article, video}]
MCNeeds == [s \in Steps |-> IF s = report THEN {article, video} ELSE IF s = promote THEN {article} ELSE {}]
MCRowOrders == {<<review, article, video, promote, report>>, <<review, video, report, promote, article>>}
MCTemplated == <<article, video, promote, report>>
MCAnchorsOf == [s \in Steps |-> CASE s = review -> <<>> [] s = report -> <<publishing>>
                                 [] OTHER -> <<publishing, content_plan>>]
MCSocials == [s \in Steps |-> IF s = article THEN <<promote>> ELSE <<>>]
MCPublishing == <<article, video>>
MCLasting == [s \in Steps |-> 1]
MCStageOf == [s \in Steps |-> IF s = review THEN production ELSE promotion]
MCDeliverableOf == [s \in Steps |-> IF s = video THEN NoDeliverable ELSE d]
MCHours == [s \in Steps |-> 4]
MCWeekly == [s \in Steps |-> 16]
MCBuffer == [x \in Rows |-> IF x \in Steps \union {production} THEN 0 ELSE 1]
MCDueOffset == [x \in Deliverables |-> 5]

Planned(start, due) == [start |-> start, due |-> due, baseStart |-> start, baseDue |-> due,
                        earliest |-> NoDay, done |-> NoDay, status |-> "open"]
Times == [s \in Steps |-> CASE s = review -> Planned(0, 1) [] s \in {article, video} -> Planned(3, 7)
            [] s = promote -> Planned(7, 8) [] s = report -> Planned(14, 15)]
Bare == [s \in Steps |-> IF s \in {video, promote, report} THEN [Times[s] EXCEPT !.due = NoDay, !.start = NoDay]
                         ELSE Times[s]]
Stone(due, known) == [due |-> due, offset |-> IF known THEN due ELSE 0, hasOffset |-> known,
                      completed |-> NoDay, sla |-> "not_due", manual |-> FALSE]
OfSteps(row) == [g \in Stages |-> Refreshed(row, g)]
WithHealth(s) ==
  [s EXCEPT !.campaign.health = CampaignHealth(0, s.campaign, s.step, s.stage, s.deliverable)]

MCSituations == {
  WithHealth([step |-> Times, stage |-> OfSteps(Times),
    deliverable |-> [x \in Deliverables |-> [start |-> NoDay, due |-> 15, baseDue |-> 15, published |-> FALSE]],
    campaign |-> [start |-> 0, end |-> 27, status |-> "open", health |-> "on_track"],
    milestone |-> [m \in Milestones |-> IF m = content_plan THEN Stone(0, TRUE) ELSE Stone(3, TRUE)]]),
  WithHealth([step |-> Bare, stage |-> OfSteps(Bare),
    deliverable |-> [x \in Deliverables |-> [start |-> NoDay, due |-> NoDay, baseDue |-> 15, published |-> FALSE]],
    campaign |-> [start |-> NoDay, end |-> NoDay, status |-> "open", health |-> "on_track"],
    milestone |-> [m \in Milestones |-> IF m = content_plan THEN Stone(1, FALSE) ELSE Stone(NoDay, FALSE)]])}

Asked(status) == [start |-> NoDay, due |-> NoDay, completion |-> NoDay, status |-> status]
MCEdits == {Asked("done"), Asked("cancelled"), Asked("unblocked"),
            [Asked("none") EXCEPT !.start = 5, !.due = 2], [Asked("none") EXCEPT !.completion = 4],
            [Asked("waiting") EXCEPT !.due = 10], [Asked("begun") EXCEPT !.completion = Blank]}

\* The hypotheses of RepairComesToRest hold here.
ASSUME TemplateHypotheses == TemplateInOrder /\ TemplateIsClosed
=============================================================================
