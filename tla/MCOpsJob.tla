------------------------------ MODULE MCOpsJob ------------------------------
(* One step, one review window and one person's load in a week, in a calm  *)
(* state and in states with one kind of cause each.                        *)
EXTENDS OpsJob

CONSTANTS s, w, l

Calm == [step |-> [x \in {s} |-> [done |-> FALSE, late |-> 0, idle |-> 0, pushes |-> 0,
                                  waiting |-> "nobody"]],
         window |-> [x \in {w} |-> 0], load |-> [x \in {l} |-> "none"]]

MCSituations == {Calm,
                 [Calm EXCEPT !.step[s] = [@ EXCEPT !.waiting = "dependency", !.idle = 1,
                                                      !.pushes = 2]],
                 [Calm EXCEPT !.step[s].late = 1],
                 [Calm EXCEPT !.window[w] = 3, !.load[l] = "fits"],
                 [Calm EXCEPT !.load[l] = "over"]}
MCDueRank == [x \in {s, w} |-> IF x = s THEN 1 ELSE 2]
=============================================================================
