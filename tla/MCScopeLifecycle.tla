-------------------------- MODULE MCScopeLifecycle --------------------------
(* Two scopes: launch, of a client whose name gives a code, sells          *)
(* four demand sprints; trial, of a client whose name has no letters, a    *)
(* display line and a response line without a volume.                      *)
EXTENDS ScopeLifecycle, TLC

CONSTANTS launch, trial, acme, none, demand, display, response, code

MCBrandOf == [s \in Scopes |-> IF s = launch THEN acme ELSE none]
MCLinesOf == [s \in Scopes |-> IF s = launch THEN {demand} ELSE Lines \ {demand}]
MCKindOf == [l \in Lines |-> IF l = demand THEN "create_reach"
                             ELSE IF l = display THEN "single" ELSE "no_volume"]
MCCodeOf == [l \in Lines |-> code]
Symmetry == Permutations(Workers)
=============================================================================
