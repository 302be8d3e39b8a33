------------------------------ MODULE MCPetFarm ------------------------------
(***************************************************************************)
(* PetFarm for TLC, with a view that leaves out what no action and no      *)
(* property tells apart: what a dead plant once was, whether the farm has   *)
(* seen reading time when it has seen pages, and, once plants are no longer *)
(* judged by it, what had been read when they were hatched.                 *)
(***************************************************************************)
EXTENDS PetFarm

Judged == inOrder /\ text = 0

Remembered(plant) ==
    IF plant.stage = "dead"
    THEN [plant EXCEPT !.pages = 0, !.base = 0, !.tick = IF @ > 0 THEN 1 ELSE 0]
    ELSE [plant EXCEPT !.base = IF Judged THEN @ ELSE 0]

RememberedFarm(f) ==
    [f EXCEPT !.read = @ /\ f.known = 0,
              !.plots = [p \in Plots |-> Remembered(@[p])]]

RememberedFile == IF file \in {Missing, Torn} THEN file
                  ELSE [file EXCEPT !.farm = RememberedFarm(@)]

View == <<RememberedFile, RememberedFarm(farm), loaded, saving, clock, statsVars,
          screen, ever, text, Judged>>
=============================================================================
