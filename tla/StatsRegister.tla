---------------------------- MODULE StatsRegister ----------------------------
(***************************************************************************)
(* What the file of the all-time reading statistics promises to the code   *)
(* that calls load(), save() and resetLocal(): one value, replaced as a    *)
(* whole when a call completes and otherwise kept, until two calls in a    *)
(* row are cut short.                                                      *)
(***************************************************************************)
CONSTANTS
    Value,
    Fresh       \* what load() gives when there is nothing

VARIABLES
    value,      \* what load() gives
    older,      \* the value before, if it is still there
    doing,      \* the call under way
    argument,   \* the value it stores
    struck      \* a call was cut short since the last one that completed

registerVars == <<value, older, doing, argument, struck>>

Init ==
    /\ value \in Value
    /\ older \in {{}} \union {{v} : v \in Value}
    /\ doing = "nothing"
    /\ argument = Fresh
    /\ struck = FALSE

Begin(what, v) ==
    /\ doing = "nothing"
    /\ doing' = what
    /\ argument' = v
    /\ UNCHANGED <<value, older, struck>>

\* A save makes room for, or keeps, what it is about to replace.
MakeRoom ==
    /\ doing = "save"
    /\ older' \in {{}, {value}}
    /\ UNCHANGED <<value, doing, argument, struck>>

\* After a first call was cut short a save may forget all before it stores.
Forget ==
    /\ doing = "save"
    /\ struck
    /\ value' = Fresh
    /\ older' = {}
    /\ UNCHANGED <<doing, argument, struck>>

\* A reset forgets the value before it stores, which brings back the older one.
Discard ==
    /\ doing = "reset"
    /\ value' \in older \union {Fresh}
    /\ UNCHANGED <<older, doing, argument, struck>>

Complete ==
    /\ doing # "nothing"
    /\ value' = argument
    /\ doing' = "nothing"
    /\ argument' = Fresh
    /\ struck' = FALSE
    /\ UNCHANGED older

\* A call fails, or the power is lost.
CutShort ==
    /\ doing # "nothing"
    /\ doing' = "nothing"
    /\ argument' = Fresh
    /\ struck' = TRUE
    /\ UNCHANGED <<value, older>>

Next ==
    \/ \E v \in Value : Begin("save", v)
    \/ Begin("reset", Fresh)
    \/ MakeRoom
    \/ Forget
    \/ Discard
    \/ Complete
    \/ CutShort

Spec == Init /\ [][Next]_registerVars
=============================================================================
