---------------------------- MODULE AtomicUpdate -----------------------------
(***************************************************************************)
(* What installing a firmware promises: the device runs one complete image *)
(* and starts one complete image next; an update replaces the latter in    *)
(* one step, or it fails and changes nothing.  It installs the image that  *)
(* the user was asked about, as long as the source, a card or a server,    *)
(* can be held to that.  The power may be lost at any time.                *)
(***************************************************************************)
CONSTANTS
    Image,      \* complete firmware images
    None        \* no image

VARIABLES
    boot,       \* the image that the next restart starts
    runs,       \* the image that runs
    asked,      \* the image that the user was asked about last
    sure,       \* the source can only give that one
    update,     \* the image being installed
    complete    \* it has been installed

updateVars == <<boot, runs, asked, sure, update, complete>>

Init ==
    /\ boot \in Image
    /\ runs = boot
    /\ asked = None
    /\ sure = FALSE
    /\ update = None
    /\ complete = FALSE

Ask(i) ==
    /\ update = None
    /\ asked' = i
    /\ sure' \in BOOLEAN
    /\ UNCHANGED <<boot, runs, update, complete>>

\* The card is changed.
Exchange ==
    /\ update = None
    /\ sure' = FALSE
    /\ UNCHANGED <<boot, runs, asked, update, complete>>

Begin(i) ==
    /\ update = None
    /\ sure => i = asked
    /\ update' = i
    /\ UNCHANGED <<boot, runs, asked, sure, complete>>

Commit ==
    /\ update \in Image
    /\ ~complete
    /\ boot' = update
    /\ complete' = TRUE
    /\ UNCHANGED <<runs, asked, sure, update>>

Fail ==
    /\ update # None
    /\ ~complete
    /\ update' = None
    /\ UNCHANGED <<boot, runs, asked, sure, complete>>

Restart ==
    /\ runs' = boot
    /\ asked' = None
    /\ sure' = FALSE
    /\ update' = None
    /\ complete' = FALSE
    /\ UNCHANGED boot

Next ==
    \/ \E i \in Image : Ask(i) \/ Begin(i)
    \/ Exchange
    \/ Commit
    \/ Fail
    \/ Restart

Spec == Init /\ [][Next]_updateVars
=============================================================================
