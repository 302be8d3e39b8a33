----------------------------- MODULE ScreenStack -----------------------------
(***************************************************************************)
(* What the screen manager promises: a stack of screens, of which the top  *)
(* one is painted, and which changes only while nothing is painted and as  *)
(* it was last asked to.                                                   *)
(***************************************************************************)
EXTENDS Sequences, SequencesExt

CONSTANTS
    Screen,
    None        \* no screen

VARIABLES
    screens,    \* the screens, the bottom one first
    painting,   \* the one being painted
    asked       \* the navigation asked for: what, and to which new screen

stackVars == <<screens, painting, asked>>

Nothing == <<"None", None>>

Init ==
    /\ screens = <<>>
    /\ painting = None
    /\ asked = Nothing

\* A later call takes the place of an earlier one that is not served yet.
Ask(what, s) ==
    /\ s \notin ToSet(screens)
    /\ asked' = <<what, s>>
    /\ UNCHANGED <<screens, painting>>

\* The stack may change.
Still == painting = None /\ UNCHANGED painting

\* At power-on, and after the last screen has gone.
First(s) ==
    /\ Still
    /\ screens = <<>>
    /\ asked = Nothing
    /\ screens' = <<s>>
    /\ UNCHANGED asked

Serve(what) ==
    /\ Still
    /\ screens # <<>>
    /\ asked[1] = what
    /\ asked' = Nothing

Push    == Serve("Push") /\ screens' = Append(screens, asked[2])
Pop     == Serve("Pop") /\ screens' = Front(screens)
Replace == Serve("Replace") /\ screens' = <<asked[2]>>

BeginPaint ==
    /\ painting = None
    /\ screens # <<>>
    /\ painting' = Last(screens)
    /\ UNCHANGED <<screens, asked>>

EndPaint ==
    /\ painting # None
    /\ painting' = None
    /\ UNCHANGED <<screens, asked>>

\* The device is reset.
Off ==
    /\ screens' = <<>>
    /\ painting' = None
    /\ asked' = Nothing

Next ==
    \/ \E s \in Screen : First(s) \/ Ask("Push", s) \/ Ask("Replace", s)
    \/ Ask("Pop", None)
    \/ Push
    \/ Pop
    \/ Replace
    \/ BeginPaint
    \/ EndPaint
    \/ Off

Spec == Init /\ [][Next]_stackVars
=============================================================================
