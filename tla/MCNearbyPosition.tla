--------------------------- MODULE MCNearbyPosition ---------------------------
(***************************************************************************)
(* Instances of NearbyPosition for TLC.  The view is for the properties     *)
(* that do not look at the panel.  It leaves out what no action reads any   *)
(* more: what a receiver has sent, a place that the owner has turned down,  *)
(* and all that a sync remembers that has ended, but for the peer it names. *)
(***************************************************************************)
EXTENDS NearbyPosition, TLC

CONSTANTS a, b, p, q, book1, book2

Two       == {a, b}
NoOne     == {}
Places    == {p, q}
OneBook   == {book1}
TwoBooks  == {book1, book2}
Symmetry  == Permutations(Device) \union Permutations(Place) \union Permutations(Book)

Remembered(r) ==
    IF r.state \in {"ERROR", "SYNCED"}
    THEN [Closed EXCEPT !.state = r.state, !.source = r.source, !.received = r.received,
                        !.peer = IF r.state = "SYNCED" THEN r.peer ELSE None]
    ELSE [r EXCEPT !.panel = None,
                   !.cross = IF r.received THEN @ ELSE None,
                   !.sent  = @ /\ r.source,
                   !.acked = @ /\ r.source]

View == <<[d \in Device |-> Remembered(dev[d])], events, place, book, newer, histories>>
==============================================================================
