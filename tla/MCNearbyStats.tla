----------------------------- MODULE MCNearbyStats -----------------------------
(***************************************************************************)
(* Instances of NearbyStats for TLC.  The view leaves out what no action    *)
(* reads any more: what a sync remembers that has ended, but for the peer   *)
(* and the two halves of the exchange, and what a .part file holds.         *)
(***************************************************************************)
EXTENDS NearbyStats, TLC

CONSTANTS a, b

Two      == {a, b}
NoOne    == {}
OneOfTwo == {b}
Readers  == Permutations(Device)

Remembered(r) ==
    IF r.state \in {"READY", "ERROR"} THEN [Closed EXCEPT !.state = r.state]
    ELSE IF r.state = "SYNCED" THEN [r EXCEPT !.seen = FALSE, !.sent = FALSE, !.local = None]
    ELSE r

Left(d) == {e \in Device : part[d][e] # None}

View == <<[d \in Device |-> Remembered(dev[d])], events, stats, record,
          [d \in Device |-> Left(d)], newer>>
==============================================================================
