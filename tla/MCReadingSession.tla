--------------------------- MODULE MCReadingSession ---------------------------
(***************************************************************************)
(* Model-checking instance of ReadingSession: the statistics are small      *)
(* enough for TLC to enumerate, and their bounds are in the cfg.  The view  *)
(* leaves out the history of a reader that has been left, the arguments of  *)
(* a save that has returned, and what a failed one has left in the          *)
(* temporary file, which is only ever removed: no property looks at them,   *)
(* and the next reader and the next save begin anew.  It also leaves out    *)
(* the histories of StatsFile, which steer no step of the session and are   *)
(* for the properties that MCStatsFile checks.                              *)
(***************************************************************************)
EXTENDS ReadingSession

Temp   == IF pc \in {"idle", "stale", "cleanup"} THEN temp # Missing ELSE temp
Files  == <<primary, backup, Temp, blocked, loaded, strikes>>
Call   == IF pc = "idle" THEN <<>> ELSE <<saving, rotating>>
Reader == IF reader = "none" THEN <<>> ELSE <<live, done, counted, chosen, lost>>
Copy   == IF reader = "none" /\ phase = "run" /\ pc = "idle" THEN <<>> ELSE <<misread>>

View == <<Files, pc, Call, reader, Reader, Copy, screenVars, bookFile, phase>>
=============================================================================
