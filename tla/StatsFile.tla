------------------------------ MODULE StatsFile ------------------------------
(***************************************************************************)
(* The file of the all-time reading statistics, global_stats.bin on the SD *)
(* card: src/src/activities/reader/GlobalReadingStats.cpp.                 *)
(*                                                                         *)
(* save() writes a temporary file, rotates the file to a backup and moves  *)
(* the temporary file into place; load() reads the file, or else the       *)
(* backup, and either may not open or be read short.  Each call of the     *)
(* storage layer in save() is a step: it may fail, and the power may be    *)
(* lost before it, after it or, when it writes, in its middle.             *)
(* Removing and renaming a file are taken to be atomic.  A file holds one  *)
(* value of Stats, which is opaque here; or it is missing, torn, or of a   *)
(* newer format than this firmware reads.                                  *)
(***************************************************************************)
EXTENDS Naturals

CONSTANTS
    Stats,      \* the values of GlobalReadingStats
    Fresh,      \* the default-constructed one
    Missing,    \* no such file
    Torn,       \* a file that load() finds invalid
    Newer       \* a file of a newer format

ASSUME StatsAssumption ==
    /\ Fresh \in Stats
    /\ Missing \notin Stats
    /\ Torn \notin Stats
    /\ Newer \notin Stats
    /\ Missing # Torn /\ Missing # Newer /\ Torn # Newer

VARIABLES
    primary,    \* global_stats.bin
    backup,     \* global_stats.bin.bak
    temp,       \* global_stats.bin.tmp
    pc,         \* where saveToFile() is
    saving,     \* its stats argument
    rotating,   \* its backupPath argument is not nullptr
    blocked,    \* s_blockDestructiveSave
    loaded,     \* history: load() has been called since the device started
    allowed,    \* history: the values that load() may give
    strikes,    \* history: saves cut short since the last one that completed
    reset,      \* history: resetLocal() has been called
    missed      \* history: load() could not read a file of a newer format

files   == <<primary, backup, temp>>
call    == <<saving, rotating>>
fileHistory == <<loaded, allowed, strikes, reset, missed>>
fileVars == <<files, pc, call, blocked, fileHistory>>

Contents == Stats \union {Missing, Newer}
Pcs      == {"idle", "stale", "write", "drop", "rotate", "publish", "restore",
             "cleanup"}

\* What a read of a file finds; one that fails is as good as a torn file.
Reads(f) == {f, Torn}

\* What load() returns when it finds p in the file and b in the backup ...
Gives(p, b) ==
    IF p \in Stats THEN p
    ELSE IF p # Newer /\ b \in Stats THEN b
    ELSE Fresh

\* ... and whether it finds a newer format: in the backup only if it reads that.
FindsNewer(p, b) ==
    \/ p = Newer
    \/ p \notin Stats /\ b = Newer

\* What load() returns when it can read the files.
Recovered == Gives(primary, backup)

\* A backup that load() does not get to.
NewerBehind == primary \in Stats /\ backup = Newer

(***************************************************************************)
(* The card may come from an earlier firmware, or from a newer one.        *)
(***************************************************************************)
Init ==
    /\ primary \in Contents
    /\ backup \in Contents
    /\ primary = Missing => backup \notin Stats
    /\ temp \in {Missing, Torn}
    /\ pc = "idle"
    /\ saving = Fresh
    /\ rotating = FALSE
    /\ blocked = FALSE
    /\ loaded = FALSE
    /\ allowed = {Recovered}
    /\ strikes = 0
    /\ reset = NewerBehind
    /\ missed = FALSE

Misses(p, b) == ~blocked /\ FindsNewer(primary, backup) /\ ~FindsNewer(p, b)

\* Fault: the backup is not looked at for a newer format.
LoadPrimaryOnly(p, b) ==
    /\ pc = "idle"
    /\ loaded' = TRUE
    /\ blocked' = (blocked \/ p = Newer)
    /\ missed' = (missed \/ Misses(p, b))
    /\ UNCHANGED <<files, pc, call, allowed, strikes, reset>>

\* load() finds p in the file and b in the backup, which it reads if it has to.
Load(p, b) ==
    /\ pc = "idle"
    /\ loaded' = TRUE
    /\ blocked' = (blocked \/ FindsNewer(p, b))
    /\ missed' = (missed \/ Misses(p, b))
    /\ UNCHANGED <<files, pc, call, allowed, strikes, reset>>

LoadSome == \E p \in Reads(primary), b \in Reads(backup) : Load(p, b)

\* save(), refused while blocked.  Every caller has called load() before.
Save(v) ==
    /\ pc = "idle"
    /\ loaded
    /\ ~blocked
    /\ pc' = "stale"
    /\ saving' = v
    /\ rotating' = TRUE
    /\ allowed' = allowed \union {v}
    /\ UNCHANGED <<files, blocked, loaded, strikes, reset, missed>>

\* resetLocal(): no backup is made of what it discards, and the block is not
\* looked at.  Cut short, it may bring back the stats of the save before last.
ResetLocal ==
    /\ pc = "idle"
    /\ pc' = "stale"
    /\ saving' = Fresh
    /\ rotating' = FALSE
    /\ allowed' = allowed \union {Fresh} \union ({backup} \cap Stats)
    /\ reset' = TRUE
    /\ UNCHANGED <<files, blocked, loaded, strikes, missed>>

(***************************************************************************)
(* saveToFile().                                                           *)
(***************************************************************************)
Strike == strikes' = IF strikes = 2 THEN 2 ELSE strikes + 1

\* return false
GiveUp ==
    /\ pc' = "idle"
    /\ Strike
    /\ UNCHANGED <<call, blocked, loaded, allowed, reset, missed>>

Proceed(next) ==
    /\ pc' = next
    /\ UNCHANGED <<call, blocked, fileHistory>>

RemoveStale ==
    /\ pc = "stale"
    /\ \/ temp' = Missing /\ Proceed("write")
       \/ temp # Missing /\ UNCHANGED temp /\ GiveUp
    /\ UNCHANGED <<primary, backup>>

\* Fault: a short write goes unnoticed.
WriteTempUnverified ==
    /\ pc = "write"
    /\ temp' \in {Torn, saving}
    /\ Proceed("drop")
    /\ UNCHANGED <<primary, backup>>

\* Open, write, flush, sync, close and verify; what a failure leaves is removed.
WriteTemp ==
    /\ pc = "write"
    /\ \/ temp' = saving /\ Proceed("drop")
       \/ temp' \in {Missing, Torn, saving} /\ Proceed("cleanup")
    /\ UNCHANGED <<primary, backup>>

\* save(): the old backup makes room for the next one.
DropBackup ==
    /\ pc = "drop"
    /\ rotating
    /\ \/ backup' = Missing /\ Proceed("rotate")
       \/ backup # Missing /\ UNCHANGED backup /\ Proceed("cleanup")
    /\ UNCHANGED <<primary, temp>>

\* resetLocal(): the file itself goes.
DropPrimary ==
    /\ pc = "drop"
    /\ ~rotating
    /\ \/ primary' = Missing /\ Proceed("publish")
       \/ primary # Missing /\ UNCHANGED primary /\ Proceed("cleanup")
    /\ UNCHANGED <<backup, temp>>

\* Fault: the file is removed and not kept as the backup.
RotateByRemoving ==
    /\ pc = "rotate"
    /\ primary' = Missing
    /\ Proceed("publish")
    /\ UNCHANGED <<backup, temp>>

Rotate ==
    /\ pc = "rotate"
    /\ \/ primary # Missing /\ backup' = primary /\ primary' = Missing
          /\ Proceed("publish")
       \/ primary = Missing /\ UNCHANGED <<primary, backup>> /\ Proceed("publish")
       \/ primary # Missing /\ UNCHANGED <<primary, backup>> /\ Proceed("cleanup")
    /\ UNCHANGED temp

\* The save is done.
Publish ==
    /\ pc = "publish"
    /\ primary' = temp
    /\ temp' = Missing
    /\ pc' = "idle"
    /\ allowed' = {saving}
    /\ strikes' = 0
    /\ UNCHANGED <<backup, call, blocked, loaded, reset, missed>>

PublishFails ==
    /\ pc = "publish"
    /\ Proceed(IF rotating /\ backup # Missing THEN "restore" ELSE "cleanup")
    /\ UNCHANGED files

Restore ==
    /\ pc = "restore"
    /\ \/ primary' = backup /\ backup' = Missing
       \/ UNCHANGED <<primary, backup>>
    /\ Proceed("cleanup")
    /\ UNCHANGED temp

Cleanup ==
    /\ pc = "cleanup"
    /\ temp' \in {Missing, temp}
    /\ GiveUp
    /\ UNCHANGED <<primary, backup>>

SaveToFile ==
    \/ RemoveStale
    \/ WriteTemp
    \/ DropBackup
    \/ DropPrimary
    \/ Rotate
    \/ Publish
    \/ PublishFails
    \/ Restore
    \/ Cleanup

\* A reset or an empty battery: RAM is lost, a write may be torn.
PowerLoss ==
    /\ temp' \in IF pc = "write" THEN {Missing, Torn, saving} ELSE {temp}
    /\ pc' = "idle"
    /\ saving' = Fresh
    /\ rotating' = FALSE
    /\ blocked' = FALSE
    /\ loaded' = FALSE
    /\ missed' = (missed /\ NewerBehind)
    /\ IF pc = "idle" THEN UNCHANGED strikes ELSE Strike
    /\ UNCHANGED <<primary, backup, allowed, reset>>

Next ==
    \/ LoadSome
    \/ \E v \in Stats : Save(v)
    \/ ResetLocal
    \/ SaveToFile
    \/ PowerLoss

Spec == Init /\ [][Next]_fileVars

-----------------------------------------------------------------------------
(***************************************************************************)
(* Properties.                                                             *)
(***************************************************************************)

\* Every variable has its type; the file and its backup are never torn.
FlagsOK ==
    /\ rotating \in BOOLEAN
    /\ blocked \in BOOLEAN
    /\ loaded \in BOOLEAN
    /\ reset \in BOOLEAN
    /\ missed \in BOOLEAN

TypeOK ==
    /\ primary \in Contents
    /\ backup \in Contents
    /\ temp \in Stats \union {Missing, Torn}
    /\ pc \in Pcs
    /\ saving \in Stats
    /\ allowed \in SUBSET Stats
    /\ strikes \in 0..2
    /\ FlagsOK

\* One save cut short, by a failed call or a power loss at any point, loses
\* nothing: load(), when it can read the files, gives what was saved last or what
\* was being saved.
OneStrikeLosesNothing ==
    (IF pc = "idle" THEN strikes <= 1 ELSE strikes = 0) => Recovered \in allowed

\* A file of a newer format, or a backup of one, stays as it is until the user
\* asks for a reset, as long as load() can read it when it looks: whatever call of
\* a save() fails and wherever the power is lost, no save() gets to it.  Of a file
\* that it cannot read load() does not know what it is, and a save() may follow;
\* from the next start on the promise holds again, unless that save() has put a
\* file of this format before the newer one.
NewerFormatKept ==
    [][~reset /\ ~missed => /\ primary = Newer => primary' = Newer
                            /\ backup = Newer => backup' = Newer]_fileVars

-----------------------------------------------------------------------------
(***************************************************************************)
(* The inductive invariant behind them.                                    *)
(***************************************************************************)

\* What is moved into place is what save() was called with, and where it is moved
\* there is no file.
CallInv ==
    /\ pc \in {"drop", "rotate", "publish", "restore"} => temp = saving
    /\ pc # "idle" => saving \in allowed
    /\ pc # "idle" /\ rotating => loaded /\ ~blocked
    /\ pc \in {"rotate", "restore"} => rotating
    /\ pc = "rotate" => backup = Missing
    /\ pc \in {"publish", "restore"} /\ rotating => primary = Missing
    /\ pc = "restore" => backup # Missing

\* No save() is under way over a file of a newer format that load() has seen;
\* it has seen those there are, or could not read them.
NewerInv ==
    /\ ~missed =>
         /\ loaded /\ primary = Newer => blocked
         /\ pc \in {"publish", "restore"} /\ rotating => backup # Newer
    /\ ~reset =>
         /\ pc # "idle" => rotating
         /\ ~missed => /\ ~NewerBehind
                       /\ loaded /\ backup = Newer => blocked

\* Before the first strike the file is there, or there is no backup to lose.
StrikeInv ==
    /\ OneStrikeLosesNothing
    /\ strikes = 0 =>
         /\ pc \in {"idle", "stale", "write", "drop"}
              => (primary = Missing => backup \notin Stats)
         /\ pc # "idle" /\ ~rotating
              => Fresh \in allowed /\ (backup \in Stats => backup \in allowed)

IInv ==
    /\ TypeOK
    /\ CallInv
    /\ NewerInv
    /\ StrikeInv

-----------------------------------------------------------------------------
(***************************************************************************)
(* What it implements: to its callers the files are one register.  The     *)
(* rename that moves the temporary file into place is the moment at which  *)
(* its value changes; the rotation before it is not to be seen.            *)
(***************************************************************************)
Register == INSTANCE StatsRegister WITH
    Value    <- Stats,
    value    <- Recovered,
    older    <- {backup} \intersect Stats,
    doing    <- IF pc = "idle" THEN "nothing" ELSE IF rotating THEN "save" ELSE "reset",
    argument <- IF pc = "idle" THEN Fresh ELSE saving,
    struck   <- strikes # 0

\* The statistics that load() gives change as a whole, at the end of a call, or
\* not at all, wherever a call fails or the power is lost; only a save that
\* follows one cut short, or a reset, may lose them on the way.
ImplementsRegister == Register!Spec

=============================================================================
