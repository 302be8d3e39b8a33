---------------------------- MODULE ReadingSession ----------------------------
(***************************************************************************)
(* Who reads and writes the reading statistics: the EPUB and XTC readers,  *)
(* the statistics screen they open, the book actions of the home screen,   *)
(* the nearby sync and the reset in the settings, over the statistics file *)
(* of StatsFile.                                                           *)
(*                                                                         *)
(* A reader keeps a copy of the statistics from its onEnter() to its       *)
(* onExit(), and hands a copy of that to the statistics screen, where the  *)
(* user may edit the dates and so the completion of the book.  There is    *)
(* one book, whose own file keeps whether it is completed; nobody looks    *)
(* whether that file was written, or could be read.  Tracking of           *)
(* statistics is switched on.                                              *)
(***************************************************************************)
EXTENDS Naturals

CONSTANTS
    MaxTurns,       \* bound: page turns counted
    MaxFinished,    \* bound: completed books counted
    Missing, Torn, Newer

ASSUME BoundsAssumption == MaxTurns \in Nat /\ MaxFinished \in Nat

VARIABLES
    primary, backup, temp, pc, saving, rotating, blocked, loaded, allowed,
    strikes, reset, missed,
    reader,     \* the reader on the screen or below the statistics screen
    live,       \* its globalStats
    done,       \* its stats.isCompleted
    screen,     \* BookStatsActivity is on top of it
    copy,       \* its globalStats, or those of a book action
    copyDone,   \* its stats.isCompleted
    changed,    \* its didChangeStats
    bookFile,   \* isCompleted in the statistics file of the book
    phase,      \* what the main task does between two saves
    counted,    \* history: page turns the reader's statistics should hold
    chosen,     \* history: what the user last chose the book to be, or what it
                \* was when it was opened
    lost,       \* history: the last write of the book's file failed, or a read
    misread     \* history: load() could not read the files when it gave the
                \* statistics in use

Turns    == 0..MaxTurns
Finished == 0..MaxFinished
Fresh    == [turns |-> 0, finished |-> 0]
AllStats == [turns : Turns, finished : Finished]

ASSUME FilesAssumption ==
    /\ {Missing, Torn, Newer} \intersect AllStats = {}
    /\ Missing # Torn /\ Missing # Newer /\ Torn # Newer

F == INSTANCE StatsFile WITH Stats <- AllStats

fileVars    == <<primary, backup, temp, pc, saving, rotating, blocked, loaded,
                 allowed, strikes, reset, missed>>
readerVars  == <<reader, live, done>>
screenVars  == <<screen, copy, copyDone, changed>>
sessionVars == <<readerVars, screenVars, bookFile, phase, counted, chosen, lost,
                 misread>>
vars == <<fileVars, sessionVars>>

Readers == {"epub", "xtc"}
Phases  == {"run", "popping", "leaving", "action"}

Init ==
    /\ F!Init
    /\ primary \in {Fresh, Missing, Newer}
    /\ backup \in {Missing, Newer}
    /\ reader = "none"
    /\ live = Fresh
    /\ done = FALSE
    /\ screen = FALSE
    /\ copy = Fresh
    /\ copyDone = FALSE
    /\ changed = FALSE
    /\ bookFile = FALSE
    /\ phase = "run"
    /\ counted = 0
    /\ chosen = FALSE
    /\ lost = FALSE
    /\ misread = FALSE

\* The main task is not inside a save or between two.
Ready == pc = "idle" /\ phase = "run"

\* GlobalReadingStats::save()
SaveGlobal(v) == IF blocked THEN UNCHANGED fileVars ELSE F!Save(v)

\* GlobalReadingStats::load() gives v, one of what the files may be read as.
Loadable == {F!Gives(p, b) : p \in F!Reads(primary), b \in F!Reads(backup)}

LoadGlobal(v) ==
    \E p \in F!Reads(primary), b \in F!Reads(backup) :
        v = F!Gives(p, b) /\ F!Load(p, b)

\* BookReadingStats::save(): the file may not open, and a short write leaves one
\* that load() takes for a book never read.  Nobody is told.
SaveBook(completed) ==
    /\ bookFile' \in {completed, bookFile, FALSE}
    /\ lost' = (bookFile' # completed)

\* Fault: it is decremented whatever it is.
WithCompletedUnguarded(s, completed) ==
    [s EXCEPT !.finished = IF completed THEN @ + 1 ELSE @ - 1]

\* completedBooks follows isCompleted, and does not go below 0.
WithCompleted(s, completed) ==
    IF completed THEN [s EXCEPT !.finished = @ + 1]
    ELSE IF s.finished > 0 THEN [s EXCEPT !.finished = @ - 1]
    ELSE s

(***************************************************************************)
(* The reader.                                                             *)
(***************************************************************************)

\* Fault: a reader begins with default-constructed statistics.
OpenBookUnloaded(kind) ==
    /\ Ready
    /\ reader = "none"
    /\ reader' = kind
    /\ live' = Fresh
    /\ done' = bookFile
    /\ counted' = F!Recovered.turns
    /\ chosen' = bookFile
    /\ lost' = FALSE
    /\ misread' = FALSE
    /\ UNCHANGED <<fileVars, screenVars, bookFile, phase>>

\* BookReadingStats::load() may fail, or find the file of an older version.
OpenBook(kind) ==
    \E v \in Loadable, completed \in BOOLEAN :
        /\ Ready
        /\ reader = "none"
        /\ LoadGlobal(v)
        /\ reader' = kind
        /\ live' = v
        /\ done' = completed
        /\ counted' = v.turns
        /\ chosen' = completed
        /\ lost' = (completed # bookFile)
        /\ misread' = (v # F!Recovered)
        /\ UNCHANGED <<screenVars, bookFile, phase>>

InReader == Ready /\ reader \in Readers /\ ~screen

TurnPage ==
    /\ InReader
    /\ counted < MaxTurns
    /\ live.turns < MaxTurns
    /\ live' = [live EXCEPT !.turns = @ + 1]
    /\ counted' = counted + 1
    /\ UNCHANGED <<fileVars, reader, done, screenVars, bookFile, phase, chosen, lost,
                   misread>>

\* setBookCompleted()
SetBookCompleted ==
    /\ InReader
    /\ ~done => live.finished < MaxFinished
    /\ done' = ~done
    /\ live' = WithCompleted(live, ~done)
    /\ SaveBook(~done)
    /\ chosen' = ~done
    /\ SaveGlobal(WithCompleted(live, ~done))
    /\ UNCHANGED <<reader, screenVars, phase, counted, misread>>

\* onExit(): of the reader alone, or below the statistics screen.
LeaveReader ==
    /\ pc = "idle"
    /\ reader \in Readers
    /\ ~screen
    /\ phase \in {"run", "leaving"}
    /\ SaveBook(done)
    /\ SaveGlobal(live)
    /\ reader' = "none"
    /\ live' = Fresh
    /\ done' = FALSE
    /\ phase' = "run"
    /\ UNCHANGED <<screenVars, counted, chosen, misread>>

(***************************************************************************)
(* The statistics screen.                                                  *)
(***************************************************************************)
OpenStats ==
    /\ InReader
    /\ screen' = TRUE
    /\ copy' = live
    /\ copyDone' = done
    /\ changed' = FALSE
    /\ UNCHANGED <<fileVars, readerVars, bookFile, phase, counted, chosen, lost, misread>>

InStats == Ready /\ screen

\* A date is edited: of the finish, which completes the book, or cleared, which
\* makes it not completed; or of the start.
EditDates(completed) ==
    /\ InStats
    /\ changed' = TRUE
    /\ copyDone' = completed
    /\ completed => copy.finished < MaxFinished
    /\ copy' = IF completed = copyDone THEN copy
               ELSE WithCompleted(copy, completed)
    /\ chosen' = completed
    /\ UNCHANGED <<fileVars, readerVars, screen, bookFile, phase, counted, lost, misread>>

\* saveStats()
SaveStats ==
    IF changed
    THEN SaveBook(copyDone) /\ SaveGlobal(copy)
    ELSE UNCHANGED <<bookFile, lost, fileVars>>

LeaveEditPage ==
    /\ InStats
    /\ SaveStats
    /\ changed' = FALSE
    /\ UNCHANGED <<readerVars, screen, copy, copyDone, phase, counted, chosen, misread>>

CloseScreen ==
    /\ InStats
    /\ SaveStats
    /\ screen' = FALSE
    /\ copy' = Fresh
    /\ copyDone' = FALSE
    /\ changed' = FALSE
    /\ UNCHANGED <<readerVars, counted, chosen, misread>>

\* finish(): onExit(), then the result handler of the reader.
FinishStats == CloseScreen /\ phase' = "popping"

\* The device goes to sleep, or a quick action leaves: the activities are
\* replaced, the statistics screen first, then the reader below it.
ReplaceStats == CloseScreen /\ phase' = "leaving"

Popping(kind, v, completed) ==
    /\ pc = "idle"
    /\ phase = "popping"
    /\ reader = kind
    /\ LoadGlobal(v)
    /\ done' = completed
    /\ lost' = (lost \/ completed # bookFile)
    /\ phase' = "run"
    /\ UNCHANGED <<reader, screenVars, bookFile, counted, chosen>>

\* Fault: the EPUB reader, too, forgets what it has counted.
ReturnToEpubReloading ==
    \E v \in Loadable, completed \in BOOLEAN :
        /\ Popping("epub", v, completed)
        /\ live' = v
        /\ misread' = (v # F!Recovered)

\* Fault: the edits stay in the files.
ReturnToEpubIgnoring ==
    /\ pc = "idle"
    /\ phase = "popping"
    /\ reader = "epub"
    /\ phase' = "run"
    /\ UNCHANGED <<fileVars, readerVars, screenVars, bookFile, counted, chosen, lost, misread>>

\* applyBookStatsEditsFromDisk()
ReturnToEpub ==
    \E v \in Loadable, completed \in BOOLEAN :
        /\ Popping("epub", v, completed)
        /\ live' = [live EXCEPT !.finished = v.finished]
        /\ UNCHANGED misread

\* XtcReaderActivity::openReadingStats(): all of it is loaded again.
ReturnToXtc ==
    \E v \in Loadable, completed \in BOOLEAN :
        /\ Popping("xtc", v, completed)
        /\ live' = v
        /\ misread' = (v # F!Recovered)

(***************************************************************************)
(* Screens that load the statistics, may change them and save them.        *)
(***************************************************************************)

\* toggleBookCompleted() of the home screen.
MarkBook(v, completed) ==
    /\ completed => v.finished < MaxFinished
    /\ copy' = WithCompleted(v, completed)
    /\ SaveBook(completed)
    /\ chosen' = completed

\* That (mark), or the nearby sync.
LoadForAction(mark) ==
    \E v \in Loadable :
        /\ Ready
        /\ reader = "none"
        /\ LoadGlobal(v)
        /\ IF mark THEN \E completed \in BOOLEAN : MarkBook(v, completed)
           ELSE copy' = v /\ UNCHANGED <<bookFile, lost, chosen>>
        /\ misread' = (v # F!Recovered)
        /\ phase' = "action"
        /\ UNCHANGED <<readerVars, screen, copyDone, changed, counted>>

SaveForAction ==
    /\ pc = "idle"
    /\ phase = "action"
    /\ SaveGlobal(copy)
    /\ copy' = Fresh
    /\ phase' = "run"
    /\ UNCHANGED <<readerVars, screen, copyDone, changed, bookFile, counted,
                   chosen, lost, misread>>

ResetAllTime ==
    /\ Ready
    /\ reader = "none"
    /\ F!ResetLocal
    /\ UNCHANGED sessionVars

SaveToFile == F!SaveToFile /\ UNCHANGED sessionVars

PowerLoss ==
    /\ F!PowerLoss
    /\ reader' = "none"
    /\ live' = Fresh
    /\ done' = FALSE
    /\ screen' = FALSE
    /\ copy' = Fresh
    /\ copyDone' = FALSE
    /\ changed' = FALSE
    /\ phase' = "run"
    /\ counted' = 0
    /\ chosen' = bookFile
    /\ lost' = FALSE
    /\ misread' = FALSE
    /\ UNCHANGED bookFile

Next ==
    \/ \E kind \in Readers : OpenBook(kind)
    \/ TurnPage
    \/ SetBookCompleted
    \/ LeaveReader
    \/ OpenStats
    \/ \E completed \in BOOLEAN : EditDates(completed)
    \/ LeaveEditPage
    \/ FinishStats
    \/ ReplaceStats
    \/ ReturnToEpub
    \/ ReturnToXtc
    \/ \E mark \in BOOLEAN : LoadForAction(mark)
    \/ SaveForAction
    \/ ResetAllTime
    \/ SaveToFile
    \/ PowerLoss

Spec == Init /\ [][Next]_vars

-----------------------------------------------------------------------------
(***************************************************************************)
(* Properties.                                                             *)
(***************************************************************************)

\* Every variable has its type.
TypeOK ==
    /\ F!TypeOK
    /\ reader \in Readers \union {"none"}
    /\ live \in AllStats
    /\ done \in BOOLEAN
    /\ screen \in BOOLEAN
    /\ copy \in AllStats
    /\ copyDone \in BOOLEAN
    /\ changed \in BOOLEAN
    /\ bookFile \in BOOLEAN
    /\ phase \in Phases
    /\ counted \in Turns
    /\ chosen \in BOOLEAN
    /\ lost \in BOOLEAN
    /\ misread \in BOOLEAN

\* The EPUB reader's statistics hold every page turn it counted, each once, on top
\* of what it was given when the book was opened, when the statistics screen has
\* saved its own copy in between, when that save was cut short or refused, and
\* whatever the files were read as.
EpubKeepsTurns == reader = "epub" => live.turns = counted

\* Back from the statistics screen a reader knows what the user made of the
\* book there, or in the reader before, whichever saves of the all-time file
\* failed or were refused, as long as the book's own file could be written and
\* read.
EditsAreImported == InReader /\ ~lost => done = chosen

\* Whoever is about to save has called load() since the device started, so that a
\* file of a newer format has been looked for.
SavesFollowLoad == reader \in Readers \/ phase = "action" => loaded

\* Why: a reader is there for as long as the screens on top of it, and the last
\* of them to save has put into the file of the book what the user has chosen.
PhaseInv ==
    /\ screen => reader \in Readers /\ phase = "run"
    /\ phase \in {"popping", "leaving"} => reader \in Readers /\ ~screen
    /\ phase = "action" => reader = "none"

EditInv ==
    /\ screen /\ changed => copyDone = chosen
    /\ ~lost =>
         /\ reader \in Readers /\ ~screen /\ phase = "run" =>
                done = chosen /\ bookFile = chosen
         /\ screen => copyDone = chosen /\ (~changed => bookFile = chosen)
         /\ phase = "popping" => bookFile = chosen

SessionInv ==
    /\ TypeOK
    /\ F!IInv
    /\ PhaseInv
    /\ EditInv
    /\ EpubKeepsTurns
    /\ SavesFollowLoad

\* While no save has been cut short, nobody whom load() gave what the files hold
\* has fewer page turns than they do: neither a reader, nor the screen on top of
\* it, nor a book action, nor the save under way, which holds no more than the
\* reader that is still there once it has completed.
TurnsInv ==
    /\ pc # "idle" /\ rotating /\ strikes = 0 /\ ~misread =>
           F!Recovered.turns <= saving.turns
    /\ reader \in Readers =>
         /\ strikes = 0 /\ ~misread => F!Recovered.turns <= live.turns
         /\ pc # "idle" => rotating /\ saving.turns <= live.turns
    /\ screen => copy.turns = live.turns
    /\ phase = "action" =>
         pc = "idle" /\ (strikes = 0 /\ ~misread => F!Recovered.turns <= copy.turns)

\* The inductive invariant.
IInv == SessionInv /\ TurnsInv

\* No save() takes page turns away that load() would have given: every copy of
\* the statistics that is saved was loaded after the last save, or holds more.
\* That is so if load() could read the files when it gave that copy; what it gives
\* otherwise, the backup or nothing, is saved over them.
NoSaveLosesTurns ==
    [][rotating /\ strikes = 0 /\ strikes' = 0 /\ ~misread
         => F!Recovered.turns <= (F!Recovered)'.turns]_vars

-----------------------------------------------------------------------------
(***************************************************************************)
(* What comments in the code say and the code does not do.                 *)
(***************************************************************************)

\* GlobalReadingStats.h on totalPagesTurned: "Total forward page turns after the
\* dwell threshold", in whichever reader they were made.
EveryTurnIsCounted == reader \in Readers => live.turns = counted
=============================================================================
