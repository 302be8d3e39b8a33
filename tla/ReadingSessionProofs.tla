------------------------- MODULE ReadingSessionProofs -------------------------
(***************************************************************************)
(* For any bounds: what the readers and the screens do to the statistics    *)
(* file is what StatsFile allows, so that its theorems hold of the session; *)
(* and what a reader knows is what its user has read and chosen.            *)
(***************************************************************************)
EXTENDS ReadingSession, TLAPS

FP == INSTANCE StatsFileProofs WITH Stats <- AllStats

(***************************************************************************)
(* The file.                                                               *)
(***************************************************************************)
LEMMA FreshIsStats == Fresh \in AllStats /\ Fresh.turns = 0 /\ Fresh.finished = 0
BY BoundsAssumption DEF AllStats, Fresh, Turns, Finished

LEMMA StatsAreStats == FP!StatsAssumption
BY FreshIsStats, FilesAssumption DEF FP!StatsAssumption

\* The two instances of StatsFile are one.
LEMMA OneFile ==
    /\ F!IInv = FP!IInv /\ F!LoadSome = FP!LoadSome /\ F!ResetLocal = FP!ResetLocal
    /\ F!PowerLoss = FP!PowerLoss /\ F!SaveToFile = FP!SaveToFile
    /\ \A v : F!Save(v) = FP!Save(v)
<1>1. F!IInv = FP!IInv
  BY DEF F!IInv, FP!IInv, F!TypeOK, FP!TypeOK, F!CallInv, FP!CallInv, F!NewerInv, FP!NewerInv,
         F!StrikeInv, FP!StrikeInv, F!OneStrikeLosesNothing, FP!OneStrikeLosesNothing,
         F!Recovered, FP!Recovered, F!Gives, FP!Gives, F!NewerBehind, FP!NewerBehind,
         F!Contents, FP!Contents, F!Pcs, FP!Pcs, F!FlagsOK, FP!FlagsOK
<1>2. F!LoadSome = FP!LoadSome
  <2>1. \A p, b : F!FindsNewer(p, b) = FP!FindsNewer(p, b)
    BY DEF F!FindsNewer, FP!FindsNewer
  <2>2. \A p, b : F!Load(p, b) = FP!Load(p, b)
    BY <2>1 DEF F!Load, FP!Load, F!Misses, FP!Misses, F!files, FP!files, F!call, FP!call
  <2> QED BY <2>2 DEF F!LoadSome, FP!LoadSome, F!Reads, FP!Reads
<1>3. F!ResetLocal = FP!ResetLocal
  BY DEF F!ResetLocal, FP!ResetLocal, F!files, FP!files
<1>4. F!PowerLoss = FP!PowerLoss
  BY DEF F!PowerLoss, FP!PowerLoss, F!Strike, FP!Strike, F!NewerBehind, FP!NewerBehind
<1>5. F!SaveToFile = FP!SaveToFile
  BY DEF F!SaveToFile, FP!SaveToFile, F!RemoveStale, FP!RemoveStale, F!WriteTemp, FP!WriteTemp,
         F!DropBackup, FP!DropBackup, F!DropPrimary, FP!DropPrimary, F!Rotate, FP!Rotate,
         F!Publish, FP!Publish, F!PublishFails, FP!PublishFails, F!Restore, FP!Restore,
         F!Cleanup, FP!Cleanup, F!GiveUp, FP!GiveUp, F!Strike, FP!Strike, F!Proceed, FP!Proceed,
         F!files, FP!files, F!call, FP!call, F!fileHistory, FP!fileHistory
<1>6. \A v : F!Save(v) = FP!Save(v)
  BY DEF F!Save, FP!Save, F!files, FP!files
<1> QED BY <1>1, <1>2, <1>3, <1>4, <1>5, <1>6

FileStep ==
    \/ F!LoadSome \/ F!ResetLocal \/ F!SaveToFile \/ F!PowerLoss
    \/ \E v \in AllStats : F!Save(v)
    \/ UNCHANGED fileVars

LEMMA FileStepKeepsFile == F!IInv /\ FileStep => F!IInv'
<1>1. FP!IInv /\ [FP!Next]_(FP!fileVars) => FP!IInv'
  BY StatsAreStats, FP!NextInv
<1>2. FileStep => [FP!Next]_(FP!fileVars)
  BY OneFile DEF FileStep, FP!Next, FP!fileVars, FP!files, FP!call, FP!fileHistory, fileVars
<1>3. F!IInv = FP!IInv /\ F!IInv' = FP!IInv'
  BY DEF F!IInv, FP!IInv, F!TypeOK, FP!TypeOK, F!CallInv, FP!CallInv, F!NewerInv, FP!NewerInv,
         F!StrikeInv, FP!StrikeInv, F!OneStrikeLosesNothing, FP!OneStrikeLosesNothing,
         F!Recovered, FP!Recovered, F!Gives, FP!Gives, F!NewerBehind, FP!NewerBehind,
         F!Contents, FP!Contents, F!Pcs, FP!Pcs, F!FlagsOK, FP!FlagsOK
<1> QED BY <1>1, <1>2, <1>3

LEMMA LoadedStays ==
    /\ F!LoadSome => loaded'
    /\ F!SaveToFile \/ F!ResetLocal \/ (\E v \in AllStats : F!Save(v)) => loaded' = loaded
<1>1. F!SaveToFile => loaded' = loaded
  BY DEF F!SaveToFile, F!RemoveStale, F!WriteTemp, F!DropBackup, F!DropPrimary, F!Rotate, F!Publish,
         F!PublishFails, F!Restore, F!Cleanup, F!GiveUp, F!Proceed, F!fileHistory
<1> QED BY <1>1 DEF F!LoadSome, F!Load, F!ResetLocal, F!Save

\* What load() gives is one of the statistics, whatever it reads.
LEMMA RecoveredIsStats == F!Recovered \in AllStats
BY FreshIsStats DEF F!Recovered, F!Gives

LEMMA LoadableIsStats ==
    ASSUME NEW v \in Loadable
    PROVE  v \in AllStats /\ v.turns \in Turns /\ v.finished \in Finished
<1>1. v \in AllStats
  BY FreshIsStats DEF Loadable, F!Gives
<1> QED BY <1>1 DEF AllStats

LEMMA LoadedIsFileStep ==
    ASSUME NEW v, LoadGlobal(v)
    PROVE  F!LoadSome /\ FileStep /\ loaded'
<1>1. F!LoadSome
  BY DEF LoadGlobal, F!LoadSome
<1> QED BY <1>1, LoadedStays DEF FileStep

LEMMA SavedIsFileStep ==
    ASSUME NEW v \in AllStats, SaveGlobal(v)
    PROVE  FileStep /\ loaded' = loaded
BY LoadedStays DEF SaveGlobal, FileStep, fileVars

(***************************************************************************)
(* The session.                                                            *)
(***************************************************************************)
\* The types of what StatsFile does not have.
SessionTypes ==
    /\ reader \in Readers \union {"none"} /\ live \in AllStats /\ done \in BOOLEAN
    /\ screen \in BOOLEAN /\ copy \in AllStats /\ copyDone \in BOOLEAN /\ changed \in BOOLEAN
    /\ bookFile \in BOOLEAN /\ phase \in Phases /\ counted \in Turns /\ chosen \in BOOLEAN
    /\ lost \in BOOLEAN /\ misread \in BOOLEAN

\* The file of the book, when it was written, has what was to be saved.
LEMMA SavedBookFacts ==
    ASSUME SessionTypes, NEW completed \in BOOLEAN, SaveBook(completed)
    PROVE  /\ bookFile' \in BOOLEAN /\ lost' \in BOOLEAN
           /\ ~lost' => bookFile' = completed
<1>1. bookFile' \in {completed, bookFile, FALSE} /\ lost' = (bookFile' # completed)
  BY DEF SaveBook
<1> QED BY <1>1 DEF SessionTypes

\* Completing a book, or the contrary, within the bound.
LEMMA CompletedFacts ==
    ASSUME NEW s \in AllStats, NEW completed \in BOOLEAN, completed => s.finished < MaxFinished
    PROVE  WithCompleted(s, completed) \in AllStats /\ WithCompleted(s, completed).turns = s.turns
<1>1. s.finished \in 0..MaxFinished /\ s.finished \in Nat /\ MaxFinished \in Nat
  BY BoundsAssumption DEF AllStats, Finished
<1>2. /\ completed => s.finished + 1 \in Finished
      /\ s.finished > 0 => s.finished - 1 \in Finished
  BY <1>1 DEF Finished
<1>3. WithCompleted(s, completed) \in {s, [s EXCEPT !.finished = s.finished + 1],
                                          [s EXCEPT !.finished = s.finished - 1]}
  BY DEF WithCompleted
<1>4. \/ WithCompleted(s, completed) = s
      \/ \E n \in Finished : WithCompleted(s, completed) = [s EXCEPT !.finished = n]
  BY <1>2 DEF WithCompleted
<1> QED BY <1>4 DEF AllStats

\* A step of the session keeps the invariant, once it keeps that of the session.
LEMMA Assemble ==
    ASSUME SessionInv, FileStep, SessionTypes', (PhaseInv /\ EditInv)', EpubKeepsTurns', SavesFollowLoad'
    PROVE  SessionInv'
<1>1. F!IInv'
  BY FileStepKeepsFile DEF SessionInv
<1>2. F!TypeOK'
  BY <1>1 DEF F!IInv
<1> QED BY <1>1, <1>2 DEF SessionInv, TypeOK, SessionTypes

\* What OpenBook does with what it reads.
Opens(kind, v, completed) ==
    /\ Ready
    /\ reader = "none"
    /\ LoadGlobal(v)
    /\ reader' = kind
    /\ live' = v
    /\ done' = completed
    /\ counted' = v.turns
    /\ chosen' = completed
    /\ lost' = (completed # bookFile)
    /\ misread' = (v # F!Recovered)
    /\ UNCHANGED <<screenVars, bookFile, phase>>

LEMMA ReaderSteps ==
    ASSUME SessionInv, \/ \E kind \in Readers : OpenBook(kind)
                 \/ TurnPage \/ SetBookCompleted \/ LeaveReader
    PROVE  SessionInv'
<1>1. /\ SessionTypes /\ PhaseInv /\ EditInv /\ EpubKeepsTurns /\ SavesFollowLoad
  BY DEF SessionInv, TypeOK, SessionTypes
<1> USE DEF Readers, Phases
<1>2. CASE \E kind \in Readers : OpenBook(kind)
  <2>1. PICK kind \in Readers, v \in Loadable, completed \in BOOLEAN : Opens(kind, v, completed)
    BY <1>2 DEF OpenBook, Opens
  <2>2. FileStep /\ loaded'
    BY <2>1, LoadedIsFileStep DEF Opens
  <2>3. v \in AllStats /\ v.turns \in Turns
    BY LoadableIsStats
  <2>4. SessionTypes'
    BY <1>1, <2>1, <2>3 DEF Opens, Ready, screenVars, SessionTypes
  <2>5. (PhaseInv /\ EditInv)'
    BY <1>1, <2>1 DEF Opens, Ready, screenVars, PhaseInv, EditInv, SessionTypes
  <2>6. EpubKeepsTurns' /\ SavesFollowLoad'
    BY <2>1, <2>2 DEF Opens, EpubKeepsTurns, SavesFollowLoad
  <2> QED BY <2>2, <2>4, <2>5, <2>6, Assemble
<1>3. CASE TurnPage
  <2>1. FileStep /\ loaded' = loaded
    BY <1>3 DEF TurnPage, FileStep, fileVars
  <2>2. live' \in AllStats /\ live'.turns = live.turns + 1 /\ counted' \in Turns
    <3>1. live.turns + 1 \in Turns /\ counted + 1 \in Turns
      BY <1>1, <1>3, BoundsAssumption DEF TurnPage, SessionTypes, AllStats, Turns
    <3> QED BY <1>1, <1>3, <3>1 DEF TurnPage, SessionTypes, AllStats
  <2>3. SessionTypes'
    BY <1>1, <1>3, <2>2 DEF TurnPage, screenVars, SessionTypes
  <2>4. (PhaseInv /\ EditInv)'
    BY <1>1, <1>3 DEF TurnPage, InReader, screenVars, PhaseInv, EditInv
  <2>5. EpubKeepsTurns' /\ SavesFollowLoad'
    BY <1>1, <1>3, <2>1, <2>2 DEF TurnPage, EpubKeepsTurns, SavesFollowLoad
  <2> QED BY <2>1, <2>3, <2>4, <2>5, Assemble
<1>4. CASE SetBookCompleted
  <2> DEFINE s == WithCompleted(live, ~done)
  <2>1. s \in AllStats /\ s.turns = live.turns
    BY <1>1, <1>4, CompletedFacts DEF SetBookCompleted, SessionTypes
  <2>2. FileStep /\ loaded' = loaded /\ live' = s
    BY <1>4, <2>1, SavedIsFileStep DEF SetBookCompleted
  <2> HIDE DEF s
  <2>0. bookFile' \in BOOLEAN /\ lost' \in BOOLEAN /\ (~lost' => bookFile' = ~done)
    BY <1>1, <1>4, SavedBookFacts DEF SetBookCompleted, SessionTypes
  <2>3. SessionTypes'
    BY <1>1, <1>4, <2>0, <2>1, <2>2 DEF SetBookCompleted, screenVars, SessionTypes
  <2>4. (PhaseInv /\ EditInv)'
    BY <1>1, <1>4, <2>0 DEF SetBookCompleted, InReader, screenVars, PhaseInv, EditInv
  <2>5. EpubKeepsTurns' /\ SavesFollowLoad'
    BY <1>1, <1>4, <2>1, <2>2 DEF SetBookCompleted, EpubKeepsTurns, SavesFollowLoad
  <2> QED BY <2>2, <2>3, <2>4, <2>5, Assemble
<1>5. CASE LeaveReader
  <2>1. FileStep /\ loaded' = loaded
    BY <1>1, <1>5, SavedIsFileStep DEF LeaveReader, SessionTypes
  <2>0. bookFile' \in BOOLEAN /\ lost' \in BOOLEAN
    BY <1>1, <1>5, SavedBookFacts DEF LeaveReader, SessionTypes
  <2>2. SessionTypes'
    BY <1>1, <1>5, <2>0, FreshIsStats DEF LeaveReader, screenVars, SessionTypes
  <2>3. (PhaseInv /\ EditInv)'
    BY <1>1, <1>5 DEF LeaveReader, screenVars, PhaseInv, EditInv
  <2>4. EpubKeepsTurns' /\ SavesFollowLoad'
    BY <1>5 DEF LeaveReader, EpubKeepsTurns, SavesFollowLoad
  <2> QED BY <2>1, <2>2, <2>3, <2>4, Assemble
<1> QED BY <1>2, <1>3, <1>4, <1>5

\* What either reader does with what it reads when the statistics screen is gone.
Returns(v, completed) ==
    \/ /\ Popping("epub", v, completed)
       /\ live' = [live EXCEPT !.finished = v.finished]
       /\ UNCHANGED misread
    \/ /\ Popping("xtc", v, completed)
       /\ live' = v
       /\ misread' = (v # F!Recovered)

LEMMA ScreenSteps ==
    ASSUME SessionInv, \/ OpenStats \/ (\E completed \in BOOLEAN : EditDates(completed))
                 \/ LeaveEditPage \/ FinishStats \/ ReplaceStats \/ ReturnToEpub \/ ReturnToXtc
    PROVE  SessionInv'
<1>1. /\ SessionTypes /\ PhaseInv /\ EditInv /\ EpubKeepsTurns /\ SavesFollowLoad
  BY DEF SessionInv, TypeOK, SessionTypes
<1> USE DEF Readers, Phases
<1>2. CASE OpenStats
  <2>1. FileStep /\ loaded' = loaded
    BY <1>2 DEF OpenStats, FileStep, fileVars
  <2>2. SessionTypes'
    BY <1>1, <1>2 DEF OpenStats, readerVars, SessionTypes
  <2>3. (PhaseInv /\ EditInv)'
    BY <1>1, <1>2 DEF OpenStats, InReader, Ready, readerVars, PhaseInv, EditInv
  <2>4. EpubKeepsTurns' /\ SavesFollowLoad'
    BY <1>1, <1>2, <2>1 DEF OpenStats, readerVars, EpubKeepsTurns, SavesFollowLoad
  <2> QED BY <2>1, <2>2, <2>3, <2>4, Assemble
<1>3. CASE \E completed \in BOOLEAN : EditDates(completed)
  <2>1. PICK completed \in BOOLEAN : EditDates(completed)
    BY <1>3
  <2>2. FileStep /\ loaded' = loaded
    BY <2>1 DEF EditDates, FileStep, fileVars
  <2>3. copy' \in AllStats
    BY <1>1, <2>1, CompletedFacts DEF EditDates, SessionTypes
  <2>4. SessionTypes'
    BY <1>1, <2>1, <2>3 DEF EditDates, readerVars, SessionTypes
  <2>5. (PhaseInv /\ EditInv)'
    BY <1>1, <2>1 DEF EditDates, InStats, Ready, readerVars, PhaseInv, EditInv
  <2>6. EpubKeepsTurns' /\ SavesFollowLoad'
    BY <1>1, <2>1, <2>2 DEF EditDates, readerVars, EpubKeepsTurns, SavesFollowLoad
  <2> QED BY <2>2, <2>4, <2>5, <2>6, Assemble
<1>4. ASSUME SaveStats, screen
      PROVE  /\ FileStep /\ loaded' = loaded /\ bookFile' \in BOOLEAN /\ lost' \in BOOLEAN
             /\ ~lost' => bookFile' = chosen
  <2>1. CASE changed
    <3>1. FileStep /\ loaded' = loaded
      BY <1>1, <1>4, <2>1, SavedIsFileStep DEF SaveStats, SessionTypes
    <3>2. bookFile' \in BOOLEAN /\ lost' \in BOOLEAN /\ (~lost' => bookFile' = copyDone)
      BY <1>1, <1>4, <2>1, SavedBookFacts DEF SaveStats, SessionTypes
    <3> QED BY <1>1, <1>4, <2>1, <3>1, <3>2 DEF EditInv
  <2>2. CASE ~changed
    BY <1>1, <1>4, <2>2 DEF SaveStats, SessionTypes, EditInv, FileStep, fileVars
  <2> QED BY <2>1, <2>2
<1>5. CASE LeaveEditPage
  <2>1. /\ FileStep /\ loaded' = loaded /\ bookFile' \in BOOLEAN /\ lost' \in BOOLEAN
        /\ ~lost' => bookFile' = chosen
    BY <1>4, <1>5 DEF LeaveEditPage, InStats
  <2>2. SessionTypes'
    BY <1>1, <1>5, <2>1 DEF LeaveEditPage, readerVars, SessionTypes
  <2>3. (PhaseInv /\ EditInv)'
    <3>1. PhaseInv'
      BY <1>1, <1>5 DEF LeaveEditPage, InStats, Ready, readerVars, PhaseInv
    <3>2. lost' \/ copyDone = chosen
      BY <1>1, <1>5 DEF LeaveEditPage, InStats, SaveStats, EditInv
    <3> QED BY <1>1, <1>5, <2>1, <3>1, <3>2 DEF LeaveEditPage, InStats, Ready, readerVars, EditInv
  <2>4. EpubKeepsTurns' /\ SavesFollowLoad'
    BY <1>1, <1>5, <2>1 DEF LeaveEditPage, readerVars, EpubKeepsTurns, SavesFollowLoad
  <2> QED BY <2>1, <2>2, <2>3, <2>4, Assemble
<1>6. CASE FinishStats \/ ReplaceStats
  <2>1. /\ FileStep /\ loaded' = loaded /\ bookFile' \in BOOLEAN /\ lost' \in BOOLEAN
        /\ ~lost' => bookFile' = chosen
    BY <1>4, <1>6 DEF FinishStats, ReplaceStats, CloseScreen, InStats
  <2>2. SessionTypes'
    BY <1>1, <1>6, <2>1, FreshIsStats DEF FinishStats, ReplaceStats, CloseScreen, readerVars, SessionTypes
  <2>3. (PhaseInv /\ EditInv)'
    BY <1>1, <1>6, <2>1 DEF FinishStats, ReplaceStats, CloseScreen, InStats, Ready, readerVars,
                            PhaseInv, EditInv
  <2>4. EpubKeepsTurns' /\ SavesFollowLoad'
    BY <1>1, <1>6, <2>1 DEF FinishStats, ReplaceStats, CloseScreen, InStats, readerVars, PhaseInv,
                            EpubKeepsTurns, SavesFollowLoad
  <2> QED BY <2>1, <2>2, <2>3, <2>4, Assemble
<1>7. CASE ReturnToEpub \/ ReturnToXtc
  <2>1. PICK v \in Loadable, completed \in BOOLEAN : Returns(v, completed)
    BY <1>7 DEF ReturnToEpub, ReturnToXtc, Returns
  <2>2. FileStep /\ loaded'
    BY <2>1, LoadedIsFileStep DEF Returns, Popping
  <2>3. live' \in AllStats /\ (reader = "epub" => live'.turns = live.turns)
    BY <1>1, <2>1, LoadableIsStats DEF Returns, Popping, SessionTypes, AllStats
  <2>4. misread' \in BOOLEAN
    BY <1>1, <2>1 DEF Returns, SessionTypes
  <2>5. SessionTypes'
    BY <1>1, <2>1, <2>3, <2>4 DEF Returns, Popping, screenVars, SessionTypes
  <2>6. (PhaseInv /\ EditInv)'
    BY <1>1, <2>1 DEF Returns, Popping, screenVars, PhaseInv, EditInv, SessionTypes
  <2>7. EpubKeepsTurns' /\ SavesFollowLoad'
    BY <1>1, <2>1, <2>2, <2>3 DEF Returns, Popping, EpubKeepsTurns, SavesFollowLoad
  <2> QED BY <2>2, <2>5, <2>6, <2>7, Assemble
<1> QED BY <1>2, <1>3, <1>5, <1>6, <1>7

\* What LoadForAction does with what it reads.
LoadsForAction(mark, v) ==
    /\ Ready
    /\ reader = "none"
    /\ LoadGlobal(v)
    /\ IF mark THEN \E completed \in BOOLEAN : MarkBook(v, completed)
       ELSE copy' = v /\ UNCHANGED <<bookFile, lost, chosen>>
    /\ misread' = (v # F!Recovered)
    /\ phase' = "action"
    /\ UNCHANGED <<readerVars, screen, copyDone, changed, counted>>

LEMMA ActionFacts ==
    ASSUME NEW mark, NEW v \in Loadable, LoadsForAction(mark, v)
    PROVE  copy' \in AllStats /\ copy'.turns = v.turns
BY LoadableIsStats, CompletedFacts DEF LoadsForAction, MarkBook

LEMMA OtherSteps ==
    ASSUME SessionInv, \/ \E mark \in BOOLEAN : LoadForAction(mark)
                 \/ SaveForAction \/ ResetAllTime \/ SaveToFile \/ PowerLoss
    PROVE  SessionInv'
<1>1. /\ SessionTypes /\ PhaseInv /\ EditInv /\ EpubKeepsTurns /\ SavesFollowLoad
  BY DEF SessionInv, TypeOK, SessionTypes
<1> USE DEF Readers, Phases
<1>2. CASE \E mark \in BOOLEAN : LoadForAction(mark)
  <2>1. PICK mark \in BOOLEAN, v \in Loadable : LoadsForAction(mark, v)
    BY <1>2 DEF LoadForAction, LoadsForAction
  <2>2. FileStep /\ loaded'
    BY <2>1, LoadedIsFileStep DEF LoadsForAction
  <2>3. copy' \in AllStats
    BY <2>1, ActionFacts
  <2>4. bookFile' \in BOOLEAN /\ lost' \in BOOLEAN /\ chosen' \in BOOLEAN
    BY <1>1, <2>1, SavedBookFacts DEF LoadsForAction, MarkBook, SessionTypes
  <2>5. SessionTypes'
    BY <1>1, <2>1, <2>3, <2>4 DEF LoadsForAction, readerVars, SessionTypes
  <2>6. (PhaseInv /\ EditInv)'
    BY <1>1, <2>1 DEF LoadsForAction, Ready, readerVars, PhaseInv, EditInv
  <2>7. EpubKeepsTurns' /\ SavesFollowLoad'
    BY <2>1, <2>2 DEF LoadsForAction, readerVars, EpubKeepsTurns, SavesFollowLoad
  <2> QED BY <2>2, <2>5, <2>6, <2>7, Assemble
<1>3. CASE SaveForAction
  <2>1. FileStep /\ loaded' = loaded
    BY <1>1, <1>3, SavedIsFileStep DEF SaveForAction, SessionTypes
  <2>2. SessionTypes'
    BY <1>1, <1>3, FreshIsStats DEF SaveForAction, readerVars, SessionTypes
  <2>3. (PhaseInv /\ EditInv)'
    BY <1>1, <1>3 DEF SaveForAction, readerVars, PhaseInv, EditInv
  <2>4. EpubKeepsTurns' /\ SavesFollowLoad'
    BY <1>1, <1>3 DEF SaveForAction, readerVars, PhaseInv, EpubKeepsTurns, SavesFollowLoad
  <2> QED BY <2>1, <2>2, <2>3, <2>4, Assemble
<1>4. CASE ResetAllTime \/ SaveToFile
  <2>1. FileStep /\ loaded' = loaded /\ UNCHANGED sessionVars
    BY <1>4, LoadedStays DEF ResetAllTime, SaveToFile, FileStep
  <2>2. SessionTypes' /\ (PhaseInv /\ EditInv)' /\ EpubKeepsTurns' /\ SavesFollowLoad'
    BY <1>1, <2>1 DEF sessionVars, readerVars, screenVars, SessionTypes, PhaseInv, EditInv,
                      EpubKeepsTurns, SavesFollowLoad
  <2> QED BY <2>1, <2>2, Assemble
<1>5. CASE PowerLoss
  <2>1. FileStep
    BY <1>5 DEF PowerLoss, FileStep
  <2>2. SessionTypes'
    <3>1. 0 \in Turns
      BY BoundsAssumption DEF Turns
    <3>2. bookFile' \in BOOLEAN /\ chosen' \in BOOLEAN
      BY <1>1, <1>5 DEF PowerLoss, SessionTypes
    <3> QED BY <1>5, <3>1, <3>2, FreshIsStats DEF PowerLoss, SessionTypes, Phases
  <2>3. (PhaseInv /\ EditInv)'
    BY <1>5 DEF PowerLoss, PhaseInv, EditInv
  <2>4. EpubKeepsTurns' /\ SavesFollowLoad'
    BY <1>5 DEF PowerLoss, EpubKeepsTurns, SavesFollowLoad
  <2> QED BY <2>1, <2>2, <2>3, <2>4, Assemble
<1> QED BY <1>2, <1>3, <1>4, <1>5

(***************************************************************************)
(* The theorems.                                                           *)
(***************************************************************************)
LEMMA InitIsSound == Init => SessionInv
<1> SUFFICES ASSUME Init PROVE SessionInv
  OBVIOUS
<1>1. F!IInv
  <2>1. FP!Init => FP!IInv
    BY StatsAreStats, FP!InitInv
  <2>2. F!Init = FP!Init
    BY DEF F!Init, FP!Init, F!Contents, FP!Contents, F!Recovered, FP!Recovered,
           F!Gives, FP!Gives, F!NewerBehind, FP!NewerBehind
  <2> QED BY <2>1, <2>2, OneFile DEF Init
<1>2. F!TypeOK
  BY <1>1 DEF F!IInv
<1>3. 0 \in Turns
  BY BoundsAssumption DEF Turns
<1>4. SessionTypes
  BY <1>3, FreshIsStats DEF Init, SessionTypes, Phases
<1>5. PhaseInv /\ EditInv /\ EpubKeepsTurns /\ SavesFollowLoad
  BY DEF Init, Readers, PhaseInv, EditInv, EpubKeepsTurns, SavesFollowLoad
<1> QED BY <1>1, <1>2, <1>4, <1>5 DEF SessionInv, TypeOK, SessionTypes

LEMMA NextKeepsSessionInv == SessionInv /\ [Next]_vars => SessionInv'
<1> SUFFICES ASSUME SessionInv, [Next]_vars PROVE SessionInv'
  OBVIOUS
<1>1. CASE UNCHANGED vars
  <2>1. FileStep
    BY <1>1 DEF vars, FileStep
  <2>2. SessionTypes' /\ (PhaseInv /\ EditInv)' /\ EpubKeepsTurns' /\ SavesFollowLoad'
    BY <1>1 DEF SessionInv, TypeOK, vars, fileVars, sessionVars, readerVars, screenVars, SessionTypes,
                PhaseInv, EditInv, EpubKeepsTurns, SavesFollowLoad
  <2> QED BY <2>1, <2>2, Assemble
<1>2. CASE Next
  BY <1>2, ReaderSteps, ScreenSteps, OtherSteps DEF Next
<1> QED BY <1>1, <1>2

\* What a step of the session does to the file other than in saveToFile().
FileCall ==
    \/ F!LoadSome \/ F!ResetLocal \/ F!PowerLoss
    \/ \E v \in AllStats : F!Save(v)
    \/ UNCHANGED fileVars

LEMMA NextIsFileStep ==
    ASSUME SessionInv, Next, ~SaveToFile
    PROVE  FileCall
<1>1. SessionTypes
  BY DEF SessionInv, TypeOK, SessionTypes
<1>2. ASSUME NEW v \in AllStats, SaveGlobal(v) PROVE FileCall
  BY <1>2 DEF SaveGlobal, FileCall
<1>3. CASE SetBookCompleted
  BY <1>1, <1>2, <1>3, CompletedFacts DEF SetBookCompleted, SessionTypes
<1>4. CASE LeaveReader \/ SaveForAction
  BY <1>1, <1>2, <1>4 DEF LeaveReader, SaveForAction, SessionTypes
<1>5. CASE LeaveEditPage \/ FinishStats \/ ReplaceStats
  BY <1>1, <1>2, <1>5 DEF LeaveEditPage, FinishStats, ReplaceStats, CloseScreen, SaveStats,
                          SessionTypes, FileCall, fileVars
<1>6. CASE ~SetBookCompleted /\ ~LeaveReader /\ ~SaveForAction
           /\ ~LeaveEditPage /\ ~FinishStats /\ ~ReplaceStats
  BY <1>6, LoadedIsFileStep
     DEF Next, OpenBook, TurnPage, OpenStats, EditDates, ReturnToEpub, ReturnToXtc, Popping,
         LoadForAction, ResetAllTime, PowerLoss, FileCall
<1> QED BY <1>3, <1>4, <1>5, <1>6

(***************************************************************************)
(* Page turns that load() would give.                                      *)
(***************************************************************************)

\* The calls of StatsFile leave what load() gives to the steps of saveToFile().
LEMMA CallsKeepRecovered ==
    F!LoadSome \/ F!ResetLocal \/ F!PowerLoss \/ (\E v \in AllStats : F!Save(v)) \/ UNCHANGED fileVars
      => F!Recovered' = F!Recovered
BY DEF F!LoadSome, F!Load, F!ResetLocal, F!PowerLoss, F!Save, F!files, fileVars, F!Recovered,
       F!Gives

LEMMA LoadKeepsRecovered ==
    ASSUME NEW v, LoadGlobal(v)
    PROVE  F!Recovered' = F!Recovered /\ pc' = "idle" /\ strikes' = strikes
<1>1. F!LoadSome
  BY LoadedIsFileStep
<1> QED BY <1>1, CallsKeepRecovered DEF F!LoadSome, F!Load

LEMMA SaveToFileFacts ==
    ASSUME F!SaveToFile
    PROVE  pc # "idle" /\ UNCHANGED <<rotating, saving>>
BY DEF F!SaveToFile, F!RemoveStale, F!WriteTemp, F!DropBackup, F!DropPrimary, F!Rotate, F!Publish,
       F!PublishFails, F!Restore, F!Cleanup, F!GiveUp, F!Proceed, F!call, F!fileHistory

\* While no save has been cut short, a step of one stores or changes nothing.
LEMMA SaveOutcome ==
    ASSUME SessionInv, F!SaveToFile, rotating, strikes' = 0
    PROVE  \/ pc' = "idle" /\ F!Recovered' = saving
           \/ pc' # "idle" /\ F!Recovered' = F!Recovered /\ strikes = 0
<1>1. FP!IInv /\ FP!SaveToFile
  BY OneFile DEF SessionInv
<1>2. F!Recovered = FP!Recovered /\ F!Recovered' = FP!Recovered'
  BY DEF F!Recovered, FP!Recovered, F!Gives, FP!Gives
<1> QED BY <1>1, <1>2, StatsAreStats, FP!SaveOutcome

LEMMA SavedFacts ==
    ASSUME NEW v \in AllStats, pc = "idle", SaveGlobal(v)
    PROVE  /\ F!Recovered' = F!Recovered /\ strikes' = strikes
           /\ pc' # "idle" => rotating' /\ saving' = v
<1>1. F!Recovered' = F!Recovered
  BY CallsKeepRecovered DEF SaveGlobal
<1>2. strikes' = strikes /\ (pc' # "idle" => rotating' /\ saving' = v)
  BY DEF SaveGlobal, fileVars, F!Save
<1> QED BY <1>1, <1>2

\* The numbers of turns are natural.
LEMMA TurnsAreNat ==
    ASSUME SessionInv
    PROVE  /\ F!Recovered.turns \in Nat /\ saving.turns \in Nat /\ live.turns \in Nat
           /\ copy.turns \in Nat
<1>1. \A s \in AllStats : s.turns \in Nat
  BY BoundsAssumption DEF AllStats, Turns
<1>2. saving \in AllStats /\ live \in AllStats /\ copy \in AllStats
  BY DEF SessionInv, TypeOK, F!TypeOK
<1>3. F!Recovered \in AllStats
  BY RecoveredIsStats
<1> QED BY <1>1, <1>2, <1>3

LEMMA ReaderTurns ==
    ASSUME SessionInv, TurnsInv,
           \/ \E kind \in Readers : OpenBook(kind)
           \/ TurnPage \/ SetBookCompleted \/ LeaveReader \/ ReturnToEpub \/ ReturnToXtc
    PROVE  TurnsInv'
<1>1. SessionTypes /\ PhaseInv
  BY DEF SessionInv, TypeOK, SessionTypes
<1>2. CASE \E kind \in Readers : OpenBook(kind)
  <2>1. PICK kind \in Readers, v \in Loadable, completed \in BOOLEAN : Opens(kind, v, completed)
    BY <1>2 DEF OpenBook, Opens
  <2>2. F!Recovered' = F!Recovered /\ pc' = "idle" /\ ~screen' /\ phase' = "run"
    BY <1>1, <2>1, LoadKeepsRecovered DEF Opens, Ready, screenVars, PhaseInv, Readers
  <2>3. ~misread' => live' = F!Recovered
    BY <2>1 DEF Opens
  <2> QED BY <2>2, <2>3, TurnsAreNat DEF TurnsInv
<1>3. CASE TurnPage
  <2>1. live'.turns = live.turns + 1
    BY <1>1, <1>3 DEF TurnPage, SessionTypes, AllStats
  <2>2. F!Recovered' = F!Recovered /\ UNCHANGED <<pc, strikes, misread, phase, reader, screen, rotating, saving>>
    BY <1>3, CallsKeepRecovered DEF TurnPage, fileVars, screenVars
  <2>3. pc = "idle" /\ phase = "run" /\ ~screen
    BY <1>3 DEF TurnPage, InReader, Ready
  <2> QED BY <2>1, <2>2, <2>3, TurnsAreNat DEF TurnsInv
<1>4. CASE SetBookCompleted
  <2> DEFINE s == WithCompleted(live, ~done)
  <2>1. s \in AllStats /\ s.turns = live.turns
    BY <1>1, <1>4, CompletedFacts DEF SetBookCompleted, SessionTypes
  <2>2. pc = "idle" /\ phase = "run" /\ ~screen /\ live' = s /\ SaveGlobal(s)
    BY <1>4 DEF SetBookCompleted, InReader, Ready
  <2> HIDE DEF s
  <2>3. /\ F!Recovered' = F!Recovered /\ strikes' = strikes
        /\ pc' # "idle" => rotating' /\ saving' = s
    BY <2>1, <2>2, SavedFacts
  <2>4. UNCHANGED <<reader, screen, phase, misread>>
    BY <1>4 DEF SetBookCompleted, screenVars
  <2> QED BY <2>1, <2>2, <2>3, <2>4, TurnsAreNat, <1>4 DEF TurnsInv, SetBookCompleted, InReader
<1>5. CASE LeaveReader
  <2>1. /\ F!Recovered' = F!Recovered /\ strikes' = strikes
        /\ pc' # "idle" => rotating' /\ saving' = live
    BY <1>1, <1>5, SavedFacts DEF LeaveReader, SessionTypes
  <2>2. reader' = "none" /\ ~screen' /\ phase' = "run" /\ reader \in Readers /\ misread' = misread
    BY <1>5 DEF LeaveReader, screenVars
  <2> QED BY <2>1, <2>2 DEF TurnsInv, Readers
<1>6. CASE ReturnToEpub \/ ReturnToXtc
  <2>0. PICK v \in Loadable, completed \in BOOLEAN : Returns(v, completed)
    BY <1>6 DEF ReturnToEpub, ReturnToXtc, Returns
  <2>1. /\ F!Recovered' = F!Recovered /\ strikes' = strikes /\ pc' = "idle"
        /\ ~screen' /\ phase' = "run" /\ reader' = reader /\ reader \in Readers
    BY <1>1, <2>0, LoadKeepsRecovered DEF Returns, Popping, screenVars, PhaseInv, Readers
  <2>2. \/ live'.turns = live.turns /\ misread' = misread
        \/ misread' \/ live'.turns = F!Recovered.turns
    BY <1>1, <2>0 DEF Returns, SessionTypes, AllStats
  <2> QED BY <2>1, <2>2, TurnsAreNat DEF TurnsInv
<1> QED BY <1>2, <1>3, <1>4, <1>5, <1>6

LEMMA ScreenTurns ==
    ASSUME SessionInv, TurnsInv,
           \/ OpenStats \/ (\E completed \in BOOLEAN : EditDates(completed))
           \/ LeaveEditPage \/ FinishStats \/ ReplaceStats
    PROVE  TurnsInv'
<1>1. SessionTypes /\ PhaseInv
  BY DEF SessionInv, TypeOK, SessionTypes
<1>2. CASE OpenStats
  <2>1. F!Recovered' = F!Recovered /\ UNCHANGED <<pc, strikes, misread, rotating, saving, reader, live, phase>>
    BY <1>2, CallsKeepRecovered DEF OpenStats, fileVars, readerVars
  <2> QED BY <1>2, <2>1 DEF OpenStats, InReader, Ready, TurnsInv
<1>3. CASE \E completed \in BOOLEAN : EditDates(completed)
  <2>1. PICK completed \in BOOLEAN : EditDates(completed)
    BY <1>3
  <2>2. copy'.turns = copy.turns
    BY <1>1, <2>1, CompletedFacts DEF EditDates, SessionTypes
  <2>3. F!Recovered' = F!Recovered
        /\ UNCHANGED <<pc, strikes, misread, rotating, saving, reader, live, screen, phase>>
    BY <2>1, CallsKeepRecovered DEF EditDates, fileVars, readerVars
  <2> QED BY <2>1, <2>2, <2>3 DEF EditDates, InStats, Ready, TurnsInv
<1>4. CASE LeaveEditPage \/ FinishStats \/ ReplaceStats
  <2>1. pc = "idle" /\ screen /\ reader \in Readers /\ copy.turns = live.turns /\ SaveStats
    BY <1>1, <1>4 DEF LeaveEditPage, FinishStats, ReplaceStats, CloseScreen, InStats, Ready,
                      PhaseInv, TurnsInv
  <2>2. /\ F!Recovered' = F!Recovered /\ strikes' = strikes
        /\ pc' # "idle" => rotating' /\ saving'.turns = live.turns
    <3>1. CASE changed
      BY <1>1, <2>1, <3>1, SavedFacts DEF SaveStats, SessionTypes
    <3>2. CASE ~changed
      BY <2>1, <3>2, CallsKeepRecovered DEF SaveStats, fileVars
    <3> QED BY <3>1, <3>2
  <2>3. /\ UNCHANGED <<reader, live, misread>> /\ phase' # "action"
        /\ screen' => copy' = copy
    BY <1>1, <1>4 DEF LeaveEditPage, FinishStats, ReplaceStats, CloseScreen, readerVars, InStats, Ready
  <2> QED BY <2>1, <2>2, <2>3, TurnsAreNat DEF TurnsInv
<1> QED BY <1>2, <1>3, <1>4

LEMMA OtherTurns ==
    ASSUME SessionInv, TurnsInv,
           \/ \E mark \in BOOLEAN : LoadForAction(mark)
           \/ SaveForAction \/ ResetAllTime \/ PowerLoss
    PROVE  TurnsInv'
<1>1. SessionTypes /\ PhaseInv
  BY DEF SessionInv, TypeOK, SessionTypes
<1>2. CASE \E mark \in BOOLEAN : LoadForAction(mark)
  <2>1. PICK mark \in BOOLEAN, v \in Loadable : LoadsForAction(mark, v)
    BY <1>2 DEF LoadForAction, LoadsForAction
  <2>2. ~misread' => copy'.turns = F!Recovered.turns
    <3>1. copy'.turns = v.turns
      BY <2>1, ActionFacts
    <3>2. ~misread' => v = F!Recovered
      BY <2>1 DEF LoadsForAction
    <3> QED BY <3>1, <3>2
  <2>3. /\ F!Recovered' = F!Recovered /\ pc' = "idle" /\ reader' = "none" /\ ~screen'
    BY <1>1, <2>1, LoadKeepsRecovered DEF LoadsForAction, Ready, readerVars, PhaseInv, Readers
  <2> QED BY <2>2, <2>3, TurnsAreNat DEF TurnsInv, Readers
<1>3. CASE SaveForAction
  <2>1. /\ F!Recovered' = F!Recovered /\ strikes' = strikes
        /\ pc' # "idle" => rotating' /\ saving' = copy
    BY <1>1, <1>3, SavedFacts DEF SaveForAction, SessionTypes
  <2>2. reader' = "none" /\ ~screen' /\ phase' = "run" /\ misread' = misread
    BY <1>1, <1>3 DEF SaveForAction, readerVars, PhaseInv, Readers
  <2> QED BY <1>3, <2>1, <2>2 DEF SaveForAction, TurnsInv, Readers
<1>4. CASE ResetAllTime
  <2>1. ~rotating' /\ reader' = "none" /\ ~screen' /\ phase' = "run"
    BY <1>1, <1>4 DEF ResetAllTime, Ready, F!ResetLocal, sessionVars, readerVars, screenVars,
                      PhaseInv, Readers
  <2> QED BY <2>1 DEF TurnsInv, Readers
<1>5. CASE PowerLoss
  BY <1>5 DEF PowerLoss, F!PowerLoss, TurnsInv, Readers
<1> QED BY <1>2, <1>3, <1>4, <1>5

LEMMA SavingTurns ==
    ASSUME SessionInv, TurnsInv, SaveToFile
    PROVE  TurnsInv'
<1>1. /\ F!SaveToFile /\ pc # "idle"
      /\ UNCHANGED <<rotating, saving, reader, live, screen, copy, phase, misread>>
  BY SaveToFileFacts DEF SaveToFile, sessionVars, readerVars, screenVars
<1>2. phase # "action"
  BY <1>1 DEF TurnsInv
<1>3. CASE strikes' = 0 /\ rotating
  BY <1>1, <1>2, <1>3, SaveOutcome DEF TurnsInv
<1>4. CASE ~(strikes' = 0 /\ rotating)
  BY <1>1, <1>2, <1>4 DEF TurnsInv
<1> QED BY <1>3, <1>4

LEMMA NextKeepsTurns == SessionInv /\ TurnsInv /\ [Next]_vars => TurnsInv'
<1> SUFFICES ASSUME SessionInv, TurnsInv, [Next]_vars PROVE TurnsInv'
  OBVIOUS
<1>1. CASE UNCHANGED vars
  <2>1. F!Recovered' = F!Recovered
    BY <1>1, CallsKeepRecovered DEF vars
  <2> QED BY <1>1, <2>1
          DEF vars, fileVars, sessionVars, readerVars, screenVars, TurnsInv
<1>2. CASE Next
  BY <1>2, ReaderTurns, ScreenTurns, OtherTurns, SavingTurns DEF Next
<1> QED BY <1>1, <1>2

LEMMA InitTurns == Init => TurnsInv
BY DEF Init, F!Init, TurnsInv, Readers

\* Readers, screens, failed saves and power losses keep what each of them relies
\* on, for any bounds.
THEOREM Invariance == Spec => []IInv
<1>1. Init => IInv
  BY InitIsSound, InitTurns DEF IInv
<1>2. IInv /\ [Next]_vars => IInv'
  BY NextKeepsSessionInv, NextKeepsTurns DEF IInv
<1> QED BY <1>1, <1>2, PTL DEF Spec

\* Variables keep their types.
THEOREM TypeCorrect == Spec => []TypeOK
<1>1. IInv => TypeOK
  BY DEF IInv, SessionInv
<1> QED BY <1>1, Invariance, PTL

\* The page turns of the EPUB reader are counted once each, whatever the
\* statistics screen saves over the file meanwhile.
THEOREM EpubTurns == Spec => []EpubKeepsTurns
<1>1. IInv => EpubKeepsTurns
  BY DEF IInv, SessionInv
<1> QED BY <1>1, Invariance, PTL

\* A reader that is on the screen again knows what the user chose on the
\* statistics screen, whichever saves of the all-time file failed, unless the file
\* of the book could not be written or read.
THEOREM Edits == Spec => []EditsAreImported
<1>1. IInv => EditsAreImported
  BY DEF IInv, SessionInv, EditInv, EditsAreImported, InReader, Ready
<1> QED BY <1>1, Invariance, PTL

\* The contract of save() in StatsFile is kept by all of its callers.
THEOREM LoadsComeFirst == Spec => []SavesFollowLoad
<1>1. IInv => SavesFollowLoad
  BY DEF IInv, SessionInv
<1> QED BY <1>1, Invariance, PTL

\* As long as no save has been cut short and load() could read the files, no save,
\* whoever makes it and from whichever copy of the statistics, takes page turns
\* away.
THEOREM SavesKeepTurns == Spec => NoSaveLosesTurns
<1> DEFINE Kept == rotating /\ strikes = 0 /\ strikes' = 0 /\ ~misread
                     => F!Recovered.turns <= (F!Recovered)'.turns
<1>1. IInv /\ [Next]_vars => [Kept]_vars
  <2> SUFFICES ASSUME IInv, Next, rotating, strikes = 0, strikes' = 0, ~misread
               PROVE  F!Recovered.turns <= F!Recovered'.turns
    OBVIOUS
  <2>1. F!Recovered.turns \in Nat /\ saving.turns \in Nat
    BY TurnsAreNat DEF IInv
  <2>2. CASE SaveToFile
    <3>1. pc # "idle" /\ F!SaveToFile
      BY <2>2, SaveToFileFacts DEF SaveToFile
    <3>2. F!Recovered' \in {saving, F!Recovered}
      BY <3>1, SaveOutcome DEF IInv
    <3> QED BY <2>1, <3>1, <3>2 DEF IInv, TurnsInv
  <2>3. CASE ~SaveToFile
    <3>1. FileCall
      BY <2>3, NextIsFileStep DEF IInv
    <3> QED BY <2>1, <3>1, CallsKeepRecovered DEF FileCall
  <2> QED BY <2>2, <2>3
<1> QED BY <1>1, Invariance, PTL DEF Spec, NoSaveLosesTurns

\* Readers, screens and book actions do to the statistics file what StatsFile
\* allows, so that what is proved of StatsFile holds of the session.
THEOREM UsesFile == Spec => F!Spec
<1>1. Init => F!Init
  BY DEF Init
<1>2. IInv /\ [Next]_vars => [F!Next]_F!fileVars
  <2> SUFFICES ASSUME IInv, [Next]_vars PROVE F!Next \/ UNCHANGED F!fileVars
    OBVIOUS
  <2>1. FileCall \/ F!SaveToFile
    BY NextIsFileStep DEF IInv, vars, FileCall, SaveToFile
  <2> QED BY <2>1 DEF FileCall, F!Next, F!fileVars, F!files, F!call, F!fileHistory, fileVars
<1> QED BY <1>1, <1>2, Invariance, PTL DEF Spec, F!Spec

\* So to everybody in the session, whatever runs, fails or loses power, the files
\* are one register, and a newer firmware's file that load() could read, or did not
\* have to, stays until a reset.
THEOREM SessionHasRegister == Spec => F!ImplementsRegister /\ F!NewerFormatKept
<1>1. F!Init => FP!Init
  BY DEF F!Init, FP!Init, F!Contents, FP!Contents, F!Recovered, FP!Recovered,
           F!Gives, FP!Gives, F!NewerBehind, FP!NewerBehind
<1>2. [F!Next]_(F!fileVars) => [FP!Next]_(FP!fileVars)
  BY OneFile DEF F!Next, FP!Next, F!fileVars, FP!fileVars, F!files, FP!files, F!call, FP!call,
                 F!fileHistory, FP!fileHistory
<1>3. F!Spec => FP!Spec
  BY <1>1, <1>2, PTL DEF F!Spec, FP!Spec
<1>4. FP!Spec => FP!ImplementsRegister /\ FP!NewerFormatKept
  BY StatsAreStats, FP!FileIsRegister, FP!NewerFormatIsKept
<1>5. FP!Register!Init => F!Register!Init
  BY DEF FP!Register!Init, F!Register!Init, F!Recovered, FP!Recovered, F!Gives, FP!Gives
<1>6. [FP!Register!Next]_(FP!Register!registerVars) => [F!Register!Next]_(F!Register!registerVars)
  BY DEF FP!Register!Next, F!Register!Next, FP!Register!registerVars, F!Register!registerVars,
         FP!Register!Begin, F!Register!Begin, FP!Register!MakeRoom, F!Register!MakeRoom,
         FP!Register!Forget, F!Register!Forget, FP!Register!Discard, F!Register!Discard,
         FP!Register!Complete, F!Register!Complete, FP!Register!CutShort, F!Register!CutShort,
         F!Recovered, FP!Recovered, F!Gives, FP!Gives
<1>7. FP!ImplementsRegister => F!ImplementsRegister
  BY <1>5, <1>6, PTL
     DEF FP!ImplementsRegister, F!ImplementsRegister, FP!Register!Spec, F!Register!Spec
<1>8. FP!NewerFormatKept => F!NewerFormatKept
  <2> DEFINE Kept == ~reset /\ ~missed => /\ primary = Newer => primary' = Newer
                                          /\ backup = Newer => backup' = Newer
  <2>1. [Kept]_(FP!fileVars) => [Kept]_(F!fileVars)
    BY DEF F!fileVars, FP!fileVars, F!files, FP!files, F!call, FP!call,
           F!fileHistory, FP!fileHistory
  <2> QED BY <2>1, PTL DEF FP!NewerFormatKept, F!NewerFormatKept
<1> QED BY <1>3, <1>4, <1>7, <1>8, UsesFile, PTL
=============================================================================
