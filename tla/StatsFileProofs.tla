--------------------------- MODULE StatsFileProofs ----------------------------
(***************************************************************************)
(* Proofs about StatsFile, for any set of statistics values: any number of *)
(* saves, resets, failed calls and power losses, in any order.             *)
(***************************************************************************)
EXTENDS StatsFile, TLAPS

USE StatsAssumption

\* A card as any earlier firmware left it satisfies the inductive invariant.
LEMMA InitInv == Init => IInv
<1> SUFFICES ASSUME Init PROVE IInv
  OBVIOUS
<1>0. FlagsOK
  BY DEF Init, FlagsOK, NewerBehind
<1>1. TypeOK
  <2>1. Recovered \in Stats
    BY DEF Recovered, Gives
  <2> QED
    BY <1>0, <2>1 DEF Init, TypeOK, Contents, Pcs
<1>2. CallInv
  BY DEF Init, CallInv
<1>3. NewerInv
  BY DEF Init, NewerInv, NewerBehind
<1>4. StrikeInv
  BY DEF Init, StrikeInv, OneStrikeLosesNothing, Recovered, Gives
<1> QED
  BY <1>1, <1>2, <1>3, <1>4 DEF IInv

\* Every step of saveToFile(), whether its call succeeds or fails, preserves it.
LEMMA SaveStep ==
  ASSUME IInv, SaveToFile
  PROVE  IInv'
<1> USE DEF IInv, TypeOK, Contents, Pcs, Proceed, GiveUp, Strike, files, call,
            fileHistory
<1>1. CASE RemoveStale
  <2>0. FlagsOK'
    BY <1>1 DEF RemoveStale, FlagsOK
  <2>1. TypeOK'
    BY <1>1, <2>0 DEF RemoveStale
  <2>2. CallInv'
    BY <1>1 DEF RemoveStale, CallInv
  <2>3. NewerInv'
    BY <1>1 DEF RemoveStale, CallInv, NewerInv, NewerBehind
  <2>4. StrikeInv'
    BY <1>1 DEF RemoveStale, CallInv, NewerInv, StrikeInv,
       OneStrikeLosesNothing, Recovered, Gives
  <2> QED
    BY <2>1, <2>2, <2>3, <2>4
<1>2. CASE WriteTemp
  <2>0. FlagsOK'
    BY <1>2 DEF WriteTemp, FlagsOK
  <2>1. TypeOK'
    BY <1>2, <2>0 DEF WriteTemp
  <2>2. CallInv'
    BY <1>2 DEF WriteTemp, CallInv
  <2>3. NewerInv'
    BY <1>2 DEF WriteTemp, CallInv, NewerInv, NewerBehind
  <2>4. StrikeInv'
    BY <1>2 DEF WriteTemp, CallInv, NewerInv, StrikeInv,
       OneStrikeLosesNothing, Recovered, Gives
  <2> QED
    BY <2>1, <2>2, <2>3, <2>4
<1>3. CASE DropBackup
  <2>0. FlagsOK'
    BY <1>3 DEF DropBackup, FlagsOK
  <2>1. TypeOK'
    BY <1>3, <2>0 DEF DropBackup
  <2>2. CallInv'
    <3>1. pc = "drop" /\ pc' \in {"rotate", "cleanup"} /\ rotating /\ temp' = temp
      BY <1>3 DEF DropBackup
    <3>2. UNCHANGED <<saving, rotating, allowed, loaded, blocked>>
      BY <1>3 DEF DropBackup
    <3>3. pc' = "rotate" => backup' = Missing
      BY <1>3 DEF DropBackup
    <3> QED
      BY <3>1, <3>2, <3>3 DEF CallInv
  <2>3. NewerInv'
    <3>1. UNCHANGED <<primary, rotating, loaded, blocked, reset, missed>>
      BY <1>3 DEF DropBackup
    <3>2. backup' \in {backup, Missing} /\ rotating /\ pc' \in {"rotate", "cleanup"}
      BY <1>3 DEF DropBackup
    <3> QED
      BY <3>1, <3>2 DEF NewerInv, NewerBehind
  <2>4. StrikeInv'
    BY <1>3 DEF DropBackup, CallInv, NewerInv, StrikeInv,
       OneStrikeLosesNothing, Recovered, Gives
  <2> QED
    BY <2>1, <2>2, <2>3, <2>4
<1>4. CASE DropPrimary
  <2>0. FlagsOK'
    BY <1>4 DEF DropPrimary, FlagsOK
  <2>1. TypeOK'
    BY <1>4, <2>0 DEF DropPrimary
  <2>2. CallInv'
    BY <1>4 DEF DropPrimary, CallInv
  <2>3. NewerInv'
    BY <1>4 DEF DropPrimary, CallInv, NewerInv, NewerBehind
  <2>4. StrikeInv'
    BY <1>4 DEF DropPrimary, CallInv, NewerInv, StrikeInv,
       OneStrikeLosesNothing, Recovered, Gives
  <2> QED
    BY <2>1, <2>2, <2>3, <2>4
<1>5. CASE Rotate
  <2>0. FlagsOK'
    BY <1>5 DEF Rotate, FlagsOK
  <2>1. TypeOK'
    BY <1>5, <2>0 DEF Rotate
  <2>2. CallInv'
    <3>1. pc = "rotate" /\ pc' \in {"publish", "cleanup"} /\ temp' = temp
      BY <1>5 DEF Rotate
    <3>2. UNCHANGED <<saving, rotating, allowed, loaded, blocked>>
      BY <1>5 DEF Rotate
    <3>3. pc' = "publish" => primary' = Missing
      BY <1>5 DEF Rotate
    <3> QED
      BY <3>1, <3>2, <3>3 DEF CallInv
  <2>3. NewerInv'
    BY <1>5 DEF Rotate, CallInv, NewerInv, NewerBehind
  <2>4. StrikeInv'
    BY <1>5 DEF Rotate, CallInv, NewerInv, StrikeInv,
       OneStrikeLosesNothing, Recovered, Gives
  <2> QED
    BY <2>1, <2>2, <2>3, <2>4
<1>6. CASE Publish
  <2>0. FlagsOK'
    BY <1>6 DEF Publish, FlagsOK
  <2>1. TypeOK'
    BY <1>6, <2>0 DEF Publish, CallInv
  <2>2. CallInv'
    BY <1>6 DEF Publish, CallInv
  <2>3. NewerInv'
    BY <1>6 DEF Publish, CallInv, NewerInv, NewerBehind
  <2>4. StrikeInv'
    BY <1>6 DEF Publish, CallInv, NewerInv, StrikeInv,
       OneStrikeLosesNothing, Recovered, Gives
  <2> QED
    BY <2>1, <2>2, <2>3, <2>4
<1>7. CASE PublishFails
  <2>0. FlagsOK'
    BY <1>7 DEF PublishFails, FlagsOK
  <2>1. TypeOK'
    BY <1>7, <2>0 DEF PublishFails
  <2>2. CallInv'
    BY <1>7 DEF PublishFails, CallInv
  <2>3. NewerInv'
    BY <1>7 DEF PublishFails, CallInv, NewerInv, NewerBehind
  <2>4. StrikeInv'
    BY <1>7 DEF PublishFails, CallInv, NewerInv, StrikeInv,
       OneStrikeLosesNothing, Recovered, Gives
  <2> QED
    BY <2>1, <2>2, <2>3, <2>4
<1>8. CASE Restore
  <2>0. FlagsOK'
    BY <1>8 DEF Restore, FlagsOK
  <2>1. TypeOK'
    BY <1>8, <2>0 DEF Restore
  <2>2. CallInv'
    BY <1>8 DEF Restore, CallInv
  <2>3. NewerInv'
    BY <1>8 DEF Restore, CallInv, NewerInv, NewerBehind
  <2>4. StrikeInv'
    BY <1>8 DEF Restore, CallInv, NewerInv, StrikeInv,
       OneStrikeLosesNothing, Recovered, Gives
  <2> QED
    BY <2>1, <2>2, <2>3, <2>4
<1>9. CASE Cleanup
  <2>0. FlagsOK'
    BY <1>9 DEF Cleanup, FlagsOK
  <2>1. TypeOK'
    BY <1>9, <2>0 DEF Cleanup
  <2>2. CallInv'
    BY <1>9 DEF Cleanup, CallInv
  <2>3. NewerInv'
    BY <1>9 DEF Cleanup, CallInv, NewerInv, NewerBehind
  <2>4. StrikeInv'
    BY <1>9 DEF Cleanup, CallInv, NewerInv, StrikeInv,
       OneStrikeLosesNothing, Recovered, Gives
  <2> QED
    BY <2>1, <2>2, <2>3, <2>4
<1> QED
  BY <1>1, <1>2, <1>3, <1>4, <1>5, <1>6, <1>7, <1>8, <1>9 DEF SaveToFile

\* So does every other step.
LEMMA NextInv == IInv /\ [Next]_fileVars => IInv'
<1> SUFFICES ASSUME IInv, [Next]_fileVars PROVE IInv'
  OBVIOUS
<1> USE DEF IInv, TypeOK, Contents, Pcs, Strike, files, call, fileHistory
<1>1. CASE LoadSome
  <2>1. /\ pc = "idle" /\ loaded' = TRUE
        /\ UNCHANGED <<primary, backup, temp, pc, saving, rotating, allowed, strikes, reset>>
        /\ blocked' \in BOOLEAN /\ missed' \in BOOLEAN
        /\ (missed' = missed \/ missed') /\ (blocked => blocked')
        /\ FindsNewer(primary, backup) => blocked' \/ missed'
    BY <1>1 DEF LoadSome, Load, FindsNewer, Misses, FlagsOK
  <2>2. TypeOK'
    BY <2>1 DEF FlagsOK
  <2>3. CallInv'
    BY <2>1 DEF CallInv
  <2>4. NewerInv'
    BY <2>1 DEF CallInv, NewerInv, NewerBehind, FindsNewer, FlagsOK
  <2>5. StrikeInv'
    BY <2>1 DEF StrikeInv, OneStrikeLosesNothing, Recovered, Gives
  <2> QED
    BY <2>2, <2>3, <2>4, <2>5
<1>2. ASSUME NEW v \in Stats, Save(v) PROVE IInv'
  <2>0. FlagsOK'
    BY <1>2 DEF Save, FlagsOK
  <2>1. TypeOK'
    BY <1>2, <2>0 DEF Save
  <2>2. CallInv'
    BY <1>2 DEF Save, CallInv
  <2>3. NewerInv'
    BY <1>2 DEF Save, CallInv, NewerInv, NewerBehind
  <2>4. StrikeInv'
    BY <1>2 DEF Save, CallInv, NewerInv, StrikeInv,
       OneStrikeLosesNothing, Recovered, Gives
  <2> QED
    BY <2>1, <2>2, <2>3, <2>4
<1>3. CASE ResetLocal
  <2>0. FlagsOK'
    BY <1>3 DEF ResetLocal, FlagsOK
  <2>1. TypeOK'
    BY <1>3, <2>0 DEF ResetLocal
  <2>2. CallInv'
    BY <1>3 DEF ResetLocal, CallInv
  <2>3. NewerInv'
    BY <1>3 DEF ResetLocal, CallInv, NewerInv, NewerBehind
  <2>4. StrikeInv'
    BY <1>3 DEF ResetLocal, CallInv, NewerInv, StrikeInv,
       OneStrikeLosesNothing, Recovered, Gives
  <2> QED
    BY <2>1, <2>2, <2>3, <2>4
<1>4. CASE SaveToFile
  BY <1>4, SaveStep
<1>5. CASE PowerLoss
  <2>0. FlagsOK'
    BY <1>5 DEF PowerLoss, FlagsOK
  <2>1. TypeOK'
    BY <1>5, <2>0 DEF PowerLoss
  <2>2. CallInv'
    BY <1>5 DEF PowerLoss, CallInv
  <2>3. NewerInv'
    BY <1>5 DEF PowerLoss, CallInv, NewerInv, NewerBehind
  <2>4. StrikeInv'
    BY <1>5 DEF PowerLoss, CallInv, NewerInv, StrikeInv,
       OneStrikeLosesNothing, Recovered, Gives
  <2> QED
    BY <2>1, <2>2, <2>3, <2>4
<1>6. CASE UNCHANGED fileVars
  <2>1. CallInv' /\ NewerInv'
    BY <1>6 DEF fileVars, CallInv, NewerInv, NewerBehind
  <2>2. StrikeInv'
    BY <1>6 DEF fileVars, StrikeInv, OneStrikeLosesNothing, Recovered, Gives
  <2>3. FlagsOK'
    BY <1>6 DEF fileVars, FlagsOK
  <2> QED
    BY <1>6, <2>1, <2>2, <2>3 DEF fileVars
<1> QED
  BY <1>1, <1>2, <1>3, <1>4, <1>5, <1>6 DEF Next

\* The inductive invariant holds of every reachable state.
THEOREM Invariance == Spec => []IInv
  BY InitInv, NextInv, PTL DEF Spec

\* Every variable keeps its type: load() never meets a torn file or backup.
THEOREM TypeCorrect == Spec => []TypeOK
<1>1. IInv => TypeOK
  BY DEF IInv
<1> QED
  BY <1>1, Invariance, PTL

\* One save cut short at any point, by a failed call or a power loss, loses
\* nothing that was saved before.
THEOREM Durability == Spec => []OneStrikeLosesNothing
<1>1. IInv => OneStrikeLosesNothing
  BY DEF IInv, StrikeInv
<1> QED
  BY <1>1, Invariance, PTL

\* No save(), however it ends, replaces a file that a newer firmware wrote and that
\* load() could read, or did not have to.
THEOREM NewerFormatIsKept == Spec => NewerFormatKept
<1> DEFINE Kept == ~reset /\ ~missed => /\ primary = Newer => primary' = Newer
                                        /\ backup = Newer => backup' = Newer
<1>1. IInv /\ [Next]_fileVars => [Kept]_fileVars
  <2> SUFFICES ASSUME IInv, Next, ~reset, ~missed PROVE Kept
    OBVIOUS
  <2>1. pc # "idle" => primary # Newer /\ backup # Newer
    BY DEF IInv, CallInv, NewerInv
  <2>2. CASE SaveToFile
    BY <2>1, <2>2 DEF SaveToFile, RemoveStale, WriteTemp, DropBackup,
       DropPrimary, Rotate, Publish, PublishFails, Restore, Cleanup
  <2>3. CASE ~SaveToFile
    BY <2>3 DEF Next, LoadSome, Load, Save, ResetLocal, PowerLoss, files
  <2> QED
    BY <2>2, <2>3
<1> QED
  BY <1>1, Invariance, PTL DEF Spec, NewerFormatKept

(***************************************************************************)
(* The refinement: every step of the files is a step of the register, or   *)
(* does not change it.                                                     *)
(***************************************************************************)

\* The register's variables in terms of the files.
older    == {backup} \intersect Stats
doing    == IF pc = "idle" THEN "nothing" ELSE IF rotating THEN "save" ELSE "reset"
argument == IF pc = "idle" THEN Fresh ELSE saving
struck   == strikes # 0

\* What a step of saveToFile() that does not end it leaves: the same call, with
\* the same argument.
StillInCall == pc # "idle" /\ pc' # "idle" /\ UNCHANGED <<rotating, saving, strikes>>

LEMMA StillInCallFacts ==
  ASSUME StillInCall
  PROVE  UNCHANGED <<doing, argument, struck>>
BY DEF StillInCall, doing, argument, struck

\* A call that fails, or the power lost during it.
LEMMA CutShortFacts ==
  ASSUME IInv, pc # "idle", pc' = "idle", Strike, UNCHANGED <<primary, backup>>
  PROVE  Register!CutShort
<1>1. strikes' # 0
  BY DEF IInv, TypeOK, Strike
<1> QED
  BY <1>1 DEF Register!CutShort, Recovered, Gives

\* What load() gives once the file has gone to the backup, or come back.
LEMMA RotationIsHidden ==
  ASSUME IInv, primary # Missing, backup = Missing, primary' = Missing, backup' = primary
  PROVE  Recovered' = Recovered /\ older' \in {{}, {Recovered}}
BY DEF Recovered, Gives, older, IInv, TypeOK, Contents

LEMMA RestoreIsHidden ==
  ASSUME IInv, primary = Missing, backup # Missing, primary' = backup, backup' = Missing
  PROVE  Recovered' = Recovered /\ older' = {}
BY DEF Recovered, Gives, older, IInv, TypeOK, Contents

LEMMA SaveStepRefines ==
  ASSUME IInv, SaveToFile
  PROVE  Register!Next \/ UNCHANGED Register!registerVars
<1> USE DEF Proceed, GiveUp, fileHistory, call
<1>1. ASSUME StillInCall, UNCHANGED <<primary, backup>>
      PROVE  UNCHANGED Register!registerVars
  BY <1>1, StillInCallFacts DEF Register!registerVars, Recovered, Gives, doing, argument, struck
<1>2. CASE RemoveStale
  BY <1>1, <1>2, CutShortFacts DEF RemoveStale, StillInCall, Register!Next
<1>3. CASE WriteTemp
  BY <1>1, <1>3 DEF WriteTemp, StillInCall
<1>4. CASE DropBackup
  <2>1. StillInCall /\ doing = "save" /\ UNCHANGED primary
    BY <1>4 DEF DropBackup, StillInCall, doing
  <2>2. CASE backup' = backup
    BY <1>1, <2>1, <2>2
  <2>3. CASE backup' # backup
    <3>1. backup' = Missing /\ older' = {}
      BY <1>4, <2>3 DEF DropBackup, older
    <3>2. CASE Recovered' = Recovered
      BY <2>1, <3>1, <3>2, StillInCallFacts
         DEF Register!Next, Register!MakeRoom, doing, argument, struck, older
    <3>3. CASE Recovered' # Recovered
      <4>1. primary \notin Stats /\ primary # Newer /\ backup \in Stats /\ Recovered' = Fresh
        BY <2>1, <3>1, <3>3 DEF Recovered, Gives
      <4>2. strikes # 0
        BY <1>4, <4>1 DEF DropBackup, IInv, TypeOK, Contents, StrikeInv
      <4> QED
        BY <2>1, <3>1, <4>1, <4>2, StillInCallFacts
           DEF Register!Next, Register!Forget, doing, argument, struck, older
    <3> QED
      BY <3>2, <3>3
  <2> QED
    BY <2>2, <2>3
<1>5. CASE DropPrimary
  <2>1. StillInCall /\ doing = "reset" /\ UNCHANGED backup
    BY <1>5 DEF DropPrimary, StillInCall, doing
  <2>2. CASE primary' = primary
    BY <1>1, <2>1, <2>2
  <2>3. CASE primary' # primary
    <3>1. Recovered' \in older \union {Fresh}
      BY <1>5, <2>1, <2>3 DEF DropPrimary, Recovered, Gives, older
    <3> QED
      BY <2>1, <3>1, StillInCallFacts
         DEF Register!Next, Register!Discard, doing, argument, struck, older
  <2> QED
    BY <2>2, <2>3
<1>6. CASE Rotate
  <2>1. StillInCall /\ doing = "save" /\ backup = Missing
    BY <1>6 DEF Rotate, StillInCall, doing, IInv, CallInv
  <2>2. CASE UNCHANGED <<primary, backup>>
    BY <1>1, <2>1, <2>2
  <2>3. CASE ~UNCHANGED <<primary, backup>>
    <3>1. primary # Missing /\ primary' = Missing /\ backup' = primary
      BY <1>6, <2>3 DEF Rotate
    <3>2. Recovered' = Recovered /\ older' \in {{}, {Recovered}}
      BY <2>1, <3>1, RotationIsHidden
    <3> QED
      BY <2>1, <3>2, StillInCallFacts
         DEF Register!Next, Register!MakeRoom, doing, argument, struck, older
  <2> QED
    BY <2>2, <2>3
<1>7. CASE Publish
  <2>1. pc # "idle" /\ pc' = "idle" /\ strikes' = 0 /\ backup' = backup /\ primary' = saving
    BY <1>7 DEF Publish, IInv, CallInv
  <2>2. Recovered' = saving
    BY <2>1 DEF Recovered, Gives, IInv, TypeOK
  <2> QED
    BY <2>1, <2>2 DEF Register!Next, Register!Complete
<1>8. CASE PublishFails
  BY <1>1, <1>8 DEF PublishFails, StillInCall, files
<1>9. CASE Restore
  <2>1. StillInCall /\ doing = "save" /\ primary = Missing /\ backup # Missing
    BY <1>9 DEF Restore, StillInCall, doing, IInv, CallInv
  <2>2. CASE UNCHANGED <<primary, backup>>
    BY <1>1, <2>1, <2>2
  <2>3. CASE ~UNCHANGED <<primary, backup>>
    BY <1>9, <2>1, <2>3, StillInCallFacts, RestoreIsHidden
       DEF Restore, Register!Next, Register!MakeRoom, doing, argument, struck, older
  <2> QED
    BY <2>2, <2>3
<1>10. CASE Cleanup
  BY <1>10, CutShortFacts DEF Cleanup, Register!Next
<1> QED
  BY <1>2, <1>3, <1>4, <1>5, <1>6, <1>7, <1>8, <1>9, <1>10 DEF SaveToFile

LEMMA StepRefines ==
  ASSUME IInv, [Next]_fileVars
  PROVE  [Register!Next]_Register!registerVars
<1>1. CASE LoadSome
  BY <1>1 DEF LoadSome, Load, files, call, Register!registerVars, Recovered, Gives
<1>2. ASSUME NEW v \in Stats, Save(v) PROVE Register!Begin("save", v)
  BY <1>2 DEF Save, files, Register!Begin, Recovered, Gives
<1>3. CASE ResetLocal
  BY <1>3 DEF ResetLocal, files, Register!Next, Register!Begin, Recovered, Gives
<1>4. CASE SaveToFile
  BY <1>4, SaveStepRefines
<1>5. CASE PowerLoss
  <2>1. CASE pc = "idle"
    BY <1>5, <2>1 DEF PowerLoss, Register!registerVars, Recovered, Gives
  <2>2. CASE pc # "idle"
    BY <1>5, <2>2, CutShortFacts DEF PowerLoss, Register!Next
  <2> QED
    BY <2>1, <2>2
<1>6. CASE UNCHANGED fileVars
  BY <1>6 DEF fileVars, files, call, fileHistory, Register!registerVars, Recovered, Gives
<1> QED
  BY <1>1, <1>2, <1>3, <1>4, <1>5, <1>6 DEF Next, Register!Next

LEMMA InitRefines == Init => Register!Init
BY DEF Init, Register!Init, Recovered, Gives

\* The rotation, the backup and the restore are not to be seen by the callers of
\* load() and save(): the files are a register, whatever fails or is cut short.
THEOREM FileIsRegister == Spec => ImplementsRegister
<1>1. Init => Register!Init
  BY InitRefines
<1>2. IInv /\ [Next]_fileVars => [Register!Next]_Register!registerVars
  BY StepRefines
<1> QED
  BY <1>1, <1>2, Invariance, PTL DEF Spec, ImplementsRegister, Register!Spec

\* What a caller may rely on while no save has been cut short: a step of a save
\* stores its argument and ends the call, or leaves what load() gives.
LEMMA SaveOutcome ==
  ASSUME IInv, SaveToFile, rotating, strikes' = 0
  PROVE  \/ pc' = "idle" /\ Recovered' = saving
         \/ pc' # "idle" /\ Recovered' = Recovered /\ strikes = 0
<1>1. doing = "save" /\ argument = saving
  BY DEF SaveToFile, RemoveStale, WriteTemp, DropBackup, DropPrimary, Rotate, Publish,
         PublishFails, Restore, Cleanup, doing, argument
<1>2. doing' = "nothing" <=> pc' = "idle"
  BY DEF doing
<1>3. Register!Next \/ UNCHANGED Register!registerVars
  BY SaveStepRefines
<1> QED
  BY <1>1, <1>2, <1>3
     DEF Register!Next, Register!registerVars, Register!Begin, Register!MakeRoom,
         Register!Forget, Register!Discard, Register!Complete, Register!CutShort,
         doing, argument
=============================================================================
