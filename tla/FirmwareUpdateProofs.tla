------------------------ MODULE FirmwareUpdateProofs -------------------------
(***************************************************************************)
(* Proofs about FirmwareUpdate, for any images, any number of chunks and   *)
(* any number of updates, with a power loss before or after every erase    *)
(* and every write.                                                        *)
(***************************************************************************)
EXTENDS FirmwareUpdate, TLAPS

USE FirmwareAssumption

bootVars == <<app, entry, running>>

\* The next number names the destination and exceeds the active one.
LEMMA NewSeqNamesDest ==
  ASSUME TypeOK
  PROVE  NewSeq \in Nat /\ NewSeq > ActiveSeq /\ (NewSeq - 1) % 2 = Dest
<1>1. ActiveSeq \in Nat /\ Dest \in {0, 1}
  BY DEF TypeOK, ActiveSeq, Active, Dest, Partition
<1>2. \A a \in Nat, d \in {0, 1} :
          \E n \in {a + 1, a + 2} : (n - 1) % 2 = d
  OBVIOUS
<1>3. PICK n \in {ActiveSeq + 1, ActiveSeq + 2} : (n - 1) % 2 = Dest
  BY <1>1, <1>2
<1>4. NewSeq \in {ActiveSeq + 1, ActiveSeq + 2} /\ (NewSeq - 1) % 2 = Dest
  BY <1>3 DEF NewSeq
<1> QED
  BY <1>1, <1>4

LEMMA TargetIsPartition ==
  ASSUME TypeOK
  PROVE  Target \in Partition
<1>1. \A n \in Nat : (n - 1) % 2 \in {0, 1}
  OBVIOUS
<1>2. ActiveSeq \in Nat
  BY DEF TypeOK, ActiveSeq, Active
<1> QED
  BY <1>1, <1>2 DEF Target, Partition

LEMMA InitInv == Init => IInv
<1> SUFFICES ASSUME Init PROVE IInv
  OBVIOUS
<1>1. TypeOK
  <2>1. entry \in [{0, 1} -> Nat]
    BY DEF Init
  <2>2. Target \in Partition
    <3>1. \A n \in Nat : (n - 1) % 2 \in {0, 1}
      OBVIOUS
    <3>2. ActiveSeq \in Nat
      BY <2>1 DEF ActiveSeq, Active
    <3> QED
      BY <3>1, <3>2 DEF Target, Partition
  <2>3. \A c \in Source : Whole(c) \in Contents
    BY DEF Whole, Contents
  <2>4. app \in [Partition -> Contents]
    BY <2>3 DEF Init
  <2>5. chunk \in 1..Chunks /\ next \in [slot : {0, 1}, seq : Nat] /\ state \in States
    BY DEF Init, States
  <2>6. /\ running \in Partition /\ file \in Source
        /\ recovery \in BOOLEAN /\ wanted \in Source /\ pinned \in BOOLEAN
        /\ offer \in Offers
    BY <2>2 DEF Init, Source, Offers, NoOffer
  <2>7. hashed \in Seq(Source) /\ Len(hashed) <= Chunks
    BY DEF Init
  <2> QED
    BY <2>1, <2>4, <2>5, <2>6, <2>7 DEF TypeOK
<1>2. BootInv
  BY DEF Init, BootInv, Done
<1>3. StreamInv
  BY DEF Init, StreamInv, SdSteps, OtaSteps, Done
<1>4. EntryInv
  BY DEF Init, EntryInv
<1>5. SourceInv
  BY DEF Init, SourceInv, SdSteps
<1> QED
  BY <1>1, <1>2, <1>3, <1>4, <1>5 DEF IInv

\* A step of a screen, or a failure: the flash is as it was.
LEMMA ScreenStep ==
  ASSUME IInv, OtaFails \/ SdFails \/ Validate \/ DownloadEnds \/ EndOta \/ User
  PROVE  IInv'
<1> USE DEF IInv
<1>1. UNCHANGED <<app, entry, running, next, hashed>>
  BY DEF OtaFails, SdFails, Validate, DownloadEnds, EndOta, User, OpenSd, CancelSd,
         BackOut, ConfirmSd, QuickAction, Pick, ChangeCard, OpenOta, ConfirmOta, Check,
         Show, otaVars
<1>2. /\ state \notin Done
      /\ state' \notin Done
      /\ state' \notin {"SD_SWITCH", "SD_ENTRY", "OTA_ENTRY", "WRITE"}
  BY DEF OtaFails, SdFails, Validate, DownloadEnds, EndOta, User, OpenSd, CancelSd,
         BackOut, ConfirmSd, QuickAction, Pick, ChangeCard, OpenOta, ConfirmOta, Check,
         Show, SdSteps, OtaSteps, Done
<1>3. TypeOK'
  <2>1. state' \in States
    BY DEF States, Menus, SdSteps, OtaSteps, OtaFails, SdFails, Validate, DownloadEnds,
           EndOta, User, OpenSd, CancelSd, BackOut, ConfirmSd, QuickAction, Pick,
           ChangeCard, OpenOta, ConfirmOta, Check, Show, TypeOK
  <2>2. /\ file' \in Source
        /\ chunk' \in 1..Chunks
        /\ recovery' \in BOOLEAN
        /\ wanted' \in Source
        /\ pinned' \in BOOLEAN
        /\ offer' \in Offers
    <3>1. CASE OtaFails \/ SdFails \/ Validate \/ DownloadEnds \/ EndOta
      BY <3>1 DEF OtaFails, SdFails, Validate, DownloadEnds, EndOta, Show, TypeOK,
             otaVars, asking
    <3>2. CASE OpenSd \/ CancelSd \/ ConfirmSd \/ QuickAction \/ OpenOta \/ ConfirmOta
      BY <3>2 DEF OpenSd, CancelSd, BackOut, ConfirmSd, QuickAction, OpenOta, ConfirmOta,
             Show, TypeOK, otaVars, asking
    <3>3. CASE \E f \in Source : Pick(f) \/ ChangeCard(f)
      BY <3>3 DEF Pick, ChangeCard, TypeOK, Source, otaVars, asking
    <3>4. CASE \E i \in Image, o \in Offers : Check(i, o)
      BY <3>4 DEF Check, TypeOK, Source, Offers, otaVars, asking
    <3> QED
      BY <3>1, <3>2, <3>3, <3>4 DEF User
  <2> QED
    BY <1>1, <2>1, <2>2 DEF TypeOK
<1>4. BootInv'
  BY <1>1, <1>2 DEF BootInv, Target, HasActive, ActiveSeq, Active
<1>5. StreamInv'
  <2>1. CASE Validate
    BY <2>1, <1>1 DEF Validate, StreamInv, SdSteps, OtaSteps, Done
  <2>2. CASE DownloadEnds
    BY <2>2, <1>1 DEF DownloadEnds, Show, StreamInv, SdSteps, Dest
  <2>3. CASE EndOta
    <3>1. /\ UNCHANGED <<app, running, wanted, pinned>>
          /\ state = "END" /\ state' = "OTA_SWITCH"
          /\ \E i \in Image : app[Dest] = Whole(i)
          /\ offer.sha => hashed = Whole(wanted)
      BY <2>3 DEF EndOta, Show, asking
    <3>2. pinned => app[Dest] = Whole(wanted)
      <4> SUFFICES ASSUME pinned PROVE app[Dest] = Whole(wanted)
        OBVIOUS
      <4>1. hashed = Whole(wanted)
        BY <3>1 DEF SourceInv
      <4>2. \A k \in 1..Chunks : hashed[k] = wanted
        BY <4>1 DEF Whole
      <4>3. Len(hashed) = Chunks
        <5>1. DOMAIN hashed = 1..Chunks /\ DOMAIN hashed = 1..Len(hashed)
          BY <4>1 DEF Whole, TypeOK
        <5> QED
          BY <5>1 DEF TypeOK
      <4>4. \A k \in 1..Chunks : app[Dest][k] = wanted
        BY <3>1, <4>2, <4>3 DEF StreamInv
      <4>5. app[Dest] \in Contents
        BY DEF TypeOK, Dest, Partition
      <4> QED
        BY <4>4, <4>5 DEF Contents, Whole
    <3> QED
      BY <3>1, <3>2 DEF StreamInv, SdSteps, Dest
  <2>4. CASE OtaFails \/ SdFails
    BY <2>4, <1>1 DEF OtaFails, SdFails, Show, StreamInv, SdSteps, OtaSteps, Done
  <2>5. CASE User
    <3>1. state' \in {"AWAY", "VALIDATE", "BEGIN"} \union Menus
      BY <2>5 DEF User, OpenSd, CancelSd, BackOut, ConfirmSd, QuickAction, Pick,
             ChangeCard, OpenOta, ConfirmOta, Check, Show, Menus
    <3> QED
      BY <3>1 DEF StreamInv, SdSteps, OtaSteps, Done, Menus
  <2> QED
    BY <2>1, <2>2, <2>3, <2>4, <2>5
<1>6. EntryInv'
  BY <1>1, <1>2 DEF EntryInv
<1>7. SourceInv'
  <2>1. CASE SdFails \/ OtaFails \/ Validate \/ DownloadEnds \/ EndOta
    BY <2>1 DEF SdFails, OtaFails, Validate, DownloadEnds, EndOta, Show, SourceInv,
           SdSteps, OtaSteps, otaVars, asking
  <2>2. CASE OpenSd \/ CancelSd \/ ConfirmSd \/ QuickAction \/ OpenOta
    BY <2>2 DEF OpenSd, CancelSd, BackOut, ConfirmSd, QuickAction, OpenOta, Show,
           SourceInv, SdSteps, otaVars, asking
  <2>3. CASE ConfirmOta
    BY <2>3 DEF ConfirmOta, Show, SourceInv, SdSteps, otaVars, asking, TypeOK, Offers
  <2>4. CASE \E f \in Source : Pick(f) \/ ChangeCard(f)
    BY <2>4 DEF Pick, ChangeCard, SourceInv, SdSteps, otaVars, asking
  <2>5. CASE \E i \in Image, o \in Offers : Check(i, o)
    BY <2>5 DEF Check, SourceInv, SdSteps, otaVars, asking
  <2> QED
    BY <2>1, <2>2, <2>3, <2>4, <2>5 DEF User
<1> QED
  BY <1>3, <1>4, <1>5, <1>6, <1>7

\* A step that erases or writes the partition that does not run.
LEMMA FlashStep ==
  ASSUME IInv, EraseBlock \/ WriteChunk \/ BeginOta \/ \E c \in Source : Download(c)
  PROVE  IInv'
<1> USE DEF IInv
<1>1. UNCHANGED <<entry, running, next, file, recovery, offer, wanted, pinned>>
  BY DEF EraseBlock, WriteChunk, BeginOta, Download, otaVars, asking
<1>2. /\ state \in {"ERASE", "WRITE", "BEGIN", "DOWNLOAD"}
      /\ state' \in {"ERASE", "WRITE", "SD_SWITCH", "DOWNLOAD", "END"}
  BY DEF EraseBlock, WriteChunk, BeginOta, Download
<1>3. /\ Dest \in Partition /\ Dest # running /\ Dest' = Dest
  BY <1>1 DEF TypeOK, Dest, Partition
<1>4. app' \in [Partition -> Contents] /\ chunk' \in 1..Chunks
  <2>1. CASE BeginOta
    BY <2>1, <1>3 DEF BeginOta, TypeOK, Contents, Whole, Source
  <2>2. CASE EraseBlock \/ WriteChunk
    <3>1. chunk' \in 1..Chunks
      BY <2>2 DEF EraseBlock, WriteChunk, TypeOK
    <3>2. PICK c \in Source : app' = [app EXCEPT ![Dest][chunk] = c]
      BY <2>2 DEF EraseBlock, WriteChunk, TypeOK, Source
    <3>3. app' \in [Partition -> Contents]
      BY <3>2, <1>3 DEF TypeOK, Contents
    <3> QED
      BY <3>1, <3>3
  <2>3. CASE \E c \in Source : Download(c)
    <3>1. PICK c \in Source : app' = [app EXCEPT ![Dest][Len(hashed) + 1] = c]
      BY <2>3 DEF Download
    <3>2. \A f \in Contents : \A k : [f EXCEPT ![k] = c] \in Contents
      BY DEF Contents
    <3>3. app' \in [Partition -> Contents]
      BY <3>1, <3>2, <1>3 DEF TypeOK
    <3>4. chunk' = chunk
      BY <2>3 DEF Download
    <3> QED
      BY <3>3, <3>4 DEF TypeOK
  <2> QED
    BY <2>1, <2>2, <2>3
<1>5. app'[running] = app[running]
  BY <1>3 DEF EraseBlock, WriteChunk, BeginOta, Download, TypeOK
<1>6. hashed' \in Seq(Source) /\ Len(hashed') <= Chunks
  <2>1. CASE EraseBlock \/ WriteChunk
    BY <2>1 DEF EraseBlock, WriteChunk, otaVars, TypeOK
  <2>2. CASE BeginOta
    BY <2>2 DEF BeginOta
  <2>3. CASE \E c \in Source : Download(c)
    <3>1. PICK c \in Source : hashed' = Append(hashed, c) /\ state = "DOWNLOAD"
      BY <2>3 DEF Download
    <3>2. hashed \in Seq(Source) /\ Len(hashed) < Chunks
      BY <3>1 DEF TypeOK, StreamInv
    <3>3. Len(hashed') = Len(hashed) + 1 /\ Len(hashed) \in Nat
      BY <3>1, <3>2
    <3> QED
      BY <3>1, <3>2, <3>3
  <2> QED
    BY <2>1, <2>2, <2>3
<1>7. TypeOK'
  BY <1>1, <1>2, <1>4, <1>6 DEF TypeOK, States, SdSteps, OtaSteps
<1>8. BootInv'
  BY <1>1, <1>2, <1>5 DEF BootInv, Target, HasActive, ActiveSeq, Active, Done
<1>9. StreamInv'
  <2>1. CASE EraseBlock
    BY <2>1, <1>1, <1>3 DEF EraseBlock, StreamInv, TypeOK, Contents, SdSteps
  <2>2. CASE WriteChunk
    <3>1. \A k \in 1..chunk : app'[Dest][k] = file
      BY <2>2, <1>3 DEF WriteChunk, StreamInv, TypeOK, Contents
    <3>2. CASE chunk = Chunks
      <4>1. app'[Dest] = Whole(file)
        BY <3>1, <3>2, <1>3, <1>4 DEF Contents, Whole
      <4> QED
        BY <4>1, <2>2, <3>2, <1>1, <1>3 DEF WriteChunk, StreamInv, SdSteps
    <3>3. CASE chunk # Chunks
      BY <3>1, <2>2, <3>3, <1>1, <1>3 DEF WriteChunk, StreamInv, TypeOK, SdSteps
    <3> QED
      BY <3>2, <3>3
  <2>3. CASE BeginOta
    BY <2>3 DEF BeginOta, StreamInv, SdSteps
  <2>4. CASE \E c \in Source : Download(c)
    <3>1. PICK c \in Source : Download(c)
      BY <2>4
    <3>2. /\ state = "DOWNLOAD"
          /\ app' = [app EXCEPT ![Dest][Len(hashed) + 1] = c]
          /\ hashed' = Append(hashed, c)
          /\ state' = IF Len(hashed) + 1 = Chunks THEN "END" ELSE state
      BY <3>1 DEF Download
    <3>3. /\ hashed \in Seq(Source) /\ Len(hashed) \in Nat /\ Len(hashed) < Chunks
          /\ \A k \in 1..Len(hashed) : app[Dest][k] = hashed[k]
          /\ app \in [Partition -> Contents]
      BY <3>2 DEF TypeOK, StreamInv
    <3>4. /\ Len(hashed') = Len(hashed) + 1
          /\ \A k \in 1..Len(hashed) : hashed'[k] = hashed[k]
          /\ hashed'[Len(hashed) + 1] = c
      BY <3>2, <3>3
    <3>5. /\ \A k \in 1..Len(hashed) : app'[Dest][k] = app[Dest][k]
          /\ app'[Dest][Len(hashed) + 1] = c
      BY <3>2, <3>3, <1>3 DEF Contents
    <3>6. \A k \in 1..(Len(hashed) + 1) : app'[Dest][k] = hashed'[k]
      <4> TAKE k \in 1..(Len(hashed) + 1)
      <4>1. CASE k = Len(hashed) + 1
        BY <4>1, <3>4, <3>5
      <4>2. CASE k # Len(hashed) + 1
        <5>1. k \in 1..Len(hashed)
          BY <4>2, <3>3
        <5> QED
          BY <5>1, <3>3, <3>4, <3>5
      <4> QED
        BY <4>1, <4>2
    <3>7. state' \in {"DOWNLOAD", "END"} /\ (state' = "DOWNLOAD" => Len(hashed') < Chunks)
      BY <3>2, <3>3, <3>4
    <3> QED
      BY <3>4, <3>6, <3>7, <1>3 DEF StreamInv, SdSteps
  <2> QED
    BY <2>1, <2>2, <2>3, <2>4
<1>10. EntryInv'
  BY <1>1, <1>2 DEF EntryInv
<1>11. SourceInv'
  BY <1>1 DEF EraseBlock, WriteChunk, BeginOta, Download, SourceInv, SdSteps
<1> QED
  BY <1>7, <1>8, <1>9, <1>10, <1>11

\* The entry that is not active is erased: the active one still names what runs.
LEMMA EraseEntryStep ==
  ASSUME IInv, EraseEntry \/ OtaEraseEntry
  PROVE  IInv'
<1> USE DEF IInv
<1>1. /\ UNCHANGED <<app, running, file, chunk, offer, hashed, recovery, wanted, pinned>>
      /\ next' = [slot |-> TargetSlot, seq |-> NewSeq]
      /\ entry' = [entry EXCEPT ![TargetSlot] = 0]
      /\ state \in {"SD_SWITCH", "OTA_SWITCH"}
      /\ state' \in {"SD_ENTRY", "OTA_ENTRY"}
  BY DEF EraseEntry, OtaEraseEntry, Swap, otaVars, asking
<1>2. TargetSlot \in {0, 1} /\ NewSeq \in Nat
  BY NewSeqNamesDest DEF TargetSlot
<1>3. HasActive' = HasActive /\ (HasActive => Active' = Active /\ TargetSlot # Active)
  BY <1>1, <1>2 DEF TypeOK, EntryInv, HasActive, Active, TargetSlot
<1>4. ActiveSeq' = ActiveSeq
  BY <1>1, <1>2, <1>3 DEF TypeOK, ActiveSeq, Active, HasActive
<1>5. TargetSlot' = TargetSlot
  BY <1>3 DEF TargetSlot
<1>6. NewSeq' = NewSeq
  BY <1>1, <1>4 DEF NewSeq, Dest
<1>7. Target' = Target
  BY <1>3, <1>4 DEF Target
<1>8. TypeOK'
  BY <1>1, <1>2 DEF TypeOK, States, SdSteps, OtaSteps
<1>9. BootInv'
  BY <1>1, <1>7 DEF BootInv, Done
<1>10. StreamInv'
  BY <1>1 DEF StreamInv, SdSteps, Dest, EraseEntry, OtaEraseEntry, Swap
<1>11. EntryInv'
  BY <1>1, <1>2, <1>5, <1>6 DEF EntryInv, TypeOK
<1>12. SourceInv'
  BY <1>1 DEF SourceInv, SdSteps, EraseEntry, OtaEraseEntry, Swap
<1> QED
  BY <1>8, <1>9, <1>10, <1>11, <1>12

\* The entry is written: it is the active one, and names the destination.
LEMMA WriteEntryStep ==
  ASSUME IInv, WriteEntry \/ OtaWriteEntry
  PROVE  IInv'
<1> USE DEF IInv
<1>1. /\ UNCHANGED <<app, running, file, chunk, offer, hashed, next, recovery, wanted,
                     pinned>>
      /\ entry' = [entry EXCEPT ![TargetSlot] = NewSeq]
      /\ state \in {"SD_ENTRY", "OTA_ENTRY"}
      /\ state' \in Done
  BY DEF WriteEntry, OtaWriteEntry, EntryInv, Done, otaVars, asking
<1>2. /\ TargetSlot \in {0, 1}
      /\ NewSeq \in Nat /\ NewSeq > ActiveSeq /\ (NewSeq - 1) % 2 = Dest
  BY NewSeqNamesDest DEF TargetSlot
<1>3. entry'[TargetSlot] = NewSeq /\ entry'[1 - TargetSlot] < NewSeq
  BY <1>1, <1>2 DEF TypeOK, TargetSlot, HasActive, ActiveSeq, Active
<1>4. HasActive' /\ ActiveSeq' = NewSeq /\ entry'[0] # entry'[1]
  <2> DEFINE t == TargetSlot
             q == NewSeq
             e == entry'
  <2>1. t \in {0, 1} /\ q \in Nat /\ q # 0 /\ e[t] = q /\ e[1 - t] < q
        /\ e[0] \in Nat /\ e[1] \in Nat
    BY <1>1, <1>2, <1>3 DEF TypeOK, ActiveSeq, Active
  <2> HIDE DEF t, q
  <2>2. (t = 0 /\ e[1] < e[0]) \/ (t = 1 /\ e[0] < e[1])
    BY <2>1
  <2>3. e[0] # e[1] /\ (IF e[1] > e[0] THEN 1 ELSE 0) = t
    BY <2>1, <2>2
  <2>4. Active' = t
    BY <2>3 DEF Active
  <2>5. HasActive' /\ ActiveSeq' = q
    BY <2>1, <2>2, <2>4 DEF HasActive, ActiveSeq
  <2> QED
    BY <2>3, <2>5 DEF q
<1>5. Target' = Dest
  BY <1>2, <1>4 DEF Target
<1>6. TypeOK'
  BY <1>1, <1>2 DEF TypeOK, States, SdSteps, OtaSteps, Done
<1>7. BootInv'
  BY <1>1, <1>5 DEF BootInv, Dest
<1>8. StreamInv'
  BY <1>1 DEF StreamInv, SdSteps, Dest, WriteEntry, OtaWriteEntry
<1>9. EntryInv'
  BY <1>1, <1>4 DEF EntryInv, Done
<1>10. SourceInv'
  BY <1>1 DEF SourceInv, SdSteps, WriteEntry, OtaWriteEntry
<1> QED
  BY <1>6, <1>7, <1>8, <1>9, <1>10

\* A restart, wanted or not, runs what otadata names.
LEMMA StartStep ==
  ASSUME IInv, Restart \/ PowerLoss
  PROVE  IInv'
<1> USE DEF IInv
<1>1. /\ UNCHANGED <<app, entry, file, chunk, next>>
      /\ running' = Target
      /\ recovery' \in BOOLEAN
      /\ hashed' = <<>> /\ offer' = NoOffer
      /\ wanted' = Junk /\ pinned' = FALSE
      /\ state' \in {"AWAY", "PICKING"}
  BY DEF Restart, PowerLoss, Start
<1>2. Target \in Partition /\ Target' = Target
  BY <1>1, TargetIsPartition DEF Target, HasActive, ActiveSeq, Active
<1>3. \E i \in Image : app[Target] = Whole(i)
  BY DEF BootInv, StreamInv, SdSteps, OtaSteps, Done
<1>4. TypeOK'
  <2>1. hashed' \in Seq(Source) /\ Len(hashed') <= Chunks
    BY <1>1
  <2>2. offer' \in Offers
    BY <1>1 DEF Offers, NoOffer
  <2>3. state' \in States /\ wanted' \in Source /\ pinned' \in BOOLEAN
    BY <1>1 DEF States, Menus, Source
  <2> QED
    BY <1>1, <1>2, <2>1, <2>2, <2>3 DEF TypeOK
<1>5. BootInv'
  BY <1>1, <1>2, <1>3 DEF BootInv, Done
<1>6. StreamInv'
  BY <1>1 DEF StreamInv, SdSteps, OtaSteps, Done
<1>7. EntryInv'
  BY <1>1 DEF EntryInv
<1>8. SourceInv'
  BY <1>1 DEF SourceInv, SdSteps
<1> QED
  BY <1>4, <1>5, <1>6, <1>7, <1>8

LEMMA StepInv == IInv /\ [Next]_firmwareVars => IInv'
<1> SUFFICES ASSUME IInv, [Next]_firmwareVars PROVE IInv'
  OBVIOUS
<1>1. CASE SdUpdate
  BY <1>1, ScreenStep, FlashStep, EraseEntryStep, WriteEntryStep DEF SdUpdate
<1>2. CASE OtaUpdate
  BY <1>2, ScreenStep, FlashStep, EraseEntryStep, WriteEntryStep DEF OtaUpdate
<1>3. CASE User
  BY <1>3, ScreenStep
<1>4. CASE Restart \/ PowerLoss
  BY <1>4, StartStep
<1>5. CASE UNCHANGED firmwareVars
  BY <1>5 DEF firmwareVars, otaVars, asking, IInv, TypeOK, BootInv, SourceInv, StreamInv,
         EntryInv, Target, HasActive, ActiveSeq, Active, TargetSlot, NewSeq, Dest
<1> QED
  BY <1>1, <1>2, <1>3, <1>4, <1>5 DEF Next

\* The inductive invariant holds for any images, chunks and number of updates.
THEOREM Invariance == Spec => []IInv
<1> QED
  BY InitInv, StepInv, PTL DEF Spec

\* The types hold.
THEOREM TypeCorrect == Spec => []TypeOK
<1>1. IInv => TypeOK
  BY DEF IInv
<1> QED
  BY <1>1, Invariance, PTL

\* The bootloader always finds a complete image: no interruption of an install,
\* at any flash operation, and no change of the card behind the prompt, leaves the
\* device without a firmware.
THEOREM AlwaysBoots == Spec => []BootsComplete
<1>1. IInv => BootsComplete
  BY DEF IInv, BootInv, StreamInv, BootsComplete, SdSteps, OtaSteps, Done
<1> QED
  BY <1>1, Invariance, PTL

\* An update that reports success is what the next boot starts: a complete image,
\* the one that was on the card and validated, or came over WiFi, and the very one
\* that the user was asked about as long as nobody has changed the card and the
\* manifest or the transport calls for a hash.
THEOREM UpdatesTakeEffect == Spec => []UpdateTakesEffect
<1>1. IInv => UpdateTakesEffect
  <2> SUFFICES ASSUME IInv, state \in Done
               PROVE  /\ Target = Dest
                      /\ \E i \in Image : app[Target] = Whole(i)
                      /\ pinned => app[Target] = Whole(wanted)
                      /\ state = "SUCCESS" => app[Target] = Whole(file)
    BY DEF UpdateTakesEffect
  <2>1. Target = Dest
    BY DEF IInv, BootInv
  <2>2. CASE state = "SUCCESS"
    BY <2>1, <2>2 DEF IInv, StreamInv, SourceInv, SdSteps
  <2>3. CASE state = "FINISHED"
    BY <2>1, <2>3 DEF IInv, StreamInv
  <2> QED
    BY <2>1, <2>2, <2>3 DEF Done
<1> QED
  BY <1>1, Invariance, PTL

(***************************************************************************)
(* The refinement: every step of an install is a step of an atomic update, *)
(* or does not change it.                                                  *)
(***************************************************************************)

\* The variables of the atomic update, in terms of the flash and the screens.
boot     == app[Target]
runs     == app[running]
asked    == Whole(wanted)
complete == state \in Done

\* The states in which an image is being, or has been, installed.
SdInstall  == {"ERASE", "WRITE", "SD_SWITCH", "SD_ENTRY", "SUCCESS"}
OtaInstall == {"OTA_SWITCH", "OTA_ENTRY", "FINISHED"}

\* No complete image is no image.
LEMMA WholeIsImage ==
  /\ \A i \in Image : Whole(i) # Whole(Junk)
  /\ \A i \in Image : Whole(i) \in {Whole(j) : j \in Image}
<1>1. \A c : Whole(c)[1] = c
  BY DEF Whole
<1> QED
  BY <1>1

\* What is being installed, by the state.
LEMMA UpdateOf ==
  /\ state \in SdInstall => Update = Whole(file)
  /\ state \in OtaInstall => Update = app[Dest]
  /\ state \notin SdInstall \union OtaInstall => Update = Whole(Junk)
BY DEF Update, SdSteps, SdInstall, OtaInstall

LEMMA UpdateOfNext ==
  /\ state' \in SdInstall => Update' = Whole(file')
  /\ state' \in OtaInstall => Update' = app'[Dest']
  /\ state' \notin SdInstall \union OtaInstall => Update' = Whole(Junk)
BY DEF Update, SdSteps, SdInstall, OtaInstall, Whole

\* What an update installs is an image.
LEMMA UpdateIsImage ==
  ASSUME IInv, state \in SdInstall \union OtaInstall
  PROVE  Update \in {Whole(i) : i \in Image} /\ Update # Whole(Junk)
<1>1. CASE state \in SdInstall
  <2>1. file \in Image
    BY <1>1 DEF IInv, StreamInv, SdSteps, SdInstall
  <2> QED
    BY <1>1, <2>1, UpdateOf, WholeIsImage
<1>2. CASE state \in OtaInstall
  <2>1. \E i \in Image : app[Dest] = Whole(i)
    BY <1>2 DEF IInv, StreamInv, OtaInstall
  <2> QED
    BY <1>2, <2>1, UpdateOf, WholeIsImage
<1> QED
  BY <1>1, <1>2

\* Neither the screens nor the flash operations before the last touch what runs
\* or what starts next: IInv places every erase and write in the other partition.
LEMMA BootStays ==
  ASSUME IInv, IInv', state \notin Done, state' \notin Done, running' = running,
         app'[running] = app[running]
  PROVE  boot' = boot /\ runs' = runs
BY DEF IInv, BootInv, boot, runs

\* A screen installs nothing: it may ask about an image, or the card is changed.
LEMMA UserRefines ==
  ASSUME IInv, IInv', User
  PROVE  Atomic!Next \/ UNCHANGED Atomic!updateVars
<1>1. /\ UNCHANGED <<app, running>>
      /\ state \in {"AWAY"} \union Menus \union {"VALIDATE"}
      /\ state' \in {"AWAY", "VALIDATE", "BEGIN"} \union Menus
  BY DEF User, OpenSd, CancelSd, BackOut, ConfirmSd, QuickAction, Pick, ChangeCard,
         OpenOta, ConfirmOta, Check, Show, Menus
<1>2. /\ boot' = boot /\ runs' = runs
      /\ ~complete /\ ~complete'
  <2>1. state \notin Done /\ state' \notin Done
    BY <1>1 DEF Done, Menus
  <2> QED
    BY <1>1, <2>1, BootStays DEF complete
<1>3. Update = Whole(Junk) /\ Update' = Whole(Junk)
  <2>1. /\ state \notin SdInstall \union OtaInstall
        /\ state' \notin SdInstall \union OtaInstall
    BY <1>1 DEF SdInstall, OtaInstall, Menus
  <2> QED
    BY <2>1, UpdateOf, UpdateOfNext
<1>4. CASE UNCHANGED asking
  <2>1. asked' = asked /\ pinned' = pinned
    BY <1>4 DEF asking, asked, Whole
  <2> QED
    BY <1>2, <1>3, <2>1 DEF Atomic!updateVars, boot, runs, asked, complete
<1>5. CASE \E i \in Image : wanted' = i /\ pinned' \in BOOLEAN
  <2>1. PICK i \in Image : wanted' = i /\ pinned' \in BOOLEAN
    BY <1>5
  <2>2. asked' = Whole(i) /\ Whole(i) \in {Whole(j) : j \in Image}
    BY <2>1, WholeIsImage DEF asked, Whole
  <2>3. Atomic!Ask(Whole(i))
    BY <1>2, <1>3, <2>1, <2>2 DEF Atomic!Ask, boot, runs, asked, complete
  <2> QED
    BY <2>2, <2>3 DEF Atomic!Next
<1>6. CASE wanted' = wanted /\ pinned' = FALSE
  <2>1. asked' = asked
    BY <1>6 DEF asked, Whole
  <2> QED
    BY <1>2, <1>3, <1>6, <2>1 DEF Atomic!Next, Atomic!Exchange, boot, runs, asked, complete
<1>7. CASE OpenSd \/ CancelSd \/ ConfirmSd \/ QuickAction \/ OpenOta \/ ConfirmOta
  BY <1>4, <1>7 DEF OpenSd, CancelSd, BackOut, ConfirmSd, QuickAction, OpenOta,
         ConfirmOta, Show
<1>8. CASE \E f \in Source : Pick(f)
  BY <1>4, <1>5, <1>8 DEF Pick
<1>9. CASE \E f \in Source : ChangeCard(f)
  BY <1>6, <1>9 DEF ChangeCard
<1>10. CASE \E i \in Image, o \in Offers : Check(i, o)
  <2>1. PICK i \in Image, o \in Offers : Check(i, o)
    BY <1>10
  <2>2. (o.sha \/ ~o.https) \in BOOLEAN
    OBVIOUS
  <2> QED
    BY <1>4, <1>5, <2>1, <2>2 DEF Check
<1> QED
  BY <1>7, <1>8, <1>9, <1>10 DEF User

\* The steps that decide what is installed, or that nothing is.
LEMMA VerdictRefines ==
  ASSUME IInv, IInv', Validate \/ DownloadEnds \/ EndOta \/ SdFails \/ OtaFails
  PROVE  Atomic!Next \/ UNCHANGED Atomic!updateVars
<1>1. /\ UNCHANGED <<app, running, file, wanted, pinned>>
      /\ state \in SdSteps \union OtaSteps
      /\ state' \in {"ERASE", "END", "OTA_SWITCH", "FAILED", "OTA_FAILED"}
  BY DEF Validate, DownloadEnds, EndOta, SdFails, OtaFails, Show, asking, SdSteps, OtaSteps
<1>2. /\ boot' = boot /\ runs' = runs /\ asked' = asked /\ pinned' = pinned
      /\ ~complete /\ ~complete'
  <2>1. state \notin Done /\ state' \notin Done
    BY <1>1 DEF Done, SdSteps, OtaSteps
  <2> QED
    BY <1>1, <2>1, BootStays DEF complete, asked, Whole
<1>3. ASSUME Update' = Update PROVE UNCHANGED Atomic!updateVars
  BY <1>2, <1>3 DEF Atomic!updateVars, boot, runs, asked, complete
<1>4. CASE Validate
  <2>1. /\ state = "VALIDATE" /\ state' = "ERASE" /\ file \in Image
        /\ pinned => file = wanted
    BY <1>4 DEF Validate, IInv, SourceInv, SdSteps
  <2>2. Update = Whole(Junk) /\ Update' = Whole(file)
    BY <1>1, <2>1, UpdateOf, UpdateOfNext DEF SdInstall, OtaInstall
  <2>3. Whole(file) \in {Whole(i) : i \in Image} /\ (pinned => Whole(file) = asked)
    BY <2>1, WholeIsImage DEF asked
  <2>4. Atomic!Begin(Whole(file))
    BY <1>2, <2>2, <2>3 DEF Atomic!Begin, boot, runs, asked, complete
  <2> QED
    BY <2>3, <2>4 DEF Atomic!Next
<1>5. CASE EndOta
  <2>1. /\ state = "END" /\ state' = "OTA_SWITCH" /\ Dest' = Dest
        /\ app[Dest] \in {Whole(i) : i \in Image}
    BY <1>1, <1>5 DEF EndOta, Show, Dest
  <2>2. Update = Whole(Junk) /\ Update' = app[Dest]
    BY <1>1, <2>1, UpdateOf, UpdateOfNext DEF SdInstall, OtaInstall
  <2>3. pinned => app[Dest] = asked
    BY <1>1, <2>1 DEF IInv, StreamInv, asked
  <2>4. Atomic!Begin(app[Dest])
    BY <1>2, <2>2, <2>3 DEF Atomic!Begin, boot, runs, asked, complete
  <2> QED
    BY <2>1, <2>4 DEF Atomic!Next
<1>6. CASE DownloadEnds \/ ((SdFails \/ OtaFails) /\ state \notin SdInstall \union OtaInstall)
  <2>1. /\ state \notin SdInstall \union OtaInstall
        /\ state' \notin SdInstall \union OtaInstall
    BY <1>6 DEF DownloadEnds, SdFails, OtaFails, Show, SdInstall, OtaInstall
  <2> QED
    BY <1>3, <2>1, UpdateOf, UpdateOfNext
<1>7. CASE (SdFails \/ OtaFails) /\ state \in SdInstall \union OtaInstall
  <2>1. state' \notin SdInstall \union OtaInstall
    BY <1>7 DEF SdFails, OtaFails, Show, SdInstall, OtaInstall
  <2>2. Update # Whole(Junk) /\ Update' = Whole(Junk)
    BY <1>7, <2>1, UpdateIsImage, UpdateOfNext
  <2> QED
    BY <1>2, <2>2 DEF Atomic!Next, Atomic!Fail, boot, runs, asked, complete
<1> QED
  BY <1>4, <1>5, <1>6, <1>7

\* The erases and writes but for the last one.
LEMMA FlashRefines ==
  ASSUME IInv, IInv',
         \/ EraseBlock \/ WriteChunk \/ BeginOta \/ EraseEntry \/ OtaEraseEntry
         \/ \E c \in Source : Download(c)
  PROVE  UNCHANGED Atomic!updateVars
<1>1. UNCHANGED <<running, file, wanted, pinned>>
  BY DEF EraseBlock, WriteChunk, BeginOta, Download, EraseEntry, OtaEraseEntry, Swap,
         asking
<1>2. ~complete /\ ~complete' /\ asked' = asked
  BY <1>1 DEF EraseBlock, WriteChunk, BeginOta, Download, EraseEntry, OtaEraseEntry, Swap,
         Done, complete, asked, Whole
<1>3. app'[running] = app[running]
  <2>1. running \in Partition /\ Dest # running
    BY DEF IInv, TypeOK, Partition, Dest
  <2> QED
    BY <2>1 DEF IInv, TypeOK, EraseBlock, WriteChunk, BeginOta, Download, EraseEntry,
         OtaEraseEntry, Swap
<1>4. boot' = boot /\ runs' = runs
  BY <1>1, <1>2, <1>3, BootStays DEF complete
<1>5. Update' = Update
  <2>1. CASE EraseBlock \/ WriteChunk \/ EraseEntry
    <3>1. state \in SdInstall /\ state' \in SdInstall
      BY <2>1 DEF EraseBlock, WriteChunk, EraseEntry, Swap, SdInstall
    <3> QED
      BY <1>1, <3>1, UpdateOf, UpdateOfNext DEF Whole
  <2>2. CASE OtaEraseEntry
    <3>1. state \in OtaInstall /\ state' \in OtaInstall /\ app' = app /\ Dest' = Dest
      BY <2>2 DEF OtaEraseEntry, Swap, OtaInstall, Dest
    <3> QED
      BY <3>1, UpdateOf, UpdateOfNext
  <2>3. CASE BeginOta \/ \E c \in Source : Download(c)
    <3>1. /\ state \notin SdInstall \union OtaInstall
          /\ state' \notin SdInstall \union OtaInstall
      BY <2>3 DEF BeginOta, Download, SdInstall, OtaInstall
    <3> QED
      BY <3>1, UpdateOf, UpdateOfNext
  <2> QED
    BY <2>1, <2>2, <2>3
<1> QED
  BY <1>1, <1>2, <1>4, <1>5 DEF Atomic!updateVars, boot, runs, asked, complete

\* The last one.
LEMMA CommitRefines ==
  ASSUME IInv, IInv', WriteEntry \/ OtaWriteEntry
  PROVE  Atomic!Commit
<1>1. UNCHANGED <<app, running, file, wanted, pinned>>
  BY DEF WriteEntry, OtaWriteEntry, asking
<1>2. /\ ~complete /\ complete' /\ asked' = asked /\ Dest' = Dest
      /\ state \in SdInstall \union OtaInstall
  BY <1>1 DEF WriteEntry, OtaWriteEntry, Done, complete, asked, Whole, Dest, SdInstall,
         OtaInstall
<1>3. Update' = Update /\ Update \in {Whole(i) : i \in Image}
  <2>1. CASE WriteEntry
    BY <2>1, <1>1, <1>2, UpdateOf, UpdateOfNext, UpdateIsImage
       DEF WriteEntry, SdInstall, Whole
  <2>2. CASE OtaWriteEntry
    BY <2>2, <1>1, <1>2, UpdateOf, UpdateOfNext, UpdateIsImage
       DEF OtaWriteEntry, OtaInstall
  <2> QED
    BY <2>1, <2>2
<1>4. boot' = Update /\ runs' = runs
  <2>1. Target' = Dest'
    BY <1>2 DEF IInv, BootInv, complete
  <2>2. app'[Dest'] = Update'
    <3>1. CASE WriteEntry
      BY <3>1, UpdateOfNext DEF WriteEntry, SdInstall, IInv, StreamInv
    <3>2. CASE OtaWriteEntry
      BY <3>2, UpdateOfNext DEF OtaWriteEntry, OtaInstall
    <3> QED
      BY <3>1, <3>2
  <2> QED
    BY <1>1, <1>3, <2>1, <2>2 DEF boot, runs
<1> QED
  BY <1>1, <1>2, <1>3, <1>4 DEF Atomic!Commit, boot, runs, asked, complete

LEMMA StartRefines ==
  ASSUME IInv, IInv', Restart \/ PowerLoss
  PROVE  Atomic!Restart
<1>1. /\ UNCHANGED <<app, entry>>
      /\ running' = Target
      /\ state' \in {"AWAY", "PICKING"}
      /\ wanted' = Junk /\ pinned' = FALSE
  BY DEF Restart, PowerLoss, Start
<1>2. Target' = Target /\ asked' = Whole(Junk)
  BY <1>1 DEF Target, HasActive, ActiveSeq, Active, asked, Whole
<1>3. Update' = Whole(Junk) /\ ~complete'
  BY <1>1, UpdateOfNext DEF SdInstall, OtaInstall, Done, complete
<1> QED
  BY <1>1, <1>2, <1>3 DEF Atomic!Restart, boot, runs, asked, complete

LEMMA StepRefines ==
  ASSUME IInv, IInv', [Next]_firmwareVars
  PROVE  [Atomic!Next]_Atomic!updateVars
<1>1. CASE SdUpdate
  BY <1>1, VerdictRefines, FlashRefines, CommitRefines DEF SdUpdate, Atomic!Next
<1>2. CASE OtaUpdate
  BY <1>2, VerdictRefines, FlashRefines, CommitRefines DEF OtaUpdate, Atomic!Next
<1>3. CASE User
  BY <1>3, UserRefines
<1>4. CASE Restart \/ PowerLoss
  BY <1>4, StartRefines DEF Atomic!Next
<1>5. CASE UNCHANGED firmwareVars
  BY <1>5 DEF firmwareVars, asking, Atomic!updateVars, Update, Target, HasActive, ActiveSeq,
         Active, Dest, Whole
<1> QED
  BY <1>1, <1>2, <1>3, <1>4, <1>5 DEF Next

LEMMA InitRefines == Init => Atomic!Init
<1> SUFFICES ASSUME Init PROVE Atomic!Init
  OBVIOUS
<1>1. boot \in {Whole(i) : i \in Image} /\ runs = boot
  BY DEF Init, boot, runs
<1>2. Update = Whole(Junk) /\ ~complete /\ asked = Whole(Junk) /\ pinned = FALSE
  BY UpdateOf DEF Init, complete, SdInstall, OtaInstall, Done, asked
<1> QED
  BY <1>1, <1>2 DEF Atomic!Init, boot, runs, asked, complete

\* Installing a firmware, from the card or over WiFi, is atomic: the write of one
\* otadata entry is the update, whatever fails or is cut short before or after; and
\* an update begins with the image that the user was asked about, unless the card
\* has been changed or the server may send what it likes.
THEOREM UpdateIsAtomic == Spec => ImplementsAtomicUpdate
<1>1. Init => Atomic!Init
  BY InitRefines
<1>2. IInv /\ IInv' /\ [Next]_firmwareVars => [Atomic!Next]_Atomic!updateVars
  BY StepRefines
<1> QED
  BY <1>1, <1>2, Invariance, PTL DEF Spec, ImplementsAtomicUpdate, Atomic!Spec
=============================================================================
