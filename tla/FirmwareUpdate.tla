--------------------------- MODULE FirmwareUpdate ----------------------------
(***************************************************************************)
(* Installing a firmware, from a .bin file on the SD card                  *)
(* (src/src/activities/settings/SdFirmwareUpdateActivity.cpp,              *)
(* src/src/network/FirmwareFlasher.cpp, src/src/network/OtaBootSwitch.cpp) *)
(* or over WiFi (src/src/activities/settings/OtaUpdateActivity.cpp,        *)
(* src/src/network/OtaUpdater.cpp).                                        *)
(*                                                                         *)
(* The flash has two app partitions and two otadata entries; the entry     *)
(* with the highest sequence number names the partition that the           *)
(* bootloader starts.  Every erase and every write of the flash is a step, *)
(* before and after which the power may be lost.  An image is a number of  *)
(* chunks; Junk stands for the bytes of no image: erased, cut short, or    *)
(* corrupt.  An otadata entry without a valid CRC is 0.                    *)
(***************************************************************************)
EXTENDS Naturals, Sequences

CONSTANTS
    Image,      \* the complete firmware images there are
    Junk,       \* bytes of no image
    Chunks,     \* the number of chunks of an image
    MaxSeq      \* bound: no update starts once otadata has counted this far

ASSUME FirmwareAssumption ==
    /\ Junk \notin Image
    /\ Chunks \in Nat \ {0}
    /\ MaxSeq \in Nat

VARIABLES
    app,        \* the contents of the app partitions
    entry,      \* the sequence numbers of the otadata entries
    running,    \* the partition this firmware was started from
    file,       \* the .bin file at firmwarePath
    state,      \* the screen, and where its update is
    chunk,      \* streamPos of the flasher
    offer,      \* whether otaUrl is HTTPS, and whether there is an otaSha256
    hashed,     \* what the updater has received, written and fed to shaCtx
    next,       \* targetSlot and newSeq of switchTo()
    recovery,   \* recoveryMode: the device was started into the SD update
    wanted,     \* history: the image that the user is, or was, asked about
    pinned      \* history: nothing else may be installed

otaVars      == <<offer, hashed>>
asking       == <<wanted, pinned>>
firmwareVars ==
    <<app, entry, running, file, state, chunk, otaVars, next, recovery, asking>>

Partition == {0, 1}
Source    == Image \union {Junk}
Contents  == [1..Chunks -> Source]
Whole(i)  == [k \in 1..Chunks |-> i]
Offers    == [https : BOOLEAN, sha : BOOLEAN]
NoOffer   == [https |-> TRUE, sha |-> FALSE]

Menus    == {"PICKING", "CONFIRMING", "FAILED", "CHECKING", "WAITING", "NO_UPDATE",
             "OTA_FAILED"}
SdSteps  == {"VALIDATE", "ERASE", "WRITE", "SD_SWITCH", "SD_ENTRY"}
OtaSteps == {"BEGIN", "DOWNLOAD", "END", "OTA_SWITCH", "OTA_ENTRY"}
Done     == {"SUCCESS", "FINISHED"}
States   == {"AWAY"} \union Menus \union SdSteps \union OtaSteps \union Done

(***************************************************************************)
(* otadata                                                                 *)
(***************************************************************************)

\* The entry that switchTo() and the bootloader take for the active one.
HasActive == entry[0] # 0 \/ entry[1] # 0
Active    == IF entry[1] > entry[0] THEN 1 ELSE 0
ActiveSeq == entry[Active]

\* The partition that the bootloader starts; ota_0 when no entry is valid.
Target == IF HasActive THEN (ActiveSeq - 1) % 2 ELSE 0

\* esp_ota_get_next_update_partition(nullptr).
Dest == 1 - running

\* Fault of switchTo(): the entry that is the active one.
ActiveEntry == Active

\* The least number above the active one that names the destination, and the
\* entry that is not the active one.
NewSeq == CHOOSE n \in {ActiveSeq + 1, ActiveSeq + 2} : (n - 1) % 2 = Dest
TargetSlot == IF HasActive /\ Active = 0 THEN 1 ELSE 0

Init ==
    /\ entry \in [{0, 1} -> 0..2]
    /\ entry[0] = entry[1] => entry[0] = 0
    /\ running = Target
    /\ app \in [Partition -> {Whole(c) : c \in Source}]
    /\ app[running] \in {Whole(i) : i \in Image}
    /\ file \in Source
    /\ state = "AWAY"
    /\ chunk = 1
    /\ offer = NoOffer
    /\ hashed = <<>>
    /\ next = [slot |-> 0, seq |-> 0]
    /\ recovery = FALSE
    /\ wanted = Junk
    /\ pinned = FALSE

Show(s) ==
    /\ state' = s
    /\ UNCHANGED <<app, entry, running, file, chunk, otaVars, next, recovery, asking>>

(***************************************************************************)
(* The SD card screen                                                      *)
(***************************************************************************)

OpenSd ==
    /\ state = "AWAY"
    /\ ActiveSeq < MaxSeq
    /\ state' = "PICKING"
    /\ recovery' = FALSE
    /\ UNCHANGED <<app, entry, running, file, chunk, otaVars, next, asking>>

\* finish(), which a recovery replaces by the picker.
BackOut == Show(IF recovery THEN "PICKING" ELSE "AWAY")

\* onPickerResult(): the file is validated before the user is asked about it;
\* opening and reading it may fail.
Pick(f) ==
    /\ state = "PICKING"
    /\ file' = f
    /\ \/ f \in Image /\ state' = "CONFIRMING" /\ wanted' = f /\ pinned' = TRUE
       \/ state' = "FAILED" /\ UNCHANGED asking
    /\ UNCHANGED <<app, entry, running, chunk, otaVars, next, recovery>>

\* onPickerResult(), onConfirmationResult() with isCancelled, loop() when FAILED.
CancelSd ==
    /\ state \in {"PICKING", "CONFIRMING", "FAILED"}
    /\ BackOut

\* The card is removable: while a screen waits, and until the flasher opens the
\* file, it may become another one.  A card that is removed later fails a read.
ChangeCard(f) ==
    /\ state \in {"PICKING", "CONFIRMING", "FAILED", "VALIDATE"}
    /\ file' = f
    /\ pinned' = FALSE
    /\ UNCHANGED <<app, entry, running, state, chunk, otaVars, next, recovery, wanted>>

\* onConfirmationResult(): performUpdate() calls flashFromSdPath().
ConfirmSd ==
    /\ state = "CONFIRMING"
    /\ Show("VALIDATE")

(***************************************************************************)
(* flashFromSdPath()                                                       *)
(***************************************************************************)

\* Fault: the flasher trusts the validation that preceded the prompt.
TrustPrompt ==
    /\ state = "VALIDATE"
    /\ state' = "ERASE"
    /\ chunk' = 1
    /\ UNCHANGED <<app, entry, running, file, otaVars, next, recovery, asking>>

\* validateImageFile() once more, and the file is opened to be streamed.
Validate ==
    /\ state = "VALIDATE"
    /\ file \in Image
    /\ state' = "ERASE"
    /\ chunk' = 1
    /\ UNCHANGED <<app, entry, running, file, otaVars, next, recovery, asking>>

EraseBlock ==
    /\ state = "ERASE"
    /\ app' = [app EXCEPT ![Dest][chunk] = Junk]
    /\ state' = "WRITE"
    /\ UNCHANGED <<entry, running, file, chunk, otaVars, next, recovery, asking>>

\* Fault: one chunk too many.
WritePastEnd ==
    /\ state = "WRITE"
    /\ app' = [app EXCEPT ![Dest][chunk] = file]
    /\ IF chunk > Chunks
       THEN state' = "SD_SWITCH" /\ UNCHANGED chunk
       ELSE state' = "ERASE" /\ chunk' = chunk + 1
    /\ UNCHANGED <<entry, running, file, otaVars, next, recovery, asking>>

WriteChunk ==
    /\ state = "WRITE"
    /\ app' = [app EXCEPT ![Dest][chunk] = file]
    /\ IF chunk = Chunks
       THEN state' = "SD_SWITCH" /\ UNCHANGED chunk
       ELSE state' = "ERASE" /\ chunk' = chunk + 1
    /\ UNCHANGED <<entry, running, file, otaVars, next, recovery, asking>>

\* A call fails: validation, an erase, a read (the card is gone), a write, or
\* one of switchTo()'s.
SdFails ==
    /\ state \in SdSteps
    /\ Show("FAILED")

(***************************************************************************)
(* switchTo(), and what esp_ota_set_boot_partition() does                  *)
(***************************************************************************)

Swap(target, seq, s) ==
    /\ next' = [slot |-> target, seq |-> seq]
    /\ entry' = [entry EXCEPT ![target] = 0]
    /\ state' = s
    /\ UNCHANGED <<app, running, file, chunk, otaVars, recovery, asking>>

\* The other entry is erased ...
EraseEntry ==
    /\ state = "SD_SWITCH"
    /\ Swap(TargetSlot, NewSeq, "SD_ENTRY")

\* ... and written.
WriteEntry ==
    /\ state = "SD_ENTRY"
    /\ entry' = [entry EXCEPT ![next.slot] = next.seq]
    /\ state' = "SUCCESS"
    /\ UNCHANGED <<app, running, file, chunk, otaVars, next, recovery, asking>>

OtaEraseEntry ==
    /\ state = "OTA_SWITCH"
    /\ Swap(TargetSlot, NewSeq, "OTA_ENTRY")

OtaWriteEntry ==
    /\ state = "OTA_ENTRY"
    /\ entry' = [entry EXCEPT ![next.slot] = next.seq]
    /\ state' = "FINISHED"
    /\ UNCHANGED <<app, running, file, chunk, otaVars, next, recovery, asking>>

(***************************************************************************)
(* The OTA screen and installUpdate()                                      *)
(***************************************************************************)

OpenOta ==
    /\ state = "AWAY"
    /\ ActiveSeq < MaxSeq
    /\ state' = "CHECKING"
    /\ recovery' = FALSE
    /\ UNCHANGED <<app, entry, running, file, chunk, otaVars, next, asking>>

\* onWifiSelectionComplete(): the manifest offers image i, or nothing newer, or
\* the check fails.  What is installed over HTTPS without a hash is up to the
\* server.
Check(i, o) ==
    /\ state = "CHECKING"
    /\ \/ state' = "WAITING" /\ wanted' = i /\ offer' = o /\ pinned' = (o.sha \/ ~o.https)
       \/ state' \in {"NO_UPDATE", "OTA_FAILED"} /\ UNCHANGED <<asking, offer>>
    /\ UNCHANGED <<app, entry, running, file, chunk, hashed, next, recovery>>

\* Fault: what comes over plain HTTP is not asked for a hash.
ConfirmOtaUnhashed ==
    /\ state = "WAITING"
    /\ Show("BEGIN")

\* Plain HTTP is refused unless the manifest has a hash.
ConfirmOta ==
    /\ state = "WAITING"
    /\ Show(IF offer.https \/ offer.sha THEN "BEGIN" ELSE "OTA_FAILED")

\* esp_ota_begin() erases the destination, before the download.
BeginOta ==
    /\ state = "BEGIN"
    /\ app' = [app EXCEPT ![Dest] = Whole(Junk)]
    /\ hashed' = <<>>
    /\ state' = "DOWNLOAD"
    /\ UNCHANGED <<entry, running, file, chunk, offer, next, recovery, asking>>

\* esp_ota_write() of what the server sends, and its hash.
Download(c) ==
    /\ state = "DOWNLOAD"
    /\ app' = [app EXCEPT ![Dest][Len(hashed) + 1] = c]
    /\ hashed' = Append(hashed, c)
    /\ state' = IF Len(hashed) + 1 = Chunks THEN "END" ELSE state
    /\ UNCHANGED <<entry, running, file, chunk, offer, next, recovery, asking>>

\* The server has sent all it has, which is less.
DownloadEnds ==
    /\ state = "DOWNLOAD"
    /\ Show("END")

\* The SHA-256 of the manifest, if it has one, and esp_ota_end(), which verifies
\* the image in the partition.
EndOta ==
    /\ state = "END"
    /\ offer.sha => hashed = Whole(wanted)
    /\ app[Dest] \in {Whole(i) : i \in Image}
    /\ Show("OTA_SWITCH")

\* The download is cancelled, ends early, stalls or fails, the image is refused,
\* or a call of the OTA API fails.
OtaFails ==
    /\ state \in OtaSteps
    /\ Show("OTA_FAILED")

(***************************************************************************)
(* Restarts                                                                *)
(***************************************************************************)

\* The device starts; holding UP with the power button enters the recovery.
Start(rec) ==
    /\ running' = Target
    /\ recovery' = rec
    /\ state' = IF rec THEN "PICKING" ELSE "AWAY"
    /\ offer' = NoOffer
    /\ hashed' = <<>>
    /\ wanted' = Junk
    /\ pinned' = FALSE
    /\ UNCHANGED <<app, entry, file, chunk, next>>

\* ESP.restart() after an install; leaving the OTA screen restarts too, since
\* onExit() finds the radio on.
Restart ==
    /\ state \in Done \union {"CHECKING", "WAITING", "NO_UPDATE", "OTA_FAILED"}
    /\ Start(FALSE)

PowerLoss ==
    \E rec \in BOOLEAN :
        /\ rec => ActiveSeq < MaxSeq
        /\ Start(rec)

\* A power-button or long-press action replaces a screen that waits, the
\* recovery too: handleGlobalPowerButtonAction(),
\* handleGlobalBackConfirmQuickAction().
QuickAction ==
    /\ state \in {"PICKING", "CONFIRMING", "FAILED"}
    /\ Show("AWAY")

SdUpdate  == Validate \/ EraseBlock \/ WriteChunk \/ EraseEntry \/ WriteEntry \/ SdFails
OtaUpdate == \/ BeginOta \/ DownloadEnds \/ EndOta \/ OtaEraseEntry \/ OtaWriteEntry
             \/ OtaFails
             \/ \E c \in Source : Download(c)
User ==
    \/ OpenSd \/ CancelSd \/ ConfirmSd \/ QuickAction
    \/ \E f \in Source : Pick(f) \/ ChangeCard(f)
    \/ OpenOta \/ ConfirmOta
    \/ \E i \in Image, o \in Offers : Check(i, o)

Next == SdUpdate \/ OtaUpdate \/ User \/ Restart \/ PowerLoss
Spec == Init /\ [][Next]_firmwareVars

(***************************************************************************)
(* Properties                                                              *)
(***************************************************************************)

\* Every variable keeps its type; the partition that runs is never the one that
\* an update writes.
TypeOK ==
    /\ app \in [Partition -> Contents]
    /\ entry \in [{0, 1} -> Nat]
    /\ running \in Partition
    /\ file \in Source
    /\ state \in States
    /\ chunk \in 1..Chunks
    /\ offer \in Offers
    /\ hashed \in Seq(Source)
    /\ Len(hashed) <= Chunks
    /\ next \in [slot : {0, 1}, seq : Nat]
    /\ recovery \in BOOLEAN
    /\ wanted \in Source
    /\ pinned \in BOOLEAN

\* Whenever the power is lost, the bootloader finds a complete image where
\* otadata sends it: "a truncated/corrupted .bin can never become the next boot
\* target" (FirmwareFlasher.cpp:232), also when the card was changed while the
\* prompt was on the screen, and in the middle of an erase or a write.
BootsComplete == \E i \in Image : app[Target] = Whole(i)

\* When the screen says that the update is complete, the restart that follows
\* starts a complete image, whichever partition runs and whatever the otadata
\* entries are, blank ones included: the one that the user was asked about, unless
\* the card was changed since or HTTPS was trusted without a hash; from the card,
\* the one that is on it now and has been validated anew.
UpdateTakesEffect ==
    state \in Done =>
        /\ Target = Dest
        /\ \E i \in Image : app[Target] = Whole(i)
        /\ pinned => app[Target] = Whole(wanted)
        /\ state = "SUCCESS" => app[Target] = Whole(file)

\* Nothing but a completed update changes what the next boot starts: a failed or
\* interrupted one leaves the device on the firmware it runs, which no step has
\* touched.
BootInv ==
    /\ Target = IF state \in Done THEN Dest ELSE running
    /\ \E i \in Image : app[running] = Whole(i)

\* The card has the image that was picked as long as nobody has changed it, and a
\* download that may only be the image asked about will be held against its hash.
SourceInv ==
    /\ state \in {"CONFIRMING"} \union SdSteps \union {"SUCCESS"} /\ pinned =>
           file = wanted
    /\ state = "WAITING" => pinned = (offer.sha \/ ~offer.https)
    /\ state \in {"BEGIN", "DOWNLOAD", "END"} /\ pinned => offer.sha

\* What has been streamed is in the partition, in order and without a gap.
StreamInv ==
    /\ state \in (SdSteps \ {"VALIDATE"}) \union {"SUCCESS"} => file \in Image
    /\ state \in {"ERASE", "WRITE"} => \A k \in 1..(chunk - 1) : app[Dest][k] = file
    /\ state \in {"SD_SWITCH", "SD_ENTRY", "SUCCESS"} => app[Dest] = Whole(file)
    /\ state \in {"DOWNLOAD", "END"} =>
           \A k \in 1..Len(hashed) : app[Dest][k] = hashed[k]
    /\ state = "DOWNLOAD" => Len(hashed) < Chunks
    /\ state \in {"OTA_SWITCH", "OTA_ENTRY", "FINISHED"} =>
           /\ \E i \in Image : app[Dest] = Whole(i)
           /\ pinned => app[Dest] = Whole(wanted)

\* Between the two flash operations of switchTo() the active entry stands.
EntryInv ==
    /\ entry[0] = entry[1] => entry[0] = 0
    /\ state \in {"SD_ENTRY", "OTA_ENTRY"} =>
           /\ next = [slot |-> TargetSlot, seq |-> NewSeq]
           /\ entry[TargetSlot] = 0

\* The inductive invariant.
IInv == TypeOK /\ BootInv /\ SourceInv /\ StreamInv /\ EntryInv

(***************************************************************************)
(* What it implements: of all the erases and writes of the flash, one is   *)
(* the update, the write of the otadata entry.                             *)
(***************************************************************************)
\* The image being installed: a download becomes one when it has been verified.
Update ==
    IF state \in (SdSteps \ {"VALIDATE"}) \union {"SUCCESS"} THEN Whole(file)
    ELSE IF state \in {"OTA_SWITCH", "OTA_ENTRY", "FINISHED"} THEN app[Dest]
    ELSE Whole(Junk)

Atomic == INSTANCE AtomicUpdate WITH
    Image    <- {Whole(i) : i \in Image},
    None     <- Whole(Junk),
    boot     <- app[Target],
    runs     <- app[running],
    asked    <- Whole(wanted),
    sure     <- pinned,
    update   <- Update,
    complete <- state \in Done

\* What the next boot starts changes in one step, from one complete image to
\* another, which is the one that the user was asked about unless the source has
\* been exchanged, and only if every step of the install before has succeeded;
\* what runs never changes but by a restart.
ImplementsAtomicUpdate == Atomic!Spec
=============================================================================
