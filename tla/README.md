# CrossPlant in TLA+

CrossPlant is the firmware of an e-ink reader (ESP32, FreeRTOS, an SD card) in
which the reading makes plants grow.  This directory holds TLA+ modules of the
parts of it whose correctness depends on an order of events: what two tasks do
to the screens, what an interrupted save leaves on the card, who holds which
copy of the reading statistics, how the plants hear of a page, what two readers
tell each other over the air, and what a lost power supply leaves of a firmware
update.  TLC checks the modules on small instances; TLAPS proves every safety
property the passing runs check, and that three of the modules implement abstract
specifications, for every value of the constants.

Paths are those of the repository with `src/` in front, so that the firmware's
own `src/main.cpp` is `src/src/main.cpp`.

## 1. The system

| Part | State | Operations | What is hard |
|---|---|---|---|
| Screen manager (`activities/ActivityManager`, `Activity`) | current activity, stack, pending action, result handlers, render notification, rendering mutex, waiter | push, pop, replace, deferred and immediate repaint, wait for a repaint | two tasks, a mutex, two notifications, a flag; code of activities runs between any two steps |
| Boot, main loop, sleep (`main.cpp`) | RTC memory, `allowSleepAt`, latches, `deepSleepInProgress` | boot routing, global actions, auto sleep | a nested `loop()`, a wait inside `setup()`, restarts |
| All-time statistics (`GlobalReadingStats`) | file, backup, temporary file, `s_blockDestructiveSave` | load, save, reset, aggregation | power loss and failing storage calls inside a save; reads that fail; files of newer formats |
| Users of the statistics (readers, statistics screen, book actions, nearby sync, settings) | a copy each, from a load to a save | count a page, complete a book, edit dates | stale copies; the order of `onExit()` calls and result handlers |
| Plants (`pet/`) | farm and plots in RAM, `state.json` | sync with the statistics, page turned, tick, hatch, buy, reset | two channels for one page; a file without a backup; a clock that may not be set |
| Plant care (`pet/PetActions`, `PetDecayEngine`, `PetEvolution`, `PetCareTracker`) | vitals of a plant, Dew, quests | water, feed, treat, decay by the hour, evolve | saturating 8-bit arithmetic; day boundaries |
| Readers (EPUB, XTC, TXT) | position, page cache, session clock | turn pages, bookmarks, progress | drawing and indexing on the render task |
| Statistics of a book, streaks, backups | one file per book, backups on the card | load, save, restore | dates; number of backups |
| Nearby stats sync (`NearbyStatsSyncActivity`) | an event queue, the peer and three flags, a file for each other reader and its `.part` | discover, send, receive and save, acknowledge, repeat | lost packets, a queue that overflows, a screen left or a power supply lost in the middle |
| Nearby position sync (`NearbyBookPositionSyncActivity`) | an event queue, source or receiver, the place received | share, offer, apply, acknowledge | the same; a panel that is painted later than the place is received |
| Web server, WebDAV, OPDS, WiFi, KOReader sync | connections, uploads | requests | partial uploads |
| USB serial transfer | a framed session | put, get, list | resynchronisation after errors |
| Firmware update (`SdFirmwareUpdateActivity`, `OtaUpdateActivity`, `FirmwareFlasher`, `OtaUpdater`, `OtaBootSwitch`) | two app partitions, two otadata entries, the recovery boot | pick or download, validate, erase, write, switch, restart | a power loss at any erase or write; a card that changes after the validation |
| Stores (settings, recents, WiFi, bookmarks, clippings, file index) | one file each | load, save | written whole, without a backup |
| Input (`MappedInputManager`, `ButtonNavigator`) | latches, swallowed releases | press, hold, release | a release that belongs to an earlier screen |
| HAL and SDK libraries | power locks, storage mutex | | external to the models |
| EPUB engine, fonts, images, themes, translations | | | sequential, vendored or generated |

Interactions.  `main.cpp` calls the screen manager once per pass; the manager
calls `loop()`, `onEnter()`, `onExit()` and the result handlers of activities on
the main task, and `render()` on the render task.  Readers and screens load and
save the statistics file directly.  The plants are one object in RAM that
readers, screens and themes call; they read the statistics through a copy the
caller gives them.

What makes each part correct:

* screens: what is painted is alive and current; a request to repaint is not
  lost; a result goes to whoever asked for it; no task waits for itself;
* statistics file: an interrupted save loses nothing; a file that this firmware
  reads and does not understand is not destroyed;
* users of the file: no page and no edit is lost or counted twice between two
  copies;
* plants: they grow by the reading since they were hatched, once per page;
* nearby sync: a screen that reports a sync of statistics tells the truth about both
  readers, and one that reports a shared place does unless somebody presses Select
  late; nothing is offered that its owner has not shared;
* firmware update: whatever is interrupted, the next boot finds a complete image,
  and after an update that completed it is the one the user was asked about, as long
  as the card stays the same and a download can be held against a hash.

## 2. Modules

| Module | Models | Runs | Proofs |
|---|---|---|---|
| `ActivityManager` | screen manager, with `setup()`, `loop()` and deep sleep of `main.cpp` as its callers | `activity_*` | `ActivityManagerProofs` |
| `StatsFile` | the statistics file | `stats_file` | `StatsFileProofs` |
| `ReadingSession` | the readers, screens and actions over an INSTANCE of `StatsFile` | `session*` | `ReadingSessionProofs` |
| `PetFarm` | the plants' growth and their file, with the readers and the plant screen as callers | `pet_*` | `PetFarmProofs` |
| `NearbyStats` | the exchange of statistics between readers, with their files | `nearby_stats`, `nearby_calm` | `NearbyStatsProofs` |
| `NearbyPosition` | the sharing of a place in a book between readers | `nearby_position`, `nearby_shown` | `NearbyPositionProofs` |
| `FirmwareUpdate` | the update from the card or over WiFi, with the bootloader's choice | `firmware` | `FirmwareUpdateProofs` |

Three short modules say what a component promises to the code around it, without
saying how.  The component's module has an `INSTANCE ... WITH` of it, a run checks
that it is implemented and a proof shows it for all constants:

| Module | Promises | Implemented by | Property |
|---|---|---|---|
| `ScreenStack` | a stack of screens: it changes by one push, pop or replacement, the last that was asked for, and never while its top is painted | `ActivityManager` | `ImplementsScreenStack` |
| `StatsRegister` | one value: a save that completes replaces it and one cut short keeps it, until two in a row are cut short | `StatsFile` | `ImplementsRegister` |
| `AtomicUpdate` | a complete image runs and a complete image boots next; an update replaces it in one step or not at all | `FirmwareUpdate` | `ImplementsAtomicUpdate` |

In each mapping one argument makes it say more than it seems to.  `asked` in
`ScreenStack` is `<<action, pending>>`, so that a launch has to be of the activity
and of the kind asked for.  `older` in `StatsRegister` lets a reset, which removes
the file before it writes, bring an older value back; a save may not.  `asked`
in `AtomicUpdate` is the image that the user was asked about, and an update may only
begin with another one when the source is not `sure`: the card has been changed
behind the prompt (`Exchange`), since the flasher validates the file again but does
not compare it with the one that was picked; or the image comes over HTTPS without a
hash in the manifest, since `installUpdate()` then takes what the server sends.  What
it begins with is a complete image in each case.

An `MC` module extends each of the seven with what TLC needs: sets of model values, a
symmetry set, or a view.  Definitions commented as faults (`EnqueueOneMore`,
`HandleStatsByCopy`, `...Unguarded` and so on) are wrong variants of the
definition below them.  `PROJECT.json` names for every property the variant that
TLC finds to violate it.

### ActivityManager

The main task is a program counter `mainPc`; `ret` is where the code of an
activity returns to.  `code` is the code of an activity, wherever it is called
from: its own `loop()`, its `onEnter()`, a result handler.  Since any activity
may be running, that code may do any sequence of the calls of `Activity.h`, at
most `MaxCalls` in one pass.  `drain`, `pop`, `launch`, `queue`, `home`, `tail`
and `flush` are the places of `ActivityManager::loop()` between which the
other task can act; `notify` and `blocked` are those of
`requestUpdateAndWait()`.  `setup`, `route`, `paint` and `outer` belong to
`main.cpp`.  The render task is `renderPc`, from the notification it takes to
the release of the mutex.

`handler[a]` is the child whose result the handler of `a` expects, which is
what makes `ResultForLauncher` a statement about the code and not about a
boolean.  `unpainted` is a history variable: the activities that were changed
under the lock and not painted since.  A member of `Act` that nothing owns may be
allocated again, as a heap address may; when none is left the firmware's
`make_unique` aborts and the device resets (`HeapExhausted`).

A notification is a boolean: `ulTaskNotifyTake(pdTRUE, ...)` sets the count to
zero, so counts of one and of two have the same effect.

### StatsFile

`saveToFile()` is one action per call of the storage layer, each of which may
fail; `PowerLoss` may come between any two and in the middle of the write.
Renaming and removing are atomic.  `allowed` is a history variable: the values
`load()` may give after an interruption.  `strikes` counts the saves cut short
since the last that completed.

Each file that `load()` reads may fail to open or be read short, and is then as good
as a torn one (`Reads`, `Load(p, b)`).  That takes nothing from the files by itself;
but a file of a newer format that could not be read has not been seen, so
`s_blockDestructiveSave` stays as it is and the next save rotates that file away.
`missed` is the history of it, and `NewerFormatKept` is about the files that `load()`
could read, or did not have to.  `Storage.exists()`, by which a save decides what to
remove and rotate, is taken to tell the truth.

### ReadingSession

Over `StatsFile` with records of page turns and completed books as `Stats`.
One reader at a time may be open, with the statistics screen on top of it;
`live` is the reader's copy and `copy` the screen's.  Closing the screen by
Back (`FinishStats`) runs the reader's result handler; replacing both
(`ReplaceStats`: sleep, a quick action) runs the two `onExit()` from the top
down instead.  `counted` and `chosen` are the history: the turns the user made
and what the user last decided about the book.

Two more histories say where the storage has let the session down.
`BookReadingStats::save()` returns nothing and may leave the file of the book as it
was or torn, and its `load()` may find a book never read (`SaveBook`, `OpenBook`,
`Popping`); `lost` is that this has happened since the last write that did succeed.
`EditsAreImported` is about the sessions without it: `applyBookStatsEditsFromDisk()`
reads back whatever is in that file.  `misread` is that `load()` could not read the
all-time files when it gave the statistics in use; what is counted on top of those is
kept (`EpubKeepsTurns`), but saving them takes away what was not read, so that
`NoSaveLosesTurns` is about the others.

### PetFarm

`Sync`, `PageTurned`, `Load` and `Tick` are the functions of `PetManager` as
operators on the farm; the actions are the calls that readers, themes and the
plant screen make, in their order.  A save empties the file first (`saving`)
and writes it afterwards (`WriteFile`), as `SDCardManager::writeFile()` does.
The vitals are left open: in a tick a plant stays well, falls sick or dies.
`known` is `lastKnownPagesTurned`; of `lastKnownReadSeconds` only whether it is
0 matters.  `base`, `ever` and `text` are history: page turns up to now, by
which the pages of a plant are judged.  `inOrder` is history, too: no plant was
hatched while the clock was not set, and the farm was loaded when pages were
turned.

### NearbyStats

One activity for each reader, and one inbox: `events_` with its overflow flag.
The task of the radio puts a packet into the inbox (`Enqueue`: a full queue is
emptied and marked), which a try-lock may also refuse.  The main task drains the
inbox at the start of a pass, one `Handle...` action per kind of packet; the rest
of the pass, the timeouts and the buttons, have the inbox they just found empty
(`Drained`).  There is no clock: an interval or the timeout may have elapsed
whenever the code looks, so every retry and every timeout may come at any time.
`Calm` turns losses, failures and elapsed intervals off, for liveness.

`record` and `part` are the files `device_<mac>.bin` and its `.part`, with every
storage call that may fail and a power loss between two of them; `Lost` is a
record that such a failure removed.  The statistics are a number, which grows
(`Read`) only while the reader is off the screen and when nothing it sent before
waits in a queue: turning a page takes the owner longer than a pass of `loop()`
of another reader.

### NearbyPosition

The same radio.  `source` tells the two roles apart.  `panel` is the place that
is painted and `stale` whether a paint has been asked for: `Paint` happens some
time after the handler, as the repaint is deferred to the render task, and the
owner presses Select on a panel that is painted.  `shared`, `given` and `late` are
history: what an owner has pressed Share for, who has received the place that the
reader is at, and whose owner has pressed Select for an earlier one since it is
there.  The last two begin anew whenever the place changes, by reading on (`Read`,
as slow as in `NearbyStats`) or by applying the place of another reader.

An ACK names no place, and a source takes any for the one it waits for
(`NearbyBookPositionSyncActivity.cpp:861-864`).  `late` is where that bites: a
receiver acknowledges a place when it gets it and once more when its owner presses
Select, which may be minutes later, when the source has left, read on and shares
another place.  It then reports "Position shared" though nobody has that place.
`SharedIsGiven` says that between two readers this is the only way.  The
state `APPLYING` and the packet `APPLY` are declared in the code and never used;
they are left out, as is the stub that the simulator builds in place of the
screen.

### FirmwareUpdate

Two app partitions in chunks and two otadata entries.  `Target` is what the
bootloader starts, `Dest` what `esp_ota_get_next_update_partition()` returns: the
partition that does not run.  Each erase and each write is a step, of a block of
the partition or of an otadata entry, and each may fail or be the last before a
power loss.  `ChangeCard` is a card that is taken out, or a file that is replaced,
while the prompt is shown, so that the image is no longer the one that was
picked; `Validate` is the second call of `validateImageFile()`, by the flasher,
which installs whatever complete image it finds.  `wanted` and `pinned` are history:
the image that the user was asked about, since `Pick` or `Check`, and that nothing
else can be installed.  `ChangeCard` clears the latter.
`Restart` and `PowerLoss` boot `Target`, the latter into the recovery screen or not.

The update over WiFi erases the spare partition and writes what it downloads into
it; the file on the card that `FirmwareFlasher.h:12-13` announces for it does not
exist in the code, so the model has none.  `offer` is what decides how far a download
is to be trusted: without a hash in the manifest an HTTP address is refused
(`OtaUpdater.cpp:422`, `ConfirmOta`), and over HTTPS the image is not compared with
anything (`OtaUpdater.cpp:663`, `EndOta`), so that it is not `pinned`.  The server may
send any chunk of any image, junk, or less than announced (`Download`,
`DownloadEnds`); `hashed` is what it has sent.  That `esp_ota_end()` refuses what is
not a complete image is taken from ESP-IDF.  `QuickAction` leaves the recovery
screen, too: the comment at `SdFirmwareUpdateActivity.cpp:35` is about Back only.

## 3. Runs

| Run | Expected | Checks | Instance |
|---|---|---|---|
| `activity_safety` | pass | `IInv`, `NoCircularWait`, `RenderedIsCurrent`, `PendingMatchesAction`, `ResultForLauncher`, `WakeupIsComing`, `WaitShowsLockedWrites`, `ImplementsScreenStack`, `PassDescends` | 4 activities (symmetric), 3 calls a pass |
| `activity_live` | pass | `UpdateIsPainted`, `WaiterIsReleased`, `LoopReturns` | 3 activities, 1 call a pass |
| `stats_file` | pass | `IInv`, `OneStrikeLosesNothing`, `NewerFormatKept`, `ImplementsRegister` | 4 values, 3 of them symmetric |
| `session` | pass | `TypeOK`, `IInv`, `EpubKeepsTurns`, `EditsAreImported`, `SavesFollowLoad`, `NoSaveLosesTurns` | 2 turns, 1 completed book |
| `session_turns` | violation | `EveryTurnIsCounted` | the same |
| `pet_farm` | pass | `TypeOK`, `IInv`, `GrowthIsBounded`, `OnlyPagesSinceHatch`, `LoadKeepsProgress` | 2 plots, 2 turns, 2 half days |
| `pet_once` | violation | `PagesCountOnce` | 1 plot, 3 turns, 2 half days |
| `nearby_stats` | pass | `TypeOK`, `IInv`, `BothReadersSynced`, `CountedOnce` | 2 readers (symmetric), queues of 3, statistics 0 and 1 |
| `nearby_calm` | pass | `SyncCompletes` | 2 readers, one perhaps of a newer firmware, queues of 8, statistics 0 and 1 |
| `nearby_position` | pass | `TypeOK`, `IInv`, `OnlySharedIsOffered`, `SharedIsGiven` | 2 readers, either perhaps of another protocol version, 2 places, 2 books, queues of 3 |
| `nearby_shown` | violation | `AppliesWhatIsShown` | 2 readers, 2 places, 1 book, queues of 8 |
| `firmware` | pass | `IInv`, `BootsComplete`, `UpdateTakesEffect`, `ImplementsAtomicUpdate` | 2 images (symmetric), 3 chunks, no update begins past sequence number 4 |

No run turns the check for deadlock off.  `IInv` is the inductive invariant of
the proofs, checked here on the same instance; `TypeOK` is its first conjunct.

Why the bounds are enough.  Four activities are a current one, a pending one and
a stack of two, or a stack of one and the sleep screen; with three calls
activity code can push, finish and push again in one pass, the longest sequence
the guards of the drain loop tell apart.  Liveness needs no symmetry, hence
three activities.  In the statistics file a value is saved over another, over a
third, and may be the default one; that is four.  In a session two turns can be
on both sides of one visit to the statistics screen.  For the plants, two plots
are a first one and one bought later; two turns are one from before a hatching and
one from after it, or one that a sync hears of first and one that
`onPageTurned()` does; two half days are a day and a night, and a tick between
them.  `PagesCountOnce` needs a third turn to show.

Two readers are all that the screens are written for.  The queue of the firmware
has room for eight packets; with three a reader that does not drain it fills and
overflows it with one answer and one repetition, in every phase of the protocol.
The runs without losses keep the eight.  Two amounts are statistics that are
present and statistics that have gone stale.  Two places in two books are a place
replaced by another, and a place in the wrong book.  Three chunks are a first one,
a middle one and a last one, and two images a running one and a new one.  The
otadata may be blank, hold one entry or two, with either the higher; sequence
numbers up to 4 start an update from both partitions with both parities, and a
second update after it.

Two things need a third reader and are beyond TLC here, where even a queue of one
packet leaves too many states: the name of a reader that is not the peer
(`Unwanted` in `NearbyPosition`) and a HELLO that replaces the peer.  The proofs
cover them.  `SomeReadersSynced`, which is about that HELLO, has no run for the same
reason (for two readers it follows from `BothReadersSynced`).

Views leave out of the fingerprint what no action reads any more.  `MCPetFarm`:
what a dead plant once was, whether the farm has seen reading time when it has
seen pages, and the history by which plants are judged once
`OnlyPagesSinceHatch` no longer applies.  `MCReadingSession`: the history of a
reader that has been left, the arguments of a save that has returned, and what a
failed save has left in the temporary file, which the next one removes first; also
the histories of `StatsFile` that steer nothing, which `stats_file` is for.
`MCNearbyStats` and `MCNearbyPosition`: what a screen remembers of a sync that has
ended, but for what it reports, and what a `.part` file holds.  `IInv` does speak
of some of that, such as a flag of a screen that shows an error; there the proof
covers what the view hides.  `nearby_shown`, which is about the panel, uses none.

### Violations

A run that expects a violation states what a comment or a document says.

* `EveryTurnIsCounted`: the XTC reader replaces its statistics by those of the
  file when the statistics screen returns, and forgets the turns since it was
  opened.  The EPUB reader imports the edits only, as its comment explains.
* `PagesCountOnce`: a forward turn is synced, with itself already in the
  count, and then given to `onPageTurned()`, which counts it again and moves
  `lastKnownPagesTurned` one ahead; that cancels out with the next turn, but the
  first turn after any sync that sets it to the count is fed twice.
  `GrowthIsBounded` shows that twice is the worst.
* `AppliesWhatIsShown`: "The receiving reader only applies the position after you
  confirm it" (`src/docs/nearby-position-sync.md:24`).  A second place that
  arrives while the first is on the panel replaces it in memory; the state stays
  `SHOWING_RESULT`, so no repaint is asked for, and Select applies a place that
  was never shown.  `OnlySharedIsOffered` is what holds: it is a place that its
  owner did share, in the same book.

Three more remarks of this kind have no run of their own, since the properties
above hold in spite of them.  `goToSleep()` queues the sleep screen and calls
`loop()`, which first runs the outgoing activity's `loop()`; an activity that
navigates in that pass overrides the sleep screen (`GoToSleep`).  On sleep, the
statistics screen saves its edits in `onExit()` and the reader below it then
saves its older copy over them (`ReplaceStats`).  And a complete `.part` file that
a power loss left behind is added up beside the record it was to replace, until
the next sync with that reader; `src/docs/reading-stats-sync.md:81` only says that
invalid files are ignored.  `CountedOnce` states that the sync repairs it.

## 4. Fairness

Two runs use fairness.  In `activity_live` both tasks have priority 1 and FreeRTOS
slices their time, so each takes its next step when it can: weak fairness of
`Main` and of `RenderLoop`.  `RenderAcquire` is strongly fair, because the main
task takes the mutex again and again: between two passes of `loop()` it calls
`delay()` or `yield()` (`src/src/main.cpp:1121-1134`) with the mutex free
and the render task ready.  That the code of an activity returns is the bound
`MaxCalls`, not fairness.  Nobody has to wake the device, and no action outside
the program (USB, buttons, alerts) is fair.

In `nearby_calm` the main task of each reader keeps calling `loop()`
(`src/src/main.cpp:1103`), which drains the queue and looks at the flags: weak
fairness of `Handle(d)` and `Settle(d)` for each reader `d`.  No user has to press
anything or leave, no repetition has to happen, and the radio loses nothing in
that instance, by `Calm` and not by fairness: with losses the code promises no
more than a timeout.

## 5. Proofs

All proofs are about the specifications as TLC runs them, for any sets of
activities, values, readers and images; the only assumptions are those the modules
declare: `NullAssumption` (the null pointer is not an object), `MaxCallsAssumption`,
`StatsAssumption` (the default value is a value, and the markers of files are
distinct from values and from each other), the bounds and markers of
`ReadingSession` and `PetFarm`, `NearbyAssumption` and `PositionAssumption` (the
queue has room for a packet, and the markers are no readers, places or amounts)
and `FirmwareAssumption` (junk is no image, and an image has a chunk).

`ActivityManagerProofs` proves `IInv` inductive: one lemma per group of
actions, one step per action, one per conjunct.  `RenderedIsCurrent` alone is
not inductive: it needs `LockInv`, which derives the holder of the mutex from
the places of the two tasks, and `RenderInv`; then the main task cannot be at
`pop` or `launch` while the render task paints.  `PendingMatchesAction` is a
conjunct of its own but needs `PendingInv` and `OwnerInv`, since an object is
allocated only if nothing owns it.  `ResultForLauncher` follows from
`HandlerInv`: at each level of the stack the handler is for the activity just
above, and a push by `main.cpp` or an alert meets an activity without one.
`WaitShowsLockedWrites` follows from `WaitInv` and `PaintInv`: the render that
takes the waiter began after the last write under the lock, since the waiter
cannot have registered while it held the lock.

Three more results rest on that invariant.  `NoLostWakeup` is the safety half of
`WaiterIsReleased`: the waiter registers before it notifies, so a render that has
looked for a waiter already leaves the notification standing for the next one.
`PassEnds` is the safety half of `LoopReturns`: `StepsLeft` weighs a call of
activity code by six, a pending navigation by five and the place in the loop by at
most eight; every step of the main task lowers the sum, so that a pass has at most
`6 * MaxCalls + 13` steps, whatever the activities push, pop and replace.  What is
left to fairness is only that each task takes its steps.  `ManagerIsScreenStack` is
the refinement: a call to navigate is an `Ask`, `LaunchPushing`, `LaunchReplacing`
and the two pops serve it, `LaunchNow` is `First`, the two ends of `render()` are
those of a paint, a reset is `Off`, and everything else stutters.  That the stack is
still when it changes is `LockInv` and `RenderInv`; that no screen is asked for that
is in it is `OwnerInv`.

`StatsFileProofs` proves `IInv` inductive.  `OneStrikeLosesNothing` needs
`CallInv` (what each point of `saveToFile()` has left of the three files) and
`StrikeInv` (before the first interruption, the file is there or there is no
backup to lose).  `NewerFormatKept` needs `NewerInv`: whatever is of a newer
format has been seen and blocks the save, or could not be read (`missed`).  `FileIsRegister` maps what `load()` would
give to the value of the register.  Writing the temporary file is a stutter, and the rotation
changes what is kept beside that value and not the value itself (`MakeRoom`), as
`load()` then falls back to the backup; only the last rename stores, and an
interruption is `CutShort` wherever it comes.

`ReadingSessionProofs` uses the invariant of the file through its INSTANCE: every
step of a session is a step of `StatsFile` or leaves the file alone (`UsesFile`), so
that all that is proved of the file holds in a session (`SessionHasRegister`), with
the same failing reads.
`EpubKeepsTurns` and `SavesFollowLoad` are inductive beside it.
`EditsAreImported` is not: it needs `PhaseInv` (which screens are open at each
point of closing them) and `EditInv` (unless `lost`, the file of the book has what
was chosen by the time the result handler reads it).  `NoSaveLosesTurns` is about one step of
the file, but why the value being saved is not behind the file depends on who saves:
`TurnsInv` says that, unless `misread`, an open reader's copy has all the turns of the
file, also while a save is under way, that the copy of the statistics screen has as many as the
reader's, and that an action has just loaded what it saves.

`PetFarmProofs` proves the two bounds on growth.  A plant's pages alone are not
enough, since the next sync adds more: `Bounded` and `BoundedSinceHatch` bound the
sum of its pages and of what that sync will add, for the farm in RAM and for the
one in the file, which a load may bring back.  `Shape` says that nothing is synced
before the first hatching, and `Settled` that nothing is left to add on the plant
screen, where plants are hatched; together they make the guard of the first sync
serve all plots.

`NearbyStatsProofs` proves `Sound` for any number of readers: the packets in every
inbox are true (`Truth`), and so is what a reader remembers (`MemoryIsTrue`).
That is why lost packets and overflows do no harm: every packet may vanish and
what is left is as true as before.  That the flags are about the peer on the
screen (`FlagsAreTrue`), and so `BothReadersSynced` and `CountedOnce`, is proved
under `AtMostTwo`: the HELLO of a third reader replaces the peer and keeps the
flags (`NearbyStatsSyncActivity.cpp:416-420`).  What is left then is
`NobodyIsLeftOut`, again for any number: each flag stands for a half of the exchange
that has been made with some reader (`HalvesAreTrue`).  Both follow from one account
of what a step does to the flags (`FlagStep`).

`NearbyPositionProofs` proves `IInv` in two layers.  `Consent` holds for any number of
readers: the places on the air have been shared, and so have those that a reader
remembers, which gives `OnlySharedIsOffered`.  `AcksAreTrue` is for two (`AtMostTwo`
stands inside `IInv` and `SharedIsGiven`): an acknowledgement comes from a reader that
has the present place or whose Select was late.  That needs one more fact: a place
that its owner has left is on the air only to a source, which does not acknowledge
it.  A place can only be left while packets with it are on their way by
applying one of the peer; so the lemmas show that two readers with places of each
other have not both become receivers.

`FirmwareUpdateProofs` proves `IInv` inductive for any number of chunks.
`BootsComplete` is not inductive: `BootInv` says that no step but the last write of
an update changes `Target`, and that no step writes the partition that runs;
`StreamInv` that the partition holds what was streamed, and a complete image once it
was verified; `SourceInv` that a `pinned` card has the image asked about, and that a
`pinned` download will be held against its hash, which together with `StreamInv` gives
`UpdateTakesEffect`; `EntryInv` that between the erase and the write of an otadata entry the
active one stands.  The lemma about `NewSeq` is the arithmetic behind it: of the
two numbers above the active one, one names the destination.  `UpdateIsAtomic` is
the refinement: of all the erases and writes, the write of the otadata entry is the
update (`Commit`), since by `StreamInv` the partition it switches to then holds all
of the image that the update began with; all others are stutters or, when one fails, `Fail`.

Only model-checked: liveness (`UpdateIsPainted`, `WaiterIsReleased`, `LoopReturns`
in `activity_live`, `SyncCompletes` in `nearby_calm`), since fairness and ENABLED are
beyond the prover, though `NoLostWakeup` and `PassEnds` prove what of two of them is
safety; and the three violations, which are counterexamples and not theorems.  Every
invariant and every action property of a passing run is proved.

## 6. Not modelled

`PROJECT.json` lists every component with its status and every hazard with the
property that covers it, or why none does.

* Drawing and parsing, fonts, images, themes and translations are sequential,
  generated or vendored, and by far the most of the code.
* Reading time, streaks and dates are calendar arithmetic on values that one task
  owns.  So are the plants' vitals, Dew, quests and evolution, which `PetFarm`
  leaves open: in a tick a plant stays well, falls sick or dies.
* The weather task, and boot state in RTC memory.
* The USB transfer is one half of a lock-step protocol; the other half, the
  program on the host, is not in the repository.
* The web server, WebDAV, OPDS and KOReader sync handle one request at a time on
  the main task.
* The small stores are written whole without a backup, in the way `PetFarm`
  models for `state.json`.
* Input latches are read and written by the main task only.

In what is modelled, these are left out: `load()` of the farm called from the
render task (a theme) while the main task is inside a call; a save from the render
task; a read of the SD card that fails on a file that is there, in the plants and the
nearby sync of statistics, but not in the statistics and the update; the counts wrapping at 2^32; how a received place is mapped to a page of the
local layout; the bytes of an image and the HTTP exchange that brings it.

## 7. Plan

Done: the seven modules and their proofs, three abstract specifications and their
refinement proofs, and what three readers can rely on when they sync statistics.
What is left, in this order:

1. An abstract specification of the plants' growth, a ledger of pages read and fed,
   which `PetFarm` implements within the bounds of `GrowthIsBounded`; and one of the
   two nearby screens, an exchange between two readers.
2. `BootSleep`: what RTC memory and `CrossPointState` carry over a restart or a
   sleep, composed with the screen manager's entry points.
3. What a source may conclude from an ACK when three readers share places.
4. The weather task as a second process of `PetFarm`; `PetCare`, with vitals,
   decay by the hour and quests as operators on bounded values, against a
   reference.
5. Input latches: a release that belongs to an earlier screen.
