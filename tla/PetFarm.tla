------------------------------- MODULE PetFarm -------------------------------
(***************************************************************************)
(* How reading makes the plants grow: src/src/pet/PetManager.cpp and       *)
(* PetPersistence.cpp, with the readers and the plant screen that call     *)
(* them.                                                                   *)
(*                                                                         *)
(* The plants hear of a page twice: at once, from onPageTurned(), and when *)
(* they are next synced, from the page count of the reading statistics.    *)
(* lastKnownPagesTurned is meant to keep the two from counting it twice.   *)
(* The farm lives in RAM from its first load() until the device resets;    *)
(* its file is removed and written anew by every save().                   *)
(*                                                                         *)
(* What hunger, health, weight and care do is left open: a plant may be    *)
(* sick when a page is turned, and the hours of a tick may kill it.  The   *)
(* water, the Dew and the quests are not modelled.  Time passes in half    *)
(* days, by day and by night; the clock is 0 while it is not set.  A file  *)
(* that is there can be read; the statistics file behaves as in StatsFile, *)
(* and takes a save or does not.                                           *)
(***************************************************************************)
EXTENDS Naturals

CONSTANTS
    MaxPlots,   \* MAX_PLOTS
    MaxTurns,   \* bound: page turns, ever
    MaxTime,    \* bound: half days
    Missing,    \* no such file
    Torn        \* a file that load() cannot parse

ASSUME PetBoundsAssumption == {MaxPlots, MaxTurns, MaxTime} \subseteq Nat \ {0}

VARIABLES
    file,       \* state.json
    farm,       \* farm and plots
    loaded,     \* loaded
    saving,     \* writeFile() has removed the file and writes it
    clock,      \* time(nullptr), 0 while isTimeValid() is false
    book,       \* the all-time statistics in their file
    live,       \* the globalStats of the reader on the screen
    screen,     \* the activity on the screen
    ever,       \* history: page turns the statistics counted, ever
    text,       \* history: page turns in plain text books, ever
    inOrder     \* history: every plant was hatched while the clock was set, and
                \* the farm was loaded when pages were turned

statsVars == <<book, live>>
petVars   == <<file, farm, loaded, saving>>
history   == <<ever, text, inOrder>>
vars == <<petVars, clock, statsVars, screen, history>>

Plots   == 1..MaxPlots
Screens == {"home", "epub", "xtc", "text", "pet", "leaving"}
NoStats == [turns |-> 0, seconds |-> FALSE]

\* tick is lastTickTime, base is history: the page turns ever made when it was
\* hatched.
NoPlant == [stage |-> "none", pages |-> 0, tick |-> 0, base |-> 0]

\* known is lastKnownPagesTurned, read is lastKnownReadSeconds # 0.
NewFarm == [owned |-> 1, known |-> 0, read |-> FALSE,
            plots |-> [p \in Plots |-> NoPlant]]

Exists(plant) == plant.stage # "none"
Alive(plant)  == plant.stage = "alive"

\* anyPlotExists()
AnyPlotExists(f) == \E p \in 1..f.owned : Exists(f.plots[p])

\* The hours from 10 PM to 7 AM.
Night(now) == now > 0 /\ now % 2 = 0

Init ==
    /\ file = Missing
    /\ farm = NewFarm
    /\ loaded = FALSE
    /\ saving = FALSE
    /\ clock \in {0, 1}
    /\ book \in {NoStats, [turns |-> 1, seconds |-> TRUE]}
    /\ live = NoStats
    /\ screen = "home"
    /\ ever = book.turns
    /\ text = 0
    /\ inOrder = TRUE

(***************************************************************************)
(* PetPersistence.cpp.                                                     *)
(***************************************************************************)

\* Fault: load() always reads the file.
LoadRereading(f) ==
    IF file = Missing THEN [ok |-> TRUE, farm |-> f, clock |-> clock]
    ELSE IF file = Torn THEN [ok |-> FALSE, farm |-> f, clock |-> clock]
    ELSE [ok |-> TRUE, farm |-> file.farm,
          clock |-> IF clock = 0 THEN file.time ELSE clock]

\* What load() returns, and makes of the farm f in RAM and of the clock: nothing
\* once it has loaded; a clock that is not set is set to the time of the save.
Load(f) ==
    IF loaded \/ file = Missing
    THEN [ok |-> TRUE, farm |-> f, clock |-> clock]
    ELSE IF file = Torn THEN [ok |-> FALSE, farm |-> f, clock |-> clock]
    ELSE [ok |-> TRUE, farm |-> file.farm,
          clock |-> IF clock = 0 THEN file.time ELSE clock]

\* save() of the farm f: the file is gone until it is written.
Save(f) ==
    /\ farm' = f
    /\ file' = Missing
    /\ saving' = TRUE

LoadFarm ==
    LET r == Load(farm)
    IN  farm' = r.farm /\ loaded' = r.ok /\ clock' = r.clock

\* What Storage.writeFile() leaves, at its end or when it is cut short.
Written == {[farm |-> farm, time |-> clock], Torn, Missing}

WriteFile ==
    /\ saving
    /\ file' \in Written
    /\ saving' = FALSE
    /\ UNCHANGED <<farm, loaded, clock, statsVars, screen, history>>

(***************************************************************************)
(* PetManager.cpp.                                                         *)
(***************************************************************************)

\* feedFromPages() and the count of pages.
Grow(plant, n) ==
    IF Alive(plant) THEN [plant EXCEPT !.pages = @ + n] ELSE plant

GrowAll(f, n) ==
    [f EXCEPT !.plots = [p \in Plots |-> IF p <= f.owned THEN Grow(@[p], n) ELSE @[p]]]

Delta(f, s) == IF s.turns > f.known THEN s.turns - f.known ELSE 0

NeverSynced(f) == ~f.read /\ f.known = 0

\* Fault: the first sync is like any other.
SyncUnguarded(f, s) ==
    IF ~AnyPlotExists(f) THEN f
    ELSE [GrowAll(f, Delta(f, s)) EXCEPT !.known = s.turns, !.read = s.seconds]

\* Fault: what was read is fed again the next time.
SyncForgetful(f, s) ==
    IF ~AnyPlotExists(f) THEN f
    ELSE IF NeverSynced(f) /\ f.plots[1].tick > 0
    THEN [f EXCEPT !.known = s.turns, !.read = s.seconds]
    ELSE [GrowAll(f, Delta(f, s)) EXCEPT !.read = s.seconds]

\* syncFromReadingStats()
Sync(f, s) ==
    IF ~AnyPlotExists(f) THEN f
    ELSE IF NeverSynced(f) /\ f.plots[1].tick > 0
    THEN [f EXCEPT !.known = s.turns, !.read = s.seconds]
    ELSE [GrowAll(f, Delta(f, s)) EXCEPT !.known = s.turns, !.read = s.seconds]

\* onPageTurned(), after its load(): the plants in sick, and those that sleep,
\* do not grow.
PageTurned(f, sick, now) ==
    IF ~AnyPlotExists(f) THEN f
    ELSE [f EXCEPT !.known = @ + 1,
                   !.plots = [p \in Plots |->
                       IF p > f.owned \/ p \in sick \/ Night(now) THEN @[p]
                       ELSE Grow(@[p], 1)]]

\* tick() of one plant.
Aged(plant, dies, now) ==
    IF ~Alive(plant) \/ now <= plant.tick THEN plant
    ELSE IF plant.tick = 0 THEN [plant EXCEPT !.tick = now]
    ELSE [plant EXCEPT !.stage = IF dies THEN "dead" ELSE @, !.tick = now]

\* tick(), at the time now, which the plants in dying do not survive: nothing
\* while the clock is not set.
Tick(f, dying, now) ==
    [f EXCEPT !.plots = [p \in Plots |->
        IF p <= f.owned THEN Aged(@[p], p \in dying, now) ELSE @[p]]]

(***************************************************************************)
(* The readers.                                                            *)
(***************************************************************************)
On(name) == screen = name /\ ~saving

\* The home screen and the status bar draw the plant.
DrawPlant ==
    /\ ~saving
    /\ LoadFarm
    /\ UNCHANGED <<file, saving, statsVars, screen, history>>

OpenEpub ==
    /\ On("home")
    /\ screen' = "epub"
    /\ live' = book
    /\ UNCHANGED <<petVars, clock, book, history>>

\* The XTC and the plain text reader load the farm, too.
OpenOther(kind) ==
    /\ On("home")
    /\ LoadFarm
    /\ screen' = kind
    /\ live' = IF kind = "xtc" THEN book ELSE NoStats
    /\ UNCHANGED <<file, saving, book, history>>

\* Forward: a load() that succeeds takes the place of what the sync did.
TurnPage ==
    /\ On("epub") \/ On("xtc")
    /\ ever + text < MaxTurns
    /\ live' = [live EXCEPT !.turns = @ + 1]
    /\ LET r == Load(Sync(farm, live'))
       IN  /\ \E sick \in SUBSET Plots : farm' = PageTurned(r.farm, sick, r.clock)
           /\ loaded' = r.ok
           /\ clock' = r.clock
    /\ ever' = ever + 1
    /\ inOrder' = (inOrder /\ (loaded \/ file \in {Missing, Torn}))
    /\ UNCHANGED <<file, saving, book, screen, text>>

\* Back, in the EPUB reader.
TurnBack ==
    /\ On("epub")
    /\ farm' = Sync(farm, live)
    /\ UNCHANGED <<file, loaded, saving, clock, statsVars, screen, history>>

TurnTextPage ==
    /\ On("text")
    /\ ever + text < MaxTurns
    /\ LET r == Load(farm)
       IN  /\ \E sick \in SUBSET Plots : farm' = PageTurned(r.farm, sick, r.clock)
           /\ loaded' = r.ok
           /\ clock' = r.clock
    /\ text' = text + 1
    /\ UNCHANGED <<file, saving, statsVars, screen, ever, inOrder>>

\* onExit() of the EPUB and XTC readers: first the statistics, whose save may be
\* refused or fail ...
LeaveReader(longEnough) ==
    /\ On("epub") \/ On("xtc")
    /\ live' = [live EXCEPT !.seconds = @ \/ longEnough]
    /\ book' \in {book, live'}
    /\ screen' = "leaving"
    /\ UNCHANGED <<petVars, clock, history>>

\* ... then the farm, if it can be loaded.
LeaveFarm ==
    /\ On("leaving")
    /\ LET r == Load(farm)
       IN  /\ loaded' = r.ok
           /\ clock' = r.clock
           /\ IF r.ok THEN Save(Sync(r.farm, live))
              ELSE UNCHANGED <<file, farm, saving>>
    /\ screen' = "home"
    /\ live' = NoStats
    /\ UNCHANGED <<book, history>>

\* onExit() of the plain text reader saves whatever load() said.
LeaveText ==
    /\ On("text")
    /\ Save(farm)
    /\ screen' = "home"
    /\ UNCHANGED <<loaded, clock, statsVars, history>>

(***************************************************************************)
(* The plant screen, and the reset of the statistics in the settings.      *)
(***************************************************************************)

\* onEnter(): load, sync, tick, save.
EnterPet ==
    /\ On("home")
    /\ LET r == Load(farm)
       IN  /\ loaded' = r.ok
           /\ clock' = r.clock
           /\ \E dying \in SUBSET Plots : Save(Tick(Sync(r.farm, book), dying, r.clock))
    /\ screen' = "pet"
    /\ UNCHANGED <<statsVars, history>>

\* hatchNew(), in the active plot, which is empty or holds a dead plant.
Hatch(p) ==
    /\ On("pet")
    /\ p <= farm.owned
    /\ ~Alive(farm.plots[p])
    /\ Save([farm EXCEPT !.plots[p] =
                [NoPlant EXCEPT !.stage = "alive", !.tick = clock, !.base = ever]])
    /\ inOrder' = (inOrder /\ clock > 0)
    /\ UNCHANGED <<loaded, clock, statsVars, screen, ever, text>>

\* Fault: MAX_PLOTS is not looked at.
UnlockNextPlotUnguarded ==
    /\ On("pet")
    /\ AnyPlotExists(farm)
    /\ Save([farm EXCEPT !.owned = @ + 1])
    /\ UNCHANGED <<loaded, clock, statsVars, screen, history>>

\* unlockNextPlot(): there is Dew to pay with once there has been a plant.
UnlockNextPlot ==
    /\ On("pet")
    /\ AnyPlotExists(farm)
    /\ farm.owned < MaxPlots
    /\ Save([farm EXCEPT !.owned = @ + 1])
    /\ UNCHANGED <<loaded, clock, statsVars, screen, history>>

\* resetData()
ResetData ==
    /\ On("pet")
    /\ Save(NewFarm)
    /\ loaded' = TRUE
    /\ UNCHANGED <<clock, statsVars, screen, history>>

LeavePet ==
    /\ On("pet")
    /\ Save(farm)
    /\ screen' = "home"
    /\ UNCHANGED <<loaded, clock, statsVars, history>>

ResetStats ==
    /\ On("home")
    /\ book' = NoStats
    /\ UNCHANGED <<petVars, clock, live, screen, history>>

(***************************************************************************)
(* Time and power.                                                         *)
(***************************************************************************)

\* Time passes, or a clock that is not set is set from the network.
ClockMoves ==
    /\ ~saving
    /\ \E t \in (clock + 1)..MaxTime : clock' = t
    /\ UNCHANGED <<petVars, statsVars, screen, history>>

\* A reset, deep sleep or an empty battery; the clock may or may not survive.
PowerLoss ==
    /\ file' \in IF saving THEN Written ELSE {file}
    /\ farm' = NewFarm
    /\ loaded' = FALSE
    /\ saving' = FALSE
    /\ clock' \in {0, clock}
    /\ live' = NoStats
    /\ screen' = "home"
    /\ UNCHANGED <<book, history>>

Next ==
    \/ WriteFile
    \/ DrawPlant
    \/ OpenEpub
    \/ \E kind \in {"xtc", "text"} : OpenOther(kind)
    \/ TurnPage
    \/ TurnBack
    \/ TurnTextPage
    \/ \E longEnough \in BOOLEAN : LeaveReader(longEnough)
    \/ LeaveFarm
    \/ LeaveText
    \/ EnterPet
    \/ \E p \in Plots : Hatch(p)
    \/ UnlockNextPlot
    \/ ResetData
    \/ LeavePet
    \/ ResetStats
    \/ ClockMoves
    \/ PowerLoss

Spec == Init /\ [][Next]_vars

-----------------------------------------------------------------------------
(***************************************************************************)
(* Properties.                                                             *)
(***************************************************************************)
Plant == [stage : {"none", "alive", "dead"}, pages : Nat, tick : 0..MaxTime,
          base : 0..MaxTurns]

Farm == [owned : Plots, known : Nat, read : BOOLEAN, plots : [Plots -> Plant]]

StatsValues == [turns : 0..MaxTurns, seconds : BOOLEAN]

\* Every variable has its type.
TypeOK ==
    /\ file \notin {Missing, Torn} => file \in [farm : Farm, time : 0..MaxTime]
    /\ farm \in Farm
    /\ loaded \in BOOLEAN
    /\ saving \in BOOLEAN
    /\ clock \in 0..MaxTime
    /\ book \in StatsValues
    /\ live \in StatsValues
    /\ screen \in Screens
    /\ ever \in 0..MaxTurns
    /\ text \in 0..MaxTurns
    /\ inOrder \in BOOLEAN

Living == {p \in 1..farm.owned : Alive(farm.plots[p])}

\* However the readers, the plant screen, failed saves, resets and power losses
\* take turns, the two ways to hear of a page make it count at most twice.
GrowthIsBounded ==
    \A p \in Living : farm.plots[p].pages <= 2 * ever + text

\* The guard of syncFromReadingStats() does its work, for a first plant and for
\* those that follow, while the clock is set, no plain text is read, and the farm
\* is loaded before pages are turned: a plant has grown only by the reading since
\* it was hatched.
OnlyPagesSinceHatch ==
    inOrder /\ text = 0 =>
        \A p \in Living :
            farm.plots[p].pages <= 2 * (ever - farm.plots[p].base)

\* Why: what a plant has grown by, and what the next sync, with the statistics in
\* the file or those of a reader, will add to it.
Most == IF live.turns > book.turns THEN live.turns ELSE book.turns

Bounded(f, limit, turns) ==
    \A p \in 1..f.owned : Alive(f.plots[p]) =>
        /\ f.plots[p].pages <= limit
        /\ f.plots[p].pages + turns <= limit + f.known

BoundedSinceHatch(f, limit, turns) ==
    \A p \in 1..f.owned : Alive(f.plots[p]) =>
        LET own == limit - 2 * f.plots[p].base
        IN  /\ f.plots[p].pages <= own
            /\ NeverSynced(f) \/ f.plots[p].pages + turns <= own + f.known

\* The first plot is the first to be used: none is bought, and nothing synced,
\* before that.
Shape(f) ==
    /\ \A p \in Plots : p > f.owned => ~Exists(f.plots[p])
    /\ AnyPlotExists(f) => Exists(f.plots[1])
    /\ ~AnyPlotExists(f) => f.owned = 1 /\ NeverSynced(f)

\* Nothing is left for the next sync to add.
Settled(f) == NeverSynced(f) \/ Most <= f.known

Ticking(f) == \A p \in Plots : Exists(f.plots[p]) => f.plots[p].tick > 0

FarmInv(f) ==
    /\ Shape(f)
    /\ Bounded(f, 2 * ever + text, Most)
    /\ inOrder /\ text = 0 => Ticking(f) /\ BoundedSinceHatch(f, 2 * ever, Most)

IInv ==
    /\ TypeOK
    /\ FarmInv(farm)
    /\ file \notin {Missing, Torn} => FarmInv(file.farm)
    /\ book.turns <= ever /\ live.turns <= ever
    /\ IF screen \in {"epub", "xtc", "leaving"} THEN book.turns <= live.turns ELSE live = NoStats
    /\ screen = "pet" => Settled(farm) /\ (file \notin {Missing, Torn} => Settled(file.farm))

\* Once the farm is loaded, no call takes pages from a plant but the hatching of
\* another in its place and the reset of the farm: load() does not bring back an
\* old file over what onPageTurned() has counted.
LoadKeepsProgress ==
    [][loaded /\ loaded' =>
        \A p \in Plots :
            \/ farm.plots[p].pages <= farm'.plots[p].pages
            \/ farm'.plots[p].pages = 0 /\ screen = "pet"]_vars

-----------------------------------------------------------------------------
(***************************************************************************)
(* What comments in the code say and the code does not do.                 *)
(***************************************************************************)

\* syncFromReadingStats(): it feeds the pages "that onPageTurned() hasn't already
\* accounted for".
PagesCountOnce ==
    inOrder /\ text = 0 =>
        \A p \in Living : farm.plots[p].pages <= ever - farm.plots[p].base
=============================================================================
