---------------------------- MODULE PetFarmProofs ----------------------------
(***************************************************************************)
(* For any number of plots, turns and half days: what the plants grow by   *)
(* is bounded by the reading, because a farm carries with it, in RAM and   *)
(* in its file, what the next sync can still add.                          *)
(***************************************************************************)
EXTENDS PetFarm, TLAPS

LEMMA Bounds ==
    /\ MaxPlots \in Nat /\ MaxTurns \in Nat /\ MaxTime \in Nat
    /\ MaxPlots > 0 /\ MaxTurns > 0 /\ MaxTime > 0
BY PetBoundsAssumption

LEMMA FarmFacts ==
    ASSUME NEW f \in Farm
    PROVE  /\ f.owned \in Plots /\ f.known \in Nat /\ f.read \in BOOLEAN
           /\ f.plots \in [Plots -> Plant] /\ 1 \in Plots
           /\ \A p \in 1..f.owned : p \in Plots
           /\ \A p \in Plots : f.plots[p] \in Plant
<1>1. f.owned \in Plots /\ f.known \in Nat /\ f.read \in BOOLEAN /\ f.plots \in [Plots -> Plant]
  BY DEF Farm
<1>2. 1 \in Plots /\ \A p \in 1..f.owned : p \in Plots
  BY <1>1, Bounds DEF Plots
<1> QED BY <1>1, <1>2

LEMMA PlantFacts ==
    ASSUME NEW plant \in Plant
    PROVE  /\ plant.stage \in {"none", "alive", "dead"} /\ plant.pages \in Nat
           /\ plant.tick \in 0..MaxTime /\ plant.base \in 0..MaxTurns
           /\ plant.tick \in Nat /\ plant.base \in Nat
BY Bounds DEF Plant

(***************************************************************************)
(* A farm whose plants have grown by no more than they may.                *)
(***************************************************************************)
\* A farm keeps its bounds while the limit rises as fast as the statistics do.
LEMMA LimitRises ==
    ASSUME NEW f \in Farm, NEW l \in Nat, NEW m \in Nat, NEW k \in Nat, NEW n \in Nat,
           l <= k, n + l <= m + k
    PROVE  /\ Bounded(f, l, m) => Bounded(f, k, n)
           /\ BoundedSinceHatch(f, l, m) => BoundedSinceHatch(f, k, n)
<1>1. ASSUME Bounded(f, l, m), NEW p \in 1..f.owned, Alive(f.plots[p])
      PROVE  f.plots[p].pages <= k /\ f.plots[p].pages + n <= k + f.known
  <2>1. f.plots[p].pages \in Nat /\ f.known \in Nat
    BY FarmFacts, PlantFacts
  <2>2. f.plots[p].pages <= l /\ f.plots[p].pages + m <= l + f.known
    BY <1>1 DEF Bounded
  <2> QED BY <2>1, <2>2
<1>2. ASSUME BoundedSinceHatch(f, l, m), NEW p \in 1..f.owned, Alive(f.plots[p])
      PROVE  /\ f.plots[p].pages <= k - 2 * f.plots[p].base
             /\ \/ NeverSynced(f)
                \/ f.plots[p].pages + n <= k - 2 * f.plots[p].base + f.known
  <2>1. f.plots[p].pages \in Nat /\ f.known \in Nat /\ f.plots[p].base \in Nat
    BY FarmFacts, PlantFacts
  <2>2. /\ f.plots[p].pages <= l - 2 * f.plots[p].base
        /\ NeverSynced(f) \/ f.plots[p].pages + m <= l - 2 * f.plots[p].base + f.known
    BY <1>2 DEF BoundedSinceHatch
  <2> QED BY <2>1, <2>2
<1> QED BY <1>1, <1>2 DEF Bounded, BoundedSinceHatch

\* A farm without a plant is within every bound.
LEMMA NoPlantIsBounded ==
    ASSUME NEW f \in Farm, ~AnyPlotExists(f), NEW l, NEW m
    PROVE  Bounded(f, l, m) /\ BoundedSinceHatch(f, l, m)
BY DEF AnyPlotExists, Exists, Alive, Bounded, BoundedSinceHatch

LEMMA DeltaFacts ==
    ASSUME NEW f \in Farm, NEW s \in StatsValues
    PROVE  /\ s.turns \in Nat /\ s.seconds \in BOOLEAN /\ Delta(f, s) \in Nat
           /\ Delta(f, s) = 0 \/ Delta(f, s) + f.known = s.turns
<1>1. s.turns \in Nat /\ s.seconds \in BOOLEAN /\ f.known \in Nat
  BY Bounds, FarmFacts DEF StatsValues
<1> QED BY <1>1 DEF Delta

LEMMA GrownFarm ==
    ASSUME NEW f \in Farm, NEW n \in Nat
    PROVE  /\ GrowAll(f, n) \in Farm
           /\ GrowAll(f, n).owned = f.owned /\ GrowAll(f, n).known = f.known
           /\ GrowAll(f, n).read = f.read
           /\ \A p \in Plots :
                 /\ GrowAll(f, n).plots[p].stage = f.plots[p].stage
                 /\ GrowAll(f, n).plots[p].tick = f.plots[p].tick
                 /\ GrowAll(f, n).plots[p].base = f.plots[p].base
                 /\ GrowAll(f, n).plots[p].pages <= f.plots[p].pages + n
<1> DEFINE g == [p \in Plots |-> IF p <= f.owned THEN Grow(f.plots[p], n) ELSE f.plots[p]]
<1>1. GrowAll(f, n) = [f EXCEPT !.plots = g]
  BY DEF GrowAll, Farm
<1>2. ASSUME NEW p \in Plots
      PROVE  /\ g[p] \in Plant /\ g[p].stage = f.plots[p].stage
             /\ g[p].tick = f.plots[p].tick /\ g[p].base = f.plots[p].base
             /\ g[p].pages <= f.plots[p].pages + n
  <2>1. f.plots[p] \in Plant
    BY FarmFacts
  <2> DEFINE plant == f.plots[p]
  <2>2. Grow(plant, n) = plant \/ Grow(plant, n) = [plant EXCEPT !.pages = plant.pages + n]
    BY DEF Grow
  <2>3. plant.pages \in Nat
    BY <2>1, PlantFacts
  <2>4. g[p] = plant \/ g[p] = [plant EXCEPT !.pages = plant.pages + n]
    BY <2>2
  <2> HIDE DEF g, plant
  <2>5. plant \in Plant
    BY <2>1 DEF plant
  <2>6. /\ g[p] \in Plant /\ g[p].stage = plant.stage /\ g[p].tick = plant.tick
        /\ g[p].base = plant.base /\ g[p].pages <= plant.pages + n
    BY <2>3, <2>4, <2>5 DEF Plant
  <2> QED BY <2>6 DEF plant
<1> HIDE DEF g
<1>3. g \in [Plots -> Plant]
  BY <1>2 DEF g
<1>4. /\ [f EXCEPT !.plots = g] \in Farm
      /\ [f EXCEPT !.plots = g].owned = f.owned /\ [f EXCEPT !.plots = g].known = f.known
      /\ [f EXCEPT !.plots = g].read = f.read /\ [f EXCEPT !.plots = g].plots = g
  BY <1>3 DEF Farm
<1> QED BY <1>1, <1>2, <1>4

\* A farm in which the same plots are used as in another one.
Similar(g, f) ==
    /\ f \in Farm /\ g \in Farm /\ g.owned = f.owned
    /\ \A p \in Plots : Exists(g.plots[p]) <=> Exists(f.plots[p])

LEMMA SimilarFarm ==
    ASSUME NEW f, NEW g, Similar(g, f)
    PROVE  /\ AnyPlotExists(g) <=> AnyPlotExists(f)
           /\ Shape(f) /\ AnyPlotExists(f) => Shape(g)
           /\ Shape(f) /\ NeverSynced(g) => Shape(g)
<1>1. \A p \in 1..f.owned : p \in Plots
  BY FarmFacts DEF Similar
<1>2. AnyPlotExists(g) <=> AnyPlotExists(f)
  BY <1>1 DEF Similar, AnyPlotExists
<1>3. 1 \in Plots
  BY FarmFacts DEF Similar
<1> QED BY <1>2, <1>3 DEF Shape, Similar

(***************************************************************************)
(* syncFromReadingStats()                                                  *)
(***************************************************************************)
LEMMA SyncFacts ==
    ASSUME NEW f \in Farm, NEW s \in StatsValues
    PROVE  /\ Sync(f, s) \in Farm /\ Sync(f, s).owned = f.owned
           /\ AnyPlotExists(f) => Sync(f, s).known = s.turns
           /\ ~AnyPlotExists(f) => Sync(f, s) = f
           /\ \E n \in Nat :
                 /\ \A p \in Plots :
                       /\ Sync(f, s).plots[p].stage = f.plots[p].stage
                       /\ Sync(f, s).plots[p].tick = f.plots[p].tick
                       /\ Sync(f, s).plots[p].base = f.plots[p].base
                       /\ Sync(f, s).plots[p].pages <= f.plots[p].pages + n
                 /\ n = 0 \/ n + f.known = s.turns
                 /\ NeverSynced(f) /\ f.plots[1].tick > 0 => n = 0
<1>1. s.turns \in Nat /\ s.seconds \in BOOLEAN /\ Delta(f, s) \in Nat
      /\ (Delta(f, s) = 0 \/ Delta(f, s) + f.known = s.turns)
  BY DeltaFacts
<1>2. \A p \in Plots : f.plots[p].pages \in Nat
  BY FarmFacts, PlantFacts
<1>3. CASE ~AnyPlotExists(f)
  <2>1. Sync(f, s) = f
    BY <1>3 DEF Sync
  <2>2. 0 \in Nat /\ \A p \in Plots : f.plots[p].pages <= f.plots[p].pages + 0
    BY <1>2
  <2> QED BY <1>3, <2>1, <2>2
<1>4. CASE AnyPlotExists(f) /\ NeverSynced(f) /\ f.plots[1].tick > 0
  <2>1. Sync(f, s) = [f EXCEPT !.known = s.turns, !.read = s.seconds]
    BY <1>4 DEF Sync
  <2>2. /\ Sync(f, s) \in Farm /\ Sync(f, s).owned = f.owned /\ Sync(f, s).known = s.turns
        /\ Sync(f, s).plots = f.plots
    BY <1>1, <2>1 DEF Farm
  <2> QED BY <1>2, <1>4, <2>2
<1>5. CASE AnyPlotExists(f) /\ ~(NeverSynced(f) /\ f.plots[1].tick > 0)
  <2> DEFINE g == GrowAll(f, Delta(f, s))
  <2>1. Sync(f, s) = [g EXCEPT !.known = s.turns, !.read = s.seconds]
    BY <1>5 DEF Sync
  <2>2. /\ g \in Farm /\ g.owned = f.owned
        /\ \A p \in Plots :
              /\ g.plots[p].stage = f.plots[p].stage /\ g.plots[p].tick = f.plots[p].tick
              /\ g.plots[p].base = f.plots[p].base
              /\ g.plots[p].pages <= f.plots[p].pages + Delta(f, s)
    BY <1>1, GrownFarm
  <2> HIDE DEF g
  <2>3. /\ Sync(f, s) \in Farm /\ Sync(f, s).owned = f.owned /\ Sync(f, s).known = s.turns
        /\ Sync(f, s).plots = g.plots
    BY <1>1, <2>1, <2>2 DEF Farm
  <2> QED BY <1>1, <1>5, <2>2, <2>3
<1> QED BY <1>3, <1>4, <1>5

\* A sync adds what was still to come, and no more.
LEMMA SyncIsBounded ==
    ASSUME NEW f \in Farm, NEW s \in StatsValues, NEW l \in Nat, Shape(f)
    PROVE  /\ Sync(f, s) \in Farm
           /\ Shape(Sync(f, s))
           /\ Bounded(f, l, s.turns) => Bounded(Sync(f, s), l, s.turns)
           /\ Ticking(f) => Ticking(Sync(f, s))
           /\ Ticking(f) /\ BoundedSinceHatch(f, l, s.turns)
                => BoundedSinceHatch(Sync(f, s), l, s.turns)
           /\ NeverSynced(Sync(f, s)) \/ s.turns <= Sync(f, s).known
<1> DEFINE g == Sync(f, s)
<1>1. /\ g \in Farm /\ g.owned = f.owned
      /\ AnyPlotExists(f) => g.known = s.turns
      /\ ~AnyPlotExists(f) => g = f
  BY SyncFacts
<1>2. PICK n \in Nat :
         /\ \A p \in Plots :
               /\ g.plots[p].stage = f.plots[p].stage
               /\ g.plots[p].tick = f.plots[p].tick
               /\ g.plots[p].base = f.plots[p].base
               /\ g.plots[p].pages <= f.plots[p].pages + n
         /\ n = 0 \/ n + f.known = s.turns
         /\ NeverSynced(f) /\ f.plots[1].tick > 0 => n = 0
  BY SyncFacts
<1> HIDE DEF g
<1>3. Similar(g, f)
  BY <1>1, <1>2 DEF Similar, Exists
<1>4. Shape(g)
  BY <1>1, <1>3, SimilarFarm
<1>5. Ticking(f) => Ticking(g)
  BY <1>2, <1>3 DEF Ticking, Similar
<1>6. s.turns \in Nat
  BY DeltaFacts
<1>7. ASSUME AnyPlotExists(f), NEW p \in 1..f.owned
      PROVE  /\ p \in Plots /\ f.plots[p].pages \in Nat /\ g.plots[p].pages \in Nat
             /\ f.plots[p].base \in Nat /\ f.known \in Nat /\ g.known = s.turns
  BY <1>1, <1>7, FarmFacts, PlantFacts
<1>8. ASSUME Bounded(f, l, s.turns), AnyPlotExists(f)
      PROVE  Bounded(g, l, s.turns)
  <2> SUFFICES ASSUME NEW p \in 1..f.owned, Alive(g.plots[p])
               PROVE  g.plots[p].pages <= l /\ g.plots[p].pages + s.turns <= l + g.known
    BY <1>1 DEF Bounded
  <2>1. f.plots[p].pages <= l /\ f.plots[p].pages + s.turns <= l + f.known
    BY <1>2, <1>7, <1>8 DEF Bounded, Alive
  <2>2. g.plots[p].pages <= f.plots[p].pages + n
    BY <1>2, <1>7, <1>8
  <2> QED BY <1>2, <1>6, <1>7, <1>8, <2>1, <2>2
<1>9. ASSUME Ticking(f), BoundedSinceHatch(f, l, s.turns), AnyPlotExists(f)
      PROVE  BoundedSinceHatch(g, l, s.turns)
  <2>0. NeverSynced(f) => n = 0
    <3>1. 1 \in Plots /\ Exists(f.plots[1])
      BY <1>9, FarmFacts DEF Shape
    <3> QED BY <1>2, <1>9, <3>1 DEF Ticking
  <2> SUFFICES ASSUME NEW p \in 1..f.owned, Alive(g.plots[p])
               PROVE  /\ g.plots[p].pages <= l - 2 * g.plots[p].base
                      /\ g.plots[p].pages + s.turns <= l - 2 * g.plots[p].base + g.known
    BY <1>1 DEF BoundedSinceHatch
  <2>1. /\ f.plots[p].pages <= l - 2 * f.plots[p].base
        /\ \/ NeverSynced(f)
           \/ f.plots[p].pages + s.turns <= l - 2 * f.plots[p].base + f.known
    BY <1>2, <1>7, <1>9 DEF BoundedSinceHatch, Alive
  <2>2. g.plots[p].pages <= f.plots[p].pages + n /\ g.plots[p].base = f.plots[p].base
    BY <1>2, <1>7, <1>9
  <2> QED BY <1>2, <1>6, <1>7, <1>9, <2>0, <2>1, <2>2
<1>10. NeverSynced(g) \/ s.turns <= g.known
  BY <1>1, <1>6 DEF Shape
<1>11. CASE ~AnyPlotExists(f)
  BY <1>1, <1>4, <1>5, <1>10, <1>11 DEF g
<1>12. CASE AnyPlotExists(f)
  BY <1>1, <1>4, <1>5, <1>8, <1>9, <1>10, <1>12 DEF g
<1> QED BY <1>11, <1>12

(***************************************************************************)
(* onPageTurned() and tick()                                               *)
(***************************************************************************)
LEMMA PageIsBounded ==
    ASSUME NEW f \in Farm, NEW sick, NEW now, NEW l \in Nat, NEW m \in Nat, Shape(f)
    PROVE  /\ PageTurned(f, sick, now) \in Farm
           /\ Shape(PageTurned(f, sick, now))
           /\ Bounded(f, l, m) => Bounded(PageTurned(f, sick, now), l + 1, m)
           /\ Ticking(f) => Ticking(PageTurned(f, sick, now))
           /\ BoundedSinceHatch(f, l, m) /\ (AnyPlotExists(f) => ~NeverSynced(f))
                => BoundedSinceHatch(PageTurned(f, sick, now), l + 1, m)
<1> DEFINE g == PageTurned(f, sick, now)
<1>1. CASE ~AnyPlotExists(f)
  <2>1. g = f
    BY <1>1 DEF PageTurned
  <2> QED BY <1>1, <2>1, NoPlantIsBounded
<1>2. CASE AnyPlotExists(f)
  <2> DEFINE h == [p \in Plots |->
                     IF p > f.owned \/ p \in sick \/ Night(now) THEN f.plots[p]
                     ELSE Grow(f.plots[p], 1)]
  <2>1. g = [f EXCEPT !.known = f.known + 1, !.plots = h]
    BY <1>2 DEF PageTurned
  <2>2. ASSUME NEW p \in Plots
        PROVE  /\ h[p] \in Plant /\ h[p].stage = f.plots[p].stage
               /\ h[p].tick = f.plots[p].tick /\ h[p].base = f.plots[p].base
               /\ h[p].pages <= f.plots[p].pages + 1
    <3> DEFINE plant == f.plots[p]
    <3>1. h[p] = plant \/ h[p] = [plant EXCEPT !.pages = plant.pages + 1]
      BY DEF Grow
    <3>2. plant \in Plant /\ plant.pages \in Nat
      BY FarmFacts, PlantFacts
    <3> HIDE DEF h, plant
    <3>3. /\ h[p] \in Plant /\ h[p].stage = plant.stage /\ h[p].tick = plant.tick
          /\ h[p].base = plant.base /\ h[p].pages <= plant.pages + 1
      BY <3>1, <3>2 DEF Plant
    <3> QED BY <3>3 DEF plant
  <2>3. h \in [Plots -> Plant]
    <3>1. h = [p \in Plots |-> h[p]]
      OBVIOUS
    <3> HIDE DEF h
    <3> QED BY <2>2, <3>1
  <2> HIDE DEF h
  <2>4. f.known \in Nat /\ f.known + 1 \in Nat
    BY FarmFacts
  <2>5. /\ g \in Farm /\ g.owned = f.owned /\ g.known = f.known + 1 /\ g.plots = h
    BY <2>1, <2>3, <2>4 DEF Farm
  <2> HIDE DEF g
  <2>6. Similar(g, f)
    BY <2>2, <2>5 DEF Similar, Exists
  <2>7. Shape(g)
    BY <1>2, <2>6, SimilarFarm
  <2>8. Ticking(f) => Ticking(g)
    BY <2>2, <2>5, <2>6 DEF Ticking, Similar
  <2>9. ASSUME NEW p \in 1..f.owned
        PROVE  /\ p \in Plots /\ f.plots[p].pages \in Nat /\ g.plots[p].pages \in Nat
               /\ f.plots[p].base \in Nat /\ g.plots[p].base = f.plots[p].base
               /\ g.plots[p].pages <= f.plots[p].pages + 1
               /\ Alive(g.plots[p]) => Alive(f.plots[p])
    BY <2>2, <2>5, FarmFacts, PlantFacts DEF Alive
  <2>10. ASSUME Bounded(f, l, m)
         PROVE  Bounded(g, l + 1, m)
    <3> SUFFICES ASSUME NEW p \in 1..f.owned, Alive(g.plots[p])
                 PROVE  g.plots[p].pages <= l + 1 /\ g.plots[p].pages + m <= l + 1 + g.known
      BY <2>5 DEF Bounded
    <3>1. f.plots[p].pages <= l /\ f.plots[p].pages + m <= l + f.known
      BY <2>9, <2>10 DEF Bounded
    <3> QED BY <2>4, <2>5, <2>9, <3>1
  <2>11. ASSUME BoundedSinceHatch(f, l, m), ~NeverSynced(f)
         PROVE  BoundedSinceHatch(g, l + 1, m)
    <3> SUFFICES ASSUME NEW p \in 1..f.owned, Alive(g.plots[p])
                 PROVE  /\ g.plots[p].pages <= l + 1 - 2 * g.plots[p].base
                        /\ g.plots[p].pages + m <= l + 1 - 2 * g.plots[p].base + g.known
      BY <2>4, <2>5, <2>9 DEF BoundedSinceHatch
    <3>1. /\ f.plots[p].pages <= l - 2 * f.plots[p].base
          /\ f.plots[p].pages + m <= l - 2 * f.plots[p].base + f.known
      BY <2>9, <2>11 DEF BoundedSinceHatch
    <3> QED BY <2>4, <2>5, <2>9, <3>1
  <2> QED BY <1>2, <2>5, <2>7, <2>8, <2>10, <2>11 DEF g
<1> QED BY <1>1, <1>2

LEMMA TickIsBounded ==
    ASSUME NEW f \in Farm, NEW dying, NEW now \in 0..MaxTime, NEW l \in Nat, NEW m \in Nat, Shape(f)
    PROVE  /\ Tick(f, dying, now) \in Farm
           /\ Shape(Tick(f, dying, now))
           /\ Tick(f, dying, now).known = f.known
           /\ NeverSynced(f) => NeverSynced(Tick(f, dying, now))
           /\ Bounded(f, l, m) => Bounded(Tick(f, dying, now), l, m)
           /\ Ticking(f) => Ticking(Tick(f, dying, now))
           /\ BoundedSinceHatch(f, l, m) => BoundedSinceHatch(Tick(f, dying, now), l, m)
<1> DEFINE h == [p \in Plots |-> IF p <= f.owned THEN Aged(f.plots[p], p \in dying, now)
                                 ELSE f.plots[p]]
           g == Tick(f, dying, now)
<1>1. g = [f EXCEPT !.plots = h]
  BY DEF Tick, Farm
<1>2. ASSUME NEW p \in Plots
      PROVE  /\ h[p] \in Plant /\ h[p].pages = f.plots[p].pages /\ h[p].base = f.plots[p].base
             /\ Exists(h[p]) <=> Exists(f.plots[p])
             /\ Alive(h[p]) => Alive(f.plots[p])
             /\ f.plots[p].tick > 0 => h[p].tick > 0
  <2> DEFINE plant == f.plots[p]
  <2>1. \/ h[p] = plant
        \/ /\ Alive(plant) /\ now > plant.tick
           /\ \/ h[p] = [plant EXCEPT !.tick = now]
              \/ h[p] = [plant EXCEPT !.stage = "dead", !.tick = now]
              \/ h[p] = [plant EXCEPT !.stage = plant.stage, !.tick = now]
    <3>1. plant.tick \in Nat /\ now \in Nat
      BY FarmFacts, PlantFacts, Bounds
    <3>2. h[p] = plant \/ h[p] = Aged(plant, p \in dying, now)
      OBVIOUS
    <3> HIDE DEF h, plant
    <3>3. Alive(plant) /\ ~(now <= plant.tick) => Alive(plant) /\ now > plant.tick
      BY <3>1
    <3> QED BY <3>2, <3>3 DEF Aged
  <2>2. plant \in Plant /\ plant.tick \in Nat /\ now \in Nat
    BY FarmFacts, PlantFacts, Bounds
  <2> HIDE DEF h, plant
  <2>3. now > plant.tick => now > 0
    BY <2>2
  <2>4. /\ h[p] \in Plant /\ h[p].pages = plant.pages /\ h[p].base = plant.base
        /\ \/ h[p] = plant
           \/ /\ h[p].tick = now /\ now > 0 /\ plant.stage = "alive"
              /\ h[p].stage \in {"alive", "dead"}
    BY <2>1, <2>2, <2>3 DEF Plant, Alive
  <2> QED BY <2>4 DEF plant, Alive, Exists
<1>3. h \in [Plots -> Plant]
  <2>1. h = [p \in Plots |-> h[p]]
    OBVIOUS
  <2> HIDE DEF h
  <2> QED BY <1>2, <2>1
<1> HIDE DEF h
<1>4. g \in Farm /\ g.owned = f.owned /\ g.known = f.known /\ g.read = f.read /\ g.plots = h
  BY <1>1, <1>3 DEF Farm
<1> HIDE DEF g
<1>5. Similar(g, f)
  BY <1>2, <1>4 DEF Similar
<1>6. NeverSynced(g) <=> NeverSynced(f)
  BY <1>4 DEF NeverSynced
<1>7. Shape(g)
  BY <1>5, <1>6, SimilarFarm DEF Shape
<1>8. Ticking(f) => Ticking(g)
  BY <1>2, <1>4 DEF Ticking
<1>9. \A p \in 1..f.owned : p \in Plots
  BY FarmFacts
<1>10. Bounded(f, l, m) => Bounded(g, l, m)
  BY <1>2, <1>4, <1>9 DEF Bounded
<1>11. BoundedSinceHatch(f, l, m) => BoundedSinceHatch(g, l, m)
  BY <1>2, <1>4, <1>6, <1>9 DEF BoundedSinceHatch
<1> QED BY <1>4, <1>6, <1>7, <1>8, <1>10, <1>11 DEF g

(***************************************************************************)
(* The invariant.                                                          *)
(***************************************************************************)
LEMMA Numbers ==
    ASSUME IInv
    PROVE  /\ ever \in Nat /\ text \in Nat /\ Most \in Nat /\ 2 * ever + text \in Nat
           /\ 2 * ever \in Nat /\ Most <= ever
           /\ book.turns \in Nat /\ live.turns \in Nat
           /\ book \in StatsValues /\ live \in StatsValues
           /\ live = NoStats => Most = book.turns
           /\ book.turns <= live.turns => Most = live.turns
<1>1. ever \in Nat /\ text \in Nat /\ book \in StatsValues /\ live \in StatsValues
  BY Bounds DEF IInv, TypeOK
<1>2. book.turns \in Nat /\ live.turns \in Nat /\ book.turns <= ever /\ live.turns <= ever
  BY <1>1, Bounds DEF IInv, StatsValues
<1>3. live = NoStats => live.turns = 0
  BY DEF NoStats
<1> QED BY <1>1, <1>2, <1>3 DEF Most

\* A farm that lasts while the statistics do not grow.
LEMMA FarmStays ==
    ASSUME IInv, NEW f \in Farm, FarmInv(f), UNCHANGED <<ever, text>>,
           Most' \in Nat, Most' <= Most, inOrder' => inOrder
    PROVE  FarmInv(f)'
<1>1. Most \in Nat /\ 2 * ever + text \in Nat /\ 2 * ever \in Nat
  BY Numbers
<1>2. Bounded(f, 2 * ever + text, Most) => Bounded(f, 2 * ever + text, Most')
  BY <1>1, LimitRises
<1>3. BoundedSinceHatch(f, 2 * ever, Most) => BoundedSinceHatch(f, 2 * ever, Most')
  BY <1>1, LimitRises
<1> QED BY <1>2, <1>3 DEF FarmInv

LEMMA NewFarmIsSound ==
    /\ NewFarm \in Farm /\ NeverSynced(NewFarm) /\ ~AnyPlotExists(NewFarm)
    /\ Shape(NewFarm) /\ Ticking(NewFarm)
    /\ \A l, m : Bounded(NewFarm, l, m) /\ BoundedSinceHatch(NewFarm, l, m)
<1>1. /\ NewFarm.owned = 1 /\ NewFarm.known = 0 /\ NewFarm.read = FALSE
      /\ \A p \in Plots : NewFarm.plots[p] = NoPlant
  BY DEF NewFarm
<1>2. 1 \in Plots /\ \A p \in 1..1 : p \in Plots
  BY Bounds DEF Plots
<1>3. NoPlant \in Plant /\ ~Exists(NoPlant)
  BY Bounds DEF NoPlant, Plant, Exists
<1>4. NewFarm \in Farm
  BY <1>2, <1>3 DEF NewFarm, Farm
<1>5. ~AnyPlotExists(NewFarm) /\ NeverSynced(NewFarm)
  BY <1>1, <1>2, <1>3 DEF AnyPlotExists, NeverSynced
<1>6. Shape(NewFarm) /\ Ticking(NewFarm)
  BY <1>1, <1>2, <1>3, <1>5 DEF Shape, Ticking
<1> QED BY <1>4, <1>5, <1>6, NoPlantIsBounded

\* What is in RAM after a load is the farm or the file.
LEMMA LoadFacts ==
    ASSUME IInv, NEW f
    PROVE  /\ Load(f).ok \in BOOLEAN /\ Load(f).clock \in 0..MaxTime
           /\ \/ Load(f).farm = f
              \/ /\ ~loaded /\ file \notin {Missing, Torn}
                 /\ Load(f).farm = file.farm /\ file.farm \in Farm /\ FarmInv(file.farm)
<1>1. clock \in 0..MaxTime
  BY DEF IInv, TypeOK
<1>2. file \notin {Missing, Torn} =>
          file.farm \in Farm /\ file.time \in 0..MaxTime /\ FarmInv(file.farm)
  BY DEF IInv, TypeOK
<1> QED BY <1>1, <1>2 DEF Load

\* The farm in RAM, or what load() makes of it, has the invariant.
LEMMA LoadedFarm ==
    ASSUME IInv
    PROVE  Load(farm).farm \in Farm /\ FarmInv(Load(farm).farm)
BY LoadFacts DEF IInv, TypeOK

LEMMA SyncKeepsFarm ==
    ASSUME IInv, NEW f \in Farm, FarmInv(f), NEW s \in StatsValues, s.turns = Most
    PROVE  Sync(f, s) \in Farm /\ FarmInv(Sync(f, s))
<1>1. Most \in Nat /\ 2 * ever + text \in Nat /\ 2 * ever \in Nat
  BY Numbers
<1>2. Sync(f, s) \in Farm
  BY <1>1, SyncIsBounded DEF FarmInv
<1>3. Shape(Sync(f, s)) /\ Bounded(Sync(f, s), 2 * ever + text, Most)
  BY <1>1, SyncIsBounded DEF FarmInv
<1>4. inOrder /\ text = 0 => Ticking(Sync(f, s)) /\ BoundedSinceHatch(Sync(f, s), 2 * ever, Most)
  BY <1>1, SyncIsBounded DEF FarmInv
<1> QED BY <1>2, <1>3, <1>4 DEF FarmInv

(***************************************************************************)
(* The steps.                                                              *)
(***************************************************************************)
\* The variables of the invariant but the farm and its file.
Rest ==
    /\ loaded \in BOOLEAN /\ saving \in BOOLEAN /\ clock \in 0..MaxTime
    /\ book \in StatsValues /\ live \in StatsValues /\ screen \in Screens
    /\ ever \in 0..MaxTurns /\ text \in 0..MaxTurns /\ inOrder \in BOOLEAN
    /\ book.turns <= ever /\ live.turns <= ever
    /\ IF screen \in {"epub", "xtc", "leaving"} THEN book.turns <= live.turns ELSE live = NoStats

LEMMA Parts ==
    IInv <=> /\ Rest
             /\ farm \in Farm /\ FarmInv(farm)
             /\ file \notin {Missing, Torn} =>
                    file \in [farm : Farm, time : 0..MaxTime] /\ FarmInv(file.farm)
             /\ screen = "pet" => Settled(farm) /\ (file \notin {Missing, Torn} => Settled(file.farm))
BY DEF IInv, TypeOK, Rest

\* A step that counts no page: the file is as it was, or what is written of the
\* farm.
LEMMA QuietStep ==
    ASSUME IInv, Rest', NEW f \in Farm, farm' = f, FarmInv(f), UNCHANGED <<ever, text>>,
           Most' <= Most, inOrder' => inOrder,
           file' \in {file, Missing, Torn, [farm |-> farm, time |-> clock]},
           screen' = "pet" =>
               \/ screen = "pet" /\ f = farm
               \/ screen = "pet" /\ file \notin {Missing, Torn} /\ f = file.farm
               \/ file' = Missing /\ Settled(f)
    PROVE  IInv'
<1>1. Most' \in Nat
  BY Bounds DEF Rest, Most, StatsValues
<1>2. FarmInv(f)'
  BY <1>1, FarmStays
<1>3. ASSUME file' \notin {Missing, Torn}
      PROVE  file' \in [farm : Farm, time : 0..MaxTime] /\ FarmInv(file.farm)'
  <2>1. PICK g \in Farm : /\ file' \in [farm : Farm, time : 0..MaxTime]
                          /\ file'.farm = g /\ FarmInv(g)
    BY <1>3 DEF IInv, TypeOK
  <2>2. FarmInv(g)'
    BY <1>1, <2>1, FarmStays
  <2> QED BY <2>1, <2>2 DEF FarmInv
<1>4. ASSUME screen' = "pet"
      PROVE  Settled(farm)' /\ (file' \notin {Missing, Torn} => Settled(file.farm)')
  <2>1. ASSUME NEW g \in Farm, Settled(g)
        PROVE  Settled(g)'
    <3>1. Most \in Nat /\ g.known \in Nat
      BY Numbers, FarmFacts
    <3> QED BY <1>1, <2>1, <3>1 DEF Settled
  <2>2. /\ Settled(f)
        /\ file' \notin {Missing, Torn} =>
               file' = file \/ file' = [farm |-> farm, time |-> clock]
    BY <1>4 DEF IInv
  <2>3. Settled(farm)'
    BY <2>1, <2>2 DEF Settled
  <2>4. ASSUME file' \notin {Missing, Torn}
        PROVE  Settled(file.farm)'
    <3>1. PICK g \in Farm : file'.farm = g /\ Settled(g)
      BY <1>4, <2>2, <2>4 DEF IInv, TypeOK
    <3> QED BY <2>1, <3>1 DEF Settled
  <2> QED BY <2>3, <2>4
<1> QED BY <1>2, <1>3, <1>4 DEF IInv, TypeOK, Rest, FarmInv

\* No statistics grow in a step that leaves those of the file alone and forgets
\* those of the reader.
LEMMA MostFalls ==
    ASSUME IInv, Rest', book' = book \/ book' = NoStats,
           live' = live \/ live' = NoStats \/ live' = book
    PROVE  Most' <= Most
<1>1. /\ book.turns \in Nat /\ live.turns \in Nat
      /\ book'.turns \in Nat /\ live'.turns \in Nat
  BY Bounds, Numbers DEF Rest, StatsValues
<1>2. NoStats.turns = 0
  BY DEF NoStats
<1> QED BY <1>1, <1>2 DEF Most

\* The steps that leave the farm as it was, or load it.
LEMMA FileSteps ==
    ASSUME IInv, WriteFile \/ DrawPlant \/ ClockMoves \/ PowerLoss
    PROVE  IInv'
<1>1. Rest'
  <2>1. Rest /\ NoStats \in StatsValues /\ NoStats.turns = 0 /\ book.turns \in Nat /\ ever \in Nat
    BY Parts, Numbers, Bounds DEF NoStats, StatsValues
  <2>2. Load(farm).ok \in BOOLEAN /\ Load(farm).clock \in 0..MaxTime
    BY LoadFacts
  <2>3. CASE WriteFile
    BY <2>1, <2>3 DEF WriteFile, Rest, statsVars, history
  <2>4. CASE DrawPlant
    BY <2>1, <2>2, <2>4 DEF DrawPlant, LoadFarm, Rest, statsVars, history
  <2>5. CASE ClockMoves
    BY <2>1, <2>5, Bounds DEF ClockMoves, Rest, statsVars, history, petVars
  <2>6. CASE PowerLoss
    <3>1. clock' \in 0..MaxTime /\ NoStats.turns <= ever
      BY <2>1, <2>6, Bounds DEF PowerLoss, Rest
    <3> QED BY <2>1, <2>6, <3>1 DEF PowerLoss, Rest, history, Screens
  <2> QED BY <2>3, <2>4, <2>5, <2>6
<1>2. Most' <= Most
  BY <1>1, MostFalls DEF WriteFile, DrawPlant, ClockMoves, PowerLoss, statsVars
<1>3. PICK f \in Farm :
         /\ farm' = f /\ FarmInv(f)
         /\ screen' = "pet" => \/ f = farm
                               \/ file \notin {Missing, Torn} /\ f = file.farm
  BY LoadFacts, NewFarmIsSound, NoPlantIsBounded
     DEF IInv, TypeOK, FarmInv, WriteFile, DrawPlant, LoadFarm, ClockMoves, PowerLoss, petVars
<1>4. /\ UNCHANGED <<ever, text>> /\ inOrder' = inOrder
      /\ file' \in {file, Missing, Torn, [farm |-> farm, time |-> clock]}
      /\ screen' = "pet" => screen = "pet"
  BY DEF WriteFile, Written, DrawPlant, ClockMoves, PowerLoss, petVars, history
<1> QED BY <1>1, <1>2, <1>3, <1>4, QuietStep

\* The steps of the home screen but the opening of the plant screen.
LEMMA HomeSteps ==
    ASSUME IInv, OpenEpub \/ (\E kind \in {"xtc", "text"} : OpenOther(kind)) \/ ResetStats
    PROVE  IInv'
<1>1. Rest'
  <2>1. Rest /\ NoStats \in StatsValues /\ NoStats.turns = 0 /\ book.turns \in Nat /\ ever \in Nat
    BY Parts, Numbers, Bounds DEF NoStats, StatsValues
  <2>2. Load(farm).ok \in BOOLEAN /\ Load(farm).clock \in 0..MaxTime
    BY LoadFacts
  <2>3. CASE OpenEpub
    BY <2>1, <2>3 DEF OpenEpub, Rest, petVars, history, Screens
  <2>4. CASE \E kind \in {"xtc", "text"} : OpenOther(kind)
    BY <2>1, <2>2, <2>4 DEF OpenOther, LoadFarm, Rest, history, Screens
  <2>5. CASE ResetStats
    BY <2>1, <2>5 DEF ResetStats, On, Rest, history, petVars
  <2> QED BY <2>3, <2>4, <2>5
<1>2. Most' <= Most
  BY <1>1, MostFalls DEF OpenEpub, OpenOther, ResetStats
<1>3. PICK f \in Farm : farm' = f /\ FarmInv(f)
  BY LoadedFarm DEF IInv, TypeOK, OpenEpub, OpenOther, LoadFarm, ResetStats, petVars
<1>4. /\ UNCHANGED <<ever, text>> /\ inOrder' = inOrder /\ file' = file /\ screen' # "pet"
  BY DEF OpenEpub, OpenOther, ResetStats, petVars, history, On
<1> QED BY <1>1, <1>2, <1>3, <1>4, QuietStep

\* The end of a session.
LEMMA LeavingSteps ==
    ASSUME IInv, (\E longEnough \in BOOLEAN : LeaveReader(longEnough)) \/ LeaveFarm \/ LeaveText
                 \/ TurnBack
    PROVE  IInv'
<1>1. Rest /\ NoStats \in StatsValues /\ NoStats.turns = 0 /\ book.turns \in Nat /\ ever \in Nat
  BY Parts, Numbers, Bounds DEF NoStats, StatsValues
<1>2. CASE \E longEnough \in BOOLEAN : LeaveReader(longEnough)
  <2>1. PICK b \in BOOLEAN : LeaveReader(b)
    BY <1>2
  <2> DEFINE s == [live EXCEPT !.seconds = live.seconds \/ b]
  <2>2. s \in StatsValues /\ s.turns = live.turns /\ live' = s /\ book' \in {book, s}
    BY <1>1, <2>1 DEF LeaveReader, Rest, StatsValues
  <2> HIDE DEF s
  <2>3. Rest'
    <3>1. book.turns <= live.turns /\ s.turns <= ever /\ s.turns \in Nat
      BY <1>1, <2>1, <2>2, Numbers DEF LeaveReader, On, Rest
    <3>2. book'.turns <= ever /\ book'.turns <= s.turns /\ book' \in StatsValues
      BY <1>1, <2>2, <3>1 DEF Rest
    <3> QED BY <1>1, <2>1, <2>2, <3>1, <3>2 DEF LeaveReader, Rest, petVars, history, Screens
  <2>4. Most' <= Most
    BY <1>1, <2>1, <2>2, Numbers DEF LeaveReader, On, Rest, Most
  <2>5. farm \in Farm /\ farm' = farm /\ FarmInv(farm)
    BY <2>1, Parts DEF LeaveReader, petVars
  <2>6. UNCHANGED <<ever, text>> /\ inOrder' = inOrder /\ file' = file /\ screen' # "pet"
    BY <2>1 DEF LeaveReader, petVars, history
  <2> QED BY <2>3, <2>4, <2>5, <2>6, QuietStep
<1>3. CASE LeaveFarm
  <2>1. Load(farm).ok \in BOOLEAN /\ Load(farm).clock \in 0..MaxTime
    BY LoadFacts
  <2>2. Rest'
    <3>1. NoStats.turns <= ever /\ loaded' \in BOOLEAN /\ clock' \in 0..MaxTime
      BY <1>1, <1>3, <2>1 DEF LeaveFarm
    <3>2. saving' \in BOOLEAN
      BY <1>1, <1>3 DEF LeaveFarm, Save, Rest
    <3> QED BY <1>1, <1>3, <3>1, <3>2 DEF LeaveFarm, Rest, history, Screens
  <2>3. Most' <= Most
    BY <1>3, <2>2, MostFalls DEF LeaveFarm
  <2>4. PICK f \in Farm : farm' = f /\ FarmInv(f)
    <3>1. live.turns = Most /\ live \in StatsValues
      BY <1>1, <1>3, Numbers DEF LeaveFarm, On, Rest
    <3>2. Sync(Load(farm).farm, live) \in Farm /\ FarmInv(Sync(Load(farm).farm, live))
      BY <3>1, LoadedFarm, SyncKeepsFarm
    <3> QED BY <1>3, <3>2, Parts DEF LeaveFarm, Save
  <2>5. UNCHANGED <<ever, text>> /\ inOrder' = inOrder /\ file' \in {file, Missing} /\ screen' # "pet"
    BY <1>3 DEF LeaveFarm, Save, history
  <2> QED BY <2>2, <2>3, <2>4, <2>5, QuietStep
<1>4. CASE LeaveText
  <2>1. Rest'
    BY <1>1, <1>4 DEF LeaveText, On, Save, Rest, statsVars, history, Screens
  <2>2. Most' <= Most
    BY <1>4, <2>1, MostFalls DEF LeaveText, statsVars
  <2>3. farm \in Farm /\ farm' = farm /\ FarmInv(farm)
    BY <1>4, Parts DEF LeaveText, Save
  <2>4. UNCHANGED <<ever, text>> /\ inOrder' = inOrder /\ file' = Missing /\ screen' # "pet"
    BY <1>4 DEF LeaveText, Save, history
  <2> QED BY <2>1, <2>2, <2>3, <2>4, QuietStep
<1>5. CASE TurnBack
  <2>1. Rest'
    BY <1>1, <1>5 DEF TurnBack, Rest, statsVars, history
  <2>2. Most' <= Most
    BY <1>5, <2>1, MostFalls DEF TurnBack, statsVars
  <2>3. PICK f \in Farm : farm' = f /\ FarmInv(f)
    <3>1. live.turns = Most /\ live \in StatsValues
      BY <1>1, <1>5, Numbers DEF TurnBack, On, Rest
    <3> QED BY <1>5, <3>1, Parts, SyncKeepsFarm DEF TurnBack
  <2>4. UNCHANGED <<ever, text>> /\ inOrder' = inOrder /\ file' = file /\ screen' # "pet"
    BY <1>5 DEF TurnBack, On, history
  <2> QED BY <2>1, <2>2, <2>3, <2>4, QuietStep
<1> QED BY <1>2, <1>3, <1>4, <1>5

\* A plant is hatched: it has the reading of all time before it, and none of it
\* to come.
LEMMA HatchStep ==
    ASSUME IInv, NEW p \in Plots, Hatch(p)
    PROVE  IInv'
<1> DEFINE new == [NoPlant EXCEPT !.stage = "alive", !.tick = clock, !.base = ever]
           h == [farm.plots EXCEPT ![p] = new]
           f == [farm EXCEPT !.plots = h]
<1>1. /\ Rest /\ farm \in Farm /\ FarmInv(farm) /\ Settled(farm) /\ screen = "pet"
      /\ p \in 1..farm.owned /\ clock \in Nat
      /\ farm.owned \in Plots /\ farm.known \in Nat /\ farm.plots \in [Plots -> Plant]
  BY Parts, FarmFacts, Bounds DEF Hatch, On, Rest, Plots
<1>2. /\ new \in Plant /\ new.stage = "alive" /\ new.pages = 0 /\ new.tick = clock
      /\ new.base = ever
  <2>1. 0 \in Nat /\ ever \in 0..MaxTurns /\ clock \in 0..MaxTime
    BY <1>1 DEF Rest
  <2> QED BY <2>1 DEF NoPlant, Plant
<1> HIDE DEF new
<1>3. /\ h \in [Plots -> Plant] /\ h[p] = new
      /\ \A x \in Plots \ {p} : h[x] = farm.plots[x]
  BY <1>1, <1>2
<1>4. farm' = f
  BY DEF Hatch, Save, new
<1> HIDE DEF h
<1>5. /\ f \in Farm /\ f.owned = farm.owned /\ f.known = farm.known /\ f.read = farm.read
      /\ f.plots = h
  BY <1>1, <1>3 DEF Farm
<1> HIDE DEF f
<1>6. Exists(f.plots[p]) /\ AnyPlotExists(f)
  BY <1>1, <1>2, <1>3, <1>5 DEF Exists, AnyPlotExists
<1>7. NeverSynced(f) <=> NeverSynced(farm)
  BY <1>5 DEF NeverSynced
<1>8. Shape(f)
  <2>1. \A x \in Plots : x > f.owned => ~Exists(f.plots[x])
    BY <1>1, <1>3, <1>5, Bounds DEF FarmInv, Shape, Plots
  <2>2. Exists(f.plots[1])
    <3>1. CASE p = 1
      BY <1>6, <3>1
    <3>2. CASE p # 1
      <4>1. farm.owned # 1
        BY <1>1, <3>2
      <4> QED BY <1>1, <1>3, <1>5, <3>2, <4>1, FarmFacts DEF FarmInv, Shape
    <3> QED BY <3>1, <3>2
  <2> QED BY <1>6, <2>1, <2>2 DEF Shape
<1>9. Bounded(f, 2 * ever + text, Most)
  <2> SUFFICES ASSUME NEW x \in 1..f.owned, Alive(f.plots[x])
               PROVE  /\ f.plots[x].pages <= 2 * ever + text
                      /\ f.plots[x].pages + Most <= 2 * ever + text + f.known
    BY DEF Bounded
  <2>1. x \in Plots
    BY <1>5, FarmFacts
  <2>2. CASE x = p
    BY <1>1, <1>2, <1>3, <1>5, <2>2, Numbers
  <2>3. CASE x # p
    BY <1>1, <1>3, <1>5, <2>1, <2>3 DEF FarmInv, Bounded
  <2> QED BY <2>2, <2>3
<1>10. ASSUME inOrder', text = 0
       PROVE  Ticking(f) /\ BoundedSinceHatch(f, 2 * ever, Most)
  <2>1. inOrder /\ clock > 0
    BY <1>10 DEF Hatch
  <2>2. Ticking(farm) /\ BoundedSinceHatch(farm, 2 * ever, Most)
    BY <1>1, <1>10, <2>1 DEF FarmInv
  <2>3. Ticking(f)
    BY <1>2, <1>3, <1>5, <2>1, <2>2 DEF Ticking
  <2> SUFFICES ASSUME NEW x \in 1..f.owned, Alive(f.plots[x])
               PROVE  /\ f.plots[x].pages <= 2 * ever - 2 * f.plots[x].base
                      /\ \/ NeverSynced(f)
                         \/ f.plots[x].pages + Most <= 2 * ever - 2 * f.plots[x].base + f.known
    BY <2>3 DEF BoundedSinceHatch
  <2>4. x \in Plots
    BY <1>5, FarmFacts
  <2>5. CASE x = p
    BY <1>1, <1>2, <1>3, <1>5, <1>7, <2>5, Numbers DEF Settled
  <2>6. CASE x # p
    BY <1>1, <1>3, <1>5, <1>7, <2>2, <2>4, <2>6 DEF BoundedSinceHatch
  <2> QED BY <2>5, <2>6
<1>11. /\ UNCHANGED <<ever, text, loaded, clock, book, live, screen>>
       /\ file' = Missing /\ saving' = TRUE
       /\ inOrder' \in BOOLEAN
       /\ inOrder' => inOrder
  BY <1>1 DEF Hatch, Save, statsVars, Rest
<1>12. Rest' /\ Most' = Most
  BY <1>1, <1>11 DEF Rest, Most
<1>13. PICK g \in Farm : g = f
  BY <1>5
\* The history of the order may end here, and with it what follows from it.
<1>14. FarmInv(g)'
  BY <1>8, <1>9, <1>10, <1>11, <1>12, <1>13 DEF FarmInv
<1>15. Settled(g)'
  BY <1>1, <1>5, <1>7, <1>12, <1>13 DEF Settled
<1> QED BY <1>4, <1>5, <1>11, <1>12, <1>13, <1>14, <1>15 DEF IInv, TypeOK, Rest, FarmInv, Settled

LEMMA UnlockStep ==
    ASSUME IInv, UnlockNextPlot
    PROVE  IInv'
<1> DEFINE f == [farm EXCEPT !.owned = farm.owned + 1]
<1>1. /\ Rest /\ farm \in Farm /\ FarmInv(farm) /\ Settled(farm) /\ AnyPlotExists(farm)
      /\ farm.owned \in Plots /\ farm.owned + 1 \in Plots /\ farm' = f
  <2>1. Rest /\ farm \in Farm /\ FarmInv(farm) /\ Settled(farm) /\ farm.owned \in Plots
    BY Parts, FarmFacts DEF UnlockNextPlot, On
  <2> QED BY <2>1, Bounds DEF UnlockNextPlot, Save, Plots
<1>2. /\ f \in Farm /\ f.owned = farm.owned + 1 /\ f.known = farm.known /\ f.read = farm.read
      /\ f.plots = farm.plots
  BY <1>1 DEF Farm
<1> HIDE DEF f
<1>3. ~Exists(farm.plots[farm.owned + 1]) /\ farm.owned \in Nat
  BY <1>1 DEF FarmInv, Shape, Plots
<1>4. AnyPlotExists(f)
  <2>1. PICK x \in 1..farm.owned : Exists(farm.plots[x])
    BY <1>1 DEF AnyPlotExists
  <2>2. x \in 1..f.owned
    BY <1>2, <1>3
  <2> QED BY <1>2, <2>1, <2>2 DEF AnyPlotExists
<1>5. Shape(f) /\ (NeverSynced(f) <=> NeverSynced(farm))
  BY <1>1, <1>2, <1>3, <1>4 DEF FarmInv, Shape, NeverSynced, Plots
<1>6. \A x \in 1..f.owned : Alive(f.plots[x]) => x \in 1..farm.owned
  BY <1>2, <1>3 DEF Alive, Exists
<1>7. FarmInv(f)
  BY <1>1, <1>2, <1>5, <1>6 DEF FarmInv, Bounded, BoundedSinceHatch, Ticking
<1>8. Settled(f)
  BY <1>1, <1>2, <1>5 DEF Settled
<1>9. /\ UNCHANGED <<ever, text, inOrder, loaded, clock, book, live, screen>>
      /\ file' = Missing /\ saving' = TRUE
  BY DEF UnlockNextPlot, Save, statsVars, history
<1>10. Rest'
  BY <1>1, <1>9 DEF Rest
<1>11. Most' <= Most
  BY <1>10, <1>9, MostFalls
<1> QED BY <1>1, <1>2, <1>7, <1>8, <1>9, <1>10, <1>11, QuietStep

LEMMA PetSteps ==
    ASSUME IInv, EnterPet \/ ResetData \/ LeavePet
    PROVE  IInv'
<1>1. Rest
  BY Parts
<1>2. CASE EnterPet
  <2>1. live = NoStats /\ book.turns = Most /\ book \in StatsValues /\ Most \in Nat
    BY <1>1, <1>2, Numbers DEF EnterPet, On, Rest
  <2>2. Load(farm).ok \in BOOLEAN /\ Load(farm).clock \in 0..MaxTime
    BY LoadFacts
  <2> DEFINE g == Sync(Load(farm).farm, book)
  <2>3. g \in Farm /\ FarmInv(g) /\ Settled(g)
    <3>1. Load(farm).farm \in Farm /\ FarmInv(Load(farm).farm)
      BY LoadedFarm
    <3>2. g \in Farm /\ FarmInv(g)
      BY <2>1, <3>1, SyncKeepsFarm
    <3>3. NeverSynced(g) \/ book.turns <= g.known
      BY <2>1, <3>1, SyncIsBounded, 0 \in Nat DEF FarmInv
    <3> QED BY <2>1, <3>2, <3>3 DEF Settled
  <2>4. PICK dying \in SUBSET Plots : farm' = Tick(g, dying, Load(farm).clock)
    BY <1>2 DEF EnterPet, Save
  <2> HIDE DEF g
  <2> DEFINE f == Tick(g, dying, Load(farm).clock)
  <2>5. f \in Farm /\ FarmInv(f) /\ Settled(f)
    <3>1. 2 * ever + text \in Nat /\ 2 * ever \in Nat
      BY Numbers
    <3>2. f \in Farm /\ Shape(f) /\ f.known = g.known /\ (NeverSynced(g) => NeverSynced(f))
      BY <2>1, <2>2, <2>3, <3>1, TickIsBounded DEF FarmInv
    <3>3. Bounded(f, 2 * ever + text, Most)
      BY <2>1, <2>2, <2>3, <3>1, TickIsBounded DEF FarmInv
    <3>4. inOrder /\ text = 0 => Ticking(f) /\ BoundedSinceHatch(f, 2 * ever, Most)
      BY <2>1, <2>2, <2>3, <3>1, TickIsBounded DEF FarmInv
    <3> QED BY <2>3, <3>2, <3>3, <3>4 DEF FarmInv, Settled
  <2> HIDE DEF f
  <2>6. /\ UNCHANGED <<ever, text, inOrder, book, live>> /\ screen' = "pet"
        /\ file' = Missing /\ saving' = TRUE
        /\ loaded' = Load(farm).ok /\ clock' = Load(farm).clock
    BY <1>2 DEF EnterPet, Save, statsVars, history
  <2>7. Rest'
    BY <1>1, <2>1, <2>2, <2>6 DEF Rest, Screens
  <2>8. Most' <= Most
    BY <2>6, <2>7, MostFalls
  <2> QED BY <2>4, <2>5, <2>6, <2>7, <2>8, QuietStep DEF f
<1>3. CASE ResetData
  <2>1. /\ UNCHANGED <<ever, text, inOrder, clock, book, live, screen>>
        /\ farm' = NewFarm /\ file' = Missing /\ saving' = TRUE /\ loaded' = TRUE
    BY <1>3 DEF ResetData, Save, statsVars, history
  <2>2. NewFarm \in Farm /\ FarmInv(NewFarm) /\ Settled(NewFarm)
    BY NewFarmIsSound DEF FarmInv, Settled
  <2>3. Rest'
    BY <1>1, <2>1 DEF Rest
  <2>4. Most' <= Most
    BY <2>1, <2>3, MostFalls
  <2> QED BY <2>1, <2>2, <2>3, <2>4, QuietStep
<1>4. CASE LeavePet
  <2>1. /\ UNCHANGED <<ever, text, inOrder, clock, book, live, loaded>>
        /\ farm' = farm /\ file' = Missing /\ saving' = TRUE
        /\ screen = "pet" /\ screen' = "home"
    BY <1>4 DEF LeavePet, On, Save, statsVars, history
  <2>2. farm \in Farm /\ FarmInv(farm)
    BY Parts
  <2>3. Rest'
    BY <1>1, <2>1 DEF Rest, Screens
  <2>4. Most' <= Most
    BY <2>1, <2>3, MostFalls
  <2> QED BY <2>1, <2>2, <2>3, <2>4, QuietStep
<1> QED BY <1>2, <1>3, <1>4

\* A page is counted: the file lags behind, within the bounds.
LEMMA PageStep ==
    ASSUME IInv, Rest', NEW f \in Farm, farm' = f, Shape(f), file' = file, screen' # "pet",
           Bounded(f, 2 * ever' + text', Most'),
           inOrder' /\ text' = 0 => Ticking(f) /\ BoundedSinceHatch(f, 2 * ever', Most'),
           inOrder' => inOrder, text' \in {text, text + 1},
           \/ ever' = ever /\ Most' = Most
           \/ ever' = ever + 1 /\ Most' = Most + 1
    PROVE  IInv'
<1>1. /\ 2 * ever + text \in Nat /\ 2 * ever' + text' \in Nat
      /\ 2 * ever \in Nat /\ 2 * ever' \in Nat /\ Most \in Nat /\ Most' \in Nat
      /\ 2 * ever + text <= 2 * ever' + text' /\ 2 * ever <= 2 * ever'
      /\ Most' + (2 * ever + text) <= Most + (2 * ever' + text')
      /\ Most' + 2 * ever <= Most + 2 * ever'
      /\ text' = 0 => text = 0
  BY Numbers
<1>2. ASSUME file \notin {Missing, Torn}
      PROVE  FarmInv(file.farm)'
  <2>1. PICK g \in Farm : file.farm = g /\ FarmInv(g)
    BY <1>2 DEF IInv, TypeOK
  <2>2. Bounded(g, 2 * ever' + text', Most')
    BY <1>1, <2>1, LimitRises DEF FarmInv
  <2>3. inOrder' /\ text' = 0 => Ticking(g) /\ BoundedSinceHatch(g, 2 * ever', Most')
    BY <1>1, <2>1, LimitRises DEF FarmInv
  <2> QED BY <2>1, <2>2, <2>3 DEF FarmInv
<1>3. FarmInv(f)'
  BY DEF FarmInv
<1> QED BY <1>2, <1>3 DEF IInv, TypeOK, Rest, FarmInv

LEMMA TextStep ==
    ASSUME IInv, TurnTextPage
    PROVE  IInv'
<1>1. /\ Rest /\ Load(farm).farm \in Farm /\ FarmInv(Load(farm).farm)
      /\ Load(farm).ok \in BOOLEAN /\ Load(farm).clock \in 0..MaxTime
  BY Parts, LoadedFarm, LoadFacts
<1>2. PICK sick \in SUBSET Plots : farm' = PageTurned(Load(farm).farm, sick, Load(farm).clock)
  BY DEF TurnTextPage
<1>3. /\ UNCHANGED <<ever, inOrder, book, live, screen, file, saving>> /\ screen = "text"
      /\ text' = text + 1 /\ ever + text < MaxTurns
      /\ loaded' = Load(farm).ok /\ clock' = Load(farm).clock
  BY DEF TurnTextPage, On, statsVars
<1>4. Rest' /\ Most' = Most
  <2>1. text' \in 0..MaxTurns
    BY <1>3, Numbers, Bounds
  <2> QED BY <1>1, <1>3, <2>1 DEF Rest, Most
<1>5. Most \in Nat /\ text \in Nat /\ ever \in Nat /\ 2 * ever + text \in Nat
  BY Numbers
<1>6. PICK f \in Farm : /\ farm' = f /\ Shape(f) /\ Bounded(f, 2 * ever + text + 1, Most)
  BY <1>1, <1>2, <1>5, PageIsBounded DEF FarmInv
<1>7. 2 * ever' + text' = 2 * ever + text + 1 /\ text' # 0
  BY <1>3, <1>5
<1> QED BY <1>3, <1>4, <1>6, <1>7, PageStep

LEMMA TurnStep ==
    ASSUME IInv, TurnPage
    PROVE  IInv'
<1> DEFINE l == 2 * ever + text
           s == [live EXCEPT !.turns = live.turns + 1]
<1>1. /\ Rest /\ farm \in Farm /\ FarmInv(farm) /\ Most = live.turns
      /\ Most \in Nat /\ ever \in Nat /\ text \in Nat /\ l \in Nat /\ book.turns \in Nat
      /\ live \in StatsValues /\ book.turns <= live.turns /\ live.turns <= ever
      /\ ever + text < MaxTurns
  BY Parts, Numbers DEF TurnPage, On, Rest
<1>2. s \in StatsValues /\ s.turns = Most + 1
  BY <1>1, Bounds DEF StatsValues
<1>3. /\ UNCHANGED <<file, saving, book, screen, text>> /\ live' = s
      /\ ever' = ever + 1 /\ screen \in {"epub", "xtc"}
      /\ inOrder' = (inOrder /\ (loaded \/ file \in {Missing, Torn}))
  BY DEF TurnPage, On
<1>4. PICK r, sick : /\ r = Load(Sync(farm, s))
                     /\ farm' = PageTurned(r.farm, sick, r.clock)
                     /\ loaded' = r.ok /\ clock' = r.clock
  BY <1>3 DEF TurnPage
<1> HIDE DEF s
<1>5. Rest' /\ Most' = Most + 1
  <2>1. r.ok \in BOOLEAN /\ r.clock \in 0..MaxTime
    BY <1>4, LoadFacts
  <2>2. ever' \in 0..MaxTurns /\ s.turns <= ever' /\ book.turns <= ever' /\ book.turns <= s.turns
    BY <1>1, <1>2, <1>3, Bounds
  <2>3. Most' = s.turns
    BY <1>1, <1>2, <1>3 DEF Most
  <2> QED BY <1>1, <1>2, <1>3, <1>4, <2>1, <2>2, <2>3 DEF Rest
<1>6. ASSUME NEW f \in Farm, FarmInv(f)
      PROVE  /\ Bounded(f, l + 1, Most + 1)
             /\ inOrder /\ text = 0 => BoundedSinceHatch(f, 2 * ever + 1, Most + 1)
  <2>1. l + 1 \in Nat /\ Most + 1 \in Nat /\ 2 * ever \in Nat /\ 2 * ever + 1 \in Nat
    BY <1>1
  <2>2. /\ l <= l + 1 /\ (Most + 1) + l <= Most + (l + 1)
        /\ 2 * ever <= 2 * ever + 1 /\ (Most + 1) + 2 * ever <= Most + (2 * ever + 1)
    BY <1>1
  <2>3. Bounded(f, l, Most) => Bounded(f, l + 1, Most + 1)
    <3> HIDE DEF l
    <3> QED BY <1>1, <2>1, <2>2, LimitRises
  <2>4. BoundedSinceHatch(f, 2 * ever, Most) => BoundedSinceHatch(f, 2 * ever + 1, Most + 1)
    BY <1>1, <2>1, <2>2, LimitRises, SMTT(30)
  <2> QED BY <1>6, <2>3, <2>4 DEF FarmInv
<1>7. PICK g \in Farm :
         /\ g = Sync(farm, s) /\ Shape(g) /\ Bounded(g, l + 1, Most + 1)
         /\ inOrder /\ text = 0 => Ticking(g) /\ BoundedSinceHatch(g, 2 * ever + 1, Most + 1)
         /\ AnyPlotExists(g) => g.known = Most + 1
  <2>1. l + 1 \in Nat /\ 2 * ever + 1 \in Nat
    BY <1>1
  <2>2. Bounded(farm, l + 1, s.turns) /\ Shape(farm)
    BY <1>1, <1>2, <1>6 DEF FarmInv
  <2>3. inOrder /\ text = 0 => Ticking(farm) /\ BoundedSinceHatch(farm, 2 * ever + 1, s.turns)
    BY <1>1, <1>2, <1>6 DEF FarmInv
  <2> HIDE DEF l
  <2>4. Sync(farm, s) \in Farm /\ Shape(Sync(farm, s)) /\ Bounded(Sync(farm, s), l + 1, s.turns)
    BY <1>1, <1>2, <2>1, <2>2, SyncIsBounded
  <2>5. inOrder /\ text = 0 =>
            Ticking(Sync(farm, s)) /\ BoundedSinceHatch(Sync(farm, s), 2 * ever + 1, s.turns)
    BY <1>1, <1>2, <2>1, <2>2, <2>3, SyncIsBounded
  <2>6. AnyPlotExists(Sync(farm, s)) => Sync(farm, s).known = s.turns
    BY <1>1, <1>2, SyncFacts
  <2> QED BY <1>2, <2>4, <2>5, <2>6
<1>8. PICK h \in Farm :
         /\ r.farm = h /\ Shape(h) /\ Bounded(h, l + 1, Most + 1)
         /\ inOrder' => h = g
  <2>1. CASE r.farm = g
    BY <1>7, <2>1
  <2>2. CASE r.farm # g
    <3>1. ~loaded /\ file \notin {Missing, Torn} /\ r.farm \in Farm /\ FarmInv(r.farm)
      BY <1>4, <1>7, <2>2, LoadFacts
    <3>2. Bounded(r.farm, l + 1, Most + 1) /\ Shape(r.farm)
      BY <1>6, <3>1 DEF FarmInv
    <3>3. ~inOrder'
      BY <1>3, <3>1
    <3> QED BY <3>1, <3>2, <3>3
  <2> QED BY <2>1, <2>2
<1>9. PICK f \in Farm :
         /\ farm' = f /\ Shape(f) /\ Bounded(f, l + 1 + 1, Most + 1)
         /\ inOrder' /\ text = 0 => Ticking(f) /\ BoundedSinceHatch(f, 2 * ever + 1 + 1, Most + 1)
  <2>1. l + 1 \in Nat /\ 2 * ever + 1 \in Nat /\ Most + 1 \in Nat /\ Most + 1 # 0
    BY <1>1
  <2>2. inOrder' /\ text = 0 => /\ Ticking(h) /\ BoundedSinceHatch(h, 2 * ever + 1, Most + 1)
                                /\ AnyPlotExists(h) => ~NeverSynced(h)
    BY <1>3, <1>7, <1>8, <2>1 DEF NeverSynced
  <2> HIDE DEF l
  <2>3. farm' \in Farm /\ Shape(farm') /\ Bounded(farm', l + 1 + 1, Most + 1)
    BY <1>4, <1>8, <2>1, PageIsBounded
  <2>4. inOrder' /\ text = 0 => Ticking(farm') /\ BoundedSinceHatch(farm', 2 * ever + 1 + 1, Most + 1)
    BY <1>4, <1>8, <2>1, <2>2, PageIsBounded
  <2> QED BY <2>3, <2>4
<1>10. 2 * ever' + text' = l + 1 + 1 /\ 2 * ever' = 2 * ever + 1 + 1
  BY <1>1, <1>3
<1> HIDE DEF l
<1> QED BY <1>3, <1>5, <1>9, <1>10, PageStep

(***************************************************************************)
(* The theorems.                                                           *)
(***************************************************************************)
LEMMA InitIsSound == Init => IInv
<1> SUFFICES ASSUME Init PROVE IInv
  OBVIOUS
<1>1. book \in StatsValues /\ live \in StatsValues /\ live = NoStats /\ live.turns <= ever
      /\ book.turns <= ever /\ ever \in 0..MaxTurns
  <2>1. 0 \in 0..MaxTurns /\ 1 \in 0..MaxTurns /\ 0 \in Nat
    BY Bounds
  <2>2. NoStats \in StatsValues /\ NoStats.turns = 0
    BY <2>1 DEF NoStats, StatsValues
  <2>3. /\ [turns |-> 1, seconds |-> TRUE] \in StatsValues
        /\ [turns |-> 1, seconds |-> TRUE].turns = 1
    BY <2>1 DEF StatsValues
  <2>4. book \in StatsValues /\ book.turns \in {0, 1} /\ ever = book.turns /\ live = NoStats
    BY <2>2, <2>3 DEF Init
  <2>5. live.turns <= ever /\ book.turns <= ever /\ ever \in 0..MaxTurns
    BY <2>1, <2>2, <2>4
  <2> QED BY <2>2, <2>4, <2>5
<1>2. Rest
  <2>1. 0 \in 0..MaxTurns /\ 0 \in 0..MaxTime /\ 1 \in 0..MaxTime
    BY Bounds
  <2> QED BY <1>1, <2>1 DEF Init, Rest, Screens
<1>3. farm \in Farm /\ FarmInv(farm)
  BY NewFarmIsSound DEF Init, FarmInv
<1> QED BY <1>2, <1>3, Parts DEF Init

LEMMA NextKeepsIInv == IInv /\ [Next]_vars => IInv'
<1> SUFFICES ASSUME IInv, [Next]_vars PROVE IInv'
  OBVIOUS
<1>1. CASE UNCHANGED vars
  BY <1>1 DEF vars, petVars, statsVars, history, IInv, TypeOK, FarmInv, Most, Settled
<1>2. CASE Next
  BY <1>2, FileSteps, HomeSteps, LeavingSteps, PetSteps, HatchStep, UnlockStep, TextStep, TurnStep
     DEF Next
<1> QED BY <1>1, <1>2

\* For any number of plots, the farm in RAM, the farm in the file and the
\* statistics agree on what the plants may still be given.
THEOREM Invariance == Spec => []IInv
<1>1. Init => IInv
  BY InitIsSound
<1>2. IInv /\ [Next]_vars => IInv'
  BY NextKeepsIInv
<1> QED BY <1>1, <1>2, PTL DEF Spec

\* Variables keep their types.
THEOREM TypeCorrect == Spec => []TypeOK
<1>1. IInv => TypeOK
  BY DEF IInv
<1> QED BY <1>1, Invariance, PTL

\* The two ways to hear of a page count it at most twice, whatever files are
\* lost, loaded again or reset in between.
THEOREM AtMostTwice == Spec => []GrowthIsBounded
<1>1. IInv => GrowthIsBounded
  BY DEF IInv, FarmInv, Bounded, GrowthIsBounded, Living
<1> QED BY <1>1, Invariance, PTL

\* While the clock is set, no plain text is read and the farm is loaded before
\* pages are turned, the guard of the first sync serves the plants of all plots,
\* though it looks at the first plot only.
THEOREM GuardServesAllPlots == Spec => []OnlyPagesSinceHatch
<1>1. IInv => OnlyPagesSinceHatch
  <2> SUFFICES ASSUME IInv, inOrder, text = 0, NEW p \in Living
               PROVE  farm.plots[p].pages <= 2 * (ever - farm.plots[p].base)
    BY DEF OnlyPagesSinceHatch
  <2>1. farm \in Farm /\ p \in 1..farm.owned
    BY DEF IInv, TypeOK, Living
  <2>2. farm.plots[p].pages <= 2 * ever - 2 * farm.plots[p].base
    BY DEF IInv, FarmInv, BoundedSinceHatch, Living
  <2>3. ever \in Nat /\ farm.plots[p].base \in Nat /\ farm.plots[p].pages \in Nat
    BY <2>1, Numbers, FarmFacts, PlantFacts
  <2> QED BY <2>2, <2>3
<1> QED BY <1>1, Invariance, PTL

(***************************************************************************)
(* Nothing but a hatching and a reset takes pages from a plant.            *)
(***************************************************************************)
AtLeast(g, f) == \A p \in Plots : f.plots[p].pages <= g.plots[p].pages

LEMMA GrowIsMore ==
    ASSUME NEW plant \in Plant, NEW n \in Nat
    PROVE  Grow(plant, n) \in Plant /\ plant.pages <= Grow(plant, n).pages
<1>1. plant.pages \in Nat
  BY PlantFacts
<1>2. Grow(plant, n) = plant \/ Grow(plant, n) = [plant EXCEPT !.pages = plant.pages + n]
  BY DEF Grow
<1> QED BY <1>1, <1>2 DEF Plant

LEMMA CallsKeepPages ==
    ASSUME NEW f \in Farm
    PROVE  /\ AtLeast(f, f)
           /\ \A s \in StatsValues : AtLeast(Sync(f, s), f)
           /\ \A sick, now : AtLeast(PageTurned(f, sick, now), f)
           /\ \A dying, now : AtLeast(Tick(f, dying, now), f)
<1>1. /\ f.plots \in [Plots -> Plant] /\ \A p \in Plots : f.plots[p] \in Plant
      /\ \A p \in Plots : f.plots[p].pages \in Nat
  BY FarmFacts, PlantFacts
<1>2. AtLeast(f, f)
  BY <1>1 DEF AtLeast
<1>3. ASSUME NEW n \in Nat
      PROVE  AtLeast(GrowAll(f, n), f)
  <2> DEFINE h == [p \in Plots |-> IF p <= f.owned THEN Grow(f.plots[p], n) ELSE f.plots[p]]
  <2>1. GrowAll(f, n).plots = h
    BY DEF GrowAll, Farm
  <2>2. \A p \in Plots : f.plots[p].pages <= h[p].pages
    BY <1>1, GrowIsMore
  <2> QED BY <2>1, <2>2 DEF AtLeast
<1>4. ASSUME NEW s \in StatsValues
      PROVE  AtLeast(Sync(f, s), f)
  <2>1. \/ Sync(f, s) = f
        \/ Sync(f, s) = [f EXCEPT !.known = s.turns, !.read = s.seconds]
        \/ Sync(f, s) = [GrowAll(f, Delta(f, s)) EXCEPT !.known = s.turns, !.read = s.seconds]
    BY DEF Sync
  <2>2. Delta(f, s) \in Nat /\ GrowAll(f, Delta(f, s)) \in Farm
    BY DeltaFacts, GrownFarm
  <2>3. Sync(f, s).plots = f.plots \/ Sync(f, s).plots = GrowAll(f, Delta(f, s)).plots
    BY <2>1, <2>2 DEF Farm
  <2> QED BY <1>2, <1>3, <2>2, <2>3 DEF AtLeast
<1>5. ASSUME NEW sick, NEW now
      PROVE  AtLeast(PageTurned(f, sick, now), f)
  <2> DEFINE h == [p \in Plots |->
                     IF p > f.owned \/ p \in sick \/ Night(now) THEN f.plots[p]
                     ELSE Grow(f.plots[p], 1)]
  <2>1. PageTurned(f, sick, now) = f \/ PageTurned(f, sick, now).plots = h
    BY SMTT(30) DEF PageTurned, Farm
  <2>2. \A p \in Plots : f.plots[p].pages <= h[p].pages
    BY <1>1, GrowIsMore
  <2> QED BY <1>2, <2>1, <2>2 DEF AtLeast
<1>6. ASSUME NEW dying, NEW now
      PROVE  AtLeast(Tick(f, dying, now), f)
  <2> DEFINE h == [p \in Plots |-> IF p <= f.owned THEN Aged(f.plots[p], p \in dying, now)
                                   ELSE f.plots[p]]
  <2>1. Tick(f, dying, now).plots = h
    BY DEF Tick, Farm
  <2>2. ASSUME NEW plant \in Plant, NEW dies
        PROVE  Aged(plant, dies, now).pages = plant.pages
    BY DEF Aged, Plant
  <2>3. \A p \in Plots : f.plots[p].pages <= h[p].pages
    BY <1>1, <2>2
  <2> QED BY <2>1, <2>3 DEF AtLeast
<1> QED BY <1>2, <1>4, <1>5, <1>6

LEMMA LoadedKeepsPages ==
    ASSUME IInv, loaded, loaded', [Next]_vars
    PROVE  \A p \in Plots : \/ farm.plots[p].pages <= farm'.plots[p].pages
                            \/ farm'.plots[p].pages = 0 /\ screen = "pet"
<1>1. farm \in Farm /\ \A f : Load(f).farm = f
  BY DEF IInv, TypeOK, Load
<1>2. AtLeast(farm, farm) /\ live \in StatsValues /\ book \in StatsValues
  BY <1>1, CallsKeepPages, Numbers
<1>3. CASE UNCHANGED vars
  BY <1>2, <1>3 DEF vars, petVars, AtLeast
<1>4. CASE \/ WriteFile \/ DrawPlant \/ OpenEpub \/ (\E kind \in {"xtc", "text"} : OpenOther(kind))
           \/ (\E longEnough \in BOOLEAN : LeaveReader(longEnough)) \/ LeaveText \/ UnlockNextPlot
           \/ LeavePet \/ ResetStats \/ ClockMoves \/ PowerLoss
  <2>1. farm' = farm \/ farm' = [farm EXCEPT !.owned = farm.owned + 1]
    BY <1>1, <1>4 DEF WriteFile, DrawPlant, LoadFarm, OpenEpub, OpenOther, LeaveReader, LeaveText, Save,
                      UnlockNextPlot, LeavePet, ResetStats, ClockMoves, PowerLoss, petVars
  <2>2. farm'.plots = farm.plots
    BY <1>1, <2>1 DEF Farm
  <2> QED BY <1>2, <2>2 DEF AtLeast
<1>5. CASE TurnBack \/ LeaveFarm
  <2>1. farm' = farm \/ farm' = Sync(farm, live)
    BY <1>1, <1>5 DEF TurnBack, LeaveFarm, Save
  <2> QED BY <1>1, <1>2, <2>1, CallsKeepPages DEF AtLeast
<1>6. CASE TurnTextPage
  <2>1. PICK sick, now : farm' = PageTurned(farm, sick, now)
    BY <1>1, <1>6 DEF TurnTextPage
  <2> QED BY <1>1, <2>1, CallsKeepPages DEF AtLeast
<1>7. CASE TurnPage
  <2> DEFINE s == [live EXCEPT !.turns = live.turns + 1]
  <2>1. PICK sick, now : farm' = PageTurned(Sync(farm, s), sick, now)
    BY <1>1, <1>7 DEF TurnPage
  <2>2. s \in StatsValues
    <3>1. live.turns + 1 \in 0..MaxTurns
      BY <1>7, Numbers, Bounds DEF TurnPage, IInv
    <3> QED BY <1>2, <3>1 DEF StatsValues
  <2> HIDE DEF s
  <2>3. Sync(farm, s) \in Farm
    BY <1>1, <2>2, SyncFacts
  <2>4. AtLeast(Sync(farm, s), farm) /\ AtLeast(farm', Sync(farm, s))
    BY <1>1, <2>1, <2>2, <2>3, CallsKeepPages
  <2>5. farm' \in Farm
    BY <1>7, TurnStep DEF IInv, TypeOK
  <2> QED BY <1>1, <2>3, <2>4, <2>5, FarmFacts, PlantFacts DEF AtLeast
<1>8. CASE EnterPet
  <2>1. PICK dying, now : farm' = Tick(Sync(farm, book), dying, now)
    BY <1>1, <1>8 DEF EnterPet, Save
  <2>2. Sync(farm, book) \in Farm
    BY <1>1, <1>2, SyncFacts
  <2>3. AtLeast(Sync(farm, book), farm) /\ AtLeast(farm', Sync(farm, book))
    BY <1>1, <1>2, <2>1, <2>2, CallsKeepPages
  <2>4. farm' \in Farm
    BY <1>8, PetSteps DEF IInv, TypeOK
  <2> QED BY <1>1, <2>2, <2>3, <2>4, FarmFacts, PlantFacts DEF AtLeast
<1>9. CASE \E p \in Plots : Hatch(p)
  <2>1. PICK p \in Plots : Hatch(p)
    BY <1>9
  <2>2. \A x \in Plots : farm'.plots[x] = farm.plots[x] \/ farm'.plots[x].pages = 0
    BY <1>1, <2>1, FarmFacts DEF Hatch, Save, NoPlant, Farm
  <2> QED BY <1>2, <2>1, <2>2 DEF AtLeast, Hatch, On
<1>10. CASE ResetData
  <2>1. \A x \in Plots : farm'.plots[x].pages = 0
    BY <1>10 DEF ResetData, Save, NewFarm, NoPlant
  <2> QED BY <1>10, <2>1 DEF ResetData, On
<1> QED BY <1>3, <1>4, <1>5, <1>6, <1>7, <1>8, <1>9, <1>10 DEF Next

\* load() does not bring back an old file over what onPageTurned() has counted.
THEOREM LoadKeeps == Spec => LoadKeepsProgress
<1>1. IInv /\ [Next]_vars =>
          [loaded /\ loaded' =>
              \A p \in Plots :
                  \/ farm.plots[p].pages <= farm'.plots[p].pages
                  \/ farm'.plots[p].pages = 0 /\ screen = "pet"]_vars
  BY LoadedKeepsPages
<1> QED BY <1>1, Invariance, PTL DEF Spec, LoadKeepsProgress
=============================================================================
