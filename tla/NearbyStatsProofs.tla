------------------------- MODULE NearbyStatsProofs -------------------------
(***************************************************************************)
(* For any number of readers: what is on the air, and what a reader        *)
(* remembers of a sync, is true (Sound), and both halves of a sync that is *)
(* reported have been made.  For two readers: with each other.             *)
(***************************************************************************)
EXTENDS NearbyStats, TLAPS

(***************************************************************************)
(* Inboxes.                                                                *)
(***************************************************************************)
\* A packet that joins an inbox, or not, keeps it an inbox.
LEMMA EnqueueInbox ==
    ASSUME NEW P, NEW inbox \in Inboxes(P), NEW p \in P
    PROVE  Enqueue(inbox, p) \in Inboxes(P)
<1> DEFINE q == inbox.queue
<1>1. inbox \in [queue : Seq(P), overflow : BOOLEAN] /\ Len(q) <= MaxEvents
  BY DEF Inboxes
<1>2. MaxEvents \in Nat \ {0}
  BY NearbyAssumption
<1>3. CASE inbox.overflow \/ Len(q) >= MaxEvents
  <2>1. Enqueue(inbox, p) = [queue |-> <<>>, overflow |-> TRUE]
    BY <1>3 DEF Enqueue
  <2>2. <<>> \in Seq(P) /\ Len(<<>>) = 0
    OBVIOUS
  <2> QED BY <2>1, <2>2, <1>2 DEF Inboxes
<1>4. CASE ~(inbox.overflow \/ Len(q) >= MaxEvents)
  <2>1. Enqueue(inbox, p) = [inbox EXCEPT !.queue = Append(q, p)]
    BY <1>4 DEF Enqueue
  <2>2. q \in Seq(P)
    BY <1>1
  <2>3. Append(q, p) \in Seq(P) /\ Len(Append(q, p)) = Len(q) + 1
    BY <2>2
  <2>4. Len(q) \in Nat /\ Len(q) < MaxEvents
    BY <1>4, <1>2, <2>2
  <2> HIDE DEF q
  <2>5. Len(Append(q, p)) <= MaxEvents
    BY <2>3, <2>4, <1>2
  <2> QED BY <1>1, <2>1, <2>3, <2>5 DEF Inboxes
<1> QED BY <1>3, <1>4

LEMMA AirInboxes ==
    ASSUME NEW P, NEW S \in SUBSET Inboxes(P), NEW p \in P
    PROVE  Air(S, p) \subseteq Inboxes(P)
BY EnqueueInbox DEF Air

\* The events of the local statistics, and whether they were sent.
LEMMA LocalStatsInboxes ==
    ASSUME NEW P, NEW d, NEW r, NEW S \in SUBSET Inboxes(P),
           Name(d) \in P, Stats(d, r.local) \in P,
           NEW out \in LocalStatsSent(d, r, S)
    PROVE  out.sent \in BOOLEAN /\ out.inboxes \subseteq Inboxes(P)
<1>1. Air(S, Name(d)) \subseteq Inboxes(P)
  BY AirInboxes
<1>2. Air(Air(S, Name(d)), Stats(d, r.local)) \subseteq Inboxes(P)
  BY <1>1, AirInboxes
<1> QED BY <1>1, <1>2 DEF LocalStatsSent

LEMMA TailInbox ==
    ASSUME NEW P, NEW inbox \in Inboxes(P), inbox.queue # <<>>
    PROVE  /\ [inbox EXCEPT !.queue = Tail(@)] \in Inboxes(P)
           /\ Head(inbox.queue) \in P
<1> DEFINE q == inbox.queue
<1>1. inbox \in [queue : Seq(P), overflow : BOOLEAN] /\ Len(q) <= MaxEvents
  BY DEF Inboxes
<1>2. q \in Seq(P) /\ q # <<>>
  BY <1>1
<1>3. Tail(q) \in Seq(P) /\ Head(q) \in P /\ Len(Tail(q)) = Len(q) - 1 /\ Len(q) \in Nat
  BY <1>2
<1>4. Len(Tail(q)) <= MaxEvents
  <2> HIDE DEF q
  <2> QED BY <1>1, <1>3, NearbyAssumption
<1> QED BY <1>1, <1>3, <1>4 DEF Inboxes

\* The packets may be known to be more, or others.
LEMMA WiderInbox ==
    ASSUME NEW P, NEW Q, NEW inbox \in Inboxes(P),
           \A i \in 1 .. Len(inbox.queue) : inbox.queue[i] \in P => inbox.queue[i] \in Q
    PROVE  inbox \in Inboxes(Q)
<1> DEFINE q == inbox.queue
<1>1. inbox \in [queue : Seq(P), overflow : BOOLEAN] /\ Len(q) <= MaxEvents
  BY DEF Inboxes
<1>2. q \in Seq(P)
  BY <1>1
<1>3. \A i \in 1 .. Len(q) : q[i] \in Q
  BY <1>2
<1>4. q \in Seq(Q)
  BY <1>2, <1>3
<1> QED BY <1>1, <1>4 DEF Inboxes

LEMMA EmptyInbox == ASSUME NEW P PROVE NoEvents \in Inboxes(P)
<1>1. <<>> \in Seq(P) /\ Len(<<>>) = 0
  OBVIOUS
<1> QED BY <1>1, NearbyAssumption DEF NoEvents, Inboxes

(***************************************************************************)
(* Sound is kept.  But for the owner who reads on, statistics stay and a   *)
(* file changes to the present statistics of its reader, or is lost.       *)
(***************************************************************************)
Records == [Device -> [Device -> Amount \union {None, Lost}]]
Parts   == [Device -> [Device -> Amount \union {None}]]

FilesMove ==
    /\ UNCHANGED <<stats, newer>>
    /\ record' \in Records
    /\ part' \in Parts
    /\ \A x, y \in Device : record'[x][y] \in {record[x][y], stats[y], Lost}

LEMMA PacketFacts ==
    /\ \A p \in Packet : p.from \in Device /\ (p.type = "STATS" => p.stats \in Amount)
    /\ \A d \in Device : Hello(d) \in Packet /\ Name(d) \in Packet /\ Ack(d) \in Packet
    /\ \A d \in Device, n \in Amount : Stats(d, n) \in Packet
BY DEF Packet, Hello, Name, Ack, Stats

LEMMA FilesStay ==
    ASSUME Sound, UNCHANGED <<stats, record, part, newer>>
    PROVE  FilesMove
BY DEF Sound, TypeOK, FilesMove, Records, Parts

\* What is true stays so, and what may be sent now is true then.
LEMMA TruthStays ==
    ASSUME Sound, FilesMove, NEW x \in Device
    PROVE  /\ events[x] \in Inboxes(Truth(x)')
           /\ \A y \in Device \ {x} : Hello(y) \in Truth(x)' /\ Name(y) \in Truth(x)'
           /\ \A y \in Device \ {x} : Stats(y, stats[y]) \in Truth(x)'
<1>1. \A p \in Truth(x) : p \in Truth(x)'
  <2> SUFFICES ASSUME NEW p \in Truth(x)
               PROVE  p \in Truth(x)'
    OBVIOUS
  <2>1. p \in Packet /\ p.from # x /\ (p.type = "STATS" => p.stats = stats[p.from])
    BY DEF Truth
  <2>2. p.type = "ACK" => record[p.from][x] \in {stats[x], Lost}
    BY DEF Truth
  <2>3. p.from \in Device
    BY <2>1, PacketFacts
  <2>4. p.type = "ACK" => record'[p.from][x] \in {stats'[x], Lost}
    BY <2>2, <2>3 DEF FilesMove
  <2> QED BY <2>1, <2>4 DEF Truth, FilesMove
<1>2. events[x] \in Inboxes(Truth(x)')
  BY <1>1, WiderInbox DEF Sound
<1>3. ASSUME NEW y \in Device \ {x}
      PROVE  Hello(y) \in Truth(x)' /\ Name(y) \in Truth(x)'
  BY PacketFacts DEF Truth, Hello, Name
<1>4. ASSUME NEW y \in Device \ {x}
      PROVE  Stats(y, stats[y]) \in Truth(x)'
  <2>1. stats[y] \in Amount /\ stats' = stats
    BY DEF Sound, TypeOK, FilesMove
  <2> QED BY <2>1, PacketFacts DEF Truth, Stats
<1> QED BY <1>2, <1>3, <1>4

\* A step in which a reader d takes part changes nobody else's memory, and puts
\* true packets into the inboxes of readers that are on.
LEMMA SoundByStep ==
    ASSUME Sound, FilesMove, NEW d \in Device, NEW r \in Activity,
           dev' = [dev EXCEPT ![d] = r],
           DOMAIN events' = Device,
           \A x \in Device : events'[x] \in Inboxes(Truth(x)'),
           \A x \in Device \ {d} : ~IsOn(x) => events'[x] = events[x],
           MemoryIsTrue(d)'
    PROVE  Sound'
<1>1. dev' \in [Device -> Activity] /\ \A x \in Device \ {d} : dev'[x] = dev[x]
  BY DEF Sound, TypeOK
<1>2. \A x \in Device : events'[x] \in Inboxes(Packet)
  BY WiderInbox DEF Truth
<1>3. TypeOK'
  BY <1>1, <1>2 DEF Sound, TypeOK, FilesMove, Records, Parts
<1>4. ASSUME NEW x \in Device \ {d}
      PROVE  MemoryIsTrue(x)'
  <2>1. MemoryIsTrue(x) /\ dev'[x] = dev[x] /\ stats' = stats
    BY <1>1 DEF Sound, FilesMove
  <2>2. ~IsOn(x) => events'[x] = events[x]
    OBVIOUS
  <2> QED BY <2>1, <2>2 DEF MemoryIsTrue, IsOn
<1> QED BY <1>3, <1>4 DEF Sound

\* Send() puts true packets into the inbox of a reader that is on.
LEMMA SendIsSound ==
    ASSUME Sound, FilesMove, NEW box, NEW e, NEW S \in SUBSET Inboxes(Truth(e)'),
           DOMAIN box = Device, \A x \in Device : box[x] \in Inboxes(Truth(x)'),
           Send(box, e, S)
    PROVE  /\ DOMAIN events' = Device
           /\ \A x \in Device : events'[x] \in Inboxes(Truth(x)')
           /\ \A x \in Device : ~IsOn(x) /\ x # e => events'[x] = box[x]
           /\ ~IsOn(e) /\ e \in Device => events'[e] = events[e]
<1>1. PICK inbox \in IF IsOn(e) THEN S ELSE {events[e]} : events' = [box EXCEPT ![e] = inbox]
  BY DEF Send
<1>2. e \in Device => inbox \in Inboxes(Truth(e)')
  BY <1>1, TruthStays
<1> QED BY <1>1, <1>2

LEMMA HelloIsSound ==
    ASSUME Sound, FilesMove, NEW d \in Device, SendHello(d)
    PROVE  /\ DOMAIN events' = Device
           /\ \A x \in Device : events'[x] \in Inboxes(Truth(x)')
           /\ \A x \in Device : x = d \/ ~IsOn(x) => events'[x] = events[x]
<1>1. PICK heard \in SUBSET {e \in Others(d) : IsOn(e)} :
         events' = [e \in Device |-> IF e \in heard THEN Enqueue(events[e], Hello(d)) ELSE events[e]]
  BY DEF SendHello
<1>2. ASSUME NEW x \in Device
      PROVE  events'[x] \in Inboxes(Truth(x)')
  <2>1. events[x] \in Inboxes(Truth(x)') /\ (x # d => Hello(d) \in Truth(x)')
    BY TruthStays
  <2>2. CASE x \in heard
    BY <1>1, <2>1, <2>2, EnqueueInbox DEF Others
  <2>3. CASE x \notin heard
    BY <1>1, <2>1, <2>3
  <2> QED BY <2>2, <2>3
<1> QED BY <1>1, <1>2 DEF Others

(***************************************************************************)
(* The actions, one by one.                                                *)
(***************************************************************************)
\* A reader whose owner or whose radio leaves: Leave, PowerLoss, and the loss of
\* the power while the files are written.
LEMMA SwitchOffIsSound ==
    ASSUME Sound, FilesMove, NEW d \in Device, SwitchOff(d)
    PROVE  Sound'
<1>1. Closed \in Activity
  BY DEF Closed, Activity, States
<1>2. \A x \in Device : events'[x] \in Inboxes(Truth(x)')
  BY TruthStays, EmptyInbox DEF SwitchOff, Sound, TypeOK
<1>3. MemoryIsTrue(d)'
  BY <1>1, NearbyAssumption DEF SwitchOff, Sound, TypeOK, MemoryIsTrue, Closed, IsOn
<1> QED BY <1>1, <1>2, <1>3, SoundByStep DEF SwitchOff, Sound, TypeOK

LEMMA EnterIsSound == ASSUME Sound, NEW d \in Device, Enter(d) PROVE Sound'
<1>1. PICK state \in {"READY", "ERROR"} : dev' = [dev EXCEPT ![d] = [Closed EXCEPT !.state = state]]
  BY DEF Enter
<1> DEFINE r == [Closed EXCEPT !.state = state]
<1>2. r \in Activity
  BY DEF Closed, Activity, States
<1>3. FilesMove /\ \A x \in Device : events'[x] \in Inboxes(Truth(x)')
  BY FilesStay, TruthStays DEF Enter
<1>4. MemoryIsTrue(d)'
  BY <1>1, NearbyAssumption DEF Enter, Sound, TypeOK, MemoryIsTrue, Closed, IsOn
<1> QED BY <1>1, <1>2, <1>3, <1>4, SoundByStep DEF Enter, Sound, TypeOK

\* The owner of a reader that is off reads on: none of its packets is about.
LEMMA ReadIsSound == ASSUME Sound, NEW d \in Device, Read(d) PROVE Sound'
<1>1. stats' \in [Device -> Amount] /\ \A x \in Device \ {d} : stats'[x] = stats[x]
  <2>1. stats[d] \in 0 .. MaxStats /\ stats[d] < MaxStats /\ MaxStats \in Nat
    BY NearbyAssumption DEF Read, Sound, TypeOK, Amount
  <2>2. stats[d] + 1 \in Amount
    BY <2>1 DEF Amount
  <2> QED BY <2>2 DEF Read, Sound, TypeOK
<1>2. events[d] = NoEvents /\ dev[d] = Closed
  BY DEF Read, Sound, MemoryIsTrue
<1>3. ASSUME NEW x \in Device
      PROVE  events[x] \in Inboxes(Truth(x)')
  <2>1. CASE x = d
    BY <2>1, <1>2, EmptyInbox
  <2>2. CASE x # d
    <3>1. events[x] \in Inboxes(Truth(x))
      BY DEF Sound
    <3>2. ASSUME NEW i \in 1 .. Len(events[x].queue), events[x].queue[i] \in Truth(x)
          PROVE  events[x].queue[i] \in Truth(x)'
      <4>1. events[x].queue[i].from # d /\ events[x].queue[i].from \in Device
        BY <3>2, PacketFacts DEF Read, Truth
      <4> QED BY <3>2, <4>1, <1>1, <2>2 DEF Truth, Read
    <3> QED BY <3>1, <3>2, WiderInbox
  <2> QED BY <2>1, <2>2
<1>4. TypeOK'
  BY <1>1 DEF Sound, TypeOK, Read
<1>5. ASSUME NEW x \in Device PROVE MemoryIsTrue(x)'
  <2>1. MemoryIsTrue(x)
    BY DEF Sound
  <2> QED BY <2>1, <1>1, <1>2, NearbyAssumption DEF MemoryIsTrue, Read, IsOn, Closed
<1> QED BY <1>3, <1>4, <1>5 DEF Sound, Read

LEMMA StartSyncIsSound == ASSUME Sound, NEW d \in Device, StartSync(d) PROVE Sound'
<1>1. FilesMove
  BY FilesStay DEF StartSync
<1>2. CASE /\ dev' = [dev EXCEPT ![d] = [Closed EXCEPT !.state = "DISCOVERING", !.local = stats[d]]]
           /\ SendHello(d)
  <2> DEFINE r == [Closed EXCEPT !.state = "DISCOVERING", !.local = stats[d]]
  <2>1. r \in Activity
    BY DEF Closed, Activity, States, Sound, TypeOK
  <2>2. MemoryIsTrue(d)'
    BY <1>2, NearbyAssumption DEF StartSync, Sound, TypeOK, MemoryIsTrue, Closed, IsOn
  <2> QED BY <1>1, <1>2, <2>1, <2>2, HelloIsSound, SoundByStep
<1>3. CASE /\ dev' = [dev EXCEPT ![d] = [Closed EXCEPT !.state = "ERROR"]]
           /\ UNCHANGED events
  <2> DEFINE r == [Closed EXCEPT !.state = "ERROR"]
  <2>1. r \in Activity
    BY DEF Closed, Activity, States
  <2>2. MemoryIsTrue(d)'
    BY <1>3, NearbyAssumption DEF StartSync, Sound, TypeOK, MemoryIsTrue, Closed, IsOn
  <2>3. \A x \in Device : events'[x] \in Inboxes(Truth(x)')
    BY <1>1, <1>3, TruthStays
  <2> QED BY <1>1, <1>3, <2>1, <2>2, <2>3, SoundByStep DEF Sound, TypeOK
<1> QED BY <1>2, <1>3 DEF StartSync

\* TimeOut and Settle change the state only.
LEMMA ProgressIsSound ==
    ASSUME Sound, NEW d \in Device, TimeOut(d) \/ Settle(d)
    PROVE  Sound'
<1>1. PICK state \in {"ERROR", "SYNCED"} :
         /\ dev' = [dev EXCEPT ![d] = [dev[d] EXCEPT !.state = state]]
         /\ state = "SYNCED" => dev[d].saved /\ dev[d].acked
  BY DEF TimeOut, Settle, Sound, TypeOK
<1> DEFINE r == [dev[d] EXCEPT !.state = state]
<1>2. r \in Activity
  <2>1. dev[d] \in Activity
    BY DEF Sound, TypeOK
  <2>2. state \in States
    BY DEF States
  <2> HIDE DEF States
  <2> QED BY <2>1, <2>2 DEF Activity
<1>3. UNCHANGED <<events, stats, record, part, newer>> /\ IsOn(d)
  BY DEF TimeOut, Settle, Drained
<1>4. FilesMove /\ \A x \in Device : events'[x] \in Inboxes(Truth(x)')
  BY <1>3, FilesStay, TruthStays
<1>5. MemoryIsTrue(d)'
  <2>1. MemoryIsTrue(d) /\ dev'[d] = r
    BY <1>1 DEF Sound, TypeOK
  <2>2. r.local = dev[d].local /\ r.peer = dev[d].peer /\ r.seen = dev[d].seen
        /\ r.saved = dev[d].saved /\ r.acked = dev[d].acked /\ r.state = state
    BY DEF Sound, TypeOK, Activity
  <2> QED BY <1>1, <1>3, <2>1, <2>2 DEF MemoryIsTrue, IsOn
<1> QED BY <1>1, <1>2, <1>3, <1>4, <1>5, SoundByStep DEF Sound, TypeOK

LEMMA RepeatIsSound ==
    ASSUME Sound, NEW d \in Device, RepeatHello(d) \/ RepeatStats(d)
    PROVE  Sound'
<1>1. FilesMove /\ dev[d] \in Activity /\ MemoryIsTrue(d) /\ IsOn(d)
  BY FilesStay DEF RepeatHello, RepeatStats, Sound, TypeOK, Drained
<1>2. CASE RepeatHello(d)
  <2>1. dev' = [dev EXCEPT ![d] = dev[d]] /\ dev'[d] = dev[d]
    BY <1>2 DEF RepeatHello, Sound, TypeOK
  <2>2. MemoryIsTrue(d)'
    BY <1>1, <2>1 DEF MemoryIsTrue, IsOn, FilesMove
  <2> QED BY <1>1, <1>2, <2>1, <2>2, HelloIsSound, SoundByStep DEF RepeatHello
<1>3. CASE RepeatStats(d)
  <2>1. PICK e \in Device \ {d} : e = dev[d].peer /\ dev[d].local = stats[d]
    BY <1>1, <1>3 DEF RepeatStats, MemoryIsTrue, Activity
  <2>2. PICK out \in LocalStatsSent(d, dev[d], {events[e]}) :
           dev' = [dev EXCEPT ![d].sent = out.sent] /\ Send(events, e, out.inboxes)
    BY <1>3, <2>1 DEF RepeatStats
  <2>3. Name(d) \in Truth(e)' /\ Stats(d, dev[d].local) \in Truth(e)' /\ events[e] \in Inboxes(Truth(e)')
    <3>1. Name(d) \in Truth(e)' /\ Stats(d, stats[d]) \in Truth(e)' /\ events[e] \in Inboxes(Truth(e)')
      BY <1>1, <2>1, TruthStays
    <3> QED BY <2>1, <3>1
  <2>4. out.sent \in BOOLEAN /\ out.inboxes \subseteq Inboxes(Truth(e)')
    <3> QED BY <2>2, <2>3, LocalStatsInboxes
  <2> DEFINE r == [dev[d] EXCEPT !.sent = out.sent]
  <2>5. r \in Activity /\ dev' = [dev EXCEPT ![d] = r] /\ dev'[d] = r
    BY <1>1, <2>2, <2>4 DEF Activity, Sound, TypeOK
  <2>6. /\ DOMAIN events' = Device
        /\ \A x \in Device : events'[x] \in Inboxes(Truth(x)')
        /\ \A x \in Device : ~IsOn(x) => events'[x] = events[x]
    <3>1. DOMAIN events = Device /\ \A x \in Device : events[x] \in Inboxes(Truth(x)')
      BY <1>1, TruthStays DEF Sound, TypeOK
    <3>2. out.inboxes \in SUBSET Inboxes(Truth(e)') /\ Send(events, e, out.inboxes)
      BY <2>2, <2>4
    <3> QED BY <1>1, <3>1, <3>2, SendIsSound
  <2>7. MemoryIsTrue(d)'
    <3>1. r.local = dev[d].local /\ r.peer = dev[d].peer /\ r.seen = dev[d].seen
          /\ r.saved = dev[d].saved /\ r.acked = dev[d].acked /\ r.state = dev[d].state
      BY <1>1 DEF Activity
    <3> QED BY <1>1, <2>5, <3>1 DEF MemoryIsTrue, IsOn, FilesMove
  <2> QED BY <1>1, <2>5, <2>6, <2>7, SoundByStep
<1> QED BY <1>2, <1>3

(***************************************************************************)
(* The handling of an event.                                               *)
(***************************************************************************)
LEMMA EventFacts ==
    ASSUME Sound, NEW d \in Device, events[d].queue # <<>>
    PROVE  IsOn(d) /\ Head(events[d].queue) \in Truth(d) /\ Sender(d) \in Device \ {d}
<1>1. IsOn(d)
  BY DEF Sound, MemoryIsTrue, NoEvents
<1>2. Head(events[d].queue) \in Truth(d)
  BY TailInbox DEF Sound
<1> QED BY <1>1, <1>2, PacketFacts DEF Truth, Sender

LEMMA PopIsSound ==
    ASSUME Sound, FilesMove, NEW d \in Device, events[d].queue # <<>>
    PROVE  /\ DOMAIN Pop(d) = Device
           /\ \A x \in Device : Pop(d)[x] \in Inboxes(Truth(x)')
           /\ \A x \in Device \ {d} : Pop(d)[x] = events[x]
<1>1. \A x \in Device : events[x] \in Inboxes(Truth(x)')
  BY TruthStays
<1>2. [events[d] EXCEPT !.queue = Tail(@)] \in Inboxes(Truth(d)')
  BY <1>1, TailInbox
<1>3. Pop(d) = [events EXCEPT ![d] = [events[d] EXCEPT !.queue = Tail(@)]]
  BY DEF Pop
<1> HIDE DEF Pop
<1> QED BY <1>1, <1>2, <1>3 DEF Sound, TypeOK

\* What a reader that joins a sync remembers.
LEMMA JoinedFacts ==
    ASSUME Sound, NEW d \in Device, events[d].queue # <<>>
    PROVE  /\ Joined(d) \in Activity /\ Met(d) \in Activity
           /\ Joined(d).state = "SYNCING" /\ Joined(d).local = stats[d]
           /\ Joined(d).peer = Sender(d) /\ Met(d).peer = Sender(d)
           /\ Met(d).local \in {None, stats[d]}
           /\ Joined(d).saved => IsBusy(d) /\ dev[d].saved
           /\ Joined(d).acked \/ Met(d).acked => IsBusy(d) /\ dev[d].acked
<1>1. dev[d] \in Activity /\ stats[d] \in Amount /\ dev[d].local \in {None, stats[d]}
  BY DEF Sound, TypeOK, MemoryIsTrue
<1>2. Sender(d) \in Device
  BY EventFacts
<1> DEFINE r == IF IsBusy(d) THEN dev[d] ELSE [Closed EXCEPT !.state = dev[d].state]
<1>3. r \in Activity /\ r.local \in {None, stats[d]}
      /\ (r.saved => IsBusy(d) /\ dev[d].saved) /\ (r.acked => IsBusy(d) /\ dev[d].acked)
  <2>1. CASE IsBusy(d)
    BY <1>1, <2>1
  <2>2. CASE ~IsBusy(d)
    <3>1. [Closed EXCEPT !.state = dev[d].state] \in Activity
      BY <1>1 DEF Closed, Activity, States
    <3> QED BY <2>2, <3>1 DEF Closed
  <2> QED BY <2>1, <2>2
<1> HIDE DEF r
<1>4. Met(d) = [r EXCEPT !.peer = Sender(d), !.seen = TRUE]
  BY DEF Met, r
<1>5. /\ Met(d) \in Activity /\ Met(d).peer = Sender(d) /\ Met(d).local = r.local
      /\ Met(d).saved = r.saved /\ Met(d).acked = r.acked
  BY <1>2, <1>3, <1>4 DEF Activity
<1>6. Joined(d) = [Met(d) EXCEPT !.state = "SYNCING", !.local = IF @ = None THEN stats[d] ELSE @]
  BY DEF Joined
<1>7. "SYNCING" \in States
  BY DEF States
<1>8. /\ Joined(d) \in Activity /\ Joined(d).state = "SYNCING" /\ Joined(d).local = stats[d]
      /\ Joined(d).peer = Sender(d) /\ Joined(d).saved = r.saved /\ Joined(d).acked = r.acked
  BY <1>1, <1>3, <1>5, <1>6, <1>7 DEF Activity
<1> QED BY <1>3, <1>5, <1>8

\* The event is taken, the memory changes, and something may be sent in answer.
LEMMA HandledIsSound ==
    ASSUME Sound, FilesMove, NEW d \in Device, events[d].queue # <<>>,
           NEW e, e = Sender(d), NEW S \in SUBSET Inboxes(Truth(e)'),
           NEW r \in Activity, dev' = [dev EXCEPT ![d] = r],
           r.state \notin {"OFF", "SYNCED"}, r.peer = e, r.local \in {None, stats[d]},
           events' = Pop(d) \/ Send(Pop(d), e, S)
    PROVE  Sound'
<1>1. /\ DOMAIN Pop(d) = Device
      /\ \A x \in Device : Pop(d)[x] \in Inboxes(Truth(x)')
      /\ \A x \in Device \ {d} : Pop(d)[x] = events[x]
  BY PopIsSound
<1>2. e \in Device \ {d} /\ IsOn(d)
  BY EventFacts
<1> HIDE DEF Pop
<1>3. /\ DOMAIN events' = Device
      /\ \A x \in Device : events'[x] \in Inboxes(Truth(x)')
      /\ \A x \in Device \ {d} : ~IsOn(x) => events'[x] = events[x]
  <2>1. CASE events' = Pop(d)
    BY <1>1, <2>1
  <2>2. CASE Send(Pop(d), e, S)
    <3> DEFINE box == Pop(d)
    <3>1. DOMAIN box = Device /\ (\A x \in Device : box[x] \in Inboxes(Truth(x)')) /\ Send(box, e, S)
      BY <1>1, <2>2
    <3>2. \A x \in Device \ {d} : box[x] = events[x]
      BY <1>1
    <3> HIDE DEF box
    <3> QED BY <1>2, <3>1, <3>2, SendIsSound
  <2> QED BY <2>1, <2>2
<1>4. MemoryIsTrue(d)'
  <2>1. dev'[d] = r /\ stats' = stats
    BY DEF Sound, TypeOK, FilesMove
  <2>2. None \notin Device
    BY NearbyAssumption
  <2> QED BY <1>2, <2>1, <2>2 DEF MemoryIsTrue, IsOn
<1> QED BY <1>3, <1>4, SoundByStep

LEMMA HandleNameIsSound ==
    ASSUME Sound, NEW d \in Device, HandleName(d) \/ Ignore(d) PROVE Sound'
<1>1. FilesMove /\ events[d].queue # <<>> /\ events' = Pop(d)
  BY FilesStay DEF HandleName, Ignore, Waits
<1>2. PICK p \in Device \union {None} :
         /\ dev' = [dev EXCEPT ![d] = [dev[d] EXCEPT !.peer = p]]
         /\ p = dev[d].peer \/ p \in Device \ {d}
  <2>1. dev \in [Device -> Activity] /\ dev[d] \in Activity /\ Sender(d) \in Device \ {d}
    BY <1>1, EventFacts DEF Sound, TypeOK
  <2>2. dev[d].peer \in Device \union {None} /\ dev[d] = [dev[d] EXCEPT !.peer = dev[d].peer]
    BY <2>1 DEF Activity
  <2>3. dev = [dev EXCEPT ![d] = dev[d]]
    BY <2>1
  <2>4. CASE Ignore(d)
    BY <2>2, <2>3, <2>4 DEF Ignore
  <2>5. CASE HandleName(d)
    <3>1. dev' = [dev EXCEPT ![d] = [dev[d] EXCEPT
                      !.peer = IF dev[d].peer = None THEN Sender(d) ELSE dev[d].peer]]
      BY <2>5 DEF HandleName
    <3> QED BY <2>1, <2>2, <3>1
  <2> QED BY <2>4, <2>5
<1> DEFINE r == [dev[d] EXCEPT !.peer = p]
<1>3. dev[d] \in Activity /\ MemoryIsTrue(d) /\ IsOn(d)
  BY <1>1, EventFacts DEF Sound, TypeOK
<1>4. /\ r \in Activity /\ r.local = dev[d].local /\ r.peer = p /\ r.seen = dev[d].seen
      /\ r.saved = dev[d].saved /\ r.acked = dev[d].acked /\ r.state = dev[d].state
  BY <1>3 DEF Activity
<1>7. dev' = [dev EXCEPT ![d] = r]
  BY <1>2
<1> HIDE DEF r
<1>5. MemoryIsTrue(d)'
  <2>1. dev'[d] = r /\ stats' = stats /\ None \notin Device
    BY <1>1, <1>7, NearbyAssumption DEF Sound, TypeOK, FilesMove
  <2> QED BY <1>2, <1>3, <1>4, <2>1 DEF MemoryIsTrue, IsOn
<1>6. /\ DOMAIN events' = Device
      /\ \A x \in Device : events'[x] \in Inboxes(Truth(x)')
      /\ \A x \in Device \ {d} : ~IsOn(x) => events'[x] = events[x]
  BY <1>1, PopIsSound
<1> QED BY <1>1, <1>4, <1>5, <1>6, <1>7, SoundByStep

\* Events that are taken, and answered with nothing.
LEMMA QuietIsSound ==
    ASSUME Sound, NEW d \in Device,
           JoinFails(d) \/ HandleAck(d) \/ HandleInvalidStats(d)
    PROVE  Sound'
<1>1. FilesMove /\ events[d].queue # <<>> /\ events' = Pop(d)
  BY FilesStay DEF JoinFails, HandleAck, HandleInvalidStats, Waits
<1>2. PICK e : e = Sender(d)
  OBVIOUS
<1>3. /\ Joined(d) \in Activity /\ Met(d) \in Activity /\ "ERROR" \in States
      /\ Joined(d).state = "SYNCING" /\ Joined(d).local = stats[d] /\ Joined(d).peer = e
      /\ Met(d).local \in {None, stats[d]} /\ Met(d).peer = e
  BY <1>1, <1>2, JoinedFacts DEF States
<1>4. {} \in SUBSET Inboxes(Truth(e)')
  OBVIOUS
<1>5. CASE JoinFails(d)
  <2> DEFINE r == [Met(d) EXCEPT !.state = "ERROR"]
  <2>1. r \in Activity /\ r.state = "ERROR" /\ r.peer = e /\ r.local \in {None, stats[d]}
    BY <1>3 DEF Activity
  <2>2. dev' = [dev EXCEPT ![d] = r]
    BY <1>5 DEF JoinFails
  <2> HIDE DEF r
  <2> QED BY <1>1, <1>2, <1>4, <2>1, <2>2, HandledIsSound
<1>6. CASE HandleAck(d)
  <2> DEFINE r == [Joined(d) EXCEPT !.acked = TRUE]
  <2>1. r \in Activity /\ r.state = "SYNCING" /\ r.peer = e /\ r.local \in {None, stats[d]}
    BY <1>3 DEF Activity
  <2>2. dev' = [dev EXCEPT ![d] = r]
    BY <1>6 DEF HandleAck
  <2> HIDE DEF r
  <2> QED BY <1>1, <1>2, <1>4, <2>1, <2>2, HandledIsSound
<1>7. CASE HandleInvalidStats(d)
  <2> DEFINE r == [Joined(d) EXCEPT !.state = "ERROR"]
  <2>1. r \in Activity /\ r.state = "ERROR" /\ r.peer = e /\ r.local \in {None, stats[d]}
    BY <1>3 DEF Activity
  <2>2. dev' = [dev EXCEPT ![d] = r]
    BY <1>7 DEF HandleInvalidStats
  <2> HIDE DEF r
  <2> QED BY <1>1, <1>2, <1>4, <2>1, <2>2, HandledIsSound
<1> QED BY <1>5, <1>6, <1>7

LEMMA HandleHelloIsSound == ASSUME Sound, NEW d \in Device, HandleHello(d) PROVE Sound'
<1>1. FilesMove /\ events[d].queue # <<>>
  BY FilesStay DEF HandleHello, Waits
<1>2. PICK e \in Device \ {d} : e = Sender(d)
  BY <1>1, EventFacts
<1>3. PICK out \in LocalStatsSent(d, Joined(d), Air({events[e]}, Name(d))) :
         /\ dev' = [dev EXCEPT ![d] = [Joined(d) EXCEPT !.sent = out.sent]]
         /\ Send(Pop(d), e, out.inboxes)
  BY <1>2 DEF HandleHello
<1>4. /\ Joined(d) \in Activity /\ Joined(d).state = "SYNCING"
      /\ Joined(d).local = stats[d] /\ Joined(d).peer = e
  BY <1>1, <1>2, JoinedFacts
<1>5. out.sent \in BOOLEAN /\ out.inboxes \subseteq Inboxes(Truth(e)')
  <2>1. {events[e]} \subseteq Inboxes(Truth(e)') /\ Name(d) \in Truth(e)'
    BY <1>1, TruthStays
  <2>2. Stats(d, stats[d]) \in Truth(e)'
    BY <1>1, TruthStays
  <2>3. Air({events[e]}, Name(d)) \subseteq Inboxes(Truth(e)')
    BY <2>1, AirInboxes
  <2> QED BY <1>3, <1>4, <2>1, <2>2, <2>3, LocalStatsInboxes
<1> DEFINE r == [Joined(d) EXCEPT !.sent = out.sent]
<1>6. r \in Activity /\ r.state = "SYNCING" /\ r.peer = e /\ r.local \in {None, stats[d]}
  BY <1>4, <1>5 DEF Activity
<1>7. dev' = [dev EXCEPT ![d] = r]
  BY <1>3
<1> HIDE DEF r
<1> QED BY <1>1, <1>2, <1>3, <1>5, <1>6, <1>7, HandledIsSound

\* The record of the sender becomes its present statistics, which it is told.
LEMMA HandleStatsIsSound == ASSUME Sound, NEW d \in Device, HandleStats(d) PROVE Sound'
<1>1. events[d].queue # <<>> /\ Head(events[d].queue).type = "STATS"
  BY DEF HandleStats, Receiving, Waits
<1>2. PICK e \in Device \ {d} : e = Sender(d)
  BY <1>1, EventFacts
<1>3. Received(d) = stats[e] /\ stats[e] \in Amount
  BY <1>1, <1>2, EventFacts DEF Truth, Received, Sender, Sound, TypeOK
<1>4. record' = [record EXCEPT ![d][e] = stats[e]] /\ part' = [part EXCEPT ![d][e] = None]
  BY <1>2, <1>3 DEF HandleStats, Files
<1>5. FilesMove
  <2>1. record \in Records /\ part \in Parts
    BY DEF Sound, TypeOK, Records, Parts
  <2> QED BY <1>3, <1>4, <2>1 DEF HandleStats, FilesMove, Records, Parts
<1> DEFINE r       == [Joined(d) EXCEPT !.saved = TRUE]
           answers == Air({events[e]}, Ack(d))
<1>6. /\ Joined(d) \in Activity /\ Joined(d).state = "SYNCING"
      /\ Joined(d).local = stats[d] /\ Joined(d).peer = e
  BY <1>1, <1>2, JoinedFacts
<1>7. r \in Activity /\ r.state = "SYNCING" /\ r.peer = e /\ r.local = stats[d]
  BY <1>6 DEF Activity
<1>8. answers \subseteq Inboxes(Truth(e)')
  <2>1. record'[d][e] \in {stats'[e], Lost}
    BY <1>3, <1>4, <1>5 DEF Sound, TypeOK, FilesMove, Records
  <2>2. Ack(d) \in Truth(e)'
    BY <2>1, PacketFacts DEF Truth, Ack
  <2>3. {events[e]} \subseteq Inboxes(Truth(e)')
    BY <1>5, TruthStays
  <2> QED BY <2>2, <2>3, AirInboxes
<1>9. \/ dev' = [dev EXCEPT ![d] = r] /\ Send(Pop(d), e, answers)
      \/ \E out \in LocalStatsSent(d, r, answers) :
            dev' = [dev EXCEPT ![d] = [r EXCEPT !.sent = out.sent]] /\ Send(Pop(d), e, out.inboxes)
  BY <1>2 DEF HandleStats, Answer
<1> HIDE DEF r, answers
<1>10. CASE dev' = [dev EXCEPT ![d] = r] /\ Send(Pop(d), e, answers)
  BY <1>1, <1>2, <1>5, <1>7, <1>8, <1>10, HandledIsSound
<1>11. CASE \E out \in LocalStatsSent(d, r, answers) :
              dev' = [dev EXCEPT ![d] = [r EXCEPT !.sent = out.sent]] /\ Send(Pop(d), e, out.inboxes)
  <2>1. PICK out \in LocalStatsSent(d, r, answers) :
           dev' = [dev EXCEPT ![d] = [r EXCEPT !.sent = out.sent]] /\ Send(Pop(d), e, out.inboxes)
    BY <1>11
  <2>2. Name(d) \in Truth(e)' /\ Stats(d, r.local) \in Truth(e)'
    BY <1>5, <1>7, TruthStays
  <2>3. out.sent \in BOOLEAN /\ out.inboxes \subseteq Inboxes(Truth(e)')
    BY <1>8, <2>1, <2>2, LocalStatsInboxes
  <2> DEFINE q == [r EXCEPT !.sent = out.sent]
  <2>4. q \in Activity /\ q.state = "SYNCING" /\ q.peer = e /\ q.local = stats[d]
    BY <1>7, <2>3 DEF Activity
  <2>5. dev' = [dev EXCEPT ![d] = q] /\ Send(Pop(d), e, out.inboxes)
    BY <2>1
  <2> HIDE DEF q
  <2> QED BY <1>1, <1>2, <1>5, <2>3, <2>4, <2>5, HandledIsSound
<1> QED BY <1>9, <1>10, <1>11

\* The files of the sender are left in one of the states a failure may leave.
LEMMA FilesOfFailure ==
    ASSUME Sound, NEW d \in Device, SaveFails(d) \/ PowerLossInSave(d)
    PROVE  FilesMove /\ events[d].queue # <<>>
<1>1. events[d].queue # <<>> /\ Head(events[d].queue).type = "STATS"
  BY DEF SaveFails, PowerLossInSave, Receiving, Waits
<1>2. PICK e \in Device \ {d} : e = Sender(d)
  BY <1>1, EventFacts
<1>3. Received(d) = stats[e] /\ stats[e] \in Amount
  BY <1>1, <1>2, EventFacts DEF Truth, Received, Sender, Sound, TypeOK
<1>4. record \in Records /\ part \in Parts /\ UNCHANGED <<stats, newer>>
  BY DEF Sound, TypeOK, Records, Parts, SaveFails, PowerLossInSave, SwitchOff
<1>5. \/ UNCHANGED <<record, part>>
      \/ \E old \in {record[d][e], Lost, stats[e]}, left \in Amount \union {None} :
            record' = [record EXCEPT ![d][e] = old] /\ part' = [part EXCEPT ![d][e] = left]
  <2>1. OldRecord(d) = record[d][e] /\ Removed(d) \in {record[d][e], Lost}
    BY <1>2 DEF OldRecord, Removed
  <2> QED BY <1>2, <1>3, <2>1 DEF SaveFails, PowerLossInSave, Files
<1>6. CASE UNCHANGED <<record, part>>
  BY <1>1, <1>4, <1>6, FilesStay
<1>7. ASSUME NEW old \in {record[d][e], Lost, stats[e]}, NEW left \in Amount \union {None},
             record' = [record EXCEPT ![d][e] = old], part' = [part EXCEPT ![d][e] = left]
      PROVE  FilesMove
  <2>1. old \in Amount \union {None, Lost}
    BY <1>3, <1>4 DEF Records
  <2> QED BY <1>4, <1>7, <2>1 DEF FilesMove, Records, Parts
<1> QED BY <1>1, <1>5, <1>6, <1>7

LEMMA SaveFailsIsSound == ASSUME Sound, NEW d \in Device, SaveFails(d) PROVE Sound'
<1>1. FilesMove /\ events[d].queue # <<>> /\ events' = Pop(d)
  BY FilesOfFailure DEF SaveFails
<1>2. PICK e : e = Sender(d)
  OBVIOUS
<1> DEFINE r == [Joined(d) EXCEPT !.state = "ERROR"]
<1>3. r \in Activity /\ r.state = "ERROR" /\ r.peer = e /\ r.local \in {None, stats[d]}
  <2>1. Joined(d) \in Activity /\ Joined(d).local = stats[d] /\ Joined(d).peer = e /\ "ERROR" \in States
    BY <1>1, <1>2, JoinedFacts DEF States
  <2> QED BY <2>1 DEF Activity
<1>4. dev' = [dev EXCEPT ![d] = r] /\ {} \in SUBSET Inboxes(Truth(e)')
  BY DEF SaveFails
<1> HIDE DEF r
<1> QED BY <1>1, <1>2, <1>3, <1>4, HandledIsSound

LEMMA OverflowIsSound == ASSUME Sound, NEW d \in Device, ReportOverflow(d) PROVE Sound'
<1>1. FilesMove /\ dev[d] \in Activity /\ MemoryIsTrue(d) /\ IsOn(d)
  BY FilesStay DEF ReportOverflow, Sound, TypeOK, MemoryIsTrue, NoEvents
<1> DEFINE r == [dev[d] EXCEPT !.state = "ERROR"]
<1>2. /\ r \in Activity /\ r.local = dev[d].local /\ r.peer = dev[d].peer /\ r.seen = dev[d].seen
      /\ r.saved = dev[d].saved /\ r.acked = dev[d].acked /\ r.state = "ERROR"
  BY <1>1 DEF Activity, States
<1>3. dev' = [dev EXCEPT ![d] = r]
  BY DEF ReportOverflow
<1> HIDE DEF r
<1>4. MemoryIsTrue(d)'
  <2>1. dev'[d] = r /\ stats' = stats
    BY <1>1, <1>3 DEF Sound, TypeOK, FilesMove
  <2> QED BY <1>1, <1>2, <2>1 DEF MemoryIsTrue, IsOn
<1>5. /\ DOMAIN events' = Device
      /\ \A x \in Device : events'[x] \in Inboxes(Truth(x)')
      /\ \A x \in Device \ {d} : events'[x] = events[x]
  BY <1>1, TruthStays, EmptyInbox DEF ReportOverflow, Sound, TypeOK
<1> QED BY <1>1, <1>2, <1>3, <1>4, <1>5, SoundByStep

(***************************************************************************)
(* For any number of readers.                                              *)
(***************************************************************************)
LEMMA InitIsSound == Init => Sound
<1>1. Closed \in Activity
  BY DEF Closed, Activity, States
<1>2. 0 \in Amount
  BY NearbyAssumption DEF Amount
<1> QED BY <1>1, <1>2, EmptyInbox, NearbyAssumption
    DEF Init, Sound, TypeOK, MemoryIsTrue, Closed, NoEvents, IsOn

LEMMA NextIsSound == Sound /\ [Next]_vars => Sound'
<1> SUFFICES ASSUME Sound, [Next]_vars PROVE Sound'
  OBVIOUS
<1>1. CASE UNCHANGED vars
  BY <1>1 DEF vars, Sound, TypeOK, MemoryIsTrue, Truth, IsOn
<1>2. ASSUME NEW d \in Device, Leave(d) \/ PowerLoss(d) \/ PowerLossInSave(d)
      PROVE  Sound'
  <2>1. FilesMove /\ SwitchOff(d)
    <3>1. CASE PowerLossInSave(d)
      BY <3>1, FilesOfFailure DEF PowerLossInSave
    <3>2. CASE Leave(d) \/ PowerLoss(d)
      BY <3>2, FilesStay DEF Leave, PowerLoss, SwitchOff
    <3> QED BY <1>2, <3>1, <3>2
  <2> QED BY <2>1, SwitchOffIsSound
<1>3. ASSUME NEW d \in Device, Handle(d)
      PROVE  Sound'
  BY <1>3, OverflowIsSound, HandleNameIsSound, HandleHelloIsSound, QuietIsSound, HandleStatsIsSound
     DEF Handle
<1>4. ASSUME NEW d \in Device, Fail(d)
      PROVE  Sound'
  BY <1>2, <1>4, QuietIsSound, SaveFailsIsSound, ProgressIsSound DEF Fail
<1>5. ASSUME NEW d \in Device, User(d)
      PROVE  Sound'
  BY <1>2, <1>5, EnterIsSound, StartSyncIsSound, ReadIsSound DEF User
<1>6. ASSUME NEW d \in Device, Settle(d) \/ RepeatHello(d) \/ RepeatStats(d)
      PROVE  Sound'
  BY <1>6, ProgressIsSound, RepeatIsSound
<1> QED BY <1>1, <1>3, <1>4, <1>5, <1>6 DEF Next

\* Whatever the number of readers and of losses: every STATS packet on its way
\* carries the present statistics of its sender, and every ACK is about a file
\* that holds those of its receiver, or that a failure has removed since.
THEOREM SpecIsSound == Spec => []Sound
<1>1. Init => Sound
  BY InitIsSound
<1>2. Sound /\ [Next]_vars => Sound'
  BY NextIsSound
<1> QED BY <1>1, <1>2, PTL DEF Spec

\* Variables keep their types.
THEOREM TypeCorrect == Spec => []TypeOK
<1>1. Sound => TypeOK
  BY DEF Sound
<1> QED BY <1>1, SpecIsSound, PTL

(***************************************************************************)
(* The flags of a sync.                                                    *)
(***************************************************************************)
\* What any step of reader d does to its flags and to the files: it forgets them,
\* or relies on what it has had, or has just made a half of the exchange with the
\* reader it now takes for the peer.
FlagStep(d) ==
    /\ FilesMove
    /\ \A x \in Device \ {d} : UNCHANGED <<dev[x], record[x], part[x]>>
    /\ dev'[d].saved \/ dev'[d].acked => dev'[d].peer \in {dev[d].peer} \union (Device \ {d})
    /\ dev'[d].saved /\ dev'[d].state # "ERROR" =>
           \/ /\ dev'[d].peer \in Device \ {d}
              /\ record'[d][dev'[d].peer] \in Amount /\ part'[d][dev'[d].peer] = None
           \/ /\ dev[d].saved /\ dev[d].state # "ERROR"
              /\ UNCHANGED <<record[d], part[d]>>
    /\ dev'[d].acked =>
           \/ dev[d].acked
           \/ dev'[d].peer \in Device \ {d} /\ record'[dev'[d].peer][d] \in {stats[d], Lost}

\* The memory of d becomes r.
LEMMA FlagsByStep ==
    ASSUME Sound, FilesMove, NEW d \in Device, NEW r,
           dev' = [dev EXCEPT ![d] = r],
           \A x \in Device \ {d} : record'[x] = record[x] /\ part'[x] = part[x],
           r.peer = dev[d].peer \/ r.peer \in Device \ {d},
           r.saved /\ r.state # "ERROR" =>
               \/ /\ r.peer \in Device \ {d}
                  /\ record'[d][r.peer] \in Amount /\ part'[d][r.peer] = None
               \/ /\ dev[d].saved /\ dev[d].state # "ERROR"
                  /\ record'[d] = record[d] /\ part'[d] = part[d],
           r.acked => \/ dev[d].acked
                      \/ r.peer \in Device \ {d} /\ record'[r.peer][d] \in {stats[d], Lost}
    PROVE  FlagStep(d)
<1>1. dev'[d] = r /\ \A x \in Device \ {d} : dev'[x] = dev[x]
  BY DEF Sound, TypeOK
<1> QED BY <1>1 DEF FlagStep

LEMMA FlagsForgotten ==
    ASSUME Sound, FilesMove, NEW d \in Device, NEW r, ~r.saved, ~r.acked,
           dev' = [dev EXCEPT ![d] = r],
           \A x \in Device \ {d} : record'[x] = record[x] /\ part'[x] = part[x]
    PROVE  FlagStep(d)
<1>1. dev'[d] = r /\ \A x \in Device \ {d} : dev'[x] = dev[x]
  BY DEF Sound, TypeOK
<1> QED BY <1>1 DEF FlagStep

\* The steps that neither end with a sync half forgotten nor touch a file.
LEMMA FlagsOfOthers ==
    ASSUME Sound, NEW d \in Device,
           \/ Enter(d) \/ Leave(d) \/ PowerLoss(d) \/ StartSync(d) \/ TimeOut(d) \/ Settle(d)
           \/ RepeatHello(d) \/ RepeatStats(d) \/ ReportOverflow(d) \/ Ignore(d) \/ HandleName(d)
    PROVE  FlagStep(d)
<1>1. UNCHANGED <<stats, record, part, newer>> /\ FilesMove
  BY FilesStay DEF Enter, Leave, PowerLoss, SwitchOff, StartSync, TimeOut, Settle, RepeatHello,
                   RepeatStats, ReportOverflow, Ignore, HandleName
<1>2. dev \in [Device -> Activity] /\ dev[d] \in Activity /\ dev = [dev EXCEPT ![d] = dev[d]]
  BY DEF Sound, TypeOK
<1> DEFINE forgotten(r) == ~r.saved /\ ~r.acked
           kept(r) == /\ r.saved = dev[d].saved /\ r.acked = dev[d].acked
                      /\ r.peer = dev[d].peer \/ r.peer \in Device \ {d}
                      /\ r.state # "ERROR" => dev[d].state # "ERROR"
<1>3. ASSUME NEW r, dev' = [dev EXCEPT ![d] = r], kept(r)
      PROVE  FlagStep(d)
  BY <1>1, <1>3, FlagsByStep
<1>4. ASSUME NEW r, dev' = [dev EXCEPT ![d] = r], forgotten(r)
      PROVE  FlagStep(d)
  BY <1>1, <1>4, FlagsForgotten
<1>5. CASE Enter(d) \/ Leave(d) \/ PowerLoss(d) \/ StartSync(d)
  <2>1. forgotten(Closed) /\ \A s, n : /\ forgotten([Closed EXCEPT !.state = s])
                                       /\ forgotten([Closed EXCEPT !.state = s, !.local = n])
    BY DEF Closed
  <2>2. \/ dev' = [dev EXCEPT ![d] = Closed]
        \/ \E s : dev' = [dev EXCEPT ![d] = [Closed EXCEPT !.state = s]]
        \/ dev' = [dev EXCEPT ![d] = [Closed EXCEPT !.state = "DISCOVERING", !.local = stats[d]]]
    BY <1>5 DEF Enter, Leave, PowerLoss, SwitchOff, StartSync
  <2> HIDE DEF forgotten
  <2> QED BY <1>4, <2>1, <2>2
<1>6. CASE TimeOut(d) \/ Settle(d) \/ ReportOverflow(d)
  <2>1. PICK s \in {"ERROR", "SYNCED"} : /\ dev' = [dev EXCEPT ![d] = [dev[d] EXCEPT !.state = s]]
                                         /\ s = "SYNCED" => dev[d].state # "ERROR"
    BY <1>6, <1>2 DEF TimeOut, Settle, ReportOverflow, IsBusy
  <2>2. kept([dev[d] EXCEPT !.state = s])
    BY <1>2, <2>1 DEF Activity
  <2> HIDE DEF kept
  <2> QED BY <1>3, <2>1, <2>2
<1>7. CASE RepeatStats(d)
  <2>1. PICK b : dev' = [dev EXCEPT ![d] = [dev[d] EXCEPT !.sent = b]]
    BY <1>7, <1>2 DEF RepeatStats
  <2>2. kept([dev[d] EXCEPT !.sent = b])
    BY <1>2 DEF Activity
  <2> HIDE DEF kept
  <2> QED BY <1>3, <2>1, <2>2
<1>8. CASE HandleName(d)
  <2>1. Sender(d) \in Device \ {d}
    BY <1>8, EventFacts DEF HandleName, Waits
  <2>2. PICK p : /\ dev' = [dev EXCEPT ![d] = [dev[d] EXCEPT !.peer = p]]
                 /\ p = dev[d].peer \/ p \in Device \ {d}
    <3>1. dev' = [dev EXCEPT ![d] = [dev[d] EXCEPT
                      !.peer = IF dev[d].peer = None THEN Sender(d) ELSE dev[d].peer]]
      BY <1>2, <1>8 DEF HandleName
    <3> QED BY <2>1, <3>1
  <2>3. kept([dev[d] EXCEPT !.peer = p])
    BY <1>2, <2>2 DEF Activity
  <2> HIDE DEF kept
  <2> QED BY <1>3, <2>2, <2>3
<1>9. CASE RepeatHello(d) \/ Ignore(d)
  BY <1>2, <1>3, <1>9 DEF RepeatHello, Ignore
<1> QED BY <1>5, <1>6, <1>7, <1>8, <1>9

\* A reader joins, or fails to.
LEMMA FlagsOfJoining ==
    ASSUME Sound, NEW d \in Device,
           JoinFails(d) \/ HandleHello(d) \/ HandleAck(d) \/ HandleInvalidStats(d)
    PROVE  FlagStep(d)
<1>1. UNCHANGED <<stats, record, part, newer>> /\ FilesMove /\ events[d].queue # <<>>
  BY FilesStay DEF JoinFails, HandleHello, HandleAck, HandleInvalidStats, Waits
<1>2. PICK e \in Device \ {d} : e = Sender(d) /\ Head(events[d].queue) \in Truth(d)
  BY <1>1, EventFacts
<1>3. /\ Joined(d) \in Activity /\ Met(d) \in Activity
      /\ Joined(d).state = "SYNCING" /\ Joined(d).peer = e /\ Met(d).peer = e
      /\ Joined(d).saved => IsBusy(d) /\ dev[d].saved
      /\ Joined(d).acked \/ Met(d).acked => IsBusy(d) /\ dev[d].acked
  BY <1>1, <1>2, JoinedFacts
<1>4. PICK r : /\ dev' = [dev EXCEPT ![d] = r]
               /\ r.peer = e
               /\ r.saved /\ r.state # "ERROR" => IsBusy(d) /\ dev[d].saved
               /\ r.acked => dev[d].acked \/ Head(events[d].queue).type = "ACK"
  <2>1. CASE JoinFails(d)
    <3> DEFINE q == [Met(d) EXCEPT !.state = "ERROR"]
    <3>1. q.peer = e /\ q.acked = Met(d).acked /\ q.state = "ERROR" /\ dev' = [dev EXCEPT ![d] = q]
      BY <1>3, <2>1 DEF JoinFails, Activity
    <3> QED BY <1>3, <3>1
  <2>2. CASE HandleHello(d)
    <3>1. PICK b : dev' = [dev EXCEPT ![d] = [Joined(d) EXCEPT !.sent = b]]
      BY <2>2 DEF HandleHello
    <3> DEFINE q == [Joined(d) EXCEPT !.sent = b]
    <3>2. q.peer = e /\ q.acked = Joined(d).acked /\ q.saved = Joined(d).saved
      BY <1>3 DEF Activity
    <3> HIDE DEF q
    <3> QED BY <1>3, <3>1, <3>2 DEF q
  <2>3. CASE HandleAck(d)
    <3> DEFINE q == [Joined(d) EXCEPT !.acked = TRUE]
    <3>1. q.peer = e /\ q.saved = Joined(d).saved /\ dev' = [dev EXCEPT ![d] = q]
      BY <1>3, <2>3 DEF HandleAck, Activity
    <3>2. Head(events[d].queue).type = "ACK"
      BY <2>3 DEF HandleAck, Waits
    <3> HIDE DEF q
    <3> QED BY <1>3, <3>1, <3>2
  <2>4. CASE HandleInvalidStats(d)
    <3> DEFINE q == [Joined(d) EXCEPT !.state = "ERROR"]
    <3>1. q.peer = e /\ q.acked = Joined(d).acked /\ q.state = "ERROR" /\ dev' = [dev EXCEPT ![d] = q]
      BY <1>3, <2>4 DEF HandleInvalidStats, Activity
    <3> QED BY <1>3, <3>1
  <2> QED BY <2>1, <2>2, <2>3, <2>4 DEF JoinFails
<1>5. Head(events[d].queue).type = "ACK" => record[e][d] \in {stats[d], Lost}
  BY <1>2 DEF Truth, Sender
<1> QED BY <1>1, <1>2, <1>4, <1>5, FlagsByStep DEF IsBusy

\* A file of the sender is written, or was to be.
LEMMA FlagsOfSaving ==
    ASSUME Sound, NEW d \in Device,
           HandleStats(d) \/ SaveFails(d) \/ PowerLossInSave(d)
    PROVE  FlagStep(d)
<1>1. events[d].queue # <<>> /\ Head(events[d].queue).type = "STATS"
  BY DEF HandleStats, SaveFails, PowerLossInSave, Receiving, Waits
<1>2. PICK e \in Device \ {d} : e = Sender(d) /\ Head(events[d].queue) \in Truth(d)
  BY <1>1, EventFacts
<1>3. Received(d) = stats[e] /\ stats[e] \in Amount /\ record \in Records /\ part \in Parts
  BY <1>1, <1>2 DEF Truth, Received, Sender, Sound, TypeOK, Records, Parts
<1>4. \A x \in Device \ {d} : record'[x] = record[x] /\ part'[x] = part[x]
  BY <1>2, <1>3 DEF HandleStats, SaveFails, PowerLossInSave, Files, Records, Parts
<1>5. /\ Joined(d) \in Activity /\ Joined(d).state = "SYNCING" /\ Joined(d).peer = e
      /\ Joined(d).acked => dev[d].acked
  BY <1>1, <1>2, JoinedFacts
<1>6. CASE HandleStats(d)
  <2>1. record' = [record EXCEPT ![d][e] = stats[e]] /\ part' = [part EXCEPT ![d][e] = None]
    BY <1>2, <1>3, <1>6 DEF HandleStats, Files
  <2>2. record'[d][e] \in Amount /\ part'[d][e] = None /\ FilesMove
    BY <1>3, <1>6, <2>1 DEF HandleStats, FilesMove, Records, Parts
  <2> DEFINE q == [Joined(d) EXCEPT !.saved = TRUE]
  <2>3. q \in Activity /\ q.peer = e /\ q.acked = Joined(d).acked
    BY <1>5 DEF Activity
  <2>4. dev' = [dev EXCEPT ![d] = q] \/ \E b : dev' = [dev EXCEPT ![d] = [q EXCEPT !.sent = b]]
    BY <1>6 DEF HandleStats, Answer
  <2> HIDE DEF q
  <2>5. PICK r : dev' = [dev EXCEPT ![d] = r] /\ r.peer = e /\ r.acked = Joined(d).acked
    BY <2>3, <2>4 DEF Activity
  <2> QED BY <1>2, <1>4, <1>5, <2>2, <2>5, FlagsByStep
<1>7. CASE SaveFails(d)
  <2> DEFINE q == [Joined(d) EXCEPT !.state = "ERROR"]
  <2>1. q.peer = e /\ q.acked = Joined(d).acked /\ q.state = "ERROR" /\ dev' = [dev EXCEPT ![d] = q]
    BY <1>5, <1>7 DEF SaveFails, Activity
  <2> HIDE DEF q
  <2> QED BY <1>1, <1>2, <1>4, <1>5, <1>7, <2>1, FilesOfFailure, FlagsByStep
<1>8. CASE PowerLossInSave(d)
  <2>1. FilesMove /\ dev' = [dev EXCEPT ![d] = Closed] /\ ~Closed.saved /\ ~Closed.acked
    BY <1>1, <1>8, FilesOfFailure DEF PowerLossInSave, SwitchOff, Closed
  <2> QED BY <1>4, <2>1, FlagsForgotten
<1> QED BY <1>6, <1>7, <1>8

LEMMA StepOfFlags ==
    ASSUME Sound, NEW d \in Device, ~Read(d),
           Handle(d) \/ Fail(d) \/ User(d) \/ Settle(d) \/ RepeatHello(d) \/ RepeatStats(d)
    PROVE  FlagStep(d)
BY FlagsOfOthers, FlagsOfJoining, FlagsOfSaving DEF Handle, Fail, User

\* A reader that is read on has no flags.
LEMMA FlagsOfReading ==
    ASSUME Sound, NEW d \in Device, Read(d)
    PROVE  /\ dev[d] = Closed /\ UNCHANGED <<dev, record, part>>
           /\ \A x \in Device \ {d} : stats'[x] = stats[x]
BY DEF Read, Sound, TypeOK, MemoryIsTrue

(***************************************************************************)
(* For any number of readers: each half has been made.                     *)
(***************************************************************************)
LEMMA HalvesByStep ==
    ASSUME Sound, Sound', NEW d \in Device, FlagStep(d), NEW x \in Device, HalvesAreTrue(x)
    PROVE  HalvesAreTrue(x)'
<1>1. stats' = stats /\ \A y \in Device : record'[y][x] \in {record[y][x], stats[x], Lost}
  BY DEF FlagStep, FilesMove
<1>2. ASSUME dev[x].acked
      PROVE  \E e \in Others(x) : record'[e][x] \in {stats'[x], Lost}
  <2>1. PICK e \in Others(x) : record[e][x] \in {stats[x], Lost}
    BY <1>2 DEF HalvesAreTrue
  <2> QED BY <1>1, <2>1 DEF Others
<1>3. CASE x # d
  BY <1>2, <1>3 DEF FlagStep, HalvesAreTrue, Others
<1>4. CASE x = d
  <2>1. ASSUME dev'[d].saved, dev'[d].state # "ERROR"
        PROVE  \E e \in Others(d) : record'[d][e] \in Amount /\ part'[d][e] = None
    BY <1>4, <2>1 DEF FlagStep, HalvesAreTrue, Others
  <2>2. ASSUME dev'[d].acked
        PROVE  \E e \in Others(d) : record'[e][d] \in {stats'[d], Lost}
    BY <1>1, <1>2, <1>4, <2>2 DEF FlagStep, Others
  <2>3. Others(d)' = Others(d) /\ Amount' = Amount
    BY DEF Others, Amount
  <2> QED BY <1>4, <2>1, <2>2, <2>3 DEF HalvesAreTrue
<1> QED BY <1>3, <1>4

LEMMA NextKeepsHalves ==
    ASSUME Sound, \A x \in Device : HalvesAreTrue(x), [Next]_vars
    PROVE  \A x \in Device : HalvesAreTrue(x)'
<1>1. Sound'
  BY NextIsSound
<1>2. CASE UNCHANGED vars
  BY <1>2 DEF vars, HalvesAreTrue, Others
<1>3. CASE Next
  <2>1. PICK d \in Device : Handle(d) \/ Fail(d) \/ User(d) \/ Settle(d) \/ RepeatHello(d) \/ RepeatStats(d)
    BY <1>3 DEF Next
  <2>2. CASE Read(d)
    BY <2>2, FlagsOfReading DEF HalvesAreTrue, Others, Closed
  <2>3. CASE ~Read(d)
    BY <1>1, <2>1, <2>3, StepOfFlags, HalvesByStep
  <2> QED BY <2>2, <2>3
<1> QED BY <1>2, <1>3

\* However many readers are on the screen at once, and whichever of them a reader
\* names as its peer, one that reports a sync has somebody's statistics, and
\* somebody has its present ones.
THEOREM NobodyIsLeftOut == Spec => []SomeReadersSynced
<1> DEFINE Halves == \A x \in Device : HalvesAreTrue(x)
<1>1. Init => Halves
  BY DEF Init, HalvesAreTrue, Closed
<1>2. Sound /\ Halves /\ [Next]_vars => Halves'
  BY NextKeepsHalves
<1>3. Sound /\ Halves => SomeReadersSynced
  BY DEF Sound, MemoryIsTrue, HalvesAreTrue, SomeReadersSynced
<1> HIDE DEF Halves
<1> QED BY <1>1, <1>2, <1>3, SpecIsSound, PTL DEF Spec

(***************************************************************************)
(* For two readers: both with the peer.                                    *)
(***************************************************************************)
AtMostTwo == \A d, e, f \in Device : d = e \/ e = f \/ d = f

\* A reader may rely on a flag it has had, for there is no other peer the flag
\* could be about.
LEMMA TwoByStep ==
    ASSUME AtMostTwo, IInv, NEW d \in Device, FlagStep(d)
    PROVE  \A x \in Device : FlagsAreTrue(x)'
<1>1. stats' = stats /\ \A x \in Device \ {d} : dev'[x] = dev[x]
  BY DEF FlagStep, FilesMove
<1>2. ASSUME NEW x \in Device
      PROVE  /\ FlagsAreTrue(x) /\ MemoryIsTrue(x)
             /\ dev[x].peer # None => dev[x].peer \in Device \ {x}
             /\ dev[x].acked => record'[dev[x].peer][x] \in {stats[x], Lost}
  <2>1. FlagsAreTrue(x) /\ MemoryIsTrue(x) /\ dev[x] \in Activity
    BY DEF IInv, Sound, TypeOK
  <2>2. dev[x].peer # None => dev[x].peer \in Device \ {x}
    BY <2>1 DEF MemoryIsTrue, Activity
  <2>3. dev[x].acked => record'[dev[x].peer][x] \in {stats[x], Lost}
    BY <2>1, <2>2 DEF FlagStep, FilesMove, FlagsAreTrue, MemoryIsTrue
  <2> QED BY <2>1, <2>2, <2>3
<1>3. ASSUME NEW x \in Device \ {d}
      PROVE  FlagsAreTrue(x)'
  BY <1>1, <1>2 DEF FlagsAreTrue, FlagStep
<1>4. FlagsAreTrue(d)'
  <2> DEFINE r == dev'[d]
  <2>1. ASSUME r.saved \/ r.acked, dev[d].saved \/ dev[d].acked
        PROVE  r.peer = dev[d].peer
    BY <1>2, <2>1 DEF AtMostTwo, FlagStep, MemoryIsTrue
  <2>2. r.saved /\ r.state # "ERROR" => record'[d][r.peer] \in Amount /\ part'[d][r.peer] = None
    BY <1>2, <2>1 DEF FlagStep, FlagsAreTrue
  <2>3. r.acked => record'[r.peer][d] \in {stats[d], Lost}
    BY <1>2, <2>1 DEF FlagStep
  <2>4. Amount' = Amount
    BY DEF Amount
  <2> QED BY <1>1, <2>2, <2>3, <2>4 DEF FlagsAreTrue
<1> QED BY <1>3, <1>4

LEMMA TwoKeepIInv == AtMostTwo /\ IInv /\ [Next]_vars => IInv'
<1> SUFFICES ASSUME AtMostTwo, IInv, [Next]_vars PROVE IInv'
  OBVIOUS
<1>1. Sound'
  BY NextIsSound DEF IInv
<1>2. CASE UNCHANGED vars
  BY <1>1, <1>2 DEF vars, IInv, FlagsAreTrue
<1>3. CASE Next
  <2>1. PICK d \in Device : Handle(d) \/ Fail(d) \/ User(d) \/ Settle(d) \/ RepeatHello(d) \/ RepeatStats(d)
    BY <1>3 DEF Next
  <2>2. \A x \in Device : FlagsAreTrue(x)'
    <3>1. CASE Read(d)
      BY <3>1, FlagsOfReading DEF IInv, FlagsAreTrue, Closed
    <3>2. CASE ~Read(d)
      BY <2>1, <3>2, StepOfFlags, TwoByStep DEF IInv
    <3> QED BY <3>1, <3>2
  <2> QED BY <1>1, <2>2 DEF IInv
<1> QED BY <1>2, <1>3

\* With two readers, the flags of a sync are about the other one.
THEOREM TwoReaders == ASSUME AtMostTwo PROVE Spec => []IInv
<1>1. Init => IInv
  BY InitIsSound DEF IInv, Init, FlagsAreTrue, Closed
<1>2. IInv /\ [Next]_vars => IInv'
  BY TwoKeepIInv
<1> QED BY <1>1, <1>2, PTL DEF Spec

\* So the screen that says "Both readers synced" does not say it too early,
\* whatever was lost, resent, restarted or switched off before.
THEOREM Synced == ASSUME AtMostTwo PROVE Spec => []BothReadersSynced
<1>1. IInv => BothReadersSynced
  <2> SUFFICES ASSUME IInv, NEW d \in Device, dev[d].state = "SYNCED"
               PROVE  /\ record[d][dev[d].peer] \in Amount
                      /\ record[dev[d].peer][d] \in {stats[d], Lost}
    BY DEF BothReadersSynced
  <2> QED BY DEF IInv, Sound, MemoryIsTrue, FlagsAreTrue
<1>2. Spec => []IInv
  BY TwoReaders
<1> QED BY <1>1, <1>2, PTL

\* And the peer of a finished sync enters the all-devices sum once, whatever an
\* earlier save, cut short by a failure or a power loss, has left behind.
THEOREM PeerCountedOnce == ASSUME AtMostTwo PROVE Spec => []CountedOnce
<1>1. IInv => CountedOnce
  <2> SUFFICES ASSUME IInv, NEW d \in Device, dev[d].state = "SYNCED"
               PROVE  {file \in Summed(d) : file[1] = dev[d].peer} = {<<dev[d].peer, ".bin">>}
    BY DEF CountedOnce
  <2> DEFINE e == dev[d].peer
  <2>1. e \in Device /\ record[d][e] \in Amount /\ part[d][e] \notin Amount
    BY NearbyAssumption DEF IInv, Sound, TypeOK, Activity, Amount, MemoryIsTrue, FlagsAreTrue
  <2> HIDE DEF e
  <2>2. <<e, ".bin">> \in Summed(d)
    BY <2>1 DEF Summed
  <2>3. ASSUME NEW file \in Summed(d), file[1] = e
        PROVE  file = <<e, ".bin">>
    BY <2>1, <2>3 DEF Summed
  <2>4. {file \in Summed(d) : file[1] = e} = {<<e, ".bin">>}
    BY <2>2, <2>3
  <2> QED BY <2>4 DEF e
<1>2. Spec => []IInv
  BY TwoReaders
<1> QED BY <1>1, <1>2, PTL
=============================================================================
