------------------------ MODULE NearbyPositionProofs ------------------------
(***************************************************************************)
(* For any number of readers: a place is offered to the owner of another   *)
(* reader only once its own has pressed Share for it.  For two readers: a  *)
(* source says "Position shared" only when its peer has been given the     *)
(* place it is at, or when the peer's owner has since pressed Select for   *)
(* one it was at before.                                                   *)
(*                                                                         *)
(* The proof is in two layers.  Consent is kept by every step, whatever    *)
(* the number of readers.  For two of them, every step is one that Steps() *)
(* describes, which says what it may send, take and forget, and any such   *)
(* step keeps AcksAreTrue.                                                 *)
(***************************************************************************)
EXTENDS NearbyPosition, TLAPS

(***************************************************************************)
(* Inboxes.                                                                *)
(***************************************************************************)
\* A packet that joins an inbox, or not, keeps it an inbox.
LEMMA EnqueueInbox ==
    ASSUME NEW P, NEW inbox \in Inboxes(P), NEW p \in P
    PROVE  Enqueue(inbox, p) \in Inboxes(P)
<1> DEFINE q == inbox.queue
<1>1. inbox \in [queue : Seq(P), overflow : BOOLEAN] /\ Len(q) <= MaxEvents
  BY DEF Inboxes
<1>2. MaxEvents \in Nat \ {0}
  BY PositionAssumption
<1>3. CASE inbox.overflow \/ Len(q) >= MaxEvents
  <2>1. Enqueue(inbox, p) = [queue |-> <<>>, overflow |-> TRUE]
    BY <1>3 DEF Enqueue
  <2>2. <<>> \in Seq(P) /\ Len(<<>>) = 0
    OBVIOUS
  <2> QED BY <2>1, <2>2, <1>2 DEF Inboxes
<1>4. CASE ~(inbox.overflow \/ Len(q) >= MaxEvents)
  <2>1. Enqueue(inbox, p) = [inbox EXCEPT !.queue = Append(q, p)]
    BY <1>4 DEF Enqueue
  <2>2. q \in Seq(P)
    BY <1>1
  <2>3. Append(q, p) \in Seq(P) /\ Len(Append(q, p)) = Len(q) + 1
    BY <2>2
  <2>4. Len(q) \in Nat /\ Len(q) < MaxEvents
    BY <1>4, <1>2, <2>2
  <2> HIDE DEF q
  <2>5. Len(Append(q, p)) <= MaxEvents
    BY <2>3, <2>4, <1>2
  <2> QED BY <1>1, <2>1, <2>3, <2>5 DEF Inboxes
<1> QED BY <1>3, <1>4

LEMMA AirInboxes ==
    ASSUME NEW P, NEW S \in SUBSET Inboxes(P), NEW p \in P
    PROVE  Air(S, p) \subseteq Inboxes(P)
BY EnqueueInbox DEF Air

LEMMA TailInbox ==
    ASSUME NEW P, NEW inbox \in Inboxes(P), inbox.queue # <<>>
    PROVE  /\ [inbox EXCEPT !.queue = Tail(@)] \in Inboxes(P)
           /\ Head(inbox.queue) \in P
<1> DEFINE q == inbox.queue
<1>1. inbox \in [queue : Seq(P), overflow : BOOLEAN] /\ Len(q) <= MaxEvents
  BY DEF Inboxes
<1>2. q \in Seq(P) /\ q # <<>>
  BY <1>1
<1>3. Tail(q) \in Seq(P) /\ Head(q) \in P /\ Len(Tail(q)) = Len(q) - 1 /\ Len(q) \in Nat
  BY <1>2
<1>4. Len(Tail(q)) <= MaxEvents
  <2> HIDE DEF q
  <2> QED BY <1>1, <1>3, PositionAssumption
<1> QED BY <1>1, <1>3, <1>4 DEF Inboxes

\* The packets may be known to be more, or others.
LEMMA WiderInbox ==
    ASSUME NEW P, NEW Q, NEW inbox \in Inboxes(P),
           \A i \in 1 .. Len(inbox.queue) : inbox.queue[i] \in P => inbox.queue[i] \in Q
    PROVE  inbox \in Inboxes(Q)
<1> DEFINE q == inbox.queue
<1>1. inbox \in [queue : Seq(P), overflow : BOOLEAN] /\ Len(q) <= MaxEvents
  BY DEF Inboxes
<1>2. q \in Seq(P)
  BY <1>1
<1>3. \A i \in 1 .. Len(q) : q[i] \in Q
  BY <1>2
<1>4. q \in Seq(Q)
  BY <1>2, <1>3
<1> QED BY <1>1, <1>4 DEF Inboxes

LEMMA EmptyInbox == ASSUME NEW P PROVE NoEvents \in Inboxes(P)
<1>1. <<>> \in Seq(P) /\ Len(<<>>) = 0
  OBVIOUS
<1> QED BY <1>1, PositionAssumption DEF NoEvents, Inboxes

(***************************************************************************)
(* What a reader d may remember (MemoryIsTrue and OnlySharedIsOffered), of *)
(* a memory r and the places shared s.                                     *)
(***************************************************************************)
Fits(r, d, s) ==
    /\ r.local = place[d]
    /\ r.peer # d
    /\ r.seen \/ r.received => r.peer # None
    /\ r.source => ~r.received /\ r.state # "READY"
    /\ r.source /\ r.state # "ERROR" => r.local \in s[d]
    /\ r.state = "SHOWING_RESULT" => r.received
    /\ r.received => r.cross \in Place
    /\ r.state \in {"DISCOVERING", "SYNCED"} => r.source
    /\ r.received => \E e \in Others(d) : book[e] = book[d] /\ r.cross \in s[e]

\* No step takes a place back that has been shared, and the place of a reader does
\* not change on the screen.
SharesMore ==
    /\ UNCHANGED <<book, newer>>
    /\ place' \in [Device -> Place]
    /\ \A x \in Device : place'[x] = place[x] \/ dev'[x].state = "OFF"
    /\ shared' \in [Device -> SUBSET Place] /\ \A x \in Device : shared[x] \subseteq shared'[x]
    /\ given' \in [Device -> SUBSET Device] /\ late' \in [Device -> SUBSET Device]

LEMMA PacketFacts ==
    /\ \A x \in Packet : x.from \in Device /\ (x.type = "POSITION" => x.place \in Place)
    /\ \A d \in Device : Name(d) \in Packet /\ Ack(d) \in Packet
    /\ \A d \in Device : book[d] \in Book => Hello(d) \in Packet
    /\ \A d \in Device : book[d] \in Book /\ dev[d].local \in Place => Position(d) \in Packet
BY DEF Packet, Hello, Name, Ack, Position

LEMMA FitsNow ==
    ASSUME Consent, NEW d \in Device, IsOn(d)
    PROVE  Fits(dev[d], d, shared) /\ dev[d] \in Activity
BY DEF Consent, TypeOK, MemoryIsTrue, OnlySharedIsOffered, Fits

LEMMA FitsLater ==
    ASSUME Consent, NEW d \in Device, SharesMore, NEW r \in Activity, Fits(r, d, shared)
    PROVE  Fits(r, d, shared')
<1>1. shared[d] \subseteq shared'[d]
  BY DEF SharesMore
<1>3. ASSUME r.received PROVE \E e \in Others(d) : book[e] = book[d] /\ r.cross \in shared'[e]
  <2>1. PICK e \in Others(d) : book[e] = book[d] /\ r.cross \in shared[e]
    BY <1>3 DEF Fits
  <2>2. e \in Others(d) /\ r.cross \in shared'[e]
    BY <2>1 DEF SharesMore, Others
  <2> QED BY <2>1, <2>2
<1> QED BY <1>1, <1>3 DEF Fits

LEMMA NothingShared ==
    ASSUME Consent, UNCHANGED <<place, book, newer, histories>>
    PROVE  SharesMore
BY DEF Consent, TypeOK, histories, SharesMore

\* What is true stays so, and what may be sent now is true then.
LEMMA TruthStays ==
    ASSUME Consent, SharesMore, NEW x \in Device
    PROVE  /\ events[x] \in Inboxes(Truth(x)')
           /\ \A y \in Device \ {x} : Hello(y) \in Truth(x)' /\ Name(y) \in Truth(x)'
<1>1. \A q \in Truth(x) : q \in Truth(x)'
  <2> SUFFICES ASSUME NEW q \in Truth(x)
               PROVE  q \in Truth(x)'
    OBVIOUS
  <2>1. q \in Packet /\ q.from # x /\ q.from \in Device
    BY PacketFacts DEF Truth
  <2> QED BY <2>1 DEF Truth, SharesMore
<1>2. events[x] \in Inboxes(Truth(x)')
  BY <1>1, WiderInbox DEF Consent
<1>3. ASSUME NEW y \in Device \ {x}
      PROVE  Hello(y) \in Truth(x)' /\ Name(y) \in Truth(x)'
  <2>1. Hello(y) \in Packet /\ Name(y) \in Packet
    BY PacketFacts DEF Consent, TypeOK
  <2> QED BY <2>1 DEF Truth, Hello, Name, SharesMore
<1> QED BY <1>2, <1>3

\* A step of reader d changes nobody else's memory.
LEMMA StepIsSound ==
    ASSUME Consent, NEW d \in Device, SharesMore, NEW r \in Activity,
           dev' = [dev EXCEPT ![d] = r],
           DOMAIN events' = Device,
           \A x \in Device : events'[x] \in Inboxes(Truth(x)'),
           \A x \in Device \ {d} : ~IsOn(x) => events'[x] = events[x],
           IF r.state = "OFF" THEN r = Closed /\ events'[d] = NoEvents
                              ELSE Fits(r, d, shared')
    PROVE  Consent'
<1>1. dev' \in [Device -> Activity] /\ dev'[d] = r /\ \A x \in Device \ {d} : dev'[x] = dev[x]
  BY DEF Consent, TypeOK
<1>2. \A x \in Device : events'[x] \in Inboxes(Packet)
  BY WiderInbox DEF Truth
<1>3. TypeOK'
  BY <1>1, <1>2 DEF Consent, TypeOK, SharesMore
<1>4. ASSUME NEW x \in Device
      PROVE  IF dev'[x].state = "OFF" THEN dev'[x] = Closed /\ events'[x] = NoEvents
                                      ELSE Fits(dev'[x], x, shared')
  <2>1. CASE x = d
    BY <1>1, <2>1
  <2>2. CASE x # d /\ ~IsOn(x)
    BY <1>1, <2>2 DEF Consent, MemoryIsTrue, IsOn
  <2>3. CASE x # d /\ IsOn(x)
    <3>1. dev[x] \in Activity /\ Fits(dev[x], x, shared) /\ SharesMore
      BY <2>3, FitsNow DEF SharesMore
    <3> QED BY <1>1, <2>3, <3>1, FitsLater DEF IsOn
  <2> QED BY <2>1, <2>2, <2>3
<1>5. ASSUME NEW x \in Device
      PROVE  MemoryIsTrue(x)' /\ (dev'[x].received =>
                 \E e \in Others(x) : book'[e] = book'[x] /\ dev'[x].cross \in shared'[e])
  <2>2. CASE dev'[x].state = "OFF"
    <3>1. dev'[x] = Closed /\ events'[x] = NoEvents
      BY <1>4, <2>2
    <3> QED BY <3>1, PositionAssumption DEF MemoryIsTrue, IsOn, Closed
  <2>3. CASE dev'[x].state # "OFF"
    <3>1. Fits(dev'[x], x, shared') /\ book' = book /\ place'[x] = place[x]
      BY <1>4, <2>3 DEF SharesMore
    <3> QED BY <2>3, <3>1 DEF MemoryIsTrue, IsOn, Fits
  <2> QED BY <2>2, <2>3
<1>6. OnlySharedIsOffered'
  BY <1>5 DEF OnlySharedIsOffered
<1> QED BY <1>3, <1>5, <1>6 DEF Consent

(***************************************************************************)
(* Records and inboxes.                                                    *)
(***************************************************************************)
\* Two memories that differ in what is not remembered of a sync.
Alike(r, q) ==
    /\ r.source = q.source /\ r.seen = q.seen /\ r.received = q.received
    /\ r.peer = q.peer /\ r.local = q.local /\ r.cross = q.cross

LEMMA SetStateFacts ==
    ASSUME NEW r \in Activity, NEW state \in States
    PROVE  /\ SetState(r, state) \in Activity /\ Alike(SetState(r, state), r)
           /\ SetState(r, state).state = state
           /\ Repaint(r) \in Activity /\ Alike(Repaint(r), r) /\ Repaint(r).state = r.state
<1>1. [r EXCEPT !.state = state, !.panel = None, !.stale = state = "SHOWING_RESULT"] \in Activity
  BY DEF Activity
<1>2. [r EXCEPT !.stale = r.state = "SHOWING_RESULT"] \in Activity
  BY DEF Activity
<1> QED BY <1>1, <1>2 DEF SetState, Repaint, Alike, Activity

\* The states a memory may pass to as it is.
LEMMA FitsInState ==
    ASSUME NEW r, NEW q, NEW d, NEW s, Fits(q, d, s), Alike(r, q),
           \/ r.state = q.state
           \/ r.state = "ERROR"
           \/ r.state = "SYNCING" /\ q.state # "ERROR"
           \/ r.state = "SHOWING_RESULT" /\ q.state # "ERROR" /\ q.received
    PROVE  Fits(r, d, s)
BY DEF Fits, Alike

\* The inboxes, when nothing is sent or taken.
LEMMA QuietStep ==
    ASSUME Consent, SharesMore, NEW d \in Device, NEW r \in Activity, dev' = [dev EXCEPT ![d] = r],
           UNCHANGED events, r.state # "OFF", Fits(r, d, shared)
    PROVE  Consent'
<1>1. \A x \in Device : events'[x] \in Inboxes(Truth(x)')
  BY TruthStays
<1>2. DOMAIN events' = Device
  BY DEF Consent, TypeOK
<1> QED BY <1>1, <1>2, FitsLater, StepIsSound

\* Send() puts true packets into the inbox of a reader that is on.
LEMMA SendIsSound ==
    ASSUME Consent, SharesMore, NEW box, NEW e, NEW S,
           e \in Device => S \subseteq Inboxes(Truth(e)'),
           DOMAIN box = Device, \A x \in Device : box[x] \in Inboxes(Truth(x)'),
           Send(box, e, S)
    PROVE  /\ DOMAIN events' = Device
           /\ \A x \in Device : events'[x] \in Inboxes(Truth(x)')
           /\ \A x \in Device : ~IsOn(x) /\ x # e => events'[x] = box[x]
           /\ ~IsOn(e) /\ e \in Device => events'[e] = events[e]
           /\ \A x \in Device \ {e} : events'[x] = box[x]
<1>1. PICK inbox \in IF IsOn(e) THEN S ELSE {events[e]} : events' = [box EXCEPT ![e] = inbox]
  BY DEF Send
<1>2. e \in Device => inbox \in Inboxes(Truth(e)')
  BY <1>1, TruthStays
<1> QED BY <1>1, <1>2

LEMMA HelloIsSound ==
    ASSUME Consent, SharesMore, NEW d \in Device, SendHello(d)
    PROVE  /\ DOMAIN events' = Device
           /\ \A x \in Device : events'[x] \in Inboxes(Truth(x)')
           /\ \A x \in Device : ~IsOn(x) => events'[x] = events[x]
<1>1. PICK heard \in SUBSET {e \in Others(d) : IsOn(e)} :
         events' = [e \in Device |-> IF e \in heard THEN Enqueue(events[e], Hello(d)) ELSE events[e]]
  BY DEF SendHello
<1>2. ASSUME NEW x \in Device
      PROVE  events'[x] \in Inboxes(Truth(x)')
  <2>1. events[x] \in Inboxes(Truth(x)') /\ (x # d => Hello(d) \in Truth(x)')
    BY TruthStays
  <2>2. CASE x \in heard
    BY <1>1, <2>1, <2>2, EnqueueInbox DEF Others
  <2>3. CASE x \notin heard
    BY <1>1, <2>1, <2>3
  <2> QED BY <2>2, <2>3
<1> QED BY <1>1, <1>2

\* The events of the local position, and whether it was sent.
LEMMA LocalPositionInboxes ==
    ASSUME NEW P, NEW d, NEW S, S \subseteq Inboxes(P), Name(d) \in P, Position(d) \in P,
           NEW out \in LocalPositionSent(d, S)
    PROVE  out.sent \in BOOLEAN /\ out.inboxes \subseteq Inboxes(P)
<1> DEFINE named  == Air(S, Name(d))
           placed == Air(named, Position(d))
<1>1. named \subseteq Inboxes(P)
  BY AirInboxes
<1> HIDE DEF named
<1>2. placed \subseteq Inboxes(P)
  BY <1>1, AirInboxes
<1>3. \/ out = [sent |-> TRUE, inboxes |-> placed]
      \/ out = [sent |-> FALSE, inboxes |-> named]
  BY DEF LocalPositionSent, named
<1> HIDE DEF placed
<1>4. CASE out = [sent |-> TRUE, inboxes |-> placed]
  <2>1. out.sent = TRUE /\ out.inboxes = placed
    BY <1>4
  <2> QED BY <1>2, <2>1
<1>5. CASE out = [sent |-> FALSE, inboxes |-> named]
  <2>1. out.sent = FALSE /\ out.inboxes = named
    BY <1>5
  <2> QED BY <1>1, <2>1
<1> QED BY <1>3, <1>4, <1>5

\* The place a source sends is one it shares.
LEMMA PositionIsTrue ==
    ASSUME Consent, SharesMore, NEW d \in Device, NEW e \in Device \ {d},
           IsOn(d), dev[d].source, dev[d].state # "ERROR"
    PROVE  Position(d) \in Truth(e)'
<1>1. dev[d].local \in Place /\ dev[d].local \in shared'[d] /\ book[d] \in Book
  BY FitsNow DEF Fits, SharesMore, Consent, TypeOK
<1>2. Position(d) \in Packet
  BY <1>1, PacketFacts
<1> QED BY <1>1, <1>2 DEF Truth, Position, SharesMore

(***************************************************************************)
(* The owner, the clock and the screen.                                    *)
(***************************************************************************)
LEMMA ClosedFacts ==
    /\ Closed \in Activity /\ Closed.state = "OFF" /\ Closed.peer = None /\ Closed.source = FALSE
    /\ Closed.seen = FALSE /\ Closed.received = FALSE
BY DEF Closed, Activity, States

LEMMA EnterIsSound == ASSUME Consent, NEW d \in Device, Enter(d) PROVE Consent'
<1>1. PICK state \in {"READY", "ERROR"} :
         dev' = [dev EXCEPT ![d] = [Closed EXCEPT !.state = state, !.local = place[d]]]
  BY DEF Enter
<1>2. PICK r : r = [Closed EXCEPT !.state = state, !.local = place[d]]
  OBVIOUS
<1>3. place \in [Device -> Place] /\ SharesMore
  BY NothingShared DEF Enter, Consent, TypeOK
<1>4. r \in Activity /\ r.state = state /\ r.local = place[d] /\ r.peer = None
      /\ ~r.source /\ ~r.seen /\ ~r.received
  BY <1>2, <1>3 DEF Closed, Activity, States
<1>5. Fits(r, d, shared)
  BY <1>3, <1>4, PositionAssumption DEF Fits
<1> QED BY <1>1, <1>2, <1>3, <1>4, <1>5, QuietStep DEF Enter

\* A reader that goes off hears nothing, and may have sent something before.
LEMMA OffIsSound ==
    ASSUME Consent, SharesMore, NEW d \in Device, dev' = [dev EXCEPT ![d] = Closed],
           DOMAIN events' = Device, \A x \in Device : events'[x] \in Inboxes(Truth(x)'),
           \A x \in Device \ {d} : ~IsOn(x) => events'[x] = events[x], events'[d] = NoEvents
    PROVE  Consent'
BY ClosedFacts, StepIsSound

LEMMA LeaveIsSound ==
    ASSUME Consent, NEW d \in Device, Leave(d) \/ PowerLoss(d)
    PROVE  Consent'
<1>1. SharesMore /\ dev' = [dev EXCEPT ![d] = Closed] /\ DOMAIN events = Device
  BY NothingShared DEF Leave, PowerLoss, SwitchOff, histories, Consent, TypeOK
<1>2. /\ DOMAIN events' = Device
      /\ events'[d] = NoEvents
      /\ \A x \in Device \ {d} : events'[x] = events[x]
  BY <1>1 DEF Leave, PowerLoss, Drained
<1>3. \A x \in Device : events'[x] \in Inboxes(Truth(x)')
  BY <1>1, <1>2, TruthStays, EmptyInbox
<1> QED BY <1>1, <1>2, <1>3, OffIsSound

LEMMA ApplyIsSound == ASSUME Consent, NEW d \in Device, Apply(d) PROVE Consent'
<1>1. IsOn(d) /\ Fits(dev[d], d, shared) /\ dev[d] \in Activity
  BY FitsNow DEF Apply, Drained
<1>2. dev[d].received /\ dev[d].cross \in Place /\ dev[d].peer \in Device \ {d}
  BY <1>1 DEF Apply, Fits, Activity
<1>3. place' \in [Device -> Place] /\ \A x \in Device \ {d} : place'[x] = place[x]
  BY <1>2 DEF Apply, Consent, TypeOK
<1>4. SharesMore
  <2>1. given' \in [Device -> SUBSET Device] /\ late' \in [Device -> SUBSET Device]
    BY <1>2 DEF Apply, Took, Consent, TypeOK
  <2>2. dev'[d].state = "OFF" /\ UNCHANGED <<book, newer, shared>>
    BY ClosedFacts DEF Apply, SwitchOff, Consent, TypeOK
  <2> QED BY <1>3, <2>1, <2>2 DEF SharesMore, Consent, TypeOK
<1>5. PICK e \in Device \ {d} : e = dev[d].peer
  BY <1>2
<1>6. Ack(d) \in Truth(e)' /\ events[e] \in Inboxes(Truth(e)')
  <2>1. Ack(d) \in Packet
    BY PacketFacts
  <2> QED BY <2>1, <1>4, <1>5, TruthStays DEF Truth, Ack
<1>7. Send(events, e, Air({events[e]}, Ack(d))) /\ Air({events[e]}, Ack(d)) \subseteq Inboxes(Truth(e)')
  BY <1>5, <1>6, AirInboxes DEF Apply
<1>8. /\ DOMAIN events' = Device
      /\ \A x \in Device : events'[x] \in Inboxes(Truth(x)')
      /\ \A x \in Device : ~IsOn(x) => events'[x] = events[x]
      /\ events'[d] = events[d]
  <2>1. DOMAIN events = Device /\ \A x \in Device : events[x] \in Inboxes(Truth(x)')
    BY <1>4, TruthStays DEF Consent, TypeOK
  <2>2. PICK S : Send(events, e, S) /\ S \subseteq Inboxes(Truth(e)')
    BY <1>7
  <2>3. /\ DOMAIN events' = Device
        /\ \A x \in Device : events'[x] \in Inboxes(Truth(x)')
        /\ \A x \in Device : ~IsOn(x) /\ x # e => events'[x] = events[x]
        /\ ~IsOn(e) => events'[e] = events[e]
        /\ \A x \in Device \ {e} : events'[x] = events[x]
    BY <1>4, <2>1, <2>2, SendIsSound
  <2> QED BY <2>3
<1>9. events[d] = NoEvents /\ dev' = [dev EXCEPT ![d] = Closed]
  BY DEF Apply, Drained, SwitchOff
<1> QED BY <1>4, <1>8, <1>9, OffIsSound

LEMMA ReadIsSound == ASSUME Consent, NEW d \in Device, Read(d) PROVE Consent'
<1>1. place' \in [Device -> Place] /\ (\A x \in Device \ {d} : place'[x] = place[x])
      /\ given' \in [Device -> SUBSET Device] /\ late' \in [Device -> SUBSET Device]
  BY DEF Read, Consent, TypeOK
<1>2. SharesMore
  BY <1>1 DEF Read, IsOn, Consent, TypeOK, SharesMore
<1>3. dev[d] = Closed /\ events[d] = NoEvents /\ dev' = [dev EXCEPT ![d] = Closed]
  BY DEF Read, Consent, TypeOK, MemoryIsTrue
<1>4. \A x \in Device : events'[x] \in Inboxes(Truth(x)')
  BY <1>2, TruthStays DEF Read
<1> QED BY <1>2, <1>3, <1>4, OffIsSound DEF Read, Consent, TypeOK

LEMMA StartIsSound ==
    ASSUME Consent, NEW d \in Device, StartFails(d) \/ StartSync(d)
    PROVE  Consent'
<1>1. /\ IsOn(d) /\ dev[d].cross \in Place \union {None}
      /\ dev[d].local \in Place /\ dev[d].local = place[d]
  BY FitsNow DEF StartFails, StartSync, Drained, Fits, Activity, Consent, TypeOK
<1>2. ASSUME NEW state \in {"ERROR", "DISCOVERING"}, NEW r, r = Sharing(d, state)
      PROVE  /\ r \in Activity /\ r.state = state /\ r.source /\ ~r.received /\ ~r.seen
             /\ r.peer = None /\ r.local = dev[d].local
  BY <1>1, <1>2 DEF Sharing, Closed, Activity, States
<1>3. CASE StartFails(d)
  <2>1. PICK r : r = Sharing(d, "ERROR")
    OBVIOUS
  <2>2. SharesMore
    BY <1>3, NothingShared DEF StartFails, Consent, TypeOK
  <2>3. Fits(r, d, shared)
    BY <1>1, <1>2, <2>1, PositionAssumption DEF Fits
  <2> QED BY <1>2, <1>3, <2>1, <2>2, <2>3, QuietStep DEF StartFails
<1>4. CASE StartSync(d)
  <2>1. PICK r : r = Sharing(d, "DISCOVERING")
    OBVIOUS
  <2>2. shared' = [shared EXCEPT ![d] = @ \union {dev[d].local}] /\ shared \in [Device -> SUBSET Place]
    BY <1>4 DEF StartSync, Consent, TypeOK
  <2>3. shared' \in [Device -> SUBSET Place] /\ (\A x \in Device : shared[x] \subseteq shared'[x])
        /\ dev[d].local \in shared'[d]
    BY <1>1, <2>2
  <2>4. SharesMore
    BY <1>4, <2>3 DEF StartSync, Consent, TypeOK, SharesMore
  <2>5. Fits(r, d, shared')
    BY <1>1, <1>2, <2>1, <2>3, PositionAssumption DEF Fits
  <2>6. SendHello(d) /\ dev' = [dev EXCEPT ![d] = r]
    BY <1>4, <2>1 DEF StartSync
  <2>7. r \in Activity /\ r.state # "OFF"
    BY <1>2, <2>1
  <2> QED BY <2>4, <2>5, <2>6, <2>7, HelloIsSound, StepIsSound
<1> QED BY <1>3, <1>4

\* The clock, and a failure, change the state only.
LEMMA StateIsSound ==
    ASSUME Consent, NEW d \in Device, TimeOut(d) \/ ShowAgain(d) \/ ApplyFails(d)
    PROVE  Consent'
<1>1. PICK state \in {"ERROR", "SHOWING_RESULT"} :
         /\ dev' = [dev EXCEPT ![d] = SetState(dev[d], state)]
         /\ state = "SHOWING_RESULT" => dev[d].received /\ dev[d].state # "ERROR"
  BY DEF TimeOut, ShowAgain, ApplyFails, IsBusy, Consent, TypeOK
<1>2. IsOn(d) /\ dev[d] \in Activity /\ Fits(dev[d], d, shared)
  BY FitsNow DEF TimeOut, ShowAgain, ApplyFails, Drained
<1>3. PICK r : r = SetState(dev[d], state)
  OBVIOUS
<1>4. r \in Activity /\ Alike(r, dev[d]) /\ r.state = state
  BY <1>2, <1>3, SetStateFacts DEF States
<1>5. Fits(r, d, shared)
  BY <1>1, <1>2, <1>4, FitsInState
<1>6. SharesMore /\ UNCHANGED events
  BY NothingShared DEF TimeOut, ShowAgain, ApplyFails, Consent, TypeOK
<1> QED BY <1>1, <1>3, <1>4, <1>5, <1>6, QuietStep

LEMMA PaintIsSound == ASSUME Consent, NEW d \in Device, Paint(d) PROVE Consent'
<1>1. PICK r : r = [dev[d] EXCEPT !.panel = dev[d].cross, !.stale = FALSE]
  OBVIOUS
<1>2. IsOn(d)
  BY DEF Paint, Consent, MemoryIsTrue, Closed
<1>3. dev[d] \in Activity /\ Fits(dev[d], d, shared)
  BY <1>2, FitsNow
<1>4. r \in Activity /\ Alike(r, dev[d]) /\ r.state = dev[d].state
  BY <1>1, <1>3 DEF Activity, Alike
<1>5. Fits(r, d, shared)
  BY <1>3, <1>4, FitsInState
<1>6. dev' = [dev EXCEPT ![d] = r] /\ UNCHANGED events /\ SharesMore
  BY <1>1, NothingShared DEF Paint, Consent, TypeOK
<1> QED BY <1>2, <1>4, <1>5, <1>6, QuietStep DEF IsOn

LEMMA RepeatIsSound ==
    ASSUME Consent, NEW d \in Device, RepeatHello(d) \/ RepeatPosition(d)
    PROVE  Consent'
<1>1. /\ SharesMore /\ IsOn(d) /\ dev[d] \in Activity /\ Fits(dev[d], d, shared)
      /\ dev \in [Device -> Activity]
  BY NothingShared, FitsNow DEF RepeatHello, RepeatPosition, Drained, Consent, TypeOK
<1>2. CASE RepeatHello(d)
  <2>1. dev' = [dev EXCEPT ![d] = dev[d]] /\ SendHello(d)
    BY <1>1, <1>2 DEF RepeatHello
  <2>2. Fits(dev[d], d, shared')
    BY <1>1, FitsLater
  <2> QED BY <1>1, <2>1, <2>2, HelloIsSound, StepIsSound DEF IsOn
<1>3. CASE RepeatPosition(d)
  <2>1. PICK e \in Device \ {d} : e = dev[d].peer
    BY <1>1, <1>3 DEF RepeatPosition, Fits, Activity
  <2>2. PICK out \in LocalPositionSent(d, {events[e]}) :
           dev' = [dev EXCEPT ![d].sent = out.sent] /\ Send(events, e, out.inboxes)
    BY <1>3, <2>1 DEF RepeatPosition
  <2>3. Name(d) \in Truth(e)' /\ Position(d) \in Truth(e)' /\ events[e] \in Inboxes(Truth(e)')
    BY <1>1, <1>3, <2>1, TruthStays, PositionIsTrue DEF RepeatPosition, IsBusy
  <2>4. out.sent \in BOOLEAN /\ out.inboxes \subseteq Inboxes(Truth(e)')
    BY <2>2, <2>3, LocalPositionInboxes
  <2>5. PICK r : r = [dev[d] EXCEPT !.sent = out.sent]
    OBVIOUS
  <2>6. r \in Activity /\ Alike(r, dev[d]) /\ r.state = dev[d].state /\ dev' = [dev EXCEPT ![d] = r]
    BY <1>1, <2>2, <2>4, <2>5 DEF Activity, Alike
  <2>7. Fits(r, d, shared')
    BY <1>1, <2>6, FitsInState, FitsLater
  <2>8. /\ DOMAIN events' = Device
        /\ \A x \in Device : events'[x] \in Inboxes(Truth(x)')
        /\ \A x \in Device : ~IsOn(x) => events'[x] = events[x]
    <3>1. DOMAIN events = Device /\ \A x \in Device : events[x] \in Inboxes(Truth(x)')
      BY <1>1, TruthStays DEF Consent, TypeOK
    <3> QED BY <1>1, <2>2, <2>4, <3>1, SendIsSound
  <2> QED BY <1>1, <2>6, <2>7, <2>8, StepIsSound DEF IsOn
<1> QED BY <1>2, <1>3

(***************************************************************************)
(* The handling of an event.                                               *)
(***************************************************************************)
LEMMA EventFacts ==
    ASSUME Consent, NEW d \in Device, events[d].queue # <<>>
    PROVE  IsOn(d) /\ Event(d) \in Truth(d) /\ Sender(d) \in Device \ {d}
<1>1. IsOn(d)
  BY DEF Consent, MemoryIsTrue, NoEvents
<1>2. Event(d) \in Truth(d)
  BY TailInbox DEF Consent, Event
<1> QED BY <1>1, <1>2, PacketFacts DEF Truth, Sender

LEMMA PopIsSound ==
    ASSUME Consent, SharesMore, NEW d \in Device, events[d].queue # <<>>
    PROVE  /\ DOMAIN Pop(d) = Device
           /\ \A x \in Device : Pop(d)[x] \in Inboxes(Truth(x)')
           /\ \A x \in Device \ {d} : Pop(d)[x] = events[x]
<1>1. \A x \in Device : events[x] \in Inboxes(Truth(x)')
  BY TruthStays
<1>2. [events[d] EXCEPT !.queue = Tail(@)] \in Inboxes(Truth(d)')
  BY <1>1, TailInbox
<1>3. Pop(d) = [events EXCEPT ![d] = [events[d] EXCEPT !.queue = Tail(@)]]
  BY DEF Pop
<1> HIDE DEF Pop
<1> QED BY <1>1, <1>2, <1>3 DEF Consent, TypeOK

\* An event is taken, and nothing is sent.
LEMMA TakenIsSound ==
    ASSUME Consent, SharesMore, NEW d \in Device, events[d].queue # <<>>,
           NEW r \in Activity, dev' = [dev EXCEPT ![d] = r], events' = Pop(d),
           r.state # "OFF", Fits(r, d, shared)
    PROVE  Consent'
BY PopIsSound, FitsLater, StepIsSound

\* An event is taken, and something is sent to e.
LEMMA AnsweredIsSound ==
    ASSUME Consent, SharesMore, NEW d \in Device, events[d].queue # <<>>,
           NEW r \in Activity, dev' = [dev EXCEPT ![d] = r],
           NEW e \in Device \ {d}, NEW S, S \subseteq Inboxes(Truth(e)'), Send(Pop(d), e, S),
           r.state # "OFF", Fits(r, d, shared')
    PROVE  Consent'
<1>1. IsOn(d)
  BY EventFacts
<1>2. /\ DOMAIN Pop(d) = Device
      /\ \A x \in Device : Pop(d)[x] \in Inboxes(Truth(x)')
      /\ \A x \in Device \ {d} : Pop(d)[x] = events[x]
  BY PopIsSound
<1>3. /\ DOMAIN events' = Device
      /\ \A x \in Device : events'[x] \in Inboxes(Truth(x)')
      /\ \A x \in Device : ~IsOn(x) /\ x # e => events'[x] = Pop(d)[x]
      /\ ~IsOn(e) => events'[e] = events[e]
  BY <1>2, SendIsSound
<1> QED BY <1>1, <1>2, <1>3, StepIsSound

LEMMA RefuseIsSound ==
    ASSUME Consent, NEW d \in Device, ReportOverflow(d) \/ Ignore(d) \/ Refuse(d)
    PROVE  Consent'
<1>1. SharesMore /\ dev \in [Device -> Activity]
  BY NothingShared DEF ReportOverflow, Ignore, Refuse, Consent, TypeOK
<1>2. IsOn(d)
  BY EventFacts DEF ReportOverflow, Ignore, Refuse, Consent, MemoryIsTrue, NoEvents
<1>3. dev[d] \in Activity /\ Fits(dev[d], d, shared)
  BY <1>2, FitsNow
<1>4. PICK r : r = SetState(dev[d], "ERROR")
  OBVIOUS
<1>5. r \in Activity /\ Alike(r, dev[d]) /\ r.state = "ERROR"
  BY <1>3, <1>4, SetStateFacts DEF States
<1>6. Fits(r, d, shared)
  BY <1>3, <1>5, FitsInState
<1>7. CASE ReportOverflow(d)
  <2>1. \A x \in Device : events'[x] \in Inboxes(Truth(x)')
    BY <1>1, <1>7, TruthStays, EmptyInbox DEF ReportOverflow, Consent, TypeOK
  <2>2. dev' = [dev EXCEPT ![d] = r] /\ DOMAIN events' = Device
        /\ \A x \in Device \ {d} : events'[x] = events[x]
    BY <1>4, <1>7 DEF ReportOverflow, Consent, TypeOK
  <2>3. Fits(r, d, shared')
    BY <1>1, <1>5, <1>6, FitsLater
  <2> QED BY <1>1, <1>5, <2>1, <2>2, <2>3, StepIsSound
<1>8. CASE Refuse(d)
  <2>1. dev' = [dev EXCEPT ![d] = r] /\ events' = Pop(d) /\ events[d].queue # <<>>
    BY <1>4, <1>8 DEF Refuse
  <2> QED BY <1>1, <1>5, <1>6, <2>1, TakenIsSound
<1>9. CASE Ignore(d)
  <2>1. dev' = [dev EXCEPT ![d] = dev[d]] /\ events' = Pop(d) /\ events[d].queue # <<>>
    BY <1>1, <1>9 DEF Ignore
  <2> QED BY <1>1, <1>2, <1>3, <2>1, TakenIsSound DEF IsOn
<1> QED BY <1>7, <1>8, <1>9

\* The peer is set, and whether it has been seen.
WithPeer(r, e, b) == [r EXCEPT !.peer = e, !.seen = b]

LEMMA PeerIsSet ==
    ASSUME NEW r \in Activity, NEW e \in Device, NEW b \in BOOLEAN
    PROVE  /\ WithPeer(r, e, b) \in Activity
           /\ WithPeer(r, e, b).peer = e
           /\ WithPeer(r, e, b).state = r.state
           /\ WithPeer(r, e, b).source = r.source
           /\ WithPeer(r, e, b).received = r.received
           /\ WithPeer(r, e, b).local = r.local
           /\ WithPeer(r, e, b).cross = r.cross
<1>1. WithPeer(r, e, b) \in Activity
  BY DEF WithPeer, Activity
<1>2. /\ WithPeer(r, e, b).peer = e
      /\ WithPeer(r, e, b).state = r.state
      /\ WithPeer(r, e, b).source = r.source
      /\ WithPeer(r, e, b).received = r.received
      /\ WithPeer(r, e, b).local = r.local
      /\ WithPeer(r, e, b).cross = r.cross
  BY DEF WithPeer, Activity
<1> QED BY <1>1, <1>2

LEMMA NamedFacts ==
    ASSUME Consent, NEW d \in Device, Handles(d, "NAME"), Knows(d)
    PROVE  /\ Named(d) \in Activity /\ Named(d).state \notin {"OFF", "SYNCED"}
           /\ Named(d).source = dev[d].source /\ Named(d).received = dev[d].received
           /\ Fits(Named(d), d, shared)
<1>1. IsOn(d) /\ Sender(d) \in Device \ {d} /\ dev[d].state \notin {"OFF", "ERROR", "SYNCED"}
  BY EventFacts DEF Handles, Listens
<1>2. dev[d] \in Activity /\ Fits(dev[d], d, shared)
  BY <1>1, FitsNow
<1>3. PICK q : \E b \in BOOLEAN : /\ b = (dev[d].seen \/ dev[d].source)
                                 /\ q = WithPeer(dev[d], Sender(d), b)
  OBVIOUS
<1>4. /\ q \in Activity /\ q.peer = Sender(d) /\ q.state = dev[d].state /\ q.source = dev[d].source
      /\ q.received = dev[d].received /\ q.local = dev[d].local /\ q.cross = dev[d].cross
  <2>1. PICK b \in BOOLEAN : q = WithPeer(dev[d], Sender(d), b)
    BY <1>3
  <2>2. Sender(d) \in Device
    BY <1>1
  <2> QED BY <1>2, <2>1, <2>2, PeerIsSet
<1>5. dev[d].received => q.peer = dev[d].peer
  BY <1>2, <1>4, PositionAssumption DEF Knows, Fits
<1>6. Fits(q, d, shared)
  BY <1>1, <1>2, <1>4, <1>5, PositionAssumption DEF Fits
<1>7. PICK r : r = IF q.source /\ q.state = "DISCOVERING" THEN SetState(q, "SYNCING") ELSE q
  OBVIOUS
<1>8. r \in Activity /\ Alike(r, q) /\ (r.state = q.state \/ r.state = "SYNCING")
  BY <1>4, <1>7, SetStateFacts DEF States, Alike
<1>9. Named(d) = Repaint(r)
  BY <1>3, <1>7 DEF Named, WithPeer
<1>10. Named(d) \in Activity /\ Alike(Named(d), q) /\ Named(d).state = r.state
  BY <1>4, <1>8, <1>9, SetStateFacts DEF Alike, States
<1>11. Fits(Named(d), d, shared)
  BY <1>1, <1>4, <1>6, <1>8, <1>10, FitsInState
<1> QED BY <1>1, <1>4, <1>8, <1>10, <1>11 DEF Alike

LEMMA NameIsSound ==
    ASSUME Consent, NEW d \in Device, NameOfPeer(d) \/ AnswerName(d)
    PROVE  Consent'
<1>1. SharesMore /\ Handles(d, "NAME") /\ Knows(d)
  BY NothingShared DEF NameOfPeer, AnswerName, Consent, TypeOK
<1>2. PICK r : r = Named(d)
  OBVIOUS
<1>3. r \in Activity /\ r.state # "OFF" /\ Fits(r, d, shared)
  BY <1>1, <1>2, NamedFacts
<1>4. events[d].queue # <<>> /\ IsOn(d) /\ dev[d].state # "ERROR"
  BY <1>1, EventFacts DEF Handles, Listens
<1>5. CASE NameOfPeer(d)
  BY <1>1, <1>2, <1>3, <1>4, <1>5, TakenIsSound DEF NameOfPeer
<1>6. CASE AnswerName(d)
  <2>1. PICK e \in Device \ {d} : e = Sender(d)
    BY <1>4, EventFacts
  <2>2. PICK out \in LocalPositionSent(d, {events[e]}) :
           dev' = [dev EXCEPT ![d] = [Named(d) EXCEPT !.sent = out.sent]] /\ Send(Pop(d), e, out.inboxes)
    BY <1>6, <2>1 DEF AnswerName
  <2>3. Name(d) \in Truth(e)' /\ Position(d) \in Truth(e)' /\ events[e] \in Inboxes(Truth(e)')
    BY <1>1, <1>4, <1>6, TruthStays, PositionIsTrue DEF AnswerName
  <2>4. out.sent \in BOOLEAN /\ out.inboxes \subseteq Inboxes(Truth(e)')
    BY <2>2, <2>3, LocalPositionInboxes
  <2>5. PICK q : q = [r EXCEPT !.sent = out.sent]
    OBVIOUS
  <2>6. q \in Activity /\ Alike(q, r) /\ q.state = r.state
    BY <1>3, <2>4, <2>5 DEF Activity, Alike
  <2>7. Fits(q, d, shared')
    BY <1>1, <1>3, <2>6, FitsInState, FitsLater
  <2>8. dev' = [dev EXCEPT ![d] = q] /\ Send(Pop(d), e, out.inboxes)
    BY <1>2, <2>2, <2>5
  <2> QED BY <1>1, <1>3, <1>4, <2>4, <2>6, <2>7, <2>8, AnsweredIsSound
<1> QED BY <1>5, <1>6

\* A reader that becomes a receiver.
LEMMA PassiveIsActivity ==
    \A r \in Activity : [r EXCEPT !.received = FALSE, !.source = FALSE, !.sent = FALSE,
                                  !.acked = FALSE] \in Activity
BY DEF Activity

\* What a reader remembers that has met the sender.
LEMMA MetFacts ==
    ASSUME Consent, NEW d \in Device, events[d].queue # <<>>, Listens(d)
    PROVE  /\ Met(d) \in Activity /\ Met(d).peer = Sender(d) /\ Met(d).state = dev[d].state
           /\ Met(d).state \notin {"OFF", "ERROR", "SYNCED"}
           /\ Met(d).source = dev[d].source /\ (Met(d).received => dev[d].received)
           /\ Fits(Met(d), d, shared)
<1>1. Sender(d) \in Device \ {d} /\ dev[d].state \notin {"OFF", "ERROR", "SYNCED"} /\ IsOn(d)
  BY EventFacts DEF Listens
<1>2. dev[d] \in Activity /\ Fits(dev[d], d, shared)
  BY <1>1, FitsNow
<1>3. PICK q : q = IF dev[d].state = "READY"
                   THEN [dev[d] EXCEPT !.received = FALSE, !.source = FALSE, !.sent = FALSE,
                                       !.acked = FALSE]
                   ELSE dev[d]
  OBVIOUS
<1>4. /\ q \in Activity /\ q.state = dev[d].state /\ q.local = dev[d].local /\ q.cross = dev[d].cross
      /\ q.source = dev[d].source
      /\ q.received => dev[d].received
      /\ dev[d].state # "READY" => q = dev[d]
      /\ dev[d].state = "READY" => ~q.received
  <2>1. CASE dev[d].state = "READY"
    <3>1. q \in Activity
      BY <1>2, <1>3, <2>1, PassiveIsActivity
    <3>2. q.state = dev[d].state /\ q.local = dev[d].local /\ q.cross = dev[d].cross
      BY <1>2, <1>3, <2>1 DEF Activity
    <3>3. q.source = FALSE /\ q.received = FALSE
      BY <1>2, <1>3, <2>1 DEF Activity
    <3>4. dev[d].source = FALSE
      BY <1>2, <2>1 DEF Activity, Fits
    <3> QED BY <2>1, <3>1, <3>2, <3>3, <3>4
  <2>2. CASE dev[d].state # "READY"
    BY <1>2, <1>3, <2>2
  <2> QED BY <2>1, <2>2
<1>5. PICK r : r = WithPeer(q, Sender(d), TRUE)
  OBVIOUS
<1>6. /\ r \in Activity /\ r.peer = Sender(d) /\ r.state = q.state /\ r.local = q.local
      /\ r.cross = q.cross /\ r.source = q.source /\ r.received = q.received
  <2>1. q \in Activity /\ Sender(d) \in Device
    BY <1>1, <1>4
  <2> QED BY <2>1, <1>5, PeerIsSet
<1>7. Met(d) = r
  BY <1>3, <1>5 DEF Met, WithPeer
<1>9. r.received => \E e \in Others(d) : book[e] = book[d] /\ r.cross \in shared[e]
  BY <1>2, <1>4, <1>6 DEF Fits
<1>10. Fits(r, d, shared)
  BY <1>1, <1>2, <1>4, <1>6, <1>9, PositionAssumption DEF Fits
<1> QED BY <1>1, <1>4, <1>6, <1>7, <1>10

LEMMA HelloHandled ==
    ASSUME Consent, NEW d \in Device, HandleHello(d) \/ PositionAtSource(d)
    PROVE  Consent'
<1>1. SharesMore /\ events[d].queue # <<>> /\ Listens(d)
  BY NothingShared DEF HandleHello, PositionAtSource, Handles, Consent, TypeOK
<1>2. PICK q : q = Met(d)
  OBVIOUS
<1>3. q \in Activity /\ q.state \notin {"OFF", "ERROR", "SYNCED"} /\ Fits(q, d, shared)
  BY <1>1, <1>2, MetFacts
<1>4. CASE PositionAtSource(d)
  BY <1>1, <1>2, <1>3, <1>4, TakenIsSound DEF PositionAtSource
<1>5. CASE HandleHello(d)
  <2>1. PICK r : r = IF q.source THEN q ELSE SetState(q, "SYNCING")
    OBVIOUS
  <2>2. r \in Activity /\ Alike(r, q) /\ (r.state = q.state \/ r.state = "SYNCING")
    BY <1>3, <2>1, SetStateFacts DEF States, Alike
  <2>3. Fits(r, d, shared')
    BY <1>1, <1>3, <2>2, FitsInState, FitsLater
  <2>4. PICK e \in Device \ {d} : e = Sender(d)
    BY <1>1, EventFacts
  <2>5. Name(d) \in Truth(e)' /\ events[e] \in Inboxes(Truth(e)')
    BY <1>1, TruthStays
  <2>6. Air({events[e]}, Name(d)) \subseteq Inboxes(Truth(e)')
    BY <2>5, AirInboxes
  <2>7. dev' = [dev EXCEPT ![d] = r] /\ Send(Pop(d), e, Air({events[e]}, Name(d)))
    BY <1>2, <1>5, <2>1, <2>4 DEF HandleHello
  <2> QED BY <1>1, <1>3, <2>2, <2>3, <2>6, <2>7, AnsweredIsSound
<1> QED BY <1>4, <1>5

\* The place received is one its sender has shared, in the same book.
LEMMA PositionHandled == ASSUME Consent, NEW d \in Device, HandlePosition(d) PROVE Consent'
<1>1. events[d].queue # <<>> /\ Listens(d) /\ ~Foreign(d) /\ Event(d).type = "POSITION"
  BY DEF HandlePosition, Handles
<1>2. PICK e \in Device \ {d} : e = Sender(d) /\ Event(d) \in Truth(d)
  BY <1>1, EventFacts
<1>3. book[e] = book[d] /\ Event(d).place \in shared[e] /\ Event(d).place \in Place
  BY <1>1, <1>2, PacketFacts DEF Foreign, Truth, Sender
<1>4. given' \in [Device -> SUBSET Device]
  <2>1. given \in [Device -> SUBSET Device]
    BY DEF Consent, TypeOK
  <2> QED BY <1>2, <2>1 DEF HandlePosition
<1>6. SharesMore
  BY <1>4 DEF HandlePosition, SharesMore, Consent, TypeOK
<1>7. PICK q : q = Met(d)
  OBVIOUS
<1>8. q \in Activity /\ q.peer = e /\ q.state \notin {"OFF", "ERROR", "SYNCED"} /\ ~q.source
      /\ Fits(q, d, shared')
  BY <1>1, <1>2, <1>6, <1>7, MetFacts, FitsLater DEF HandlePosition
<1>9. PICK p : p = [q EXCEPT !.cross = Event(d).place, !.received = TRUE]
  OBVIOUS
<1>10. /\ p \in Activity /\ p.peer = e /\ p.state = q.state /\ p.local = q.local /\ ~p.source
       /\ p.cross = Event(d).place /\ p.received
  BY <1>3, <1>8, <1>9 DEF Activity
<1>11. \E y \in Others(d) : book[y] = book[d] /\ p.cross \in shared'[y]
  BY <1>3, <1>6, <1>10 DEF SharesMore, Others
<1>12. Fits(p, d, shared')
  BY <1>3, <1>8, <1>10, <1>11, PositionAssumption DEF Fits
<1>13. PICK r : r = SetState(p, "SHOWING_RESULT")
  OBVIOUS
<1>14. r \in Activity /\ Alike(r, p) /\ r.state = "SHOWING_RESULT"
  BY <1>10, <1>13, SetStateFacts DEF States
<1>15. Fits(r, d, shared')
  BY <1>8, <1>10, <1>12, <1>14, FitsInState
<1>16. dev' = [dev EXCEPT ![d] = r] /\ Send(Pop(d), e, Air({events[e]}, Ack(d)))
  BY <1>2, <1>7, <1>9, <1>13 DEF HandlePosition, Showing
<1>17. Ack(d) \in Truth(e)' /\ events[e] \in Inboxes(Truth(e)')
  BY <1>6, TruthStays, PacketFacts DEF Truth, Ack
<1>18. Air({events[e]}, Ack(d)) \subseteq Inboxes(Truth(e)')
  BY <1>17, AirInboxes
<1> QED BY <1>1, <1>6, <1>14, <1>15, <1>16, <1>18, AnsweredIsSound

LEMMA AckHandled == ASSUME Consent, NEW d \in Device, HandleAck(d) PROVE Consent'
<1>1. SharesMore /\ events[d].queue # <<>> /\ Listens(d) /\ Event(d).type = "ACK"
  BY NothingShared DEF HandleAck, Handles, Consent, TypeOK
<1>2. Event(d) \in Truth(d)
  BY <1>1, EventFacts
<1>4. PICK q : q = Met(d)
  OBVIOUS
<1>5. q \in Activity /\ q.peer = Sender(d) /\ q.state \notin {"OFF", "ERROR", "SYNCED"}
      /\ Fits(q, d, shared)
  BY <1>1, <1>4, MetFacts
<1>6. PICK p : p = [q EXCEPT !.acked = TRUE]
  OBVIOUS
<1>7. p \in Activity /\ Alike(p, q) /\ p.state = q.state
  BY <1>5, <1>6 DEF Activity, Alike
<1>8. Fits(p, d, shared) /\ p.peer = Sender(d)
  BY <1>5, <1>7, FitsInState DEF Alike
<1>9. PICK r : r = IF p.source THEN SetState(p, "SYNCED") ELSE p
  OBVIOUS
<1>10. r \in Activity /\ Alike(r, p) /\ (r.state = p.state \/ (r.state = "SYNCED" /\ p.source))
  <2>1. CASE p.source
    BY <1>7, <1>9, <2>1, SetStateFacts DEF States
  <2>2. CASE ~p.source
    <3>1. r = p
      BY <1>9, <2>2
    <3> QED BY <1>7, <3>1 DEF Alike
  <2> QED BY <2>1, <2>2
<1>11. Fits(r, d, shared)
  <2>1. CASE r.state = p.state
    BY <1>8, <1>10, <2>1, FitsInState
  <2>2. CASE r.state = "SYNCED" /\ p.source
    BY <1>5, <1>7, <1>8, <1>10, <2>2 DEF Fits, Alike
  <2> QED BY <1>10, <2>1, <2>2
<1>12. dev' = [dev EXCEPT ![d] = r] /\ events' = Pop(d)
  BY <1>4, <1>6, <1>9 DEF HandleAck
<1> QED BY <1>1, <1>5, <1>7, <1>10, <1>11, <1>12, TakenIsSound

(***************************************************************************)
(* Any number of readers: the invariant's base.                            *)
(***************************************************************************)
LEMMA InitIsSound == Init => Consent
<1> SUFFICES ASSUME Init PROVE Consent
  OBVIOUS
<1>1. TypeOK
  <2>1. Closed \in Activity /\ NoEvents \in Inboxes(Packet)
    BY ClosedFacts, EmptyInbox
  <2> QED BY <2>1 DEF Init, TypeOK
<1>2. ASSUME NEW d \in Device
      PROVE  events[d] \in Inboxes(Truth(d)) /\ MemoryIsTrue(d)
  <2>1. dev[d] = Closed /\ events[d] = NoEvents
    BY DEF Init
  <2> QED BY <2>1, EmptyInbox, ClosedFacts, PositionAssumption DEF MemoryIsTrue, IsOn
<1>3. OnlySharedIsOffered
  BY ClosedFacts DEF Init, OnlySharedIsOffered
<1> QED BY <1>1, <1>2, <1>3 DEF Consent

LEMMA NextIsSound == Consent /\ [Next]_vars => Consent'
<1> SUFFICES ASSUME Consent, [Next]_vars PROVE Consent'
  OBVIOUS
<1>1. CASE UNCHANGED vars
  BY <1>1 DEF vars, histories, Consent, TypeOK, Truth, MemoryIsTrue, OnlySharedIsOffered, IsOn
<1>2. CASE Next
  <2>1. PICK d \in Device : \/ Handle(d) \/ Fail(d) \/ User(d) \/ Paint(d)
                            \/ ShowAgain(d) \/ RepeatHello(d) \/ RepeatPosition(d)
    BY <1>2 DEF Next
  <2>2. CASE Handle(d)
    BY <2>2, RefuseIsSound, NameIsSound, HelloHandled, PositionHandled, AckHandled DEF Handle
  <2>3. CASE Fail(d) \/ User(d)
    BY <2>3, StartIsSound, StateIsSound, LeaveIsSound, EnterIsSound, ReadIsSound, ApplyIsSound
       DEF Fail, User
  <2>4. CASE Paint(d) \/ ShowAgain(d) \/ RepeatHello(d) \/ RepeatPosition(d)
    BY <2>4, PaintIsSound, StateIsSound, RepeatIsSound
  <2> QED BY <2>1, <2>2, <2>3, <2>4
<1> QED BY <1>1, <1>2

(***************************************************************************)
(* Two readers: what is acknowledged.                                      *)
(***************************************************************************)
TwoAreTrue == AtMostTwo /\ Consent /\ \A x \in Device : AcksAreTrue(x)

\* A packet from d in what a step of d has put into queues.
IsNews(d, packet) ==
    /\ packet.from = d
    /\ packet.type = "POSITION" => dev[d].source /\ packet.place = place'[d]
    /\ packet.type = "ACK" => \A e \in Others(d) : d \in given'[e] \union late'[e]

\* What a step of d does, that puts packets of news into the queue of the other.
Steps(d, news) ==
    /\ book' = book
    /\ \A x \in Others(d) : dev'[x] = dev[x] /\ place'[x] = place[x]
    /\ Packets(d)' \subseteq Packets(d)
    /\ \A x \in Others(d) : Packets(x)' \subseteq Packets(x) \union news
    /\ \A packet \in news : IsNews(d, packet)
    \* It stops being a source only when it goes off.
    /\ dev[d].source => dev'[d].source \/ (Packets(d)' = {} /\ ~dev'[d].received)
    /\ dev'[d].received => dev[d].received \/ \E e \in Others(d) : OnAir(e, d)
    \* Its place changes as it is off, or goes off as a receiver.
    /\ place'[d] = place[d] \/ dev[d].received \/ \A x \in Device : ~OnAir(d, x)
    \* Who has got a place of it is forgotten when it is off.
    /\ \/ given'[d] = given[d] /\ late'[d] = late[d]
       \/ given'[d] = {} /\ late'[d] = {} /\ Packets(d)' = {} /\ dev'[d].state # "SYNCED"
    /\ \A x \in Others(d) :
          /\ given[x] \union late[x] \subseteq given'[x] \union late'[x]
          /\ \A y \in given'[x] \union late'[x] :
                y \in given[x] \union late[x] \/ (y = d /\ book[d] = book[x])
    /\ dev'[d].state = "SYNCED" =>
          \/ dev[d].state = "SYNCED" /\ dev'[d].peer = dev[d].peer
          \/ dev'[d].peer \in given[d] \union late[d]

LEMMA OnAirLater ==
    ASSUME NEW d \in Device, NEW news, Steps(d, news), NEW x \in Device, NEW y \in Device,
           OnAir(x, y)'
    PROVE  OnAir(x, y) \/ (y # d /\ x = d /\ dev[d].source)
<1>1. PICK packet \in Packets(y)' : packet.type = "POSITION" /\ packet.from = x
  BY DEF OnAir
<1>2. CASE packet \in Packets(y)
  BY <1>1, <1>2 DEF OnAir
<1>3. CASE packet \notin Packets(y)
  <2>1. y # d /\ packet \in news
    BY <1>1, <1>3 DEF Steps, Others
  <2> QED BY <1>1, <2>1 DEF Steps, IsNews
<1> QED BY <1>2, <1>3

LEMMA OthersOfTwo ==
    ASSUME AtMostTwo, NEW d \in Device, NEW x \in Device, NEW y \in Others(x)
    PROVE  (x = d /\ y # d) \/ (x # d /\ y = d)
BY DEF AtMostTwo, Others

LEMMA PacketFrom ==
    ASSUME Consent, NEW d \in Device, NEW packet \in Packets(d)
    PROVE  packet \in Truth(d) /\ packet.from \in Others(d)
<1>1. events[d] \in [queue : Seq(Truth(d)), overflow : BOOLEAN]
  BY DEF Consent, Inboxes
<1>2. packet \in Truth(d)
  BY <1>1 DEF Packets, ToSet
<1> QED BY <1>2, PacketFacts DEF Truth, Others

\* A place that its owner has left stays on the air to a source only.
LEMMA OldPlaces ==
    ASSUME TwoAreTrue, NEW d \in Device, NEW news, Steps(d, news), NEW x \in Device,
           NEW packet \in Packets(x)', packet.type = "POSITION",
           packet.place # place'[packet.from]
    PROVE  dev'[x].source
<1>1. packet \in Packets(x)
  <2>1. CASE x = d
    BY <2>1 DEF Steps
  <2>2. CASE x # d
    <3>1. packet \in Packets(x) \/ packet \in news
      BY <2>2 DEF Steps, Others
    <3> QED BY <3>1 DEF Steps, IsNews
  <2> QED BY <2>1, <2>2
<1>2. packet.from \in Others(x)
  BY <1>1, PacketFrom DEF TwoAreTrue
<1>3. dev[x].source
  <2>1. CASE packet.place # place[packet.from]
    BY <1>1, <2>1 DEF TwoAreTrue, AcksAreTrue
  <2>2. CASE packet.place = place[packet.from]
    <3>1. packet.from = d /\ place'[d] # place[d] /\ x \in Others(d) /\ OnAir(d, x)
      BY <1>1, <1>2, <2>2 DEF Steps, Others, OnAir
    <3>2. dev[d].received /\ ~dev[d].source
      BY <3>1 DEF Steps, TwoAreTrue, Consent, MemoryIsTrue, Closed, IsOn
    <3> QED BY <3>1, <3>2 DEF TwoAreTrue, AcksAreTrue
  <2> QED BY <2>1, <2>2
<1>4. CASE x = d
  BY <1>3, <1>4 DEF Steps
<1>5. CASE x # d
  BY <1>3, <1>5 DEF Steps, Others
<1> QED BY <1>4, <1>5

\* Two readers that each have a place of the other are not both receivers.
LEMMA BothOnAir ==
    ASSUME TwoAreTrue, NEW d \in Device, NEW news, Steps(d, news),
           NEW x \in Device, NEW y \in Others(x), OnAir(x, y)', dev'[x].received \/ OnAir(y, x)'
    PROVE  dev'[x].source \/ dev'[y].source
<1> y \in Device
  BY DEF Others
<1>1. dev[d].source => dev'[d].source
  <2>1. CASE x = d
    <3>1. dev'[d].received \/ Packets(d)' # {}
      BY <2>1 DEF OnAir
    <3> QED BY <3>1 DEF Steps
  <2>2. CASE y = d
    <3>1. Packets(d)' # {}
      BY <2>2 DEF OnAir
    <3> QED BY <3>1 DEF Steps
  <2> QED BY <2>1, <2>2, OthersOfTwo DEF TwoAreTrue
<1>2. CASE dev[d].source
  BY <1>1, <1>2, OthersOfTwo DEF TwoAreTrue
<1>3. CASE ~dev[d].source
  <2>1. OnAir(x, y) /\ (OnAir(y, x)' => OnAir(y, x))
    BY <1>3, OnAirLater
  <2>2. dev'[x].received => dev[x].received \/ OnAir(y, x)
    <3>1. CASE x = d
      <4>1. \A e \in Others(x) : e = y
        BY DEF TwoAreTrue, AtMostTwo, Others
      <4> QED BY <3>1, <4>1 DEF Steps
    <3>2. CASE x # d
      BY <3>2 DEF Steps, Others
    <3> QED BY <3>1, <3>2
  <2>3. dev[x].source \/ dev[y].source
    BY <2>1, <2>2 DEF TwoAreTrue, AcksAreTrue
  <2>4. \A z \in {x, y} : dev[z].source => z \in Others(d) /\ dev'[z].source
    BY <1>3 DEF Steps, Others
  <2> QED BY <2>3, <2>4
<1> QED BY <1>2, <1>3

LEMMA StepKeepsAcks ==
    ASSUME TwoAreTrue, NEW d \in Device, NEW news, Steps(d, news), NEW x \in Device
    PROVE  AcksAreTrue(x)'
<1>1. ASSUME NEW packet \in Packets(x)', packet.type = "ACK"
      PROVE  packet.from \in given'[x] \union late'[x]
  <2>1. CASE x = d
    <3>1. packet \in Packets(d) /\ Packets(d)' # {}
      BY <1>1, <2>1 DEF Steps
    <3>2. given'[d] = given[d] /\ late'[d] = late[d]
      BY <3>1 DEF Steps
    <3> QED BY <1>1, <2>1, <3>1, <3>2 DEF TwoAreTrue, AcksAreTrue
  <2>2. CASE x # d
    <3>1. x \in Others(d) /\ (packet \in Packets(x) \/ packet \in news)
      BY <1>1, <2>2 DEF Steps, Others
    <3>2. CASE packet \in Packets(x)
      <4>1. packet.from \in given[x] \union late[x]
        BY <1>1, <3>2 DEF TwoAreTrue, AcksAreTrue
      <4> QED BY <3>1, <4>1 DEF Steps
    <3>3. CASE packet \in news
      BY <1>1, <3>1, <3>3 DEF Steps, IsNews
    <3> QED BY <3>1, <3>2, <3>3
  <2> QED BY <2>1, <2>2
<1>2. dev'[x].state = "SYNCED" => dev'[x].peer \in given'[x] \union late'[x]
  <2>1. CASE x = d
    BY <2>1 DEF Steps, TwoAreTrue, AcksAreTrue
  <2>2. CASE x # d
    BY <2>2 DEF Steps, Others, TwoAreTrue, AcksAreTrue
  <2> QED BY <2>1, <2>2
<1>3. \A e \in given'[x] \union late'[x] : e # x /\ book'[e] = book'[x]
  <2>1. CASE x = d
    BY <2>1 DEF Steps, TwoAreTrue, AcksAreTrue
  <2>2. CASE x # d
    BY <2>2 DEF Steps, Others, TwoAreTrue, AcksAreTrue
  <2> QED BY <2>1, <2>2
<1>4. \A packet \in Packets(x)' :
         packet.type = "POSITION" /\ packet.place # place'[packet.from] => dev'[x].source
  BY OldPlaces
<1>5. \A y \in Others(x) :
         OnAir(x, y)' /\ (dev'[x].received \/ OnAir(y, x)') => dev'[x].source \/ dev'[y].source
  BY BothOnAir
<1> QED BY <1>1, <1>2, <1>3, <1>4, <1>5 DEF AcksAreTrue, Others

(***************************************************************************)
(* The packets that a step takes and sends.                                *)
(***************************************************************************)
\* A step of d that takes packets of its own, and may send those of news.
Puts(d, news) ==
    /\ Packets(d)' \subseteq Packets(d)
    /\ \A x \in Others(d) : Packets(x)' \subseteq Packets(x) \union news

\* A step of d that sends news may do so.
Tells(d, news) == \A packet \in news : IsNews(d, packet)

LEMMA EnqueueAdds ==
    ASSUME NEW inbox \in Inboxes(Packet), NEW p \in Packet
    PROVE  ToSet(Enqueue(inbox, p).queue) \subseteq ToSet(inbox.queue) \union {p}
<1> DEFINE q == inbox.queue
<1>1. q \in Seq(Packet) /\ inbox \in [queue : Seq(Packet), overflow : BOOLEAN]
  BY DEF Inboxes
<1>2. CASE Enqueue(inbox, p).queue = <<>>
  BY <1>2 DEF ToSet
<1>3. CASE Enqueue(inbox, p).queue # <<>>
  <2>1. Enqueue(inbox, p).queue = Append(q, p)
    BY <1>1, <1>3 DEF Enqueue
  <2> HIDE DEF q
  <2>2. \A i \in DOMAIN Append(q, p) :
           Append(q, p)[i] = p \/ (i \in DOMAIN q /\ Append(q, p)[i] = q[i])
    BY <1>1
  <2> QED BY <2>1, <2>2 DEF ToSet, q
<1> QED BY <1>2, <1>3

LEMMA AirAdds ==
    ASSUME NEW S \in SUBSET Inboxes(Packet), NEW p \in Packet, NEW Q,
           \A inbox \in S : ToSet(inbox.queue) \subseteq Q
    PROVE  /\ Air(S, p) \subseteq Inboxes(Packet)
           /\ \A inbox \in Air(S, p) : ToSet(inbox.queue) \subseteq Q \union {p}
<1>1. ASSUME NEW inbox \in Air(S, p)
      PROVE  ToSet(inbox.queue) \subseteq Q \union {p}
  <2>1. CASE inbox \in S
    BY <2>1
  <2>2. CASE inbox \notin S
    <3>1. PICK i \in S : inbox = Enqueue(i, p)
      BY <2>2 DEF Air
    <3>2. ToSet(Enqueue(i, p).queue) \subseteq ToSet(i.queue) \union {p}
      BY EnqueueAdds
    <3> QED BY <3>1, <3>2
  <2> QED BY <2>1, <2>2
<1> QED BY <1>1, AirInboxes

\* Send() puts what its inboxes have.
LEMMA SendPuts ==
    ASSUME Consent, NEW d \in Device, NEW e \in Device \ {d}, NEW box, NEW S, NEW news,
           DOMAIN box = Device, \A x \in Device \ {d} : box[x] = events[x],
           ToSet(box[d].queue) \subseteq Packets(d),
           \A inbox \in S : ToSet(inbox.queue) \subseteq Packets(e) \union news,
           Send(box, e, S)
    PROVE  Puts(d, news)
<1>1. PICK inbox \in IF IsOn(e) THEN S ELSE {events[e]} : events' = [box EXCEPT ![e] = inbox]
  BY DEF Send
<1>2. ToSet(inbox.queue) \subseteq Packets(e) \union news
  BY <1>1 DEF Packets
<1>3. events'[e] = inbox /\ \A x \in Device \ {e} : events'[x] = box[x]
  BY <1>1
<1> QED BY <1>2, <1>3 DEF Puts, Packets, Others

LEMMA NewPackets ==
    ASSUME Consent, NEW d \in Device
    PROVE  /\ Name(d) \in Packet /\ Ack(d) \in Packet /\ Hello(d) \in Packet
           /\ IsOn(d) => Position(d) \in Packet
           /\ \A x \in Device : {events[x]} \in SUBSET Inboxes(Packet)
BY PacketFacts DEF Consent, TypeOK, MemoryIsTrue

\* A packet alone, to e.
LEMMA OnePut ==
    ASSUME Consent, NEW d \in Device, NEW e \in Device \ {d}, NEW box, NEW p \in Packet,
           DOMAIN box = Device, \A x \in Device \ {d} : box[x] = events[x],
           ToSet(box[d].queue) \subseteq Packets(d), Send(box, e, Air({events[e]}, p))
    PROVE  Puts(d, {p})
<1>1. \A inbox \in Air({events[e]}, p) : ToSet(inbox.queue) \subseteq Packets(e) \union {p}
  BY NewPackets, AirAdds DEF Packets
<1> QED BY <1>1, SendPuts

\* The name and the place.
LEMMA PositionPut ==
    ASSUME Consent, NEW d \in Device, IsOn(d), NEW e \in Device \ {d}, NEW box,
           DOMAIN box = Device, \A x \in Device \ {d} : box[x] = events[x],
           ToSet(box[d].queue) \subseteq Packets(d),
           NEW out \in LocalPositionSent(d, {events[e]}), Send(box, e, out.inboxes)
    PROVE  Puts(d, {Name(d), Position(d)})
<1> DEFINE named  == Air({events[e]}, Name(d))
           placed == Air(named, Position(d))
           known  == Packets(e) \union {Name(d)}
<1>1. named \subseteq Inboxes(Packet) /\ \A inbox \in named : ToSet(inbox.queue) \subseteq known
  <2>1. {events[e]} \in SUBSET Inboxes(Packet) /\ Name(d) \in Packet
    BY NewPackets
  <2>2. \A inbox \in {events[e]} : ToSet(inbox.queue) \subseteq Packets(e)
    BY DEF Packets
  <2> QED BY <2>1, <2>2, AirAdds
<1> HIDE DEF named, known
<1>2. \A inbox \in placed : ToSet(inbox.queue) \subseteq known \union {Position(d)}
  <2>1. named \in SUBSET Inboxes(Packet) /\ Position(d) \in Packet
    BY <1>1, NewPackets
  <2> QED BY <1>1, <2>1, AirAdds
<1>3. out.inboxes = placed \/ out.inboxes = named
  BY DEF LocalPositionSent, named
<1> HIDE DEF placed
<1>4. \A inbox \in out.inboxes :
         ToSet(inbox.queue) \subseteq Packets(e) \union {Name(d), Position(d)}
  BY <1>1, <1>2, <1>3 DEF known
<1> QED BY <1>4, SendPuts

LEMMA HelloPut ==
    ASSUME Consent, NEW d \in Device, SendHello(d)
    PROVE  Puts(d, {Hello(d)})
<1>1. PICK heard \in SUBSET {e \in Others(d) : IsOn(e)} :
         events' = [e \in Device |-> IF e \in heard THEN Enqueue(events[e], Hello(d)) ELSE events[e]]
  BY DEF SendHello
<1>2. ASSUME NEW x \in Device
      PROVE  Packets(x)' \subseteq Packets(x) \union {Hello(d)}
  <2>1. ToSet(Enqueue(events[x], Hello(d)).queue) \subseteq Packets(x) \union {Hello(d)}
    BY NewPackets, EnqueueAdds DEF Packets
  <2>2. events'[x] = Enqueue(events[x], Hello(d)) \/ events'[x] = events[x]
    BY <1>1
  <2> QED BY <2>1, <2>2 DEF Packets
<1>3. events'[d] = events[d]
  BY <1>1 DEF Others
<1> QED BY <1>2, <1>3 DEF Puts, Packets, Others

\* What is taken was there.
LEMMA PopTakes ==
    ASSUME Consent, NEW d \in Device, events[d].queue # <<>>
    PROVE  /\ Event(d) \in Packets(d)
           /\ DOMAIN Pop(d) = Device /\ \A x \in Device \ {d} : Pop(d)[x] = events[x]
           /\ ToSet(Pop(d)[d].queue) \subseteq Packets(d)
<1> DEFINE q == events[d].queue
<1>1. q \in Seq(Packet) /\ events[d] \in [queue : Seq(Packet), overflow : BOOLEAN]
      /\ DOMAIN events = Device
  BY DEF Consent, TypeOK, Inboxes
<1>2. Pop(d) = [events EXCEPT ![d] = [events[d] EXCEPT !.queue = Tail(q)]]
  BY DEF Pop
<1>3. Pop(d)[d].queue = Tail(q) /\ \A x \in Device \ {d} : Pop(d)[x] = events[x]
  BY <1>1, <1>2
<1>4. 1 \in DOMAIN q /\ Head(q) = q[1] /\ \A i \in DOMAIN Tail(q) : i + 1 \in DOMAIN q /\ Tail(q)[i] = q[i + 1]
  <2>1. q # <<>>
    OBVIOUS
  <2> HIDE DEF q
  <2> QED BY <1>1, <2>1
<1> QED BY <1>1, <1>2, <1>3, <1>4 DEF ToSet, Packets, Event

LEMMA NoPackets ==
    ASSUME NEW d \in Device, events[d] = NoEvents
    PROVE  Packets(d) = {}
BY DEF Packets, NoEvents, ToSet

(***************************************************************************)
(* Every step is one of these.                                             *)
(***************************************************************************)
\* A step that leaves the places and who has been given them.
LEMMA CalmStep ==
    ASSUME TwoAreTrue, NEW d \in Device, NEW news, Puts(d, news),
           place' = place, book' = book, given' = given, late' = late, NEW r, dev' = [dev EXCEPT ![d] = r],
           Tells(d, news),
           dev[d].source => r.source,
           r.received => dev[d].received \/ \E e \in Others(d) : OnAir(e, d),
           r.state = "SYNCED" => \/ dev[d].state = "SYNCED" /\ r.peer = dev[d].peer
                                 \/ r.peer \in given[d] \union late[d]
    PROVE  Steps(d, news)
<1>1. dev'[d] = r /\ \A x \in Others(d) : dev'[x] = dev[x]
  BY DEF TwoAreTrue, Consent, TypeOK, Others
<1> QED BY <1>1 DEF Steps, Puts, Tells

\* A step that sends nothing.
LEMMA SilentStep ==
    ASSUME TwoAreTrue, NEW d \in Device, Puts(d, {}),
           place' = place, book' = book, given' = given, late' = late, NEW r, dev' = [dev EXCEPT ![d] = r],
           r.source = dev[d].source, r.received = dev[d].received,
           r.state = "SYNCED" => dev[d].state = "SYNCED" /\ r.peer = dev[d].peer
    PROVE  Steps(d, {})
<1>1. /\ Tells(d, {})
      /\ dev[d].source => r.source
      /\ r.received => dev[d].received \/ \E e \in Others(d) : OnAir(e, d)
      /\ r.state = "SYNCED" => \/ dev[d].state = "SYNCED" /\ r.peer = dev[d].peer
                              \/ r.peer \in given[d] \union late[d]
  BY DEF Tells
<1> QED BY <1>1, CalmStep

LEMMA QuietPut == ASSUME NEW d, events' = events PROVE Puts(d, {})
BY DEF Puts, Packets

LEMMA PopPut ==
    ASSUME Consent, NEW d \in Device, events[d].queue # <<>>, events' = Pop(d)
    PROVE  Puts(d, {})
BY PopTakes DEF Puts, Packets, Others

LEMMA EnterSteps == ASSUME TwoAreTrue, NEW d \in Device, Enter(d) PROVE Steps(d, {})
<1>1. PICK state \in {"READY", "ERROR"} :
         dev' = [dev EXCEPT ![d] = [Closed EXCEPT !.state = state, !.local = place[d]]]
  BY DEF Enter
<1>2. PICK r : r = [Closed EXCEPT !.state = state, !.local = place[d]]
  OBVIOUS
<1>3. dev[d] = Closed /\ Puts(d, {}) /\ UNCHANGED <<place, book, given, late>>
  BY QuietPut DEF Enter, histories, TwoAreTrue, Consent, MemoryIsTrue
<1>4. r.source = FALSE /\ r.received = FALSE /\ r.state # "SYNCED"
  BY <1>2 DEF Closed
<1>5. r.source = dev[d].source /\ r.received = dev[d].received
  BY <1>3, <1>4, ClosedFacts
<1> QED BY <1>1, <1>2, <1>3, <1>4, <1>5, SilentStep

LEMMA LeaveSteps ==
    ASSUME TwoAreTrue, NEW d \in Device, Leave(d) \/ PowerLoss(d)
    PROVE  Steps(d, {})
<1>1. /\ dev' = [dev EXCEPT ![d] = Closed] /\ UNCHANGED <<place, book, given, late>>
      /\ events'[d] = NoEvents /\ \A x \in Others(d) : events'[x] = events[x]
  BY DEF Leave, PowerLoss, SwitchOff, Drained, Others, TwoAreTrue, Consent, TypeOK
<1>2. /\ Packets(d)' = {} /\ \A x \in Others(d) : Packets(x)' = Packets(x)
      /\ dev'[d] = Closed /\ \A x \in Others(d) : dev'[x] = dev[x]
  BY <1>1 DEF Packets, NoEvents, ToSet, Others, TwoAreTrue, Consent, TypeOK
<1> QED BY <1>1, <1>2, ClosedFacts DEF Steps

LEMMA ReadSteps == ASSUME TwoAreTrue, NEW d \in Device, Read(d) PROVE Steps(d, {})
<1>1. /\ dev[d] = Closed /\ Packets(d) = {} /\ UNCHANGED <<dev, events, book>>
      /\ \A x \in Device : ~OnAir(d, x)
  BY NoPackets DEF Read, OnAir, TwoAreTrue, Consent, MemoryIsTrue
<1>2. /\ given'[d] = {} /\ late'[d] = {}
      /\ \A x \in Others(d) : given'[x] = given[x] /\ late'[x] = late[x] /\ place'[x] = place[x]
  BY DEF Read, Others, TwoAreTrue, Consent, TypeOK
<1>3. \A x \in Device : Packets(x)' = Packets(x)
  BY <1>1 DEF Packets
<1> QED BY <1>1, <1>2, <1>3, ClosedFacts DEF Steps, Others

\* What is said on the air besides the place and the ACK.
LEMMA SmallTalk ==
    ASSUME NEW d \in Device
    PROVE  IsNews(d, Hello(d)) /\ IsNews(d, Name(d))
BY DEF IsNews, Hello, Name

LEMMA StartSteps ==
    ASSUME TwoAreTrue, NEW d \in Device, StartFails(d) \/ StartSync(d)
    PROVE  \E news : Steps(d, news)
<1>1. PICK state \in {"ERROR", "DISCOVERING"} : dev' = [dev EXCEPT ![d] = Sharing(d, state)]
  BY DEF StartFails, StartSync
<1>2. PICK r : r = Sharing(d, state)
  OBVIOUS
<1>3. r.source = TRUE /\ r.received = FALSE /\ r.state # "SYNCED"
  BY <1>2 DEF Sharing, Closed
<1>4. UNCHANGED <<place, book, given, late>>
  BY DEF StartFails, StartSync, histories
<1>5. PICK news \in SUBSET {Hello(d)} : Puts(d, news)
  BY QuietPut, HelloPut DEF StartFails, StartSync, TwoAreTrue
<1>6. Tells(d, news)
  BY SmallTalk DEF Tells
<1> QED BY <1>1, <1>2, <1>3, <1>4, <1>5, <1>6, CalmStep

LEMMA StateSteps ==
    ASSUME TwoAreTrue, NEW d \in Device, TimeOut(d) \/ ShowAgain(d) \/ ApplyFails(d)
    PROVE  Steps(d, {})
<1>1. PICK state \in {"ERROR", "SHOWING_RESULT"} : dev' = [dev EXCEPT ![d] = SetState(dev[d], state)]
  BY DEF TimeOut, ShowAgain, ApplyFails, TwoAreTrue, Consent, TypeOK
<1>2. PICK r : r = SetState(dev[d], state)
  OBVIOUS
<1>3. Alike(r, dev[d]) /\ r.state = state
  BY <1>2, SetStateFacts DEF TwoAreTrue, Consent, TypeOK, States
<1>4. Puts(d, {}) /\ UNCHANGED <<place, book, given, late>>
  BY QuietPut DEF TimeOut, ShowAgain, ApplyFails, histories, TwoAreTrue
<1> QED BY <1>1, <1>2, <1>3, <1>4, SilentStep DEF Alike

LEMMA PaintSteps == ASSUME TwoAreTrue, NEW d \in Device, Paint(d) PROVE Steps(d, {})
<1>1. PICK r : r = [dev[d] EXCEPT !.panel = dev[d].cross, !.stale = FALSE]
  OBVIOUS
<1>2. dev[d] \in Activity
  BY DEF TwoAreTrue, Consent, TypeOK
<1>3. r.source = dev[d].source /\ r.received = dev[d].received /\ r.state = dev[d].state
      /\ r.peer = dev[d].peer
  BY <1>1, <1>2 DEF Activity
<1>4. Puts(d, {}) /\ UNCHANGED <<place, book, given, late>> /\ dev' = [dev EXCEPT ![d] = r]
  BY <1>1, QuietPut DEF Paint, histories, TwoAreTrue
<1> QED BY <1>3, <1>4, SilentStep

\* The place that a source sends is the one it is at.
LEMMA PlaceIsNews ==
    ASSUME TwoAreTrue, NEW d \in Device, IsOn(d), dev[d].source, UNCHANGED place
    PROVE  Tells(d, {Name(d), Position(d)})
<1>1. dev[d].local = place[d]
  BY DEF TwoAreTrue, Consent, MemoryIsTrue
<1>2. IsNews(d, Position(d))
  BY <1>1 DEF IsNews, Position
<1> QED BY <1>2, SmallTalk DEF Tells

LEMMA RepeatSteps ==
    ASSUME TwoAreTrue, NEW d \in Device, RepeatHello(d) \/ RepeatPosition(d)
    PROVE  \E news : Steps(d, news)
<1>1. /\ UNCHANGED <<place, book, given, late>> /\ IsOn(d) /\ dev[d] \in Activity
      /\ dev \in [Device -> Activity] /\ DOMAIN events = Device
  BY DEF RepeatHello, RepeatPosition, Drained, histories, TwoAreTrue, Consent, TypeOK
<1>2. CASE RepeatHello(d)
  <2>1. dev' = [dev EXCEPT ![d] = dev[d]] /\ Puts(d, {Hello(d)})
    BY <1>1, <1>2, HelloPut DEF RepeatHello, TwoAreTrue
  <2>2. Tells(d, {Hello(d)})
    BY SmallTalk DEF Tells
  <2> QED BY <1>1, <2>1, <2>2, CalmStep
<1>3. CASE RepeatPosition(d)
  <2>1. PICK e \in Device \ {d} : e = dev[d].peer
    BY <1>1, <1>3, FitsNow DEF RepeatPosition, Fits, Activity, TwoAreTrue
  <2>2. PICK out \in LocalPositionSent(d, {events[e]}) :
           dev' = [dev EXCEPT ![d].sent = out.sent] /\ Send(events, e, out.inboxes)
    BY <1>3, <2>1 DEF RepeatPosition
  <2>3. Puts(d, {Name(d), Position(d)})
    BY <1>1, <2>2, PositionPut DEF TwoAreTrue, Packets
  <2>4. PICK r : r = [dev[d] EXCEPT !.sent = out.sent]
    OBVIOUS
  <2>5. /\ r.source = dev[d].source /\ r.received = dev[d].received
        /\ r.state = dev[d].state /\ r.peer = dev[d].peer
    BY <1>1, <2>4 DEF Activity
  <2>6. Tells(d, {Name(d), Position(d)})
    BY <1>1, <1>3, PlaceIsNews DEF RepeatPosition
  <2>7. dev' = [dev EXCEPT ![d] = r]
    BY <2>2, <2>4
  <2> QED BY <1>1, <2>3, <2>5, <2>6, <2>7, CalmStep
<1> QED BY <1>2, <1>3

LEMMA RefuseSteps ==
    ASSUME TwoAreTrue, NEW d \in Device, ReportOverflow(d) \/ Ignore(d) \/ Refuse(d)
    PROVE  Steps(d, {})
<1>1. /\ UNCHANGED <<place, book, given, late>>
      /\ dev[d] \in Activity /\ dev \in [Device -> Activity] /\ DOMAIN events = Device
  BY DEF ReportOverflow, Ignore, Refuse, histories, TwoAreTrue, Consent, TypeOK
<1>2. Puts(d, {})
  <2>1. CASE ReportOverflow(d)
    <3>1. events'[d] = NoEvents /\ \A x \in Others(d) : events'[x] = events[x]
      BY <1>1, <2>1 DEF ReportOverflow, Others
    <3> QED BY <3>1 DEF Puts, Packets, NoEvents, ToSet
  <2>2. CASE Ignore(d) \/ Refuse(d)
    BY <2>2, PopPut DEF Ignore, Refuse, TwoAreTrue
  <2> QED BY <2>1, <2>2
<1>3. CASE Ignore(d)
  <2>1. dev' = [dev EXCEPT ![d] = dev[d]]
    BY <1>1, <1>3 DEF Ignore
  <2> QED BY <1>1, <1>2, <2>1, SilentStep
<1>4. CASE ReportOverflow(d) \/ Refuse(d)
  <2>1. PICK r : r = SetState(dev[d], "ERROR")
    OBVIOUS
  <2>2. Alike(r, dev[d]) /\ r.state = "ERROR"
    BY <1>1, <2>1, SetStateFacts DEF States
  <2>3. dev' = [dev EXCEPT ![d] = r]
    BY <1>4, <2>1 DEF ReportOverflow, Refuse
  <2> QED BY <1>1, <1>2, <2>2, <2>3, SilentStep DEF Alike
<1> QED BY <1>3, <1>4

LEMMA NameSteps ==
    ASSUME TwoAreTrue, NEW d \in Device, NameOfPeer(d) \/ AnswerName(d)
    PROVE  \E news : Steps(d, news)
<1>1. /\ UNCHANGED <<place, book, given, late>> /\ Consent
      /\ Handles(d, "NAME") /\ Knows(d) /\ events[d].queue # <<>>
  BY DEF NameOfPeer, AnswerName, Handles, histories, TwoAreTrue
<1>2. PICK r : r = Named(d)
  OBVIOUS
<1>3. /\ r \in Activity /\ r.state # "SYNCED"
      /\ r.source = dev[d].source /\ r.received = dev[d].received
  BY <1>1, <1>2, NamedFacts
<1>4. CASE NameOfPeer(d)
  <2>1. dev' = [dev EXCEPT ![d] = r] /\ Puts(d, {})
    BY <1>1, <1>2, <1>4, PopPut DEF NameOfPeer
  <2> QED BY <1>1, <1>3, <2>1, SilentStep
<1>5. CASE AnswerName(d)
  <2>1. PICK e \in Device \ {d} : e = Sender(d) /\ IsOn(d)
    BY <1>1, EventFacts
  <2>2. PICK out \in LocalPositionSent(d, {events[e]}) :
           dev' = [dev EXCEPT ![d] = [Named(d) EXCEPT !.sent = out.sent]] /\ Send(Pop(d), e, out.inboxes)
    BY <1>5, <2>1 DEF AnswerName
  <2>3. Puts(d, {Name(d), Position(d)})
    BY <1>1, <2>1, <2>2, PopTakes, PositionPut
  <2>4. PICK q : q = [r EXCEPT !.sent = out.sent]
    OBVIOUS
  <2>5. q.source = r.source /\ q.received = r.received /\ q.state = r.state
    BY <1>3, <2>4 DEF Activity
  <2>6. Tells(d, {Name(d), Position(d)})
    BY <1>1, <1>5, <2>1, PlaceIsNews DEF AnswerName
  <2>7. dev' = [dev EXCEPT ![d] = q]
    BY <1>2, <2>2, <2>4
  <2> QED BY <1>1, <1>3, <2>3, <2>5, <2>6, <2>7, CalmStep
<1> QED BY <1>4, <1>5

LEMMA HelloSteps ==
    ASSUME TwoAreTrue, NEW d \in Device, HandleHello(d) \/ PositionAtSource(d)
    PROVE  \E news : Steps(d, news)
<1>1. /\ UNCHANGED <<place, book, given, late>> /\ Consent
      /\ events[d].queue # <<>> /\ Listens(d)
  BY DEF HandleHello, PositionAtSource, Handles, histories, TwoAreTrue
<1>2. PICK q : q = Met(d)
  OBVIOUS
<1>3. /\ q \in Activity /\ q.state # "SYNCED" /\ q.source = dev[d].source
      /\ q.received => dev[d].received
  BY <1>1, <1>2, MetFacts
<1>4. CASE PositionAtSource(d)
  <2>1. dev' = [dev EXCEPT ![d] = q] /\ Puts(d, {}) /\ Tells(d, {})
    BY <1>1, <1>2, <1>4, PopPut DEF PositionAtSource, Tells
  <2> QED BY <1>1, <1>3, <2>1, CalmStep
<1>5. CASE HandleHello(d)
  <2>1. PICK r : r = IF q.source THEN q ELSE SetState(q, "SYNCING")
    OBVIOUS
  <2>2. Alike(r, q) /\ r.state # "SYNCED"
    BY <1>3, <2>1, SetStateFacts DEF States, Alike
  <2>3. PICK e \in Device \ {d} : e = Sender(d)
    BY <1>1, EventFacts
  <2>4. dev' = [dev EXCEPT ![d] = r] /\ Send(Pop(d), e, Air({events[e]}, Name(d)))
    BY <1>2, <1>5, <2>1, <2>3 DEF HandleHello
  <2>5. Puts(d, {Name(d)}) /\ Tells(d, {Name(d)})
    BY <1>1, <2>4, PopTakes, NewPackets, OnePut, SmallTalk DEF Tells
  <2> QED BY <1>1, <1>3, <2>2, <2>4, <2>5, CalmStep DEF Alike
<1> QED BY <1>4, <1>5

\* An ACK is about the place that its hearer is at, or a late one.
LEMMA AckSteps == ASSUME TwoAreTrue, NEW d \in Device, HandleAck(d) PROVE Steps(d, {})
<1>1. /\ UNCHANGED <<place, book, given, late>> /\ Consent
      /\ events[d].queue # <<>> /\ Listens(d) /\ Event(d).type = "ACK" /\ events' = Pop(d)
  BY DEF HandleAck, Handles, histories, TwoAreTrue
<1>2. PICK q : q = Met(d)
  OBVIOUS
<1>3. /\ q \in Activity /\ q.peer = Sender(d) /\ q.source = dev[d].source
      /\ q.received => dev[d].received
  BY <1>1, <1>2, MetFacts
<1>4. PICK p : p = [q EXCEPT !.acked = TRUE]
  OBVIOUS
<1>5. p \in Activity /\ Alike(p, q)
  BY <1>3, <1>4 DEF Activity, Alike
<1>6. PICK r : r = IF p.source THEN SetState(p, "SYNCED") ELSE p
  OBVIOUS
<1>7. Alike(r, p)
  BY <1>5, <1>6, SetStateFacts DEF States, Alike
<1>8. dev' = [dev EXCEPT ![d] = r]
  BY <1>2, <1>4, <1>6 DEF HandleAck
<1>9. Event(d) \in Packets(d) /\ Puts(d, {}) /\ Tells(d, {})
  BY <1>1, PopTakes, PopPut DEF Tells
<1>10. Sender(d) \in given[d] \union late[d]
  BY <1>1, <1>9 DEF TwoAreTrue, AcksAreTrue, Sender
<1> QED BY <1>1, <1>3, <1>5, <1>7, <1>8, <1>9, <1>10, CalmStep DEF Alike

\* A place that is taken is the one its sender is at: another one is on the air
\* to a source only.
LEMMA PositionSteps == ASSUME TwoAreTrue, NEW d \in Device, HandlePosition(d) PROVE Steps(d, {Ack(d)})
<1>1. /\ Consent /\ events[d].queue # <<>> /\ Listens(d) /\ Event(d).type = "POSITION"
      /\ ~Foreign(d) /\ ~Met(d).source /\ UNCHANGED <<place, book, late>>
  BY DEF HandlePosition, Handles, TwoAreTrue
<1>2. PICK e \in Device \ {d} : e = Sender(d) /\ Event(d) \in Truth(d) /\ Event(d) \in Packets(d)
  BY <1>1, EventFacts, PopTakes
<1>3. book[e] = book[d] /\ OnAir(e, d) /\ e \in Others(d) /\ \A x \in Others(d) : x = e
  BY <1>1, <1>2 DEF Foreign, Truth, Sender, OnAir, Others, TwoAreTrue, AtMostTwo
<1>4. dev[d].source = FALSE
  BY <1>1, MetFacts DEF TwoAreTrue, Consent, TypeOK, Activity
<1>5. Event(d).place = place[e]
  BY <1>1, <1>2, <1>4 DEF TwoAreTrue, AcksAreTrue, Sender
<1>6. /\ given'[e] = given[e] \union {d} /\ \A x \in Device \ {e} : given'[x] = given[x]
  BY <1>2, <1>5 DEF HandlePosition, TwoAreTrue, Consent, TypeOK
<1>7. PICK r : r = Showing(d)
  OBVIOUS
<1>8. dev' = [dev EXCEPT ![d] = r] /\ Send(Pop(d), e, Air({events[e]}, Ack(d)))
  BY <1>2, <1>7 DEF HandlePosition
<1>9. r.state = "SHOWING_RESULT"
  BY <1>7 DEF Showing, SetState
<1>10. dev'[d] = r /\ \A x \in Others(d) : dev'[x] = dev[x]
  BY <1>8 DEF Others, TwoAreTrue, Consent, TypeOK
<1>11. Puts(d, {Ack(d)})
  BY <1>1, <1>8, PopTakes, NewPackets, OnePut
<1>12. IsNews(d, Ack(d))
  BY <1>3, <1>6 DEF IsNews, Ack
<1>13. dev'[d].received => \E x \in Others(d) : OnAir(x, d)
  BY <1>3
<1> QED BY <1>1, <1>2, <1>3, <1>4, <1>6, <1>9, <1>10, <1>11, <1>12, <1>13 DEF Steps, Puts, Others

\* Who applies a place has got it of the only other reader.
LEMMA ApplySteps == ASSUME TwoAreTrue, NEW d \in Device, Apply(d) PROVE Steps(d, {Ack(d)})
<1>1. /\ Consent /\ IsOn(d) /\ Drained(d) /\ dev[d].state = "SHOWING_RESULT" /\ ~dev[d].source
      /\ dev' = [dev EXCEPT ![d] = Closed] /\ UNCHANGED book
  BY DEF Apply, SwitchOff, Drained, TwoAreTrue
<1>2. dev[d].received /\ dev[d].peer \in Device \ {d} /\ dev[d].source = FALSE
  BY <1>1, FitsNow, PositionAssumption DEF Fits, Activity
<1>3. PICK e \in Device \ {d} : e = dev[d].peer
  BY <1>2
<1>4. e \in Others(d) /\ (\A x \in Others(d) : x = e) /\ book[d] = book[e]
  BY <1>1, <1>2 DEF Others, TwoAreTrue, AtMostTwo, OnlySharedIsOffered, Consent
<1>5. Puts(d, {Ack(d)})
  <2>1. DOMAIN events = Device /\ ToSet(events[d].queue) \subseteq Packets(d)
    BY <1>1 DEF Packets, Consent, TypeOK
  <2>2. Send(events, e, Air({events[e]}, Ack(d)))
    BY <1>3 DEF Apply
  <2> QED BY <1>1, <2>1, <2>2, NewPackets, OnePut
<1>6. Packets(d) = {} /\ Packets(d)' = {}
  BY <1>1, <1>5, NoPackets DEF Drained, Puts
<1>7. /\ given \in [Device -> SUBSET Device] /\ late \in [Device -> SUBSET Device]
      /\ place \in [Device -> Place]
  BY <1>1 DEF Consent, TypeOK
<1>8. /\ given'[d] = {} /\ late'[d] = {} /\ place'[e] = place[e]
      /\ given[e] \subseteq given'[e] /\ late[e] \subseteq late'[e]
      /\ d \in given'[e] \union late'[e]
      /\ given'[e] \union late'[e] \subseteq given[e] \union late[e] \union {d}
  <2>1. place'[e] = place[e]
    BY <1>7 DEF Apply
  <2>2. CASE dev[d].cross = place[e]
    <3>1. given' = Took(given, d, e) /\ late' = [late EXCEPT ![d] = {}]
      BY <1>3, <2>2 DEF Apply
    <3> QED BY <1>7, <2>1, <3>1 DEF Took
  <2>3. CASE dev[d].cross # place[e]
    <3>1. late' = Took(late, d, e) /\ given' = [given EXCEPT ![d] = {}]
      BY <1>3, <2>3 DEF Apply
    <3> QED BY <1>7, <2>1, <3>1 DEF Took
  <2> QED BY <2>2, <2>3
<1>9. dev'[d] = Closed /\ \A x \in Others(d) : dev'[x] = dev[x]
  BY <1>1 DEF Others, Consent, TypeOK
<1>10. IsNews(d, Ack(d))
  BY <1>4, <1>8 DEF IsNews, Ack
<1>11. \A y \in given'[e] \union late'[e] :
          y \in given[e] \union late[e] \/ (y = d /\ book[d] = book[e])
  BY <1>4, <1>8
<1> QED BY <1>1, <1>2, <1>4, <1>5, <1>6, <1>8, <1>9, <1>10, <1>11, ClosedFacts DEF Steps, Puts

LEMMA EveryStep ==
    ASSUME TwoAreTrue, NEW d \in Device,
           \/ Handle(d) \/ Fail(d) \/ User(d) \/ Paint(d)
           \/ ShowAgain(d) \/ RepeatHello(d) \/ RepeatPosition(d)
    PROVE  \E news : Steps(d, news)
<1>1. CASE Handle(d)
  BY <1>1, RefuseSteps, NameSteps, HelloSteps, PositionSteps, AckSteps DEF Handle
<1>2. CASE Fail(d) \/ User(d)
  BY <1>2, StartSteps, StateSteps, LeaveSteps, EnterSteps, ReadSteps, ApplySteps DEF Fail, User
<1>3. CASE Paint(d) \/ ShowAgain(d) \/ RepeatHello(d) \/ RepeatPosition(d)
  BY <1>3, PaintSteps, StateSteps, RepeatSteps
<1> QED BY <1>1, <1>2, <1>3

LEMMA NextKeepsAcks ==
    ASSUME TwoAreTrue, [Next]_vars
    PROVE  \A x \in Device : AcksAreTrue(x)'
<1>1. CASE UNCHANGED vars
  BY <1>1 DEF vars, histories, TwoAreTrue, AcksAreTrue, OnAir, Packets
<1>2. CASE Next
  <2>1. PICK d \in Device : \/ Handle(d) \/ Fail(d) \/ User(d) \/ Paint(d)
                            \/ ShowAgain(d) \/ RepeatHello(d) \/ RepeatPosition(d)
    BY <1>2 DEF Next
  <2>2. PICK news : Steps(d, news)
    BY <2>1, EveryStep
  <2> QED BY <2>2, StepKeepsAcks
<1> QED BY <1>1, <1>2

(***************************************************************************)
(* The theorems.                                                           *)
(***************************************************************************)
LEMMA InitAcks == Init => \A d \in Device : AcksAreTrue(d)
<1> SUFFICES ASSUME Init, NEW d \in Device PROVE AcksAreTrue(d)
  OBVIOUS
<1>1. /\ dev[d] = Closed /\ given[d] = {} /\ late[d] = {}
      /\ \A x \in Device : events[x] = NoEvents
  BY DEF Init
<1>2. \A x \in Device : Packets(x) = {}
  BY <1>1, NoPackets
<1> QED BY <1>1, <1>2, ClosedFacts DEF AcksAreTrue, OnAir, Others

\* Whatever the number of readers, of books and of losses: the invariant.
THEOREM Invariance == Spec => []IInv
<1>1. Init => IInv
  BY InitIsSound, InitAcks DEF IInv
<1>2. IInv /\ [Next]_vars => IInv'
  <2> SUFFICES ASSUME IInv, [Next]_vars PROVE IInv'
    OBVIOUS
  <2>1. Consent'
    BY NextIsSound DEF IInv
  <2>2. ASSUME AtMostTwo PROVE \A d \in Device : AcksAreTrue(d)'
    BY <2>2, NextKeepsAcks DEF IInv, TwoAreTrue
  <2> QED BY <2>1, <2>2 DEF IInv, AtMostTwo
<1> QED BY <1>1, <1>2, PTL DEF Spec

\* Variables keep their types.
THEOREM TypeCorrect == Spec => []TypeOK
<1>1. IInv => TypeOK
  BY DEF IInv, Consent
<1> QED BY <1>1, Invariance, PTL

\* No reader offers its owner a place that has not been shared with Share, or one
\* in another book, however many of them are about.
THEOREM NothingUnasked == Spec => []OnlySharedIsOffered
<1>1. IInv => OnlySharedIsOffered
  BY DEF IInv, Consent
<1> QED BY <1>1, Invariance, PTL

\* Of two readers, the one that says "Position shared" has given the other, in the
\* same book, the place it is at, or the other's owner has since pressed Select for
\* one it was at before: whatever was lost, resent, switched off or read on.
THEOREM SharingSucceeded == Spec => []SharedIsGiven
<1>1. IInv => SharedIsGiven
  BY DEF IInv, Consent, MemoryIsTrue, AcksAreTrue, SharedIsGiven
<1> QED BY <1>1, Invariance, PTL
=============================================================================
