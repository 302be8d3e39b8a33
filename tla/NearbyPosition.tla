--------------------------- MODULE NearbyPosition ----------------------------
(***************************************************************************)
(* Nearby Position Sync: a reader shares its place in the open book with   *)
(* another one that has the screen open, over ESP-NOW,                     *)
(* src/src/activities/reader/NearbyBookPositionSyncActivity.cpp.           *)
(*                                                                         *)
(* The radio and the clock are those of NearbyStats: a packet that is not  *)
(* lost joins the receiver's queue, the main task drains the queue at the  *)
(* start of a pass of loop(), and a timeout or an interval may have        *)
(* elapsed whenever the code looks.  The panel is painted some time after  *)
(* a handler has asked for it, and the owner presses Select only on a      *)
(* panel that has been painted.  The state APPLYING and the packet APPLY   *)
(* are never used by the code and are left out.                            *)
(***************************************************************************)
EXTENDS Naturals, Sequences, SequencesExt

CONSTANTS
    Device,         \* the readers, by MAC address
    Place,          \* the places in a book
    Book,           \* the books, by document hash
    Newer,          \* the readers whose protocol version may be another one
    MaxEvents,      \* MAX_SYNC_EVENTS
    None            \* no MAC address, no place

ASSUME PositionAssumption ==
    /\ Newer \subseteq Device
    /\ MaxEvents \in Nat \ {0}
    /\ None \notin Device \union Place

VARIABLES
    dev,            \* the activity of each reader, "OFF" when it has none
    events,         \* events_ and eventOverflow_
    place,          \* the progress file of the open book
    book,           \* the open book
    newer,          \* the readers of another protocol version
    shared,         \* history: the places a reader's owner has pressed Share for
    given,          \* history: the readers that have received the place it is at
    late            \* history: the readers whose owner has pressed Select for an
                    \* earlier one, since it is there

histories == <<shared, given, late>>
vars == <<dev, events, place, book, newer, histories>>

States   == {"OFF", "READY", "DISCOVERING", "SYNCING", "SHOWING_RESULT", "SYNCED", "ERROR"}
Activity == [state    : States,
             source   : BOOLEAN,                    \* sourceMode_
             seen     : BOOLEAN,                    \* peerSeen_
             received : BOOLEAN,                    \* peerPositionReceived_
             sent     : BOOLEAN,                    \* localPositionSent_
             acked    : BOOLEAN,                    \* localPositionAcked_
             peer     : Device \union {None},       \* peerDeviceMac_
             local    : Place \union {None},        \* localPosition_
             cross    : Place \union {None},        \* peerCrossPoint_
             panel    : Place \union {None},        \* the nearby place on the panel
             stale    : BOOLEAN]                    \* a paint has been asked for

Packet == [type : {"HELLO"}, from : Device, book : Book]
            \union [type : {"NAME", "ACK"}, from : Device]
            \union [type : {"POSITION"}, from : Device, book : Book, place : Place]

\* An inbox that has room for its packets, all of them of the given ones.
Inboxes(packets) ==
    {inbox \in [queue : Seq(packets), overflow : BOOLEAN] : Len(inbox.queue) <= MaxEvents}

TypeOK ==
    /\ dev \in [Device -> Activity]
    /\ DOMAIN events = Device
    /\ \A d \in Device : events[d] \in Inboxes(Packet)
    /\ place \in [Device -> Place]
    /\ book \in [Device -> Book]
    /\ newer \subseteq Newer
    /\ shared \in [Device -> SUBSET Place]
    /\ given \in [Device -> SUBSET Device]
    /\ late \in [Device -> SUBSET Device]

\* What the constructor leaves.
Closed == [state |-> "OFF", source |-> FALSE, seen |-> FALSE, received |-> FALSE,
           sent |-> FALSE, acked |-> FALSE, peer |-> None, local |-> None,
           cross |-> None, panel |-> None, stale |-> FALSE]
NoEvents == [queue |-> <<>>, overflow |-> FALSE]

Init ==
    /\ dev = [d \in Device |-> Closed]
    /\ events = [d \in Device |-> NoEvents]
    /\ place \in [Device -> Place]
    /\ book \in [Device -> Book]
    /\ newer \in SUBSET Newer
    /\ shared = [d \in Device |-> {}]
    /\ given = [d \in Device |-> {}]
    /\ late = [d \in Device |-> {}]

Others(d)  == Device \ {d}
IsOn(d)    == dev[d].state # "OFF"
IsBusy(d)  == dev[d].state \in {"DISCOVERING", "SYNCING"}
Drained(d) == IsOn(d) /\ events[d] = NoEvents
Packets(d) == ToSet(events[d].queue)
Listens(d) == dev[d].state \notin {"OFF", "ERROR", "SYNCED"}

Hello(d)    == [type |-> "HELLO", from |-> d, book |-> book[d]]
Name(d)     == [type |-> "NAME", from |-> d]
Ack(d)      == [type |-> "ACK", from |-> d]
Position(d) == [type |-> "POSITION", from |-> d, book |-> book[d], place |-> dev[d].local]

\* setState(): a screen that changes is painted anew.
SetState(r, state) ==
    IF r.state = state THEN r
    ELSE [r EXCEPT !.state = state, !.panel = None, !.stale = state = "SHOWING_RESULT"]

\* requestUpdate()
Repaint(r) == [r EXCEPT !.stale = r.state = "SHOWING_RESULT"]

(***************************************************************************)
(* The radio: enqueueEspNowPacket() and sendPacket().                      *)
(***************************************************************************)
\* Fault: the queue is full only when it is more than full.
EnqueueOneMore(inbox, packet) ==
    IF inbox.overflow \/ Len(inbox.queue) > MaxEvents
    THEN [queue |-> <<>>, overflow |-> TRUE]
    ELSE [inbox EXCEPT !.queue = Append(@, packet)]

Enqueue(inbox, packet) ==
    IF inbox.overflow \/ Len(inbox.queue) >= MaxEvents
    THEN [queue |-> <<>>, overflow |-> TRUE]
    ELSE [inbox EXCEPT !.queue = Append(@, packet)]

\* The inboxes that may result from a packet on the air.
Air(inboxes, packet) ==
    {Enqueue(inbox, packet) : inbox \in inboxes} \union inboxes

\* Nothing is heard by a reader that is not on the screen.
Send(box, e, inboxes) ==
    \E inbox \in IF IsOn(e) THEN inboxes ELSE {events[e]} : events' = [box EXCEPT ![e] = inbox]

SendHello(d) ==
    \E heard \in SUBSET {e \in Others(d) : IsOn(e)} :
        events' = [e \in Device |-> IF e \in heard THEN Enqueue(events[e], Hello(d)) ELSE events[e]]

\* sendLocalPosition(): the name, and the place unless esp_now_send() fails.
LocalPositionSent(d, inboxes) ==
    {[sent |-> TRUE,  inboxes |-> Air(Air(inboxes, Name(d)), Position(d))],
     [sent |-> FALSE, inboxes |-> Air(inboxes, Name(d))]}

(***************************************************************************)
(* The screen is opened and left, and a place is shared or applied.        *)
(***************************************************************************)
\* onEnter(): the place may not be readable, or the radio not start.
Enter(d) ==
    /\ ~IsOn(d)
    /\ \E state \in {"READY", "ERROR"} :
          dev' = [dev EXCEPT ![d] = [Closed EXCEPT !.state = state, !.local = place[d]]]
    /\ UNCHANGED <<events, place, book, newer, histories>>

SwitchOff(d) ==
    /\ dev' = [dev EXCEPT ![d] = Closed]
    /\ UNCHANGED <<book, newer, shared>>

\* Back: returnToReader(), and onExit() restarts the device.
Leave(d) ==
    /\ Drained(d)
    /\ SwitchOff(d)
    /\ UNCHANGED <<events, place, given, late>>

PowerLoss(d) ==
    /\ IsOn(d)
    /\ SwitchOff(d)
    /\ events' = [events EXCEPT ![d] = NoEvents]
    /\ UNCHANGED <<place, given, late>>

\* The owner reads on, which takes longer than another reader needs to handle
\* what this one has sent it before.
Read(d) ==
    /\ ~IsOn(d)
    /\ \A e \in Device : \A packet \in Packets(e) : packet.from # d
    /\ \E p \in Place \ {place[d]} : place' = [place EXCEPT ![d] = p]
    /\ given' = [given EXCEPT ![d] = {}]
    /\ late' = [late EXCEPT ![d] = {}]
    /\ UNCHANGED <<dev, events, book, newer, shared>>

\* Share: startSync(), which may find the document hash as unreadable as
\* onEnter() has.
Sharing(d, state) ==
    [Closed EXCEPT !.state = state, !.source = TRUE, !.local = dev[d].local,
                   !.cross = dev[d].cross]

StartFails(d) ==
    /\ Drained(d)
    /\ dev[d].state = "ERROR"
    /\ dev' = [dev EXCEPT ![d] = Sharing(d, "ERROR")]
    /\ UNCHANGED <<events, place, book, newer, histories>>

StartSync(d) ==
    /\ Drained(d)
    /\ dev[d].state \in {"READY", "SYNCED", "ERROR"}
    /\ dev' = [dev EXCEPT ![d] = Sharing(d, "DISCOVERING")]
    /\ shared' = [shared EXCEPT ![d] = @ \union {dev[d].local}]
    /\ SendHello(d)
    /\ UNCHANGED <<place, book, newer, given, late>>

\* The history h once d has got a place of e, and that of d is another one.
Took(h, d, e) == [h EXCEPT ![e] = @ \union {d}, ![d] = {}]

\* Select: applyPeerPosition(), then an ACK and the reader.
Apply(d) ==
    /\ Drained(d)
    /\ dev[d].state = "SHOWING_RESULT"
    /\ ~dev[d].source
    /\ ~dev[d].stale
    /\ place' = [place EXCEPT ![d] = dev[d].cross]
    /\ Send(events, dev[d].peer, Air({events[dev[d].peer]}, Ack(d)))
    /\ SwitchOff(d)
    /\ IF dev[d].cross = place[dev[d].peer]
       THEN given' = Took(given, d, dev[d].peer) /\ late' = [late EXCEPT ![d] = {}]
       ELSE late' = Took(late, d, dev[d].peer) /\ given' = [given EXCEPT ![d] = {}]

ApplyFails(d) ==
    /\ Drained(d)
    /\ dev[d].state = "SHOWING_RESULT"
    /\ ~dev[d].stale
    /\ dev' = [dev EXCEPT ![d] = SetState(@, "ERROR")]
    /\ UNCHANGED <<events, place, book, newer, histories>>

\* render(), from the render task.
Paint(d) ==
    /\ dev[d].stale
    /\ dev' = [dev EXCEPT ![d].panel = dev[d].cross, ![d].stale = FALSE]
    /\ UNCHANGED <<events, place, book, newer, histories>>

(***************************************************************************)
(* updateSyncProgress(), at the end of a pass.                             *)
(***************************************************************************)
TimeOut(d) ==
    /\ Drained(d)
    /\ IsBusy(d)
    /\ dev' = [dev EXCEPT ![d] = SetState(@, "ERROR")]
    /\ UNCHANGED <<events, place, book, newer, histories>>

\* A place received before a new HELLO is shown again.
ShowAgain(d) ==
    /\ Drained(d)
    /\ IsBusy(d)
    /\ dev[d].received
    /\ dev' = [dev EXCEPT ![d] = SetState(@, "SHOWING_RESULT")]
    /\ UNCHANGED <<events, place, book, newer, histories>>

RepeatHello(d) ==
    /\ Drained(d)
    /\ IsBusy(d)
    /\ ~dev[d].seen
    /\ SendHello(d)
    /\ UNCHANGED <<dev, place, book, newer, histories>>

RepeatPosition(d) ==
    /\ Drained(d)
    /\ IsBusy(d)
    /\ dev[d].source
    /\ dev[d].seen
    /\ ~dev[d].acked
    /\ \E out \in LocalPositionSent(d, {events[dev[d].peer]}) :
          /\ dev' = [dev EXCEPT ![d].sent = out.sent]
          /\ Send(events, dev[d].peer, out.inboxes)
    /\ UNCHANGED <<place, book, newer, histories>>

(***************************************************************************)
(* processEvents() and handleEvent(): an action for each kind of event.    *)
(***************************************************************************)
\* What was queued is lost, and the sync with it.
ReportOverflow(d) ==
    /\ events[d].overflow
    /\ dev' = [dev EXCEPT ![d] = SetState(@, "ERROR")]
    /\ events' = [events EXCEPT ![d] = NoEvents]
    /\ UNCHANGED <<place, book, newer, histories>>

Event(d)  == Head(events[d].queue)
Sender(d) == Event(d).from
Pop(d)    == [events EXCEPT ![d].queue = Tail(@)]

\* A packet of another protocol version has become INVALID; HELLO and POSITION
\* name another book.
Invalid(d) == (Sender(d) \in newer) # (d \in newer)
Foreign(d) == Event(d).type \in {"HELLO", "POSITION"} /\ Event(d).book # book[d]

Refuse(d) ==
    /\ events[d].queue # <<>>
    /\ Listens(d)
    /\ Invalid(d) \/ Foreign(d)
    /\ dev' = [dev EXCEPT ![d] = SetState(@, "ERROR")]
    /\ events' = Pop(d)
    /\ UNCHANGED <<place, book, newer, histories>>

Handles(d, type) ==
    /\ events[d].queue # <<>>
    /\ Listens(d)
    /\ ~Invalid(d)
    /\ ~Foreign(d)
    /\ Event(d).type = type

\* A name is that of the peer, or of the first to answer.
Knows(d) == dev[d].peer \in {None, Sender(d)}

\* The early returns: the sync is over, or the name is that of a third reader.
Unwanted(d) == ~Listens(d) \/ (Handles(d, "NAME") /\ ~Knows(d))

Ignore(d) ==
    /\ events[d].queue # <<>>
    /\ Unwanted(d)
    /\ events' = Pop(d)
    /\ UNCHANGED <<dev, place, book, newer, histories>>

\* A source sends its place to the one whose name it hears, once.
Named(d) ==
    LET r == [dev[d] EXCEPT !.peer = Sender(d), !.seen = @ \/ dev[d].source]
    IN  Repaint(IF r.source /\ r.state = "DISCOVERING" THEN SetState(r, "SYNCING") ELSE r)

NameOfPeer(d) ==
    /\ Handles(d, "NAME")
    /\ Knows(d)
    /\ ~dev[d].source \/ dev[d].sent
    /\ dev' = [dev EXCEPT ![d] = Named(d)]
    /\ events' = Pop(d)
    /\ UNCHANGED <<place, book, newer, histories>>

\* Fault: a reader that is not sharing sends its place, too.
AnswerAnyName(d) ==
    /\ Handles(d, "NAME")
    /\ Knows(d)
    /\ ~dev[d].sent
    /\ \E out \in LocalPositionSent(d, {events[Sender(d)]}) :
          /\ dev' = [dev EXCEPT ![d] = [Named(d) EXCEPT !.sent = out.sent]]
          /\ Send(Pop(d), Sender(d), out.inboxes)
    /\ UNCHANGED <<place, book, newer, histories>>

AnswerName(d) ==
    /\ Handles(d, "NAME")
    /\ Knows(d)
    /\ dev[d].source
    /\ ~dev[d].sent
    /\ \E out \in LocalPositionSent(d, {events[Sender(d)]}) :
          /\ dev' = [dev EXCEPT ![d] = [Named(d) EXCEPT !.sent = out.sent]]
          /\ Send(Pop(d), Sender(d), out.inboxes)
    /\ UNCHANGED <<place, book, newer, histories>>

\* The sender is taken for the peer; a reader that is READY becomes a receiver.
Met(d) ==
    LET r == IF dev[d].state = "READY"
             THEN [dev[d] EXCEPT !.received = FALSE, !.source = FALSE, !.sent = FALSE,
                                 !.acked = FALSE]
             ELSE dev[d]
    IN  [r EXCEPT !.peer = Sender(d), !.seen = TRUE]

HandleHello(d) ==
    /\ Handles(d, "HELLO")
    /\ dev' = [dev EXCEPT ![d] = IF Met(d).source THEN Met(d) ELSE SetState(Met(d), "SYNCING")]
    /\ Send(Pop(d), Sender(d), Air({events[Sender(d)]}, Name(d)))
    /\ UNCHANGED <<place, book, newer, histories>>

\* Fault: a source acknowledges a place that it does not take.
AckAtSource(d) ==
    /\ Handles(d, "POSITION")
    /\ Met(d).source
    /\ dev' = [dev EXCEPT ![d] = Met(d)]
    /\ Send(Pop(d), Sender(d), Air({events[Sender(d)]}, Ack(d)))
    /\ UNCHANGED <<place, book, newer, histories>>

PositionAtSource(d) ==
    /\ Handles(d, "POSITION")
    /\ Met(d).source
    /\ dev' = [dev EXCEPT ![d] = Met(d)]
    /\ events' = Pop(d)
    /\ UNCHANGED <<place, book, newer, histories>>

\* The place is kept, acknowledged and shown; what is on the screen already is
\* not painted again.
Showing(d) ==
    SetState([Met(d) EXCEPT !.cross = Event(d).place, !.received = TRUE], "SHOWING_RESULT")

HandlePosition(d) ==
    /\ Handles(d, "POSITION")
    /\ ~Met(d).source
    /\ dev' = [dev EXCEPT ![d] = Showing(d)]
    /\ Send(Pop(d), Sender(d), Air({events[Sender(d)]}, Ack(d)))
    /\ given' = IF Event(d).place = place[Sender(d)]
                THEN [given EXCEPT ![Sender(d)] = @ \union {d}] ELSE given
    /\ UNCHANGED <<place, book, newer, shared, late>>

HandleAck(d) ==
    /\ Handles(d, "ACK")
    /\ LET r == [Met(d) EXCEPT !.acked = TRUE]
       IN  dev' = [dev EXCEPT ![d] = IF r.source THEN SetState(r, "SYNCED") ELSE r]
    /\ events' = Pop(d)
    /\ UNCHANGED <<place, book, newer, histories>>

(***************************************************************************)
(* The specification.                                                      *)
(***************************************************************************)
Handle(d) ==
    \/ ReportOverflow(d) \/ Ignore(d) \/ Refuse(d) \/ NameOfPeer(d) \/ AnswerName(d)
    \/ HandleHello(d) \/ PositionAtSource(d) \/ HandlePosition(d) \/ HandleAck(d)

Fail(d) == StartFails(d) \/ ApplyFails(d) \/ PowerLoss(d) \/ TimeOut(d)

User(d) == Enter(d) \/ Leave(d) \/ Read(d) \/ StartSync(d) \/ Apply(d)

Next == \E d \in Device :
    \/ Handle(d) \/ Fail(d) \/ User(d) \/ Paint(d)
    \/ ShowAgain(d) \/ RepeatHello(d) \/ RepeatPosition(d)

Spec == Init /\ [][Next]_vars

(***************************************************************************)
(* Properties.                                                             *)
(***************************************************************************)
\* A reader never offers its owner, and so never applies, a place whose owner
\* has not pressed Share for it, or one in another book: the answers that the
\* protocol gives of itself carry no place.
OnlySharedIsOffered ==
    \A d \in Device : dev[d].received =>
        \E e \in Others(d) : book[e] = book[d] /\ dev[d].cross \in shared[e]

AtMostTwo == \A d, e, f \in Device : d = e \/ e = f \/ d = f

\* A source whose screen says "Position shared" (english.yaml:645) has handed the
\* place it is at to the peer that it names, of the same book, or the peer's owner
\* has meanwhile pressed Select for a place it was at before: an ACK names no
\* place, and that one is the only one that can be late.  So it is for two
\* readers; the peer of a receiver may be a third one by the time its owner
\* presses Select.
SharedIsGiven ==
    AtMostTwo => \A d \in Device : dev[d].state = "SYNCED" =>
        /\ dev[d].source
        /\ dev[d].peer \in given[d] \union late[d]
        /\ book[dev[d].peer] = book[d]

\* Why no place is offered unasked: the places on the air have been shared ...
Truth(d) == {packet \in Packet :
    /\ packet.from # d
    /\ packet.type \in {"HELLO", "POSITION"} => packet.book = book[packet.from]
    /\ packet.type = "POSITION" => packet.place \in shared[packet.from]}

\* ... and so it is with what a reader remembers.
MemoryIsTrue(d) ==
    /\ ~IsOn(d) => dev[d] = Closed /\ events[d] = NoEvents
    /\ IsOn(d) => dev[d].local = place[d]
    /\ dev[d].peer # d
    /\ dev[d].seen \/ dev[d].received => dev[d].peer # None
    /\ dev[d].source => ~dev[d].received /\ dev[d].state # "READY"
    /\ dev[d].source /\ dev[d].state # "ERROR" => dev[d].local \in shared[d]
    /\ dev[d].state = "SHOWING_RESULT" => dev[d].received
    /\ dev[d].received => dev[d].cross \in Place
    /\ dev[d].state \in {"DISCOVERING", "SYNCED"} => dev[d].source

\* A place of d is on its way to e.
OnAir(d, e) == \E packet \in Packets(e) : packet.type = "POSITION" /\ packet.from = d

\* Why the acknowledgements that d hears are about the place it is at, but for
\* those that late tells of: a place that its owner has left since is on the air
\* only to a source, which does not take it, as two readers that each have a place
\* of the other have not both become receivers since.
AcksAreTrue(d) ==
    /\ \A packet \in Packets(d) : packet.type = "ACK" => packet.from \in given[d] \union late[d]
    /\ dev[d].state = "SYNCED" => dev[d].peer \in given[d] \union late[d]
    /\ \A e \in given[d] \union late[d] : e # d /\ book[e] = book[d]
    /\ \A packet \in Packets(d) :
          packet.type = "POSITION" /\ packet.place # place[packet.from] => dev[d].source
    /\ \A e \in Others(d) :
          OnAir(d, e) /\ (dev[d].received \/ OnAir(e, d)) => dev[d].source \/ dev[e].source

\* The inductive invariant.
Consent ==
    /\ TypeOK
    /\ \A d \in Device : events[d] \in Inboxes(Truth(d))
    /\ \A d \in Device : MemoryIsTrue(d)
    /\ OnlySharedIsOffered

IInv == Consent /\ (AtMostTwo => \A d \in Device : AcksAreTrue(d))

\* "The receiving reader only applies the position after you confirm it"
\* (docs/nearby-position-sync.md): what Select applies is what the panel shows.
AppliesWhatIsShown ==
    \A d \in Device :
        dev[d].state = "SHOWING_RESULT" /\ ~dev[d].stale => dev[d].panel = dev[d].cross
==============================================================================
