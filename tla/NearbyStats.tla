----------------------------- MODULE NearbyStats -----------------------------
(***************************************************************************)
(* Nearby Stats Sync: readers that have the sync screen open exchange their *)
(* all-time statistics over ESP-NOW, src/src/activities/network/            *)
(* NearbyStatsSyncActivity.cpp.                                            *)
(*                                                                         *)
(* A packet that is not lost joins the event queue of its receiver, from   *)
(* the task of the radio; the main task of the receiver drains the queue   *)
(* at the start of a pass of loop(), so the rest of the pass happens with  *)
(* the queue just found empty.  The clock is not modelled: an interval or  *)
(* the timeout may have elapsed whenever the code looks.  Statistics are a *)
(* number that grows when the owner of the reader turns pages.             *)
(***************************************************************************)
EXTENDS Naturals, Sequences

CONSTANTS
    Device,         \* the readers, by MAC address
    Newer,          \* those whose firmware may be newer than the others understand
    Calm,           \* no loss, no failure, and no interval ever elapses
    MaxEvents,      \* MAX_SYNC_EVENTS
    MaxStats,       \* bound: the statistics of a reader
    None,           \* no MAC address, no statistics, no file
    Lost            \* a file that a failure has removed

ASSUME NearbyAssumption ==
    /\ Newer \subseteq Device
    /\ Calm \in BOOLEAN
    /\ MaxEvents \in Nat \ {0}
    /\ MaxStats \in Nat
    /\ None \notin Device \union Nat
    /\ Lost \notin Nat \union {None}

VARIABLES
    dev,            \* the activity of each reader, "OFF" when it has none
    events,         \* events_ and eventOverflow_
    stats,          \* global_stats.bin
    record,         \* synced_stats/device_<mac>.bin, one for each other reader
    part,           \* the same with .part, when complete
    newer           \* the readers whose payload is not understood

vars == <<dev, events, stats, record, part, newer>>

Amount   == 0 .. MaxStats
States   == {"OFF", "READY", "DISCOVERING", "SYNCING", "SYNCED", "ERROR"}
Activity == [state : States,
             peer  : Device \union {None},      \* peerDeviceMac_
             seen  : BOOLEAN,                   \* peerSeen_
             saved : BOOLEAN,                   \* peerStatsSaved_
             sent  : BOOLEAN,                   \* localStatsSent_
             acked : BOOLEAN,                   \* localStatsAcked_
             local : Amount \union {None}]      \* localStats_, if ready

Packet == [type : {"HELLO", "NAME", "ACK"}, from : Device]
            \union [type : {"STATS"}, from : Device, stats : Amount]

\* An inbox that has room for its packets, all of them of the given ones.
Inboxes(packets) ==
    {inbox \in [queue : Seq(packets), overflow : BOOLEAN] : Len(inbox.queue) <= MaxEvents}

TypeOK ==
    /\ dev \in [Device -> Activity]
    /\ DOMAIN events = Device
    /\ \A d \in Device : events[d] \in Inboxes(Packet)
    /\ stats \in [Device -> Amount]
    /\ record \in [Device -> [Device -> Amount \union {None, Lost}]]
    /\ part \in [Device -> [Device -> Amount \union {None}]]
    /\ newer \subseteq Newer

\* What the constructor leaves.
Closed == [state |-> "OFF", peer |-> None, seen |-> FALSE, saved |-> FALSE,
           sent |-> FALSE, acked |-> FALSE, local |-> None]
NoEvents == [queue |-> <<>>, overflow |-> FALSE]

Init ==
    /\ dev = [d \in Device |-> Closed]
    /\ events = [d \in Device |-> NoEvents]
    /\ stats = [d \in Device |-> 0]
    /\ record = [d \in Device |-> [e \in Device |-> None]]
    /\ part = [d \in Device |-> [e \in Device |-> None]]
    /\ newer \in SUBSET Newer

Others(d)  == Device \ {d}
IsOn(d)    == dev[d].state # "OFF"
IsBusy(d)  == dev[d].state \in {"DISCOVERING", "SYNCING"}
Drained(d) == IsOn(d) /\ events[d] = NoEvents

Hello(d)    == [type |-> "HELLO", from |-> d]
Name(d)     == [type |-> "NAME", from |-> d]
Ack(d)      == [type |-> "ACK", from |-> d]
Stats(d, n) == [type |-> "STATS", from |-> d, stats |-> n]

(***************************************************************************)
(* enqueueEspNowPacket().                                                  *)
(***************************************************************************)
\* Fault: the queue is full only when it is more than full.
EnqueueOneMore(inbox, packet) ==
    IF inbox.overflow \/ Len(inbox.queue) > MaxEvents
    THEN [queue |-> <<>>, overflow |-> TRUE]
    ELSE [inbox EXCEPT !.queue = Append(@, packet)]

Enqueue(inbox, packet) ==
    IF inbox.overflow \/ Len(inbox.queue) >= MaxEvents
    THEN [queue |-> <<>>, overflow |-> TRUE]
    ELSE [inbox EXCEPT !.queue = Append(@, packet)]

\* The inboxes that may result from a packet on the air; the queue's mutex is
\* only tried, so the packet may be lost at the receiver, too.
Air(inboxes, packet) ==
    {Enqueue(inbox, packet) : inbox \in inboxes} \union (IF Calm THEN {} ELSE inboxes)

\* Nothing is heard by a reader that is not on the sync screen.
Send(box, e, inboxes) ==
    \E inbox \in IF IsOn(e) THEN inboxes ELSE {events[e]} : events' = [box EXCEPT ![e] = inbox]

\* sendLocalStats(): the name, and the statistics unless esp_now_send() fails.
LocalStatsSent(d, r, inboxes) ==
    [sent : {TRUE}, inboxes : {Air(Air(inboxes, Name(d)), Stats(d, r.local))}]
        \union [sent : IF Calm THEN {} ELSE {FALSE}, inboxes : {Air(inboxes, Name(d))}]

(***************************************************************************)
(* The screen is opened and left, and a sync is started.                   *)
(***************************************************************************)
\* onEnter(): the radio may not start.
Enter(d) ==
    /\ ~IsOn(d)
    /\ \E state \in IF Calm THEN {"READY"} ELSE {"READY", "ERROR"} :
          dev' = [dev EXCEPT ![d] = [Closed EXCEPT !.state = state]]
    /\ UNCHANGED <<events, stats, record, part, newer>>

SwitchOff(d) ==
    /\ dev' = [dev EXCEPT ![d] = Closed]
    /\ events' = [events EXCEPT ![d] = NoEvents]
    /\ UNCHANGED <<stats, newer>>

\* Back, and onExit().
Leave(d) ==
    /\ Drained(d)
    /\ SwitchOff(d)
    /\ UNCHANGED <<record, part>>

PowerLoss(d) ==
    /\ ~Calm
    /\ IsOn(d)
    /\ SwitchOff(d)
    /\ UNCHANGED <<record, part>>

\* The owner reads on, which takes longer than another reader needs to handle
\* what this one has sent it before.
Read(d) ==
    /\ ~IsOn(d)
    /\ \A e \in Device : \A i \in 1 .. Len(events[e].queue) : events[e].queue[i].from # d
    /\ stats[d] < MaxStats
    /\ stats' = [stats EXCEPT ![d] = @ + 1]
    /\ UNCHANGED <<dev, events, record, part, newer>>

\* sendHello()
SendHello(d) ==
    \E heard \in IF Calm THEN {{e \in Others(d) : IsOn(e)}} ELSE SUBSET {e \in Others(d) : IsOn(e)} :
        events' = [e \in Device |-> IF e \in heard THEN Enqueue(events[e], Hello(d)) ELSE events[e]]

\* Confirm: startSync(), in which the local statistics may not be readable.
StartSync(d) ==
    /\ Drained(d)
    /\ ~IsBusy(d)
    /\ \/ /\ dev' = [dev EXCEPT ![d] = [Closed EXCEPT !.state = "DISCOVERING", !.local = stats[d]]]
          /\ SendHello(d)
       \/ /\ ~Calm
          /\ dev' = [dev EXCEPT ![d] = [Closed EXCEPT !.state = "ERROR"]]
          /\ UNCHANGED events
    /\ UNCHANGED <<stats, record, part, newer>>

(***************************************************************************)
(* updateSyncProgress(), at the end of a pass.                             *)
(***************************************************************************)
TimeOut(d) ==
    /\ ~Calm
    /\ Drained(d)
    /\ IsBusy(d)
    /\ dev' = [dev EXCEPT ![d].state = "ERROR"]
    /\ UNCHANGED <<events, stats, record, part, newer>>

\* Fault: one half of the exchange is enough.
SettleEarly(d) ==
    /\ Drained(d)
    /\ IsBusy(d)
    /\ dev[d].saved \/ dev[d].acked
    /\ dev' = [dev EXCEPT ![d].state = "SYNCED"]
    /\ UNCHANGED <<events, stats, record, part, newer>>

Settle(d) ==
    /\ Drained(d)
    /\ IsBusy(d)
    /\ dev[d].saved
    /\ dev[d].acked
    /\ dev' = [dev EXCEPT ![d].state = "SYNCED"]
    /\ UNCHANGED <<events, stats, record, part, newer>>

RepeatHello(d) ==
    /\ ~Calm
    /\ Drained(d)
    /\ IsBusy(d)
    /\ ~dev[d].seen
    /\ SendHello(d)
    /\ UNCHANGED <<dev, stats, record, part, newer>>

RepeatStats(d) ==
    /\ ~Calm
    /\ Drained(d)
    /\ IsBusy(d)
    /\ dev[d].seen
    /\ dev[d].local # None
    /\ ~dev[d].acked
    /\ \E out \in LocalStatsSent(d, dev[d], {events[dev[d].peer]}) :
          /\ dev' = [dev EXCEPT ![d].sent = out.sent]
          /\ Send(events, dev[d].peer, out.inboxes)
    /\ UNCHANGED <<stats, record, part, newer>>

(***************************************************************************)
(* processEvents() and handleEvent(): an action for each kind of event.    *)
(***************************************************************************)
\* What was queued is lost, and the sync with it.
ReportOverflow(d) ==
    /\ events[d].overflow
    /\ dev' = [dev EXCEPT ![d].state = "ERROR"]
    /\ events' = [events EXCEPT ![d] = NoEvents]
    /\ UNCHANGED <<stats, record, part, newer>>

Waits(d, type) ==
    /\ events[d].queue # <<>>
    /\ Head(events[d].queue).type = type

Sender(d) == Head(events[d].queue).from

Pop(d) == [events EXCEPT ![d].queue = Tail(@)]

Ignore(d) ==
    /\ events[d].queue # <<>>
    /\ dev[d].state = "ERROR"
    /\ events' = Pop(d)
    /\ UNCHANGED <<dev, stats, record, part, newer>>

HandleName(d) ==
    /\ Waits(d, "NAME")
    /\ dev[d].state # "ERROR"
    /\ dev' = [dev EXCEPT ![d].peer = IF @ = None THEN Sender(d) ELSE @]
    /\ events' = Pop(d)
    /\ UNCHANGED <<stats, record, part, newer>>

\* The sender is taken for the peer; a reader that is not syncing joins in,
\* with everything it knew of an earlier sync forgotten.
Met(d) ==
    LET r == IF IsBusy(d) THEN dev[d] ELSE [Closed EXCEPT !.state = dev[d].state]
    IN  [r EXCEPT !.peer = Sender(d), !.seen = TRUE]

Joined(d) ==
    [Met(d) EXCEPT !.state = "SYNCING", !.local = IF @ = None THEN stats[d] ELSE @]

JoinFails(d) ==
    /\ ~Calm
    /\ Waits(d, "HELLO") \/ Waits(d, "STATS") \/ Waits(d, "ACK")
    /\ dev[d].state # "ERROR"
    /\ Met(d).local = None
    /\ dev' = [dev EXCEPT ![d] = [Met(d) EXCEPT !.state = "ERROR"]]
    /\ events' = Pop(d)
    /\ UNCHANGED <<stats, record, part, newer>>

\* Fault: the peer is not yet marked as seen, so the statistics do not follow.
HandleHelloUnseen(d) ==
    /\ Waits(d, "HELLO")
    /\ dev[d].state # "ERROR"
    /\ dev' = [dev EXCEPT ![d] = Joined(d)]
    /\ Send(Pop(d), Sender(d), Air({events[Sender(d)]}, Name(d)))
    /\ UNCHANGED <<stats, record, part, newer>>

HandleHello(d) ==
    /\ Waits(d, "HELLO")
    /\ dev[d].state # "ERROR"
    /\ \E out \in LocalStatsSent(d, Joined(d), Air({events[Sender(d)]}, Name(d))) :
          /\ dev' = [dev EXCEPT ![d] = [Joined(d) EXCEPT !.sent = out.sent]]
          /\ Send(Pop(d), Sender(d), out.inboxes)
    /\ UNCHANGED <<stats, record, part, newer>>

\* Fault: an ACK is taken for the whole exchange.
HandleAckAsSaved(d) ==
    /\ Waits(d, "ACK")
    /\ dev[d].state # "ERROR"
    /\ dev' = [dev EXCEPT ![d] = [Joined(d) EXCEPT !.acked = TRUE, !.saved = TRUE]]
    /\ events' = Pop(d)
    /\ UNCHANGED <<stats, record, part, newer>>

HandleAck(d) ==
    /\ Waits(d, "ACK")
    /\ dev[d].state # "ERROR"
    /\ dev' = [dev EXCEPT ![d] = [Joined(d) EXCEPT !.acked = TRUE]]
    /\ events' = Pop(d)
    /\ UNCHANGED <<stats, record, part, newer>>

\* The payload of a newer firmware has become INVALID_STATS.
HandleInvalidStats(d) ==
    /\ Waits(d, "STATS")
    /\ dev[d].state # "ERROR"
    /\ Sender(d) \in newer
    /\ dev' = [dev EXCEPT ![d] = [Joined(d) EXCEPT !.state = "ERROR"]]
    /\ events' = Pop(d)
    /\ UNCHANGED <<stats, record, part, newer>>

(***************************************************************************)
(* STATS: writeSyncedStatsFile() removes an old .part file, writes it anew, *)
(* removes the record and renames the .part file to it.                    *)
(***************************************************************************)
Receiving(d) ==
    /\ Waits(d, "STATS")
    /\ dev[d].state # "ERROR"
    /\ Sender(d) \notin newer

Received(d) == Head(events[d].queue).stats

\* What the two files may hold when they are no longer what they were.
Files(d, recorded, left) ==
    /\ record' = [record EXCEPT ![d][Sender(d)] = recorded]
    /\ part' = [part EXCEPT ![d][Sender(d)] = left]

OldRecord(d) == record[d][Sender(d)]
Removed(d)   == IF OldRecord(d) = None THEN None ELSE Lost

\* The ACK, and the own statistics if they have not been sent and heard.
Answer(d) ==
    LET r       == [Joined(d) EXCEPT !.saved = TRUE]
        e       == Sender(d)
        inboxes == Air({events[e]}, Ack(d))
    IN  IF r.sent /\ r.acked
        THEN dev' = [dev EXCEPT ![d] = r] /\ Send(Pop(d), e, inboxes)
        ELSE \E out \in LocalStatsSent(d, r, inboxes) :
                /\ dev' = [dev EXCEPT ![d] = [r EXCEPT !.sent = out.sent]]
                /\ Send(Pop(d), e, out.inboxes)

\* Fault: the record is a copy of the .part file, which stays.
HandleStatsByCopy(d) ==
    /\ Receiving(d)
    /\ Files(d, Received(d), Received(d))
    /\ Answer(d)
    /\ UNCHANGED <<stats, newer>>

HandleStats(d) ==
    /\ Receiving(d)
    /\ Files(d, Received(d), None)
    /\ Answer(d)
    /\ UNCHANGED <<stats, newer>>

\* A step before the rename fails, or the rename; what is left is removed.
SaveFails(d) ==
    /\ ~Calm
    /\ Receiving(d)
    /\ \/ UNCHANGED <<record, part>>
       \/ Files(d, OldRecord(d), None)
       \/ Files(d, Removed(d), None)
    /\ dev' = [dev EXCEPT ![d] = [Joined(d) EXCEPT !.state = "ERROR"]]
    /\ events' = Pop(d)
    /\ UNCHANGED <<stats, newer>>

\* The power is lost while the files are being written.
PowerLossInSave(d) ==
    /\ ~Calm
    /\ Receiving(d)
    /\ \/ Files(d, OldRecord(d), None)
       \/ Files(d, OldRecord(d), Received(d))
       \/ Files(d, Removed(d), Received(d))
       \/ Files(d, Received(d), None)
    /\ SwitchOff(d)

(***************************************************************************)
(* The specification.                                                      *)
(***************************************************************************)
Handle(d) ==
    \/ ReportOverflow(d) \/ Ignore(d) \/ HandleName(d) \/ HandleHello(d)
    \/ HandleAck(d) \/ HandleInvalidStats(d) \/ HandleStats(d)

Fail(d) == JoinFails(d) \/ SaveFails(d) \/ PowerLoss(d) \/ PowerLossInSave(d) \/ TimeOut(d)

User(d) == Enter(d) \/ Leave(d) \/ StartSync(d) \/ Read(d)

Next == \E d \in Device :
    Handle(d) \/ Fail(d) \/ User(d) \/ Settle(d) \/ RepeatHello(d) \/ RepeatStats(d)

\* The main task of a reader keeps calling loop().
Fairness == \A d \in Device : WF_vars(Handle(d)) /\ WF_vars(Settle(d))

Spec == Init /\ [][Next]_vars /\ Fairness

(***************************************************************************)
(* Properties.                                                             *)
(***************************************************************************)
\* With two readers, a screen that says "Both readers synced" (english.yaml,
\* STR_NEARBY_STATS_SYNCED) tells the truth: this reader has a record of the
\* peer it names, and the peer has the present statistics of this reader,
\* unless a failure of the peer's has removed them since.
BothReadersSynced ==
    \A d \in Device : dev[d].state = "SYNCED" =>
        /\ record[d][dev[d].peer] \in Amount
        /\ record[dev[d].peer][d] \in {stats[d], Lost}

\* What loadAggregated() adds to the own statistics: the readable files of
\* synced_stats/, whatever their names.
Summed(d) ==
    {<<e, ".bin">> : e \in {f \in Device : record[d][f] \in Amount}}
        \union {<<e, ".part">> : e \in {f \in Device : part[d][f] \in Amount}}

\* "This device's local stats plus one synced stats file per other device"
\* (GlobalReadingStats.h:30): after a sync the peer is counted, and counted once,
\* whatever files an earlier one, cut short, has left behind.
CountedOnce ==
    \A d \in Device : dev[d].state = "SYNCED" =>
        {file \in Summed(d) : file[1] = dev[d].peer} = {<<dev[d].peer, ".bin">>}

\* Why: the packets on their way to a reader are true; an ACK stays so when the
\* file it is about is lost.
Truth(d) == {packet \in Packet :
    /\ packet.from # d
    /\ packet.type = "STATS" => packet.stats = stats[packet.from]
    /\ packet.type = "ACK" => record[packet.from][d] \in {stats[d], Lost}}

\* And so is what a reader remembers of the sync it takes part in,
MemoryIsTrue(d) ==
    /\ ~IsOn(d) => dev[d] = Closed /\ events[d] = NoEvents
    /\ dev[d].local \in {None, stats[d]}
    /\ dev[d].peer # d
    /\ dev[d].seen \/ dev[d].saved \/ dev[d].acked => dev[d].peer # None
    /\ dev[d].state = "SYNCED" => dev[d].saved /\ dev[d].acked

Sound ==
    /\ TypeOK
    /\ \A d \in Device : events[d] \in Inboxes(Truth(d))
    /\ \A d \in Device : MemoryIsTrue(d)

\* of which the flags are about the peer when there is but one.
FlagsAreTrue(d) ==
    /\ dev[d].saved /\ dev[d].state # "ERROR" =>
           record[d][dev[d].peer] \in Amount /\ part[d][dev[d].peer] = None
    /\ dev[d].acked => record[dev[d].peer][d] \in {stats[d], Lost}

IInv == Sound /\ \A d \in Device : FlagsAreTrue(d)

\* With more readers the two halves may be about two of them (the HELLO of a third
\* one replaces the peer and keeps the flags), but each has been made: "Both readers
\* synced" is never shown to an owner whose statistics nobody has, or who has
\* nobody's.
HalvesAreTrue(d) ==
    /\ dev[d].saved /\ dev[d].state # "ERROR" =>
           \E e \in Others(d) : record[d][e] \in Amount /\ part[d][e] = None
    /\ dev[d].acked => \E e \in Others(d) : record[e][d] \in {stats[d], Lost}

SomeReadersSynced ==
    \A d \in Device : dev[d].state = "SYNCED" =>
        /\ \E e \in Others(d) : record[d][e] \in Amount
        /\ \E e \in Others(d) : record[e][d] \in {stats[d], Lost}

\* A sync that another reader hears of, whatever that one has done before, ends
\* with the exchange made: each has the present statistics of the other; unless
\* the owner of one leaves or the firmware of a third interferes.
Exchanged(d, e) == record[d][e] = stats[e] /\ record[e][d] = stats[d]

SyncCompletes ==
    \A d \in Device : \A e \in Others(d) :
        /\ dev[d].state = "DISCOVERING"
        /\ events[e].queue = <<Hello(d)>>
        ~> \/ Exchanged(d, e)
           \/ {dev[d].state, dev[e].state} \cap {"OFF", "ERROR"} # {}
==============================================================================
