----------------------------- MODULE VescBleLink -----------------------------
(***************************************************************************)
(* The Bluetooth transport to a motor controller (main/vesc_ble_link.c)    *)
(* on top of its GATT client (ble_vesc_client.c).                          *)
(*                                                                         *)
(* Four threads: the poll task (vesc_rt), the only one that blocks in      *)
(* send_sync; the tx task, which serves the request ring one request at a  *)
(* time; the rx task, which hands packets on and releases the tx task; and *)
(* everybody who only enqueues or clears what the probe learned (phone     *)
(* bridge, config menu, pedal assist, settings screens).                   *)
(*                                                                         *)
(* The poll task finds out what it is attached to: a controller, which     *)
(* must be spoken to directly, or a VESC Express in front of one, through  *)
(* which everything is wrapped in COMM_FORWARD_CAN.  The device, the       *)
(* radio and the GAP events are external.                                  *)
(***************************************************************************)
EXTENDS Integers, Sequences, FiniteSets

CONSTANTS
    Nodes,         \* the motor controllers, any of which may be attached to
    Express,       \* a VESC Express on the bus of all of them
    Silent,        \* a device that accepts writes and answers nothing
    Old,           \* those whose version reply ends before the hardware type
    None,
    QueueLen,      \* capacity of the request ring, in requests
    IdTries,       \* id probes before the firmware version is asked for
    SilentTries,   \* probes before the link is declared silent
    MaxWire,       \* bound: packets under way to the rx task
    MaxEvents      \* bound: losses, slow answers, calls given up, drops, resets,
                   \* requests of other producers, output of the script

Devices == Nodes \cup {Express, Silent}

ASSUME VescBleLinkAssumption ==
    /\ Express # Silent /\ {Express, Silent} \cap Nodes = {}
    /\ Nodes # {} /\ None \notin Devices
    /\ Old \subseteq Nodes \cup {Express}
    /\ QueueLen \in Nat \ {0} /\ MaxWire \in Nat \ {0}
    /\ IdTries \in Nat \ {0} /\ SilentTries \in Nat /\ SilentTries >= IdTries
    /\ MaxEvents \in Nat

VARIABLES
    bound,      \* s_bound_addr of the client: the device to connect to
    attached,   \* the device at the other end of the latest connection
    ready,      \* s_ready of the client
    drops,      \* s_reconnects of the client
    seenDrops,  \* s_seen_drops
    queue,      \* s_tx_rb
    tx,         \* the tx task: where it is, the request it serves
    replySem,   \* s_reply_sem: None, or the packet it was given for
    callerSem,  \* s_caller_sem
    wire,       \* packets from the radio into s_rx_rb, not parsed yet
    rx,         \* the packet the rx task has captured and not yet signalled
    rt,         \* where the poll task is
    lateId,     \* s_probe_late_id
    probe,      \* s_probe_answered, s_probe_id_valid, s_probe_id, s_probe_hw_type
    peer,       \* s_peer
    peerId,     \* s_peer_id
    tries,      \* s_probe_tries
    past,       \* history: what the excuses below refer to
    events      \* how much of the bound is used

link  == <<bound, attached, ready, drops>>
call  == <<queue, callerSem>>
learn == <<lateId, peer, peerId, tries, seenDrops>>
vars  == <<bound, attached, ready, drops, seenDrops, queue, tx, replySem,
           callerSem, wire, rx, rt, lateId, probe, peer, peerId, tries, past,
           events>>

-----------------------------------------------------------------------------
(* Requests, addressing and answers *)

\* kind: TX_KIND_*.  An "fw" request is the probe's or somebody else's.
Request(what, target, waits, kind) ==
    [what |-> what, target |-> target, waits |-> waits, kind |-> kind]

Poll(n)  == Request("poll", n, TRUE, "normal")
IdProbe  == Request("id", None, TRUE, "id")
FwProbe  == Request("fw", None, TRUE, "fw")
OtherFw  == Request("fw", None, FALSE, "normal")
Setpoint == Request("setpoint", None, FALSE, "normal")    \* send_mode 3
NoRequest == Request("none", None, FALSE, "normal")

Requests == {Poll(n) : n \in Nodes} \cup {IdProbe, FwProbe, OtherFw, Setpoint}

\* Mutant of Wraps: a second controller is addressed like the attached one.
WrapsByPeerOnly(r) == r.target # None /\ peer = "bridge"

\* route_wraps, route AUTO; the probe's own requests go out raw (target None).
Wraps(r) ==
    /\ r.target # None
    /\ \/ peer = "bridge"
       \/ peer = "controller" /\ r.target # peerId

\* Who answers request r, sent to device d wrapped or not?  A controller
\* forwards a wrapped payload to the bus, where it does not hear itself; a VESC
\* Express answers nothing but the firmware version itself.
Responder(d, r, wrapped) ==
    CASE d \in Nodes  -> IF ~wrapped THEN d ELSE IF r.target # d THEN r.target ELSE None
      [] d = Express  -> IF wrapped THEN r.target ELSE IF r.what = "fw" THEN d ELSE None
      [] OTHER        -> None

Answers(d, r, wrapped) == r.what # "setpoint" /\ Responder(d, r, wrapped) # None

\* late: its request has been released without it.
Packet(what, from) == [what |-> what, from |-> from, late |-> FALSE]
Packets == [what : {"poll", "id", "fw", "print"}, from : Devices, late : BOOLEAN]

Late(p) == IF p = None THEN None ELSE [p EXCEPT !.late = TRUE]

Awaiting     == tx.at # "idle" /\ tx.req.what # "setpoint"        \* s_awaiting
InflightKind == IF tx.at = "idle" THEN "normal" ELSE tx.req.kind  \* s_inflight_kind

\* The answer to the request being served is still under way.
UnderWay == {p \in {rx} \cup {wire[i] : i \in DOMAIN wire} :
                p # None /\ ~p.late /\ p.what # "print"}

IdPending == \/ tx.at # "idle" /\ tx.req.kind = "id"
             \/ \E i \in DOMAIN queue : queue[i].kind = "id"

IdOnWire == \E i \in DOMAIN wire : wire[i].what = "id"

Event == events < MaxEvents /\ events' = events + 1
NoProbe == [answered |-> FALSE, idValid |-> FALSE, id |-> None, hw |-> None]

-----------------------------------------------------------------------------
(* Producers *)

\* enqueue: never blocks; a request that does not fit is dropped, and its
\* caller released at once.
Enqueue(r, sem) ==
    IF Len(queue) < QueueLen
    THEN queue' = Append(queue, r) /\ callerSem' = sem
    ELSE UNCHANGED queue /\ callerSem' = (sem \/ r.waits)

\* Mutant of SendSync: a stale completion is left in the semaphore.
SendSyncUndrained(r) == Enqueue(r, callerSem)

\* send_sync_raw up to its wait: an old completion is dropped first.
SendSync(r) == Enqueue(r, FALSE)

\* The phone bridge, the config menu or pedal assist; on their own threads.
OtherSends ==
    /\ Event
    /\ \E r \in {OtherFw, Setpoint} : Enqueue(r, callerSem)
    /\ UNCHANGED <<link, tx, replySem, wire, rx, rt, learn, probe, past>>

-----------------------------------------------------------------------------
(* The tx task *)

\* A setpoint that has waited for more than 100 ms is dropped unsent.
DropStale ==
    /\ tx.at = "idle" /\ queue # <<>> /\ Head(queue).what = "setpoint"
    /\ queue' = Tail(queue)
    /\ UNCHANGED <<link, tx, replySem, callerSem, wire, rx, rt, learn, probe,
                   past, events>>

\* Mutant of Drained: a reply left over stays in the semaphore.
NotDrained == replySem

\* The semaphore after the reply left over from an earlier request is taken.
Drained == None

\* Dequeue, decide on the wrapping, drain, publish the kind and write.  The
\* write is refused when the link is down; request or answer may get lost.
Serve ==
    /\ tx.at = "idle" /\ queue # <<>>
    /\ LET r     == Head(queue)
           heard == ready /\ Answers(attached, r, Wraps(r))
       IN  /\ queue' = Tail(queue)
           /\ replySem' = Drained
           /\ lateId' = (lateId /\ r.kind # "id")
           /\ tx' = [at |-> IF ready /\ r.what # "setpoint" THEN "waits" ELSE "ended",
                     req |-> r]
           /\ \/ /\ heard /\ Len(wire) < MaxWire
                 /\ wire' = Append(wire, Packet(r.what, attached))
                 /\ UNCHANGED events
              \/ ~heard /\ UNCHANGED <<wire, events>>
              \/ heard /\ Event /\ UNCHANGED wire
    /\ past' = [past EXCEPT !.crowded = @ \/ (Head(queue).kind = "id" /\ IdOnWire)]
    /\ UNCHANGED <<link, callerSem, rx, rt, probe, peer, peerId, tries,
                   seenDrops>>

Answered ==
    /\ tx.at = "waits" /\ replySem # None
    /\ tx' = [tx EXCEPT !.at = "ended"]
    /\ replySem' = None
    /\ UNCHANGED <<link, call, wire, rx, rt, learn, probe, past, events>>

TimesOut ==
    /\ tx.at = "waits" /\ replySem = None
    /\ tx' = [tx EXCEPT !.at = "ended"]
    /\ IF UnderWay = {} THEN UNCHANGED events ELSE Event
    /\ UNCHANGED <<link, call, replySem, wire, rx, rt, learn, probe, past>>

\* Mutant of LateIdAfter: an id probe that was not answered is forgotten.
LateIdForgotten == lateId

\* s_probe_late_id once the request in flight is given up or answered.
LateIdAfter == lateId \/ (tx.req.kind = "id" /\ ~probe.idValid)

\* No longer awaiting, no kind in flight; whoever waits is released.
Release ==
    /\ tx.at = "ended"
    /\ tx' = [at |-> "idle", req |-> NoRequest]
    /\ lateId' = LateIdAfter
    /\ callerSem' = (callerSem \/ tx.req.waits)
    /\ wire' = [i \in DOMAIN wire |-> Late(wire[i])]
    /\ rx' = Late(rx)
    /\ UNCHANGED <<link, queue, replySem, rt, probe, peer, peerId, tries,
                   seenDrops, past, events>>

-----------------------------------------------------------------------------
(* The rx task *)

\* is_async: what the script prints is nobody's answer.
Completes(p) == p.what # "print"

\* fw_reply_hw_type: the hardware type in the version reply of device d.
ReportedBy(d) == IF d \in Old THEN None ELSE d

\* probe_capture.  An id answer is the probe's while the id probe is in
\* flight, is swallowed when one is known to be late, and otherwise reaches
\* the telemetry parser, which takes it for fresh data.  A version reply that is
\* too old to carry it leaves the hardware type at HW_TYPE_NOT_REPORTED.
Capture(p) ==
    \/ /\ p.what = "id" /\ InflightKind = "id"
       /\ probe' = [probe EXCEPT !.answered = TRUE, !.idValid = TRUE, !.id = p.from]
       /\ UNCHANGED <<lateId, past>>
    \/ /\ p.what = "id" /\ InflightKind # "id"
       /\ lateId' = FALSE
       /\ past' = [past EXCEPT !.blank = @ \/ ~lateId]
       /\ UNCHANGED probe
    \/ /\ p.what = "fw" /\ InflightKind = "fw"
       /\ probe' = [probe EXCEPT !.answered = TRUE, !.hw = ReportedBy(p.from)]
       /\ UNCHANGED <<lateId, past>>
    \/ /\ p.what # "id" /\ ~(p.what = "fw" /\ InflightKind = "fw")
       /\ UNCHANGED <<probe, lateId, past>>

RxCaptures ==
    /\ rx = None /\ wire # <<>>
    /\ Capture(Head(wire))
    /\ rx' = Head(wire)
    /\ wire' = Tail(wire)
    /\ UNCHANGED <<link, call, tx, replySem, rt, peer, peerId, tries, seenDrops,
                   events>>

\* on_packet after the delivery, which may block.
RxSignals ==
    /\ rx # None
    /\ replySem' = IF Completes(rx) /\ Awaiting THEN rx ELSE replySem
    /\ rx' = None
    /\ UNCHANGED <<link, call, tx, wire, rt, learn, probe, past, events>>

-----------------------------------------------------------------------------
(* The poll task.  One pass: the polls, then the probe loop. *)

ProbeReset ==
    /\ peer' = "unknown" /\ tries' = 0 /\ lateId' = FALSE
    /\ past' = [past EXCEPT !.cleared = @ \/ IdOnWire]

\* The whole body is skipped while the link is down.
PollAsks ==
    /\ rt = "polls" /\ ready
    /\ \E n \in Nodes : SendSync(Poll(n))
    /\ rt' = "poll"
    /\ UNCHANGED <<link, tx, replySem, wire, rx, learn, probe, past, events>>

NothingToPoll ==
    /\ rt = "polls" /\ ready
    /\ rt' = "probes"
    /\ UNCHANGED <<link, call, tx, replySem, wire, rx, learn, probe, past, events>>

\* A wait in send_sync_raw ends: released by a completion ...
WaitEnds(to) == rt' = [poll |-> "probes", id |-> "idDone", fw |-> "fwDone"][to]

Waiting == rt \in {"poll", "id", "fw"}

Returns ==
    /\ Waiting /\ callerSem
    /\ callerSem' = FALSE
    /\ WaitEnds(rt)
    /\ UNCHANGED <<link, queue, tx, replySem, wire, rx, learn, probe, past, events>>

\* ... or given up after the timeout and 100 ms more, with the request still
\* queued or being served.
GivesUp ==
    /\ Waiting /\ ~callerSem
    /\ Event
    /\ WaitEnds(rt)
    /\ UNCHANGED <<link, call, tx, replySem, wire, rx, learn, probe, past>>

Settled == peer \in {"controller", "bridge"}

\* The drop counter moved since the last pass.
NewLink == drops # seenDrops

\* The pass finds the link down again, or nothing to ask (yet).
ProbeRests ==
    /\ rt = "probes" /\ rt' = "polls"
    /\ ready => ~NewLink
    /\ seenDrops' = drops
    /\ IF ready THEN UNCHANGED <<peer, tries, lateId, past>> ELSE ProbeReset
    /\ UNCHANGED <<link, call, tx, replySem, wire, rx, probe, peerId, events>>

\* The pass asks for the node id: probe_loop, and probe_run up to the wait.
ProbeAsks ==
    /\ rt = "probes" /\ ready
    /\ NewLink \/ ~Settled
    /\ rt' = "id"
    /\ seenDrops' = drops
    /\ LET before == IF NewLink THEN 0 ELSE tries
       IN  tries' = IF before < SilentTries THEN before + 1 ELSE before
    /\ IF NewLink THEN peer' = "unknown" /\ lateId' = FALSE ELSE UNCHANGED <<peer, lateId>>
    /\ past' = [past EXCEPT !.overtaken = FALSE, !.crowded = @ \/ IdPending,
                            !.cleared = @ \/ (NewLink /\ IdOnWire)]
    /\ probe' = [probe EXCEPT !.answered = FALSE, !.idValid = FALSE]
    /\ SendSync(IdProbe)
    /\ UNCHANGED <<link, tx, replySem, wire, rx, peerId, events>>

\* probe_run after the id wait: an id, another round, or the second question.
FindsController ==
    /\ rt = "idDone" /\ probe.idValid
    /\ peer' = "controller" /\ peerId' = probe.id
    /\ rt' = "polls"
    /\ UNCHANGED <<link, call, tx, replySem, wire, rx, lateId, probe, tries,
                   seenDrops, past, events>>

AsksAgainLater ==
    /\ rt = "idDone" /\ ~probe.idValid /\ tries < IdTries
    /\ rt' = "polls"
    /\ UNCHANGED <<link, call, tx, replySem, wire, rx, learn, probe, past, events>>

AsksVersion ==
    /\ rt = "idDone" /\ ~probe.idValid /\ tries >= IdTries
    /\ rt' = "fw"
    /\ probe' = [probe EXCEPT !.answered = FALSE, !.hw = None]
    /\ past' = [past EXCEPT !.overtaken = IdPending]
    /\ SendSync(FwProbe)
    /\ UNCHANGED <<link, tx, replySem, wire, rx, learn, events>>

\* Mutant of SaysController: the hardware type is not looked at.
SaysNothing == FALSE

\* HW_TYPE_VESC; a type that was not reported keeps the adapter reading.
SaysController == probe.hw \in Nodes

\* probe_run after the version wait.
Verdict ==
    /\ rt = "fwDone"
    /\ rt' = "polls"
    /\ peer' = CASE probe.answered /\ SaysController -> peer
                 [] probe.answered /\ ~SaysController -> "bridge"
                 [] ~probe.answered /\ tries >= SilentTries -> "silent"
                 [] OTHER -> peer
    /\ UNCHANGED <<link, call, tx, replySem, wire, rx, lateId, probe, peerId, tries,
                   seenDrops, past, events>>

-----------------------------------------------------------------------------
(* The settings screens and the radio *)

\* vesc_ble_link_route_changed, on its own or for another adapter: the client
\* is bound to that one and, when connected, has to drop the link first.
Select ==
    /\ Event
    /\ bound' \in Devices
    /\ ProbeReset
    /\ UNCHANGED <<attached, ready, drops, call, tx, replySem, wire, rx, rt, probe,
                   peerId, seenDrops>>

\* The link drops, by itself or because another adapter was selected.  What is
\* in the air is lost; what had reached s_rx_rb is still parsed.
Drop ==
    /\ ready
    /\ IF bound = attached THEN Event ELSE UNCHANGED events
    /\ ready' = FALSE
    /\ drops' = drops + 1
    /\ \E n \in 0 .. Len(wire) : wire' = SubSeq(wire, 1, n)
    /\ UNCHANGED <<bound, attached, call, tx, replySem, rx, rt, learn, probe, past>>

\* Connected and subscribed.  That takes several connection events, the rx
\* task has long emptied its ring.
Connect ==
    /\ ~ready /\ wire = <<>> /\ rx = None
    /\ ready' = TRUE /\ attached' = bound
    /\ UNCHANGED <<bound, drops, call, tx, replySem, wire, rx, rt, learn, probe,
                   past, events>>

\* The script prints something.
Prints ==
    /\ Event
    /\ ready /\ attached \in Nodes /\ Len(wire) < MaxWire
    /\ wire' = Append(wire, Packet("print", attached))
    /\ UNCHANGED <<link, call, tx, replySem, rx, rt, learn, probe, past>>

-----------------------------------------------------------------------------
Init ==
    /\ bound \in Devices /\ attached = bound /\ ready = FALSE
    /\ drops = 0 /\ seenDrops = 0
    /\ queue = <<>> /\ callerSem = FALSE /\ replySem = None
    /\ tx = [at |-> "idle", req |-> NoRequest]
    /\ wire = <<>> /\ rx = None /\ rt = "polls"
    /\ lateId = FALSE /\ probe = NoProbe
    /\ peer = "unknown" /\ peerId = None /\ tries = 0
    /\ past = [overtaken |-> FALSE, crowded |-> FALSE, cleared |-> FALSE, blank |-> FALSE]
    /\ events = 0

TxStep == Serve \/ Answered \/ TimesOut \/ Release
RxStep == RxCaptures \/ RxSignals
RtStep == \/ PollAsks \/ NothingToPoll \/ Returns \/ GivesUp
          \/ ProbeRests \/ ProbeAsks
          \/ FindsController \/ AsksAgainLater \/ AsksVersion \/ Verdict
World  == OtherSends \/ DropStale \/ Select \/ Drop \/ Connect \/ Prints

Next == TxStep \/ RxStep \/ RtStep \/ World

\* The tasks are scheduled, a link that is not up comes up, and the poll task
\* asks again once the time for it has come.
Fairness ==
    /\ WF_vars(TxStep) /\ WF_vars(RxStep) /\ WF_vars(RtStep)
    /\ WF_vars(Connect) /\ WF_vars(Drop /\ bound # attached)
    /\ SF_vars(ProbeAsks)

Spec     == Init /\ [][Next]_vars
FairSpec == Spec /\ Fairness

-----------------------------------------------------------------------------
(* Properties *)

TypeOK ==
    /\ bound \in Devices /\ attached \in Devices /\ ready \in BOOLEAN
    /\ drops \in Nat /\ seenDrops \in 0 .. drops
    /\ queue \in Seq(Requests) /\ Len(queue) <= QueueLen
    /\ tx \in [at : {"waits", "ended"}, req : Requests]
              \cup {[at |-> "idle", req |-> NoRequest]}
    /\ replySem \in Packets \cup {None} /\ callerSem \in BOOLEAN
    /\ wire \in Seq(Packets) /\ Len(wire) <= MaxWire
    /\ rx \in Packets \cup {None}
    /\ rt \in {"polls", "poll", "probes", "id", "idDone", "fw", "fwDone"}
    /\ lateId \in BOOLEAN
    /\ probe \in [answered : BOOLEAN, idValid : BOOLEAN,
                  id : Devices \cup {None}, hw : Devices \cup {None}]
    /\ peer \in {"unknown", "controller", "bridge", "silent"}
    /\ peerId \in Devices \cup {None}
    /\ tries \in 0 .. SilentTries
    /\ past \in [overtaken : BOOLEAN, crowded : BOOLEAN, cleared : BOOLEAN, blank : BOOLEAN]
    /\ events \in 0 .. MaxEvents

\* HW_TYPE_NOT_REPORTED is all that the device attached can say of itself.
Unreported == attached \in Old

\* What the probe has learned is about the connection it was learned on, and
\* true of the device at its other end (vesc_ble_link.c:701-706, 661-672):
\* answers of an earlier connection, of polls, of the config menu and of the
\* phone are never taken for the probe's.  The excuses are the two holes: an id
\* request that outlived its call is answered while the version is awaited, and
\* a version reply does not say what sent it (vesc_ble_link.c:671-672).
PeerIsAttached ==
    ready /\ ~NewLink =>
        /\ peer = "controller" => peerId = attached
        /\ peer = "bridge" => attached = Express \/ past.overtaken \/ Unreported

\* The answer to the id probe is nobody's telemetry (vesc_ble_link.c:280-293):
\* it reaches the parser only when a second id probe went out before the first
\* was done with, or the settings screen cleared the flag meanwhile.
BlankNeedsTwoProbes == past.blank => past.crowded \/ past.cleared

\* A wait for a reply is ended by the reply to the request that waits, never
\* by the script's output nor by what was left in the semaphore; only a reply
\* that is late itself can be mistaken (vesc_ble_link.c:313-318, 408-410).
WaitEndsByOwnAnswer ==
    [][Answered => replySem.late \/ (replySem.what = tx.req.what)]_vars

Pending == (IF tx.req.waits THEN 1 ELSE 0)
             + Cardinality({i \in DOMAIN queue : queue[i].waits})
Blocked == Waiting /\ ~callerSem

Sync == INSTANCE SyncCall WITH
            calling <- Blocked,
            owed    <- Pending - (IF Blocked THEN 1 ELSE 0)

\* The blocking calls of the poll task over the ring, the two semaphores and
\* the tx task are what SyncCall describes: a call ends by its own completion,
\* by its timeout, or by that of a call given up before; and it does end.
ImplementsSyncCall == Sync!SyncSpec

\* Whatever was lost, late or dropped before: in the end the link is up and
\* addressed so that polls of every controller reach it, or known to be
\* silent (vesc_ble_link.c:615-628), provided that calls, requests and
\* replies get back into step: nothing forces that.  Once a call was given up,
\* or a reply was late, each later one may be released by the one before it.
InStep ==
    /\ Blocked => Pending = 1
    /\ tx.at = "waits" => \A p \in {rx} \cup {wire[i] : i \in DOMAIN wire} :
                            p # None => ~p.late
\* A controller that lost its id probes and whose version reply does not say
\* what it is stays latched as an adapter, its own polls wrapped, until the
\* next drop of the link (vesc_ble_link.c:671-678).
LatchedUnreported == peer = "bridge" /\ Unreported

Reaches == \A n \in Nodes : Responder(attached, Poll(n), Wraps(Poll(n))) = n
EventuallyAddressed ==
    <>[]InStep =>
        <>[](ready /\ (\/ /\ attached # Silent
                          /\ Reaches \/ past.overtaken \/ LatchedUnreported
                       \/ attached = Silent /\ peer = "silent"))

\* vesc_ble_link.c:665-668, "if it were latched as an adapter now, every
\* request to it would be wrapped in COMM_FORWARD_CAN addressed to itself and
\* the link would be dead until the next power cycle".
ControllerNotTakenForAdapter ==
    ready /\ ~NewLink /\ attached \in Nodes \ Old => peer # "bridge"
=============================================================================
