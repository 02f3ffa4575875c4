------------------------------- MODULE CanLink -------------------------------
(***************************************************************************)
(* The CAN side of the VESC link, components/vesc_can/comm_can.c: rx_task  *)
(* moves frames from the TWAI driver into a ring, process_task decodes     *)
(* them and reassembles the packets of several frames, rt_task polls with  *)
(* comm_can_send_buffer_sync, other tasks send without waiting, and the    *)
(* settings screen and the transport switch stop, start and re-initialise  *)
(* the link while the tasks run.                                           *)
(*                                                                         *)
(* A packet is a number; its FILL frames are the parts 0 .. Chunks - 1 and *)
(* its PROCESS frame the part Chunks, the only part of a short packet.     *)
(* The frames of packets that are on the bus at the same time interleave.  *)
(* The CRC of a reassembled packet holds iff every part in the buffer is   *)
(* its own.  The TWAI driver and the other nodes are external.             *)
(***************************************************************************)
EXTENDS Integers, Sequences, FiniteSets

CONSTANTS
    RingLen,      \* RXBUF_LEN
    RxBuffers,    \* RX_BUFFER_NUM
    Chunks,       \* FILL frames of a long packet
    Ids,          \* the addresses the display may be given
    MaxPolls,     \* bound: requests of rt_task
    MaxOthers,    \* bound: requests of other tasks
    MaxRequests,  \* bound: short packets other nodes send of their own accord
    MaxChanges,   \* bound: stops, starts and re-initialisations
    MaxBusOffs,   \* bound: times the controller drops off the bus
    MaxEvents     \* bound: all of these together

ASSUME CanLinkAssumption ==
    /\ RingLen \in Nat \ {0, 1} /\ RxBuffers \in Nat \ {0} /\ Chunks \in Nat \ {0}
    /\ Ids \subseteq 0 .. 254 /\ Ids # {}
    /\ MaxPolls \in Nat /\ MaxOthers \in Nat /\ MaxRequests \in Nat
    /\ MaxChanges \in Nat /\ MaxBusOffs \in Nat /\ MaxEvents \in Nat

Broadcast == 255
Free      == -1
Dests     == Ids \cup {Broadcast}
Senders   == {"rt", "app", "proc"}     \* the tasks that call comm_can_transmit_eid
Ring      == 0 .. RingLen - 1
Buffers   == 1 .. RxBuffers
NoFrame   == [pkt |-> 0, part |-> 0]
AtRest    == [at |-> "idle", slot |-> 0, frame |-> NoFrame]
NoParts   == [k \in 0 .. Chunks - 1 |-> 0]

VARIABLES
    driver,   \* external: the state of the TWAI driver
    link,     \* [own: s_can_config.controller_id, up: s_init_done,
              \*  stopRx: s_stop_rx, rxRunning: s_rx_running]
    rx,       \* where rx_task is
    ctl,      \* where the task is that stops or starts the link
    mutex,    \* who holds s_send_mutex
    tx,       \* where each sender is in comm_can_transmit_eid
    poll,     \* where rt_task is in comm_can_send_buffer_sync, and its reply
    done,     \* s_rx_done_sem
    ring,     \* [slots: s_rx_buf, wr: s_rx_write, rd: s_rx_read]
    proc,     \* where process_task is, the slot its pointer refers to and, as
              \* history, the frame it found there
    asm,      \* [owner: s_rx_buffer_device_id,
              \*  parts: s_rx_buffer, the packet that wrote each part]
    packets,  \* external: what the other nodes send to this one, part by part
    seen,     \* history: [run: the parts last decoded in a row, missed: was such a
              \*  packet not delivered, excuses: for polls to overlap]
    used      \* how much of each bound is used

lifeVars == <<driver, link, rx, ctl>>
sendVars == <<mutex, tx, poll>>
recvVars == <<ring, proc, asm>>
More == used.polls + used.others + used.requests + used.changes + used.busoffs < MaxEvents

vars     == <<lifeVars, sendVars, done, recvVars, packets, seen, used>>

-----------------------------------------------------------------------------
(* comm_can_transmit_eid: a check, the mutex, a second check, the driver *)

\* What process_task has before it, and the packet it belongs to.
Frame  == ring.slots[proc.slot]
Packet == packets[Frame.pkt]

\* History: a transaction that ends while a poll is under way may not be its own.
Stray == IF poll.at # "idle" /\ poll.pkt # Frame.pkt THEN 1 ELSE 0

\* process_task is through with a frame; nobody reads that slot of the ring again
\* before it is overwritten.
FrameDone == /\ proc' = AtRest
             /\ ring' = [ring EXCEPT !.slots[proc.slot] = NoFrame]

\* comm_can_transmit_eid has returned; reply numbers the packet that answers.
Returned(t, reply) ==
    /\ tx' = [tx EXCEPT ![t] = "idle"]
    /\ poll' = IF t = "rt" THEN [at |-> "waiting", pkt |-> reply] ELSE poll
    /\ IF t = "proc" THEN FrameDone ELSE UNCHANGED <<proc, ring>>
    /\ done' = (done \/ t = "proc")
    /\ seen' = IF t = "proc" THEN [seen EXCEPT !.excuses = @ + Stray] ELSE seen

Goes(t) ==
    /\ tx' = [tx EXCEPT ![t] = "sends"]
    /\ UNCHANGED <<poll, proc, ring, done, seen>>

\* The second check: the link may have gone while t waited.  Whoever takes it
\* down needs the mutex.
TakeMutex(t) ==
    /\ tx[t] = "waits" /\ mutex = "none"
    /\ IF link.up THEN Goes(t) /\ mutex' = t
                  ELSE Returned(t, 0) /\ UNCHANGED mutex
    /\ UNCHANGED <<lifeVars, asm, packets, used>>

\* A node that gets a request answers it with a packet of several frames (one that
\* never comes is one that stays on its way); a bus that is off takes no request.
Transmit(t) ==
    /\ tx[t] = "sends"
    /\ mutex' = "none"
    /\ IF t # "proc" /\ driver = "running"
       THEN /\ packets' = Append(packets, [of |-> t, to |-> link.own, next |-> 0])
            /\ Returned(t, Len(packets'))
       ELSE Returned(t, 0) /\ UNCHANGED packets
    /\ UNCHANGED <<lifeVars, asm, used>>

-----------------------------------------------------------------------------
(* comm_can_send_buffer_sync on rt_task, comm_can_send_buffer elsewhere; a   *)
(* request stands for all its frames                                         *)

\* Variant: a completion of the past is not drained.
PollUndrained ==
    /\ poll.at = "idle" /\ link.up /\ used.polls < MaxPolls /\ More
    /\ poll' = [at |-> "sending", pkt |-> 0]
    /\ tx' = [tx EXCEPT !["rt"] = "waits"]
    /\ used' = [used EXCEPT !.polls = @ + 1]
    /\ UNCHANGED <<lifeVars, mutex, done, recvVars, packets, seen>>

Poll ==
    /\ poll.at = "idle" /\ link.up /\ used.polls < MaxPolls /\ More
    /\ done' = FALSE
    /\ poll' = [at |-> "sending", pkt |-> 0]
    /\ tx' = [tx EXCEPT !["rt"] = "waits"]
    /\ used' = [used EXCEPT !.polls = @ + 1]
    /\ UNCHANGED <<lifeVars, mutex, recvVars, packets, seen>>

PollAnswered ==
    /\ poll.at = "waiting" /\ done
    /\ done' = FALSE
    /\ poll' = [at |-> "idle", pkt |-> 0]
    /\ UNCHANGED <<lifeVars, mutex, tx, recvVars, packets, seen, used>>

PollTimesOut ==
    /\ poll.at = "waiting" /\ ~done
    /\ poll' = [at |-> "idle", pkt |-> 0]
    /\ seen' = [seen EXCEPT !.excuses = @ + 1]
    /\ UNCHANGED <<lifeVars, mutex, tx, done, recvVars, packets, used>>

SendOther ==
    /\ tx["app"] = "idle" /\ link.up /\ used.others < MaxOthers /\ More
    /\ tx' = [tx EXCEPT !["app"] = "waits"]
    /\ used' = [used EXCEPT !.others = @ + 1]
    /\ UNCHANGED <<lifeVars, mutex, poll, done, recvVars, packets, seen>>

-----------------------------------------------------------------------------
(* rx_task, with the health check it makes twice a second *)

RxStarts ==
    /\ rx = "created"
    /\ rx' = "loop"
    /\ link' = [link EXCEPT !.rxRunning = TRUE]
    /\ UNCHANGED <<driver, ctl, sendVars, done, recvVars, packets, seen, used>>

RxTurn ==
    /\ rx = "loop"
    /\ rx' = IF link.stopRx THEN "none" ELSE "receiving"
    /\ link' = [link EXCEPT !.rxRunning = ~link.stopRx]
    /\ UNCHANGED <<driver, ctl, sendVars, done, recvVars, packets, seen, used>>

\* Variant: a completed recovery is not followed by a start.
HealthCheckOnce ==
    /\ rx = "receiving" /\ driver = "busoff"
    /\ driver' = "recovering"
    /\ UNCHANGED <<link, rx, ctl, sendVars, done, recvVars, packets, seen, used>>

HealthCheck ==
    /\ rx = "receiving" /\ driver \in {"busoff", "stopped"}
    /\ driver' = IF driver = "busoff" THEN "recovering" ELSE "running"
    /\ UNCHANGED <<link, rx, ctl, sendVars, done, recvVars, packets, seen, used>>

Succ(i) == (i + 1) % RingLen

\* Variant: nothing is ever dropped.
RingNeverFull == FALSE

RingFull == Succ(ring.wr) = ring.rd

\* The next frame of packet p leaves its sender.
Leaves(p) == /\ packets[p].next <= Chunks
             /\ packets' = [packets EXCEPT ![p].next = @ + 1]

\* twai_receive returns a frame, or times out.
Receive(p) ==
    /\ rx = "receiving" /\ driver = "running"
    /\ Leaves(p)
    /\ rx' = "loop"
    /\ ring' = IF RingFull THEN ring
               ELSE [ring EXCEPT !.slots[ring.wr] = [pkt |-> p, part |-> packets[p].next],
                                 !.wr = Succ(@)]
    /\ UNCHANGED <<driver, link, ctl, sendVars, done, proc, asm, seen, used>>

ReceiveNothing ==
    /\ rx = "receiving"
    /\ rx' = "loop"
    /\ UNCHANGED <<driver, link, ctl, sendVars, done, recvVars, packets, seen, used>>

-----------------------------------------------------------------------------
(* process_task and decode_msg *)

\* The read index moves on while the pointer into the ring is still in use.
TakeFrame ==
    /\ proc.at = "idle" /\ ring.rd # ring.wr
    /\ proc' = [at |-> "decoding", slot |-> ring.rd, frame |-> ring.slots[ring.rd]]
    /\ ring' = [ring EXCEPT !.rd = Succ(@)]
    /\ UNCHANGED <<lifeVars, sendVars, done, asm, packets, seen, used>>

Decoding  == proc.at = "decoding"
Addressed == Packet.to \in {link.own, Broadcast}

First(S)   == CHOOSE i \in S : \A j \in S : i <= j
OwnedBy(d) == {i \in Buffers : asm.owner[i] = d}

\* Variant: a first part always opens a buffer of its own.
BuffersForAlwaysNew(d, part) ==
    IF part = 0 /\ OwnedBy(Free) # {} THEN OwnedBy(Free) ELSE OwnedBy(d)

\* Where a part goes: the buffer of its destination; only a first part may take
\* a free one.
BuffersFor(d, part) ==
    IF OwnedBy(d) = {} /\ part = 0 THEN OwnedBy(Free) ELSE OwnedBy(d)

\* History: the parts of one packet that were decoded in a row.
InARow == Frame.part = 0 \/ seen.run[Packet.to] = Frame

Ignore ==
    /\ Decoding /\ ~Addressed
    /\ FrameDone
    /\ UNCHANGED <<lifeVars, sendVars, done, asm, packets, seen, used>>

\* FILL_RX_BUFFER and FILL_RX_BUFFER_LONG
Fill ==
    /\ Decoding /\ Addressed /\ Frame.part < Chunks
    /\ FrameDone
    /\ LET found == BuffersFor(Packet.to, Frame.part)
       IN  asm' = IF found = {} THEN asm
                  ELSE [asm EXCEPT !.owner[First(found)] = Packet.to,
                                   !.parts[First(found)][Frame.part] = Frame.pkt]
    /\ seen' = [seen EXCEPT !.run[Packet.to] =
                    IF InARow THEN [Frame EXCEPT !.part = @ + 1] ELSE NoFrame]
    /\ UNCHANGED <<lifeVars, sendVars, done, packets, used>>

\* PROCESS_RX_BUFFER: a buffer whose CRC fails is dropped.
Process ==
    /\ Decoding /\ Addressed /\ Frame.part = Chunks /\ Packet.of \in Senders
    /\ FrameDone
    /\ LET found == OwnedBy(Packet.to)
           crcOk == \A k \in 0 .. Chunks - 1 : asm.parts[First(found)][k] = Frame.pkt
       IN  /\ done' = (done \/ found # {})
           /\ asm' = IF found = {} THEN asm
                     ELSE [asm EXCEPT !.owner[First(found)] = Free,
                                      !.parts[First(found)] = NoParts]
           /\ seen' = [seen EXCEPT
                 !.run[Packet.to] = NoFrame,
                 !.missed = @ \/ (InARow /\ ~(found # {} /\ crcOk)),
                 !.excuses = IF found # {} THEN @ + Stray ELSE @]
    /\ UNCHANGED <<lifeVars, sendVars, packets, used>>

\* PROCESS_SHORT_BUFFER with something for the packet handler
ProcessShort ==
    /\ Decoding /\ Addressed /\ Packet.of = "news"
    /\ FrameDone
    /\ done' = TRUE
    /\ seen' = [seen EXCEPT !.excuses = @ + Stray]
    /\ UNCHANGED <<lifeVars, sendVars, asm, packets, used>>

\* ... with a COMM_FW_VERSION request, answered on this task before it goes on.
ServeRequest ==
    /\ Decoding /\ Addressed /\ Packet.of = "request"
    /\ IF link.up
       THEN /\ tx' = [tx EXCEPT !["proc"] = "waits"]
            /\ proc' = [proc EXCEPT !.at = "serving"]
            /\ UNCHANGED <<ring, done, seen>>
       ELSE /\ FrameDone
            /\ done' = TRUE
            /\ seen' = [seen EXCEPT !.excuses = @ + Stray]
            /\ UNCHANGED tx
    /\ UNCHANGED <<lifeVars, mutex, poll, asm, packets, used>>

-----------------------------------------------------------------------------
(* comm_can_start, comm_can_stop and comm_can_reinit *)

Change(next) ==
    /\ ctl = "idle" /\ used.changes < MaxChanges /\ More
    /\ ctl' = next
    /\ used' = [used EXCEPT !.changes = @ + 1]

\* comm_can_stop, alone or as the first half of comm_can_reinit; without a
\* running link it returns at once.
Stop ==
    /\ link.up /\ Change("stopping")
    /\ UNCHANGED <<driver, link, rx, sendVars, done, recvVars, packets, seen>>
Reinit ==
    /\ Change(IF link.up THEN "reinit" ELSE "install")
    /\ UNCHANGED <<driver, link, rx, sendVars, done, recvVars, packets, seen>>

\* Under the mutex; rx_task is told right after.
StopTasks ==
    /\ ctl \in {"stopping", "reinit"} /\ link.up /\ mutex = "none"
    /\ link' = [link EXCEPT !.up = FALSE, !.stopRx = TRUE]
    /\ UNCHANGED <<driver, rx, ctl, sendVars, done, recvVars, packets, seen, used>>

\* The driver cannot be removed while it recovers; the result is not looked at.
Removed == IF driver = "recovering" THEN driver ELSE "none"

\* Variant: rx_task is not waited for.
RemoveEarly ==
    /\ ctl \in {"stopping", "reinit"} /\ link.stopRx
    /\ driver' = Removed
    /\ ctl' = IF ctl = "reinit" THEN "install" ELSE "idle"
    /\ UNCHANGED <<link, rx, sendVars, done, recvVars, packets, seen, used>>

Remove ==
    /\ ctl \in {"stopping", "reinit"} /\ link.stopRx /\ ~link.rxRunning
    /\ driver' = Removed
    /\ ctl' = IF ctl = "reinit" THEN "install" ELSE "idle"
    /\ UNCHANGED <<link, rx, sendVars, done, recvVars, packets, seen, used>>

\* comm_can_start forgets every half-received packet first; comm_can_reinit
\* does not.
Start ==
    /\ Change("install")
    /\ asm' = [owner |-> [i \in Buffers |-> Free], parts |-> [i \in Buffers |-> NoParts]]
    /\ seen' = [seen EXCEPT !.run = [d \in Dests |-> NoFrame]]
    /\ UNCHANGED <<driver, link, rx, sendVars, done, ring, proc, packets>>

\* The new address; then the driver, which must not be installed yet, and
\* rx_task, for which there may be no memory.  100 ms after the driver was removed,
\* an rx_task that had not begun by then has seen s_stop_rx.
Install ==
    /\ ctl = "install" /\ (driver = "none" => rx = "none")
    /\ \E id \in Ids, enough \in BOOLEAN :
          IF driver = "none" /\ enough
          THEN /\ driver' = "running" /\ rx' = "created" /\ ctl' = "installed"
               /\ link' = [link EXCEPT !.own = id, !.stopRx = FALSE]
          ELSE /\ UNCHANGED <<driver, rx>> /\ ctl' = "idle"
               /\ link' = [link EXCEPT !.own = id,
                                       !.stopRx = (@ /\ driver # "none")]
    /\ UNCHANGED <<sendVars, done, recvVars, packets, seen, used>>

Installed ==
    /\ ctl = "installed"
    /\ ctl' = "idle"
    /\ link' = [link EXCEPT !.up = TRUE]
    /\ UNCHANGED <<driver, rx, sendVars, done, recvVars, packets, seen, used>>

-----------------------------------------------------------------------------
(* The bus *)

\* Another node speaks first: it asks for the firmware version, or has news.
NodeSpeaks ==
    /\ used.requests < MaxRequests /\ More
    /\ \E of \in {"request", "news"}, d \in {link.own, Broadcast} :
          packets' = Append(packets, [of |-> of, to |-> d, next |-> Chunks])
    /\ used' = [used EXCEPT !.requests = @ + 1]
    /\ UNCHANGED <<lifeVars, sendVars, done, recvVars, seen>>

FrameMissed(p) ==
    /\ driver # "running"
    /\ Leaves(p)
    /\ UNCHANGED <<lifeVars, sendVars, done, recvVars, seen, used>>

BusOff ==
    /\ driver = "running" /\ used.busoffs < MaxBusOffs /\ More
    /\ driver' = "busoff"
    /\ used' = [used EXCEPT !.busoffs = @ + 1]
    /\ UNCHANGED <<link, rx, ctl, sendVars, done, recvVars, packets, seen>>

RecoveryDone ==
    /\ driver = "recovering"
    /\ driver' = "stopped"
    /\ UNCHANGED <<link, rx, ctl, sendVars, done, recvVars, packets, seen, used>>

-----------------------------------------------------------------------------
\* The link was brought up at boot.
Init ==
    /\ driver = "running" /\ rx = "created" /\ ctl = "idle"
    /\ link = [own |-> First(Ids), up |-> TRUE, stopRx |-> FALSE, rxRunning |-> FALSE]
    /\ mutex = "none" /\ tx = [t \in Senders |-> "idle"]
    /\ poll = [at |-> "idle", pkt |-> 0] /\ done = FALSE
    /\ ring = [slots |-> [i \in Ring |-> NoFrame], wr |-> 0, rd |-> 0]
    /\ proc = AtRest
    /\ asm = [owner |-> [i \in Buffers |-> Free], parts |-> [i \in Buffers |-> NoParts]]
    /\ packets = <<>>
    /\ seen = [run |-> [d \in Dests |-> NoFrame], missed |-> FALSE, excuses |-> 0]
    /\ used = [polls |-> 0, others |-> 0, requests |-> 0, changes |-> 0, busoffs |-> 0]

Sends(t)    == TakeMutex(t) \/ Transmit(t)
RtTask      == Poll \/ PollAnswered \/ PollTimesOut
Receives    == \E p \in DOMAIN packets : Receive(p)
RxTask      == RxStarts \/ RxTurn \/ ReceiveNothing \/ Receives
ProcessTask == TakeFrame \/ Ignore \/ Fill \/ Process \/ ProcessShort \/ ServeRequest
Changes     == Stop \/ Reinit \/ Start
CtlTask     == StopTasks \/ Remove \/ Install \/ Installed
Bus         == NodeSpeaks \/ BusOff \/ RecoveryDone \/ \E p \in DOMAIN packets : FrameMissed(p)

Next ==
    \/ \E t \in Senders : Sends(t)
    \/ RtTask \/ SendOther \/ RxTask \/ HealthCheck \/ ProcessTask
    \/ Changes \/ CtlTask \/ Bus

Spec == Init /\ [][Next]_vars

\* Every task that can run does; the mutex goes to who waits; a wait times out;
\* rx_task checks the bus again and again; a recovery ends.
Fairness ==
    /\ \A t \in Senders : WF_vars(Sends(t))
    /\ WF_vars(PollAnswered \/ PollTimesOut)
    /\ WF_vars(RxTask) /\ SF_vars(HealthCheck) /\ WF_vars(ProcessTask)
    /\ WF_vars(CtlTask) /\ WF_vars(RecoveryDone)

FairSpec == Spec /\ Fairness

-----------------------------------------------------------------------------
(* Properties *)

InFlight(p) == packets[p].next <= Chunks
               \/ \E i \in Ring : /\ ring.slots[i].pkt = p
                                  /\ (i - ring.rd) % RingLen < (ring.wr - ring.rd) % RingLen

\* Every variable keeps its type; at most one buffer belongs to a destination.
TypeOK ==
    /\ driver \in {"none", "running", "busoff", "recovering", "stopped"}
    /\ link \in [own: Ids, up: BOOLEAN, stopRx: BOOLEAN, rxRunning: BOOLEAN]
    /\ rx \in {"none", "created", "loop", "receiving"}
    /\ ctl \in {"idle", "stopping", "reinit", "install", "installed"}
    /\ mutex \in Senders \cup {"none"}
    /\ tx \in [Senders -> {"idle", "waits", "sends"}]
    /\ poll.at \in {"idle", "sending", "waiting"} /\ done \in BOOLEAN
    /\ ring.wr \in Ring /\ ring.rd \in Ring
    /\ proc.at \in {"idle", "decoding", "serving"} /\ proc.slot \in Ring
    /\ asm.owner \in [Buffers -> Dests \cup {Free}]
    /\ \A d \in Dests : Cardinality(OwnedBy(d)) <= 1

\* process_task moves s_rx_read on before it decodes, so the slot it points into
\* counts as free: rx_task, however far it runs ahead in the meantime, must never
\* write the frame that is being decoded.
FrameInUse == proc.at # "idle" => ring.slots[proc.slot] = proc.frame

\* Whatever was lost, interleaved or cut short before it, and although a stopped
\* transaction leaves its buffer behind: a packet whose frames are decoded one
\* after the other reaches the packet handler.
WholePacketsDelivered == ~seen.missed

\* No task is inside a call of the TWAI driver after comm_can_stop has removed it.
DriverInstalledWhileUsed ==
    (rx = "receiving" \/ \E t \in Senders : tx[t] = "sends") => driver # "none"

\* Polls are serialised by waiting, not by a lock: the replies to two of them are
\* on their way together only if a wait has timed out since, or was ended by a
\* transaction that was not its own.
PollsOverlapOnlyWhenExcused ==
    Cardinality({p \in DOMAIN packets : packets[p].of = "rt" /\ InFlight(p)})
        <= 1 + seen.excuses

\* "The permanent death that follows" a bus-off is removed: while the link is
\* not taken down, the controller is back on the bus in the end.
BusRecovers == (driver = "busoff" /\ link.up) ~> (driver = "running" \/ ~link.up)

\* comm_can_stop "uninstalls the driver rather than leaving it stopped": a link
\* that is down can be started again.
StoppedMeansRemoved == (ctl = "idle" /\ ~link.up) => driver = "none"
=============================================================================
