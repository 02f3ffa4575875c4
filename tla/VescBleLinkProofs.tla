-------------------------- MODULE VescBleLinkProofs --------------------------
(***************************************************************************)
(* The Bluetooth link to a controller, for every value of its constants:   *)
(* what the probe has learned is true of the device attached, its answers  *)
(* are not taken for telemetry, a wait ends by its own answer, and the     *)
(* blocking calls of the poll task are steps of SyncCall.                  *)
(***************************************************************************)
EXTENDS VescBleLink, FiniteSetTheorems, FunctionTheorems, TLAPS

-----------------------------------------------------------------------------
(* Types *)

LEMMA PacketTypes ==
    ASSUME NEW what \in {"poll", "id", "fw", "print"}, NEW from \in Devices
    PROVE  /\ Packet(what, from) \in Packets
           /\ Packet(what, from).what = what /\ Packet(what, from).from = from
           /\ ~Packet(what, from).late
BY DEF Packet, Packets

\* A packet that is late now is the one it was.
LEMMA LateType ==
    ASSUME NEW p \in Packets
    PROVE  /\ Late(p) \in Packets
           /\ Late(p).what = p.what /\ Late(p).from = p.from
           /\ p # None => Late(p).late
BY DEF Late, Packets

LEMMA RequestTypes ==
    /\ \A n \in Nodes : /\ Poll(n).what = "poll" /\ Poll(n).target = n
                        /\ Poll(n).waits = TRUE /\ Poll(n).kind = "normal"
    /\ IdProbe.what = "id" /\ IdProbe.target = None
    /\ IdProbe.waits = TRUE /\ IdProbe.kind = "id"
    /\ FwProbe.what = "fw" /\ FwProbe.target = None
    /\ FwProbe.waits = TRUE /\ FwProbe.kind = "fw"
    /\ OtherFw.what = "fw" /\ OtherFw.target = None
    /\ OtherFw.waits = FALSE /\ OtherFw.kind = "normal"
    /\ Setpoint.what = "setpoint" /\ Setpoint.target = None
    /\ Setpoint.waits = FALSE /\ Setpoint.kind = "normal"
    /\ NoRequest.what = "none" /\ NoRequest.waits = FALSE /\ NoRequest.kind = "normal"
BY DEF Request, Poll, IdProbe, FwProbe, OtherFw, Setpoint, NoRequest

LEMMA RequestFields ==
    ASSUME NEW r \in Requests
    PROVE  /\ r.what \in {"poll", "id", "fw", "setpoint"}
           /\ r.waits \in BOOLEAN
           /\ r.kind \in {"normal", "id", "fw"}
           /\ (r.kind = "id") = (r.what = "id")
           /\ r.kind = "fw" => r.what = "fw"
           /\ r.what = "id" => r.target = None
           /\ r.what = "setpoint" => ~r.waits
<1>1. CASE \E n \in Nodes : r = Poll(n)
  BY <1>1, RequestTypes
<1>2. CASE r \in {IdProbe, FwProbe, OtherFw, Setpoint}
  BY <1>2, RequestTypes
<1> QED
  BY <1>1, <1>2 DEF Requests

\* The task's request: one of the ring, or none.
LEMMA TxTypes ==
    ASSUME TypeOK
    PROVE  /\ tx.at \in {"idle", "waits", "ended"}
           /\ tx.at = "idle" => tx = [at |-> "idle", req |-> NoRequest]
           /\ tx.at # "idle" => tx \in [at : {"waits", "ended"}, req : Requests]
           /\ tx.at # "idle" => tx.req \in Requests
           /\ tx.at = "idle" => tx.req.kind = "normal" /\ tx.req.what = "none"
           /\ tx.req.waits \in BOOLEAN
           /\ tx.at = "idle" => tx.req.waits = FALSE
<1>1. CASE tx \in [at : {"waits", "ended"}, req : Requests]
  <2>1. tx.req \in Requests /\ tx.at \in {"waits", "ended"}
    BY <1>1
  <2> QED
    BY <1>1, <2>1, RequestFields
<1>2. CASE tx = [at |-> "idle", req |-> NoRequest]
  BY <1>2, RequestTypes
<1> QED
  BY <1>1, <1>2 DEF TypeOK

LEMMA RequestsInRing ==
    /\ \A n \in Nodes : Poll(n) \in Requests
    /\ {IdProbe, FwProbe, OtherFw, Setpoint} \subseteq Requests
BY DEF Requests

\* A request that does not fit is dropped, its caller released at once.
LEMMA EnqueueTypes ==
    ASSUME TypeOK, NEW r \in Requests, NEW sem \in BOOLEAN, Enqueue(r, sem)
    PROVE  /\ queue' \in Seq(Requests) /\ Len(queue') <= QueueLen
           /\ callerSem' \in BOOLEAN
           /\ \/ queue' = Append(queue, r) /\ callerSem' = sem
              \/ queue' = queue /\ callerSem' = (sem \/ r.waits)
<1>1. r.waits \in BOOLEAN
  BY RequestFields
<1>2. CASE Len(queue) < QueueLen
  BY <1>2, VescBleLinkAssumption DEF TypeOK, Enqueue
<1>3. CASE ~(Len(queue) < QueueLen)
  BY <1>1, <1>3 DEF TypeOK, Enqueue
<1> QED
  BY <1>2, <1>3

\* The packets of the wire once the request in flight is released.
LEMMA LateWire ==
    ASSUME NEW w \in Seq(Packets)
    PROVE  /\ [i \in DOMAIN w |-> Late(w[i])] \in Seq(Packets)
           /\ Len([i \in DOMAIN w |-> Late(w[i])]) = Len(w)
<1>1. \A i \in DOMAIN w : w[i] \in Packets /\ Late(w[i]) \in Packets
  BY LateType
<1> DEFINE v == [i \in DOMAIN w |-> Late(w[i])]
<1>2. DOMAIN w = 1 .. Len(w) /\ Len(w) \in Nat
  OBVIOUS
<1>3. v \in [1 .. Len(w) -> Packets]
  BY <1>1, <1>2
<1>4. v \in Seq(Packets)
  BY <1>2, <1>3
<1>5. DOMAIN v = 1 .. Len(w)
  BY <1>2
<1> HIDE DEF v
<1>6. Len(v) = Len(w)
  BY <1>2, <1>4, <1>5
<1> QED
  BY <1>4, <1>6 DEF v

LEMMA TypeInit == Init => TypeOK
<1> SUFFICES ASSUME Init PROVE TypeOK
  OBVIOUS
<1> USE VescBleLinkAssumption
<1>5. ready \in BOOLEAN /\ callerSem \in BOOLEAN /\ lateId \in BOOLEAN
  BY Zenon DEF Init
<1>1. /\ bound \in Devices /\ attached \in Devices /\ drops \in Nat /\ seenDrops \in 0 .. drops
      /\ tries \in 0 .. SilentTries /\ events \in 0 .. MaxEvents
  BY DEF Init
<1>2. queue \in Seq(Requests) /\ Len(queue) <= QueueLen
  BY DEF Init
<1>3. wire \in Seq(Packets) /\ Len(wire) <= MaxWire
  BY DEF Init
<1>4. probe \in [answered : BOOLEAN, idValid : BOOLEAN,
                id : Devices \cup {None}, hw : Devices \cup {None}]
  BY DEF Init, NoProbe
<1> QED
  BY <1>1, <1>2, <1>3, <1>4, <1>5 DEF Init, TypeOK

LEMMA ResetTypes ==
    ASSUME TypeOK, ProbeReset
    PROVE  /\ peer' \in {"unknown", "controller", "bridge", "silent"}
           /\ tries' \in 0 .. SilentTries /\ lateId' \in BOOLEAN
           /\ past' \in [overtaken : BOOLEAN, crowded : BOOLEAN, cleared : BOOLEAN, blank : BOOLEAN]
<1>1. past' \in [overtaken : BOOLEAN, crowded : BOOLEAN, cleared : BOOLEAN, blank : BOOLEAN]
  BY DEF TypeOK, ProbeReset
<1>2. lateId' \in BOOLEAN
  BY Zenon DEF ProbeReset
<1>3. peer' \in {"unknown", "controller", "bridge", "silent"} /\ tries' \in 0 .. SilentTries
  BY VescBleLinkAssumption DEF ProbeReset
<1> QED
  BY <1>1, <1>2, <1>3

\* Where the poll task goes on after a wait.
LEMMA WaitEndsTo ==
    ASSUME Waiting, WaitEnds(rt)
    PROVE  /\ rt = "poll" => rt' = "probes"
           /\ rt = "id" => rt' = "idDone"
           /\ rt = "fw" => rt' = "fwDone"
           /\ rt' \in {"probes", "idDone", "fwDone"}
<1>1. CASE rt = "poll"
  BY <1>1 DEF WaitEnds
<1>2. CASE rt = "id"
  BY <1>2 DEF WaitEnds
<1>3. CASE rt = "fw"
  BY <1>3 DEF WaitEnds
<1> QED
  BY <1>1, <1>2, <1>3 DEF Waiting

\* Each step keeps the types.
LEMMA TypeStep == TypeOK /\ [Next]_vars => TypeOK'
<1> SUFFICES ASSUME TypeOK, [Next]_vars
             PROVE  TypeOK'
  OBVIOUS
<1> USE VescBleLinkAssumption
<1>1. CASE Serve
  <2> DEFINE r == Head(queue)
  <2>1. r \in Requests /\ Tail(queue) \in Seq(Requests) /\ Len(Tail(queue)) <= QueueLen
    BY <1>1 DEF TypeOK, Serve
  <2>2. queue' = Tail(queue) /\ replySem' = None /\ lateId' \in BOOLEAN
    BY <1>1 DEF TypeOK, Serve, Drained
  <2>3. tx' \in [at : {"waits", "ended"}, req : Requests]
    BY <1>1, <2>1 DEF Serve
  <2>4. wire' \in Seq(Packets) /\ Len(wire') <= MaxWire /\ events' \in 0 .. MaxEvents
    <3>1. CASE UNCHANGED wire
      BY <1>1, <3>1 DEF TypeOK, Serve, Event
    <3>2. CASE /\ Answers(attached, r, Wraps(r)) /\ Len(wire) < MaxWire
               /\ wire' = Append(wire, Packet(r.what, attached)) /\ UNCHANGED events
      <4>1. r.what \in {"poll", "id", "fw"}
        BY <2>1, <3>2, RequestFields DEF Answers
      <4>2. Packet(r.what, attached) \in Packets
        BY <4>1, PacketTypes DEF TypeOK
      <4> QED
        BY <3>2, <4>2 DEF TypeOK
    <3> QED
      BY <1>1, <3>1, <3>2 DEF Serve
  <2>5. past' \in [overtaken : BOOLEAN, crowded : BOOLEAN, cleared : BOOLEAN, blank : BOOLEAN]
    BY <1>1 DEF TypeOK, Serve
  <2> HIDE DEF r
  <2> QED
    BY <1>1, <2>1, <2>2, <2>3, <2>4, <2>5 DEF TypeOK, Serve, link
<1>2. CASE Answered
  <2>1. tx' \in [at : {"waits", "ended"}, req : Requests]
    BY <1>2, TxTypes DEF Answered
  <2> QED
    BY <1>2, <2>1 DEF TypeOK, Answered, link, call, learn
<1>3. CASE TimesOut
  <2>1. tx' \in [at : {"waits", "ended"}, req : Requests]
    BY <1>3, TxTypes DEF TimesOut
  <2>2. events' \in 0 .. MaxEvents
    BY <1>3 DEF TypeOK, TimesOut, Event
  <2> QED
    BY <1>3, <2>1, <2>2 DEF TypeOK, TimesOut, link, call, learn
<1>4. CASE Release
  <2>1. callerSem' \in BOOLEAN /\ lateId' \in BOOLEAN
    BY <1>4, TxTypes DEF TypeOK, Release, LateIdAfter
  <2>2. wire' \in Seq(Packets) /\ Len(wire') <= MaxWire
    BY <1>4, LateWire DEF TypeOK, Release
  <2>3. rx' \in Packets \cup {None}
    BY <1>4, LateType DEF TypeOK, Release, Late
  <2> QED
    BY <1>4, <2>1, <2>2, <2>3 DEF TypeOK, Release, link
<1>5. CASE RxCaptures
  <2>1. Head(wire) \in Packets /\ Tail(wire) \in Seq(Packets) /\ Len(Tail(wire)) <= MaxWire
    BY <1>5 DEF TypeOK, RxCaptures
  <2>2. Head(wire).from \in Devices
    BY <2>1 DEF Packets
  <2>4. lateId \in BOOLEAN
    BY DEF TypeOK
  <2>5. lateId' \in BOOLEAN
    <3>1. lateId' = lateId \/ lateId' = FALSE
      BY <1>5 DEF RxCaptures, Capture
    <3> QED
      BY <2>4, <3>1, Zenon
  <2>3. probe' \in [answered : BOOLEAN, idValid : BOOLEAN,
                    id : Devices \cup {None}, hw : Devices \cup {None}]
    <3>1. ReportedBy(Head(wire).from) \in Devices \cup {None}
      BY <2>2 DEF ReportedBy
    <3> QED
      BY <1>5, <2>2, <3>1 DEF TypeOK, RxCaptures, Capture
  <2>6. past' \in [overtaken : BOOLEAN, crowded : BOOLEAN, cleared : BOOLEAN, blank : BOOLEAN]
    BY <1>5 DEF TypeOK, RxCaptures, Capture
  <2> QED
    BY <1>5, <2>1, <2>3, <2>5, <2>6 DEF TypeOK, RxCaptures, link, call
<1>6. CASE RxSignals
  BY <1>6 DEF TypeOK, RxSignals, link, call, learn
<1>7. CASE PollAsks
  <2>1. PICK n \in Nodes : SendSync(Poll(n))
    BY <1>7 DEF PollAsks
  <2>2. Enqueue(Poll(n), FALSE)
    BY <2>1 DEF SendSync
  <2>3. queue' \in Seq(Requests) /\ Len(queue') <= QueueLen /\ callerSem' \in BOOLEAN
    BY <2>2, EnqueueTypes, RequestsInRing
  <2> QED
    BY <1>7, <2>3 DEF TypeOK, PollAsks, link, learn
<1>8. CASE NothingToPoll
  BY <1>8 DEF TypeOK, NothingToPoll, link, call, learn
<1>9. CASE Returns
  <2>1. rt' \in {"probes", "idDone", "fwDone"}
    BY <1>9, WaitEndsTo DEF Returns
  <2>2. callerSem' \in BOOLEAN
    BY <1>9, Zenon DEF Returns
  <2> QED
    BY <1>9, <2>1, <2>2 DEF TypeOK, Returns, link, learn
<1>10. CASE GivesUp
  <2>1. rt' \in {"probes", "idDone", "fwDone"}
    BY <1>10, WaitEndsTo DEF GivesUp
  <2> QED
    BY <1>10, <2>1 DEF TypeOK, GivesUp, Event, link, call, learn
<1>11. CASE ProbeRests
  <2>1. /\ peer' \in {"unknown", "controller", "bridge", "silent"}
        /\ tries' \in 0 .. SilentTries
        /\ past' \in [overtaken : BOOLEAN, crowded : BOOLEAN, cleared : BOOLEAN, blank : BOOLEAN]
    <3>1. CASE ready
      BY <1>11, <3>1 DEF TypeOK, ProbeRests
    <3>2. CASE ~ready
      <4>1. ProbeReset
        BY <1>11, <3>2 DEF ProbeRests
      <4> QED
        BY <4>1, ResetTypes
    <3> QED
      BY <3>1, <3>2
  <2>2. lateId \in BOOLEAN
    BY DEF TypeOK
  <2>3. lateId' \in BOOLEAN
    <3>1. lateId' = lateId \/ lateId' = FALSE
      BY <1>11 DEF ProbeRests, ProbeReset
    <3> QED
      BY <2>2, <3>1, Zenon
  <2> QED
    BY <1>11, <2>1, <2>3 DEF TypeOK, ProbeRests, link, call
<1>12. CASE ProbeAsks
  <2>1. Enqueue(IdProbe, FALSE)
    BY <1>12 DEF ProbeAsks, SendSync
  <2>2. tries' \in 0 .. SilentTries
    BY <1>12 DEF TypeOK, ProbeAsks
  <2>3. /\ peer' \in {"unknown", "controller", "bridge", "silent"} /\ lateId' \in BOOLEAN
        /\ past' \in [overtaken : BOOLEAN, crowded : BOOLEAN, cleared : BOOLEAN, blank : BOOLEAN]
        /\ probe' \in [answered : BOOLEAN, idValid : BOOLEAN,
                       id : Devices \cup {None}, hw : Devices \cup {None}]
    BY <1>12 DEF TypeOK, ProbeAsks
  <2>4. queue' \in Seq(Requests) /\ Len(queue') <= QueueLen /\ callerSem' \in BOOLEAN
    BY <2>1, EnqueueTypes, RequestsInRing
  <2> QED
    BY <1>12, <2>2, <2>3, <2>4 DEF TypeOK, ProbeAsks, link
<1>13. CASE FindsController
  BY <1>13 DEF TypeOK, FindsController, link, call
<1>14. CASE AsksAgainLater
  BY <1>14 DEF TypeOK, AsksAgainLater, link, call, learn
<1>15. CASE AsksVersion
  <2>1. Enqueue(FwProbe, FALSE)
    BY <1>15 DEF AsksVersion, SendSync
  <2>2. /\ past' \in [overtaken : BOOLEAN, crowded : BOOLEAN, cleared : BOOLEAN, blank : BOOLEAN]
        /\ probe' \in [answered : BOOLEAN, idValid : BOOLEAN,
                       id : Devices \cup {None}, hw : Devices \cup {None}]
    BY <1>15 DEF TypeOK, AsksVersion, IdPending
  <2> QED
    BY <1>15, <2>1, <2>2, EnqueueTypes, RequestsInRing DEF TypeOK, AsksVersion, link, learn
<1>16. CASE Verdict
  BY <1>16 DEF TypeOK, Verdict, link, call
<1>17. CASE OtherSends
  <2>1. PICK r \in {OtherFw, Setpoint} : Enqueue(r, callerSem)
    BY <1>17 DEF OtherSends
  <2>2. r \in Requests /\ callerSem \in BOOLEAN
    BY RequestsInRing DEF TypeOK
  <2>3. queue' \in Seq(Requests) /\ Len(queue') <= QueueLen /\ callerSem' \in BOOLEAN
    BY <2>1, <2>2, EnqueueTypes
  <2> QED
    BY <1>17, <2>3 DEF TypeOK, OtherSends, Event, link, learn
<1>18. CASE DropStale
  BY <1>18 DEF TypeOK, DropStale, link, learn
<1>19. CASE Select
  <2>1. /\ peer' \in {"unknown", "controller", "bridge", "silent"}
        /\ tries' \in 0 .. SilentTries /\ lateId' \in BOOLEAN
        /\ past' \in [overtaken : BOOLEAN, crowded : BOOLEAN, cleared : BOOLEAN, blank : BOOLEAN]
    BY <1>19, ResetTypes DEF Select
  <2> QED
    BY <1>19, <2>1 DEF TypeOK, Select, Event, call
<1>20. CASE Drop
  <2>1. PICK n \in 0 .. Len(wire) : wire' = SubSeq(wire, 1, n)
    BY <1>20 DEF Drop
  <2>2. wire' \in Seq(Packets) /\ Len(wire') <= MaxWire
    <3>1. wire \in Seq(Packets) /\ n \in 0 .. Len(wire) /\ Len(wire) \in Nat
      BY DEF TypeOK
    <3>2. SubSeq(wire, 1, n) \in Seq(Packets) /\ Len(SubSeq(wire, 1, n)) = n
      BY <3>1
    <3> QED
      BY <2>1, <3>1, <3>2 DEF TypeOK
  <2>3. drops' \in Nat /\ seenDrops' \in 0 .. drops' /\ events' \in 0 .. MaxEvents
    BY <1>20 DEF TypeOK, Drop, Event, learn
  <2>4. ready' \in BOOLEAN
    BY <1>20, Zenon DEF Drop
  <2> QED
    BY <1>20, <2>2, <2>3, <2>4 DEF TypeOK, Drop, call, learn
<1>21. CASE Connect
  BY <1>21 DEF TypeOK, Connect, call, learn
<1>22. CASE Prints
  <2>1. Packet("print", attached) \in Packets
    BY PacketTypes DEF TypeOK
  <2> QED
    BY <1>22, <2>1 DEF TypeOK, Prints, Event, link, call, learn
<1>23. CASE UNCHANGED vars
  BY <1>23 DEF TypeOK, vars
<1> QED
  BY <1>1, <1>2, <1>3, <1>4, <1>5, <1>6, <1>7, <1>8, <1>9, <1>10, <1>11, <1>12, <1>13,
     <1>14, <1>15, <1>16, <1>17, <1>18, <1>19, <1>20, <1>21, <1>22, <1>23
     DEF Next, TxStep, RxStep, RtStep, World

\* Every state the link can reach is of the declared types.
THEOREM TypeCorrect == Spec => []TypeOK
BY TypeInit, TypeStep, PTL DEF Spec

-----------------------------------------------------------------------------
(* What the probe has learned *)

\* What is on its way comes from the device attached, and that one talks.
FromAttached ==
    /\ \A i \in DOMAIN wire : wire[i].from = attached
    /\ wire # <<>> => attached # Silent

LEMMA FromInit == Init => FromAttached
BY DEF Init, FromAttached

\* An answer comes from a device that answers.
LEMMA SilentIsSilent ==
    ASSUME NEW d, NEW r, NEW w, Answers(d, r, w)
    PROVE  d # Silent
BY VescBleLinkAssumption DEF Answers, Responder

LEMMA FromAppend ==
    ASSUME TypeOK, FromAttached, attached # Silent, UNCHANGED attached,
           NEW what \in {"poll", "id", "fw", "print"},
           wire' = Append(wire, Packet(what, attached))
    PROVE  FromAttached'
<1>1. Packet(what, attached) \in Packets /\ Packet(what, attached).from = attached
  BY PacketTypes DEF TypeOK
<1>2. wire \in Seq(Packets) /\ Len(wire) \in Nat
  BY DEF TypeOK
<1>3. \A i \in DOMAIN wire' : wire'[i].from = attached
  BY <1>1, <1>2 DEF FromAttached
<1> QED
  BY <1>3 DEF FromAttached

LEMMA FromStep == TypeOK /\ FromAttached /\ [Next]_vars => FromAttached'
<1> SUFFICES ASSUME TypeOK, FromAttached, [Next]_vars
             PROVE  FromAttached'
  OBVIOUS
<1>0. wire \in Seq(Packets) /\ Len(wire) \in Nat
  BY DEF TypeOK
<1>1. CASE UNCHANGED <<attached, wire>>
  BY <1>1 DEF FromAttached
<1>2. CASE Serve
  <2> DEFINE r == Head(queue)
  <2>1. r \in Requests
    BY <1>2 DEF TypeOK, Serve
  <2>2. CASE UNCHANGED wire
    BY <1>1, <1>2, <2>2 DEF Serve, link
  <2>3. CASE /\ Answers(attached, r, Wraps(r)) /\ wire' = Append(wire, Packet(r.what, attached))
    <3>1. r.what \in {"poll", "id", "fw"} /\ attached # Silent
      BY <2>1, <2>3, RequestFields, SilentIsSilent DEF Answers
    <3>2. UNCHANGED attached
      BY <1>2 DEF Serve, link
    <3> QED
      BY <2>3, <3>1, <3>2, FromAppend
  <2> QED
    BY <1>2, <2>2, <2>3 DEF Serve
<1>3. CASE Release
  <2>1. UNCHANGED attached /\ wire' = [i \in DOMAIN wire |-> Late(wire[i])]
    BY <1>3 DEF Release, link
  <2>2. \A i \in DOMAIN wire : wire[i] \in Packets
    BY <1>0
  <2>3. \A i \in DOMAIN wire : Late(wire[i]).from = wire[i].from
    BY <2>2, LateType
  <2>4. wire' # <<>> => wire # <<>>
    BY <1>0, <2>1
  <2> QED
    BY <2>1, <2>3, <2>4 DEF FromAttached
<1>4. CASE RxCaptures
  BY <1>0, <1>4 DEF FromAttached, RxCaptures, link
<1>5. CASE Drop
  <2>1. PICK n \in 0 .. Len(wire) : wire' = SubSeq(wire, 1, n)
    BY <1>5 DEF Drop
  <2>2. UNCHANGED attached
    BY <1>5 DEF Drop
  <2> QED
    BY <1>0, <2>1, <2>2 DEF FromAttached
<1>6. CASE Connect
  BY <1>6 DEF FromAttached, Connect
<1>7. CASE Prints
  <2>1. attached # Silent /\ UNCHANGED attached
    BY <1>7, VescBleLinkAssumption DEF Prints, link
  <2> QED
    BY <1>7, <2>1, FromAppend DEF Prints
<1> QED
  BY <1>1, <1>2, <1>3, <1>4, <1>5, <1>6, <1>7
     DEF Next, vars, TxStep, RxStep, RtStep, World, Answered, TimesOut, RxSignals, PollAsks,
         NothingToPoll, Returns, GivesUp, ProbeRests, ProbeAsks, FindsController,
         AsksAgainLater, AsksVersion, Verdict, OtherSends, DropStale, Select, link

\* An id probe served, and one waiting in the ring.
InFlightId == tx.at # "idle" /\ tx.req.kind = "id"
IdQueued   == \E i \in DOMAIN queue : queue[i].kind = "id"

LEMMA IdPendingParts == IdPending <=> InFlightId \/ IdQueued
BY DEF IdPending, InFlightId, IdQueued

LEMMA IdEnqueued ==
    ASSUME TypeOK, NEW r \in Requests, NEW sem, Enqueue(r, sem)
    PROVE  IdQueued' => IdQueued \/ r.kind = "id"
<1>1. queue \in Seq(Requests) /\ Len(queue) \in Nat
  BY DEF TypeOK
<1>2. CASE queue' = queue
  BY <1>2 DEF IdQueued
<1>3. CASE queue' = Append(queue, r)
  BY <1>1, <1>3 DEF IdQueued
<1> QED
  BY <1>2, <1>3 DEF Enqueue

LEMMA IdDequeued ==
    ASSUME TypeOK, queue # <<>>, queue' = Tail(queue)
    PROVE  /\ IdQueued' => IdQueued
           /\ Head(queue).kind = "id" => IdQueued
           /\ Head(queue) \in Requests
<1>1. queue \in Seq(Requests) /\ Len(queue) \in Nat
  BY DEF TypeOK
<1>2. Head(queue) = queue[1] /\ 1 \in DOMAIN queue
  BY <1>1
<1>3. \A i \in DOMAIN Tail(queue) : i + 1 \in DOMAIN queue /\ Tail(queue)[i] = queue[i + 1]
  BY <1>1
<1> QED
  BY <1>1, <1>2, <1>3 DEF IdQueued

\* Only the poll task asks for the id, and only there.
LEMMA NoNewId == TypeOK /\ [Next]_vars /\ ~IdPending /\ ~ProbeAsks => ~IdPending'
<1> SUFFICES ASSUME TypeOK, [Next]_vars, ~InFlightId, ~IdQueued, ~ProbeAsks
             PROVE  ~InFlightId' /\ ~IdQueued'
  BY DEF IdPending, InFlightId, IdQueued
<1>1. CASE UNCHANGED <<queue, tx>>
  BY <1>1 DEF InFlightId, IdQueued
<1>2. CASE Serve
  <2>1. queue # <<>> /\ queue' = Tail(queue) /\ tx'.req = Head(queue)
    BY <1>2 DEF Serve
  <2> QED
    BY <2>1, IdDequeued DEF InFlightId
<1>3. CASE Answered \/ TimesOut
  <2>1. tx' = [tx EXCEPT !.at = "ended"] /\ tx.at = "waits" /\ UNCHANGED queue
    BY <1>3 DEF Answered, TimesOut, call
  <2>2. tx'.req = tx.req
    BY <2>1, TxTypes
  <2> QED
    BY <2>1, <2>2 DEF InFlightId, IdQueued
<1>4. CASE Release
  BY <1>4 DEF Release, InFlightId, IdQueued
<1>5. CASE PollAsks \/ AsksVersion \/ OtherSends
  <2>1. UNCHANGED tx
    BY <1>5 DEF PollAsks, AsksVersion, OtherSends
  <2>2. PICK r \in Requests : r.kind # "id" /\ \E sem : Enqueue(r, sem)
    BY <1>5, RequestsInRing, RequestTypes DEF PollAsks, AsksVersion, OtherSends, SendSync
  <2> QED
    BY <2>1, <2>2, IdEnqueued DEF InFlightId
<1>6. CASE DropStale
  <2>1. queue # <<>> /\ queue' = Tail(queue) /\ UNCHANGED tx
    BY <1>6 DEF DropStale
  <2> QED
    BY <2>1, IdDequeued DEF InFlightId
<1> QED
  BY <1>1, <1>2, <1>3, <1>4, <1>5, <1>6
     DEF Next, vars, TxStep, RxStep, RtStep, World, RxCaptures, RxSignals, NothingToPoll,
         Returns, GivesUp, ProbeRests, FindsController, AsksAgainLater, Verdict, Select, Drop,
         Connect, Prints, call

Probing   == rt \in {"id", "idDone", "fw", "fwDone"}
AsksForFw == rt \in {"fw", "fwDone"}

\* What the answers of the probe that is under way say, and that a link which
\* has not been probed passes for unknown.
ProbeTells ==
    /\ Probing => ~Settled /\ (~NewLink => ready)
    /\ ~ready /\ ~NewLink => peer = "unknown"
    /\ rt \in {"id", "idDone"} /\ ~NewLink /\ probe.idValid => probe.id = attached
    /\ AsksForFw /\ ~NewLink /\ probe.hw # None => probe.hw = attached /\ attached # Silent
    /\ AsksForFw /\ ~past.overtaken => ~IdPending
    /\ AsksForFw /\ ~past.overtaken /\ ~NewLink /\ probe.answered =>
           probe.hw # None \/ Unreported

PeerInv == FromAttached /\ ProbeTells /\ PeerIsAttached

LEMMA PeerInit == Init => PeerInv
BY FromInit DEF Unreported, Init, PeerInv, ProbeTells, PeerIsAttached, Probing, AsksForFw, Settled, NewLink

\* Steps that touch neither the link nor what the probe knows.
LEMMA PeerUntouched ==
    ASSUME TypeOK, PeerInv, [Next]_vars, ~ProbeAsks,
           UNCHANGED <<attached, ready, drops, seenDrops, rt, probe, peer, peerId>>,
           past'.overtaken = past.overtaken
    PROVE  ProbeTells' /\ PeerIsAttached'
<1>1. ~IdPending => ~IdPending'
  BY NoNewId
<1>2. (NewLink' <=> NewLink) /\ (Settled' <=> Settled)
  BY DEF NewLink, Settled
<1> QED
  BY <1>1, <1>2 DEF Unreported, PeerInv, ProbeTells, PeerIsAttached, Probing, AsksForFw

\* Steps of the poll task outside the probe.
LEMMA PeerOutside ==
    ASSUME PeerInv, rt' \in {"polls", "poll", "probes"},
           UNCHANGED <<attached, ready, drops, seenDrops, peer, peerId>>,
           past'.overtaken = past.overtaken
    PROVE  ProbeTells' /\ PeerIsAttached'
<1>1. ~Probing' /\ ~AsksForFw' /\ rt' \notin {"id", "idDone"}
  BY DEF Probing, AsksForFw
<1>2. NewLink' <=> NewLink
  BY DEF NewLink
<1> QED
  BY <1>1, <1>2 DEF Unreported, PeerInv, ProbeTells, PeerIsAttached

\* The end of a wait.
LEMMA PeerWaitEnds ==
    ASSUME TypeOK, PeerInv, [Next]_vars, rt # "probes", Waiting, WaitEnds(rt),
           UNCHANGED <<attached, ready, drops, seenDrops, probe, past, peer, peerId>>
    PROVE  ProbeTells' /\ PeerIsAttached'
<1>1. ~IdPending => ~IdPending'
  BY NoNewId DEF ProbeAsks
<1>2. (NewLink' <=> NewLink) /\ (Settled' <=> Settled)
  BY DEF NewLink, Settled
<1>3. /\ Probing' => Probing
      /\ AsksForFw' => AsksForFw
      /\ rt' \in {"id", "idDone"} => rt \in {"id", "idDone"}
  BY WaitEndsTo DEF Waiting, Probing, AsksForFw
<1> QED
  BY <1>1, <1>2, <1>3 DEF Unreported, PeerInv, ProbeTells, PeerIsAttached

\* An answer that is captured.  Without an id probe pending, the probe is
\* answered by the firmware version alone.
LEMMA PeerCaptures == TypeOK /\ PeerInv /\ RxCaptures => ProbeTells' /\ PeerIsAttached'
<1> SUFFICES ASSUME TypeOK, PeerInv, RxCaptures
             PROVE  ProbeTells' /\ PeerIsAttached'
  OBVIOUS
<1>1. UNCHANGED <<attached, ready, drops, seenDrops, rt, peer, peerId, tx, queue>>
  BY DEF RxCaptures, link, call
<1>2. /\ NewLink' <=> NewLink
      /\ Settled' <=> Settled
      /\ IdPending' <=> IdPending
      /\ Probing' <=> Probing
      /\ AsksForFw' <=> AsksForFw
  BY <1>1 DEF NewLink, Settled, IdPending, Probing, AsksForFw
<1>3. Head(wire).from = attached /\ attached # Silent /\ attached # None
  BY VescBleLinkAssumption DEF TypeOK, RxCaptures, PeerInv, FromAttached
<1>4. past'.overtaken = past.overtaken
  BY DEF TypeOK, RxCaptures, Capture
<1>5. PeerIsAttached'
  BY <1>1, <1>2, <1>4 DEF Unreported, PeerInv, PeerIsAttached
<1>6. \/ probe' = probe
      \/ /\ InflightKind = "id"
         /\ probe' = [probe EXCEPT !.answered = TRUE, !.idValid = TRUE, !.id = attached]
      \/ probe' = [probe EXCEPT !.answered = TRUE, !.hw = ReportedBy(attached)]
  BY <1>3 DEF RxCaptures, Capture
<1>7. InflightKind = "id" => IdPending
  BY DEF InflightKind, IdPending
<1>8. /\ probe'.idValid => probe'.id = attached \/ (probe.idValid /\ probe'.id = probe.id)
      /\ probe'.hw = probe.hw \/ probe'.hw = attached \/ probe'.hw = None
      /\ probe'.answered /\ ~IdPending =>
             \/ probe'.hw = attached
             \/ Unreported
             \/ probe.answered /\ probe'.hw = probe.hw
  BY <1>6, <1>7 DEF TypeOK, ReportedBy, Unreported
<1> QED
  BY <1>1, <1>2, <1>3, <1>4, <1>5, <1>8 DEF Unreported, PeerInv, ProbeTells

LEMMA ProbeStep == TypeOK /\ PeerInv /\ [Next]_vars => ProbeTells' /\ PeerIsAttached'
<1> SUFFICES ASSUME TypeOK, PeerInv, [Next]_vars
             PROVE  ProbeTells' /\ PeerIsAttached'
  OBVIOUS
<1>1. CASE Serve
  <2>1. past'.overtaken = past.overtaken
    BY <1>1 DEF TypeOK, Serve
  <2>2. ~ProbeAsks
    BY <1>1 DEF Serve, ProbeAsks
  <2> QED
    BY <1>1, <2>1, <2>2, PeerUntouched DEF Serve, link
<1>2. CASE \/ Answered \/ TimesOut \/ Release \/ RxSignals
           \/ OtherSends \/ DropStale \/ Prints \/ UNCHANGED vars
  <2>1. UNCHANGED <<attached, ready, drops, seenDrops, rt, probe, peer, peerId, past>>
    BY <1>2 DEF Answered, TimesOut, Release, RxSignals, OtherSends, DropStale, Prints,
                vars, link, call, learn
  <2>2. ~ProbeAsks
    BY <2>1 DEF ProbeAsks
  <2> QED
    BY <2>1, <2>2, PeerUntouched
<1>3. CASE RxCaptures
  BY <1>3, PeerCaptures
<1>4. CASE PollAsks
  BY <1>4, PeerOutside DEF PollAsks, link, learn
<1>5. CASE NothingToPoll
  BY <1>5, PeerOutside DEF NothingToPoll, link, learn
<1>6. CASE Returns
  <2>1. rt # "probes"
    BY <1>6 DEF Returns, Waiting
  <2> QED
    BY <1>6, <2>1, PeerWaitEnds DEF Returns, link, learn
<1>7. CASE GivesUp
  <2>1. rt # "probes"
    BY <1>7 DEF GivesUp, Waiting
  <2> QED
    BY <1>7, <2>1, PeerWaitEnds DEF GivesUp, link, learn
<1>8. CASE ProbeRests
  <2>1. ~Probing' /\ ~AsksForFw' /\ rt' \notin {"id", "idDone"}
    BY <1>8 DEF ProbeRests, Probing, AsksForFw
  <2>2. CASE ready
    <3>1. UNCHANGED <<attached, ready, drops, peer, peerId, past>> /\ ~NewLink
      BY <1>8, <2>2 DEF ProbeRests, link
    <3> QED
      BY <2>1, <2>2, <3>1 DEF Unreported, PeerInv, ProbeTells, PeerIsAttached
  <2>3. CASE ~ready
    BY <1>8, <2>1, <2>3 DEF ProbeRests, ProbeReset, link, Unreported, ProbeTells, PeerIsAttached
  <2> QED
    BY <2>2, <2>3
<1>9. CASE ProbeAsks
  <2>1. rt' = "id" /\ ready /\ UNCHANGED <<ready, attached>> /\ ~NewLink'
    BY <1>9 DEF ProbeAsks, NewLink, link
  <2>2. ~Settled'
    BY <1>9 DEF ProbeAsks, Settled
  <2>3. ~probe'.idValid
    BY <1>9 DEF TypeOK, ProbeAsks
  <2> QED
    BY <2>1, <2>2, <2>3 DEF Unreported, ProbeTells, PeerIsAttached, Probing, AsksForFw, Settled
<1>10. CASE FindsController
  <2>1. UNCHANGED <<attached, ready, drops, seenDrops>> /\ rt' = "polls"
    BY <1>10 DEF FindsController, link
  <2>2. ~NewLink => probe.id = attached /\ ready
    BY <1>10 DEF FindsController, PeerInv, ProbeTells, Probing
  <2>3. peer' = "controller" /\ peerId' = probe.id
    BY <1>10 DEF FindsController
  <2> QED
    BY <2>1, <2>2, <2>3 DEF Unreported, ProbeTells, PeerIsAttached, Probing, AsksForFw, NewLink
<1>11. CASE AsksAgainLater
  BY <1>11, PeerOutside DEF AsksAgainLater, link, learn
<1>12. CASE AsksVersion
  <2>1. /\ UNCHANGED <<attached, ready, drops, seenDrops, peer, peerId>>
        /\ rt' = "fw" /\ rt = "idDone" /\ Enqueue(FwProbe, FALSE) /\ UNCHANGED tx
    BY <1>12 DEF AsksVersion, SendSync, link, learn
  <2>2. ~Settled /\ (~NewLink => ready)
    BY <2>1 DEF Unreported, PeerInv, ProbeTells, Probing
  <2>3. ~probe'.answered /\ probe'.hw = None /\ past'.overtaken = IdPending
    BY <1>12 DEF TypeOK, AsksVersion
  <2>4. ~IdPending => ~IdPending'
    BY <1>12, NoNewId DEF AsksVersion, ProbeAsks
  <2>5. PeerIsAttached'
    BY <2>1, <2>2 DEF Unreported, PeerIsAttached, Settled
  <2> QED
    BY <2>1, <2>2, <2>3, <2>4, <2>5
       DEF Unreported, PeerInv, ProbeTells, Probing, AsksForFw, NewLink, Settled
<1>13. CASE Verdict
  <2>1. /\ UNCHANGED <<attached, ready, drops, seenDrops, peerId, past, probe>>
        /\ rt' = "polls" /\ rt = "fwDone"
    BY <1>13 DEF Verdict, link
  <2>2. ~Settled /\ (~NewLink => ready)
    BY <2>1 DEF Unreported, PeerInv, ProbeTells, Probing
  <2>3. peer' = peer \/ peer' = "silent" \/ (peer' = "bridge" /\ probe.answered /\ ~SaysController)
    BY <1>13 DEF Verdict
  <2>4. ~past.overtaken /\ probe.answered /\ ~NewLink =>
            \/ probe.hw = attached /\ attached # Silent
            \/ Unreported
    BY <2>1 DEF PeerInv, ProbeTells, AsksForFw
  <2>5. attached \in Nodes \cup {Express, Silent}
    BY DEF TypeOK, Devices
  <2>6. PeerIsAttached'
    BY <2>1, <2>2, <2>3, <2>4, <2>5 DEF Unreported, PeerIsAttached, SaysController, NewLink, Settled
  <2> QED
    BY <2>1, <2>2, <2>6 DEF ProbeTells, Probing, AsksForFw, NewLink
<1>14. CASE Select
  <2>1. /\ UNCHANGED <<attached, ready, drops, seenDrops, rt, probe, peerId>>
        /\ peer' = "unknown"
    BY <1>14 DEF Select, ProbeReset
  <2>2. past'.overtaken = past.overtaken
    BY <1>14 DEF TypeOK, Select, ProbeReset
  <2>3. ~IdPending => ~IdPending'
    BY <1>14, NoNewId DEF Select, ProbeAsks
  <2> QED
    BY <2>1, <2>2, <2>3
       DEF Unreported, PeerInv, ProbeTells, PeerIsAttached, Probing, AsksForFw, NewLink, Settled
<1>15. CASE Drop
  <2>1. NewLink'
    BY <1>15 DEF TypeOK, Drop, NewLink, learn
  <2>2. UNCHANGED <<rt, probe, past, peer>>
    BY <1>15 DEF Drop, learn
  <2>3. ~IdPending => ~IdPending'
    BY <1>15, NoNewId DEF Drop, ProbeAsks
  <2> QED
    BY <2>1, <2>2, <2>3
       DEF Unreported, PeerInv, ProbeTells, PeerIsAttached, Probing, AsksForFw, Settled
<1>16. CASE Connect
  <2>1. UNCHANGED <<drops, seenDrops, rt, probe, past, peer, peerId>> /\ ready' /\ ~ready
    BY <1>16 DEF Connect, learn
  <2>2. ~NewLink => ~Probing /\ peer = "unknown"
    BY <2>1 DEF PeerInv, ProbeTells
  <2>3. ~IdPending => ~IdPending'
    BY <1>16, NoNewId DEF Connect, ProbeAsks
  <2> QED
    BY <2>1, <2>2, <2>3
       DEF Unreported, PeerInv, ProbeTells, PeerIsAttached, Probing, AsksForFw, Settled, NewLink
<1> QED
  BY <1>1, <1>2, <1>3, <1>4, <1>5, <1>6, <1>7, <1>8, <1>9, <1>10, <1>11, <1>12, <1>13,
     <1>14, <1>15, <1>16 DEF Next, TxStep, RxStep, RtStep, World

\* What the probe has learned is about the connection it was learned on, and
\* true of the device at its other end.
THEOREM ProbeTellsTheTruth == Spec => []PeerIsAttached
<1>1. Init => TypeOK /\ PeerInv
  BY TypeInit, PeerInit
<1>2. TypeOK /\ PeerInv /\ [Next]_vars => TypeOK' /\ PeerInv'
  BY TypeStep, FromStep, ProbeStep DEF PeerInv
<1>3. PeerInv => PeerIsAttached
  BY DEF PeerInv
<1> QED
  BY <1>1, <1>2, <1>3, PTL DEF Spec

-----------------------------------------------------------------------------
(* The answer to the id probe *)

OneOnWire == \A i, j \in DOMAIN wire : wire[i].what = "id" /\ wire[j].what = "id" => i = j
OneQueued == \A i, j \in DOMAIN queue : queue[i].kind = "id" /\ queue[j].kind = "id" => i = j

\* Unless a second probe went out too early, there is one id answer at most:
\* the one the probe in flight waits for, or one that is known to be late.
OneIdProbe ==
    ~past.crowded /\ ~past.cleared =>
        /\ OneOnWire /\ OneQueued
        /\ IdOnWire /\ ~InFlightId => lateId
        /\ IdOnWire /\ InFlightId => ~probe.idValid
        /\ IdQueued => ~probe.idValid /\ ~InFlightId

BlankInv == OneIdProbe /\ BlankNeedsTwoProbes

LEMMA BlankInit == Init => BlankInv
BY DEF Init, BlankInv, OneIdProbe, BlankNeedsTwoProbes, OneOnWire, OneQueued, IdOnWire,
       InFlightId, IdQueued

\* The ids after a request was put into the ring, and after one was taken out.
LEMMA OneEnqueued ==
    ASSUME TypeOK, NEW r \in Requests, NEW sem, Enqueue(r, sem), OneQueued,
           r.kind # "id" \/ ~IdQueued
    PROVE  OneQueued'
<1>1. queue \in Seq(Requests) /\ Len(queue) \in Nat
  BY DEF TypeOK
<1>2. CASE queue' = queue
  BY <1>2 DEF OneQueued
<1>3. CASE queue' = Append(queue, r)
  BY <1>1, <1>3 DEF OneQueued, IdQueued
<1> QED
  BY <1>2, <1>3 DEF Enqueue

LEMMA OneDequeued ==
    ASSUME TypeOK, queue # <<>>, queue' = Tail(queue), OneQueued
    PROVE  OneQueued' /\ (Head(queue).kind = "id" => ~IdQueued')
<1>1. queue \in Seq(Requests) /\ Len(queue) \in Nat \ {0}
  BY DEF TypeOK
<1>2. Head(queue) = queue[1] /\ 1 \in DOMAIN queue
  BY <1>1
<1>3. /\ DOMAIN queue = 1 .. Len(queue) /\ DOMAIN queue' = 1 .. (Len(queue) - 1)
      /\ \A i \in DOMAIN queue' : i + 1 \in DOMAIN queue /\ queue'[i] = queue[i + 1]
  BY <1>1
<1>4. \A i, j \in DOMAIN queue' : i + 1 = j + 1 => i = j
  BY <1>3
<1>5. \A i \in DOMAIN queue' : i + 1 # 1
  BY <1>3
<1>6. OneQueued'
  BY <1>3, <1>4 DEF OneQueued
<1>7. Head(queue).kind = "id" => ~IdQueued'
  BY <1>2, <1>3, <1>5 DEF OneQueued, IdQueued
<1> QED
  BY <1>6, <1>7

\* Fewer packets on the wire, or the same ones marked late.
LEMMA OneOnFewer ==
    ASSUME DOMAIN wire' \subseteq DOMAIN wire,
           \A i \in DOMAIN wire' : wire'[i].what = wire[i].what
    PROVE  (IdOnWire' => IdOnWire) /\ (OneOnWire => OneOnWire')
BY DEF IdOnWire, OneOnWire

\* A packet put on the wire.
LEMMA OneAppended ==
    ASSUME TypeOK, NEW p \in Packets, wire' = Append(wire, p)
    PROVE  /\ IdOnWire' => IdOnWire \/ p.what = "id"
           /\ OneOnWire /\ ~(IdOnWire /\ p.what = "id") => OneOnWire'
<1>1. wire \in Seq(Packets) /\ Len(wire) \in Nat
  BY DEF TypeOK
<1>2. /\ DOMAIN wire = 1 .. Len(wire) /\ DOMAIN wire' = 1 .. (Len(wire) + 1)
      /\ wire'[Len(wire) + 1] = p
      /\ \A i \in DOMAIN wire : wire'[i] = wire[i]
  BY <1>1
<1>3. \A i \in DOMAIN wire' : i \in DOMAIN wire \/ i = Len(wire) + 1
  BY <1>1, <1>2
<1> QED
  BY <1>2, <1>3 DEF IdOnWire, OneOnWire

\* The first packet taken off the wire.
LEMMA OneTaken ==
    ASSUME TypeOK, wire # <<>>, wire' = Tail(wire)
    PROVE  /\ IdOnWire' => IdOnWire
           /\ OneOnWire => OneOnWire'
           /\ OneOnWire /\ Head(wire).what = "id" => ~IdOnWire'
           /\ Head(wire).what = "id" => IdOnWire
<1>1. wire \in Seq(Packets) /\ Len(wire) \in Nat \ {0}
  BY DEF TypeOK
<1>2. Head(wire) = wire[1] /\ 1 \in DOMAIN wire
  BY <1>1
<1>3. /\ DOMAIN wire = 1 .. Len(wire) /\ DOMAIN wire' = 1 .. (Len(wire) - 1)
      /\ \A i \in DOMAIN wire' : i + 1 \in DOMAIN wire /\ wire'[i] = wire[i + 1]
  BY <1>1
<1>4. \A i, j \in DOMAIN wire' : i + 1 = j + 1 => i = j
  BY <1>3
<1>5. \A i \in DOMAIN wire' : i + 1 # 1
  BY <1>3
<1>6. OneOnWire => OneOnWire'
  BY <1>3, <1>4 DEF OneOnWire
<1>7. OneOnWire /\ Head(wire).what = "id" => ~IdOnWire'
  BY <1>2, <1>3, <1>5 DEF OneOnWire, IdOnWire
<1> QED
  BY <1>2, <1>3, <1>6, <1>7 DEF IdOnWire

\* Steps that bring no new id request or answer and keep the flags.
LEMMA BlankKept ==
    ASSUME BlankInv,
           IdOnWire' => IdOnWire, OneOnWire => OneOnWire',
           IdQueued' => IdQueued, OneQueued => OneQueued',
           InFlightId' <=> InFlightId,
           UNCHANGED lateId, probe'.idValid = probe.idValid,
           past'.crowded = past.crowded, past'.cleared = past.cleared,
           past'.blank = past.blank
    PROVE  BlankInv'
BY DEF BlankInv, OneIdProbe, BlankNeedsTwoProbes

\* Steps that leave the wire alone or put a print on it, or take from it.
LEMMA BlankQuiet ==
    ASSUME TypeOK, BlankInv, InFlightId' <=> InFlightId, UNCHANGED <<queue, lateId, probe, past>>,
           \/ UNCHANGED wire
           \/ \E n \in 0 .. Len(wire) : wire' = SubSeq(wire, 1, n)
           \/ wire' = Append(wire, Packet("print", attached))
    PROVE  BlankInv'
<1>1. wire \in Seq(Packets) /\ Len(wire) \in Nat
  BY DEF TypeOK
<1>2. (IdOnWire' => IdOnWire) /\ (OneOnWire => OneOnWire')
  <2>1. CASE UNCHANGED wire
    BY <2>1, OneOnFewer
  <2>2. CASE \E n \in 0 .. Len(wire) : wire' = SubSeq(wire, 1, n)
    BY <1>1, <2>2, OneOnFewer
  <2>3. CASE wire' = Append(wire, Packet("print", attached))
    BY <2>3, PacketTypes, OneAppended DEF TypeOK
  <2> QED
    BY <2>1, <2>2, <2>3
<1>3. (IdQueued' => IdQueued) /\ (OneQueued => OneQueued')
  BY DEF IdQueued, OneQueued
<1> QED
  BY <1>2, <1>3, BlankKept

\* Steps that enqueue a request which is not the id probe.
LEMMA BlankEnqueues ==
    ASSUME TypeOK, BlankInv, NEW r \in Requests, NEW sem, Enqueue(r, sem), r.kind # "id",
           UNCHANGED <<wire, tx, lateId>>, probe'.idValid = probe.idValid,
           past'.crowded = past.crowded, past'.cleared = past.cleared,
           past'.blank = past.blank
    PROVE  BlankInv'
<1>1. (IdOnWire' => IdOnWire) /\ (OneOnWire => OneOnWire') /\ (InFlightId' <=> InFlightId)
  BY DEF IdOnWire, OneOnWire, InFlightId
<1>2. (IdQueued' => IdQueued) /\ (OneQueued => OneQueued')
  BY IdEnqueued, OneEnqueued
<1> QED
  BY <1>1, <1>2, BlankKept

LEMMA BlankServes == TypeOK /\ BlankInv /\ Serve => BlankInv'
<1> SUFFICES ASSUME TypeOK, BlankInv, Serve
             PROVE  BlankInv'
  OBVIOUS
<1> DEFINE r == Head(queue)
<1>1. /\ queue # <<>> /\ queue' = Tail(queue) /\ tx.at = "idle"
      /\ tx'.at # "idle" /\ tx'.req = r
      /\ probe' = probe
  BY DEF Serve
<1>2. r \in Requests /\ (r.kind = "id") = (r.what = "id")
  BY <1>1, IdDequeued, RequestFields
<1>3. ~InFlightId /\ (InFlightId' <=> r.kind = "id")
  BY <1>1 DEF InFlightId
<1>4. (r.kind # "id" => lateId' = lateId) /\ past'.blank = past.blank /\ past'.cleared = past.cleared
  BY DEF TypeOK, Serve
<1>5. past'.crowded <=> past.crowded \/ (r.kind = "id" /\ IdOnWire)
  BY DEF TypeOK, Serve
<1>6. /\ IdOnWire' => IdOnWire \/ r.what = "id"
      /\ OneOnWire /\ ~(IdOnWire /\ r.what = "id") => OneOnWire'
  <2>1. CASE UNCHANGED wire
    BY <2>1 DEF IdOnWire, OneOnWire
  <2>2. CASE Answers(attached, r, Wraps(r)) /\ wire' = Append(wire, Packet(r.what, attached))
    <3>1. r.what \in {"poll", "id", "fw"}
      BY <1>2, <2>2, RequestFields DEF Answers
    <3>2. Packet(r.what, attached) \in Packets /\ Packet(r.what, attached).what = r.what
      BY <3>1, PacketTypes DEF TypeOK
    <3> QED
      BY <2>2, <3>2, OneAppended
  <2> QED
    BY <2>1, <2>2 DEF Serve
<1>7. /\ IdQueued' => IdQueued
      /\ OneQueued => OneQueued' /\ (r.kind = "id" => ~IdQueued')
      /\ r.kind = "id" => IdQueued
  BY <1>1, IdDequeued, OneDequeued
<1> HIDE DEF r
<1>8. SUFFICES ASSUME ~past'.crowded, ~past'.cleared
               PROVE  /\ OneOnWire' /\ OneQueued'
                      /\ IdOnWire' /\ ~InFlightId' => lateId'
                      /\ IdOnWire' /\ InFlightId' => ~probe'.idValid
                      /\ IdQueued' => ~probe'.idValid /\ ~InFlightId'
                      /\ ~past'.blank
  BY <1>4, <1>5 DEF BlankInv, OneIdProbe, BlankNeedsTwoProbes
<1>9. /\ OneOnWire /\ OneQueued /\ ~past.blank
      /\ IdOnWire => lateId
      /\ IdQueued => ~probe.idValid
      /\ ~(r.kind = "id" /\ IdOnWire)
  BY <1>3, <1>4, <1>5, <1>8 DEF BlankInv, OneIdProbe, BlankNeedsTwoProbes
<1> QED
  BY <1>1, <1>2, <1>3, <1>4, <1>6, <1>7, <1>9

LEMMA BlankReleases == TypeOK /\ BlankInv /\ Release => BlankInv'
<1> SUFFICES ASSUME TypeOK, BlankInv, Release
             PROVE  BlankInv'
  OBVIOUS
<1>1. /\ ~InFlightId' /\ UNCHANGED <<queue, probe, past>>
      /\ wire' = [i \in DOMAIN wire |-> Late(wire[i])]
      /\ InFlightId <=> tx.req.kind = "id"
      /\ lateId' <=> lateId \/ (tx.req.kind = "id" /\ ~probe.idValid)
  BY DEF Release, InFlightId, LateIdAfter
<1>2. wire \in Seq(Packets) /\ \A i \in DOMAIN wire : wire[i] \in Packets
  BY DEF TypeOK
<1>3. \A i \in DOMAIN wire : wire'[i].what = wire[i].what
  BY <1>1, <1>2, LateType
<1>4. (IdOnWire' => IdOnWire) /\ (OneOnWire => OneOnWire')
  BY <1>1, <1>3, OneOnFewer
<1>5. (IdQueued' <=> IdQueued) /\ (OneQueued' <=> OneQueued)
  BY <1>1 DEF IdQueued, OneQueued
<1> QED
  BY <1>1, <1>4, <1>5 DEF BlankInv, OneIdProbe, BlankNeedsTwoProbes

LEMMA BlankCaptures == TypeOK /\ BlankInv /\ RxCaptures => BlankInv'
<1> SUFFICES ASSUME TypeOK, BlankInv, RxCaptures
             PROVE  BlankInv'
  OBVIOUS
<1>1. wire # <<>> /\ wire' = Tail(wire) /\ UNCHANGED <<queue, tx>>
  BY DEF RxCaptures, call
<1>2. /\ IdOnWire' => IdOnWire
      /\ OneOnWire => OneOnWire'
      /\ OneOnWire /\ Head(wire).what = "id" => ~IdOnWire'
      /\ Head(wire).what = "id" => IdOnWire
  BY <1>1, OneTaken
<1>3. /\ IdQueued' <=> IdQueued
      /\ OneQueued' <=> OneQueued
      /\ InFlightId' <=> InFlightId
  BY <1>1 DEF IdQueued, OneQueued, InFlightId
<1>4. InflightKind = "id" <=> InFlightId
  BY DEF InflightKind, InFlightId
<1>5. past'.crowded = past.crowded /\ past'.cleared = past.cleared
  BY DEF TypeOK, RxCaptures, Capture
<1>6. CASE Head(wire).what = "id" /\ InflightKind = "id"
  <2>1. UNCHANGED <<lateId, past>>
    BY <1>6 DEF RxCaptures, Capture
  <2> QED
    BY <1>2, <1>3, <1>4, <1>6, <2>1 DEF BlankInv, OneIdProbe, BlankNeedsTwoProbes
<1>7. CASE Head(wire).what = "id" /\ InflightKind # "id"
  <2>1. probe' = probe /\ (past'.blank <=> past.blank \/ ~lateId)
    BY <1>7 DEF TypeOK, RxCaptures, Capture
  <2> QED
    BY <1>2, <1>3, <1>4, <1>5, <1>7, <2>1 DEF BlankInv, OneIdProbe, BlankNeedsTwoProbes
<1>8. CASE Head(wire).what # "id"
  <2>1. UNCHANGED <<lateId, past>> /\ probe'.idValid = probe.idValid
    BY <1>8 DEF TypeOK, RxCaptures, Capture
  <2> QED
    BY <1>2, <1>3, <2>1, BlankKept
<1> QED
  BY <1>6, <1>7, <1>8

\* The settings screen, or a link that is down, makes the poll task forget.
LEMMA BlankResets ==
    ASSUME TypeOK, BlankInv, ProbeReset, UNCHANGED <<wire, queue, tx, probe>>
    PROVE  BlankInv'
<1>1. /\ past'.cleared <=> past.cleared \/ IdOnWire
      /\ past'.crowded = past.crowded
      /\ past'.blank = past.blank
  BY DEF TypeOK, ProbeReset
<1>2. /\ IdOnWire' <=> IdOnWire
      /\ OneOnWire' <=> OneOnWire
      /\ IdQueued' <=> IdQueued
      /\ OneQueued' <=> OneQueued
      /\ InFlightId' <=> InFlightId
  BY DEF IdOnWire, OneOnWire, IdQueued, OneQueued, InFlightId
<1> QED
  BY <1>1, <1>2 DEF BlankInv, OneIdProbe, BlankNeedsTwoProbes

LEMMA BlankAsks == TypeOK /\ BlankInv /\ ProbeAsks => BlankInv'
<1> SUFFICES ASSUME TypeOK, BlankInv, ProbeAsks
             PROVE  BlankInv'
  OBVIOUS
<1>1. /\ past'.crowded <=> past.crowded \/ IdPending
      /\ past'.cleared <=> past.cleared \/ (NewLink /\ IdOnWire)
      /\ past'.blank = past.blank
      /\ ~probe'.idValid
  BY DEF TypeOK, ProbeAsks
<1>2. Enqueue(IdProbe, FALSE) /\ UNCHANGED <<wire, tx>> /\ (~NewLink => lateId' = lateId)
  BY DEF ProbeAsks, SendSync
<1>3. /\ IdOnWire' <=> IdOnWire
      /\ OneOnWire' <=> OneOnWire
      /\ InFlightId' <=> InFlightId
  BY <1>2 DEF IdOnWire, OneOnWire, InFlightId
<1>4. ~IdPending => ~IdQueued /\ ~InFlightId
  BY IdPendingParts
<1>5. ~IdQueued /\ OneQueued => OneQueued'
  BY <1>2, RequestsInRing, OneEnqueued
<1> QED
  BY <1>1, <1>2, <1>3, <1>4, <1>5 DEF BlankInv, OneIdProbe, BlankNeedsTwoProbes

LEMMA BlankStep == TypeOK /\ BlankInv /\ [Next]_vars => BlankInv'
<1> SUFFICES ASSUME TypeOK, BlankInv, [Next]_vars
             PROVE  BlankInv'
  OBVIOUS
<1>1. CASE Serve
  BY <1>1, BlankServes
<1>2. CASE Answered \/ TimesOut
  <2>1. UNCHANGED <<queue, lateId, probe, past, wire>> /\ tx' = [tx EXCEPT !.at = "ended"]
        /\ tx.at = "waits"
    BY <1>2 DEF Answered, TimesOut, call, learn
  <2>2. InFlightId' <=> InFlightId
    BY <2>1, TxTypes DEF InFlightId
  <2> QED
    BY <2>1, <2>2, BlankQuiet
<1>3. CASE Release
  BY <1>3, BlankReleases
<1>4. CASE RxCaptures
  BY <1>4, BlankCaptures
<1>5. CASE \/ RxSignals \/ NothingToPoll \/ Returns \/ GivesUp \/ FindsController
           \/ AsksAgainLater \/ Verdict \/ Connect \/ Drop \/ Prints \/ UNCHANGED vars
  <2>1. UNCHANGED <<queue, tx, lateId, probe, past>>
    BY <1>5 DEF RxSignals, NothingToPoll, Returns, GivesUp, FindsController, AsksAgainLater,
                Verdict, Connect, Drop, Prints, vars, call, learn
  <2>2. \/ UNCHANGED wire
        \/ \E n \in 0 .. Len(wire) : wire' = SubSeq(wire, 1, n)
        \/ wire' = Append(wire, Packet("print", attached))
    BY <1>5 DEF RxSignals, NothingToPoll, Returns, GivesUp, FindsController, AsksAgainLater,
                Verdict, Connect, Drop, Prints, vars
  <2>3. InFlightId' <=> InFlightId
    BY <2>1 DEF InFlightId
  <2> QED
    BY <2>1, <2>2, <2>3, BlankQuiet
<1>6. CASE PollAsks \/ AsksVersion \/ OtherSends
  <2>1. PICK r \in Requests : r.kind # "id" /\ \E sem : Enqueue(r, sem)
    BY <1>6, RequestsInRing, RequestTypes DEF PollAsks, AsksVersion, OtherSends, SendSync
  <2>2. /\ UNCHANGED <<wire, tx, lateId>> /\ probe'.idValid = probe.idValid
        /\ past'.crowded = past.crowded /\ past'.cleared = past.cleared
        /\ past'.blank = past.blank
    BY <1>6 DEF TypeOK, PollAsks, AsksVersion, OtherSends, learn
  <2> QED
    BY <2>1, <2>2, BlankEnqueues
<1>7. CASE ProbeRests
  <2>1. CASE ready
    <3>1. UNCHANGED <<queue, tx, lateId, probe, past, wire>>
      BY <1>7, <2>1 DEF ProbeRests, call
    <3>2. InFlightId' <=> InFlightId
      BY <3>1 DEF InFlightId
    <3> QED
      BY <3>1, <3>2, BlankQuiet
  <2>2. CASE ~ready
    BY <1>7, <2>2, BlankResets DEF ProbeRests, call
  <2> QED
    BY <2>1, <2>2
<1>8. CASE ProbeAsks
  BY <1>8, BlankAsks
<1>9. CASE DropStale
  <2>1. queue # <<>> /\ queue' = Tail(queue) /\ UNCHANGED <<wire, tx, lateId, probe, past>>
    BY <1>9 DEF DropStale, learn
  <2>2. (IdOnWire' => IdOnWire) /\ (OneOnWire => OneOnWire') /\ (InFlightId' <=> InFlightId)
    BY <2>1 DEF IdOnWire, OneOnWire, InFlightId
  <2>3. (IdQueued' => IdQueued) /\ (OneQueued => OneQueued')
    BY <2>1, IdDequeued, OneDequeued
  <2> QED
    BY <2>1, <2>2, <2>3, BlankKept
<1>10. CASE Select
  BY <1>10, BlankResets DEF Select, call
<1> QED
  BY <1>1, <1>2, <1>3, <1>4, <1>5, <1>6, <1>7, <1>8, <1>9, <1>10
     DEF Next, TxStep, RxStep, RtStep, World

\* The answer to the id probe reaches the telemetry parser only when a second
\* probe went out before the first was done with, or the flag was cleared.
THEOREM IdAnswerIsNobodysTelemetry == Spec => []BlankNeedsTwoProbes
<1>1. Init => TypeOK /\ BlankInv
  BY TypeInit, BlankInit
<1>2. TypeOK /\ BlankInv /\ [Next]_vars => TypeOK' /\ BlankInv'
  BY TypeStep, BlankStep
<1>3. BlankInv => BlankNeedsTwoProbes
  BY DEF BlankInv
<1> QED
  BY <1>1, <1>2, <1>3, PTL DEF Spec

-----------------------------------------------------------------------------
(* Replies *)

\* No reply, a late one, or the reply to the request that t serves.
OwnAnswer(p, t) ==
    p = None \/ p.late \/ p.what = "print" \/ (t.at # "idle" /\ p.what = t.req.what)

RepliesInStep ==
    /\ \A i \in DOMAIN wire : OwnAnswer(wire[i], tx)
    /\ OwnAnswer(rx, tx)
    /\ tx.at = "waits" /\ replySem # None => replySem.late \/ replySem.what = tx.req.what

LEMMA RepliesInit == Init => RepliesInStep
BY DEF Init, RepliesInStep, OwnAnswer

\* What is taken off the wire, or comes from the script, keeps replies in step.
LEMMA RepliesKept ==
    ASSUME TypeOK, RepliesInStep, tx'.req = tx.req, tx'.at = "idle" <=> tx.at = "idle",
           tx'.at = "waits" => tx.at = "waits", replySem' \in {replySem, None},
           rx' \in {rx, None},
           \/ UNCHANGED wire
           \/ \E n \in 0 .. Len(wire) : wire' = SubSeq(wire, 1, n)
           \/ wire' = Append(wire, Packet("print", attached))
    PROVE  RepliesInStep'
<1>1. wire \in Seq(Packets) /\ Len(wire) \in Nat
  BY DEF TypeOK
<1>2. Packet("print", attached).what = "print"
  BY DEF Packet
<1>3. \A i \in DOMAIN wire' : (i \in DOMAIN wire /\ wire'[i] = wire[i]) \/ wire'[i].what = "print"
  <2>1. CASE UNCHANGED wire
    BY <2>1
  <2>2. CASE \E n \in 0 .. Len(wire) : wire' = SubSeq(wire, 1, n)
    BY <1>1, <2>2
  <2>3. CASE wire' = Append(wire, Packet("print", attached))
    BY <1>1, <1>2, <2>3
  <2> QED
    BY <2>1, <2>2, <2>3
<1>4. \A i \in DOMAIN wire' : OwnAnswer(wire'[i], tx')
  BY <1>3 DEF RepliesInStep, OwnAnswer
<1> QED
  BY <1>4 DEF RepliesInStep, OwnAnswer

LEMMA RepliesStep == TypeOK /\ RepliesInStep /\ [Next]_vars => RepliesInStep'
<1> SUFFICES ASSUME TypeOK, RepliesInStep, [Next]_vars
             PROVE  RepliesInStep'
  OBVIOUS
<1>0. wire \in Seq(Packets) /\ Len(wire) \in Nat
  BY DEF TypeOK
<1>1. CASE Serve
  <2> DEFINE r == Head(queue)
  <2>1. tx.at = "idle" /\ tx'.at # "idle" /\ tx'.req = r /\ replySem' = None /\ rx' = rx
    BY <1>1 DEF Serve, Drained
  <2>2. /\ \A i \in DOMAIN wire : wire[i] = None \/ wire[i].late \/ wire[i].what = "print"
        /\ rx = None \/ rx.late \/ rx.what = "print"
    BY <2>1 DEF RepliesInStep, OwnAnswer
  <2>3. \A i \in DOMAIN wire' : OwnAnswer(wire'[i], tx')
    <3>1. CASE UNCHANGED wire
      BY <2>2, <3>1 DEF OwnAnswer
    <3>2. CASE wire' = Append(wire, Packet(r.what, attached))
      <4>1. Packet(r.what, attached).what = r.what
        BY DEF Packet
      <4>2. \A i \in DOMAIN wire' : \/ i \in DOMAIN wire /\ wire'[i] = wire[i]
                                    \/ wire'[i] = Packet(r.what, attached)
        BY <1>0, <3>2
      <4> QED
        BY <2>1, <2>2, <4>1, <4>2 DEF OwnAnswer
    <3> QED
      BY <1>1, <3>1, <3>2 DEF Serve
  <2> QED
    BY <2>1, <2>2, <2>3 DEF RepliesInStep, OwnAnswer
<1>2. CASE Answered \/ TimesOut
  <2>1. /\ tx' = [tx EXCEPT !.at = "ended"] /\ tx.at = "waits"
        /\ UNCHANGED <<wire, rx>> /\ replySem' \in {replySem, None}
    BY <1>2 DEF Answered, TimesOut
  <2>2. tx'.at = "ended" /\ tx'.req = tx.req
    BY <2>1, TxTypes
  <2> QED
    BY <2>1, <2>2, RepliesKept
<1>3. CASE Release
  <2>1. /\ wire' = [i \in DOMAIN wire |-> Late(wire[i])] /\ rx' = Late(rx) /\ tx'.at = "idle"
    BY <1>3 DEF Release
  <2>2. \A p \in Packets : p # None => Late(p).late
    BY LateType
  <2>3. rx # None => rx \in Packets
    BY DEF TypeOK
  <2>4. rx' # None => rx'.late
    BY <2>1, <2>2, <2>3 DEF Late
  <2>5. \A i \in DOMAIN wire : wire[i] \in Packets
    BY <1>0
  <2>6. \A i \in DOMAIN wire' : OwnAnswer(wire'[i], tx')
    BY <2>1, <2>2, <2>5 DEF OwnAnswer, Late
  <2> QED
    BY <2>1, <2>4, <2>6 DEF RepliesInStep, OwnAnswer
<1>4. CASE RxCaptures
  <2>1. wire # <<>> /\ rx' = Head(wire) /\ wire' = Tail(wire) /\ UNCHANGED <<tx, replySem>>
    BY <1>4 DEF RxCaptures
  <2>2. Head(wire) = wire[1] /\ 1 \in DOMAIN wire
    BY <1>0, <2>1
  <2>3. \A i \in DOMAIN wire' : i + 1 \in DOMAIN wire /\ wire'[i] = wire[i + 1]
    BY <1>0, <2>1
  <2> QED
    BY <2>1, <2>2, <2>3 DEF RepliesInStep, OwnAnswer
<1>5. CASE RxSignals
  <2>1. UNCHANGED <<wire, tx>> /\ rx # None /\ rx' = None
    BY <1>5 DEF RxSignals
  <2>2. replySem' = replySem \/ (replySem' = rx /\ rx.what # "print")
    BY <1>5 DEF RxSignals, Completes
  <2> QED
    BY <2>1, <2>2 DEF RepliesInStep, OwnAnswer
<1>6. CASE Drop \/ Prints
  <2>1. UNCHANGED <<tx, replySem, rx>>
    BY <1>6 DEF Drop, Prints, call
  <2>2. \/ \E n \in 0 .. Len(wire) : wire' = SubSeq(wire, 1, n)
        \/ wire' = Append(wire, Packet("print", attached))
    BY <1>6 DEF Drop, Prints
  <2> QED
    BY <2>1, <2>2, RepliesKept
<1>7. CASE UNCHANGED <<tx, replySem, rx, wire>>
  BY <1>7, RepliesKept
<1> QED
  BY <1>1, <1>2, <1>3, <1>4, <1>5, <1>6, <1>7
     DEF Next, vars, TxStep, RxStep, RtStep, World, PollAsks, NothingToPoll, Returns, GivesUp,
         ProbeRests, ProbeAsks, FindsController, AsksAgainLater, AsksVersion, Verdict,
         OtherSends, DropStale, Select, Connect, call

\* A wait for a reply is ended by the reply to the request that waits; only a
\* reply that is late itself can be mistaken for it.
THEOREM WaitsEndInStep == Spec => WaitEndsByOwnAnswer
<1>1. Init => TypeOK /\ RepliesInStep
  BY TypeInit, RepliesInit
<1>2. TypeOK /\ RepliesInStep /\ [Next]_vars => TypeOK' /\ RepliesInStep'
  BY TypeStep, RepliesStep
<1>3. TypeOK /\ RepliesInStep /\ [Next]_vars =>
          [Answered => replySem.late \/ (replySem.what = tx.req.what)]_vars
  BY DEF RepliesInStep, Answered
<1> QED
  BY <1>1, <1>2, <1>3, PTL DEF Spec, WaitEndsByOwnAnswer

-----------------------------------------------------------------------------
(* The blocking calls *)

\* How many requests of a ring have a caller waiting.
WaitersIn(q) == {i \in DOMAIN q : q[i].waits}
One(b) == IF b THEN 1 ELSE 0

LEMMA WaitersFinite ==
    ASSUME NEW q \in Seq(Requests)
    PROVE  IsFiniteSet(WaitersIn(q)) /\ Cardinality(WaitersIn(q)) \in Nat
<1>1. DOMAIN q = 1 .. Len(q) /\ Len(q) \in Nat
  OBVIOUS
<1>2. IsFiniteSet(1 .. Len(q))
  BY <1>1, FS_Interval
<1>3. WaitersIn(q) \in SUBSET (1 .. Len(q))
  BY <1>1 DEF WaitersIn
<1>4. IsFiniteSet(WaitersIn(q))
  BY <1>2, <1>3, FS_Subset
<1> QED
  BY <1>4, FS_CardinalityType

LEMMA WaitersAppend ==
    ASSUME NEW q \in Seq(Requests), NEW r \in Requests
    PROVE  Cardinality(WaitersIn(Append(q, r))) = Cardinality(WaitersIn(q)) + One(r.waits)
<1> DEFINE p == Append(q, r)
           n == Len(q) + 1
<1>1. /\ DOMAIN q = 1 .. Len(q) /\ Len(q) \in Nat /\ DOMAIN p = 1 .. n
      /\ p[n] = r
      /\ \A i \in DOMAIN q : p[i] = q[i]
  OBVIOUS
<1>2. \A i \in DOMAIN p : i \in DOMAIN q \/ i = n
  BY <1>1
<1>3. n \notin DOMAIN q /\ n \in DOMAIN p /\ DOMAIN q \subseteq DOMAIN p
  BY <1>1
<1> HIDE DEF p, n
<1>4. IsFiniteSet(WaitersIn(q)) /\ Cardinality(WaitersIn(q)) \in Nat
  BY WaitersFinite
<1>5. CASE r.waits
  <2>1. WaitersIn(p) = WaitersIn(q) \cup {n} /\ n \notin WaitersIn(q)
    BY <1>1, <1>2, <1>3, <1>5 DEF WaitersIn
  <2> QED
    BY <1>4, <1>5, <2>1, FS_AddElement DEF One, p
<1>6. CASE ~r.waits
  <2>1. WaitersIn(p) = WaitersIn(q)
    BY <1>1, <1>2, <1>3, <1>6 DEF WaitersIn
  <2> QED
    BY <1>4, <1>6, <2>1 DEF One, p
<1> QED
  BY <1>5, <1>6

LEMMA WaitersTail ==
    ASSUME NEW q \in Seq(Requests), q # <<>>
    PROVE  Cardinality(WaitersIn(q)) = Cardinality(WaitersIn(Tail(q))) + One(Head(q).waits)
<1> DEFINE t == Tail(q)
           f == [i \in WaitersIn(t) |-> i + 1]
<1>1. /\ DOMAIN q = 1 .. Len(q) /\ Len(q) \in Nat \ {0} /\ DOMAIN t = 1 .. (Len(q) - 1)
      /\ Head(q) = q[1]
      /\ \A i \in DOMAIN t : t[i] = q[i + 1]
      /\ t \in Seq(Requests)
  OBVIOUS
<1> HIDE DEF t
<1>2. f \in [WaitersIn(t) -> WaitersIn(q) \ {1}]
  <2>1. \A i \in WaitersIn(t) : i + 1 \in DOMAIN q /\ q[i + 1].waits /\ i + 1 # 1
    BY <1>1 DEF WaitersIn
  <2> QED
    BY <2>1 DEF WaitersIn
<1>3. \A i, j \in WaitersIn(t) : f[i] = f[j] => i = j
  BY <1>1 DEF WaitersIn
<1>4. \A k \in WaitersIn(q) \ {1} : \E i \in WaitersIn(t) : f[i] = k
  <2> SUFFICES ASSUME NEW k \in WaitersIn(q) \ {1}
               PROVE  \E i \in WaitersIn(t) : f[i] = k
    OBVIOUS
  <2>1. k \in 2 .. Len(q) /\ q[k].waits
    BY <1>1 DEF WaitersIn
  <2>2. k - 1 \in DOMAIN t /\ t[k - 1] = q[k] /\ (k - 1) + 1 = k
    BY <1>1, <2>1
  <2>3. k - 1 \in WaitersIn(t)
    BY <2>1, <2>2 DEF WaitersIn
  <2> QED
    BY <2>2, <2>3
<1>5. f \in Bijection(WaitersIn(t), WaitersIn(q) \ {1})
  BY <1>2, <1>3, <1>4, Fun_IsBij
<1>6. IsFiniteSet(WaitersIn(t)) /\ Cardinality(WaitersIn(t)) \in Nat
  BY <1>1, WaitersFinite
<1>7. Cardinality(WaitersIn(q) \ {1}) = Cardinality(WaitersIn(t))
  BY <1>5, <1>6, FS_Bijection, Fun_ExistsBij
<1>8. IsFiniteSet(WaitersIn(q)) /\ Cardinality(WaitersIn(q)) \in Nat
  BY WaitersFinite
<1>9. Cardinality(WaitersIn(q) \ {1}) =
          IF 1 \in WaitersIn(q) THEN Cardinality(WaitersIn(q)) - 1
                                ELSE Cardinality(WaitersIn(q))
  BY <1>8, FS_RemoveElement
<1>10. 1 \in WaitersIn(q) <=> Head(q).waits
  BY <1>1 DEF WaitersIn
<1> QED
  BY <1>6, <1>7, <1>8, <1>9, <1>10 DEF One, t

LEMMA PendingIs ==
    ASSUME TypeOK
    PROVE  /\ Pending = One(tx.req.waits) + Cardinality(WaitersIn(queue))
           /\ Pending \in Nat
           /\ Cardinality(WaitersIn(queue)) \in Nat /\ One(tx.req.waits) \in Nat
<1>1. queue \in Seq(Requests)
  BY DEF TypeOK
<1>2. Cardinality(WaitersIn(queue)) \in Nat
  BY <1>1, WaitersFinite
<1>3. Pending = One(tx.req.waits) + Cardinality(WaitersIn(queue))
  BY DEF Pending, One, WaitersIn
<1> QED
  BY <1>2, <1>3 DEF One

LEMMA PendingIsNext ==
    ASSUME TypeOK'
    PROVE  /\ Pending' = One(tx'.req.waits) + Cardinality(WaitersIn(queue'))
           /\ Pending' \in Nat
           /\ Cardinality(WaitersIn(queue')) \in Nat /\ One(tx'.req.waits) \in Nat
<1>1. queue' \in Seq(Requests)
  BY DEF TypeOK
<1>2. Cardinality(WaitersIn(queue')) \in Nat
  BY <1>1, WaitersFinite
<1>3. Pending' = One(tx'.req.waits) + Cardinality(WaitersIn(queue'))
  BY DEF Pending, One, WaitersIn
<1> QED
  BY <1>2, <1>3 DEF One

\* A caller that is blocked has a request queued or served.
CallPending == Blocked => Pending >= 1

\* The owed requests change by what a step does to Pending and Blocked.
LEMMA SyncStutters ==
    ASSUME Pending' = Pending, Blocked' <=> Blocked
    PROVE  UNCHANGED Sync!syncVars
BY DEF Sync!syncVars, Blocked, Waiting

LEMMA SyncCalls ==
    ASSUME Pending \in Nat, Pending' = Pending + 1, ~Blocked, Blocked'
    PROVE  Sync!SyncNext /\ CallPending'
<1>1. Sync!Call
  BY DEF Sync!Call
<1> QED
  BY <1>1 DEF Sync!SyncNext, CallPending

LEMMA SyncGivesUp ==
    ASSUME Pending \in Nat, Pending' = Pending, Blocked, ~Blocked'
    PROVE  Sync!SyncNext
<1>1. Sync!GivenUp
  BY DEF Sync!GivenUp
<1> QED
  BY <1>1 DEF Sync!SyncNext, Sync!Return

LEMMA SyncReleases ==
    ASSUME Pending \in Nat, Pending' \in Nat, Pending' = Pending - 1, ~Blocked'
    PROVE  Sync!SyncNext
<1>1. CASE Blocked /\ Pending = 1
  <2>1. Sync!Completed
    BY <1>1 DEF Sync!Completed
  <2> QED
    BY <2>1 DEF Sync!SyncNext, Sync!Return
<1>2. CASE Blocked /\ Pending # 1
  <2>1. Sync!TakenFor
    BY <1>2 DEF Sync!TakenFor
  <2> QED
    BY <2>1 DEF Sync!SyncNext, Sync!Return
<1>3. CASE ~Blocked
  <2>1. Sync!Unclaimed
    <3>1. UNCHANGED Blocked
      BY <1>3 DEF Blocked, Waiting
    <3> QED
      BY <1>3, <3>1 DEF Sync!Unclaimed
  <2> QED
    BY <2>1 DEF Sync!SyncNext
<1> QED
  BY <1>1, <1>2, <1>3

\* A call: queued, it waits; with the ring full it returns at once.
LEMMA SendStep ==
    ASSUME TypeOK, TypeOK', NEW r \in Requests, r.waits = TRUE, SendSync(r), UNCHANGED tx,
           ~Waiting, Waiting'
    PROVE  [Sync!SyncNext]_(Sync!syncVars) /\ CallPending'
<1>1. ~Blocked
  BY DEF Blocked
<1>2. Pending \in Nat
  BY PendingIs
<1>3. CASE queue' = Append(queue, r) /\ ~callerSem'
  <2>1. queue \in Seq(Requests)
    BY DEF TypeOK
  <2>2. Cardinality(WaitersIn(queue')) = Cardinality(WaitersIn(queue)) + 1
    BY <1>3, <2>1, WaitersAppend DEF One
  <2>3. Pending' = Pending + 1
    BY <2>2, PendingIs, PendingIsNext
  <2>4. Blocked'
    BY <1>3 DEF Blocked
  <2> QED
    BY <1>1, <1>2, <2>3, <2>4, SyncCalls
<1>4. CASE UNCHANGED queue /\ callerSem'
  <2>1. Pending' = Pending
    BY <1>4 DEF Pending
  <2>2. ~Blocked'
    BY <1>4 DEF Blocked
  <2> QED
    BY <1>1, <2>1, <2>2, SyncStutters DEF CallPending
<1> QED
  BY <1>3, <1>4 DEF SendSync, Enqueue

\* A request nobody waits for comes or goes, or moves to the tx task.
LEMMA SyncQuiet ==
    ASSUME TypeOK, CallPending, Pending' = Pending, Blocked' <=> Blocked
    PROVE  [Sync!SyncNext]_(Sync!syncVars) /\ CallPending'
BY SyncStutters DEF CallPending

LEMMA SyncStep ==
    TypeOK /\ TypeOK' /\ CallPending /\ [Next]_vars =>
        [Sync!SyncNext]_(Sync!syncVars) /\ CallPending'
<1> SUFFICES ASSUME TypeOK, TypeOK', CallPending, [Next]_vars
             PROVE  [Sync!SyncNext]_(Sync!syncVars) /\ CallPending'
  OBVIOUS
<1>0. queue \in Seq(Requests) /\ Pending \in Nat /\ Pending' \in Nat
  BY PendingIs, PendingIsNext DEF TypeOK
<1>1. CASE Serve
  <2>1. /\ queue # <<>> /\ queue' = Tail(queue) /\ tx'.req = Head(queue)
        /\ tx.at = "idle" /\ UNCHANGED <<callerSem, rt>>
    BY <1>1 DEF Serve
  <2>2. tx.req.waits = FALSE
    BY <2>1, TxTypes
  <2>3. Pending' = Pending
    BY <1>0, <2>1, <2>2, WaitersTail, PendingIs, PendingIsNext DEF One
  <2> QED
    BY <2>1, <2>3, SyncQuiet DEF Blocked, Waiting
<1>2. CASE Answered \/ TimesOut
  <2>1. tx' = [tx EXCEPT !.at = "ended"] /\ tx.at = "waits" /\ UNCHANGED <<queue, callerSem, rt>>
    BY <1>2 DEF Answered, TimesOut, call
  <2>2. tx'.req = tx.req
    BY <2>1, TxTypes
  <2>3. Pending' = Pending
    BY <2>1, <2>2 DEF Pending
  <2> QED
    BY <2>1, <2>3, SyncQuiet DEF Blocked, Waiting
<1>3. CASE Release
  <2>1. /\ UNCHANGED <<queue, rt>> /\ tx'.req = NoRequest
        /\ callerSem' = (callerSem \/ tx.req.waits)
    BY <1>3 DEF Release
  <2>2. Pending' = Pending - One(tx.req.waits)
    BY <2>1, PendingIs, PendingIsNext, RequestTypes DEF One
  <2>3. CASE tx.req.waits
    <3>1. Pending' = Pending - 1
      BY <2>2, <2>3 DEF One
    <3>2. ~Blocked'
      BY <2>1, <2>3 DEF Blocked
    <3> QED
      BY <1>0, <3>1, <3>2, SyncReleases DEF CallPending
  <2>4. CASE ~tx.req.waits
    <3>1. Pending' = Pending
      BY <1>0, <2>2, <2>4 DEF One
    <3>2. Blocked' <=> Blocked
      BY <2>1, <2>4 DEF Blocked, Waiting
    <3> QED
      BY <3>1, <3>2, SyncQuiet
  <2> QED
    BY <2>3, <2>4
<1>4. CASE PollAsks
  <2>1. PICK n \in Nodes : SendSync(Poll(n))
    BY <1>4 DEF PollAsks
  <2>2. ~Waiting /\ Waiting' /\ UNCHANGED tx
    BY <1>4 DEF PollAsks, Waiting
  <2> QED
    BY <2>1, <2>2, SendStep, RequestsInRing, RequestTypes
<1>5. CASE ProbeAsks
  <2>1. ~Waiting /\ Waiting' /\ UNCHANGED tx /\ SendSync(IdProbe)
    BY <1>5 DEF ProbeAsks, Waiting
  <2> QED
    BY <2>1, SendStep, RequestsInRing, RequestTypes
<1>6. CASE AsksVersion
  <2>1. ~Waiting /\ Waiting' /\ UNCHANGED tx /\ SendSync(FwProbe)
    BY <1>6 DEF AsksVersion, Waiting
  <2> QED
    BY <2>1, SendStep, RequestsInRing, RequestTypes
<1>7. CASE Returns
  <2>1. callerSem /\ rt' \in {"probes", "idDone", "fwDone"} /\ UNCHANGED <<queue, tx>>
    BY <1>7, WaitEndsTo DEF Returns
  <2>2. ~Blocked /\ ~Blocked' /\ Pending' = Pending
    BY <2>1 DEF Blocked, Waiting, Pending
  <2> QED
    BY <2>2, SyncQuiet
<1>8. CASE GivesUp
  <2>1. /\ Waiting /\ ~callerSem /\ rt' \in {"probes", "idDone", "fwDone"}
        /\ UNCHANGED <<queue, tx>>
    BY <1>8, WaitEndsTo DEF GivesUp, call
  <2>2. Blocked /\ ~Blocked' /\ Pending' = Pending
    BY <2>1 DEF Blocked, Waiting, Pending
  <2> QED
    BY <1>0, <2>2, SyncGivesUp DEF CallPending
<1>9. CASE NothingToPoll \/ ProbeRests \/ FindsController \/ AsksAgainLater \/ Verdict
  <2>1. /\ rt \in {"polls", "probes", "idDone", "fwDone"} /\ rt' \in {"polls", "probes"}
        /\ UNCHANGED <<queue, tx>>
    BY <1>9 DEF NothingToPoll, ProbeRests, FindsController, AsksAgainLater, Verdict, call
  <2>2. ~Blocked /\ ~Blocked' /\ Pending' = Pending
    BY <2>1 DEF Blocked, Waiting, Pending
  <2> QED
    BY <2>2, SyncQuiet
<1>10. CASE OtherSends
  <2>1. PICK r \in {OtherFw, Setpoint} : Enqueue(r, callerSem)
    BY <1>10 DEF OtherSends
  <2>2. r \in Requests /\ r.waits = FALSE /\ callerSem \in BOOLEAN
    BY RequestsInRing, RequestTypes DEF TypeOK
  <2>3. UNCHANGED <<tx, rt>>
    BY <1>10 DEF OtherSends
  <2>4. Pending' = Pending
    <3>1. CASE queue' = queue
      BY <2>3, <3>1 DEF Pending
    <3>2. CASE queue' = Append(queue, r)
      BY <1>0, <2>2, <2>3, <3>2, WaitersAppend, PendingIs, PendingIsNext DEF One
    <3> QED
      BY <2>1, <3>1, <3>2 DEF Enqueue
  <2>5. callerSem' <=> callerSem
    BY <2>1, <2>2 DEF Enqueue
  <2> QED
    BY <2>3, <2>4, <2>5, SyncQuiet DEF Blocked, Waiting
<1>11. CASE DropStale
  <2>1. /\ queue # <<>> /\ queue' = Tail(queue) /\ Head(queue).what = "setpoint"
        /\ UNCHANGED <<tx, rt, callerSem>>
    BY <1>11 DEF DropStale
  <2>2. Head(queue) \in Requests
    BY <2>1, IdDequeued
  <2>3. ~Head(queue).waits
    BY <2>1, <2>2, RequestFields
  <2>4. Pending' = Pending
    BY <1>0, <2>1, <2>3, WaitersTail, PendingIs, PendingIsNext DEF One
  <2> QED
    BY <2>1, <2>4, SyncQuiet DEF Blocked, Waiting
<1>12. CASE \/ RxCaptures \/ RxSignals \/ Select \/ Drop \/ Connect \/ Prints
            \/ UNCHANGED vars
  <2>1. UNCHANGED <<queue, callerSem, tx, rt>>
    BY <1>12 DEF RxCaptures, RxSignals, Select, Drop, Connect, Prints, vars, call
  <2> QED
    BY <2>1, SyncQuiet DEF Blocked, Waiting, Pending
<1> QED
  BY <1>1, <1>2, <1>3, <1>4, <1>5, <1>6, <1>7, <1>8, <1>9, <1>10, <1>11, <1>12
     DEF Next, TxStep, RxStep, RtStep, World

LEMMA SyncStarts == Init => Sync!SyncInit /\ CallPending
<1> SUFFICES ASSUME Init
             PROVE  Sync!SyncInit /\ CallPending
  OBVIOUS
<1>1. ~Blocked
  BY DEF Init, Blocked, Waiting
<1>2. WaitersIn(queue) = {} /\ tx.req.waits = FALSE
  BY RequestTypes DEF Init, WaitersIn
<1>3. Cardinality(WaitersIn(queue)) = 0
  BY <1>2, FS_EmptySet
<1>4. Pending = 0
  BY <1>2, <1>3, TypeInit, PendingIs DEF One
<1> QED
  <2>1. Sync!SyncInit
    <3>1. (IF Blocked THEN 1 ELSE 0) = 0
      BY <1>1
    <3>2. Pending - (IF Blocked THEN 1 ELSE 0) = 0
      <4>1. \A a, b : a = 0 /\ b = 0 => a - b = 0
        OBVIOUS
      <4> QED
        BY <1>4, <3>1, <4>1, Zenon
    <3> QED
      BY <1>1, <3>2 DEF Sync!SyncInit
  <2>2. CallPending
    BY <1>1 DEF CallPending
  <2> QED
    BY <2>1, <2>2

\* The blocking calls of the poll task over the ring, the tx task and the two
\* semaphores do nothing that SyncCall does not allow: a call ends by its own
\* completion, by its timeout, or by the completion of one given up before.
THEOREM CallsAreSyncCalls == Spec => Sync!SyncSafety /\ []Sync!SyncTypeOK
<1>1. Init => TypeOK /\ CallPending /\ Sync!SyncInit
  BY TypeInit, SyncStarts
<1>2. TypeOK /\ CallPending /\ [Next]_vars =>
          TypeOK' /\ CallPending' /\ [Sync!SyncNext]_(Sync!syncVars)
  BY TypeStep, SyncStep
<1>3. TypeOK /\ CallPending => Sync!SyncTypeOK
  BY PendingIs DEF Sync!SyncTypeOK, CallPending, Blocked, Waiting
<1> QED
  BY <1>1, <1>2, <1>3, PTL DEF Spec, Sync!SyncSafety

=============================================================================
