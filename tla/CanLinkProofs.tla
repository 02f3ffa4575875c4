---------------------------- MODULE CanLinkProofs ----------------------------
(***************************************************************************)
(* Proofs about CanLink, for every value of its constants: any ring, any   *)
(* packet length, any number of requests, restarts and bus-offs.  First    *)
(* the types; then the frame being decoded is not overwritten, the driver  *)
(* is not removed while it is used, a packet decoded in a row is           *)
(* delivered, and two polls overlap only with an excuse.                   *)
(***************************************************************************)
EXTENDS CanLink, FiniteSetTheorems, WellFoundedInduction, TLAPS

-----------------------------------------------------------------------------
(* The operators *)

LEMMA SuccInRing == ASSUME NEW i \in Ring PROVE Succ(i) \in Ring
  BY CanLinkAssumption DEF Ring, Succ

\* A set of natural numbers that is not empty has a first element: of the sets of
\* elements below one of them, one is minimal.
LEMMA FirstIn ==
    ASSUME NEW S \in SUBSET Nat, S # {}
    PROVE  First(S) \in S
<1> DEFINE Below(i) == {k \in S : k < i}
           Belows == {Below(i) : i \in S}
<1>1. \A i \in S : Below(i) \in FiniteSubsetsOf(S)
  <2> SUFFICES ASSUME NEW i \in S PROVE IsFiniteSet(Below(i))
    BY DEF FiniteSubsetsOf
  <2>1. i \in Nat /\ Below(i) \in SUBSET Nat OBVIOUS
  <2>2. \A s \in Below(i) : s <= i
    <3> SUFFICES ASSUME NEW s \in S, s < i PROVE s <= i OBVIOUS
    <3> QED BY <2>1
  <2> HIDE DEF Below
  <2> QED BY <2>1, <2>2, FS_BoundedSetOfNaturals
<1>2. PICK X \in Belows : \A Y \in Belows : <<Y, X>> \notin StrictSubsetOrdering(S)
  <2>1. Belows \subseteq FiniteSubsetsOf(S) /\ Belows # {}
    <3> HIDE DEF Below
    <3> QED BY <1>1
  <2> HIDE DEF Belows
  <2> QED BY <2>1, FS_StrictSubsetOrderingWellFounded, WFMin
<1>3. PICK i \in S : X = Below(i)
  <2> HIDE DEF Below
  <2> QED OBVIOUS
<1>4. \A j \in S : i <= j
  <2> SUFFICES ASSUME NEW j \in S, j < i PROVE FALSE OBVIOUS
  <2>0. i \in Nat /\ j \in Nat /\ S \subseteq Nat OBVIOUS
  <2>1. Below(j) \subseteq Below(i)
    <3> SUFFICES ASSUME NEW k \in S, k < j PROVE k < i OBVIOUS
    <3> QED BY <2>0
  <2>5. j \in Below(i) OBVIOUS
  <2>6. j \notin Below(j) BY <2>0
  <2>2. Below(i) \subseteq S OBVIOUS
  <2>3. Below(j) \in Belows OBVIOUS
  <2> HIDE DEF Below, Belows
  <2>4. <<Below(j), X>> \in StrictSubsetOrdering(S)
    BY <2>1, <2>2, <2>5, <2>6, <1>3 DEF StrictSubsetOrdering
  <2> QED BY <2>3, <2>4, <1>2
<1> QED BY <1>4 DEF First

LEMMA FreeIsNoDest == Free \notin Dests
<1>1. \A d \in Dests : d \in Nat /\ d >= 0
  BY CanLinkAssumption DEF Dests, Broadcast
<1>2. Free \in Int /\ ~(Free >= 0)
  BY DEF Free
<1> QED BY <1>1, <1>2

-----------------------------------------------------------------------------
(* Types *)

Frames  == [pkt : Nat, part : Nat]
Packets == [of : Senders \cup {"request", "news"}, to : Dests, next : Nat]
Links   == [own : Ids, up : BOOLEAN, stopRx : BOOLEAN, rxRunning : BOOLEAN]
Polls   == [at : {"idle", "sending", "waiting"}, pkt : Nat]
Rings   == [slots : [Ring -> Frames], wr : Ring, rd : Ring]
Procs   == [at : {"idle", "decoding", "serving"}, slot : Ring, frame : Frames]
Parts   == [0 .. Chunks - 1 -> Nat]
Asms    == [owner : [Buffers -> Dests \cup {Free}], parts : [Buffers -> Parts]]
Pasts   == [run : [Dests -> Frames], missed : BOOLEAN, excuses : Nat]
Uses    == [polls : Nat, others : Nat, requests : Nat, changes : Nat, busoffs : Nat]

LifeTypes == /\ driver \in {"none", "running", "busoff", "recovering", "stopped"}
             /\ link \in Links
             /\ rx \in {"none", "created", "loop", "receiving"}
             /\ ctl \in {"idle", "stopping", "reinit", "install", "installed"}
SendTypes == /\ mutex \in Senders \cup {"none"}
             /\ tx \in [Senders -> {"idle", "waits", "sends"}]
             /\ poll \in Polls /\ done \in BOOLEAN
RecvTypes == ring \in Rings /\ proc \in Procs /\ asm \in Asms
PastTypes == packets \in Seq(Packets) /\ seen \in Pasts /\ used \in Uses

TypeInv == LifeTypes /\ SendTypes /\ RecvTypes /\ PastTypes

LEMMA TypeInit == Init => TypeInv
<1> SUFFICES ASSUME Init PROVE TypeInv OBVIOUS
<1> USE CanLinkAssumption
<1>1. First(Ids) \in Ids
  BY FirstIn
<1>2. LifeTypes
  BY <1>1 DEF Init, LifeTypes, Links
<1>3. SendTypes
  BY DEF Init, SendTypes, Polls
<1>4. RecvTypes
  BY DEF Init, RecvTypes, Rings, Procs, Asms, Parts, Frames, NoFrame, AtRest,
         NoParts, Ring
<1>5. PastTypes
  BY DEF Init, PastTypes, Pasts, Uses, Frames, NoFrame
<1> QED BY <1>2, <1>3, <1>4, <1>5 DEF TypeInv

\* What the actions have in common.
LEMMA DoneTypes == ASSUME TypeInv, FrameDone PROVE ring' \in Rings /\ proc' \in Procs
<1>1. AtRest \in Procs /\ NoFrame \in Frames
  BY CanLinkAssumption DEF AtRest, NoFrame, Procs, Frames, Ring
<1> QED BY <1>1 DEF TypeInv, RecvTypes, FrameDone, Rings, Procs

LEMMA StrayTypes == Stray \in Nat
  BY DEF Stray

LEMMA ReturnedTypes ==
    ASSUME TypeInv, NEW t \in Senders, NEW reply \in Nat, Returned(t, reply)
    PROVE  /\ tx' \in [Senders -> {"idle", "waits", "sends"}]
           /\ poll' \in Polls /\ done' \in BOOLEAN
           /\ ring' \in Rings /\ proc' \in Procs /\ seen' \in Pasts
<1>1. tx' \in [Senders -> {"idle", "waits", "sends"}]
  BY DEF TypeInv, SendTypes, Returned
<1>2. poll' \in Polls /\ done' \in BOOLEAN
  BY DEF TypeInv, SendTypes, Returned, Polls
<1>3. ring' \in Rings /\ proc' \in Procs
  BY DoneTypes DEF TypeInv, RecvTypes, Returned
<1>4. seen' \in Pasts
  BY StrayTypes DEF TypeInv, PastTypes, Returned, Pasts
<1> QED BY <1>1, <1>2, <1>3, <1>4

\* A record of a packet stays one when its next part is counted.
LEMMA NextPart ==
    ASSUME NEW Of, NEW To, NEW q \in [of : Of, to : To, next : Nat]
    PROVE  [q EXCEPT !.next = @ + 1] \in [of : Of, to : To, next : Nat]
  OBVIOUS

LEMMA LeavesTypes ==
    ASSUME TypeInv, NEW p \in DOMAIN packets, Leaves(p)
    PROVE  /\ packets' \in Seq(Packets) /\ p \in Nat
           /\ packets[p].next \in 0 .. Chunks
<1>1. packets \in Seq(Packets) /\ p \in 1 .. Len(packets) /\ packets[p] \in Packets
  BY DEF TypeInv, PastTypes
<1>2. [packets[p] EXCEPT !.next = @ + 1] \in Packets
  BY <1>1, NextPart, Zenon DEF Packets
<1>3. packets' = [packets EXCEPT ![p] = [packets[p] EXCEPT !.next = @ + 1]]
  BY DEF Leaves
<1>4. packets' \in Seq(Packets)
  BY <1>1, <1>2, <1>3
<1>5. packets[p].next \in 0 .. Chunks
  BY <1>1, CanLinkAssumption DEF Leaves, Packets
<1> QED BY <1>1, <1>4, <1>5

\* Whoever sends.
LEMMA SendsTypes ==
    ASSUME TypeInv, NEW t \in Senders, Sends(t)
    PROVE  TypeInv'
<1>1. CASE TakeMutex(t)
  <2>1. CASE link.up
    BY <1>1, <2>1 DEF TypeInv, LifeTypes, SendTypes, RecvTypes, PastTypes, TakeMutex,
       Goes, lifeVars
  <2>2. CASE ~link.up
    <3>1. Returned(t, 0) /\ UNCHANGED <<lifeVars, asm, packets, used, mutex>>
      BY <1>1, <2>2 DEF TakeMutex
    <3> QED BY <3>1, ReturnedTypes
            DEF TypeInv, LifeTypes, SendTypes, RecvTypes, PastTypes, lifeVars
  <2> QED BY <2>1, <2>2
<1>2. CASE Transmit(t)
  <2>1. PICK reply \in Nat : Returned(t, reply) /\ packets' \in Seq(Packets)
    <3>1. CASE t # "proc" /\ driver = "running"
      <4> DEFINE packet == [of |-> t, to |-> link.own, next |-> 0]
      <4>1. packet \in Packets
        BY DEF TypeInv, LifeTypes, Links, Packets, Dests
      <4>2. packets' = Append(packets, packet) /\ Returned(t, Len(packets'))
        BY <1>2, <3>1 DEF Transmit
      <4> HIDE DEF packet
      <4>3. packets' \in Seq(Packets)
        BY <4>1, <4>2 DEF TypeInv, PastTypes
      <4> QED BY <4>2, <4>3
    <3>2. CASE ~(t # "proc" /\ driver = "running")
      BY <1>2, <3>2 DEF Transmit, TypeInv, PastTypes
    <3> QED BY <3>1, <3>2
  <2>2. mutex' = "none" /\ UNCHANGED <<lifeVars, asm, used>>
    BY <1>2 DEF Transmit
  <2> QED BY <2>1, <2>2, ReturnedTypes
          DEF TypeInv, LifeTypes, SendTypes, RecvTypes, PastTypes, lifeVars
<1> QED BY <1>1, <1>2 DEF Sends

\* rt_task and the other senders.
LEMMA PollTypes ==
    ASSUME TypeInv, RtTask \/ SendOther
    PROVE  TypeInv'
<1> USE DEF TypeInv, LifeTypes, SendTypes, RecvTypes, PastTypes, lifeVars, recvVars
<1>1. CASE Poll
  <2>1. used' \in Uses BY <1>1 DEF Poll, Uses
  <2>2. tx' \in [Senders -> {"idle", "waits", "sends"}] BY <1>1 DEF Poll
  <2>3. poll' \in Polls /\ done' \in BOOLEAN BY <1>1 DEF Poll, Polls
  <2> QED BY <1>1, <2>1, <2>2, <2>3 DEF Poll
<1>2. CASE PollAnswered BY <1>2 DEF PollAnswered, Polls
<1>3. CASE PollTimesOut BY <1>3 DEF PollTimesOut, Polls, Pasts
<1>4. CASE SendOther
  <2>1. used' \in Uses BY <1>4 DEF SendOther, Uses
  <2>2. tx' \in [Senders -> {"idle", "waits", "sends"}] BY <1>4 DEF SendOther
  <2> QED BY <1>4, <2>1, <2>2 DEF SendOther
<1> QED BY <1>1, <1>2, <1>3, <1>4 DEF RtTask

\* rx_task.
LEMMA RxTypes ==
    ASSUME TypeInv, RxTask \/ HealthCheck
    PROVE  TypeInv'
<1> USE DEF TypeInv, LifeTypes, SendTypes, RecvTypes, PastTypes, sendVars, recvVars
<1>1. CASE RxStarts BY <1>1 DEF RxStarts, Links
<1>2. CASE RxTurn BY <1>2 DEF RxTurn, Links
<1>3. CASE HealthCheck BY <1>3 DEF HealthCheck
<1>4. CASE ReceiveNothing BY <1>4 DEF ReceiveNothing
<1>5. ASSUME NEW p \in DOMAIN packets, Receive(p) PROVE TypeInv'
  <2>1. /\ packets' \in Seq(Packets) /\ p \in Nat
        /\ packets[p].next \in 0 .. Chunks
    BY <1>5, LeavesTypes DEF Receive
  <2>2. ring' \in Rings
    <3>1. CASE RingFull BY <1>5, <3>1 DEF Receive
    <3>2. CASE ~RingFull
      <4> DEFINE frame == [pkt |-> p, part |-> packets[p].next]
      <4>1. frame \in Frames BY <2>1 DEF Frames
      <4>2. ring' = [ring EXCEPT !.slots[ring.wr] = frame, !.wr = Succ(@)]
        BY <1>5, <3>2 DEF Receive
      <4> HIDE DEF frame
      <4> QED BY <4>1, <4>2, SuccInRing DEF Rings
    <3> QED BY <3>1, <3>2
  <2> QED BY <1>5, <2>1, <2>2 DEF Receive
<1> QED BY <1>1, <1>2, <1>3, <1>4, <1>5 DEF RxTask, Receives

\* process_task.
LEMMA BuffersForIsSubset ==
    ASSUME NEW d, NEW k PROVE BuffersFor(d, k) \subseteq Buffers
  BY DEF BuffersFor, OwnedBy

LEMMA FirstBuffer ==
    ASSUME NEW S \in SUBSET Buffers, S # {} PROVE First(S) \in S
  BY FirstIn DEF Buffers

LEMMA FillTypes ==
    ASSUME TypeInv, Fill
    PROVE  asm' \in Asms /\ seen' \in Pasts
<1> DEFINE found == BuffersFor(Packet.to, Frame.part)
<1>1. Frame \in Frames /\ Packet.to \in Dests
  BY DEF TypeInv, LifeTypes, RecvTypes, Links, Rings, Procs, Frame, Fill, Addressed, Dests
<1>2. asm' \in Asms
  <2>1. CASE found = {}
    BY <2>1 DEF Fill, TypeInv, RecvTypes
  <2>2. CASE found # {}
    <3>1. First(found) \in Buffers
      <4>1. found \in SUBSET Buffers BY BuffersForIsSubset
      <4> HIDE DEF found
      <4> QED BY <2>2, <4>1, FirstBuffer
    <3>2. asm' = [asm EXCEPT !.owner[First(found)] = Packet.to,
                             !.parts[First(found)][Frame.part] = Frame.pkt]
      BY <2>2 DEF Fill
    <3> HIDE DEF found
    <3>3. asm'.owner \in [Buffers -> Dests \cup {Free}]
      BY <1>1, <3>2 DEF TypeInv, RecvTypes, Asms
    <3>4. asm'.parts \in [Buffers -> Parts]
      <4>1. [asm.parts[First(found)] EXCEPT ![Frame.part] = Frame.pkt] \in Parts
        BY <1>1, <3>1 DEF TypeInv, RecvTypes, Asms, Parts, Frames
      <4>2. asm'.parts = [asm.parts EXCEPT ![First(found)] =
                             [asm.parts[First(found)] EXCEPT ![Frame.part] = Frame.pkt]]
        BY <3>1, <3>2 DEF TypeInv, RecvTypes, Asms
      <4> QED BY <4>1, <4>2 DEF TypeInv, RecvTypes, Asms
    <3> QED BY <3>2, <3>3, <3>4 DEF TypeInv, RecvTypes, Asms
  <2> QED BY <2>1, <2>2
<1>3. seen' \in Pasts
  <2>1. [Frame EXCEPT !.part = @ + 1] \in Frames /\ NoFrame \in Frames
    BY <1>1 DEF Frames, NoFrame
  <2>2. PICK f \in Frames : seen' = [seen EXCEPT !.run[Packet.to] = f]
    BY <2>1 DEF Fill
  <2> QED BY <2>2 DEF TypeInv, PastTypes, Pasts
<1> QED BY <1>2, <1>3

LEMMA ProcessTypes ==
    ASSUME TypeInv, Process
    PROVE  asm' \in Asms /\ seen' \in Pasts /\ done' \in BOOLEAN
<1> DEFINE found == OwnedBy(Packet.to)
<1>1. asm' \in Asms
  <2>1. CASE found = {}
    BY <2>1 DEF Process, TypeInv, RecvTypes
  <2>2. CASE found # {}
    <3>1. asm' = [asm EXCEPT !.owner[First(found)] = Free,
                             !.parts[First(found)] = NoParts]
      BY <2>2 DEF Process
    <3> HIDE DEF found
    <3>2. NoParts \in Parts BY DEF NoParts, Parts
    <3> QED BY <3>1, <3>2 DEF TypeInv, RecvTypes, Asms
  <2> QED BY <2>1, <2>2
<1>2. done' \in BOOLEAN
  BY DEF Process, TypeInv, SendTypes
<1>3. seen' \in Pasts
  <2>1. PICK b \in BOOLEAN, n \in Nat :
            seen' = [seen EXCEPT !.run[Packet.to] = NoFrame, !.missed = b, !.excuses = n]
    <3> DEFINE crcOk == \A k \in 0 .. Chunks - 1 : asm.parts[First(found)][k] = Frame.pkt
               b == seen.missed \/ (InARow /\ ~(found # {} /\ crcOk))
               n == IF found # {} THEN seen.excuses + Stray ELSE seen.excuses
    <3>1. b \in BOOLEAN OBVIOUS
    <3>2. n \in Nat BY StrayTypes DEF TypeInv, PastTypes, Pasts
    <3>3. seen' = [seen EXCEPT !.run[Packet.to] = NoFrame, !.missed = b, !.excuses = n]
      BY DEF Process
    <3> HIDE DEF b, n
    <3> QED BY <3>1, <3>2, <3>3
  <2>2. NoFrame \in Frames BY DEF NoFrame, Frames
  <2> QED BY <2>1, <2>2 DEF TypeInv, PastTypes, Pasts
<1> QED BY <1>1, <1>2, <1>3

LEMMA ProcessTaskTypes ==
    ASSUME TypeInv, ProcessTask
    PROVE  TypeInv'
<1> USE DEF TypeInv, LifeTypes, SendTypes, RecvTypes, PastTypes, lifeVars, sendVars
<1>1. CASE TakeFrame
  <2>1. ring' \in Rings BY <1>1, SuccInRing DEF TakeFrame, Rings
  <2>2. proc' \in Procs BY <1>1 DEF TakeFrame, Rings, Procs
  <2> QED BY <1>1, <2>1, <2>2 DEF TakeFrame
<1>2. CASE Ignore BY <1>2, DoneTypes DEF Ignore
<1>3. CASE Fill BY <1>3, FillTypes, DoneTypes DEF Fill
<1>4. CASE Process BY <1>4, ProcessTypes, DoneTypes DEF Process
<1>5. CASE ProcessShort
  <2>1. seen' \in Pasts BY <1>5, StrayTypes DEF ProcessShort, Pasts
  <2> QED BY <1>5, <2>1, DoneTypes DEF ProcessShort
<1>6. CASE ServeRequest
  <2>1. CASE link.up
    <3>1. proc' \in Procs BY <1>6, <2>1 DEF ServeRequest, Procs
    <3>2. tx' \in [Senders -> {"idle", "waits", "sends"}] BY <1>6, <2>1 DEF ServeRequest
    <3> QED BY <1>6, <2>1, <3>1, <3>2 DEF ServeRequest
  <2>2. CASE ~link.up
    <3>1. seen' \in Pasts BY <1>6, <2>2, StrayTypes DEF ServeRequest, Pasts
    <3> QED BY <1>6, <2>2, <3>1, DoneTypes DEF ServeRequest
  <2> QED BY <2>1, <2>2
<1> QED BY <1>1, <1>2, <1>3, <1>4, <1>5, <1>6 DEF ProcessTask

\* Whoever stops and starts the link, and the bus.
LEMMA ChangeTypes ==
    ASSUME TypeInv, NEW next \in {"stopping", "reinit", "install"}, Change(next)
    PROVE  /\ ctl' \in {"idle", "stopping", "reinit", "install", "installed"}
           /\ used' \in Uses
  BY DEF TypeInv, LifeTypes, PastTypes, Change, Uses

LEMMA CtlTypes ==
    ASSUME TypeInv, Changes \/ CtlTask
    PROVE  TypeInv'
<1> USE DEF TypeInv, LifeTypes, SendTypes, RecvTypes, PastTypes, lifeVars, sendVars, recvVars
<1>1. CASE Stop
  BY <1>1, ChangeTypes DEF Stop
<1>2. CASE Reinit
  BY <1>2, ChangeTypes DEF Reinit
<1>3. CASE Start
  <2>1. asm' \in Asms BY <1>3 DEF Start, Asms, NoParts, Parts
  <2>2. seen' \in Pasts BY <1>3 DEF Start, Pasts, NoFrame, Frames
  <2>3. /\ ctl' \in {"idle", "stopping", "reinit", "install", "installed"}
        /\ used' \in Uses
    BY <1>3, ChangeTypes DEF Start
  <2> QED BY <1>3, <2>1, <2>2, <2>3 DEF Start
<1>4. CASE StopTasks BY <1>4 DEF StopTasks, Links
<1>5. CASE Remove BY <1>5 DEF Remove, Removed
<1>6. CASE Install
  <2>1. PICK id \in Ids, enough \in BOOLEAN :
          IF driver = "none" /\ enough
          THEN /\ driver' = "running" /\ rx' = "created" /\ ctl' = "installed"
               /\ link' = [link EXCEPT !.own = id, !.stopRx = FALSE]
          ELSE /\ UNCHANGED <<driver, rx>> /\ ctl' = "idle"
               /\ link' = [link EXCEPT !.own = id,
                                       !.stopRx = (@ /\ driver # "none")]
    BY <1>6 DEF Install
  <2>2. link' \in Links
    <3> DEFINE stop == link.stopRx /\ driver # "none"
    <3>1. stop \in BOOLEAN OBVIOUS
    <3>2. \/ link' = [link EXCEPT !.own = id, !.stopRx = FALSE]
          \/ link' = [link EXCEPT !.own = id, !.stopRx = stop]
      BY <2>1
    <3> HIDE DEF stop
    <3> QED BY <3>1, <3>2 DEF Links
  <2> QED BY <1>6, <2>1, <2>2 DEF Install
<1>7. CASE Installed BY <1>7 DEF Installed, Links
<1> QED BY <1>1, <1>2, <1>3, <1>4, <1>5, <1>6, <1>7 DEF Changes, CtlTask

LEMMA BusTypes ==
    ASSUME TypeInv, Bus
    PROVE  TypeInv'
<1> USE DEF TypeInv, LifeTypes, SendTypes, RecvTypes, PastTypes, lifeVars, sendVars, recvVars
<1>1. CASE NodeSpeaks
  <2>1. PICK of \in {"request", "news"}, d \in {link.own, Broadcast} :
            packets' = Append(packets, [of |-> of, to |-> d, next |-> Chunks])
    BY <1>1 DEF NodeSpeaks
  <2> DEFINE packet == [of |-> of, to |-> d, next |-> Chunks]
  <2>2. packet \in Packets
    BY CanLinkAssumption DEF Packets, Dests, Links
  <2> HIDE DEF packet
  <2>3. packets' \in Seq(Packets) BY <2>1, <2>2 DEF packet
  <2>4. used' \in Uses BY <1>1 DEF NodeSpeaks, Uses
  <2> QED BY <1>1, <2>3, <2>4 DEF NodeSpeaks
<1>2. CASE BusOff BY <1>2 DEF BusOff, Uses
<1>3. CASE RecoveryDone BY <1>3 DEF RecoveryDone
<1>4. ASSUME NEW p \in DOMAIN packets, FrameMissed(p) PROVE TypeInv'
  BY <1>4, LeavesTypes DEF FrameMissed
<1> QED BY <1>1, <1>2, <1>3, <1>4 DEF Bus

LEMMA TypeStep == ASSUME TypeInv, [Next]_vars PROVE TypeInv'
<1>1. CASE UNCHANGED vars
  BY <1>1 DEF vars, TypeInv, LifeTypes, SendTypes, RecvTypes, PastTypes, lifeVars,
     sendVars, recvVars
<1> QED BY <1>1, SendsTypes, PollTypes, RxTypes, ProcessTaskTypes, CtlTypes, BusTypes
        DEF Next

-----------------------------------------------------------------------------
(* The buffers: at most one belongs to a destination *)

OneOwner == \A i, j \in Buffers :
                asm.owner[i] = asm.owner[j] /\ asm.owner[i] # Free => i = j

\* A part goes to the buffer of its destination or to a free one, and there is
\* nothing else to choose from.
LEMMA BufferChosen ==
    ASSUME TypeInv, NEW d \in Dests, NEW k, BuffersFor(d, k) # {}
    PROVE  /\ First(BuffersFor(d, k)) \in Buffers
           /\ \/ asm.owner[First(BuffersFor(d, k))] = d
              \/ asm.owner[First(BuffersFor(d, k))] = Free /\ OwnedBy(d) = {}
<1>1. First(BuffersFor(d, k)) \in BuffersFor(d, k)
  BY BuffersForIsSubset, FirstBuffer
<1> QED BY <1>1 DEF BuffersFor, OwnedBy

LEMMA OneOwnerStep ==
    ASSUME TypeInv, OneOwner, [Next]_vars
    PROVE  OneOwner'
<1>1. CASE UNCHANGED asm
  BY <1>1 DEF OneOwner
<1>2. CASE Fill
  <2> DEFINE found == BuffersFor(Packet.to, Frame.part)
  <2>1. CASE found = {} BY <1>1, <1>2, <2>1 DEF Fill
  <2>2. CASE found # {}
    <3>1. Packet.to \in Dests
      BY <1>2 DEF Fill, Addressed, TypeInv, LifeTypes, Links, Dests
    <3>2. /\ First(found) \in Buffers
          /\ \/ asm.owner[First(found)] = Packet.to
             \/ asm.owner[First(found)] = Free /\ OwnedBy(Packet.to) = {}
      BY <2>2, <3>1, BufferChosen
    <3>3. asm' = [asm EXCEPT !.owner[First(found)] = Packet.to,
                             !.parts[First(found)][Frame.part] = Frame.pkt]
      BY <1>2, <2>2 DEF Fill
    <3> HIDE DEF found
    <3>4. asm'.owner = [asm.owner EXCEPT ![First(found)] = Packet.to]
      BY <3>3 DEF TypeInv, RecvTypes, Asms
    <3> QED BY <3>2, <3>4 DEF OneOwner, OwnedBy, TypeInv, RecvTypes, Asms
  <2> QED BY <2>1, <2>2
<1>3. CASE Process
  <2> DEFINE found == OwnedBy(Packet.to)
  <2>1. CASE found = {} BY <1>1, <1>3, <2>1 DEF Process
  <2>2. CASE found # {}
    <3>1. asm' = [asm EXCEPT !.owner[First(found)] = Free,
                             !.parts[First(found)] = NoParts]
      BY <1>3, <2>2 DEF Process
    <3> HIDE DEF found
    <3>2. asm'.owner = [asm.owner EXCEPT ![First(found)] = Free]
      BY <3>1 DEF TypeInv, RecvTypes, Asms
    <3> QED BY <3>2 DEF OneOwner, TypeInv, RecvTypes, Asms
  <2> QED BY <2>1, <2>2
<1>4. CASE Start
  BY <1>4 DEF Start, OneOwner
<1> QED
  <2>1. CASE \E t \in Senders : Sends(t)
    BY <1>1, <2>1 DEF Sends, TakeMutex, Transmit
  <2>2. CASE RtTask \/ SendOther
    BY <1>1, <2>2 DEF RtTask, SendOther, Poll, PollAnswered, PollTimesOut, recvVars
  <2>3. CASE RxTask \/ HealthCheck
    BY <1>1, <2>3 DEF RxTask, HealthCheck, RxStarts, RxTurn, ReceiveNothing, Receives,
       Receive, recvVars
  <2>4. CASE ProcessTask
    BY <1>1, <1>2, <1>3, <2>4 DEF ProcessTask, TakeFrame, Ignore, ProcessShort, ServeRequest
  <2>5. CASE Changes \/ CtlTask
    BY <1>1, <1>4, <2>5 DEF Changes, CtlTask, Stop, Reinit, StopTasks, Remove, Install,
       Installed, recvVars
  <2>6. CASE Bus
    BY <1>1, <2>6 DEF Bus, NodeSpeaks, BusOff, RecoveryDone, FrameMissed, recvVars
  <2>7. CASE UNCHANGED vars
    BY <1>1, <2>7 DEF vars, recvVars
  <2> QED BY <2>1, <2>2, <2>3, <2>4, <2>5, <2>6, <2>7 DEF Next

LEMMA OneOwnerInit == Init => OneOwner
  BY DEF Init, OneOwner

\* The invariant the other theorems build on: the types, and one buffer per
\* destination in decode_msg's search.
THEOREM OneOwnerAlways == Spec => [](TypeInv /\ OneOwner)
<1>1. Init => TypeInv /\ OneOwner
  BY TypeInit, OneOwnerInit
<1>2. TypeInv /\ OneOwner /\ [Next]_vars => (TypeInv /\ OneOwner)'
  BY TypeStep, OneOwnerStep
<1> QED BY <1>1, <1>2, PTL DEF Spec

\* Every variable keeps its type and no two of the buffers for packets under way
\* ever belong to one destination: the search for a buffer, which takes the
\* first match, cannot miss a part that is already there.
THEOREM TypeCorrect == Spec => []TypeOK
<1>1. TypeInv /\ OneOwner => TypeOK
  <2> SUFFICES ASSUME TypeInv, OneOwner PROVE TypeOK OBVIOUS
  <2>1. ASSUME NEW d \in Dests PROVE Cardinality(OwnedBy(d)) <= 1
    <3>1. CASE OwnedBy(d) = {}
      <4>1. Cardinality({}) = 0 BY FS_EmptySet
      <4> QED BY <3>1, <4>1
    <3>2. CASE OwnedBy(d) # {}
      <4>1. PICK i \in OwnedBy(d) : TRUE BY <3>2
      <4>2. OwnedBy(d) = {i}
        BY <4>1, FreeIsNoDest DEF OwnedBy, OneOwner
      <4>3. Cardinality({i}) = 1 BY FS_Singleton
      <4> QED BY <4>2, <4>3
    <3> QED BY <3>1, <3>2
  <2>2. /\ link \in [own: Ids, up: BOOLEAN, stopRx: BOOLEAN, rxRunning: BOOLEAN]
        /\ driver \in {"none", "running", "busoff", "recovering", "stopped"}
        /\ rx \in {"none", "created", "loop", "receiving"}
        /\ ctl \in {"idle", "stopping", "reinit", "install", "installed"}
    BY DEF TypeInv, LifeTypes, Links
  <2>3. /\ mutex \in Senders \cup {"none"}
        /\ tx \in [Senders -> {"idle", "waits", "sends"}]
        /\ poll.at \in {"idle", "sending", "waiting"} /\ done \in BOOLEAN
    BY DEF TypeInv, SendTypes, Polls
  <2>4. /\ ring.wr \in Ring /\ ring.rd \in Ring
        /\ proc.at \in {"idle", "decoding", "serving"} /\ proc.slot \in Ring
        /\ asm.owner \in [Buffers -> Dests \cup {Free}]
    BY DEF TypeInv, RecvTypes, Rings, Procs, Asms
  <2> QED BY <2>1, <2>2, <2>3, <2>4 DEF TypeOK
<1> QED BY <1>1, OneOwnerAlways, PTL


-----------------------------------------------------------------------------
(* The frame in use *)

\* s_rx_read is one past the slot in use, where s_rx_write stops short.
FrameKept == proc.at # "idle" => /\ Succ(proc.slot) = ring.rd
                                 /\ ring.slots[proc.slot] = proc.frame

LEMMA FrameKeptStep ==
    ASSUME TypeInv, FrameKept, [Next]_vars
    PROVE  FrameKept'
<1>1. CASE UNCHANGED <<ring, proc>>
  BY <1>1 DEF FrameKept, Succ
<1>2. CASE FrameDone
  BY <1>2 DEF FrameDone, AtRest, FrameKept
<1>3. CASE TakeFrame
  BY <1>3 DEF TakeFrame, FrameKept, TypeInv, RecvTypes, Rings, Succ
<1>4. ASSUME NEW p \in DOMAIN packets, Receive(p) PROVE FrameKept'
  <2>1. CASE RingFull BY <1>1, <1>4, <2>1 DEF Receive
  <2>2. CASE ~RingFull
    <3>1. proc' = proc /\ proc.slot \in Ring /\ ring.wr \in Ring
      BY <1>4 DEF Receive, TypeInv, RecvTypes, Procs, Rings
    <3>2. /\ ring'.rd = ring.rd
          /\ \A i \in Ring : i # ring.wr => ring'.slots[i] = ring.slots[i]
      BY <1>4, <2>2 DEF Receive, TypeInv, RecvTypes, Rings
    <3>3. Succ(proc.slot) = ring.rd => proc.slot # ring.wr
      BY <2>2 DEF RingFull
    <3> QED BY <3>1, <3>2, <3>3 DEF FrameKept, Succ
  <2> QED BY <2>1, <2>2
<1>5. CASE ServeRequest
  <2>1. CASE link.up
    BY <1>5, <2>1 DEF ServeRequest, Decoding, FrameKept, TypeInv, RecvTypes, Procs, Succ
  <2>2. CASE ~link.up BY <1>2, <1>5, <2>2 DEF ServeRequest
  <2> QED BY <2>1, <2>2
<1> QED
  <2>1. CASE \E t \in Senders : Sends(t)
    BY <1>1, <1>2, <2>1 DEF Sends, TakeMutex, Transmit, Goes, Returned
  <2>2. CASE RtTask \/ SendOther
    BY <1>1, <2>2 DEF RtTask, SendOther, Poll, PollAnswered, PollTimesOut, recvVars
  <2>3. CASE RxTask \/ HealthCheck
    BY <1>1, <1>4, <2>3 DEF RxTask, HealthCheck, RxStarts, RxTurn, ReceiveNothing,
       Receives, recvVars
  <2>4. CASE ProcessTask
    BY <1>2, <1>3, <1>5, <2>4 DEF ProcessTask, Ignore, Fill, Process, ProcessShort
  <2>5. CASE Changes \/ CtlTask
    BY <1>1, <2>5 DEF Changes, CtlTask, Stop, Reinit, Start, StopTasks, Remove, Install,
       Installed, recvVars
  <2>6. CASE Bus
    BY <1>1, <2>6 DEF Bus, NodeSpeaks, BusOff, RecoveryDone, FrameMissed, recvVars
  <2>7. CASE UNCHANGED vars
    BY <1>1, <2>7 DEF vars, recvVars
  <2> QED BY <2>1, <2>2, <2>3, <2>4, <2>5, <2>6, <2>7 DEF Next

\* process_task points into the ring after it has moved s_rx_read on; rx_task,
\* however far it runs ahead, never writes the frame that is being decoded.
THEOREM FrameNeverOverwritten == Spec => []FrameInUse
<1>1. Init => FrameKept
  BY DEF Init, AtRest, FrameKept
<1>2. TypeInv /\ OneOwner /\ FrameKept /\ [Next]_vars => FrameKept'
  BY FrameKeptStep
<1>3. FrameKept => FrameInUse
  BY DEF FrameKept, FrameInUse
<1> QED BY <1>1, <1>2, <1>3, OneOwnerAlways, PTL DEF Spec

-----------------------------------------------------------------------------
(* The driver *)

\* Only the holder of the mutex is in twai_transmit, and only while the link is up.
SendsUnderMutex == \A t \in Senders : tx[t] = "sends" => mutex = t /\ link.up

\* The link is up, or about to be, only over an installed driver.
UpMeansInstalled ==
    /\ link.stopRx => ~link.up
    /\ link.up => driver # "none"
    /\ ctl = "installed" => driver # "none" /\ ~link.stopRx

\* comm_can_stop waits for s_rx_running, and what it does not wait for, a
\* rx_task that has not begun, will see s_stop_rx.
RxUnderDriver ==
    /\ rx \in {"loop", "receiving"} => link.rxRunning
    /\ driver = "none" /\ rx # "none" => link.stopRx /\ rx # "receiving"

DriverKept == SendsUnderMutex /\ UpMeansInstalled /\ RxUnderDriver

LEMMA DriverInit == Init => DriverKept
  BY DEF Init, DriverKept, SendsUnderMutex, UpMeansInstalled, RxUnderDriver

LEMMA DriverSendsStep ==
    ASSUME TypeInv, DriverKept, NEW t \in Senders, Sends(t)
    PROVE  DriverKept'
<1> USE DEF DriverKept, SendsUnderMutex, UpMeansInstalled, RxUnderDriver
<1>1. CASE TakeMutex(t)
  <2>1. CASE link.up
    BY <1>1, <2>1 DEF TakeMutex, Goes, lifeVars, TypeInv, SendTypes, Senders
  <2>2. CASE ~link.up
    BY <1>1, <2>2 DEF TakeMutex, Returned, lifeVars, TypeInv, SendTypes
  <2> QED BY <2>1, <2>2
<1>2. CASE Transmit(t)
  <2>1. tx' = [tx EXCEPT ![t] = "idle"] /\ mutex' = "none" /\ UNCHANGED lifeVars
    BY <1>2 DEF Transmit, Returned
  <2>2. tx[t] = "sends" /\ tx \in [Senders -> {"idle", "waits", "sends"}]
    BY <1>2 DEF Transmit, TypeInv, SendTypes
  <2> QED BY <2>1, <2>2 DEF lifeVars
<1> QED BY <1>1, <1>2 DEF Sends

LEMMA DriverRxStep ==
    ASSUME TypeInv, DriverKept, RxTask \/ HealthCheck
    PROVE  DriverKept'
<1> USE DEF DriverKept, SendsUnderMutex, UpMeansInstalled, RxUnderDriver, TypeInv,
            LifeTypes, Links, sendVars
<1>1. CASE RxStarts BY <1>1 DEF RxStarts
<1>2. CASE RxTurn BY <1>2 DEF RxTurn
<1>3. CASE HealthCheck BY <1>3 DEF HealthCheck
<1>4. CASE ReceiveNothing BY <1>4 DEF ReceiveNothing
<1>5. ASSUME NEW p \in DOMAIN packets, Receive(p) PROVE DriverKept'
  BY <1>5 DEF Receive
<1> QED BY <1>1, <1>2, <1>3, <1>4, <1>5 DEF RxTask, Receives

LEMMA DriverCtlStep ==
    ASSUME TypeInv, DriverKept, Changes \/ CtlTask
    PROVE  DriverKept'
<1> USE DEF DriverKept, SendsUnderMutex, UpMeansInstalled, RxUnderDriver, TypeInv,
            LifeTypes, Links, sendVars
<1>1. CASE Changes BY <1>1 DEF Changes, Stop, Reinit, Start, Change
<1>2. CASE StopTasks BY <1>2 DEF StopTasks, SendTypes, Senders
<1>3. CASE Remove BY <1>3 DEF Remove, Removed
<1>4. CASE Install BY <1>4 DEF Install
<1>5. CASE Installed BY <1>5 DEF Installed
<1> QED BY <1>1, <1>2, <1>3, <1>4, <1>5 DEF CtlTask

LEMMA DriverStep ==
    ASSUME TypeInv, DriverKept, [Next]_vars
    PROVE  DriverKept'
<1>1. CASE UNCHANGED <<lifeVars, mutex, tx>>
  BY <1>1 DEF lifeVars, DriverKept, SendsUnderMutex, UpMeansInstalled, RxUnderDriver
<1>2. CASE RtTask \/ SendOther \/ ProcessTask
  <2>1. UNCHANGED <<lifeVars, mutex>>
    BY <1>2 DEF RtTask, Poll, PollAnswered, PollTimesOut, SendOther, ProcessTask,
       TakeFrame, Ignore, Fill, Process, ProcessShort, ServeRequest, sendVars
  <2>2. tx' = tx \/ \E t \in Senders : tx' = [tx EXCEPT ![t] = "waits"]
    BY <1>2 DEF RtTask, Poll, PollAnswered, PollTimesOut, SendOther, ProcessTask,
       TakeFrame, Ignore, Fill, Process, ProcessShort, ServeRequest, sendVars, Senders
  <2> QED BY <1>1, <2>1, <2>2
          DEF lifeVars, DriverKept, SendsUnderMutex, UpMeansInstalled, RxUnderDriver,
              TypeInv, SendTypes
<1>3. CASE Bus
  BY <1>1, <1>3 DEF Bus, NodeSpeaks, BusOff, RecoveryDone, FrameMissed, sendVars, lifeVars,
     DriverKept, SendsUnderMutex, UpMeansInstalled, RxUnderDriver
<1>4. CASE UNCHANGED vars
  BY <1>1, <1>4 DEF vars, sendVars
<1> QED BY <1>2, <1>3, <1>4, DriverSendsStep, DriverRxStep, DriverCtlStep DEF Next

\* Whatever stops and restarts the link: no task is inside twai_transmit or
\* twai_receive when comm_can_stop has removed the driver.
THEOREM DriverNotRemovedWhileUsed == Spec => []DriverInstalledWhileUsed
<1>1. TypeInv /\ OneOwner /\ DriverKept /\ [Next]_vars => DriverKept'
  BY DriverStep
<1>2. DriverKept => DriverInstalledWhileUsed
  BY DEF DriverKept, SendsUnderMutex, UpMeansInstalled, RxUnderDriver,
         DriverInstalledWhileUsed
<1> QED BY <1>1, <1>2, DriverInit, OneOwnerAlways, PTL DEF Spec

-----------------------------------------------------------------------------
(* Reassembly *)

\* No more destinations than buffers: the broadcast address and each address the
\* display has had since comm_can_start.  A buffer of an address that was
\* changed by comm_can_reinit stays taken, so with more of them than buffers the
\* theorem fails.
EnoughBuffers == Cardinality(Dests) <= RxBuffers

\* The parts decoded in a row so far are in the buffer of their destination.
InBuffer(d, i) ==
    /\ asm.owner[i] = d
    /\ \A j \in 0 .. Chunks - 1 :
          j < seen.run[d].part => asm.parts[i][j] = seen.run[d].pkt
RunBuffered == \A d \in Dests :
                  seen.run[d].part > 0 => \E i \in Buffers : InBuffer(d, i)
WholeInv == ~seen.missed /\ RunBuffered

\* A first part finds a buffer.
LEMMA BufferAvailable ==
    ASSUME EnoughBuffers, TypeInv, OneOwner, NEW d \in Dests
    PROVE  BuffersFor(d, 0) # {}
<1> SUFFICES ASSUME BuffersFor(d, 0) = {} PROVE FALSE OBVIOUS
<1>1. OwnedBy(d) = {} /\ OwnedBy(Free) = {}
  BY DEF BuffersFor
<1>2. asm.owner \in [Buffers -> Dests \ {d}]
  BY <1>1 DEF OwnedBy, TypeInv, RecvTypes, Asms
<1>3. IsFiniteSet(Buffers) /\ Cardinality(Buffers) = RxBuffers
  <2>1. RxBuffers \in Nat /\ RxBuffers > 0 BY CanLinkAssumption
  <2>2. /\ IsFiniteSet(1 .. RxBuffers)
        /\ Cardinality(1 .. RxBuffers) = IF 1 > RxBuffers THEN 0 ELSE RxBuffers - 1 + 1
    BY <2>1, FS_Interval
  <2> QED BY <2>1, <2>2 DEF Buffers
<1>4. IsFiniteSet(Dests) /\ Cardinality(Dests) \in Nat
  <2>1. IsFiniteSet(0 .. 254)
    <3>1. 0 \in Int /\ 254 \in Int OBVIOUS
    <3> QED BY <3>1, FS_Interval
  <2>2. IsFiniteSet(Ids) BY <2>1, FS_Subset, CanLinkAssumption
  <2>3. IsFiniteSet(Ids \cup {Broadcast}) BY <2>2, FS_AddElement
  <2> QED BY <2>3, FS_CardinalityType DEF Dests
<1>5. IsFiniteSet(Dests \ {d}) /\ Cardinality(Dests \ {d}) = Cardinality(Dests) - 1
  BY <1>4, FS_RemoveElement
<1>6. Cardinality(Dests \ {d}) < Cardinality(Buffers)
  BY <1>3, <1>4, <1>5, CanLinkAssumption DEF EnoughBuffers
<1>7. PICK i, j \in Buffers : i # j /\ asm.owner[i] = asm.owner[j]
  BY <1>2, <1>3, <1>5, <1>6, FS_PigeonHole
<1>8. asm.owner[i] # Free
  BY <1>2, <1>7, FreeIsNoDest
<1> QED BY <1>7, <1>8 DEF OneOwner

LEMMA FillStep ==
    ASSUME EnoughBuffers, TypeInv, OneOwner, WholeInv, Fill
    PROVE  WholeInv'
<1>0. PICK d \in Dests : d = Packet.to
  BY DEF Fill, Addressed, TypeInv, LifeTypes, Links, Dests
<1> DEFINE k == Frame.part
           found == BuffersFor(d, k)
           b == First(found)
<1>1. Frame \in Frames /\ k \in 0 .. Chunks - 1
  <2>1. Frame \in Frames
    BY DEF TypeInv, RecvTypes, Rings, Procs, Frame
  <2> QED BY <2>1, CanLinkAssumption DEF Fill, Frames
<1>2. seen.run \in [Dests -> Frames] /\ seen \in Pasts
  BY DEF TypeInv, PastTypes, Pasts
<1>3. ~seen'.missed
  BY <1>2 DEF Fill, WholeInv, Pasts
<1>4. \A e \in Dests \ {d} : seen'.run[e] = seen.run[e]
  BY <1>0, <1>2 DEF Fill, Pasts
<1>5. found # {} => /\ b \in Buffers
                    /\ asm.owner[b] = d \/ (asm.owner[b] = Free /\ OwnedBy(d) = {})
                    /\ asm'.owner = [asm.owner EXCEPT ![b] = d]
                    /\ asm'.parts = [asm.parts EXCEPT ![b] = [@ EXCEPT ![k] = Frame.pkt]]
  <2> SUFFICES ASSUME found # {} PROVE
          /\ b \in Buffers
          /\ asm.owner[b] = d \/ (asm.owner[b] = Free /\ OwnedBy(d) = {})
          /\ asm'.owner = [asm.owner EXCEPT ![b] = d]
          /\ asm'.parts = [asm.parts EXCEPT ![b] = [@ EXCEPT ![k] = Frame.pkt]]
    OBVIOUS
  <2>1. /\ b \in Buffers
        /\ asm.owner[b] = d \/ (asm.owner[b] = Free /\ OwnedBy(d) = {})
    BY <1>1, BufferChosen
  <2>2. asm' = [asm EXCEPT !.owner[b] = d, !.parts[b][k] = Frame.pkt]
    BY <1>0 DEF Fill
  <2> HIDE DEF b, found, k
  <2> QED BY <2>1, <2>2 DEF TypeInv, RecvTypes, Asms
<1>6. found = {} => asm' = asm
  BY <1>0 DEF Fill
<1>7. ASSUME NEW e \in Dests \ {d}, seen'.run[e].part > 0
      PROVE  \E i \in Buffers : InBuffer(e, i)'
  <2>1. PICK i \in Buffers : InBuffer(e, i)
    BY <1>4, <1>7 DEF WholeInv, RunBuffered
  <2>2. asm'.owner[i] = asm.owner[i] /\ asm'.parts[i] = asm.parts[i]
    <3> HIDE DEF b, found, k
    <3> QED BY <1>5, <1>6, <1>7, <2>1, FreeIsNoDest DEF InBuffer, TypeInv, RecvTypes, Asms
  <2> QED BY <1>4, <1>7, <2>1, <2>2 DEF InBuffer
<1>8. ASSUME seen'.run[d].part > 0
      PROVE  \E i \in Buffers : InBuffer(d, i)'
  <2>1. InARow /\ seen'.run[d] = [Frame EXCEPT !.part = @ + 1]
    <3>1. CASE InARow BY <3>1, <1>0, <1>1, <1>2 DEF Fill, Pasts
    <3>2. CASE ~InARow
      <4>1. seen'.run[d] = NoFrame BY <3>2, <1>0, <1>1, <1>2 DEF Fill, Pasts
      <4> QED BY <4>1, <1>8 DEF NoFrame
    <3> QED BY <3>1, <3>2
  <2>2. seen'.run[d].part = k + 1 /\ seen'.run[d].pkt = Frame.pkt
    BY <2>1, <1>1 DEF Frames
  <2>3. k > 0 => \E i \in Buffers : /\ asm.owner[i] = d
                                    /\ \A j \in 0 .. Chunks - 1 :
                                          j < k => asm.parts[i][j] = Frame.pkt
    BY <2>1, <1>0, <1>1 DEF InARow, WholeInv, RunBuffered, InBuffer
  <2>4. found # {}
    <3>1. CASE k = 0 BY <3>1, <1>1, BufferAvailable
    <3>2. CASE k > 0
      <4>1. PICK i \in Buffers : asm.owner[i] = d BY <2>3, <3>2
      <4> QED BY <4>1, <3>2 DEF BuffersFor, OwnedBy
    <3> QED BY <3>1, <3>2, <1>1
  <2>5. asm'.owner[b] = d
    <3> HIDE DEF b, found, k
    <3> QED BY <1>5, <2>4 DEF TypeInv, RecvTypes, Asms
  <2>6. ASSUME NEW j \in 0 .. Chunks - 1, j < k + 1 PROVE asm'.parts[b][j] = Frame.pkt
    <3>1. asm.parts[b] \in Parts BY <1>5, <2>4 DEF TypeInv, RecvTypes, Asms
    <3>2. asm'.parts[b] = [asm.parts[b] EXCEPT ![k] = Frame.pkt]
      <4> HIDE DEF b, found, k
      <4> QED BY <1>5, <2>4 DEF TypeInv, RecvTypes, Asms
    <3>3. CASE j = k
      <4> HIDE DEF b, found, k
      <4> QED BY <3>1, <3>2, <3>3 DEF Parts
    <3>4. CASE j # k
      <4>1. j < k /\ k > 0 BY <1>1, <2>6, <3>4
      <4>2. PICK i \in Buffers : /\ asm.owner[i] = d
                                 /\ \A m \in 0 .. Chunks - 1 :
                                       m < k => asm.parts[i][m] = Frame.pkt
        BY <2>3, <4>1
      <4>3. b = i
        <5> HIDE DEF b, found, k
        <5> QED BY <1>1, <1>5, <2>4, <4>2, FreeIsNoDest DEF OneOwner, OwnedBy
      <4> HIDE DEF b, found, k
      <4> QED BY <3>1, <3>2, <3>4, <4>1, <4>2, <4>3 DEF Parts
    <3> QED BY <3>3, <3>4
  <2> HIDE DEF b, found, k
  <2> QED BY <1>5, <2>2, <2>4, <2>5, <2>6 DEF InBuffer
<1> HIDE DEF found, b, k
<1> QED BY <1>3, <1>7, <1>8 DEF WholeInv, RunBuffered

LEMMA ProcessStep ==
    ASSUME TypeInv, OneOwner, WholeInv, Process
    PROVE  WholeInv'
<1>0. PICK d \in Dests : d = Packet.to
  BY DEF Process, Addressed, TypeInv, LifeTypes, Links, Dests
<1> DEFINE found == OwnedBy(d)
           b == First(found)
<1>1. seen.run \in [Dests -> Frames] /\ seen \in Pasts
  BY DEF TypeInv, PastTypes, Pasts
<1>2. seen'.run = [seen.run EXCEPT ![d] = NoFrame]
  BY <1>0, <1>1 DEF Process, Pasts
<1>3. found # {} => b \in Buffers /\ asm.owner[b] = d
  BY FirstBuffer DEF OwnedBy
<1>4. InARow => found # {} /\ \A j \in 0 .. Chunks - 1 : asm.parts[b][j] = Frame.pkt
  <2> SUFFICES ASSUME InARow
               PROVE  found # {} /\ \A j \in 0 .. Chunks - 1 : asm.parts[b][j] = Frame.pkt
    OBVIOUS
  <2>1. seen.run[d] = Frame /\ Frame.part = Chunks /\ Chunks > 0
    BY <1>0, CanLinkAssumption DEF InARow, Process
  <2>2. PICK i \in Buffers : InBuffer(d, i)
    BY <2>1 DEF WholeInv, RunBuffered
  <2>3. found # {} BY <2>2 DEF InBuffer, OwnedBy
  <2>4. b = i
    <3> HIDE DEF b, found
    <3> QED BY <1>3, <2>2, <2>3, FreeIsNoDest DEF InBuffer, OneOwner
  <2>5. \A j \in 0 .. Chunks - 1 : j < seen.run[d].part
    BY <2>1, CanLinkAssumption
  <2> HIDE DEF b, found
  <2> QED BY <2>1, <2>2, <2>3, <2>4, <2>5 DEF InBuffer
<1>5. ~seen'.missed
  <2> DEFINE crcOk == \A j \in 0 .. Chunks - 1 : asm.parts[b][j] = Frame.pkt
             late == IF found # {} THEN seen.excuses + Stray ELSE seen.excuses
             lost == seen.missed \/ (InARow /\ ~(found # {} /\ crcOk))
  <2>1. seen' = [seen EXCEPT !.run[d] = NoFrame, !.missed = lost, !.excuses = late]
    BY <1>0 DEF Process
  <2>2. ~lost
    BY <1>4 DEF WholeInv
  <2> HIDE DEF lost, late
  <2>3. seen'.missed = lost
    BY <1>1, <2>1 DEF Pasts
  <2> QED BY <2>2, <2>3
<1>6. ASSUME NEW e \in Dests, seen'.run[e].part > 0
      PROVE  \E i \in Buffers : InBuffer(e, i)'
  <2>1. e # d /\ seen'.run[e] = seen.run[e]
    BY <1>1, <1>2, <1>6 DEF NoFrame
  <2>2. PICK i \in Buffers : InBuffer(e, i)
    BY <1>6, <2>1 DEF WholeInv, RunBuffered
  <2>3. asm'.owner[i] = asm.owner[i] /\ asm'.parts[i] = asm.parts[i]
    <3>1. found = {} => asm' = asm
      BY <1>0 DEF Process
    <3>2. found # {} => asm' = [asm EXCEPT !.owner[b] = Free, !.parts[b] = NoParts]
      BY <1>0 DEF Process
    <3>3. asm.owner[i] = e BY <2>2 DEF InBuffer
    <3> HIDE DEF b, found
    <3> QED BY <1>3, <2>1, <3>1, <3>2, <3>3 DEF TypeInv, RecvTypes, Asms
  <2> QED BY <2>1, <2>2, <2>3 DEF InBuffer
<1> QED BY <1>5, <1>6 DEF WholeInv, RunBuffered

\* No other action touches a buffer or the parts seen in a row.
LEMMA WholeKept ==
    ASSUME WholeInv, UNCHANGED asm, seen'.run = seen.run, seen'.missed = seen.missed
    PROVE  WholeInv'
  BY DEF WholeInv, RunBuffered, InBuffer

LEMMA WholeStep ==
    ASSUME EnoughBuffers, TypeInv, OneOwner, WholeInv, [Next]_vars
    PROVE  WholeInv'
<1> DEFINE Kept == UNCHANGED asm /\ seen'.run = seen.run /\ seen'.missed = seen.missed
<1>1. CASE Kept
  BY <1>1, WholeKept
<1>2. CASE \E t \in Senders : Sends(t)
  <2>1. UNCHANGED asm
    BY <1>2 DEF Sends, TakeMutex, Transmit
  <2>2. UNCHANGED seen \/ seen' = [seen EXCEPT !.excuses = @ + Stray]
    BY <1>2 DEF Sends, TakeMutex, Transmit, Goes, Returned
  <2> QED BY <1>1, <2>1, <2>2 DEF TypeInv, PastTypes, Pasts
<1>3. CASE RtTask \/ SendOther
  <2>1. UNCHANGED asm
    BY <1>3 DEF RtTask, SendOther, Poll, PollAnswered, PollTimesOut, recvVars
  <2>2. UNCHANGED seen \/ seen' = [seen EXCEPT !.excuses = @ + 1]
    BY <1>3 DEF RtTask, SendOther, Poll, PollAnswered, PollTimesOut
  <2> QED BY <1>1, <2>1, <2>2 DEF TypeInv, PastTypes, Pasts
<1>4. CASE RxTask \/ HealthCheck
  BY <1>1, <1>4 DEF RxTask, HealthCheck, RxStarts, RxTurn, ReceiveNothing, Receives,
     Receive, recvVars
<1>5. CASE ProcessTask
  <2>1. CASE TakeFrame \/ Ignore
    BY <1>1, <2>1 DEF TakeFrame, Ignore
  <2>2. CASE ProcessShort \/ ServeRequest
    <3>1. UNCHANGED asm
      BY <2>2 DEF ProcessShort, ServeRequest
    <3>2. UNCHANGED seen \/ seen' = [seen EXCEPT !.excuses = @ + Stray]
      BY <2>2 DEF ProcessShort, ServeRequest
    <3> QED BY <1>1, <3>1, <3>2 DEF TypeInv, PastTypes, Pasts
  <2> QED BY <1>5, <2>1, <2>2, FillStep, ProcessStep DEF ProcessTask
<1>6. CASE Changes \/ CtlTask
  <2>1. CASE Start
    <3>1. seen'.run = [d \in Dests |-> NoFrame] /\ seen'.missed = seen.missed
      BY <2>1 DEF Start, TypeInv, PastTypes, Pasts
    <3> QED BY <3>1 DEF WholeInv, RunBuffered, NoFrame
  <2>2. CASE ~Start
    BY <1>1, <1>6, <2>2 DEF Changes, CtlTask, Stop, Reinit, StopTasks, Remove, Install,
       Installed, recvVars
  <2> QED BY <2>1, <2>2
<1>7. CASE Bus
  BY <1>1, <1>7 DEF Bus, NodeSpeaks, BusOff, RecoveryDone, FrameMissed, recvVars
<1>8. CASE UNCHANGED vars
  BY <1>1, <1>8 DEF vars, recvVars
<1> QED BY <1>2, <1>3, <1>4, <1>5, <1>6, <1>7, <1>8 DEF Next

\* With a buffer for every destination, a packet whose frames are decoded one after
\* the other is delivered, whatever was lost, mixed or cut short before it.
THEOREM DecodedInARowDelivered ==
    ASSUME EnoughBuffers
    PROVE  Spec => []WholePacketsDelivered
<1>1. Init => WholeInv
  BY DEF Init, WholeInv, RunBuffered, NoFrame
<1>2. TypeInv /\ OneOwner /\ WholeInv /\ [Next]_vars => WholeInv'
  BY EnoughBuffers, WholeStep
<1>3. WholeInv => WholePacketsDelivered
  BY DEF WholeInv, WholePacketsDelivered
<1> QED BY <1>1, <1>2, <1>3, OneOwnerAlways, PTL DEF Spec

-----------------------------------------------------------------------------
(* The polls.  A wait that ends without an excuse was ended by the last part  *)
(* of its own reply, and nothing of that packet is on its way any more: the   *)
(* parts of a packet keep their order on the bus, in the ring and under the   *)
(* decoder's pointer.                                                         *)

\* Where slot i is in the queue between s_rx_read and s_rx_write.
Off(i)    == (i - ring.rd) % RingLen
Queued(i) == Off(i) < (ring.wr - ring.rd) % RingLen

PartsInOrder ==
    /\ \A p \in DOMAIN packets : packets[p].next <= Chunks + 1
    /\ \A i \in Ring : Queued(i) =>
          /\ ring.slots[i].pkt \in DOMAIN packets
          /\ ring.slots[i].part < packets[ring.slots[i].pkt].next
    /\ \A i, j \in Ring :
          Queued(i) /\ Queued(j) /\ Off(i) < Off(j) /\ ring.slots[i].pkt = ring.slots[j].pkt
              => ring.slots[i].part < ring.slots[j].part

\* The decoder is ahead of the queue; while it answers a request, it holds one.
DecoderAhead ==
    /\ proc.at # "idle" =>
          /\ proc.frame.pkt \in DOMAIN packets
          /\ proc.frame.part < packets[proc.frame.pkt].next
          /\ \A i \in Ring : Queued(i) /\ ring.slots[i].pkt = proc.frame.pkt
                                => proc.frame.part < ring.slots[i].part
    /\ proc.at = "serving" => packets[proc.frame.pkt].of = "request"
    /\ tx["proc"] # "idle" => proc.at = "serving"

OrderInv == PartsInOrder /\ DecoderAhead

\* The replies to polls that are on their way.
Replies == {p \in DOMAIN packets : packets[p].of = "rt" /\ InFlight(p)}

\* The excuses pay for every reply but the one that is waited for, and for that
\* one too as soon as the wait is bound to end.
PollsInv ==
    /\ tx["rt"] # "idle" => poll.at = "sending"
    /\ poll.at = "sending" => poll.pkt = 0
    /\ poll.at = "idle" => Cardinality(Replies) <= seen.excuses
    /\ poll.at = "sending" => /\ Cardinality(Replies) <= seen.excuses
                              /\ done => Cardinality(Replies) + 1 <= seen.excuses
    /\ poll.at = "waiting" => /\ done => Cardinality(Replies) <= seen.excuses
                              /\ ~done => Cardinality(Replies \ {poll.pkt}) <= seen.excuses

-----------------------------------------------------------------------------
(* The queue *)

LEMMA RingDifference ==
    ASSUME NEW i \in Ring, NEW j \in Ring
    PROVE  (i - j) % RingLen = IF i >= j THEN i - j ELSE i - j + RingLen
<1> USE CanLinkAssumption DEF Ring
<1>1. CASE i >= j
  BY <1>1
<1>2. CASE i < j
  BY <1>2
<1> QED
  BY <1>1, <1>2

LEMMA RingSucc == ASSUME NEW i \in Ring PROVE Succ(i) = IF i = RingLen - 1 THEN 0 ELSE i + 1
<1> USE CanLinkAssumption DEF Ring, Succ
<1>1. CASE i = RingLen - 1
  BY <1>1
<1>2. CASE i # RingLen - 1
  BY <1>2
<1> QED
  BY <1>1, <1>2

\* Taking a frame moves every other one up by one place.
LEMMA QueueTaken ==
    ASSUME NEW rd \in Ring, NEW wr \in Ring, rd # wr, NEW i \in Ring,
           (i - Succ(rd)) % RingLen < (wr - Succ(rd)) % RingLen
    PROVE  /\ (i - rd) % RingLen < (wr - rd) % RingLen
           /\ (i - rd) % RingLen = ((i - Succ(rd)) % RingLen) + 1
           /\ (rd - rd) % RingLen < (i - rd) % RingLen
           /\ (rd - rd) % RingLen < (wr - rd) % RingLen
<1>1. Succ(rd) \in Ring
  BY SuccInRing
<1>2. Succ(rd) = IF rd = RingLen - 1 THEN 0 ELSE rd + 1
  BY RingSucc
<1> DEFINE Diff(x, y) == IF x >= y THEN x - y ELSE x - y + RingLen
<1>3. /\ (i - Succ(rd)) % RingLen = Diff(i, Succ(rd))
      /\ (wr - Succ(rd)) % RingLen = Diff(wr, Succ(rd))
      /\ (i - rd) % RingLen = Diff(i, rd) /\ (wr - rd) % RingLen = Diff(wr, rd)
      /\ (rd - rd) % RingLen = Diff(rd, rd)
  BY <1>1, RingDifference
<1>4. Diff(i, Succ(rd)) < Diff(wr, Succ(rd))
  BY <1>3
<1> QED
  BY <1>1, <1>2, <1>3, <1>4, CanLinkAssumption DEF Ring

\* A frame joins the queue at its end.
LEMMA QueueJoined ==
    ASSUME NEW rd \in Ring, NEW wr \in Ring, Succ(wr) # rd, NEW i \in Ring,
           (i - rd) % RingLen < (Succ(wr) - rd) % RingLen
    PROVE  i = wr \/ (i - rd) % RingLen < (wr - rd) % RingLen
<1>1. Succ(wr) \in Ring
  BY SuccInRing
<1>2. Succ(wr) = IF wr = RingLen - 1 THEN 0 ELSE wr + 1
  BY RingSucc
<1> DEFINE Diff(x, y) == IF x >= y THEN x - y ELSE x - y + RingLen
<1>3. /\ (i - rd) % RingLen = Diff(i, rd) /\ (wr - rd) % RingLen = Diff(wr, rd)
      /\ (Succ(wr) - rd) % RingLen = Diff(Succ(wr), rd)
  BY <1>1, RingDifference
<1>4. Diff(i, rd) < Diff(Succ(wr), rd)
  BY <1>3
<1> QED
  BY <1>1, <1>2, <1>3, <1>4, CanLinkAssumption DEF Ring

\* The slot the decoder points into is not in the queue.
LEMMA QueueLeft ==
    ASSUME NEW rd \in Ring, NEW wr \in Ring, NEW k \in Ring, Succ(k) = rd
    PROVE  ~((k - rd) % RingLen < (wr - rd) % RingLen)
<1>1. Succ(k) = IF k = RingLen - 1 THEN 0 ELSE k + 1
  BY RingSucc
<1> DEFINE Diff(x, y) == IF x >= y THEN x - y ELSE x - y + RingLen
<1>2. (k - rd) % RingLen = Diff(k, rd) /\ (wr - rd) % RingLen = Diff(wr, rd)
  BY RingDifference
<1> QED
  BY <1>1, <1>2, CanLinkAssumption DEF Ring

-----------------------------------------------------------------------------
(* The order of the parts *)

\* No packet comes back that was through.
FlightKept ==
    \A p \in DOMAIN packets :
        /\ p \in DOMAIN packets' /\ packets'[p].of = packets[p].of
        /\ InFlight(p)' => InFlight(p)

LEMMA OrderTypes ==
    ASSUME TypeInv
    PROVE  /\ ring.wr \in Ring /\ ring.rd \in Ring /\ proc.slot \in Ring
           /\ \A i \in Ring : ring.slots[i].pkt \in Nat /\ ring.slots[i].part \in Nat
           /\ ring.slots \in [Ring -> Frames]
           /\ proc.frame.pkt \in Nat /\ proc.frame.part \in Nat
           /\ DOMAIN packets = 1 .. Len(packets) /\ Len(packets) \in Nat
           /\ \A p \in DOMAIN packets : packets[p].next \in Nat
           /\ Chunks \in Nat
<1>1. ring \in Rings /\ proc \in Procs /\ packets \in Seq(Packets)
  BY DEF TypeInv, RecvTypes, PastTypes
<1>2. /\ ring.wr \in Ring /\ ring.rd \in Ring /\ proc.slot \in Ring
      /\ ring.slots \in [Ring -> Frames] /\ proc.frame \in Frames
  BY <1>1 DEF Rings, Procs
<1>3. /\ \A i \in Ring : ring.slots[i].pkt \in Nat /\ ring.slots[i].part \in Nat
      /\ proc.frame.pkt \in Nat /\ proc.frame.part \in Nat
  BY <1>2 DEF Frames
<1>4. /\ DOMAIN packets = 1 .. Len(packets) /\ Len(packets) \in Nat
      /\ \A p \in DOMAIN packets : packets[p] \in Packets
  BY <1>1
<1>5. \A p \in DOMAIN packets : packets[p].next \in Nat
  BY <1>4 DEF Packets
<1> QED
  BY <1>2, <1>3, <1>4, <1>5, CanLinkAssumption

\* The bus: packets join, and parts are counted whether they arrive or not.
LEMMA OrderPackets ==
    ASSUME TypeInv, TypeInv', OrderInv, ring' = ring, proc' = proc,
           \A p \in DOMAIN packets : /\ p \in DOMAIN packets' /\ packets'[p].of = packets[p].of
                                     /\ packets[p].next <= packets'[p].next,
           \A p \in DOMAIN packets' : packets'[p].next <= Chunks + 1,
           tx'["proc"] # "idle" => tx["proc"] # "idle"
    PROVE  OrderInv' /\ FlightKept
<1>1. /\ \A i \in Ring : Off(i)' = Off(i) /\ (Queued(i)' <=> Queued(i))
      /\ ring'.slots = ring.slots
  BY DEF Off, Queued
<1>2. \A p \in DOMAIN packets : packets[p].next \in Nat /\ packets'[p].next \in Nat
  <2>1. packets' \in Seq(Packets)
    BY DEF TypeInv, PastTypes
  <2>2. \A p \in DOMAIN packets' : packets'[p] \in Packets
    BY <2>1
  <2> QED
    BY <2>2, OrderTypes DEF Packets
<1>3. PartsInOrder'
  BY <1>1, <1>2, OrderTypes DEF OrderInv, PartsInOrder
<1>4. DecoderAhead'
  BY <1>1, <1>2, OrderTypes DEF OrderInv, DecoderAhead
<1>5. FlightKept
  BY <1>1, <1>2, OrderTypes DEF FlightKept, InFlight
<1> QED
  BY <1>3, <1>4, <1>5 DEF OrderInv

\* The decoder is through with its frame.
LEMMA OrderDone ==
    ASSUME TypeInv, OrderInv, FrameKept, proc.at # "idle", FrameDone, packets' = packets,
           tx'["proc"] = "idle"
    PROVE  OrderInv' /\ FlightKept
<1> DEFINE k == proc.slot
<1>1. k \in Ring /\ ~Queued(k)
  <2>1. k \in Ring /\ ring.rd \in Ring /\ ring.wr \in Ring /\ Succ(k) = ring.rd
    BY OrderTypes DEF FrameKept
  <2> QED
    BY <2>1, QueueLeft DEF Queued, Off
<1>2. /\ \A i \in Ring : i # k => ring'.slots[i] = ring.slots[i]
      /\ ring'.slots[k] = NoFrame /\ ring'.rd = ring.rd /\ ring'.wr = ring.wr
  BY <1>1, OrderTypes DEF FrameDone, TypeInv, RecvTypes, Rings
<1>3. \A i \in Ring : Off(i)' = Off(i) /\ (Queued(i)' <=> Queued(i))
  BY <1>2 DEF Off, Queued
<1>4. PartsInOrder'
  BY <1>1, <1>2, <1>3 DEF OrderInv, PartsInOrder
<1>5. DecoderAhead'
  BY DEF DecoderAhead, FrameDone, AtRest
<1>6. FlightKept
  <2>1. ASSUME NEW p \in DOMAIN packets, InFlight(p)' PROVE InFlight(p)
    <3>1. \/ packets[p].next <= Chunks
          \/ \E i \in Ring : ring'.slots[i].pkt = p /\ Queued(i)'
      BY <2>1 DEF InFlight, Queued, Off
    <3>2. \A i \in Ring : Queued(i)' => i # k /\ Queued(i) /\ ring'.slots[i] = ring.slots[i]
      BY <1>1, <1>2, <1>3
    <3> QED
      BY <3>1, <3>2 DEF InFlight, Queued, Off
  <2> QED
    BY <2>1 DEF FlightKept
<1> QED
  BY <1>4, <1>5, <1>6 DEF OrderInv

LEMMA OrderTake ==
    ASSUME TypeInv, OrderInv, TakeFrame
    PROVE  OrderInv' /\ FlightKept
<1> DEFINE rd == ring.rd
<1>1. /\ rd \in Ring /\ ring.wr \in Ring /\ rd # ring.wr
      /\ ring'.rd = Succ(rd) /\ ring'.wr = ring.wr /\ ring'.slots = ring.slots
      /\ proc' = [at |-> "decoding", slot |-> rd, frame |-> ring.slots[rd]]
      /\ packets' = packets /\ tx' = tx /\ proc.at = "idle"
  BY OrderTypes DEF TakeFrame, TypeInv, RecvTypes, Rings, sendVars
<1>2. Queued(rd)
  <2>1. (rd - rd) % RingLen = 0 /\ (ring.wr - rd) % RingLen > 0
    <3>1. /\ (rd - rd) % RingLen = IF rd >= rd THEN rd - rd ELSE rd - rd + RingLen
          /\ (ring.wr - rd) % RingLen
               = IF ring.wr >= rd THEN ring.wr - rd ELSE ring.wr - rd + RingLen
      BY <1>1, RingDifference
    <3> QED
      BY <1>1, <3>1, CanLinkAssumption DEF Ring
  <2> QED
    BY <2>1 DEF Queued, Off
<1>3. ASSUME NEW i \in Ring, Queued(i)'
      PROVE  Queued(i) /\ Off(i) = Off(i)' + 1 /\ Off(rd) < Off(i)
  <2>1. (i - Succ(rd)) % RingLen < (ring.wr - Succ(rd)) % RingLen
    BY <1>1, <1>3 DEF Queued, Off
  <2>2. /\ (i - rd) % RingLen < (ring.wr - rd) % RingLen
        /\ (i - rd) % RingLen = ((i - Succ(rd)) % RingLen) + 1
        /\ (rd - rd) % RingLen < (i - rd) % RingLen
    BY <1>1, <2>1, QueueTaken
  <2> QED
    BY <1>1, <2>2 DEF Queued, Off
<1>4. \A i \in Ring : Off(i)' \in Nat
  <2>1. \A i \in Ring : Off(i)' = (i - Succ(rd)) % RingLen
    BY <1>1 DEF Off
  <2>2. Succ(rd) \in Ring
    BY <1>1, SuccInRing
  <2> QED
    BY <2>1, <2>2, CanLinkAssumption DEF Ring
<1>5. PartsInOrder'
  <2>1. \A i, j \in Ring :
          Queued(i)' /\ Queued(j)' /\ Off(i)' < Off(j)' => Queued(i) /\ Queued(j) /\ Off(i) < Off(j)
    BY <1>3, <1>4
  <2>2. \A i \in Ring : Queued(i)' => Queued(i)
    BY <1>3
  <2> QED
    BY <1>1, <2>1, <2>2 DEF OrderInv, PartsInOrder
<1>6. DecoderAhead'
  <2>1. /\ ring.slots[rd].pkt \in DOMAIN packets
        /\ ring.slots[rd].part < packets[ring.slots[rd].pkt].next
    BY <1>1, <1>2 DEF OrderInv, PartsInOrder
  <2>2. \A i \in Ring : Queued(i)' /\ ring.slots[i].pkt = ring.slots[rd].pkt
            => ring.slots[rd].part < ring.slots[i].part
    BY <1>1, <1>2, <1>3 DEF OrderInv, PartsInOrder
  <2>3. tx["proc"] = "idle"
    BY <1>1 DEF OrderInv, DecoderAhead
  <2> QED
    BY <1>1, <2>1, <2>2, <2>3 DEF DecoderAhead
<1>7. FlightKept
  <2>1. ASSUME NEW p \in DOMAIN packets, InFlight(p)' PROVE InFlight(p)
    <3>1. \/ packets[p].next <= Chunks
          \/ \E i \in Ring : ring.slots[i].pkt = p /\ Queued(i)'
      BY <1>1, <2>1 DEF InFlight, Queued, Off
    <3>2. \A i \in Ring : Queued(i)' => Queued(i)
      BY <1>3
    <3> QED
      BY <3>1, <3>2 DEF InFlight, Queued, Off
  <2> QED
    BY <1>1, <2>1 DEF FlightKept
<1> QED
  BY <1>5, <1>6, <1>7 DEF OrderInv

LEMMA OrderReceive ==
    ASSUME TypeInv, TypeInv', OrderInv, NEW p \in DOMAIN packets, Receive(p)
    PROVE  OrderInv' /\ FlightKept
<1>1. /\ packets[p].next <= Chunks /\ proc' = proc /\ tx' = tx
      /\ packets' = [packets EXCEPT ![p].next = @ + 1]
  BY DEF Receive, Leaves, sendVars
<1>2. /\ DOMAIN packets' = DOMAIN packets
      /\ \A q \in DOMAIN packets : /\ packets'[q].of = packets[q].of
                                   /\ packets'[q].next = IF q = p THEN packets[q].next + 1
                                                                  ELSE packets[q].next
  <2>1. packets \in Seq(Packets)
    BY DEF TypeInv, PastTypes
  <2>2. \A q \in DOMAIN packets : packets[q] \in Packets
    BY <2>1
  <2> QED
    BY <1>1, <2>1, <2>2 DEF Packets
<1>3. \A q \in DOMAIN packets : /\ packets[q].next <= packets'[q].next
                                /\ packets'[q].next <= Chunks + 1
  BY <1>1, <1>2, OrderTypes DEF OrderInv, PartsInOrder
<1>4. CASE RingFull
  <2>1. ring' = ring
    BY <1>4 DEF Receive
  <2> QED
    BY <1>1, <1>2, <1>3, <2>1, OrderPackets
<1>5. CASE ~RingFull
  <2> DEFINE w == ring.wr
             part == packets[p].next
  <2>1. /\ w \in Ring /\ ring.rd \in Ring /\ Succ(w) # ring.rd
        /\ ring'.rd = ring.rd /\ ring'.wr = Succ(w)
        /\ ring'.slots[w].pkt = p /\ ring'.slots[w].part = part
        /\ \A i \in Ring : i # w => ring'.slots[i] = ring.slots[i]
    BY <1>5, OrderTypes DEF Receive, RingFull, TypeInv, RecvTypes, Rings
  <2>2. \A i \in Ring : Off(i)' = Off(i)
    BY <2>1 DEF Off
  <2>3. \A i \in Ring : Queued(i) <=> Off(i) < Off(w)
    BY DEF Queued, Off
  <2>4. \A i \in Ring : Off(i) \in Nat
    BY <2>1, CanLinkAssumption DEF Off, Ring
  <2>5. ASSUME NEW i \in Ring, Queued(i)', i # w PROVE Queued(i)
    <3>1. (i - ring.rd) % RingLen < (Succ(w) - ring.rd) % RingLen
      BY <2>1, <2>5 DEF Queued, Off
    <3>2. i = w \/ (i - ring.rd) % RingLen < (w - ring.rd) % RingLen
      BY <2>1, <3>1, QueueJoined
    <3> QED
      BY <2>5, <3>2 DEF Queued, Off
  <2>6. ~Queued(w)
    BY <2>1, <2>3, <2>4
  <2>7. \A i \in Ring : Queued(i)' /\ i # w => /\ Queued(i) /\ Off(i) < Off(w)
                                               /\ ring'.slots[i] = ring.slots[i]
    BY <2>1, <2>3, <2>5
  <2> HIDE DEF w
  <2>8. part \in Nat /\ packets'[p].next = part + 1 /\ p \in Nat
    BY <1>2, OrderTypes
  <2>9. \A q \in DOMAIN packets :
            /\ packets[q].next \in Nat /\ packets'[q].next \in Nat
            /\ packets[q].next <= packets'[q].next
    BY <1>2, OrderTypes
  <2>10. PartsInOrder'
    <3>1. ASSUME NEW i \in Ring, Queued(i)'
          PROVE  /\ ring'.slots[i].pkt \in DOMAIN packets'
                 /\ ring'.slots[i].part < packets'[ring'.slots[i].pkt].next
      <4>1. CASE i = w
        BY <1>2, <2>1, <2>8, <4>1
      <4>2. CASE i # w
        <5>1. /\ ring.slots[i].pkt \in DOMAIN packets
              /\ ring.slots[i].part < packets[ring.slots[i].pkt].next
          BY <2>7, <3>1, <4>2 DEF OrderInv, PartsInOrder
        <5>2. ring.slots[i].part \in Nat
          BY OrderTypes
        <5>3. ring.slots[i].part < packets'[ring.slots[i].pkt].next
          BY <2>9, <5>1, <5>2
        <5> QED
          BY <1>2, <2>7, <3>1, <4>2, <5>1, <5>3
      <4> QED
        BY <4>1, <4>2
    <3>2. ASSUME NEW i \in Ring, NEW j \in Ring, Queued(i)', Queued(j)', Off(i)' < Off(j)',
                 ring'.slots[i].pkt = ring'.slots[j].pkt
          PROVE  ring'.slots[i].part < ring'.slots[j].part
      <4>1. i # w
        <5> SUFFICES ASSUME i = w PROVE FALSE
          OBVIOUS
        <5>1. Off(w) < Off(j) /\ j # w
          BY <2>1, <2>2, <2>4, <3>2
        <5> QED
          BY <2>1, <2>4, <2>7, <3>2, <5>1
      <4>2. Queued(i) /\ ring'.slots[i] = ring.slots[i]
        BY <2>7, <3>2, <4>1
      <4>3. CASE j = w
        BY <2>1, <3>2, <4>2, <4>3 DEF OrderInv, PartsInOrder
      <4>4. CASE j # w
        BY <2>2, <2>7, <3>2, <4>2, <4>4 DEF OrderInv, PartsInOrder
      <4> QED
        BY <4>3, <4>4
    <3> QED
      BY <1>2, <1>3, <3>1, <3>2 DEF PartsInOrder
  <2>11. DecoderAhead'
    <3>1. ASSUME proc.at # "idle"
          PROVE  /\ proc.frame.pkt \in DOMAIN packets
                 /\ proc.frame.part < packets'[proc.frame.pkt].next
                 /\ \A i \in Ring : Queued(i)' /\ ring'.slots[i].pkt = proc.frame.pkt
                                       => proc.frame.part < ring'.slots[i].part
      <4>1. /\ proc.frame.pkt \in DOMAIN packets
            /\ proc.frame.part < packets[proc.frame.pkt].next
            /\ \A i \in Ring : Queued(i) /\ ring.slots[i].pkt = proc.frame.pkt
                                  => proc.frame.part < ring.slots[i].part
        BY <3>1 DEF OrderInv, DecoderAhead
      <4>2. ASSUME NEW i \in Ring, Queued(i)', ring'.slots[i].pkt = proc.frame.pkt
            PROVE  proc.frame.part < ring'.slots[i].part
        <5>1. CASE i = w
          BY <2>1, <4>1, <4>2, <5>1
        <5>2. CASE i # w
          BY <2>7, <4>1, <4>2, <5>2
        <5> QED
          BY <5>1, <5>2
      <4>3. proc.frame.part \in Nat
        BY OrderTypes
      <4>4. proc.frame.part < packets'[proc.frame.pkt].next
        BY <2>9, <4>1, <4>3
      <4> QED
        BY <4>1, <4>2, <4>4
    <3>2. proc.at = "serving" => packets'[proc.frame.pkt].of = "request"
      BY <1>2, <3>1 DEF OrderInv, DecoderAhead
    <3> QED
      BY <1>1, <1>2, <3>1, <3>2 DEF OrderInv, DecoderAhead
  <2>12. FlightKept
    <3>1. ASSUME NEW q \in DOMAIN packets, InFlight(q)' PROVE InFlight(q)
      <4>1. \/ packets'[q].next <= Chunks
            \/ \E i \in Ring : ring'.slots[i].pkt = q /\ Queued(i)'
        BY <3>1 DEF InFlight, Queued, Off
      <4>2. CASE packets'[q].next <= Chunks
        BY <1>2, <4>2, OrderTypes DEF InFlight
      <4>3. ASSUME NEW i \in Ring, ring'.slots[i].pkt = q, Queued(i)' PROVE InFlight(q)
        <5>1. CASE i = w
          BY <1>1, <2>1, <4>3, <5>1 DEF InFlight
        <5>2. CASE i # w
          BY <2>7, <4>3, <5>2 DEF InFlight, Queued, Off
        <5> QED
          BY <5>1, <5>2
      <4> QED
        BY <4>1, <4>2, <4>3
    <3> QED
      BY <1>2, <3>1 DEF FlightKept
  <2> QED
    BY <2>10, <2>11, <2>12 DEF OrderInv
<1> QED
  BY <1>4, <1>5

LEMMA OrderServe ==
    ASSUME TypeInv, OrderInv, FrameKept, ServeRequest, link.up
    PROVE  OrderInv' /\ FlightKept
<1>1. /\ proc.at = "decoding" /\ ring' = ring /\ packets' = packets
      /\ proc'.at = "serving" /\ proc'.frame = proc.frame
      /\ packets[proc.frame.pkt].of = "request"
  BY DEF ServeRequest, Decoding, Packet, Frame, FrameKept, TypeInv, RecvTypes, Procs
<1>2. \A i \in Ring : Off(i)' = Off(i) /\ (Queued(i)' <=> Queued(i))
  BY <1>1 DEF Off, Queued
<1>3. PartsInOrder'
  BY <1>1, <1>2 DEF OrderInv, PartsInOrder
<1>4. DecoderAhead'
  BY <1>1, <1>2 DEF OrderInv, DecoderAhead
<1>5. FlightKept
  BY <1>1 DEF FlightKept, InFlight
<1> QED
  BY <1>3, <1>4, <1>5 DEF OrderInv

LEMMA OrderInit == Init => OrderInv
<1> SUFFICES ASSUME Init PROVE OrderInv
  OBVIOUS
<1>1. ring.wr = 0 /\ ring.rd = 0 /\ packets = <<>> /\ proc = AtRest /\ tx["proc"] = "idle"
  BY DEF Init, Senders
<1>2. \A i \in Ring : ~Queued(i)
  BY <1>1, CanLinkAssumption DEF Queued, Off, Ring
<1>3. DOMAIN packets = {}
  BY <1>1
<1> QED
  BY <1>1, <1>2, <1>3 DEF OrderInv, PartsInOrder, DecoderAhead, AtRest

\* A packet joins those on the bus.
LEMMA OrderJoin ==
    ASSUME TypeInv, TypeInv', OrderInv, ring' = ring, proc' = proc,
           NEW new, new.next <= Chunks + 1, packets' = Append(packets, new),
           tx'["proc"] # "idle" => tx["proc"] # "idle"
    PROVE  /\ OrderInv' /\ FlightKept
           /\ DOMAIN packets' = DOMAIN packets \cup {Len(packets')}
           /\ packets'[Len(packets')] = new /\ Len(packets') # 0
<1>1. packets \in Seq(Packets) /\ packets' \in Seq(Packets)
  BY DEF TypeInv, PastTypes
<1>2. /\ Len(packets') = Len(packets) + 1 /\ Len(packets) \in Nat
      /\ DOMAIN packets = 1 .. Len(packets) /\ DOMAIN packets' = 1 .. Len(packets')
      /\ packets'[Len(packets')] = new
      /\ \A p \in 1 .. Len(packets) : packets'[p] = packets[p]
  BY <1>1
<1>3. DOMAIN packets' = DOMAIN packets \cup {Len(packets')} /\ Len(packets') # 0
  BY <1>2
<1>4. \A p \in DOMAIN packets : packets[p].next \in Nat /\ packets[p].next <= Chunks + 1
  BY OrderTypes DEF OrderInv, PartsInOrder
<1>5. \A p \in DOMAIN packets : p \in DOMAIN packets' /\ packets'[p] = packets[p]
  BY <1>2, <1>3
<1>6. \A p \in DOMAIN packets' : packets'[p].next <= Chunks + 1
  BY <1>2, <1>3, <1>4, <1>5
<1>7. OrderInv' /\ FlightKept
  BY <1>4, <1>5, <1>6, OrderPackets
<1> QED
  BY <1>2, <1>3, <1>7

\* The bus and the decoder are left alone.
LEMMA OrderAside ==
    ASSUME TypeInv, TypeInv', OrderInv, UNCHANGED <<ring, proc, packets>>,
           tx'["proc"] # "idle" => tx["proc"] # "idle"
    PROVE  OrderInv' /\ FlightKept
<1>1. \A p \in DOMAIN packets : packets[p].next \in Nat /\ packets[p].next <= Chunks + 1
  BY OrderTypes DEF OrderInv, PartsInOrder
<1> QED
  BY <1>1, OrderPackets

\* A frame is lost.
LEMMA OrderMissed ==
    ASSUME TypeInv, TypeInv', OrderInv, NEW p \in DOMAIN packets, FrameMissed(p)
    PROVE  OrderInv' /\ FlightKept
<1>1. /\ packets[p].next <= Chunks /\ ring' = ring /\ proc' = proc /\ tx' = tx
      /\ packets' = [packets EXCEPT ![p].next = @ + 1]
  BY DEF FrameMissed, Leaves, sendVars, recvVars
<1>2. /\ DOMAIN packets' = DOMAIN packets
      /\ \A q \in DOMAIN packets : /\ packets'[q].of = packets[q].of
                                   /\ packets'[q].next = IF q = p THEN packets[q].next + 1
                                                                  ELSE packets[q].next
  <2>1. packets \in Seq(Packets)
    BY DEF TypeInv, PastTypes
  <2>2. \A q \in DOMAIN packets : packets[q] \in Packets
    BY <2>1
  <2> QED
    BY <1>1, <2>1, <2>2 DEF Packets
<1>3. \A q \in DOMAIN packets : /\ packets[q].next <= packets'[q].next
                                /\ packets'[q].next <= Chunks + 1
  BY <1>1, <1>2, OrderTypes DEF OrderInv, PartsInOrder
<1> QED
  BY <1>1, <1>2, <1>3, OrderPackets

-----------------------------------------------------------------------------
(* The replies *)

LEMMA FewerOf ==
    ASSUME NEW S, IsFiniteSet(S), NEW T \in SUBSET S
    PROVE  /\ IsFiniteSet(T) /\ Cardinality(T) \in Nat /\ Cardinality(S) \in Nat
           /\ Cardinality(T) <= Cardinality(S)
BY FS_Subset, FS_CardinalityType

LEMMA OneMoreThan ==
    ASSUME NEW S, IsFiniteSet(S), NEW x
    PROVE  /\ IsFiniteSet(S \ {x}) /\ Cardinality(S \ {x}) \in Nat
           /\ Cardinality(S) \in Nat /\ Cardinality(S) <= Cardinality(S \ {x}) + 1
<1>0. Cardinality(S) \in Nat
  BY FS_CardinalityType
<1>1. CASE x \in S
  <2>1. IsFiniteSet(S \ {x}) /\ Cardinality(S \ {x}) = Cardinality(S) - 1
    BY <1>1, FS_RemoveElement
  <2>2. Cardinality(S \ {x}) \in Nat
    BY <2>1, FS_CardinalityType
  <2> QED
    BY <1>0, <2>1, <2>2
<1>2. CASE x \notin S
  <2>1. S \ {x} = S
    BY <1>2
  <2>2. IsFiniteSet(S \ {x}) /\ Cardinality(S \ {x}) = Cardinality(S)
    BY <2>1, Zenon
  <2>3. Cardinality(S) <= Cardinality(S) + 1
    BY <1>0
  <2> QED
    BY <1>0, <2>2, <2>3
<1> QED
  BY <1>1, <1>2

LEMMA OneMoreWith ==
    ASSUME NEW S, IsFiniteSet(S), NEW x, NEW T \in SUBSET (S \cup {x})
    PROVE  /\ Cardinality(T) \in Nat /\ Cardinality(S) \in Nat
           /\ Cardinality(T) <= Cardinality(S) + 1
<1>0. Cardinality(S) \in Nat
  BY FS_CardinalityType
<1>1. IsFiniteSet(S \cup {x}) /\ Cardinality(S \cup {x}) <= Cardinality(S) + 1
  <2>1. /\ IsFiniteSet(S \cup {x})
        /\ Cardinality(S \cup {x}) = IF x \in S THEN Cardinality(S) ELSE Cardinality(S) + 1
    BY FS_AddElement
  <2> QED
    BY <1>0, <2>1
<1>2. /\ Cardinality(T) \in Nat /\ Cardinality(S \cup {x}) \in Nat
      /\ Cardinality(T) <= Cardinality(S \cup {x})
  BY <1>1, FewerOf
<1> QED
  BY <1>0, <1>1, <1>2

LEMMA RepliesFinite == ASSUME TypeInv PROVE IsFiniteSet(Replies)
<1>1. DOMAIN packets = 1 .. Len(packets) /\ Len(packets) \in Nat
  BY OrderTypes
<1>2. IsFiniteSet(DOMAIN packets)
  <2>1. 1 \in Int /\ Len(packets) \in Int
    BY <1>1
  <2> QED
    BY <1>1, <2>1, FS_Interval
<1> QED
  BY <1>2, FS_Subset DEF Replies

\* Nothing but a poll that goes out adds a reply.
LEMMA NoNewReply ==
    ASSUME FlightKept, NEW n, DOMAIN packets' \subseteq DOMAIN packets \cup {n},
           n \in DOMAIN packets \/ packets'[n].of # "rt"
    PROVE  Replies' \subseteq Replies
BY DEF Replies, FlightKept

LEMMA NewReply ==
    ASSUME FlightKept, NEW n, DOMAIN packets' \subseteq DOMAIN packets \cup {n}
    PROVE  Replies' \subseteq Replies \cup {n}
BY DEF Replies, FlightKept

LEMMA PollTypesHold ==
    ASSUME TypeInv
    PROVE  /\ seen.excuses \in Nat /\ poll.at \in {"idle", "sending", "waiting"} /\ poll.pkt \in Nat
           /\ done \in BOOLEAN /\ Stray \in Nat
BY StrayTypes DEF TypeInv, PastTypes, SendTypes, Polls, Pasts

\* A step that neither starts nor ends a wait.
LEMMA PollsUnmoved ==
    ASSUME TypeInv, PollsInv, Replies' \subseteq Replies, poll' = poll, done' = done,
           seen'.excuses = seen.excuses, tx'["rt"] # "idle" => tx["rt"] # "idle"
    PROVE  PollsInv'
<1>1. IsFiniteSet(Replies)
  BY RepliesFinite
<1>2. /\ Cardinality(Replies) \in Nat /\ Cardinality(Replies') \in Nat
      /\ Cardinality(Replies') <= Cardinality(Replies)
  BY <1>1, FewerOf
<1>3. /\ Cardinality(Replies \ {poll.pkt}) \in Nat /\ Cardinality(Replies' \ {poll.pkt}) \in Nat
      /\ Cardinality(Replies' \ {poll.pkt}) <= Cardinality(Replies \ {poll.pkt})
  <2>1. /\ IsFiniteSet(Replies \ {poll.pkt})
        /\ Replies' \ {poll.pkt} \in SUBSET (Replies \ {poll.pkt})
    BY <1>1, FS_Subset
  <2> QED
    BY <2>1, FewerOf
<1> QED
  BY <1>2, <1>3, PollTypesHold DEF PollsInv

\* The decoder ends a wait: with the last part of what it waited for, or with an
\* excuse.
LEMMA PollsEnded ==
    ASSUME TypeInv, PollsInv, OrderInv, FrameKept, FlightKept, Replies' \subseteq Replies,
           proc.at # "idle", poll' = poll, done', seen'.excuses = seen.excuses + Stray,
           Packet.of = "rt" => Frame.part = Chunks,
           tx'["rt"] # "idle" => tx["rt"] # "idle"
    PROVE  PollsInv'
<1> DEFINE f == Frame.pkt
<1>1. IsFiniteSet(Replies)
  BY RepliesFinite
<1>2. /\ Cardinality(Replies) \in Nat /\ Cardinality(Replies') \in Nat
      /\ Cardinality(Replies') <= Cardinality(Replies)
  BY <1>1, FewerOf
<1>3. Cardinality(Replies \ {poll.pkt}) \in Nat
      /\ Cardinality(Replies) <= Cardinality(Replies \ {poll.pkt}) + 1
  BY <1>1, OneMoreThan
<1>4. /\ Frame = proc.frame /\ f \in DOMAIN packets /\ f # 0
      /\ Frame.part \in Nat /\ Frame.part < packets[f].next
      /\ packets[f].next \in Nat /\ packets[f].next <= Chunks + 1
      /\ \A i \in Ring : Queued(i) /\ ring.slots[i].pkt = f => Frame.part < ring.slots[i].part
  <2>1. Frame = proc.frame
    BY DEF Frame, FrameKept
  <2>2. /\ proc.frame.pkt \in DOMAIN packets
        /\ proc.frame.part < packets[proc.frame.pkt].next
        /\ \A i \in Ring : Queued(i) /\ ring.slots[i].pkt = proc.frame.pkt
                              => proc.frame.part < ring.slots[i].part
    BY DEF OrderInv, DecoderAhead
  <2>3. f # 0
    BY <2>1, <2>2, OrderTypes
  <2>4. proc.frame.part \in Nat /\ packets[proc.frame.pkt].next \in Nat
    BY <2>2, OrderTypes
  <2>5. packets[proc.frame.pkt].next <= Chunks + 1
    BY <2>2 DEF OrderInv, PartsInOrder
  <2> HIDE DEF f
  <2>6. f = proc.frame.pkt
    BY <2>1 DEF f
  <2> QED
    BY <2>1, <2>2, <2>3, <2>4, <2>5, <2>6
<1>5. f \notin Replies'
  <2> SUFFICES ASSUME f \in Replies' PROVE FALSE
    OBVIOUS
  <2>1. packets[f].of = "rt" /\ InFlight(f)
    BY <1>4 DEF FlightKept, Replies
  <2>2. Frame.part = Chunks /\ Chunks \in Nat
    BY <2>1, CanLinkAssumption DEF Packet
  <2>3. ~(packets[f].next <= Chunks)
    BY <1>4, <2>2
  <2>4. PICK i \in Ring : ring.slots[i].pkt = f /\ Queued(i)
    BY <2>1, <2>3 DEF InFlight, Queued, Off
  <2>5. Frame.part < ring.slots[i].part /\ ring.slots[i].part < packets[f].next
    BY <1>4, <2>4 DEF OrderInv, PartsInOrder
  <2>6. ring.slots[i].part \in Nat
    BY OrderTypes
  <2> HIDE DEF f
  <2> QED
    BY <1>4, <2>2, <2>5, <2>6
<1>6. CASE poll.at = "idle"
  <2>1. Stray = 0
    BY <1>6 DEF Stray
  <2> QED
    BY <1>2, <1>6, <2>1, PollTypesHold DEF PollsInv
<1>7. CASE poll.at = "sending"
  <2>1. Stray = 1
    BY <1>4, <1>7 DEF Stray, PollsInv
  <2> QED
    BY <1>2, <1>7, <2>1, PollTypesHold DEF PollsInv
<1>8. CASE poll.at = "waiting"
  <2>1. Cardinality(Replies') <= seen'.excuses
    <3>1. CASE done
      BY <1>2, <1>8, <3>1, PollTypesHold DEF PollsInv
    <3>2. CASE ~done /\ poll.pkt # f
      <4>1. Stray = 1
        BY <1>8, <3>2 DEF Stray
      <4> QED
        BY <1>2, <1>3, <1>8, <3>2, <4>1, PollTypesHold DEF PollsInv
    <3>3. CASE ~done /\ poll.pkt = f
      <4>1. Replies' \in SUBSET (Replies \ {poll.pkt})
        BY <1>5, <3>3
      <4>2. IsFiniteSet(Replies \ {poll.pkt})
        BY <1>1, OneMoreThan
      <4>3. Cardinality(Replies') <= Cardinality(Replies \ {poll.pkt})
        BY <4>1, <4>2, FewerOf
      <4> QED
        BY <1>2, <1>3, <1>8, <3>3, <4>3, PollTypesHold DEF PollsInv
    <3> QED
      BY <3>1, <3>2, <3>3
  <2> QED
    BY <1>8, <2>1 DEF PollsInv
<1> QED
  BY <1>6, <1>7, <1>8, PollTypesHold

\* The request of a poll has been sent, or given up: n numbers its reply.
LEMMA PollsWait ==
    ASSUME TypeInv, PollsInv, NEW n, Replies' \subseteq Replies \cup {n},
           n = 0 => Replies' \subseteq Replies,
           poll.at = "sending", poll' = [at |-> "waiting", pkt |-> n], done' = done,
           seen'.excuses = seen.excuses, tx'["rt"] = "idle"
    PROVE  PollsInv'
<1>1. IsFiniteSet(Replies)
  BY RepliesFinite
<1>2. /\ Cardinality(Replies) \in Nat /\ Cardinality(Replies') \in Nat
      /\ Cardinality(Replies') <= Cardinality(Replies) + 1
  BY <1>1, OneMoreWith
<1>3. /\ Cardinality(Replies' \ {n}) \in Nat
      /\ Cardinality(Replies' \ {n}) <= Cardinality(Replies)
  <2>1. Replies' \ {n} \in SUBSET Replies
    OBVIOUS
  <2> QED
    BY <1>1, <2>1, FewerOf
<1> QED
  BY <1>2, <1>3, PollTypesHold DEF PollsInv

-----------------------------------------------------------------------------
(* The steps *)

PollKept == OrderInv' /\ PollsInv'

LEMMA PollInit == Init => PollsInv
<1> SUFFICES ASSUME Init PROVE PollsInv
  OBVIOUS
<1>1. Replies = {}
  BY DEF Init, Replies
<1>2. Cardinality(Replies) = 0
  BY <1>1, FS_EmptySet
<1> QED
  BY <1>2 DEF Init, PollsInv, Senders

\* A step of the other actions: no wait starts or ends, no frame moves.
LEMMA KeptAside ==
    ASSUME TypeInv, TypeInv', OrderInv, PollsInv, UNCHANGED <<ring, proc, packets, poll, done>>,
           seen'.excuses = seen.excuses,
           \A t \in Senders : tx'[t] # "idle" => tx[t] # "idle" \/ t = "app"
    PROVE  PollKept
<1>1. OrderInv' /\ FlightKept
  BY OrderAside DEF Senders
<1>2. Replies' \subseteq Replies
  BY DEF Replies, InFlight
<1>3. tx'["rt"] # "idle" => tx["rt"] # "idle"
  BY DEF Senders
<1> QED
  BY <1>1, <1>2, <1>3, PollsUnmoved DEF PollKept

\* A sender comes back without having sent.
LEMMA KeptReturned ==
    ASSUME TypeInv, TypeInv', OrderInv, PollsInv, FrameKept, NEW t \in Senders,
           tx[t] # "idle", Returned(t, 0), packets' = packets
    PROVE  PollKept
<1>1. tx' = [tx EXCEPT ![t] = "idle"] /\ tx \in [Senders -> {"idle", "waits", "sends"}]
  BY DEF Returned, TypeInv, SendTypes
<1>2. CASE t = "proc"
  <2>1. /\ FrameDone /\ poll' = poll /\ done' /\ tx'["proc"] = "idle"
        /\ seen' = [seen EXCEPT !.excuses = @ + Stray]
    BY <1>1, <1>2 DEF Returned, Senders
  <2>2. proc.at = "serving" /\ packets[proc.frame.pkt].of = "request"
    BY <1>2 DEF OrderInv, DecoderAhead
  <2>3. OrderInv' /\ FlightKept
    BY <2>1, <2>2, OrderDone
  <2>4. Replies' \subseteq Replies
    BY <2>3 DEF Replies, FlightKept
  <2>5. Packet.of # "rt"
    BY <2>2 DEF Packet, Frame, FrameKept
  <2>6. seen'.excuses = seen.excuses + Stray
    BY <2>1 DEF TypeInv, PastTypes, Pasts
  <2>7. tx'["rt"] = tx["rt"]
    BY <1>1, <1>2 DEF Senders
  <2> QED
    BY <2>1, <2>2, <2>3, <2>4, <2>5, <2>6, <2>7, PollsEnded DEF PollKept
<1>3. CASE t = "rt"
  <2>1. /\ UNCHANGED <<proc, ring, seen>> /\ poll' = [at |-> "waiting", pkt |-> 0]
        /\ (done' <=> done) /\ tx'["rt"] = "idle" /\ tx'["proc"] = tx["proc"]
    BY <1>1, <1>3 DEF Returned, Senders
  <2>2. done' = done
    BY <2>1 DEF TypeInv, SendTypes
  <2>3. OrderInv' /\ FlightKept
    BY <2>1, OrderAside
  <2>4. Replies' \subseteq Replies
    BY <2>3 DEF Replies, FlightKept
  <2>5. poll.at = "sending"
    BY <1>3 DEF PollsInv
  <2>6. 0 \in Nat /\ Replies' \subseteq Replies \cup {0}
    BY <2>4
  <2> QED
    BY <2>1, <2>2, <2>3, <2>4, <2>5, <2>6, PollsWait DEF PollKept
<1>4. CASE t = "app"
  <2>1. UNCHANGED <<proc, ring, seen, poll>> /\ (done' <=> done)
    BY <1>4 DEF Returned
  <2>2. done' = done
    BY <2>1 DEF TypeInv, SendTypes
  <2> QED
    BY <1>1, <1>4, <2>1, <2>2, KeptAside
<1> QED
  BY <1>2, <1>3, <1>4 DEF Senders

LEMMA KeptTake ==
    ASSUME TypeInv, TypeInv', OrderInv, PollsInv, FrameKept, NEW t \in Senders, TakeMutex(t)
    PROVE  PollKept
<1>1. tx[t] = "waits" /\ tx \in [Senders -> {"idle", "waits", "sends"}] /\ packets' = packets
  BY DEF TakeMutex, TypeInv, SendTypes
<1>2. CASE link.up
  <2>1. tx' = [tx EXCEPT ![t] = "sends"] /\ UNCHANGED <<ring, proc, poll, done, seen>>
    BY <1>2 DEF TakeMutex, Goes
  <2> QED
    BY <1>1, <2>1, KeptAside
<1>3. CASE ~link.up
  <2>1. Returned(t, 0)
    BY <1>3 DEF TakeMutex
  <2>2. tx' = [tx EXCEPT ![t] = "idle"]
    BY <2>1 DEF Returned
  <2> QED
    BY <1>1, <2>1, <2>2, KeptReturned
<1> QED
  BY <1>2, <1>3

LEMMA KeptTransmit ==
    ASSUME TypeInv, TypeInv', OrderInv, PollsInv, FrameKept, NEW t \in Senders, Transmit(t)
    PROVE  PollKept
<1>1. tx[t] = "sends" /\ tx \in [Senders -> {"idle", "waits", "sends"}]
  BY DEF Transmit, TypeInv, SendTypes
<1>2. CASE t # "proc" /\ driver = "running"
  <2> DEFINE new == [of |-> t, to |-> link.own, next |-> 0]
             n == Len(packets')
  <2>1. /\ packets' = Append(packets, new) /\ Returned(t, n)
        /\ tx' = [tx EXCEPT ![t] = "idle"]
    BY <1>2 DEF Transmit, Returned
  <2>2. ring' = ring /\ proc' = proc /\ seen' = seen /\ (done' <=> done)
    BY <1>2, <2>1 DEF Returned
  <2>3. done' = done
    BY <2>2 DEF TypeInv, SendTypes
  <2>4. new.next <= Chunks + 1 /\ new.of = t
    BY CanLinkAssumption
  <2>5. tx'["proc"] = tx["proc"]
    BY <1>1, <1>2, <2>1 DEF Senders
  <2> HIDE DEF new
  <2>6. /\ OrderInv' /\ FlightKept
        /\ DOMAIN packets' = DOMAIN packets \cup {n} /\ packets'[n] = new /\ n # 0
    BY <2>1, <2>2, <2>4, <2>5, OrderJoin
  <2>7. CASE t = "rt"
    <3>1. poll' = [at |-> "waiting", pkt |-> n] /\ tx'["rt"] = "idle"
      BY <1>1, <2>1, <2>7 DEF Returned
    <3>2. poll.at = "sending"
      BY <1>1, <2>7 DEF PollsInv
    <3> HIDE DEF n
    <3>3. Replies' \subseteq Replies \cup {n}
      BY <2>6, NewReply
    <3> QED
      BY <2>2, <2>3, <2>6, <3>1, <3>2, <3>3, PollsWait DEF PollKept
  <2>8. CASE t = "app"
    <3>1. poll' = poll /\ tx'["rt"] = tx["rt"]
      BY <1>1, <2>1, <2>8 DEF Returned, Senders
    <3> HIDE DEF n
    <3>2. Replies' \subseteq Replies
      BY <2>4, <2>6, <2>8, NoNewReply
    <3> QED
      BY <2>2, <2>3, <2>6, <3>1, <3>2, PollsUnmoved DEF PollKept
  <2> QED
    BY <1>2, <2>7, <2>8 DEF Senders
<1>3. CASE ~(t # "proc" /\ driver = "running")
  <2>1. Returned(t, 0) /\ packets' = packets
    BY <1>3 DEF Transmit
  <2> QED
    BY <1>1, <2>1, KeptReturned
<1> QED
  BY <1>2, <1>3

LEMMA KeptRt ==
    ASSUME TypeInv, TypeInv', OrderInv, PollsInv, RtTask
    PROVE  PollKept
<1>1. UNCHANGED <<ring, proc, packets>>
  BY DEF RtTask, Poll, PollAnswered, PollTimesOut, recvVars
<1>2. tx' = tx \/ tx' = [tx EXCEPT !["rt"] = "waits"]
  BY DEF RtTask, Poll, PollAnswered, PollTimesOut
<1>3. tx \in [Senders -> {"idle", "waits", "sends"}]
  BY DEF TypeInv, SendTypes
<1>4. tx'["proc"] = tx["proc"]
  BY <1>2, <1>3 DEF Senders
<1>5. OrderInv'
  BY <1>1, <1>4, OrderAside
<1>6. Replies' = Replies
  BY <1>1 DEF Replies, InFlight
<1>7. IsFiniteSet(Replies)
  BY RepliesFinite
<1>8. /\ Cardinality(Replies) \in Nat /\ Cardinality(Replies \ {poll.pkt}) \in Nat
      /\ Cardinality(Replies) <= Cardinality(Replies \ {poll.pkt}) + 1
  BY <1>7, OneMoreThan
<1>9. CASE Poll
  <2>1. /\ poll.at = "idle" /\ ~done' /\ seen' = seen
        /\ poll' = [at |-> "sending", pkt |-> 0]
    BY <1>9 DEF Poll
  <2>2. PollsInv'
    BY <1>6, <2>1 DEF PollsInv
  <2> QED
    BY <1>5, <2>2 DEF PollKept
<1>10. CASE PollAnswered
  <2>1. /\ poll.at = "waiting" /\ done /\ seen' = seen /\ tx' = tx
        /\ poll' = [at |-> "idle", pkt |-> 0]
    BY <1>10 DEF PollAnswered
  <2>2. PollsInv'
    BY <1>6, <2>1 DEF PollsInv
  <2> QED
    BY <1>5, <2>2 DEF PollKept
<1>11. CASE PollTimesOut
  <2>1. /\ poll.at = "waiting" /\ ~done /\ tx' = tx
        /\ poll' = [at |-> "idle", pkt |-> 0]
        /\ seen'.excuses = seen.excuses + 1 /\ seen.excuses \in Nat
    BY <1>11 DEF PollTimesOut, TypeInv, PastTypes, Pasts
  <2>2. PollsInv'
    BY <1>6, <1>8, <2>1 DEF PollsInv
  <2> QED
    BY <1>5, <2>2 DEF PollKept
<1> QED
  BY <1>9, <1>10, <1>11 DEF RtTask

\* process_task lets its frame go and gives the semaphore, or does not.
LEMMA KeptDone ==
    ASSUME TypeInv, TypeInv', OrderInv, PollsInv, FrameKept, Decoding, FrameDone,
           packets' = packets, poll' = poll, tx' = tx,
           \/ done' = done /\ seen'.excuses = seen.excuses
           \/ /\ done' /\ seen'.excuses = seen.excuses + Stray
              /\ Packet.of = "rt" => Frame.part = Chunks
    PROVE  PollKept
<1>1. proc.at # "idle" /\ tx'["proc"] = "idle"
  BY DEF Decoding, OrderInv, DecoderAhead, TypeInv, SendTypes, Senders
<1>2. OrderInv' /\ FlightKept
  BY <1>1, OrderDone
<1>3. Replies' \subseteq Replies
  BY <1>2 DEF Replies, FlightKept
<1>4. CASE done' = done /\ seen'.excuses = seen.excuses
  BY <1>2, <1>3, <1>4, PollsUnmoved DEF PollKept
<1>5. CASE /\ done' /\ seen'.excuses = seen.excuses + Stray
           /\ Packet.of = "rt" => Frame.part = Chunks
  BY <1>1, <1>2, <1>3, <1>5, PollsEnded DEF PollKept
<1> QED
  BY <1>4, <1>5

LEMMA KeptProcess ==
    ASSUME TypeInv, TypeInv', OrderInv, PollsInv, FrameKept, ProcessTask
    PROVE  PollKept
<1>1. seen \in Pasts
  BY DEF TypeInv, PastTypes
<1>2. CASE TakeFrame
  <2>1. OrderInv' /\ FlightKept
    BY <1>2, OrderTake
  <2>2. packets' = packets /\ poll' = poll /\ done' = done /\ seen' = seen /\ tx' = tx
    BY <1>2 DEF TakeFrame, sendVars
  <2>3. Replies' \subseteq Replies
    BY <2>1, <2>2 DEF Replies, FlightKept
  <2> QED
    BY <2>1, <2>2, <2>3, PollsUnmoved DEF PollKept
<1>3. CASE Ignore
  BY <1>3, KeptDone DEF Ignore, sendVars
<1>4. CASE Fill
  <2>1. seen'.excuses = seen.excuses
    BY <1>1, <1>4 DEF Fill, Pasts
  <2> QED
    BY <1>4, <2>1, KeptDone DEF Fill, sendVars
<1>5. CASE Process
  <2>1. /\ Decoding /\ FrameDone /\ Frame.part = Chunks
        /\ packets' = packets /\ poll' = poll /\ tx' = tx
    BY <1>5 DEF Process, sendVars
  <2>2. CASE OwnedBy(Packet.to) = {}
    <3>1. (done' <=> done) /\ seen'.excuses = seen.excuses
      BY <1>1, <1>5, <2>2 DEF Process, Pasts
    <3>2. done' = done
      BY <3>1 DEF TypeInv, SendTypes
    <3> QED
      BY <2>1, <3>1, <3>2, KeptDone
  <2>3. CASE OwnedBy(Packet.to) # {}
    <3>1. done'
      BY <1>5, <2>3 DEF Process
    <3>2. seen'.excuses = seen.excuses + Stray
      BY <1>1, <1>5, <2>3 DEF Process, Pasts
    <3> QED
      BY <2>1, <3>1, <3>2, KeptDone
  <2> QED
    BY <2>2, <2>3
<1>6. CASE ProcessShort
  <2>1. seen'.excuses = seen.excuses + Stray
    BY <1>1, <1>6 DEF ProcessShort, Pasts
  <2> QED
    BY <1>6, <2>1, KeptDone DEF ProcessShort, sendVars
<1>7. CASE ServeRequest /\ link.up
  <2>1. OrderInv' /\ FlightKept
    BY <1>7, OrderServe
  <2>2. /\ packets' = packets /\ poll' = poll /\ done' = done /\ seen' = seen
        /\ tx' = [tx EXCEPT !["proc"] = "waits"]
    BY <1>7 DEF ServeRequest
  <2>3. Replies' \subseteq Replies
    BY <2>1, <2>2 DEF Replies, FlightKept
  <2>4. tx'["rt"] = tx["rt"]
    BY <2>2 DEF TypeInv, SendTypes, Senders
  <2> QED
    BY <2>1, <2>2, <2>3, <2>4, PollsUnmoved DEF PollKept
<1>8. CASE ServeRequest /\ ~link.up
  <2>1. seen'.excuses = seen.excuses + Stray
    BY <1>1, <1>8 DEF ServeRequest, Pasts
  <2>2. /\ Decoding /\ FrameDone /\ done' /\ Packet.of = "request"
        /\ packets' = packets /\ poll' = poll /\ tx' = tx
    BY <1>8 DEF ServeRequest
  <2> QED
    BY <2>1, <2>2, KeptDone
<1> QED
  BY <1>2, <1>3, <1>4, <1>5, <1>6, <1>7, <1>8 DEF ProcessTask

LEMMA KeptStep ==
    ASSUME TypeInv, TypeInv', OrderInv, PollsInv, FrameKept, [Next]_vars
    PROVE  PollKept
<1>1. ASSUME NEW t \in Senders, Sends(t) PROVE PollKept
  BY <1>1, KeptTake, KeptTransmit DEF Sends
<1>2. CASE SendOther
  <2>1. /\ UNCHANGED <<ring, proc, packets, poll, done, seen>>
        /\ tx' = [tx EXCEPT !["app"] = "waits"]
    BY <1>2 DEF SendOther, recvVars
  <2>2. \A t \in Senders : t # "app" => tx'[t] = tx[t]
    BY <2>1 DEF TypeInv, SendTypes
  <2> QED
    BY <2>1, <2>2, KeptAside
<1>3. ASSUME NEW p \in DOMAIN packets, Receive(p) PROVE PollKept
  <2>1. OrderInv' /\ FlightKept
    BY <1>3, OrderReceive
  <2>2. DOMAIN packets' = DOMAIN packets
    BY <1>3 DEF Receive, Leaves
  <2>3. Replies' \subseteq Replies
    BY <2>1, <2>2, <1>3, NoNewReply
  <2>4. UNCHANGED <<poll, done, seen, tx>>
    BY <1>3 DEF Receive, sendVars
  <2> QED
    BY <2>1, <2>3, <2>4, PollsUnmoved DEF PollKept
<1>4. ASSUME NEW p \in DOMAIN packets, FrameMissed(p) PROVE PollKept
  <2>1. OrderInv' /\ FlightKept
    BY <1>4, OrderMissed
  <2>2. DOMAIN packets' = DOMAIN packets
    BY <1>4 DEF FrameMissed, Leaves
  <2>3. Replies' \subseteq Replies
    BY <2>1, <2>2, <1>4, NoNewReply
  <2>4. UNCHANGED <<poll, done, seen, tx>>
    BY <1>4 DEF FrameMissed, sendVars
  <2> QED
    BY <2>1, <2>3, <2>4, PollsUnmoved DEF PollKept
<1>5. CASE NodeSpeaks
  <2>1. PICK of \in {"request", "news"}, d \in {link.own, Broadcast} :
           packets' = Append(packets, [of |-> of, to |-> d, next |-> Chunks])
    BY <1>5 DEF NodeSpeaks
  <2> DEFINE new == [of |-> of, to |-> d, next |-> Chunks]
             n == Len(packets')
  <2>2. UNCHANGED <<ring, proc, poll, done, seen, tx>>
    BY <1>5 DEF NodeSpeaks, sendVars, recvVars
  <2>3. new.next <= Chunks + 1 /\ new.of # "rt" /\ packets' = Append(packets, new)
    BY <2>1, CanLinkAssumption
  <2> HIDE DEF new
  <2>4. /\ OrderInv' /\ FlightKept
        /\ DOMAIN packets' = DOMAIN packets \cup {n} /\ packets'[n] = new
    BY <2>2, <2>3, OrderJoin
  <2> HIDE DEF n
  <2>5. Replies' \subseteq Replies
    BY <2>3, <2>4, NoNewReply
  <2> QED
    BY <2>2, <2>4, <2>5, PollsUnmoved DEF PollKept
<1>6. CASE \/ RxStarts \/ RxTurn \/ ReceiveNothing \/ HealthCheck \/ CtlTask
           \/ Stop \/ Reinit \/ BusOff \/ RecoveryDone \/ UNCHANGED vars
  <2>1. UNCHANGED <<ring, proc, packets, poll, done, seen, tx>>
    BY <1>6 DEF RxStarts, RxTurn, ReceiveNothing, HealthCheck, CtlTask, StopTasks, Remove,
       Install, Installed, Stop, Reinit, BusOff, RecoveryDone, vars, sendVars, recvVars
  <2> QED
    BY <2>1, KeptAside
<1>7. CASE Start
  <2>1. UNCHANGED <<ring, proc, packets, poll, done, tx>>
    BY <1>7 DEF Start, sendVars
  <2>2. seen'.excuses = seen.excuses
    BY <1>7 DEF Start, TypeInv, PastTypes, Pasts
  <2> QED
    BY <2>1, <2>2, KeptAside
<1> QED
  BY <1>1, <1>2, <1>3, <1>4, <1>5, <1>6, <1>7, KeptRt, KeptProcess
     DEF Next, RxTask, Receives, Changes, Bus

\* Polls are serialised by waiting, not by a lock: two replies to polls are on
\* their way together only if a wait has timed out since, or was ended by a
\* transaction that was not its own.
THEOREM OverlapsAreExcused == Spec => []PollsOverlapOnlyWhenExcused
<1>1. Init => FrameKept
  BY DEF Init, AtRest, FrameKept
<1>2. TypeInv /\ FrameKept /\ [Next]_vars => FrameKept'
  BY FrameKeptStep
<1>3. TypeInv /\ TypeInv' /\ OrderInv /\ PollsInv /\ FrameKept /\ [Next]_vars
        => OrderInv' /\ PollsInv'
  BY KeptStep DEF PollKept
<1>4. TypeInv /\ PollsInv => PollsOverlapOnlyWhenExcused
  <2> SUFFICES ASSUME TypeInv, PollsInv
               PROVE  Cardinality(Replies) <= 1 + seen.excuses
    BY DEF PollsOverlapOnlyWhenExcused, Replies
  <2>1. IsFiniteSet(Replies)
    BY RepliesFinite
  <2>2. /\ Cardinality(Replies) \in Nat /\ Cardinality(Replies \ {poll.pkt}) \in Nat
        /\ Cardinality(Replies) <= Cardinality(Replies \ {poll.pkt}) + 1
    BY <2>1, OneMoreThan
  <2> QED
    BY <2>2, PollTypesHold DEF PollsInv
<1> QED
  BY <1>1, <1>2, <1>3, <1>4, OrderInit, PollInit, OneOwnerAlways, PTL DEF Spec
=============================================================================
