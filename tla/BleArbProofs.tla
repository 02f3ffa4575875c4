----------------------------- MODULE BleArbProofs -----------------------------
(***************************************************************************)
(* The arbiter, for any number of clients, sensors and events, however its *)
(* threads overtake each other: its types, that its record of the          *)
(* initiator is NimBLE's, that a parked arbiter is quiet and two waiting   *)
(* clients take turns unless a cancellation came too early, and that the   *)
(* clients agree with the arbiter and the radio.                           *)
(***************************************************************************)
EXTENDS BleArb, FiniteSetTheorems, TLAPS

-----------------------------------------------------------------------------
(* The cursor *)

\* A nonempty set of numbers has a least one.
LEMMA LeastNumber ==
    ASSUME NEW S, S \subseteq Nat, S # {}
    PROVE  \E x \in S : \A y \in S : x <= y
<1>1. PICK x \in S : \A y \in S : ~ (<<y, x>> \in OpToRel(<, Nat))
  BY NatLessThanWellFounded, WFMin, Zenon
<1>2. \A y \in S : ~(y < x)
  BY <1>1 DEF OpToRel
<1>3. \A y \in S : x <= y
  BY <1>2
<1> QED
  BY <1>3

\* The client picked is one that wants to connect.
LEMMA PickWants ==
    ASSUME next \in Slots, Wanting # {}
    PROVE  Pick \in Wanting
<1> DEFINE Distance(c) == (c - next) % NSlots
<1>1. \A c \in Wanting : Distance(c) \in Nat
  BY BleArbAssumption DEF Wanting, Slots
<1>2. PICK n \in {Distance(c) : c \in Wanting} : \A m \in {Distance(c) : c \in Wanting} : n <= m
  <2>1. {Distance(c) : c \in Wanting} \subseteq Nat /\ {Distance(c) : c \in Wanting} # {}
    BY <1>1
  <2> HIDE DEF Distance
  <2> QED
    BY <2>1, LeastNumber
<1>3. \E c \in Wanting : \A d \in Wanting : Distance(c) <= Distance(d)
  <2> HIDE DEF Distance
  <2> QED
    BY <1>2
<1>4. (CHOOSE c \in Wanting : \A d \in Wanting : Distance(c) <= Distance(d)) \in Wanting
  <2> HIDE DEF Distance
  <2> QED
    BY <1>3
<1> QED
  BY <1>4 DEF Pick

-----------------------------------------------------------------------------
(* Types *)

\* The calls that the threads make.
LEMMA CallTypes ==
    /\ \A op \in ArbOps : Call(op, None) \in Calls
    /\ \A op \in SlotOps, c \in Slots : Call(op, c) \in Calls
    /\ \A op \in SlotOps, c \in Slots, p \in Peers \cup {NoPeer} : CallPeer(op, c, p) \in Calls
    /\ \A op, c : Call(op, c).op = op /\ Call(op, c).slot = c
    /\ \A op, c, p : CallPeer(op, c, p).op = op /\ CallPeer(op, c, p).slot = c
BY DEF Call, CallPeer, Calls

\* What a thread is about to execute for a client names that client.
LEMMA HeadTypes ==
    ASSUME TypeOK, NEW t \in Threads, todo[t] # <<>>
    PROVE  /\ Head(todo[t]) \in Calls
           /\ Head(todo[t]).op \in SlotOps =>
                  /\ Head(todo[t]).slot \in Slots
                  /\ Head(todo[t]).peer \in Peers \cup {NoPeer}
                  /\ Head(todo[t]).forever \in BOOLEAN
<1>1. Head(todo[t]) \in Calls
  BY DEF TypeOK
<1> QED
  BY <1>1 DEF Calls, ArbOps, SlotOps

\* The todo of a thread after it has executed a call.
LEMMA ThenTypes ==
    ASSUME TypeOK, NEW t \in Threads, todo[t] # <<>>, NEW more \in Seq(Calls), Then(t, more)
    PROVE  /\ todo' \in [Threads -> Seq(Calls)]
           /\ todo'[t] = more \o Tail(todo[t])
           /\ \A u \in Threads \ {t} : todo'[u] = todo[u]
BY DEF TypeOK, Then

LEMMA StartsTypes ==
    ASSUME TypeOK, NEW t \in Threads, NEW calls \in Seq(Calls), Starts(t, calls)
    PROVE  /\ todo' \in [Threads -> Seq(Calls)]
           /\ todo'[t] = calls /\ todo[t] = <<>>
           /\ \A u \in Threads \ {t} : todo'[u] = todo[u]
BY DEF TypeOK, Starts

LEMMA TypeInit == Init => TypeOK
<1> SUFFICES ASSUME Init PROVE TypeOK
  OBVIOUS
<1> USE BleArbAssumption
<1>1. slots \in [Slots -> [want: BOOLEAN, peer: Peers \cup {NoPeer}]]
  BY DEF Init
<1>2. /\ pending \in Slots \cup {None}
      /\ next \in Slots
      /\ links \subseteq Peers /\ closing \subseteq links /\ awake \subseteq Peers
  BY DEF Init, Slots
<1>3. forever \in BOOLEAN /\ suspended \in BOOLEAN /\ synced \in BOOLEAN /\ boosted \in BOOLEAN
  BY Zenon DEF Init
<1>4. client \in [Slots -> [synced: BOOLEAN, bound: BOOLEAN, addr: Peers, parked: BOOLEAN,
                            scanning: BOOLEAN, handle: Peers \cup {NoPeer}]]
  BY DEF Init
<1>5. gap \in Procedures
  BY DEF Init, NoGap, Procedures
<1>6. todo \in [Threads -> Seq(Calls)]
  <2>1. \A i \in 1 .. NSlots : Call("sync", i - 1) \in Calls
    BY CallTypes DEF Slots, SlotOps
  <2>2. [i \in 1 .. NSlots |-> Call("sync", i - 1)] \in [1 .. NSlots -> Calls]
    BY <2>1
  <2>3. [i \in 1 .. NSlots |-> Call("sync", i - 1)] \in Seq(Calls)
    BY <2>2
  <2> QED
    BY <2>3 DEF Init
<1>7. lapses \subseteq Lapses /\ used \in [ui: 0 .. MaxUi, sleeps: 0 .. MaxSleeps, ota: 0 .. MaxOta]
  BY DEF Init
<1> QED
  BY <1>1, <1>2, <1>3, <1>4, <1>5, <1>6, <1>7 DEF TypeOK
\* The calls of an action that makes none, one or a few more.
LEMMA TodoTypes ==
    ASSUME TypeOK, NEW t \in Threads, todo[t] # <<>>,
           \/ Then(t, <<>>)
           \/ \E c \in Calls : Then(t, <<c>>)
           \/ \E c, d \in Calls : Then(t, <<c, d>>)
           \/ \E c, d, e \in Calls : Then(t, <<c, d, e>>)
    PROVE  todo' \in [Threads -> Seq(Calls)]
<1>1. CASE Then(t, <<>>)
  <2>1. <<>> \in Seq(Calls)
    OBVIOUS
  <2> QED
    BY <1>1, <2>1, ThenTypes
<1>2. CASE \E c \in Calls : Then(t, <<c>>)
  <2>1. PICK c \in Calls : Then(t, <<c>>)
    BY <1>2
  <2>2. <<c>> \in Seq(Calls)
    OBVIOUS
  <2> QED
    BY <2>1, <2>2, ThenTypes
<1>3. CASE \E c, d \in Calls : Then(t, <<c, d>>)
  <2>1. PICK c \in Calls, d \in Calls : Then(t, <<c, d>>)
    BY <1>3
  <2>2. <<c, d>> \in Seq(Calls)
    OBVIOUS
  <2> QED
    BY <2>1, <2>2, ThenTypes
<1>4. CASE \E c, d, e \in Calls : Then(t, <<c, d, e>>)
  <2>1. PICK c \in Calls, d \in Calls, e \in Calls : Then(t, <<c, d, e>>)
    BY <1>4
  <2>2. <<c, d, e>> \in Seq(Calls)
    OBVIOUS
  <2> QED
    BY <2>1, <2>2, ThenTypes
<1> QED
  BY <1>1, <1>2, <1>3, <1>4

\* One field of one record of a table is changed.
LEMMA FieldTypes ==
    ASSUME NEW S, NEW W, NEW P, NEW f \in [S -> [want: W, peer: P]], NEW c \in S, NEW w \in W
    PROVE  [f EXCEPT ![c].want = w] \in [S -> [want: W, peer: P]]
<1>1. f[c] \in [want: W, peer: P]
  OBVIOUS
<1>2. [f[c] EXCEPT !.want = w] \in [want: W, peer: P]
  BY <1>1
<1> QED
  BY <1>2

LEMMA ArbCalls ==
    /\ Call("evaluate", None) \in Calls /\ Call("cancel", None) \in Calls
    /\ Call("suspend", None) \in Calls /\ Call("resume", None) \in Calls
BY CallTypes DEF ArbOps

LEMMA SlotCalls ==
    ASSUME NEW c \in Slots
    PROVE  /\ \A op \in SlotOps : Call(op, c) \in Calls
           /\ \A p \in Peers \cup {NoPeer} :
                  CallPeer("keep", c, p) \in Calls /\ CallPeer("linked", c, p) \in Calls
BY CallTypes DEF SlotOps

LEMMA TypeArbiter ==
    ASSUME TypeOK, lapses' \subseteq Lapses, NEW t \in Threads,
           \/ Evaluate(t) \/ Connect(t) \/ Rollback(t) \/ WantConnect(t) \/ StopConnect(t)
           \/ ScanSuspend(t) \/ ScanResume(t) \/ Release(t)
    PROVE  TypeOK'
<1> USE BleArbAssumption
<1> DEFINE h == Head(todo[t])
<1>1. CASE Evaluate(t)
  <2>1. todo[t] # <<>> /\ UNCHANGED <<slots, suspended, synced, client, boosted, ble, awake, used>>
    BY <1>1 DEF Evaluate, At
  <2>2. CASE Blocked
    <3>1. Then(t, <<>>) /\ UNCHANGED <<pending, forever, next>>
      BY <1>1, <2>2 DEF Evaluate
    <3>2. todo' \in [Threads -> Seq(Calls)]
      BY <2>1, <3>1, TodoTypes
    <3> QED
      BY <2>1, <3>1, <3>2 DEF TypeOK, ble, env
  <2>3. CASE ~Blocked
    <3>1. Pick \in Slots
      BY <2>3, PickWants DEF TypeOK, Blocked, Wanting
    <3>2. pending' = Pick /\ next' = (Pick + 1) % NSlots
      BY <1>1, <2>3 DEF Evaluate
    <3>3. next' \in Slots
      BY <3>1, <3>2 DEF Slots
    <3>4. forever' \in BOOLEAN
      BY <1>1, <2>3 DEF Evaluate
    <3> DEFINE c == [op |-> "connect", slot |-> Pick, peer |-> slots[Pick].peer,
                     forever |-> forever']
    <3>5. c \in Calls
      BY <3>1, <3>4 DEF TypeOK, Calls, SlotOps
    <3>6. Then(t, <<c>>)
      BY <1>1, <2>3 DEF Evaluate
    <3> HIDE DEF c
    <3>7. todo' \in [Threads -> Seq(Calls)]
      BY <2>1, <3>5, <3>6, TodoTypes
    <3> QED
      BY <2>1, <3>1, <3>2, <3>3, <3>4, <3>7 DEF TypeOK, ble, env
  <2> QED
    BY <2>2, <2>3
<1>2. CASE Connect(t)
  <2>1. todo[t] # <<>> /\ h.op \in SlotOps
    BY <1>2 DEF Connect, At, SlotOps
  <2>2. h.slot \in Slots /\ h.peer \in Peers \cup {NoPeer} /\ h.forever \in BOOLEAN
    BY <2>1, HeadTypes
  <2>3. Call("rollback", h.slot) \in Calls
    BY <2>2, SlotCalls DEF SlotOps
  <2>4. UNCHANGED <<arb, client, boosted, links, closing, env>>
    BY <1>2 DEF Connect
  <2>5. /\ gap' = gap \/ gap' = [op |-> "connect", slot |-> h.slot, peer |-> h.peer,
                                 forever |-> h.forever, cancelled |-> FALSE]
        /\ Then(t, <<>>) \/ Then(t, <<Call("rollback", h.slot)>>)
    BY <1>2 DEF Connect
  <2> HIDE DEF h
  <2>6. gap' \in Procedures
    <3>1. [op |-> "connect", slot |-> h.slot, peer |-> h.peer,
           forever |-> h.forever, cancelled |-> FALSE] \in Procedures
      BY <2>2 DEF Procedures
    <3> QED
      BY <2>5, <3>1 DEF TypeOK
  <2>7. todo' \in [Threads -> Seq(Calls)]
    BY <2>1, <2>3, <2>5, TodoTypes
  <2> QED
    BY <2>4, <2>6, <2>7 DEF TypeOK, arb, env
<1>3. CASE Rollback(t)
  <2>1. todo[t] # <<>> /\ Then(t, <<>>)
    BY <1>3 DEF Rollback, At
  <2>2. todo' \in [Threads -> Seq(Calls)]
    BY <2>1, TodoTypes
  <2>3. pending' \in Slots \cup {None}
    BY <1>3 DEF TypeOK, Rollback
  <2> QED
    BY <1>3, <2>2, <2>3 DEF TypeOK, Rollback, ble, env
<1>4. CASE WantConnect(t) \/ StopConnect(t)
  <2>1. todo[t] # <<>> /\ h.op \in SlotOps
    BY <1>4 DEF WantConnect, StopConnect, At, SlotOps
  <2>2. h.slot \in Slots
    BY <2>1, HeadTypes
  <2>3. slots' \in [Slots -> [want: BOOLEAN, peer: Peers \cup {NoPeer}]]
    <3>1. CASE WantConnect(t)
      BY <2>2, <3>1 DEF TypeOK, WantConnect
    <3>2. CASE StopConnect(t)
      <4>1. slots' = [slots EXCEPT ![h.slot].want = FALSE]
        BY <3>2 DEF StopConnect
      <4>2. slots \in [Slots -> [want: BOOLEAN, peer: Peers \cup {NoPeer}]]
        BY DEF TypeOK
      <4>3. [slots EXCEPT ![h.slot].want = FALSE] \in [Slots -> [want: BOOLEAN, peer: Peers \cup {NoPeer}]]
        <5> DEFINE P == Peers \cup {NoPeer}
        <5>1. slots \in [Slots -> [want: BOOLEAN, peer: P]] /\ h.slot \in Slots /\ FALSE \in BOOLEAN
          BY <2>2, <4>2
        <5> HIDE DEF h, P
        <5>2. [slots EXCEPT ![h.slot].want = FALSE] \in [Slots -> [want: BOOLEAN, peer: P]]
          BY <5>1, FieldTypes, Zenon
        <5> QED
          BY <5>2 DEF P
      <4> QED
        BY <4>1, <4>3, Zenon
    <3> QED
      BY <1>4, <3>1, <3>2
  <2>4. \/ Then(t, <<>>) \/ Then(t, <<Call("cancel", None)>>)
        \/ Then(t, <<Call("evaluate", None)>>)
    BY <1>4 DEF WantConnect, StopConnect
  <2>5. todo' \in [Threads -> Seq(Calls)]
    BY <2>1, <2>4, ArbCalls, TodoTypes
  <2> QED
    BY <1>4, <2>3, <2>5 DEF TypeOK, WantConnect, StopConnect, ble, env
<1>5. CASE ScanSuspend(t) \/ ScanResume(t)
  <2>1. todo[t] # <<>>
    BY <1>5 DEF ScanSuspend, ScanResume, At
  <2>2. suspended' \in BOOLEAN
    BY <1>5, Zenon DEF ScanSuspend, ScanResume
  <2>3. \/ Then(t, <<>>) \/ Then(t, <<Call("cancel", None)>>)
        \/ Then(t, <<Call("evaluate", None)>>)
    BY <1>5 DEF ScanSuspend, ScanResume
  <2>4. todo' \in [Threads -> Seq(Calls)]
    BY <2>1, <2>3, ArbCalls, TodoTypes
  <2> QED
    BY <1>5, <2>2, <2>4 DEF TypeOK, ScanSuspend, ScanResume, ble, env
<1>6. CASE Release(t)
  <2>1. todo[t] # <<>> /\ h.op \in SlotOps
    BY <1>6 DEF Release, At, SlotOps
  <2>2. h.slot \in Slots /\ h.peer \in Peers \cup {NoPeer}
    BY <2>1, HeadTypes
  <2>3. slots' \in [Slots -> [want: BOOLEAN, peer: Peers \cup {NoPeer}]]
    BY <1>6, <2>2 DEF TypeOK, Release
  <2>4. \/ Then(t, <<CallPeer("keep", h.slot, h.peer), Call("evaluate", None)>>)
        \/ Then(t, <<Call("lost", h.slot), Call("evaluate", None)>>)
    BY <1>6 DEF Release
  <2>5. CallPeer("keep", h.slot, h.peer) \in Calls /\ Call("lost", h.slot) \in Calls
    BY <2>2, SlotCalls DEF SlotOps
  <2>6. pending' \in Slots \cup {None} /\ forever' \in BOOLEAN
    BY <1>6 DEF TypeOK, Release
  <2> HIDE DEF h
  <2>7. todo' \in [Threads -> Seq(Calls)]
    BY <2>1, <2>4, <2>5, ArbCalls, TodoTypes
  <2> QED
    BY <1>6, <2>3, <2>6, <2>7 DEF TypeOK, Release, ble, env
<1> QED
  BY <1>1, <1>2, <1>3, <1>4, <1>5, <1>6

\* One client's record.
ClientRecords == [synced: BOOLEAN, bound: BOOLEAN, addr: Peers, parked: BOOLEAN,
                  scanning: BOOLEAN, handle: Peers \cup {NoPeer}]

LEMMA ClientTypes ==
    ASSUME TypeOK, NEW c \in Slots
    PROVE  /\ client[c] \in ClientRecords
           /\ \A r \in ClientRecords : [client EXCEPT ![c] = r] \in [Slots -> ClientRecords]
BY DEF TypeOK, ClientRecords

\* The changes that the callbacks make to a client's statics.
LEMMA ClientFields ==
    ASSUME TypeOK, NEW c \in Slots
    PROVE  /\ [client EXCEPT ![c].synced = TRUE] \in [Slots -> ClientRecords]
           /\ \A h \in Peers \cup {NoPeer} :
                  [client EXCEPT ![c].handle = h] \in [Slots -> ClientRecords]
           /\ \A b \in BOOLEAN : [client EXCEPT ![c].scanning = b] \in [Slots -> ClientRecords]
           /\ \A b \in BOOLEAN : [client EXCEPT ![c].parked = b] \in [Slots -> ClientRecords]
           /\ [client EXCEPT ![c].bound = FALSE] \in [Slots -> ClientRecords]
           /\ \A p \in Peers : [client EXCEPT ![c].bound = TRUE, ![c].addr = p, ![c].parked = FALSE]
                                   \in [Slots -> ClientRecords]
<1>1. client[c] \in ClientRecords
  BY ClientTypes
<1>2. [client[c] EXCEPT !.synced = TRUE] \in ClientRecords
  BY <1>1 DEF ClientRecords
<1>3. \A h \in Peers \cup {NoPeer} : [client[c] EXCEPT !.handle = h] \in ClientRecords
  BY <1>1 DEF ClientRecords
<1>4. \A b \in BOOLEAN : /\ [client[c] EXCEPT !.scanning = b] \in ClientRecords
                         /\ [client[c] EXCEPT !.parked = b] \in ClientRecords
  BY <1>1 DEF ClientRecords
<1>5. [client[c] EXCEPT !.bound = FALSE] \in ClientRecords
  BY <1>1 DEF ClientRecords
<1>6. \A p \in Peers : [client[c] EXCEPT !.bound = TRUE, !.addr = p, !.parked = FALSE]
                           \in ClientRecords
  BY <1>1 DEF ClientRecords
<1>7. client \in [Slots -> ClientRecords]
  BY DEF TypeOK, ClientRecords
<1>8. [client EXCEPT ![c].synced = TRUE] \in [Slots -> ClientRecords]
  BY <1>2, <1>7
<1>9. \A h \in Peers \cup {NoPeer} :
          [client EXCEPT ![c].handle = h] \in [Slots -> ClientRecords]
  BY <1>3, <1>7
<1>10. \A b \in BOOLEAN : [client EXCEPT ![c].scanning = b] \in [Slots -> ClientRecords]
  BY <1>4, <1>7
<1>11. \A b \in BOOLEAN : [client EXCEPT ![c].parked = b] \in [Slots -> ClientRecords]
  BY <1>4, <1>7
<1>12. [client EXCEPT ![c].bound = FALSE] \in [Slots -> ClientRecords]
  BY <1>5, <1>7
<1>13. ASSUME NEW p \in Peers
       PROVE  [client EXCEPT ![c].bound = TRUE, ![c].addr = p, ![c].parked = FALSE]
                  \in [Slots -> ClientRecords]
  <2>1. [client EXCEPT ![c] = [client[c] EXCEPT !.bound = TRUE, !.addr = p, !.parked = FALSE]]
            \in [Slots -> ClientRecords]
    BY <1>6, <1>7
  <2>2. [client EXCEPT ![c].bound = TRUE, ![c].addr = p, ![c].parked = FALSE]
           = [client EXCEPT ![c] = [client[c] EXCEPT !.bound = TRUE, !.addr = p, !.parked = FALSE]]
    BY <1>1, <1>7 DEF ClientRecords
  <2> QED
    BY <2>1, <2>2
<1> QED
  BY <1>8, <1>9, <1>10, <1>11, <1>12, <1>13

\* A callback that changes a client, the radio and its own thread's calls only.
LEMMA UnmovedTypes ==
    ASSUME TypeOK, UNCHANGED <<arb, boosted, awake, used>>, lapses' \subseteq Lapses,
           client' \in [Slots -> ClientRecords], gap' \in Procedures,
           links' = links, closing' \subseteq links, todo' \in [Threads -> Seq(Calls)]
    PROVE  TypeOK'
BY DEF TypeOK, arb, ClientRecords, Procedures

LEMMA TypeClients ==
    ASSUME TypeOK, lapses' \subseteq Lapses, NEW t \in Threads,
           \/ ClientSync(t) \/ ArmConnect(t) \/ KeepHandle(t) \/ LoseHandle(t)
           \/ Restart(t) \/ Drop(t) \/ StartDisc(t) \/ SetScanning(t) \/ CancelDisc(t)
           \/ EndScan(t) \/ CancelConnect(t)
    PROVE  TypeOK'
<1> DEFINE h == Head(todo[t])
<1>a. client \in [Slots -> ClientRecords] /\ gap \in Procedures /\ closing \subseteq links
  BY DEF TypeOK, ClientRecords, Procedures
<1>b. todo[t] # <<>>
  BY DEF ClientSync, ArmConnect, KeepHandle, LoseHandle, Restart, Drop, StartDisc,
         SetScanning, CancelDisc, EndScan, CancelConnect, At
<1>c. h.op \in SlotOps => h.slot \in Slots /\ h.peer \in Peers \cup {NoPeer}
  BY <1>b, HeadTypes
<1>d. h.op \in SlotOps => \A op \in SlotOps : Call(op, h.slot) \in Calls
  BY <1>c, SlotCalls
<1>e. NoPeer \in Peers \cup {NoPeer}
  OBVIOUS
<1>1. CASE ClientSync(t)
  <2>1. h.op \in SlotOps /\ Then(t, <<Call("arm", h.slot)>>) /\ Unmoved /\ UNCHANGED ble
    BY <1>1 DEF ClientSync, At, SlotOps
  <2>2. client' = [client EXCEPT ![h.slot].synced = TRUE]
    BY <1>1 DEF ClientSync
  <2> HIDE DEF h
  <2>3. client' \in [Slots -> ClientRecords]
    BY <1>c, <2>1, <2>2, ClientFields
  <2>4. Call("arm", h.slot) \in Calls
    BY <1>d, <2>1 DEF SlotOps
  <2>5. todo' \in [Threads -> Seq(Calls)]
    BY <1>b, <2>1, <2>4, TodoTypes
  <2> QED
    BY <1>a, <2>1, <2>3, <2>5, UnmovedTypes DEF ble, Unmoved, arb, env
<1>2. CASE ArmConnect(t)
  <2>1. /\ h.op \in SlotOps /\ Unmoved /\ UNCHANGED <<client, ble>>
        /\ Then(t, <<>>) \/ Then(t, <<Call("want", h.slot)>>)
    BY <1>2 DEF ArmConnect, At, SlotOps
  <2> HIDE DEF h
  <2>2. Call("want", h.slot) \in Calls
    BY <1>d, <2>1 DEF SlotOps
  <2>3. todo' \in [Threads -> Seq(Calls)]
    BY <1>b, <2>1, <2>2, TodoTypes
  <2> QED
    BY <1>a, <2>1, <2>3, UnmovedTypes DEF ble, Unmoved, arb, env
<1>3. CASE KeepHandle(t)
  <2>1. h.op \in SlotOps /\ Then(t, <<>>) /\ Unmoved /\ UNCHANGED ble
    BY <1>3 DEF KeepHandle, At, SlotOps
  <2>2. client' = [client EXCEPT ![h.slot].handle = h.peer]
    BY <1>3 DEF KeepHandle
  <2> HIDE DEF h
  <2>3. client' \in [Slots -> ClientRecords]
    BY <1>c, <2>1, <2>2, ClientFields
  <2>4. todo' \in [Threads -> Seq(Calls)]
    BY <1>b, <2>1, TodoTypes
  <2> QED
    BY <1>a, <2>1, <2>3, <2>4, UnmovedTypes DEF ble, Unmoved, arb, env
<1>4. CASE LoseHandle(t)
  <2>1. h.op \in SlotOps /\ Then(t, <<Call("arm", h.slot)>>) /\ Unmoved /\ UNCHANGED ble
    BY <1>4 DEF LoseHandle, At, SlotOps
  <2>2. client' = [client EXCEPT ![h.slot].handle = NoPeer]
    BY <1>4 DEF LoseHandle
  <2> HIDE DEF h
  <2>3. client' \in [Slots -> ClientRecords]
    BY <1>c, <1>e, <2>1, <2>2, ClientFields
  <2>4. Call("arm", h.slot) \in Calls
    BY <1>d, <2>1 DEF SlotOps
  <2>5. todo' \in [Threads -> Seq(Calls)]
    BY <1>b, <2>1, <2>4, TodoTypes
  <2> QED
    BY <1>a, <2>1, <2>3, <2>5, UnmovedTypes DEF ble, Unmoved, arb, env
<1>5. CASE Restart(t)
  <2>1. /\ h.op \in SlotOps /\ Unmoved /\ UNCHANGED <<client, gap, links>>
        /\ closing' \in {closing, Terminated(h.slot)}
        /\ Then(t, <<>>) \/ Then(t, <<Call("stop", h.slot), Call("arm", h.slot)>>)
    BY <1>5 DEF Restart, At, SlotOps
  <2> HIDE DEF h
  <2>2. Call("stop", h.slot) \in Calls /\ Call("arm", h.slot) \in Calls
    BY <1>d, <2>1 DEF SlotOps
  <2>3. todo' \in [Threads -> Seq(Calls)]
    BY <1>b, <2>1, <2>2, TodoTypes
  <2>4. closing' \subseteq links
    BY <1>a, <2>1 DEF Terminated
  <2> QED
    BY <1>a, <2>1, <2>3, <2>4, UnmovedTypes DEF Unmoved, arb, env
<1>6. CASE Drop(t)
  <2>1. h.op \in SlotOps /\ Then(t, <<>>) /\ Unmoved /\ UNCHANGED <<gap, links>>
    BY <1>6 DEF Drop, At, SlotOps
  <2>2. closing' = Terminated(h.slot) /\ client' = [client EXCEPT ![h.slot].handle = NoPeer]
    BY <1>6 DEF Drop
  <2> HIDE DEF h
  <2>3. client' \in [Slots -> ClientRecords]
    BY <1>c, <1>e, <2>1, <2>2, ClientFields
  <2>4. closing' \subseteq links
    BY <1>a, <2>2 DEF Terminated
  <2>5. todo' \in [Threads -> Seq(Calls)]
    BY <1>b, <2>1, TodoTypes
  <2> QED
    BY <1>a, <2>1, <2>3, <2>4, <2>5, UnmovedTypes DEF Unmoved, arb, env
<1>7. CASE StartDisc(t)
  <2>1. /\ h.op \in SlotOps /\ Unmoved /\ UNCHANGED <<client, links, closing>>
        /\ gap' = gap \/ gap' = [NoGap EXCEPT !.op = "scan", !.slot = h.slot]
        /\ \/ Then(t, <<Call("scanning", h.slot)>>)
           \/ Then(t, <<Call("arm", h.slot), Call("resume", None)>>)
    BY <1>7 DEF StartDisc, At, SlotOps
  <2> HIDE DEF h
  <2>2. Call("scanning", h.slot) \in Calls /\ Call("arm", h.slot) \in Calls
    BY <1>d, <2>1 DEF SlotOps
  <2>3. todo' \in [Threads -> Seq(Calls)]
    BY <1>b, <2>1, <2>2, ArbCalls, TodoTypes
  <2>4. gap' \in Procedures
    BY <1>a, <1>c, <2>1 DEF Procedures, NoGap
  <2> QED
    BY <1>a, <2>1, <2>3, <2>4, UnmovedTypes DEF Unmoved, arb, env
<1>8. CASE SetScanning(t)
  <2>1. h.op \in SlotOps /\ Then(t, <<>>) /\ Unmoved /\ UNCHANGED ble
    BY <1>8 DEF SetScanning, At, SlotOps
  <2>2. \E b \in BOOLEAN : client' = [client EXCEPT ![h.slot].scanning = b]
    <3>1. At(t, "scanning") \in BOOLEAN
      BY DEF At
    <3>2. client' = [client EXCEPT ![h.slot].scanning = At(t, "scanning")]
      BY <1>8 DEF SetScanning
    <3> QED
      BY <3>1, <3>2, Zenon
  <2> HIDE DEF h
  <2>3. client' \in [Slots -> ClientRecords]
    <3>1. PICK b \in BOOLEAN : client' = [client EXCEPT ![h.slot].scanning = b]
      BY <2>2
    <3>2. [client EXCEPT ![h.slot].scanning = b] \in [Slots -> ClientRecords]
      BY <1>c, <2>1, ClientFields
    <3> QED
      BY <3>1, <3>2, Zenon
  <2>4. todo' \in [Threads -> Seq(Calls)]
    BY <1>b, <2>1, TodoTypes
  <2> QED
    BY <1>a, <2>1, <2>3, <2>4, UnmovedTypes DEF ble, Unmoved, arb, env
<1>9. CASE CancelDisc(t) \/ CancelConnect(t)
  <2>1. Then(t, <<>>) /\ UNCHANGED <<arb, boosted, awake, used, client, links, closing>>
    BY <1>9 DEF CancelDisc, CancelConnect, Unmoved, arb, env
  <2>2. gap' \in Procedures
    <3>1. CASE CancelDisc(t)
      BY <1>a, <3>1 DEF CancelDisc, Procedures, NoGap
    <3>2. CASE CancelConnect(t)
      BY <1>a, <3>2 DEF CancelConnect, Procedures
    <3> QED
      BY <1>9, <3>1, <3>2
  <2>3. todo' \in [Threads -> Seq(Calls)]
    BY <1>b, <2>1, TodoTypes
  <2> QED
    BY <1>a, <2>1, <2>2, <2>3, UnmovedTypes DEF Unmoved, arb, env
<1>10. CASE EndScan(t)
  <2>1. /\ h.op \in SlotOps /\ Unmoved /\ UNCHANGED <<client, ble>>
        /\ \/ Then(t, <<>>)
           \/ Then(t, <<Call("canceldisc", h.slot), Call("scanned", h.slot), Call("resume", None)>>)
    BY <1>10 DEF EndScan, At, SlotOps
  <2> HIDE DEF h
  <2>2. Call("canceldisc", h.slot) \in Calls /\ Call("scanned", h.slot) \in Calls
    BY <1>d, <2>1 DEF SlotOps
  <2>3. todo' \in [Threads -> Seq(Calls)]
    BY <1>b, <2>1, <2>2, ArbCalls, TodoTypes
  <2> QED
    BY <1>a, <2>1, <2>3, UnmovedTypes DEF ble, Unmoved, arb, env
<1> QED
  BY <1>1, <1>2, <1>3, <1>4, <1>5, <1>6, <1>7, <1>8, <1>9, <1>10

\* A thread is handed up to four calls.
LEMMA StartedTypes ==
    ASSUME TypeOK, NEW t \in Threads,
           \/ \E c \in Calls : Starts(t, <<c>>)
           \/ \E c, d \in Calls : Starts(t, <<c, d>>)
           \/ \E c, d, e \in Calls : Starts(t, <<c, d, e>>)
           \/ \E c, d, e, f \in Calls : Starts(t, <<c, d, e, f>>)
    PROVE  todo' \in [Threads -> Seq(Calls)]
<1>1. CASE \E c \in Calls : Starts(t, <<c>>)
  <2>1. PICK c \in Calls : Starts(t, <<c>>)
    BY <1>1
  <2>2. <<c>> \in Seq(Calls)
    OBVIOUS
  <2> QED
    BY <2>1, <2>2, StartsTypes
<1>2. CASE \E c, d \in Calls : Starts(t, <<c, d>>)
  <2>1. PICK c \in Calls, d \in Calls : Starts(t, <<c, d>>)
    BY <1>2
  <2>2. <<c, d>> \in Seq(Calls)
    OBVIOUS
  <2> QED
    BY <2>1, <2>2, StartsTypes
<1>3. CASE \E c, d, e \in Calls : Starts(t, <<c, d, e>>)
  <2>1. PICK c \in Calls, d \in Calls, e \in Calls : Starts(t, <<c, d, e>>)
    BY <1>3
  <2>2. <<c, d, e>> \in Seq(Calls)
    OBVIOUS
  <2> QED
    BY <2>1, <2>2, StartsTypes
<1>4. CASE \E c, d, e, f \in Calls : Starts(t, <<c, d, e, f>>)
  <2>1. PICK c \in Calls, d \in Calls, e \in Calls, f \in Calls : Starts(t, <<c, d, e, f>>)
    BY <1>4
  <2>2. <<c, d, e, f>> \in Seq(Calls)
    OBVIOUS
  <2> QED
    BY <2>1, <2>2, StartsTypes
<1> QED
  BY <1>1, <1>2, <1>3, <1>4

\* The operations of the settings screens.
LEMMA TypeScreens == ASSUME TypeOK, lapses' \subseteq Lapses, Screens PROVE TypeOK'
<1>1. PICK c \in Slots : \/ ScanStart(c) \/ ScanStop(c) \/ Forget(c) \/ Park(c) \/ Reconnect(c)
                         \/ \E p \in Suits(c) : Bind(c, p)
  BY DEF Screens
<1>2. "lvgl" \in Threads /\ Suits(c) \subseteq Peers
  BY DEF Threads, Suits
<1>3. \A op \in SlotOps : Call(op, c) \in Calls
  BY SlotCalls
<1>4. /\ Call("disc", c) \in Calls /\ Call("canceldisc", c) \in Calls
      /\ Call("scanned", c) \in Calls /\ Call("arm", c) \in Calls
      /\ Call("endscan", c) \in Calls /\ Call("restart", c) \in Calls
      /\ Call("stop", c) \in Calls /\ Call("drop", c) \in Calls
  BY <1>3 DEF SlotOps
<1> DEFINE scan == <<Call("suspend", None), Call("disc", c)>>
           unscan == <<Call("canceldisc", c), Call("scanned", c), Call("arm", c),
                       Call("resume", None)>>
           bind == <<Call("endscan", c), Call("restart", c)>>
           drop == <<Call("stop", c), Call("drop", c)>>
           arm == <<Call("arm", c)>>
<1>5. Ui(scan) \/ Ui(unscan) \/ Ui(bind) \/ Ui(drop) \/ Ui(arm)
  BY <1>1 DEF ScanStart, ScanStop, Forget, Park, Reconnect, Bind
<1>6. UNCHANGED <<arb, boosted, ble, awake>> /\ used.ui < MaxUi /\ used' = [used EXCEPT !.ui = @ + 1]
  <2> HIDE DEF scan, unscan, bind, drop, arm
  <2> QED
    BY <1>5 DEF Ui
<1>7. todo' \in [Threads -> Seq(Calls)]
  <2>1. \/ Starts("lvgl", scan) \/ Starts("lvgl", unscan) \/ Starts("lvgl", bind)
        \/ Starts("lvgl", drop) \/ Starts("lvgl", arm)
    <3> HIDE DEF scan, unscan, bind, drop, arm
    <3> QED
      BY <1>5 DEF Ui
  <2> QED
    BY <1>2, <1>4, <2>1, ArbCalls, StartedTypes
<1>8. used' \in [ui: 0 .. MaxUi, sleeps: 0 .. MaxSleeps, ota: 0 .. MaxOta]
  BY <1>6, BleArbAssumption DEF TypeOK
<1>9. client' \in [Slots -> ClientRecords]
  <2>1. CASE ScanStart(c) \/ ScanStop(c)
    BY <2>1 DEF ScanStart, ScanStop, TypeOK, ClientRecords
  <2>2. CASE Forget(c)
    BY <2>2, ClientFields DEF Forget
  <2>3. CASE Park(c)
    <3>1. client' = [client EXCEPT ![c].parked = TRUE]
      BY <2>3 DEF Park
    <3> QED
      BY <3>1, ClientFields, Zenon
  <2>4. CASE Reconnect(c)
    <3>1. client' = [client EXCEPT ![c].parked = FALSE]
      BY <2>4 DEF Reconnect
    <3> QED
      BY <3>1, ClientFields, Zenon
  <2>5. CASE \E p \in Suits(c) : Bind(c, p)
    <3>1. PICK p \in Suits(c) : Bind(c, p)
      BY <2>5
    <3>2. client' = [client EXCEPT ![c].bound = TRUE, ![c].addr = p, ![c].parked = FALSE]
      BY <3>1 DEF Bind
    <3> QED
      BY <1>2, <3>2, ClientFields
  <2> QED
    BY <1>1, <2>1, <2>2, <2>3, <2>4, <2>5
<1> QED
  BY <1>6, <1>7, <1>8, <1>9 DEF TypeOK, arb, ble, ClientRecords

\* The update worker, the radio and the sensors.
LEMMA TypeWorld ==
    ASSUME TypeOK, lapses' \subseteq Lapses,
           \/ OtaBegin \/ OtaEnd \/ Nimble
           \/ \E p \in Peers : WakesUp(p) \/ FallsAsleep(p)
    PROVE  TypeOK'
<1> USE BleArbAssumption
<1>a. "ota" \in Threads /\ "host" \in Threads
  BY DEF Threads
<1>b. gap \in Procedures /\ NoGap \in Procedures
  BY DEF TypeOK, Procedures, NoGap
<1>c. gap.op # "idle" => gap.slot \in Slots
  BY DEF TypeOK, Procedures
<1>1. CASE OtaBegin \/ OtaEnd
  <2>1. Starts("ota", <<Call("suspend", None)>>) \/ Starts("ota", <<Call("resume", None)>>)
    BY <1>1 DEF OtaBegin, OtaEnd
  <2>2. todo' \in [Threads -> Seq(Calls)]
    BY <1>a, <2>1, ArbCalls, StartedTypes
  <2>3. boosted' \in BOOLEAN
    BY <1>1, Zenon DEF OtaBegin, OtaEnd
  <2>4. used' \in [ui: 0 .. MaxUi, sleeps: 0 .. MaxSleeps, ota: 0 .. MaxOta]
    BY <1>1 DEF OtaBegin, OtaEnd, TypeOK, env
  <2>5. UNCHANGED <<arb, client, ble, awake>>
    BY <1>1 DEF OtaBegin, OtaEnd, env
  <2> QED
    BY <2>2, <2>3, <2>4, <2>5 DEF TypeOK, arb, ble
<1>2. CASE Connected
  <2>1. /\ gap.slot \in Slots /\ gap.peer \in awake /\ awake \subseteq Peers
        /\ Starts("host", <<CallPeer("linked", gap.slot, gap.peer)>>)
        /\ links' = links \cup {gap.peer} /\ gap' = NoGap
        /\ UNCHANGED <<arb, client, boosted, closing, awake, used>>
    BY <1>2, <1>c DEF Connected, TypeOK
  <2>2. CallPeer("linked", gap.slot, gap.peer) \in Calls
    BY <2>1, SlotCalls
  <2>3. todo' \in [Threads -> Seq(Calls)]
    BY <1>a, <2>1, <2>2, StartedTypes
  <2> QED
    BY <1>b, <2>1, <2>3 DEF TypeOK, arb, env
<1>3. CASE ConnectFailed \/ DiscComplete
  <2>1. /\ gap.slot \in Slots /\ gap' = NoGap
        /\ \/ Starts("host", <<Call("failed", gap.slot)>>)
           \/ Starts("host", <<Call("scanned", gap.slot), Call("arm", gap.slot),
                               Call("resume", None)>>)
        /\ UNCHANGED <<arb, client, boosted, links, closing, awake, used>>
    BY <1>3, <1>c DEF ConnectFailed, DiscComplete, env
  <2>2. /\ Call("failed", gap.slot) \in Calls /\ Call("scanned", gap.slot) \in Calls
        /\ Call("arm", gap.slot) \in Calls
    BY <2>1, SlotCalls DEF SlotOps
  <2>3. todo' \in [Threads -> Seq(Calls)]
    BY <1>a, <2>1, <2>2, ArbCalls, StartedTypes
  <2> QED
    BY <1>b, <2>1, <2>3 DEF TypeOK, arb, env
<1>4. ASSUME NEW p \in Peers, Disconnected(p) PROVE TypeOK'
  <2>1. /\ Starts("host", <<Call("lost", p[1])>>)
        /\ links' = links \ {p} /\ closing' = closing \ {p}
        /\ UNCHANGED <<arb, client, boosted, gap, env>>
    BY <1>4 DEF Disconnected
  <2>2. p[1] \in Slots
    BY DEF Peers
  <2>3. Call("lost", p[1]) \in Calls
    BY <2>2, SlotCalls DEF SlotOps
  <2>4. todo' \in [Threads -> Seq(Calls)]
    BY <1>a, <2>1, <2>3, StartedTypes
  <2> QED
    BY <2>1, <2>4 DEF TypeOK, arb, env
<1>5. ASSUME NEW p \in Peers, WakesUp(p) \/ FallsAsleep(p) PROVE TypeOK'
  <2>1. awake' \subseteq Peers /\ UNCHANGED <<arb, client, boosted, ble, todo>>
    BY <1>5 DEF WakesUp, FallsAsleep, TypeOK
  <2>2. used' \in [ui: 0 .. MaxUi, sleeps: 0 .. MaxSleeps, ota: 0 .. MaxOta]
    BY <1>5 DEF WakesUp, FallsAsleep, TypeOK
  <2> QED
    BY <2>1, <2>2 DEF TypeOK, arb, ble
<1> QED
  BY <1>1, <1>2, <1>3, <1>4, <1>5 DEF Nimble

\* The lapses on record are those two.
LEMMA LapsesTypes ==
    ASSUME TypeOK, [Next]_vars
    PROVE  lapses' \subseteq Lapses
<1> USE DEF Lapses
<1>1. lapses \subseteq Lapses
  BY DEF TypeOK
<1>2. ASSUME NEW t \in Threads, Executes(t) PROVE lapses' \subseteq Lapses
  <2>1. CASE Evaluate(t) \/ Rollback(t) \/ CancelConnect(t)
    BY <1>1, <2>1 DEF Evaluate, Rollback, CancelConnect
  <2>2. CASE lapses' = lapses
    BY <1>1, <2>2
  <2> QED
    BY <1>2, <2>1, <2>2 DEF Executes, Connect, WantConnect, StopConnect, ScanSuspend, ScanResume,
       Release, ClientSync, ArmConnect, KeepHandle, LoseHandle, Restart, Drop, StartDisc,
       SetScanning, CancelDisc, EndScan, Unmoved, env
<1>3. CASE Nimble
  BY <1>1, <1>3 DEF Nimble, Connected, ConnectFailed, DiscComplete, Disconnected, env
<1>4. CASE \/ Screens \/ OtaBegin \/ OtaEnd \/ UNCHANGED vars
           \/ \E p \in Peers : WakesUp(p) \/ FallsAsleep(p)
  BY <1>1, <1>4 DEF Screens, ScanStart, ScanStop, Forget, Park, Reconnect, Bind, Ui, OtaBegin,
     OtaEnd, WakesUp, FallsAsleep, vars, env
<1> QED
  BY <1>2, <1>3, <1>4 DEF Next

LEMMA TypeStep == TypeOK /\ [Next]_vars => TypeOK'
<1> SUFFICES ASSUME TypeOK, [Next]_vars PROVE TypeOK'
  OBVIOUS
<1> USE LapsesTypes
<1>1. ASSUME NEW t \in Threads, Executes(t) PROVE TypeOK'
  BY <1>1, TypeArbiter, TypeClients DEF Executes
<1>2. CASE UNCHANGED vars
  BY <1>2 DEF TypeOK, vars
<1> QED
  BY <1>1, <1>2, TypeScreens, TypeWorld DEF Next

\* Every variable keeps its type, and with it every call that a thread has yet
\* to make: it names a client, or the arbiter.
THEOREM TypeCorrect == Spec => []TypeOK
<1> QED
  BY TypeInit, TypeStep, PTL DEF Spec

-----------------------------------------------------------------------------
(* The record of the initiator                                             *)
(*                                                                         *)
(* An attempt on record is at any time in one place: a thread is about to  *)
(* make it or to take it back, or NimBLE has it.  It is that thread's turn *)
(* to say what becomes of it, and nobody else's.                           *)

TokenOps == {"connect", "rollback", "failed", "linked"}

Turn(t) == todo[t] # <<>> /\ Head(todo[t]).op \in TokenOps

Behind(t) == \A i \in 2 .. Len(todo[t]) : todo[t][i].op \notin TokenOps

TurnIsPending == \A t \in Threads : Turn(t) => pending = Head(todo[t]).slot /\ gap.op # "connect"

OneTurn == \A t, u \in Threads : Turn(t) /\ Turn(u) => t = u

RadioIsPending ==
    gap.op = "connect" => pending = gap.slot /\ gap.forever = forever

BoundIsPending ==
    \A t \in Threads :
        Turn(t) /\ Head(todo[t]).op = "connect" => Head(todo[t]).forever = forever

PendingIsSomewhere == pending # None => gap.op = "connect" \/ \E t \in Threads : Turn(t)

TokenInv ==
    /\ \A t \in Threads : Behind(t)
    /\ TurnIsPending /\ OneTurn /\ RadioIsPending /\ BoundIsPending /\ PendingIsSomewhere

\* The calls that leave an attempt to whom it belongs.
Plain == {c \in Calls : c.op \notin TokenOps}

LEMMA PlainCalls ==
    /\ Call("evaluate", None) \in Plain /\ Call("cancel", None) \in Plain
    /\ Call("suspend", None) \in Plain /\ Call("resume", None) \in Plain
    /\ \A c \in Slots :
          /\ \A op \in SlotOps \ TokenOps : Call(op, c) \in Plain
          /\ \A p \in Peers \cup {NoPeer} : CallPeer("keep", c, p) \in Plain
<1>1. \A op \in ArbOps : op \notin TokenOps
  BY DEF ArbOps, TokenOps
<1>2. \A op \in ArbOps : Call(op, None) \in Plain
  BY <1>1, CallTypes DEF Plain
<1>3. \A c \in Slots, op \in SlotOps \ TokenOps : Call(op, c) \in Plain
  BY CallTypes DEF Plain
<1>4. "keep" \in SlotOps /\ "keep" \notin TokenOps
  BY DEF SlotOps, TokenOps
<1>5. \A c \in Slots, p \in Peers \cup {NoPeer} : CallPeer("keep", c, p) \in Plain
  BY <1>4, CallTypes DEF Plain
<1> QED
  BY <1>2, <1>3, <1>5 DEF ArbOps

\* A thread that has made plain calls only has none but those left.
LEMMA PlainThen ==
    ASSUME TypeOK, NEW t \in Threads, todo[t] # <<>>, Behind(t),
           NEW more \in Seq(Plain), Then(t, more)
    PROVE  /\ Behind(t)' /\ ~Turn(t)'
           /\ \A u \in Threads \ {t} : todo'[u] = todo[u]
<1>1. more \in Seq(Calls) /\ todo[t] \in Seq(Calls)
  BY DEF Plain, TypeOK
<1>2. todo'[t] = more \o Tail(todo[t]) /\ \A u \in Threads \ {t} : todo'[u] = todo[u]
  BY <1>1, ThenTypes
<1> DEFINE r == Tail(todo[t])
<1>3. \A i \in 1 .. Len(r) : r[i].op \notin TokenOps
  BY <1>1 DEF Behind
<1>4. r \in Seq(Calls)
  BY <1>1
<1> HIDE DEF r
<1>5. ASSUME NEW i \in 1 .. Len(more \o r) PROVE (more \o r)[i].op \notin TokenOps
  <2>1. CASE i <= Len(more)
    <3>1. (more \o r)[i] = more[i] /\ more[i] \in Plain
      BY <1>1, <1>4, <2>1
    <3> QED
      BY <3>1 DEF Plain
  <2>2. CASE i > Len(more)
    <3>1. (more \o r)[i] = r[i - Len(more)] /\ i - Len(more) \in 1 .. Len(r)
      BY <1>1, <1>4, <2>2
    <3> QED
      BY <1>3, <3>1
  <2> QED
    BY <1>1, <2>1, <2>2
<1>6. more \o r \in Seq(Calls)
  BY <1>1, <1>4
<1>7. todo'[t] = more \o r
  BY <1>2 DEF r
<1>8. Behind(t)'
  BY <1>5, <1>6, <1>7 DEF Behind
<1>9. ~Turn(t)'
  BY <1>5, <1>6, <1>7 DEF Turn
<1> QED
  BY <1>2, <1>8, <1>9

\* A thread that makes one call next has that call at its head.
LEMMA HeadThen ==
    ASSUME TypeOK, NEW t \in Threads, todo[t] # <<>>, Behind(t), NEW c \in Calls, Then(t, <<c>>)
    PROVE  /\ Behind(t)' /\ todo'[t] # <<>> /\ Head(todo'[t]) = c
           /\ \A u \in Threads \ {t} : todo'[u] = todo[u]
<1>1. <<c>> \in Seq(Calls) /\ todo[t] \in Seq(Calls)
  BY DEF TypeOK
<1>2. todo'[t] = <<c>> \o Tail(todo[t]) /\ \A u \in Threads \ {t} : todo'[u] = todo[u]
  BY <1>1, ThenTypes
<1>3. /\ todo'[t] # <<>> /\ Head(todo'[t]) = c
      /\ Len(todo'[t]) = Len(todo[t])
      /\ \A i \in 2 .. Len(todo[t]) : todo'[t][i] = todo[t][i]
  BY <1>1, <1>2
<1> QED
  BY <1>2, <1>3 DEF Behind

\* The same for a thread that is handed new work.
LEMMA PlainStarts ==
    ASSUME TypeOK, NEW t \in Threads, NEW calls \in Seq(Plain), Starts(t, calls)
    PROVE  /\ Behind(t)' /\ ~Turn(t) /\ ~Turn(t)'
           /\ \A u \in Threads \ {t} : todo'[u] = todo[u]
<1>1. calls \in Seq(Calls)
  BY DEF Plain
<1>2. todo'[t] = calls /\ todo[t] = <<>> /\ \A u \in Threads \ {t} : todo'[u] = todo[u]
  BY <1>1, StartsTypes
<1>3. \A i \in 1 .. Len(calls) : calls[i].op \notin TokenOps
  BY DEF Plain
<1> QED
  BY <1>1, <1>2, <1>3 DEF Behind, Turn

LEMMA HeadStarts ==
    ASSUME TypeOK, NEW t \in Threads, NEW c \in Calls, Starts(t, <<c>>)
    PROVE  /\ Behind(t)' /\ todo'[t] # <<>> /\ Head(todo'[t]) = c /\ ~Turn(t)
           /\ \A u \in Threads \ {t} : todo'[u] = todo[u]
<1>1. <<c>> \in Seq(Calls)
  OBVIOUS
<1>2. todo'[t] = <<c>> /\ todo[t] = <<>> /\ \A u \in Threads \ {t} : todo'[u] = todo[u]
  BY <1>1, StartsTypes
<1> QED
  BY <1>2 DEF Behind, Turn

\* NimBLE keeps the attempt it has, if it has one, and does not get another.
RadioKept ==
    /\ gap'.op = "connect" <=> gap.op = "connect"
    /\ gap.op = "connect" => gap'.slot = gap.slot /\ gap'.forever = gap.forever

\* A step that concerns nobody's attempt.
LEMMA TokenKept ==
    ASSUME TokenInv, NEW t \in Threads, Behind(t)', ~Turn(t), ~Turn(t)',
           \A u \in Threads \ {t} : todo'[u] = todo[u],
           pending' = pending, forever' = forever, RadioKept
    PROVE  TokenInv'
<1>1. \A u \in Threads \ {t} : Turn(u)' = Turn(u) /\ Behind(u)' = Behind(u)
  BY DEF Turn, Behind
<1>2. \A u \in Threads : Behind(u)'
  BY <1>1 DEF TokenInv
<1>3. TurnIsPending'
  BY <1>1 DEF TokenInv, TurnIsPending, RadioKept
<1>4. OneTurn'
  BY <1>1 DEF TokenInv, OneTurn
<1>5. RadioIsPending'
  BY DEF TokenInv, RadioIsPending, RadioKept
<1>6. BoundIsPending'
  BY <1>1 DEF TokenInv, BoundIsPending
<1>7. PendingIsSomewhere'
  BY <1>1 DEF TokenInv, PendingIsSomewhere, RadioKept
<1> QED
  BY <1>2, <1>3, <1>4, <1>5, <1>6, <1>7 DEF TokenInv

\* The calls of these actions are plain.
LEMMA PlainSeqs ==
    /\ <<>> \in Seq(Plain)
    /\ \A c \in Plain : <<c>> \in Seq(Plain)
    /\ \A c, d \in Plain : <<c, d>> \in Seq(Plain)
    /\ \A c, d, e \in Plain : <<c, d, e>> \in Seq(Plain)
    /\ \A c, d, e, f \in Plain : <<c, d, e, f>> \in Seq(Plain)
OBVIOUS

\* The operations on the arbiter that leave its record alone, and everything
\* the clients do, execute a plain call and make plain calls.
LEMMA PlainExecutes ==
    ASSUME TypeOK, NEW t \in Threads,
           \/ WantConnect(t) \/ StopConnect(t) \/ ScanSuspend(t) \/ ScanResume(t)
           \/ ClientSync(t) \/ ArmConnect(t) \/ KeepHandle(t) \/ LoseHandle(t)
           \/ Restart(t) \/ Drop(t) \/ StartDisc(t) \/ SetScanning(t) \/ CancelDisc(t)
           \/ EndScan(t) \/ CancelConnect(t)
    PROVE  /\ todo[t] # <<>> /\ ~Turn(t)
           /\ \E more \in Seq(Plain) : Then(t, more)
           /\ pending' = pending /\ forever' = forever /\ RadioKept
<1> DEFINE h == Head(todo[t])
<1>1. todo[t] # <<>> /\ ~Turn(t)
  BY DEF Turn, TokenOps, At, WantConnect, StopConnect, ScanSuspend, ScanResume, ClientSync,
         ArmConnect, KeepHandle, LoseHandle, Restart, Drop, StartDisc, SetScanning, CancelDisc,
         EndScan, CancelConnect
<1>2. pending' = pending
  BY DEF WantConnect, StopConnect, ScanSuspend, ScanResume, ClientSync,
         ArmConnect, KeepHandle, LoseHandle, Restart, Drop, StartDisc, SetScanning, CancelDisc,
         EndScan, CancelConnect, Unmoved, arb
<1>3. forever' = forever
  BY DEF WantConnect, StopConnect, ScanSuspend, ScanResume, ClientSync,
         ArmConnect, KeepHandle, LoseHandle, Restart, Drop, StartDisc, SetScanning, CancelDisc,
         EndScan, CancelConnect, Unmoved, arb
<1>4. RadioKept
  <2>1. CASE UNCHANGED gap
    BY <2>1 DEF RadioKept
  <2>2. CASE StartDisc(t) \/ CancelDisc(t)
    <3>1. \/ gap' = gap
          \/ gap.op \in {"idle", "scan"} /\ gap'.op \in {"idle", "scan"}
      <4>1. CASE StartDisc(t)
        <5>1. \/ gap' = gap
              \/ gap.op = "idle" /\ gap' = [NoGap EXCEPT !.op = "scan", !.slot = h.slot]
          BY <4>1 DEF StartDisc
        <5> HIDE DEF h
        <5> QED
          BY <5>1 DEF NoGap
      <4>2. CASE CancelDisc(t)
        <5>1. gap' = gap \/ (gap.op = "scan" /\ gap' = NoGap)
          BY <4>2 DEF CancelDisc
        <5> QED
          BY <5>1 DEF NoGap
      <4> QED
        BY <2>2, <4>1, <4>2
    <3> QED
      BY <3>1 DEF RadioKept
  <2>3. CASE CancelConnect(t)
    <3>1. gap \in Procedures /\ gap' = [gap EXCEPT !.cancelled = (gap.op = "connect")]
      BY <2>3 DEF CancelConnect, TypeOK
    <3> QED
      BY <3>1 DEF RadioKept, Procedures
  <2> QED
    BY <2>1, <2>2, <2>3 DEF WantConnect, StopConnect, ScanSuspend, ScanResume, ClientSync,
       ArmConnect, KeepHandle, LoseHandle, Restart, Drop, SetScanning, EndScan, ble
<1>5. \E more \in Seq(Plain) : Then(t, more)
  <2>1. CASE \/ WantConnect(t) \/ StopConnect(t) \/ ScanSuspend(t) \/ ScanResume(t)
             \/ KeepHandle(t) \/ Drop(t) \/ SetScanning(t) \/ CancelDisc(t) \/ CancelConnect(t)
    <3>1. \/ Then(t, <<>>) \/ Then(t, <<Call("cancel", None)>>)
          \/ Then(t, <<Call("evaluate", None)>>)
      BY <2>1 DEF WantConnect, StopConnect, ScanSuspend, ScanResume, KeepHandle, Drop,
                  SetScanning, CancelDisc, CancelConnect
    <3> QED
      BY <3>1, PlainCalls, PlainSeqs
  <2>2. CASE \/ ClientSync(t) \/ ArmConnect(t) \/ LoseHandle(t) \/ Restart(t) \/ StartDisc(t)
             \/ EndScan(t)
    <3>1. h.op \in SlotOps
      BY <2>2 DEF SlotOps, At, ClientSync, ArmConnect, LoseHandle, Restart, StartDisc, EndScan
    <3>2. h.slot \in Slots
      BY <1>1, <3>1, HeadTypes
    <3>3. \A op \in SlotOps \ TokenOps : Call(op, h.slot) \in Plain
      BY <3>2, PlainCalls
    <3>4. /\ Call("arm", h.slot) \in Plain /\ Call("want", h.slot) \in Plain
          /\ Call("stop", h.slot) \in Plain /\ Call("scanning", h.slot) \in Plain
          /\ Call("canceldisc", h.slot) \in Plain /\ Call("scanned", h.slot) \in Plain
      BY <3>3 DEF SlotOps, TokenOps
    <3>5. \/ Then(t, <<>>) \/ Then(t, <<Call("arm", h.slot)>>)
          \/ Then(t, <<Call("want", h.slot)>>) \/ Then(t, <<Call("scanning", h.slot)>>)
          \/ Then(t, <<Call("stop", h.slot), Call("arm", h.slot)>>)
          \/ Then(t, <<Call("arm", h.slot), Call("resume", None)>>)
          \/ Then(t, <<Call("canceldisc", h.slot), Call("scanned", h.slot), Call("resume", None)>>)
      BY <2>2 DEF ClientSync, ArmConnect, LoseHandle, Restart, StartDisc, EndScan
    <3> HIDE DEF h
    <3> QED
      BY <3>4, <3>5, PlainCalls, PlainSeqs
  <2> QED
    BY <2>1, <2>2
<1> QED
  BY <1>1, <1>2, <1>3, <1>4, <1>5

LEMMA TokenPlain ==
    ASSUME TypeOK, TokenInv, NEW t \in Threads,
           \/ WantConnect(t) \/ StopConnect(t) \/ ScanSuspend(t) \/ ScanResume(t)
           \/ ClientSync(t) \/ ArmConnect(t) \/ KeepHandle(t) \/ LoseHandle(t)
           \/ Restart(t) \/ Drop(t) \/ StartDisc(t) \/ SetScanning(t) \/ CancelDisc(t)
           \/ EndScan(t) \/ CancelConnect(t)
    PROVE  TokenInv'
<1>1. /\ todo[t] # <<>> /\ ~Turn(t)
      /\ \E more \in Seq(Plain) : Then(t, more)
      /\ pending' = pending /\ forever' = forever /\ RadioKept
  BY PlainExecutes
<1>2. PICK more \in Seq(Plain) : Then(t, more)
  BY <1>1
<1>3. Behind(t)
  BY DEF TokenInv
<1>4. Behind(t)' /\ ~Turn(t)' /\ \A u \in Threads \ {t} : todo'[u] = todo[u]
  BY <1>1, <1>2, <1>3, PlainThen
<1> QED
  BY <1>1, <1>4, TokenKept

\* What the arbiter does with its record, and the call that does it for it.
LEMMA TokenEvaluate ==
    ASSUME TypeOK, TokenInv, NEW t \in Threads, Evaluate(t)
    PROVE  TokenInv'
<1>1. todo[t] # <<>> /\ ~Turn(t) /\ Behind(t) /\ UNCHANGED ble
  BY DEF Evaluate, At, Turn, TokenOps, TokenInv
<1>2. CASE Blocked
  <2>1. Then(t, <<>>) /\ UNCHANGED <<pending, forever, next>>
    BY <1>2 DEF Evaluate
  <2>2. Behind(t)' /\ ~Turn(t)' /\ \A u \in Threads \ {t} : todo'[u] = todo[u]
    BY <1>1, <2>1, PlainSeqs, PlainThen
  <2> QED
    BY <1>1, <2>1, <2>2, TokenKept DEF ble, RadioKept
<1>3. CASE ~Blocked
  <2>1. Pick \in Slots /\ pending = None
    BY <1>3, PickWants DEF TypeOK, Blocked, Wanting
  <2>2. pending' = Pick /\ forever' \in BOOLEAN
    BY <1>3 DEF Evaluate
  <2> DEFINE c == [op |-> "connect", slot |-> Pick, peer |-> slots[Pick].peer,
                   forever |-> forever']
  <2>3. c \in Calls /\ Then(t, <<c>>)
    BY <1>3, <2>1, <2>2 DEF TypeOK, Calls, SlotOps, Evaluate
  <2>4. c.op = "connect" /\ c.slot = Pick /\ c.forever = forever'
    OBVIOUS
  <2>5. \A u \in Threads : ~Turn(u)
    <3>1. \A u \in Threads : Turn(u) => Head(todo[u]).slot \in Slots
      BY HeadTypes DEF Turn, TokenOps, SlotOps
    <3> QED
      BY <2>1, <3>1 DEF TokenInv, TurnIsPending, Slots, None
  <2>6. gap.op # "connect" /\ gap' = gap
    <3>1. gap.op = "connect" => gap.slot \in Slots
      BY DEF TypeOK, Procedures
    <3> QED
      BY <1>1, <2>1, <3>1 DEF TokenInv, RadioIsPending, Slots, None, ble
  <2> HIDE DEF c
  <2>7. /\ Behind(t)' /\ todo'[t] # <<>> /\ Head(todo'[t]) = c
        /\ \A u \in Threads \ {t} : todo'[u] = todo[u]
    BY <1>1, <2>3, HeadThen
  <2>8. /\ Turn(t)' /\ \A u \in Threads \ {t} : ~Turn(u)'
        /\ \A u \in Threads : Behind(u)'
    BY <2>4, <2>5, <2>7 DEF Turn, TokenOps, TokenInv, Behind
  <2> QED
    BY <2>2, <2>4, <2>6, <2>7, <2>8 DEF TokenInv, TurnIsPending, OneTurn, RadioIsPending,
       BoundIsPending, PendingIsSomewhere
<1> QED
  BY <1>2, <1>3

LEMMA TokenConnect ==
    ASSUME TypeOK, TokenInv, NEW t \in Threads, Connect(t)
    PROVE  TokenInv'
<1> DEFINE h == Head(todo[t])
<1>1. /\ todo[t] # <<>> /\ Behind(t) /\ h.op = "connect" /\ Turn(t)
      /\ pending' = pending /\ forever' = forever
  BY DEF Connect, At, Turn, TokenOps, TokenInv, arb
<1>2. h.slot \in Slots
  BY <1>1, HeadTypes DEF SlotOps
<1>3. pending = h.slot /\ gap.op # "connect" /\ h.forever = forever
  BY <1>1 DEF TokenInv, TurnIsPending, BoundIsPending
<1>4. \A u \in Threads \ {t} : ~Turn(u)
  BY <1>1 DEF TokenInv, OneTurn
<1>5. CASE /\ gap' = [op |-> "connect", slot |-> h.slot, peer |-> h.peer,
                      forever |-> h.forever, cancelled |-> FALSE]
           /\ Then(t, <<>>)
  <2>1. Behind(t)' /\ ~Turn(t)' /\ \A u \in Threads \ {t} : todo'[u] = todo[u]
    BY <1>1, <1>5, PlainSeqs, PlainThen
  <2>2. \A u \in Threads : ~Turn(u)' /\ Behind(u)'
    BY <1>4, <2>1 DEF Turn, Behind, TokenInv
  <2>3. gap'.op = "connect" /\ gap'.slot = pending /\ gap'.forever = forever
    BY <1>3, <1>5
  <2> QED
    BY <1>1, <2>2, <2>3 DEF TokenInv, TurnIsPending, OneTurn, RadioIsPending,
       BoundIsPending, PendingIsSomewhere
<1>6. CASE UNCHANGED gap /\ Then(t, <<Call("rollback", h.slot)>>)
  <2> DEFINE c == Call("rollback", h.slot)
  <2>1. c \in Calls /\ c.op = "rollback" /\ c.slot = h.slot
    BY <1>2, CallTypes DEF SlotOps
  <2> HIDE DEF c
  <2>2. /\ Behind(t)' /\ todo'[t] # <<>> /\ Head(todo'[t]) = c
        /\ \A u \in Threads \ {t} : todo'[u] = todo[u]
    BY <1>1, <1>6, <2>1, HeadThen DEF c
  <2>3. /\ Turn(t)' /\ \A u \in Threads \ {t} : ~Turn(u)'
        /\ \A u \in Threads : Behind(u)'
    BY <1>4, <2>1, <2>2 DEF Turn, TokenOps, TokenInv, Behind
  <2> QED
    BY <1>1, <1>3, <1>6, <2>1, <2>2, <2>3 DEF TokenInv, TurnIsPending, OneTurn, RadioIsPending,
       BoundIsPending, PendingIsSomewhere
<1> QED
  BY <1>5, <1>6 DEF Connect

\* A record that is taken back, or answered by a connection event.
LEMMA TokenReturned ==
    ASSUME TypeOK, TokenInv, NEW t \in Threads, Rollback(t) \/ Release(t)
    PROVE  TokenInv'
<1> DEFINE h == Head(todo[t])
<1>1. todo[t] # <<>> /\ Behind(t) /\ Turn(t) /\ gap' = gap
  BY DEF Rollback, Release, At, Turn, TokenOps, TokenInv, ble
<1>2. h.slot \in Slots /\ h.peer \in Peers \cup {NoPeer}
  BY <1>1, HeadTypes DEF Turn, TokenOps, SlotOps
<1>3. pending = h.slot /\ gap.op # "connect" /\ \A u \in Threads \ {t} : ~Turn(u)
  BY <1>1 DEF TokenInv, TurnIsPending, OneTurn
<1>4. pending' = None
  BY <1>3 DEF Rollback, Release
<1>5. \E more \in Seq(Plain) : Then(t, more)
  <2>1. CallPeer("keep", h.slot, h.peer) \in Plain /\ Call("lost", h.slot) \in Plain
    BY <1>2, PlainCalls DEF SlotOps, TokenOps
  <2>2. \/ Then(t, <<>>)
        \/ Then(t, <<CallPeer("keep", h.slot, h.peer), Call("evaluate", None)>>)
        \/ Then(t, <<Call("lost", h.slot), Call("evaluate", None)>>)
    BY DEF Rollback, Release
  <2> HIDE DEF h
  <2> QED
    BY <2>1, <2>2, PlainCalls, PlainSeqs
<1>6. Behind(t)' /\ ~Turn(t)' /\ \A u \in Threads \ {t} : todo'[u] = todo[u]
  BY <1>1, <1>5, PlainThen
<1>7. \A u \in Threads : ~Turn(u)' /\ Behind(u)'
  BY <1>3, <1>6 DEF Turn, Behind, TokenInv
<1> QED
  BY <1>1, <1>3, <1>4, <1>7 DEF TokenInv, TurnIsPending, OneTurn, RadioIsPending,
     BoundIsPending, PendingIsSomewhere

\* The screens hand plain calls to their own thread and do nothing else.
LEMMA PlainScreens ==
    ASSUME TypeOK, Screens
    PROVE  /\ "lvgl" \in Threads /\ \E calls \in Seq(Plain) : Starts("lvgl", calls)
           /\ UNCHANGED <<arb, ble>>
<1>1. PICK c \in Slots : \/ ScanStart(c) \/ ScanStop(c) \/ Forget(c) \/ Park(c) \/ Reconnect(c)
                         \/ \E p \in Suits(c) : Bind(c, p)
  BY DEF Screens
<1>2. "lvgl" \in Threads
  BY DEF Threads
<1>3. /\ Call("disc", c) \in Plain /\ Call("canceldisc", c) \in Plain
      /\ Call("scanned", c) \in Plain /\ Call("arm", c) \in Plain
      /\ Call("endscan", c) \in Plain /\ Call("restart", c) \in Plain
      /\ Call("stop", c) \in Plain /\ Call("drop", c) \in Plain
  <2>1. \A op \in SlotOps \ TokenOps : Call(op, c) \in Plain
    BY PlainCalls
  <2> QED
    BY <2>1 DEF SlotOps, TokenOps
<1> DEFINE scan == <<Call("suspend", None), Call("disc", c)>>
           unscan == <<Call("canceldisc", c), Call("scanned", c), Call("arm", c),
                       Call("resume", None)>>
           bind == <<Call("endscan", c), Call("restart", c)>>
           drop == <<Call("stop", c), Call("drop", c)>>
           arm == <<Call("arm", c)>>
<1>4. Ui(scan) \/ Ui(unscan) \/ Ui(bind) \/ Ui(drop) \/ Ui(arm)
  BY <1>1 DEF ScanStart, ScanStop, Forget, Park, Reconnect, Bind
<1>5. /\ scan \in Seq(Plain) /\ unscan \in Seq(Plain) /\ bind \in Seq(Plain)
      /\ drop \in Seq(Plain) /\ arm \in Seq(Plain)
  BY <1>3, PlainCalls, PlainSeqs
<1>6. /\ \E calls \in Seq(Plain) : Starts("lvgl", calls)
      /\ UNCHANGED <<arb, ble>>
  <2> HIDE DEF scan, unscan, bind, drop, arm
  <2> QED
    BY <1>4, <1>5 DEF Ui
<1> QED
  BY <1>2, <1>6

LEMMA TokenScreens == ASSUME TypeOK, TokenInv, Screens PROVE TokenInv'
<1>1. PICK calls \in Seq(Plain) : Starts("lvgl", calls)
  BY PlainScreens
<1>2. "lvgl" \in Threads /\ UNCHANGED <<arb, ble>>
  BY PlainScreens
<1>3. /\ Behind("lvgl")' /\ ~Turn("lvgl") /\ ~Turn("lvgl")'
      /\ \A u \in Threads \ {"lvgl"} : todo'[u] = todo[u]
  BY <1>1, <1>2, PlainStarts
<1> QED
  BY <1>2, <1>3, TokenKept DEF arb, ble, RadioKept

\* A connection event hands the attempt from NimBLE to the host task.
LEMMA TokenEvent == ASSUME TypeOK, TokenInv, Connected \/ ConnectFailed PROVE TokenInv'
<1>1. /\ gap.op = "connect" /\ gap.slot \in Slots /\ gap' = NoGap
      /\ pending' = pending /\ forever' = forever
  BY DEF Connected, ConnectFailed, TypeOK, Procedures, arb
<1>2. "host" \in Threads
  BY DEF Threads
<1>3. PICK c \in Calls : /\ Starts("host", <<c>>)
                         /\ c.op \in {"linked", "failed"} /\ c.slot = gap.slot
  <2>1. CASE Connected
    <3>1. gap.peer \in Peers
      BY <2>1 DEF Connected, TypeOK
    <3>2. CallPeer("linked", gap.slot, gap.peer) \in Calls
      BY <1>1, <3>1, SlotCalls
    <3> QED
      BY <2>1, <3>2, CallTypes DEF Connected
  <2>2. CASE ConnectFailed
    <3>1. Call("failed", gap.slot) \in Calls
      BY <1>1, SlotCalls DEF SlotOps
    <3> QED
      BY <2>2, <3>1, CallTypes DEF ConnectFailed
  <2> QED
    BY <2>1, <2>2
<1>4. /\ Behind("host")' /\ todo'["host"] # <<>> /\ Head(todo'["host"]) = c /\ ~Turn("host")
      /\ \A u \in Threads \ {"host"} : todo'[u] = todo[u]
  BY <1>2, <1>3, HeadStarts
<1>5. \A u \in Threads : ~Turn(u)
  BY <1>1 DEF TokenInv, TurnIsPending
<1>6. pending = c.slot
  BY <1>1, <1>3 DEF TokenInv, RadioIsPending
<1>7. /\ Turn("host")' /\ \A u \in Threads \ {"host"} : ~Turn(u)'
      /\ \A u \in Threads : Behind(u)'
  BY <1>3, <1>4, <1>5 DEF Turn, TokenOps, TokenInv, Behind
<1>8. gap'.op # "connect"
  BY <1>1 DEF NoGap
<1> QED
  BY <1>1, <1>2, <1>3, <1>4, <1>6, <1>7, <1>8 DEF TokenInv, TurnIsPending, OneTurn,
     RadioIsPending, BoundIsPending, PendingIsSomewhere

\* The end of a scan or of a link, and the update worker, hand plain calls to a
\* thread that has none.
LEMMA PlainWorld ==
    ASSUME TypeOK, OtaBegin \/ OtaEnd \/ DiscComplete \/ \E p \in Peers : Disconnected(p)
    PROVE  /\ \E t \in Threads : \E calls \in Seq(Plain) : Starts(t, calls)
           /\ UNCHANGED arb
           /\ gap' = gap \/ (gap.op # "connect" /\ gap'.op # "connect")
<1>1. UNCHANGED arb
  BY DEF OtaBegin, OtaEnd, DiscComplete, Disconnected
<1>2. gap' = gap \/ (gap.op # "connect" /\ gap'.op # "connect")
  <2>1. gap' = gap \/ (gap.op = "scan" /\ gap' = NoGap)
    BY DEF OtaBegin, OtaEnd, DiscComplete, Disconnected, ble
  <2> QED
    BY <2>1 DEF NoGap
<1>3. "ota" \in Threads /\ "host" \in Threads
  BY DEF Threads
<1>4. CASE OtaBegin \/ OtaEnd
  <2>1. Starts("ota", <<Call("suspend", None)>>) \/ Starts("ota", <<Call("resume", None)>>)
    BY <1>4 DEF OtaBegin, OtaEnd
  <2> QED
    BY <1>1, <1>2, <1>3, <2>1, PlainCalls, PlainSeqs
<1>5. CASE DiscComplete
  <2>1. gap.slot \in Slots
    BY <1>5 DEF DiscComplete, TypeOK, Procedures
  <2>2. \A op \in SlotOps \ TokenOps : Call(op, gap.slot) \in Plain
    BY <2>1, PlainCalls
  <2>3. Call("scanned", gap.slot) \in Plain /\ Call("arm", gap.slot) \in Plain
    BY <2>2 DEF SlotOps, TokenOps
  <2>4. <<Call("scanned", gap.slot), Call("arm", gap.slot), Call("resume", None)>> \in Seq(Plain)
    BY <2>3, PlainCalls, PlainSeqs
  <2> QED
    BY <1>1, <1>2, <1>3, <1>5, <2>4 DEF DiscComplete
<1>6. CASE \E p \in Peers : Disconnected(p)
  <2>1. PICK p \in Peers : Disconnected(p)
    BY <1>6
  <2>2. p[1] \in Slots
    BY DEF Peers
  <2>3. \A op \in SlotOps \ TokenOps : Call(op, p[1]) \in Plain
    BY <2>2, PlainCalls
  <2>4. Call("lost", p[1]) \in Plain
    BY <2>3 DEF SlotOps, TokenOps
  <2>5. <<Call("lost", p[1])>> \in Seq(Plain)
    BY <2>4, PlainSeqs
  <2> QED
    BY <1>1, <1>2, <1>3, <2>1, <2>5 DEF Disconnected
<1> QED
  BY <1>4, <1>5, <1>6

LEMMA TokenWorld ==
    ASSUME TypeOK, TokenInv,
           \/ OtaBegin \/ OtaEnd \/ DiscComplete
           \/ \E p \in Peers : Disconnected(p) \/ WakesUp(p) \/ FallsAsleep(p)
    PROVE  TokenInv'
<1>1. CASE OtaBegin \/ OtaEnd \/ DiscComplete \/ \E p \in Peers : Disconnected(p)
  <2>1. PICK t \in Threads : \E calls \in Seq(Plain) : Starts(t, calls)
    BY <1>1, PlainWorld
  <2>2. /\ Behind(t)' /\ ~Turn(t) /\ ~Turn(t)'
        /\ \A u \in Threads \ {t} : todo'[u] = todo[u]
    BY <2>1, PlainStarts
  <2>3. pending' = pending /\ forever' = forever
    BY <1>1, PlainWorld DEF arb
  <2>4. RadioKept
    BY <1>1, PlainWorld DEF RadioKept
  <2> QED
    BY <2>2, <2>3, <2>4, TokenKept
<1>2. CASE \E p \in Peers : WakesUp(p) \/ FallsAsleep(p)
  <2>1. UNCHANGED <<pending, forever, gap, todo>>
    BY <1>2 DEF WakesUp, FallsAsleep, arb, ble
  <2> QED
    BY <2>1 DEF TokenInv, TurnIsPending, OneTurn, RadioIsPending, BoundIsPending,
       PendingIsSomewhere, Turn, Behind
<1> QED
  BY <1>1, <1>2

LEMMA TokenInit == Init => TokenInv
<1> SUFFICES ASSUME Init PROVE TokenInv
  OBVIOUS
<1>1. \A t \in Threads : \A i \in 1 .. Len(todo[t]) : todo[t][i].op = "sync"
  BY BleArbAssumption DEF Init, Call
<1>2. \A t \in Threads : todo[t] # <<>> => Head(todo[t]).op = "sync"
  <2>1. \A t \in Threads : todo[t] # <<>> => Len(todo[t]) >= 1 /\ Head(todo[t]) = todo[t][1]
    BY TypeInit DEF TypeOK
  <2> QED
    BY <1>1, <2>1
<1>3. \A t \in Threads : Behind(t) /\ ~Turn(t)
  BY <1>1, <1>2, TypeInit DEF Behind, Turn, TokenOps, TypeOK
<1>4. gap.op = "idle" /\ pending = None
  BY DEF Init, NoGap
<1> QED
  BY <1>3, <1>4 DEF TokenInv, TurnIsPending, OneTurn, RadioIsPending, BoundIsPending,
     PendingIsSomewhere

LEMMA TokenStep == TypeOK /\ TokenInv /\ [Next]_vars => TokenInv'
<1> SUFFICES ASSUME TypeOK, TokenInv, [Next]_vars PROVE TokenInv'
  OBVIOUS
<1>1. ASSUME NEW t \in Threads, Executes(t) PROVE TokenInv'
  BY <1>1, TokenPlain, TokenEvaluate, TokenConnect, TokenReturned DEF Executes
<1>2. CASE Nimble
  BY <1>2, TokenEvent, TokenWorld DEF Nimble
<1>3. CASE UNCHANGED vars
  BY <1>3 DEF vars, TokenInv, TurnIsPending, OneTurn, RadioIsPending, BoundIsPending,
     PendingIsSomewhere, Turn, Behind
<1> QED
  BY <1>1, <1>2, <1>3, TokenScreens, TokenWorld DEF Next

LEMMA TokenMeansReal == TokenInv => PendingIsReal
<1> SUFFICES ASSUME TokenInv PROVE PendingIsReal
  OBVIOUS
<1>1. Idle => \A t \in Threads : ~Turn(t)
  BY DEF Idle, Turn
<1> QED
  BY <1>1 DEF TokenInv, RadioIsPending, PendingIsSomewhere, PendingIsReal

\* However the threads overtake each other between the arbiter's lock and the
\* calls into NimBLE, s_pending is NimBLE's initiator: never an attempt without
\* its owner on record, never a record left behind when every call has returned.
THEOREM RecordIsRadios == Spec => []PendingIsReal
<1> QED
  BY TypeInit, TypeStep, TokenInit, TokenStep, TokenMeansReal, PTL DEF Spec

-----------------------------------------------------------------------------
(* Parking, and taking turns                                               *)

HeadIs(t, op) == todo[t] # <<>> /\ Head(todo[t]).op = op

\* The attempt on record is at its end, or has been cancelled, or is about to
\* be, unless its cancellation missed.
Ending ==
    \/ gap.op = "connect" /\ gap.cancelled
    \/ \E t \in Threads : HeadIs(t, "cancel")
    \/ \E t \in Threads : Turn(t) /\ ~HeadIs(t, "connect")
    \/ Missed

\* Nothing but such an attempt is on record while the arbiter is suspended.
QuietInv == suspended /\ pending # None => Ending

\* An attempt without a limit has no rival, unless it is such a one.
RotateInv == pending # None /\ forever => Wanting \subseteq {pending} \/ Ending

\* Only t moves.
Moves(t) == \A u \in Threads \ {t} : todo'[u] = todo[u]

LEMMA MovesThen ==
    ASSUME TypeOK, NEW t \in Threads, NEW more, Then(t, more)
    PROVE  Moves(t)
BY DEF Moves, Then, TypeOK

LEMMA MovesStarts ==
    ASSUME TypeOK, NEW t \in Threads, NEW calls, Starts(t, calls)
    PROVE  Moves(t)
BY DEF Moves, Starts, TypeOK

\* A thread that is neither cancelling nor has the turn leaves an ending
\* attempt to its end.
LEMMA EndingKept ==
    ASSUME NEW t \in Threads, Moves(t), ~Turn(t), ~HeadIs(t, "cancel"), Missed => Missed',
           gap' = gap \/ (gap.op # "connect" /\ gap'.op # "connect")
    PROVE  Ending => Ending'
<1>1. \A u \in Threads : HeadIs(u, "cancel") => HeadIs(u, "cancel")'
  BY DEF Moves, HeadIs
<1>2. \A u \in Threads : Turn(u) /\ ~HeadIs(u, "connect") => (Turn(u) /\ ~HeadIs(u, "connect"))'
  BY DEF Moves, HeadIs, Turn
<1> QED
  BY <1>1, <1>2 DEF Ending

\* A step that neither parks the arbiter, nor adds a rival, nor touches the
\* attempt.
LEMMA Aside ==
    ASSUME QuietInv, RotateInv, NEW t \in Threads, Moves(t),
           ~Turn(t), ~HeadIs(t, "cancel"), Missed => Missed',
           pending' = pending, forever' = forever, suspended' => suspended,
           Wanting' \subseteq Wanting,
           gap' = gap \/ (gap.op # "connect" /\ gap'.op # "connect")
    PROVE  QuietInv' /\ RotateInv'
<1>1. Ending => Ending'
  BY EndingKept
<1> QED
  BY <1>1 DEF QuietInv, RotateInv

\* The calls that concern neither.
LEMMA EndAside ==
    ASSUME TypeOK, TokenInv, QuietInv, RotateInv, NEW t \in Threads,
           \/ StopConnect(t) \/ ScanResume(t)
           \/ ClientSync(t) \/ ArmConnect(t) \/ KeepHandle(t) \/ LoseHandle(t)
           \/ Restart(t) \/ Drop(t) \/ StartDisc(t) \/ SetScanning(t) \/ CancelDisc(t)
           \/ EndScan(t)
    PROVE  QuietInv' /\ RotateInv'
<1>1. /\ todo[t] # <<>> /\ ~Turn(t)
      /\ \E more \in Seq(Plain) : Then(t, more)
      /\ pending' = pending /\ forever' = forever
  BY PlainExecutes
<1>2. ~HeadIs(t, "cancel")
  BY DEF At, HeadIs, StopConnect, ScanResume, ClientSync, ArmConnect, KeepHandle, LoseHandle,
         Restart, Drop, StartDisc, SetScanning, CancelDisc, EndScan
<1>3. Moves(t)
  BY <1>1, MovesThen
<1>4. Missed => Missed'
  BY DEF Missed, StopConnect, ScanResume, ClientSync, ArmConnect, KeepHandle, LoseHandle,
         Restart, Drop, StartDisc, SetScanning, CancelDisc, EndScan, Unmoved, env
<1>6. suspended' => suspended
  BY DEF StopConnect, ScanResume, ClientSync, ArmConnect, KeepHandle, LoseHandle,
         Restart, Drop, StartDisc, SetScanning, CancelDisc, EndScan, Unmoved
<1>7. Wanting' \subseteq Wanting
  <2>1. CASE StopConnect(t)
    <3>1. slots' = [slots EXCEPT ![Head(todo[t]).slot].want = FALSE]
      BY <2>1 DEF StopConnect
    <3>2. \A c \in Slots : slots'[c].want => slots[c].want
      BY <3>1 DEF TypeOK
    <3> QED
      BY <3>2 DEF Wanting
  <2>2. CASE slots' = slots
    BY <2>2 DEF Wanting
  <2> QED
    BY <2>1, <2>2 DEF ScanResume, ClientSync, ArmConnect, KeepHandle, LoseHandle,
       Restart, Drop, StartDisc, SetScanning, CancelDisc, EndScan, Unmoved
<1>8. gap' = gap \/ (gap.op # "connect" /\ gap'.op # "connect")
  <2>1. CASE StartDisc(t)
    <3> DEFINE h == Head(todo[t])
    <3>1. gap' = gap \/ (gap.op = "idle" /\ gap' = [NoGap EXCEPT !.op = "scan", !.slot = h.slot])
      BY <2>1 DEF StartDisc
    <3> HIDE DEF h
    <3> QED
      BY <3>1 DEF NoGap
  <2>2. CASE CancelDisc(t)
    <3>1. gap' = gap \/ (gap.op = "scan" /\ gap' = NoGap)
      BY <2>2 DEF CancelDisc
    <3> QED
      BY <3>1 DEF NoGap
  <2>3. CASE gap' = gap
    BY <2>3
  <2> QED
    BY <2>1, <2>2, <2>3 DEF StopConnect, ScanResume, ClientSync, ArmConnect, KeepHandle,
       LoseHandle, Restart, Drop, SetScanning, EndScan, ble
<1> QED
  BY <1>1, <1>2, <1>3, <1>4, <1>6, <1>7, <1>8, Aside

\* With fewer than two clients waiting, the one that is picked is the only one.
LEMMA PickAlone ==
    ASSUME next \in Slots, Wanting # {}, Cardinality(Wanting) < 2
    PROVE  Wanting \subseteq {Pick}
<1>1. Pick \in Wanting
  BY PickWants
<1>2. IsFiniteSet(Wanting)
  <2>1. IsFiniteSet(Slots)
    BY FS_Interval, BleArbAssumption DEF Slots
  <2>2. Wanting \subseteq Slots
    BY DEF Wanting
  <2> QED
    BY <2>1, <2>2, FS_Subset
<1>3. ASSUME NEW c \in Wanting, c # Pick PROVE FALSE
  <2>1. {c, Pick} \subseteq Wanting
    BY <1>1, <1>3
  <2>2. Cardinality({c, Pick}) = 2
    <3>1. IsFiniteSet({Pick}) /\ Cardinality({Pick}) = 1
      BY FS_Singleton
    <3>2. Cardinality({Pick} \cup {c}) = 2
      BY <1>3, <3>1, FS_AddElement
    <3>3. {c, Pick} = {Pick} \cup {c}
      OBVIOUS
    <3> QED
      BY <3>2, <3>3
  <2>3. Cardinality({c, Pick}) <= Cardinality(Wanting)
    BY <1>2, <2>1, FS_Subset
  <2>4. Cardinality(Wanting) \in Nat
    BY <1>2, FS_CardinalityType
  <2> QED
    BY <2>2, <2>3, <2>4
<1> QED
  BY <1>3

LEMMA EndEvaluate ==
    ASSUME TypeOK, TokenInv, QuietInv, RotateInv, NEW t \in Threads, Evaluate(t)
    PROVE  QuietInv' /\ RotateInv'
<1>1. /\ ~Turn(t) /\ ~HeadIs(t, "cancel")
      /\ gap' = gap /\ suspended' = suspended /\ slots' = slots
  BY DEF Evaluate, At, Turn, HeadIs, TokenOps, ble
<1>2. CASE Blocked
  <2>1. Then(t, <<>>) /\ pending' = pending /\ forever' = forever /\ lapses' = lapses
    BY <1>2 DEF Evaluate
  <2>2. Moves(t) /\ Wanting' \subseteq Wanting /\ (Missed => Missed')
    BY <1>1, <2>1, MovesThen DEF Wanting, Missed
  <2> QED
    BY <1>1, <2>1, <2>2, Aside
<1>3. CASE ~Blocked
  <2>1. ~suspended /\ Wanting # {} /\ next \in Slots
    BY <1>3 DEF Blocked, TypeOK
  <2>2. pending' = Pick /\ forever' = (Cardinality(Wanting) < 2)
    BY <1>3 DEF Evaluate
  <2>3. QuietInv'
    BY <1>1, <2>1 DEF QuietInv
  <2>4. forever' => Wanting' \subseteq {pending'}
    <3>1. Wanting' = Wanting
      BY <1>1 DEF Wanting
    <3>2. forever' => Cardinality(Wanting) < 2
      BY <2>2
    <3>3. Cardinality(Wanting) < 2 => Wanting \subseteq {Pick}
      BY <2>1, PickAlone
    <3> QED
      BY <2>2, <3>1, <3>2, <3>3
  <2>5. RotateInv'
    BY <2>4 DEF RotateInv
  <2> QED
    BY <2>3, <2>5
<1> QED
  BY <1>2, <1>3

\* An attempt that is cancelled before it is made: the cancellation is still to
\* come, or has missed.
LEMMA EndConnect ==
    ASSUME TypeOK, TokenInv, QuietInv, RotateInv, NEW t \in Threads, Connect(t)
    PROVE  QuietInv' /\ RotateInv'
<1> DEFINE h == Head(todo[t])
<1>1. /\ HeadIs(t, "connect") /\ Turn(t) /\ UNCHANGED <<slots, pending, forever, suspended, lapses>>
  BY DEF Connect, At, HeadIs, Turn, TokenOps, arb, env
<1>2. gap.op # "connect" /\ \A u \in Threads : Turn(u) => u = t
  BY <1>1 DEF TokenInv, TurnIsPending, OneTurn
<1>3. Moves(t)
  <2>1. Then(t, <<>>) \/ Then(t, <<Call("rollback", h.slot)>>)
    BY DEF Connect
  <2> HIDE DEF h
  <2> QED
    BY <2>1, MovesThen
<1>4. Ending => (\E u \in Threads : HeadIs(u, "cancel")) \/ Missed
  BY <1>1, <1>2 DEF Ending
<1>5. \A u \in Threads : HeadIs(u, "cancel") => HeadIs(u, "cancel")'
  BY <1>1, <1>3 DEF Moves, HeadIs
<1>6. Missed => Missed'
  BY <1>1 DEF Missed
<1>7. Ending => Ending'
  BY <1>4, <1>5, <1>6 DEF Ending
<1>8. Wanting' = Wanting
  BY <1>1 DEF Wanting
<1> QED
  BY <1>1, <1>7, <1>8 DEF QuietInv, RotateInv

\* Nothing is on record any more.
LEMMA EndReturned ==
    ASSUME TypeOK, TokenInv, NEW t \in Threads, Rollback(t) \/ Release(t)
    PROVE  QuietInv' /\ RotateInv'
<1>1. Turn(t) /\ pending = Head(todo[t]).slot
  <2>1. Turn(t)
    BY DEF Rollback, Release, At, Turn, TokenOps
  <2> QED
    BY <2>1 DEF TokenInv, TurnIsPending
<1>2. pending' = None
  BY <1>1 DEF Rollback, Release
<1> QED
  BY <1>2 DEF QuietInv, RotateInv

\* A call to cancel the attempt is an ending of it.
LEMMA CancelThen ==
    ASSUME TypeOK, TokenInv, NEW t \in Threads, todo[t] # <<>>,
           Then(t, <<Call("cancel", None)>>)
    PROVE  Ending'
<1>1. Call("cancel", None) \in Calls /\ Call("cancel", None).op = "cancel"
  BY ArbCalls, CallTypes
<1>2. HeadIs(t, "cancel")'
  BY <1>1, HeadThen DEF HeadIs, TokenInv
<1> QED
  BY <1>2 DEF Ending

\* A rival cuts an unlimited attempt short.
LEMMA EndWant ==
    ASSUME TypeOK, TokenInv, QuietInv, RotateInv, NEW t \in Threads, WantConnect(t)
    PROVE  QuietInv' /\ RotateInv'
<1> DEFINE c == Head(todo[t]).slot
<1>1. /\ todo[t] # <<>> /\ ~Turn(t) /\ ~HeadIs(t, "cancel")
      /\ UNCHANGED <<pending, forever, suspended, gap, lapses>>
      /\ slots' = [slots EXCEPT ![c] = [want |-> TRUE, peer |-> client[c].addr]]
  BY DEF WantConnect, At, Turn, HeadIs, TokenOps, ble, env
<1>2. \/ Then(t, <<Call("cancel", None)>>)
      \/ /\ Then(t, <<>>) \/ Then(t, <<Call("evaluate", None)>>)
         /\ pending = None \/ pending = c \/ ~forever
  BY DEF WantConnect
<1>3. CASE Then(t, <<Call("cancel", None)>>)
  BY <1>1, <1>3, CancelThen DEF QuietInv, RotateInv
<1>4. CASE /\ Then(t, <<>>) \/ Then(t, <<Call("evaluate", None)>>)
           /\ pending = None \/ pending = c \/ ~forever
  <2>1. Moves(t) /\ (Missed => Missed')
    BY <1>1, <1>4, MovesThen DEF Missed
  <2>2. Ending => Ending'
    BY <1>1, <2>1, EndingKept
  <2>3. Wanting' \subseteq Wanting \cup {c}
    BY <1>1 DEF Wanting, TypeOK
  <2> HIDE DEF c
  <2> QED
    BY <1>1, <1>4, <2>2, <2>3 DEF QuietInv, RotateInv
<1> QED
  BY <1>2, <1>3, <1>4

\* Parking cuts every attempt short.
LEMMA EndSuspend ==
    ASSUME TypeOK, TokenInv, QuietInv, RotateInv, NEW t \in Threads, ScanSuspend(t)
    PROVE  QuietInv' /\ RotateInv'
<1>1. /\ todo[t] # <<>> /\ UNCHANGED <<slots, pending, forever>>
      /\ \/ Then(t, <<Call("cancel", None)>>)
         \/ pending = None
  BY DEF ScanSuspend, At
<1>2. CASE Then(t, <<Call("cancel", None)>>)
  BY <1>1, <1>2, CancelThen DEF QuietInv, RotateInv
<1>3. CASE pending = None
  BY <1>1, <1>3 DEF QuietInv, RotateInv
<1> QED
  BY <1>1, <1>2, <1>3

\* A cancellation ends the attempt on the radio; where there is none, either
\* somebody is about to report its end or the cancellation has missed it.
LEMMA EndCancel ==
    ASSUME TypeOK, TokenInv, QuietInv, RotateInv, NEW t \in Threads, CancelConnect(t)
    PROVE  QuietInv' /\ RotateInv'
<1>1. /\ todo[t] # <<>> /\ Then(t, <<>>) /\ ~Turn(t)
      /\ UNCHANGED <<slots, pending, forever, suspended>>
      /\ gap' = [gap EXCEPT !.cancelled = (gap.op = "connect")]
  BY DEF CancelConnect, At, Turn, TokenOps, arb
<1>2. gap'.op = gap.op /\ (gap.op = "connect" => gap'.cancelled)
  BY <1>1 DEF TypeOK, Procedures
<1>3. Moves(t)
  BY <1>1, MovesThen
<1>4. CASE gap.op = "connect"
  BY <1>1, <1>2, <1>4 DEF QuietInv, RotateInv, Ending
<1>5. CASE pending # None /\ gap.op # "connect"
  <2>1. PICK u \in Threads : Turn(u)
    BY <1>5 DEF TokenInv, PendingIsSomewhere
  <2>2. u # t /\ todo'[u] = todo[u]
    BY <1>1, <1>3, <2>1 DEF Moves
  <2>3. CASE HeadIs(u, "connect")
    <3>1. \E v \in Threads : At(v, "connect")
      BY <2>3 DEF HeadIs, At
    <3>2. Missed'
      BY <1>5, <3>1 DEF CancelConnect, Missed
    <3> QED
      BY <3>2 DEF QuietInv, RotateInv, Ending
  <2>4. CASE ~HeadIs(u, "connect")
    <3>1. (Turn(u) /\ ~HeadIs(u, "connect"))'
      BY <2>1, <2>2, <2>4 DEF Turn, HeadIs
    <3> QED
      BY <3>1 DEF QuietInv, RotateInv, Ending
  <2> QED
    BY <2>3, <2>4
<1>6. CASE pending = None
  BY <1>1, <1>6 DEF QuietInv, RotateInv
<1> QED
  BY <1>4, <1>5, <1>6

\* The screens, the update worker, the end of a scan or of a link, the sensors.
LEMMA EndWorld ==
    ASSUME TypeOK, TokenInv, QuietInv, RotateInv,
           \/ Screens \/ OtaBegin \/ OtaEnd \/ DiscComplete
           \/ \E p \in Peers : Disconnected(p) \/ WakesUp(p) \/ FallsAsleep(p)
    PROVE  QuietInv' /\ RotateInv'
<1>1. CASE \/ Screens \/ OtaBegin \/ OtaEnd \/ DiscComplete
           \/ \E p \in Peers : Disconnected(p)
  <2>1. PICK t \in Threads : \E calls \in Seq(Plain) : Starts(t, calls)
    BY <1>1, PlainScreens, PlainWorld
  <2>2. Moves(t) /\ ~Turn(t) /\ ~HeadIs(t, "cancel")
    BY <2>1, MovesStarts DEF Starts, Turn, HeadIs
  <2>3. Missed => Missed'
    BY <1>1 DEF Screens, ScanStart, ScanStop, Forget, Park, Reconnect, Bind, Ui, OtaBegin, OtaEnd,
       DiscComplete, Disconnected, Missed, env
  <2>4. UNCHANGED arb
    BY <1>1, PlainScreens, PlainWorld
  <2>5. gap' = gap \/ (gap.op # "connect" /\ gap'.op # "connect")
    BY <1>1, PlainScreens, PlainWorld DEF ble
  <2>6. Wanting' \subseteq Wanting
    BY <2>4 DEF arb, Wanting
  <2>7. pending' = pending /\ forever' = forever /\ (suspended' => suspended)
    BY <2>4 DEF arb
  <2> QED
    BY <2>2, <2>3, <2>5, <2>6, <2>7, Aside
<1>2. CASE \E p \in Peers : WakesUp(p) \/ FallsAsleep(p)
  <2>1. UNCHANGED <<slots, pending, forever, suspended, gap, todo, lapses>>
    BY <1>2 DEF WakesUp, FallsAsleep, arb, ble
  <2> QED
    BY <2>1 DEF QuietInv, RotateInv, Ending, Missed, HeadIs, Turn, Wanting
<1> QED
  BY <1>1, <1>2

\* The attempt is over, and the host task is about to say so.
LEMMA EndEvent ==
    ASSUME TypeOK, TokenInv, QuietInv, RotateInv, Connected \/ ConnectFailed
    PROVE  QuietInv' /\ RotateInv'
<1>1. gap.slot \in Slots /\ (Connected => gap.peer \in Peers)
  BY DEF Connected, ConnectFailed, TypeOK, Procedures
<1>2. PICK c \in Calls : Starts("host", <<c>>) /\ c.op \in {"linked", "failed"}
  <2>1. CASE Connected
    <3>1. CallPeer("linked", gap.slot, gap.peer) \in Calls
      BY <1>1, <2>1, SlotCalls
    <3> QED
      BY <2>1, <3>1, CallTypes DEF Connected
  <2>2. CASE ConnectFailed
    <3>1. Call("failed", gap.slot) \in Calls
      BY <1>1, SlotCalls DEF SlotOps
    <3> QED
      BY <2>2, <3>1, CallTypes DEF ConnectFailed
  <2> QED
    BY <2>1, <2>2
<1>3. "host" \in Threads /\ todo'["host"] # <<>> /\ Head(todo'["host"]) = c
  BY <1>2, HeadStarts DEF Threads
<1>4. (Turn("host") /\ ~HeadIs("host", "connect"))'
  BY <1>2, <1>3 DEF HeadIs, Turn, TokenOps
<1> QED
  BY <1>3, <1>4 DEF QuietInv, RotateInv, Ending

LEMMA EndInit == Init => QuietInv /\ RotateInv
BY DEF Init, QuietInv, RotateInv

LEMMA EndStep ==
    TypeOK /\ TokenInv /\ QuietInv /\ RotateInv /\ [Next]_vars => QuietInv' /\ RotateInv'
<1> SUFFICES ASSUME TypeOK, TokenInv, QuietInv, RotateInv, [Next]_vars
             PROVE  QuietInv' /\ RotateInv'
  OBVIOUS
<1>1. ASSUME NEW t \in Threads, Executes(t) PROVE QuietInv' /\ RotateInv'
  BY <1>1, EndAside, EndEvaluate, EndConnect, EndReturned, EndWant, EndSuspend,
     EndCancel DEF Executes
<1>2. CASE Nimble
  BY <1>2, EndEvent, EndWorld DEF Nimble
<1>3. CASE UNCHANGED vars
  BY <1>3 DEF vars, QuietInv, RotateInv, Ending, Missed, HeadIs, Turn, Wanting
<1> QED
  BY <1>1, <1>2, <1>3, EndWorld DEF Next

\* When every call has returned, an attempt on record is NimBLE's.
LEMMA IdleEnding ==
    ASSUME TypeOK, TokenInv, Idle, Ending
    PROVE  gap.cancelled \/ Missed
BY DEF Ending, Idle, HeadIs, Turn

\* However the threads overtake each other, an arbiter parked for a scan or an
\* update leaves no attempt on the radio that is not being cancelled
\* (scan_suspend cancels what it finds, evaluate starts nothing), but one whose
\* cancellation was carried out before the attempt itself.
THEOREM ParkingSilences == Spec => []ParkedIsQuiet
<1>1. TypeOK /\ TokenInv /\ QuietInv => ParkedIsQuiet
  <2>1. SUFFICES ASSUME TypeOK, TokenInv, QuietInv, Idle, suspended, gap.op = "connect"
                 PROVE  gap.cancelled \/ Missed
    BY DEF ParkedIsQuiet
  <2>2. pending = gap.slot /\ gap.slot \in Slots /\ gap.slot # None
    BY <2>1, BleArbAssumption DEF TokenInv, RadioIsPending, TypeOK, Procedures, Slots, None
  <2> QED
    BY <2>1, <2>2, IdleEnding DEF QuietInv
<1> QED
  BY <1>1, TypeInit, TypeStep, TokenInit, TokenStep, EndInit, EndStep, PTL DEF Spec

\* An attempt without a limit is in progress only while its client is the only
\* one that wants to connect, or while it is being cancelled: with two of them
\* waiting they take turns, and neither starves the other, however the threads
\* overtake each other, unless a cancellation was carried out before its attempt.
THEOREM WaitingRotates == Spec => []BothWaitingRotate
<1>1. TypeOK /\ TokenInv /\ RotateInv => BothWaitingRotate
  BY IdleEnding DEF RotateInv, BothWaitingRotate
<1> QED
  BY <1>1, TypeInit, TypeStep, TokenInit, TokenStep, EndInit, EndStep, PTL DEF Spec

-----------------------------------------------------------------------------
(* The clients' side.  A thread that switches a request off, or a scan, has   *)
(* the call that arms the client again behind it, and a handle that is dead   *)
(* has the event that takes it away behind it; what a client is told about a  *)
(* link is about one of its own.                                              *)

\* The client has a sensor to connect to.
Assigned(c) == client[c].bound /\ ~client[c].parked

\* The arguments a call may have: a connection event is the host task's, about a
\* link of the client that is up; only the screens take a request back, and what
\* ends with a drop has switched the client off first.
Fits(t, x) ==
    /\ x.op = "connect" => x.peer \in Suits(x.slot)
    /\ x.op \in {"linked", "keep"} => t = "host" /\ x.peer \in Suits(x.slot) /\ x.peer \in links
    /\ x.op \in {"stop", "drop", "restart"} => t = "lvgl"
    /\ x.op = "drop" => ~Assigned(x.slot)

Later(s, i, ops, c) == \E j \in (i + 1) .. Len(s) : s[j].op \in ops /\ s[j].slot = c

\* What follows the end of a scan, and a request that is taken back.
Promise(t, i) ==
    LET x == todo[t][i]
    IN  /\ x.op = "scanned" => Later(todo[t], i, {"arm", "restart"}, x.slot)
        /\ x.op = "endscan" => Later(todo[t], i, {"restart"}, x.slot)
        /\ x.op = "stop" => ~Assigned(x.slot) \/ Later(todo[t], i, {"arm"}, x.slot)

FitsAt(t, i) == Fits(t, todo[t][i])

CallInv == \A t \in Threads : \A i \in 1 .. Len(todo[t]) : FitsAt(t, i) /\ Promise(t, i)

\* The addresses of a client are its own.
SuitInv ==
    /\ \A c \in Slots : /\ client[c].addr \in Suits(c)
                        /\ client[c].handle \in Suits(c) \cup {NoPeer}
                        /\ slots[c].want => slots[c].peer \in Suits(c)
    /\ gap.op = "connect" => gap.peer \in Suits(gap.slot)

Somewhere(ops, c) ==
    \E t \in Threads : \E i \in 1 .. Len(todo[t]) : todo[t][i].op \in ops /\ todo[t][i].slot = c

\* The calls after which a client has what it wants, or is about to ask for it.
RearmOps == {"arm", "want", "lost", "restart", "keep"}

Wished(c) == slots[c].want /\ slots[c].peer = client[c].addr

WishInv ==
    \A c \in Slots :
        (Ready(c) /\ client[c].handle = NoPeer) => Wished(c) \/ Somewhere(RearmOps, c)

HandleInv ==
    \A c \in Slots :
        client[c].handle # NoPeer => client[c].handle \in links \/ Somewhere({"lost"}, c)

\* The calls that none of this is about.
Simple == {c \in Calls : c.op \notin {"connect", "linked", "keep", "stop", "drop", "restart",
                                      "scanned", "endscan"}}

\* Where the calls are after a thread has executed one and made `more'.
LEMMA AfterThen ==
    ASSUME TypeOK, NEW t \in Threads, todo[t] # <<>>, NEW more \in Seq(Calls), Then(t, more)
    PROVE  /\ \A u \in Threads \ {t} : todo'[u] = todo[u]
           /\ todo[t] \in Seq(Calls) /\ todo'[t] \in Seq(Calls)
           /\ Len(todo'[t]) = Len(more) + Len(todo[t]) - 1
           /\ \A i \in 1 .. Len(more) : todo'[t][i] = more[i] /\ i \in 1 .. Len(todo'[t])
           /\ \A i \in 2 .. Len(todo[t]) : todo'[t][Len(more) + i - 1] = todo[t][i]
           /\ Len(todo[t]) >= 1 /\ Head(todo[t]) = todo[t][1]
<1>1. todo[t] \in Seq(Calls)
  BY DEF TypeOK
<1>2. todo'[t] = more \o Tail(todo[t]) /\ \A u \in Threads \ {t} : todo'[u] = todo[u]
  BY ThenTypes
<1>3. /\ Tail(todo[t]) \in Seq(Calls) /\ Len(Tail(todo[t])) = Len(todo[t]) - 1
      /\ \A i \in 2 .. Len(todo[t]) : Tail(todo[t])[i - 1] = todo[t][i]
      /\ Len(todo[t]) >= 1 /\ Head(todo[t]) = todo[t][1]
  BY <1>1
<1> DEFINE r == Tail(todo[t])
<1>4. more \o r \in Seq(Calls) /\ Len(more \o r) = Len(more) + Len(r)
  BY <1>3
<1>5. \A i \in 1 .. Len(more) : (more \o r)[i] = more[i]
  BY <1>3
<1>6. ASSUME NEW i \in 2 .. Len(todo[t]) PROVE (more \o r)[Len(more) + i - 1] = todo[t][i]
  <2>1. r[i - 1] = todo[t][i] /\ i - 1 \in 1 .. Len(r)
    BY <1>1, <1>3
  <2> HIDE DEF r
  <2>2. r \in Seq(Calls)
    BY <1>3 DEF r
  <2>3. (more \o r)[Len(more) + (i - 1)] = r[i - 1]
    BY <2>1, <2>2
  <2> QED
    BY <1>1, <2>1, <2>3
<1> QED
  BY <1>1, <1>2, <1>3, <1>4, <1>5, <1>6

LEMMA LaterThen ==
    ASSUME TypeOK, NEW t \in Threads, todo[t] # <<>>, NEW more \in Seq(Calls), Then(t, more),
           NEW i \in 1 .. Len(todo[t]), NEW ops, NEW c, Later(todo[t], i, ops, c)
    PROVE  Later(todo'[t], Len(more) + i - 1, ops, c)
<1>1. PICK j \in (i + 1) .. Len(todo[t]) : todo[t][j].op \in ops /\ todo[t][j].slot = c
  BY DEF Later
<1>2. /\ j \in 2 .. Len(todo[t]) /\ Len(more) \in Nat /\ Len(todo[t]) \in Nat
      /\ Len(more) + j - 1 \in (Len(more) + i - 1 + 1) .. Len(todo'[t])
  BY AfterThen
<1>3. todo'[t][Len(more) + j - 1] = todo[t][j]
  BY <1>2, AfterThen
<1> QED
  BY <1>1, <1>2, <1>3 DEF Later

\* The calls that were there keep their places, their arguments and what follows.
LEMMA CallsThen ==
    ASSUME TypeOK, CallInv, NEW t \in Threads, todo[t] # <<>>, NEW more \in Seq(Calls),
           Then(t, more), links' = links, \A c \in Slots : Assigned(c)' => Assigned(c),
           \A i \in 1 .. Len(more) : Fits(t, more[i])' /\ Promise(t, i)'
    PROVE  CallInv'
<1>1. ASSUME NEW x \in Calls, NEW u \in Threads, Fits(u, x) PROVE Fits(u, x)'
  <2>1. x.op = "drop" => x.slot \in Slots
    BY DEF Calls, ArbOps
  <2> QED
    BY <1>1, <2>1 DEF Fits
<1>2. ASSUME NEW u \in Threads \ {t}, NEW i \in 1 .. Len(todo'[u])
      PROVE  FitsAt(u, i)' /\ Promise(u, i)'
  <2>1. todo'[u] = todo[u] /\ todo[u] \in Seq(Calls)
    BY AfterThen DEF TypeOK
  <2>2. Fits(u, todo[u][i]) /\ Promise(u, i) /\ todo[u][i] \in Calls
    BY <2>1 DEF CallInv, FitsAt
  <2>3. FitsAt(u, i)'
    <3>1. PICK x \in Calls : x = todo[u][i]
      BY <2>2
    <3>2. Fits(u, x)'
      BY <1>1, <2>2, <3>1
    <3> QED
      BY <2>1, <3>1, <3>2 DEF Fits, FitsAt
  <2>4. todo[u][i].op = "stop" => todo[u][i].slot \in Slots
    BY <2>2 DEF Calls, ArbOps
  <2>5. Promise(u, i)'
    BY <2>1, <2>2, <2>4 DEF Promise
  <2> QED
    BY <2>1, <2>3, <2>5
<1>3. ASSUME NEW i \in 1 .. Len(todo'[t])
      PROVE  FitsAt(t, i)' /\ Promise(t, i)'
  <2>1. CASE i <= Len(more)
    <3>1. i \in 1 .. Len(more) /\ todo'[t][i] = more[i]
      BY <2>1, AfterThen
    <3> QED
      BY <3>1 DEF Fits, FitsAt
  <2>2. CASE i > Len(more)
    <3>1. PICK k \in 2 .. Len(todo[t]) : i = Len(more) + k - 1
      <4>1. /\ Len(more) \in Nat /\ Len(todo[t]) \in Nat
            /\ Len(todo'[t]) = Len(more) + Len(todo[t]) - 1
        BY AfterThen
      <4>2. i - Len(more) + 1 \in 2 .. Len(todo[t])
        BY <2>2, <4>1
      <4>3. i = Len(more) + (i - Len(more) + 1) - 1
        BY <4>1
      <4> QED
        BY <4>2, <4>3
    <3>2. todo'[t][i] = todo[t][k] /\ todo[t][k] \in Calls
      BY <3>1, AfterThen
    <3>3. k \in 1 .. Len(todo[t])
      BY <3>1, AfterThen
    <3>4. Fits(t, todo[t][k]) /\ Promise(t, k)
      BY <3>3 DEF CallInv, FitsAt
    <3>5. PICK x \in Calls : x = todo[t][k]
      BY <3>2
    <3>6. FitsAt(t, i)'
      <4>1. Fits(t, x)'
        BY <1>1, <3>4, <3>5
      <4> QED
        BY <3>2, <3>5, <4>1 DEF Fits, FitsAt
    <3>7. todo[t][k].op = "stop" => todo[t][k].slot \in Slots
      BY <3>2 DEF Calls, ArbOps
    <3>8. \A ops, c : Later(todo[t], k, ops, c) => Later(todo'[t], i, ops, c)
      BY <3>1, <3>3, LaterThen
    <3>9. Promise(t, i)'
      BY <3>2, <3>4, <3>7, <3>8 DEF Promise
    <3> QED
      BY <3>6, <3>9
  <2> QED
    BY <2>1, <2>2, AfterThen
<1> QED
  BY <1>2, <1>3 DEF CallInv

\* The same for a thread that is handed new work.  Links go down, and clients
\* are switched on, only by a thread that has nothing left to do.
LEMMA CallsStart ==
    ASSUME TypeOK, CallInv, NEW t \in Threads, NEW calls \in Seq(Calls), Starts(t, calls),
           links \subseteq links' \/ t = "host",
           (\A c \in Slots : Assigned(c)' => Assigned(c)) \/ t = "lvgl",
           \A i \in 1 .. Len(calls) : Fits(t, calls[i])' /\ Promise(t, i)'
    PROVE  CallInv'
<1>1. ASSUME NEW u \in Threads \ {t}, NEW i \in 1 .. Len(todo'[u])
      PROVE  FitsAt(u, i)' /\ Promise(u, i)'
  <2>1. todo'[u] = todo[u] /\ todo[u] \in Seq(Calls)
    BY StartsTypes DEF TypeOK
  <2>2. PICK x \in Calls : x = todo[u][i]
    BY <2>1
  <2>3. Fits(u, x) /\ Promise(u, i)
    BY <2>1, <2>2 DEF CallInv, FitsAt
  <2>4. x.op \in {"drop", "stop"} => x.slot \in Slots
    BY <2>2 DEF Calls, ArbOps
  <2>5. Fits(u, x)'
    BY <2>3, <2>4 DEF Fits
  <2>6. FitsAt(u, i)'
    BY <2>1, <2>2, <2>5 DEF Fits, FitsAt
  <2>7. Promise(u, i)'
    BY <2>1, <2>2, <2>3, <2>4 DEF Promise, Fits
  <2> QED
    BY <2>6, <2>7
<1>2. ASSUME NEW i \in 1 .. Len(todo'[t])
      PROVE  FitsAt(t, i)' /\ Promise(t, i)'
  <2>1. todo'[t] = calls
    BY StartsTypes
  <2> QED
    BY <2>1 DEF Fits, FitsAt
<1> QED
  BY <1>1, <1>2 DEF CallInv

LEMMA SimpleFits ==
    /\ \A x \in Simple : \A t \in Threads : Fits(t, x)'
    /\ \A t \in Threads : \A i \in 1 .. Len(todo'[t]) : todo'[t][i] \in Simple => Promise(t, i)'
BY DEF Simple, Fits, Promise

LEMMA SimpleThen ==
    ASSUME TypeOK, CallInv, NEW t \in Threads, todo[t] # <<>>, NEW more \in Seq(Simple),
           Then(t, more), links' = links, \A c \in Slots : Assigned(c)' => Assigned(c)
    PROVE  CallInv'
<1>1. more \in Seq(Calls)
  BY DEF Simple
<1>2. ASSUME NEW i \in 1 .. Len(more) PROVE Fits(t, more[i])' /\ Promise(t, i)'
  <2>1. more[i] \in Simple /\ todo'[t][i] = more[i] /\ i \in 1 .. Len(todo'[t])
    BY <1>1, AfterThen
  <2> QED
    BY <2>1, SimpleFits
<1> QED
  BY <1>1, <1>2, CallsThen

LEMMA SimpleCalls ==
    /\ Call("evaluate", None) \in Simple /\ Call("cancel", None) \in Simple
    /\ Call("suspend", None) \in Simple /\ Call("resume", None) \in Simple
    /\ \A c \in Slots : \A op \in SlotOps \ {"connect", "linked", "keep", "stop", "drop",
                                             "restart", "scanned", "endscan"} : Call(op, c) \in Simple
    /\ <<>> \in Seq(Simple)
    /\ \A c \in Simple : <<c>> \in Seq(Simple)
    /\ \A c, d \in Simple : <<c, d>> \in Seq(Simple)
<1>1. \A op \in ArbOps : Call(op, None) \in Simple
  BY CallTypes DEF Simple, ArbOps
<1>2. \A c \in Slots : \A op \in SlotOps \ {"connect", "linked", "keep", "stop", "drop",
                                           "restart", "scanned", "endscan"} : Call(op, c) \in Simple
  BY CallTypes DEF Simple
<1> QED
  BY <1>1, <1>2 DEF ArbOps

\* What is still to be executed, after a step of the thread t.
LEMMA SomewhereThen ==
    ASSUME TypeOK, NEW t \in Threads, todo[t] # <<>>, NEW more \in Seq(Calls), Then(t, more)
    PROVE  /\ \A ops, c : Somewhere(ops, c) =>
                  \/ Somewhere(ops, c)'
                  \/ Head(todo[t]).op \in ops /\ Head(todo[t]).slot = c
           /\ \A ops, c : \A i \in 1 .. Len(more) :
                  more[i].op \in ops /\ more[i].slot = c => Somewhere(ops, c)'
           /\ \A ops, c : Later(todo[t], 1, ops, c) => Somewhere(ops, c)'
<1>1. ASSUME NEW ops, NEW c, NEW u \in Threads, NEW i \in 1 .. Len(todo[u]),
             todo[u][i].op \in ops, todo[u][i].slot = c, u # t \/ i # 1
      PROVE  Somewhere(ops, c)'
  <2>1. CASE u # t
    BY <1>1, <2>1, AfterThen DEF Somewhere
  <2>2. CASE u = t /\ i # 1
    <3>1. i \in 2 .. Len(todo[t]) /\ todo'[t][Len(more) + i - 1] = todo[t][i]
      BY <1>1, <2>2, AfterThen
    <3>2. Len(more) + i - 1 \in 1 .. Len(todo'[t])
      BY <3>1, AfterThen
    <3> QED
      BY <1>1, <2>2, <3>1, <3>2 DEF Somewhere
  <2> QED
    BY <1>1, <2>1, <2>2
<1>2. \A ops, c : Somewhere(ops, c) =>
          \/ Somewhere(ops, c)'
          \/ Head(todo[t]).op \in ops /\ Head(todo[t]).slot = c
  <2>1. SUFFICES ASSUME NEW ops, NEW c, Somewhere(ops, c)
                 PROVE  \/ Somewhere(ops, c)'
                        \/ Head(todo[t]).op \in ops /\ Head(todo[t]).slot = c
    OBVIOUS
  <2>2. PICK u \in Threads : \E i \in 1 .. Len(todo[u]) :
                 todo[u][i].op \in ops /\ todo[u][i].slot = c
    BY <2>1 DEF Somewhere
  <2>3. PICK i \in 1 .. Len(todo[u]) : todo[u][i].op \in ops /\ todo[u][i].slot = c
    BY <2>2
  <2>4. CASE u # t \/ i # 1
    BY <1>1, <2>3, <2>4
  <2>5. CASE u = t /\ i = 1
    BY <2>3, <2>5, AfterThen
  <2> QED
    BY <2>4, <2>5
<1>3. ASSUME NEW ops, NEW c, NEW i \in 1 .. Len(more), more[i].op \in ops, more[i].slot = c
      PROVE  Somewhere(ops, c)'
  <2>1. todo'[t][i] = more[i] /\ i \in 1 .. Len(todo'[t])
    BY AfterThen
  <2> QED
    BY <1>3, <2>1 DEF Somewhere
<1>4. ASSUME NEW ops, NEW c, Later(todo[t], 1, ops, c) PROVE Somewhere(ops, c)'
  <2>1. PICK j \in 2 .. Len(todo[t]) : todo[t][j].op \in ops /\ todo[t][j].slot = c
    BY <1>4 DEF Later
  <2> QED
    BY <1>1, <2>1, AfterThen
<1> QED
  BY <1>2, <1>3, <1>4

LEMMA SomewhereStart ==
    ASSUME TypeOK, NEW t \in Threads, NEW calls \in Seq(Calls), Starts(t, calls)
    PROVE  /\ \A ops, c : Somewhere(ops, c) => Somewhere(ops, c)'
           /\ \A ops, c : \A i \in 1 .. Len(calls) :
                  calls[i].op \in ops /\ calls[i].slot = c => Somewhere(ops, c)'
<1>1. todo'[t] = calls /\ todo[t] = <<>> /\ \A u \in Threads \ {t} : todo'[u] = todo[u]
  BY StartsTypes
<1>2. ASSUME NEW ops, NEW c, Somewhere(ops, c) PROVE Somewhere(ops, c)'
  <2>1. PICK u \in Threads : \E i \in 1 .. Len(todo[u]) :
                 todo[u][i].op \in ops /\ todo[u][i].slot = c
    BY <1>2 DEF Somewhere
  <2>2. u # t
    BY <1>1, <2>1
  <2> QED
    BY <1>1, <2>1, <2>2 DEF Somewhere
<1>3. ASSUME NEW ops, NEW c, NEW i \in 1 .. Len(calls), calls[i].op \in ops, calls[i].slot = c
      PROVE  Somewhere(ops, c)'
  BY <1>1, <1>3 DEF Somewhere
<1> QED
  BY <1>2, <1>3

\* Who has a wish or a handle, and what is to come of it, after a step that
\* changes no client and no request.
LEMMA WishKept ==
    ASSUME WishInv, HandleInv, client' = client, slots' = slots, links \subseteq links',
           \A c \in Slots : Somewhere(RearmOps, c) => Somewhere(RearmOps, c)',
           \A c \in Slots : Somewhere({"lost"}, c) => Somewhere({"lost"}, c)'
    PROVE  WishInv' /\ HandleInv'
BY DEF WishInv, HandleInv, Ready, Wished

AgreeInv == SuitInv /\ CallInv /\ WishInv /\ HandleInv

LEMMA AgreeAside ==
    ASSUME TypeOK, AgreeInv, NEW t \in Threads, todo[t] # <<>>, NEW more \in Seq(Calls),
           Then(t, more), client' = client, slots' = slots, links' = links,
           gap'.op = "connect" => gap'.peer \in Suits(gap'.slot),
           Head(todo[t]).op \notin RearmOps,
           \A i \in 1 .. Len(more) : Fits(t, more[i])' /\ Promise(t, i)'
    PROVE  AgreeInv'
<1>1. SuitInv'
  BY DEF AgreeInv, SuitInv
<1>2. CallInv'
  BY CallsThen DEF AgreeInv, Assigned
<1>3. /\ \A c \in Slots : Somewhere(RearmOps, c) => Somewhere(RearmOps, c)'
      /\ \A c \in Slots : Somewhere({"lost"}, c) => Somewhere({"lost"}, c)'
  BY SomewhereThen DEF RearmOps
<1>4. WishInv' /\ HandleInv'
  BY <1>3, WishKept DEF AgreeInv
<1> QED
  BY <1>1, <1>2, <1>4 DEF AgreeInv

\* The arbiter and the radio: the requests and the clients stay what they are.
LEMMA AgreeRadio ==
    ASSUME TypeOK, AgreeInv, NEW t \in Threads,
           \/ (Evaluate(t) /\ Blocked) \/ Connect(t) \/ Rollback(t) \/ ScanSuspend(t)
           \/ ScanResume(t) \/ StartDisc(t) \/ CancelDisc(t) \/ CancelConnect(t)
    PROVE  AgreeInv'
<1> DEFINE h == Head(todo[t])
<1>1. /\ todo[t] # <<>> /\ h.op \notin RearmOps
      /\ client' = client /\ slots' = slots /\ links' = links
  BY DEF Evaluate, Connect, Rollback, ScanSuspend, ScanResume, StartDisc, CancelDisc,
         CancelConnect, At, RearmOps, Unmoved, arb, ble
<1>2. PICK more \in Seq(Simple) : Then(t, more)
  <2>1. CASE Connect(t) \/ StartDisc(t)
    <3>1. h.op \in SlotOps
      BY <2>1 DEF Connect, StartDisc, At, SlotOps
    <3>2. h.slot \in Slots
      BY <1>1, <3>1, HeadTypes
    <3>3. /\ Call("rollback", h.slot) \in Simple /\ Call("scanning", h.slot) \in Simple
          /\ Call("arm", h.slot) \in Simple
      BY <3>2, SimpleCalls DEF SlotOps
    <3>4. \/ Then(t, <<>>) \/ Then(t, <<Call("rollback", h.slot)>>)
          \/ Then(t, <<Call("scanning", h.slot)>>)
          \/ Then(t, <<Call("arm", h.slot), Call("resume", None)>>)
      BY <2>1 DEF Connect, StartDisc
    <3> HIDE DEF h
    <3> QED
      BY <3>3, <3>4, SimpleCalls
  <2>2. CASE \/ (Evaluate(t) /\ Blocked) \/ Rollback(t) \/ ScanSuspend(t) \/ ScanResume(t)
             \/ CancelDisc(t) \/ CancelConnect(t)
    <3>1. \/ Then(t, <<>>) \/ Then(t, <<Call("cancel", None)>>)
          \/ Then(t, <<Call("evaluate", None)>>)
      BY <2>2 DEF Evaluate, Rollback, ScanSuspend, ScanResume, CancelDisc, CancelConnect
    <3> QED
      BY <3>1, SimpleCalls
  <2> QED
    BY <2>1, <2>2
<1>3. gap'.op = "connect" => gap'.peer \in Suits(gap'.slot)
  <2>1. CASE Connect(t)
    <3>1. h.peer \in Suits(h.slot)
      <4>1. 1 \in 1 .. Len(todo[t]) /\ h = todo[t][1]
        BY <1>1 DEF TypeOK
      <4>2. h.op = "connect"
        BY <2>1 DEF Connect, At
      <4> QED
        BY <4>1, <4>2 DEF AgreeInv, CallInv, FitsAt, Fits
    <3>2. \/ gap' = gap
          \/ gap' = [op |-> "connect", slot |-> h.slot, peer |-> h.peer,
                     forever |-> h.forever, cancelled |-> FALSE]
      BY <2>1 DEF Connect
    <3> HIDE DEF h
    <3> QED
      BY <3>1, <3>2 DEF AgreeInv, SuitInv
  <2>2. CASE StartDisc(t) \/ CancelDisc(t)
    <3>1. \/ gap' = gap \/ gap' = NoGap
          \/ gap' = [NoGap EXCEPT !.op = "scan", !.slot = h.slot]
      BY <2>2 DEF StartDisc, CancelDisc
    <3> HIDE DEF h
    <3>2. NoGap.op = "idle" /\ [NoGap EXCEPT !.op = "scan", !.slot = h.slot].op = "scan"
      BY DEF NoGap
    <3>3. gap' = gap \/ gap'.op # "connect"
      BY <3>1, <3>2
    <3> QED
      BY <3>3 DEF AgreeInv, SuitInv
  <2>3. CASE CancelConnect(t)
    <3>1. gap' = [gap EXCEPT !.cancelled = (gap.op = "connect")] /\ gap \in Procedures
      BY <2>3 DEF CancelConnect, TypeOK
    <3> QED
      BY <3>1 DEF AgreeInv, SuitInv, Procedures
  <2>4. CASE gap' = gap
    BY <2>4 DEF AgreeInv, SuitInv
  <2> QED
    BY <2>1, <2>2, <2>3, <2>4 DEF Evaluate, Rollback, ScanSuspend, ScanResume, ble
<1>4. more \in Seq(Calls)
  BY DEF Simple
<1>5. ASSUME NEW i \in 1 .. Len(more) PROVE Fits(t, more[i])' /\ Promise(t, i)'
  <2>1. more[i] \in Simple /\ todo'[t][i] = more[i] /\ i \in 1 .. Len(todo'[t])
    BY <1>1, <1>2, <1>4, AfterThen
  <2> QED
    BY <2>1, SimpleFits
<1> QED
  BY <1>1, <1>2, <1>3, <1>4, <1>5, AgreeAside

\* An attempt is made with the address of a client that has one.
LEMMA AgreeEvaluate ==
    ASSUME TypeOK, AgreeInv, NEW t \in Threads, Evaluate(t), ~Blocked
    PROVE  AgreeInv'
<1>1. /\ todo[t] # <<>> /\ Head(todo[t]).op \notin RearmOps
      /\ client' = client /\ slots' = slots /\ links' = links /\ gap' = gap
  BY DEF Evaluate, At, RearmOps, ble
<1>2. Pick \in Slots /\ slots[Pick].peer \in Suits(Pick)
  BY PickWants DEF TypeOK, Blocked, Wanting, AgreeInv, SuitInv
<1>3. forever' \in BOOLEAN
  BY DEF Evaluate
<1>4. PICK c : c = [op |-> "connect", slot |-> Pick, peer |-> slots[Pick].peer,
                    forever |-> forever']
  OBVIOUS
<1>5. c \in Calls /\ c.op = "connect" /\ c.peer \in Suits(c.slot)
  BY <1>2, <1>3, <1>4 DEF Calls, SlotOps, Suits
<1>6. Then(t, <<c>>)
  BY <1>4 DEF Evaluate
<1>7. <<c>> \in Seq(Calls)
  BY <1>5
<1>8. ASSUME NEW i \in 1 .. Len(<<c>>) PROVE Fits(t, <<c>>[i])' /\ Promise(t, i)'
  <2>1. Len(<<c>>) = 1 /\ <<c>>[1] = c
    OBVIOUS
  <2>2. i = 1 /\ <<c>>[i] = c
    BY <2>1
  <2>3. todo'[t][i] = c
    BY <1>1, <1>6, <1>7, <2>2, AfterThen
  <2> QED
    BY <1>5, <2>2, <2>3 DEF Fits, Promise, Suits
<1> QED
  BY <1>1, <1>6, <1>7, <1>8, AgreeAside DEF AgreeInv, SuitInv

\* The request that a scan's end leaves to the call behind it.
LEMMA AgreeEndScan ==
    ASSUME TypeOK, AgreeInv, NEW t \in Threads, EndScan(t)
    PROVE  AgreeInv'
<1>1. /\ todo[t] # <<>> /\ Head(todo[t]).op = "endscan"
      /\ client' = client /\ slots' = slots /\ links' = links /\ gap' = gap
  BY DEF EndScan, At, Unmoved, ble
<1>2. PICK c \in Slots : c = Head(todo[t]).slot
  BY <1>1, HeadTypes DEF SlotOps
<1>3. Later(todo[t], 1, {"restart"}, c)
  <2>1. 1 \in 1 .. Len(todo[t]) /\ Head(todo[t]) = todo[t][1]
    BY <1>1 DEF TypeOK
  <2> QED
    BY <1>1, <1>2, <2>1 DEF AgreeInv, CallInv, Promise
<1>4. CASE Then(t, <<>>)
  <2>1. <<>> \in Seq(Calls) /\ 1 .. Len(<<>>) = {}
    OBVIOUS
  <2>2. gap'.op = "connect" => gap'.peer \in Suits(gap'.slot)
    BY <1>1 DEF AgreeInv, SuitInv
  <2>3. Head(todo[t]).op \notin RearmOps
    BY <1>1 DEF RearmOps
  <2>4. \A i \in 1 .. Len(<<>>) : Fits(t, <<>>[i])' /\ Promise(t, i)'
    BY <2>1
  <2> QED
    BY <1>1, <1>4, <2>1, <2>2, <2>3, <2>4, AgreeAside
<1>5. CASE Then(t, <<Call("canceldisc", c), Call("scanned", c), Call("resume", None)>>)
  <2> DEFINE more == <<Call("canceldisc", c), Call("scanned", c), Call("resume", None)>>
  <2>1. /\ Call("canceldisc", c) \in Simple /\ Call("scanned", c) \in Calls
        /\ Call("resume", None) \in Simple
    BY SimpleCalls, CallTypes DEF SlotOps
  <2>2. more \in Seq(Calls)
    BY <2>1 DEF Simple
  <2>3. Len(more) = 3 /\ more[1] \in Simple /\ more[3] \in Simple
        /\ more[2].op = "scanned" /\ more[2].slot = c
    BY <2>1, CallTypes DEF SlotOps
  <2> HIDE DEF more
  <2>4. Then(t, more)
    BY <1>5 DEF more
  <2>5. Later(todo'[t], 3, {"restart"}, c)
    <3>1. 1 \in 1 .. Len(todo[t])
      BY <1>1 DEF TypeOK
    <3>2. Later(todo'[t], Len(more) + 1 - 1, {"restart"}, c)
      BY <1>1, <1>3, <2>2, <2>4, <3>1, LaterThen
    <3> QED
      BY <2>3, <3>2
  <2>6. Later(todo'[t], 2, {"arm", "restart"}, c)
    BY <2>5 DEF Later
  <2>7. ASSUME NEW i \in 1 .. Len(more) PROVE Fits(t, more[i])' /\ Promise(t, i)'
    <3>1. todo'[t][i] = more[i] /\ i \in 1 .. Len(todo'[t])
      BY <1>1, <2>2, <2>4, AfterThen
    <3>2. CASE i = 2
      <4>1. more[i].op = "scanned" /\ more[i].slot = c
        BY <2>3, <3>2
      <4> QED
        BY <2>6, <3>1, <3>2, <4>1 DEF Fits, Promise
    <3>3. CASE i # 2
      <4>1. more[i] \in Simple
        BY <2>3, <3>3
      <4> QED
        BY <3>1, <4>1, SimpleFits
    <3> QED
      BY <3>2, <3>3
  <2> QED
    BY <1>1, <2>2, <2>4, <2>7, AgreeAside DEF AgreeInv, SuitInv, RearmOps
<1> QED
  BY <1>2, <1>4, <1>5 DEF EndScan

\* A step of one client: what it must say of that client.
LEMMA AgreeOne ==
    ASSUME TypeOK, AgreeInv, NEW t \in Threads, todo[t] # <<>>, NEW more \in Seq(Calls),
           Then(t, more), links' = links, gap' = gap,
           NEW c \in Slots, Head(todo[t]).slot = c,
           \A d \in Slots \ {c} : client'[d] = client[d] /\ slots'[d] = slots[d],
           client'[c].addr = client[c].addr,
           client'[c].handle \in Suits(c) \cup {NoPeer},
           slots'[c].want => slots'[c].peer \in Suits(c),
           Assigned(c)' => Assigned(c),
           \A i \in 1 .. Len(more) : Fits(t, more[i])' /\ Promise(t, i)',
           (Ready(c)' /\ client'[c].handle = NoPeer) => Wished(c)' \/ Somewhere(RearmOps, c)',
           client'[c].handle # NoPeer =>
               client'[c].handle \in links \/ Somewhere({"lost"}, c)'
    PROVE  AgreeInv'
<1>1. SuitInv'
  <2>1. \A d \in Slots : /\ client'[d].addr \in Suits(d)
                         /\ client'[d].handle \in Suits(d) \cup {NoPeer}
                         /\ slots'[d].want => slots'[d].peer \in Suits(d)
    BY DEF AgreeInv, SuitInv
  <2> QED
    BY <2>1 DEF AgreeInv, SuitInv, Suits
<1>2. CallInv'
  <2>1. \A d \in Slots : Assigned(d)' => Assigned(d)
    BY DEF Assigned
  <2> QED
    BY <2>1, CallsThen DEF AgreeInv
<1>3. ASSUME NEW d \in Slots \ {c}
      PROVE  /\ Somewhere(RearmOps, d) => Somewhere(RearmOps, d)'
             /\ Somewhere({"lost"}, d) => Somewhere({"lost"}, d)'
  BY SomewhereThen
<1>4. WishInv'
  <2>1. ASSUME NEW d \in Slots, Ready(d)', client'[d].handle = NoPeer
        PROVE  Wished(d)' \/ Somewhere(RearmOps, d)'
    <3>1. CASE d = c
      BY <2>1, <3>1
    <3>2. CASE d # c
      <4>1. client'[d] = client[d] /\ slots'[d] = slots[d]
        BY <3>2
      <4>2. Wished(d) \/ Somewhere(RearmOps, d)
        BY <2>1, <4>1 DEF AgreeInv, WishInv, Ready
      <4> QED
        BY <1>3, <3>2, <4>1, <4>2 DEF Wished
    <3> QED
      BY <3>1, <3>2
  <2> QED
    BY <2>1 DEF WishInv
<1>5. HandleInv'
  <2>1. ASSUME NEW d \in Slots, client'[d].handle # NoPeer
        PROVE  client'[d].handle \in links' \/ Somewhere({"lost"}, d)'
    <3>1. CASE d = c
      BY <2>1, <3>1
    <3>2. CASE d # c
      BY <1>3, <2>1, <3>2 DEF AgreeInv, HandleInv
    <3> QED
      BY <3>1, <3>2
  <2> QED
    BY <2>1 DEF HandleInv
<1> QED
  BY <1>1, <1>2, <1>4, <1>5 DEF AgreeInv

\* The head of a thread's calls, as the invariants speak of it.
LEMMA AgreeHead ==
    ASSUME TypeOK, AgreeInv, NEW t \in Threads, todo[t] # <<>>
    PROVE  /\ Fits(t, Head(todo[t])) /\ Promise(t, 1)
           /\ Head(todo[t]) = todo[t][1]
           /\ Head(todo[t]).op \in SlotOps => Head(todo[t]).slot \in Slots
<1>1. 1 \in 1 .. Len(todo[t]) /\ Head(todo[t]) = todo[t][1]
  BY DEF TypeOK
<1> QED
  BY <1>1, HeadTypes DEF AgreeInv, CallInv, FitsAt

LEMMA SimpleMore ==
    ASSUME TypeOK, NEW t \in Threads, todo[t] # <<>>, NEW more \in Seq(Simple), Then(t, more)
    PROVE  more \in Seq(Calls) /\ \A i \in 1 .. Len(more) : Fits(t, more[i])' /\ Promise(t, i)'
<1>1. more \in Seq(Calls)
  BY DEF Simple
<1>2. ASSUME NEW i \in 1 .. Len(more) PROVE Fits(t, more[i])' /\ Promise(t, i)'
  <2>1. more[i] \in Simple /\ todo'[t][i] = more[i] /\ i \in 1 .. Len(todo'[t])
    BY <1>1, AfterThen
  <2> QED
    BY <2>1, SimpleFits
<1> QED
  BY <1>1, <1>2

\* What a client says of itself, and its request, in a state that agrees.
LEMMA AgreeClient ==
    ASSUME TypeOK, AgreeInv, NEW c \in Slots
    PROVE  /\ client[c].addr \in Suits(c) /\ client[c].handle \in Suits(c) \cup {NoPeer}
           /\ slots[c].want => slots[c].peer \in Suits(c)
           /\ (Ready(c) /\ client[c].handle = NoPeer) => Wished(c) \/ Somewhere(RearmOps, c)
           /\ client[c].handle # NoPeer =>
                  client[c].handle \in links \/ Somewhere({"lost"}, c)
           /\ client[c] \in ClientRecords /\ client \in [Slots -> ClientRecords]
           /\ slots \in [Slots -> [want: BOOLEAN, peer: Peers \cup {NoPeer}]]
           /\ NoPeer \notin Peers /\ Suits(c) \subseteq Peers
<1>1. NoPeer \notin Peers
  BY DEF NoPeer, Peers, None, Slots
<1> QED
  BY <1>1, ClientTypes DEF AgreeInv, SuitInv, WishInv, HandleInv, TypeOK, ClientRecords, Suits

LEMMA AgreeWant ==
    ASSUME TypeOK, AgreeInv, NEW t \in Threads, WantConnect(t)
    PROVE  AgreeInv'
<1>1. /\ todo[t] # <<>> /\ Head(todo[t]).op = "want"
      /\ client' = client /\ links' = links /\ gap' = gap
  BY DEF WantConnect, At, ble
<1>2. PICK c \in Slots : c = Head(todo[t]).slot
  BY <1>1, HeadTypes DEF SlotOps
<1>3. slots' = [slots EXCEPT ![c] = [want |-> TRUE, peer |-> client[c].addr]]
  BY <1>2 DEF WantConnect
<1>4. PICK more \in Seq(Simple) : Then(t, more)
  <2>1. \/ Then(t, <<>>) \/ Then(t, <<Call("cancel", None)>>)
        \/ Then(t, <<Call("evaluate", None)>>)
    BY DEF WantConnect
  <2> QED
    BY <2>1, SimpleCalls
<1>5. Wished(c)' /\ client[c].addr \in Suits(c) /\ slots'[c].peer = client[c].addr
      /\ \A d \in Slots \ {c} : slots'[d] = slots[d]
  BY <1>1, <1>3, AgreeClient DEF Wished
<1>6. more \in Seq(Calls) /\ \A i \in 1 .. Len(more) : Fits(t, more[i])' /\ Promise(t, i)'
  BY <1>1, <1>4, SimpleMore
<1>7. client[c].handle # NoPeer => client[c].handle \in links \/ Somewhere({"lost"}, c)'
  BY <1>1, <1>4, <1>6, AgreeClient, SomewhereThen
<1> QED
  BY <1>1, <1>2, <1>4, <1>5, <1>6, <1>7, AgreeClient, AgreeOne DEF Assigned

\* A request that is taken back is asked for again, or its client is switched off.
LEMMA AgreeStop ==
    ASSUME TypeOK, AgreeInv, NEW t \in Threads, StopConnect(t)
    PROVE  AgreeInv'
<1>1. /\ todo[t] # <<>> /\ Head(todo[t]).op = "stop"
      /\ client' = client /\ links' = links /\ gap' = gap
  BY DEF StopConnect, At, ble
<1>2. PICK c \in Slots : c = Head(todo[t]).slot
  BY <1>1, HeadTypes DEF SlotOps
<1>3. slots' = [slots EXCEPT ![c].want = FALSE]
  BY <1>2 DEF StopConnect
<1>4. PICK more \in Seq(Simple) : Then(t, more)
  <2>1. Then(t, <<>>) \/ Then(t, <<Call("cancel", None)>>)
    BY DEF StopConnect
  <2> QED
    BY <2>1, SimpleCalls
<1>5. ~slots'[c].want /\ \A d \in Slots \ {c} : slots'[d] = slots[d]
  BY <1>3, AgreeClient
<1>6. more \in Seq(Calls) /\ \A i \in 1 .. Len(more) : Fits(t, more[i])' /\ Promise(t, i)'
  BY <1>1, <1>4, SimpleMore
<1>7. client[c].handle # NoPeer => client[c].handle \in links \/ Somewhere({"lost"}, c)'
  BY <1>1, <1>4, <1>6, AgreeClient, SomewhereThen
<1>8. Ready(c)' => Somewhere(RearmOps, c)'
  <2>1. ~Assigned(c) \/ Later(todo[t], 1, {"arm"}, c)
    BY <1>1, <1>2, AgreeHead DEF Promise
  <2>2. Later(todo[t], 1, {"arm"}, c) => Later(todo[t], 1, RearmOps, c)
    BY DEF Later, RearmOps
  <2>3. Later(todo[t], 1, RearmOps, c) => Somewhere(RearmOps, c)'
    BY <1>1, <1>4, <1>6, SomewhereThen
  <2> QED
    BY <1>1, <2>1, <2>2, <2>3 DEF Ready, Assigned
<1> QED
  BY <1>1, <1>2, <1>4, <1>5, <1>6, <1>7, <1>8, AgreeClient, AgreeOne DEF Assigned

\* A connection event: the handle is kept, or the client asks again.
LEMMA AgreeRelease ==
    ASSUME TypeOK, AgreeInv, NEW t \in Threads, Release(t)
    PROVE  AgreeInv'
<1> DEFINE h == Head(todo[t])
<1>1. /\ todo[t] # <<>> /\ h.op \in {"failed", "linked"}
      /\ client' = client /\ links' = links /\ gap' = gap
  BY DEF Release, At, ble
<1>2. PICK c \in Slots : c = h.slot
  BY <1>1, HeadTypes DEF SlotOps
<1>3. PICK x : x = IF h.op = "linked" THEN CallPeer("keep", c, h.peer) ELSE Call("lost", c)
  OBVIOUS
<1>4. /\ slots' = IF h.op = "linked" THEN [slots EXCEPT ![c].want = FALSE] ELSE slots
      /\ Then(t, <<x, Call("evaluate", None)>>)
  BY <1>2, <1>3 DEF Release
<1>5. x \in Calls /\ Fits(t, x)' /\ x.op \in {"keep", "lost"} /\ x.slot = c
  <2>1. CASE h.op = "linked"
    <3>1. t = "host" /\ h.peer \in Suits(c) /\ h.peer \in links
      BY <1>1, <1>2, <2>1, AgreeHead DEF Fits
    <3>2. x = CallPeer("keep", c, h.peer) /\ h.peer \in Peers
      BY <1>3, <2>1, <3>1 DEF Suits
    <3>3. x \in Calls
      BY <3>2, SlotCalls
    <3>4. x.op = "keep" /\ x.slot = c /\ x.peer = h.peer
      BY <3>2 DEF CallPeer
    <3> QED
      BY <1>1, <3>1, <3>3, <3>4 DEF Fits, Suits
  <2>2. CASE h.op # "linked"
    <3>1. x = Call("lost", c)
      BY <1>3, <2>2
    <3>2. x \in Calls /\ x.op = "lost" /\ x.slot = c
      BY <3>1, SlotCalls, CallTypes DEF SlotOps
    <3> QED
      BY <3>2 DEF Fits
  <2> QED
    BY <2>1, <2>2
<1> DEFINE e == Call("evaluate", None)
           more == <<x, e>>
<1>6. more \in Seq(Calls) /\ Len(more) = 2 /\ more[1] = x /\ more[2] = e /\ e \in Simple
  BY <1>5, SimpleCalls, ArbCalls
<1> HIDE DEF h, e, more
<1>7. Then(t, more)
  BY <1>4 DEF more, e
<1>8. ASSUME NEW i \in 1 .. Len(more) PROVE Fits(t, more[i])' /\ Promise(t, i)'
  <2>1. todo'[t][i] = more[i] /\ i \in 1 .. Len(todo'[t])
    BY <1>1, <1>6, <1>7, AfterThen
  <2>2. CASE i = 1
    <3>1. more[i] = x
      BY <1>6, <2>2
    <3> QED
      BY <1>5, <2>1, <3>1 DEF Promise, Fits
  <2>3. CASE i = 2
    <3>1. more[i] \in Simple
      BY <1>6, <2>3
    <3> QED
      BY <2>1, <3>1, SimpleFits
  <2> QED
    BY <1>6, <2>2, <2>3
<1>9. Somewhere(RearmOps, c)'
  <2>1. 1 \in 1 .. Len(more) /\ more[1].op \in RearmOps /\ more[1].slot = c
    BY <1>5, <1>6 DEF RearmOps
  <2> QED
    BY <1>1, <1>6, <1>7, <2>1, SomewhereThen
<1>10. client[c].handle # NoPeer => client[c].handle \in links \/ Somewhere({"lost"}, c)'
  <2>1. h.op # "lost"
    BY <1>1
  <2> QED
    BY <1>1, <1>6, <1>7, <2>1, AgreeClient, SomewhereThen DEF h
<1>11. /\ slots'[c].want => slots'[c].peer \in Suits(c)
       /\ \A d \in Slots \ {c} : slots'[d] = slots[d]
  <2>1. slots' = slots \/ slots' = [slots EXCEPT ![c].want = FALSE]
    BY <1>4
  <2> QED
    BY <2>1, AgreeClient
<1>12. Head(todo[t]).slot = c
  BY <1>2 DEF h
<1> QED
  BY <1>1, <1>6, <1>7, <1>8, <1>9, <1>10, <1>11, <1>12, AgreeClient, AgreeOne DEF Assigned

\* A client is armed when it learns of the stack, and when it loses its link.
LEMMA AgreeArms ==
    ASSUME TypeOK, AgreeInv, NEW t \in Threads, ClientSync(t) \/ LoseHandle(t)
    PROVE  AgreeInv'
<1>1. /\ todo[t] # <<>> /\ Head(todo[t]).op \in {"sync", "lost"}
      /\ slots' = slots /\ links' = links /\ gap' = gap
  BY DEF ClientSync, LoseHandle, At, Unmoved, ble
<1>2. PICK c \in Slots : c = Head(todo[t]).slot
  BY <1>1, HeadTypes DEF SlotOps
<1> DEFINE more == <<Call("arm", c)>>
<1>3. Then(t, more)
  BY <1>2 DEF ClientSync, LoseHandle
<1>4. more \in Seq(Simple) /\ Len(more) = 1 /\ more[1].op = "arm" /\ more[1].slot = c
  BY SimpleCalls, CallTypes DEF SlotOps
<1> HIDE DEF more
<1>5. more \in Seq(Calls) /\ \A i \in 1 .. Len(more) : Fits(t, more[i])' /\ Promise(t, i)'
  BY <1>1, <1>3, <1>4, SimpleMore
<1>6. Somewhere(RearmOps, c)'
  <2>1. 1 \in 1 .. Len(more) /\ more[1].op \in RearmOps
    BY <1>4 DEF RearmOps
  <2> QED
    BY <1>1, <1>3, <1>4, <1>5, <2>1, SomewhereThen
<1>7. /\ client'[c].bound = client[c].bound /\ client'[c].parked = client[c].parked
      /\ client'[c].addr = client[c].addr
      /\ \A d \in Slots \ {c} : client'[d] = client[d]
      /\ client'[c].handle \in Suits(c) \cup {NoPeer}
      /\ client'[c].handle # NoPeer => client'[c].handle \in links \/ Somewhere({"lost"}, c)'
  <2>1. CASE ClientSync(t)
    <3>1. client' = [client EXCEPT ![c].synced = TRUE]
      BY <1>2, <2>1 DEF ClientSync
    <3>2. Head(todo[t]).op # "lost"
      BY <2>1 DEF ClientSync, At
    <3>3. Somewhere({"lost"}, c) => Somewhere({"lost"}, c)'
      BY <1>1, <1>3, <1>5, <3>2, SomewhereThen
    <3>4. /\ client'[c].bound = client[c].bound /\ client'[c].parked = client[c].parked
          /\ client'[c].addr = client[c].addr /\ client'[c].handle = client[c].handle
          /\ \A d \in Slots \ {c} : client'[d] = client[d]
      BY <3>1, AgreeClient DEF ClientRecords
    <3> QED
      BY <3>3, <3>4, AgreeClient
  <2>2. CASE LoseHandle(t)
    <3>1. client' = [client EXCEPT ![c].handle = NoPeer]
      BY <1>2, <2>2 DEF LoseHandle
    <3> QED
      BY <3>1, AgreeClient DEF ClientRecords
  <2> QED
    BY <2>1, <2>2
<1>8. Assigned(c)' => Assigned(c)
  BY <1>7 DEF Assigned
<1> QED
  BY <1>1, <1>2, <1>3, <1>5, <1>6, <1>7, <1>8, AgreeClient, AgreeOne

\* arm_connect asks for whatever client lacks a link it should have.
LEMMA AgreeArm ==
    ASSUME TypeOK, AgreeInv, NEW t \in Threads, ArmConnect(t)
    PROVE  AgreeInv'
<1>1. /\ todo[t] # <<>> /\ Head(todo[t]).op = "arm"
      /\ client' = client /\ slots' = slots /\ links' = links /\ gap' = gap
  BY DEF ArmConnect, At, Unmoved, ble
<1>2. PICK c \in Slots : c = Head(todo[t]).slot
  BY <1>1, HeadTypes DEF SlotOps
<1> DEFINE want == <<Call("want", c)>>
<1>3. \/ Then(t, want)
      \/ Then(t, <<>>) /\ ~(Ready(c) /\ client[c].handle = NoPeer)
  BY <1>2 DEF ArmConnect, Ready
<1>4. want \in Seq(Simple) /\ Len(want) = 1 /\ want[1].op = "want" /\ want[1].slot = c
  BY SimpleCalls, CallTypes DEF SlotOps
<1> HIDE DEF want
<1>5. PICK more \in Seq(Simple) :
          Then(t, more) /\ (more = want \/ ~(Ready(c) /\ client[c].handle = NoPeer))
  BY <1>3, <1>4, SimpleCalls
<1>6. more \in Seq(Calls) /\ \A i \in 1 .. Len(more) : Fits(t, more[i])' /\ Promise(t, i)'
  BY <1>1, <1>5, SimpleMore
<1>7. (Ready(c) /\ client[c].handle = NoPeer) => Somewhere(RearmOps, c)'
  <2>1. 1 \in 1 .. Len(want) /\ want[1].op \in RearmOps
    BY <1>4 DEF RearmOps
  <2> QED
    BY <1>1, <1>4, <1>5, <1>6, <2>1, SomewhereThen
<1>8. client[c].handle # NoPeer => client[c].handle \in links \/ Somewhere({"lost"}, c)'
  BY <1>1, <1>5, <1>6, AgreeClient, SomewhereThen
<1>9. Ready(c)' => Ready(c)
  BY <1>1 DEF Ready
<1> QED
  BY <1>1, <1>2, <1>5, <1>6, <1>7, <1>8, <1>9, AgreeClient, AgreeOne DEF Assigned

LEMMA EmptyMore ==
    /\ <<>> \in Seq(Calls) /\ <<>> \in Seq(Simple) /\ 1 .. Len(<<>>) = {}
OBVIOUS

\* The handle that is kept is a link's; the one that is dropped had no future.
LEMMA AgreeHandle ==
    ASSUME TypeOK, AgreeInv, NEW t \in Threads, KeepHandle(t) \/ Drop(t)
    PROVE  AgreeInv'
<1>1. /\ todo[t] # <<>> /\ Head(todo[t]).op \in {"keep", "drop"} /\ Then(t, <<>>)
      /\ slots' = slots /\ links' = links /\ gap' = gap
  BY DEF KeepHandle, Drop, At, Unmoved, ble
<1>2. PICK c \in Slots : c = Head(todo[t]).slot
  BY <1>1, HeadTypes DEF SlotOps
<1>3. \A i \in 1 .. Len(<<>>) : Fits(t, <<>>[i])' /\ Promise(t, i)'
  BY EmptyMore
<1>4. CASE KeepHandle(t)
  <2>1. PICK p : p = Head(todo[t]).peer
    OBVIOUS
  <2>2. p \in Suits(c) /\ p \in links
    BY <1>1, <1>2, <1>4, <2>1, AgreeHead DEF Fits, KeepHandle, At
  <2>3. client' = [client EXCEPT ![c].handle = p]
    BY <1>2, <1>4, <2>1 DEF KeepHandle
  <2>4. /\ client'[c].bound = client[c].bound /\ client'[c].parked = client[c].parked
        /\ client'[c].addr = client[c].addr /\ client'[c].handle = p
        /\ \A d \in Slots \ {c} : client'[d] = client[d]
    BY <2>3, AgreeClient DEF ClientRecords
  <2>5. p # NoPeer
    BY <2>2, AgreeClient
  <2>6. Assigned(c)' => Assigned(c)
    BY <2>4 DEF Assigned
  <2> QED
    BY <1>1, <1>2, <1>3, <2>2, <2>4, <2>5, <2>6, AgreeClient, AgreeOne, EmptyMore
<1>5. CASE Drop(t)
  <2>1. ~Assigned(c)
    BY <1>1, <1>2, <1>5, AgreeHead DEF Fits, Drop, At
  <2>2. client' = [client EXCEPT ![c].handle = NoPeer]
    BY <1>2, <1>5 DEF Drop
  <2>3. /\ client'[c].bound = client[c].bound /\ client'[c].parked = client[c].parked
        /\ client'[c].addr = client[c].addr /\ client'[c].handle = NoPeer
        /\ \A d \in Slots \ {c} : client'[d] = client[d]
    BY <2>2, AgreeClient DEF ClientRecords
  <2>4. ~Assigned(c)' /\ ~Ready(c)'
    BY <2>1, <2>3 DEF Assigned, Ready
  <2> QED
    BY <1>1, <1>2, <1>3, <2>3, <2>4, AgreeClient, AgreeOne, EmptyMore
<1> QED
  BY <1>4, <1>5

\* The connection restarts, unless a link has to go first.
LEMMA AgreeRestart ==
    ASSUME TypeOK, AgreeInv, NEW t \in Threads, Restart(t)
    PROVE  AgreeInv'
<1>1. /\ todo[t] # <<>> /\ Head(todo[t]).op = "restart"
      /\ client' = client /\ slots' = slots /\ links' = links /\ gap' = gap
  BY DEF Restart, At, Unmoved
<1>2. PICK c \in Slots : c = Head(todo[t]).slot
  BY <1>1, HeadTypes DEF SlotOps
<1>3. CASE client[c].handle # NoPeer
  <2>1. Then(t, <<>>)
    BY <1>2, <1>3 DEF Restart
  <2>2. \A i \in 1 .. Len(<<>>) : Fits(t, <<>>[i])' /\ Promise(t, i)'
    BY EmptyMore
  <2>3. client[c].handle \in links \/ Somewhere({"lost"}, c)'
    BY <1>1, <1>3, <2>1, EmptyMore, AgreeClient, SomewhereThen
  <2> QED
    BY <1>1, <1>2, <1>3, <2>1, <2>2, <2>3, AgreeClient, AgreeOne, EmptyMore DEF Assigned
<1>4. CASE client[c].handle = NoPeer
  <2> DEFINE s == Call("stop", c)
             a == Call("arm", c)
             more == <<s, a>>
  <2>1. /\ s \in Calls /\ a \in Simple /\ a \in Calls
        /\ s.op = "stop" /\ s.slot = c /\ a.op = "arm" /\ a.slot = c
    BY SimpleCalls, CallTypes DEF SlotOps
  <2>2. Then(t, more)
    BY <1>2, <1>4 DEF Restart
  <2> HIDE DEF s, a
  <2>3. more \in Seq(Calls) /\ Len(more) = 2 /\ more[1] = s /\ more[2] = a
    BY <2>1
  <2> HIDE DEF more
  <2>4. /\ todo'[t][1] = s /\ todo'[t][2] = a /\ 2 \in 1 .. Len(todo'[t])
        /\ 1 \in 1 .. Len(todo'[t])
    <3>1. more \in Seq(Calls) /\ Then(t, more) /\ todo[t] # <<>>
      BY <1>1, <2>2, <2>3
    <3>2. /\ todo[t] \in Seq(Calls) /\ Len(todo[t]) >= 1
          /\ Len(todo'[t]) = Len(more) + Len(todo[t]) - 1
          /\ \A i \in 1 .. Len(more) : todo'[t][i] = more[i]
      BY <3>1, AfterThen
    <3>3. Len(todo[t]) \in Nat
      BY <3>2
    <3> QED
      BY <2>3, <3>2, <3>3
  <2>5. Later(todo'[t], 1, {"arm"}, c)
    BY <2>1, <2>4 DEF Later
  <2>6. t = "lvgl"
    BY <1>1, AgreeHead DEF Fits
  <2>7. Fits(t, s)' /\ Promise(t, 1)'
    BY <2>1, <2>4, <2>5, <2>6 DEF Fits, Promise
  <2>8. Fits(t, a)' /\ Promise(t, 2)'
    BY <2>1, <2>4, SimpleFits
  <2>9. \A i \in 1 .. Len(more) : Fits(t, more[i])' /\ Promise(t, i)'
    <3>1. ASSUME NEW i \in 1 .. Len(more) PROVE Fits(t, more[i])' /\ Promise(t, i)'
      <4>1. CASE i = 1
        BY <2>3, <2>7, <4>1 DEF Fits
      <4>2. CASE i = 2
        BY <2>3, <2>8, <4>2 DEF Fits
      <4> QED
        BY <2>3, <4>1, <4>2
    <3> QED
      BY <3>1
  <2>10. Somewhere(RearmOps, c)'
    <3>1. 2 \in 1 .. Len(more) /\ more[2].op \in RearmOps /\ more[2].slot = c
      BY <2>1, <2>3 DEF RearmOps
    <3> QED
      BY <1>1, <2>2, <2>3, <3>1, SomewhereThen
  <2> QED
    BY <1>1, <1>2, <1>4, <2>2, <2>3, <2>9, <2>10, AgreeClient, AgreeOne DEF Assigned
<1> QED
  BY <1>3, <1>4

\* The flag of a scan: when it is cleared, the client is armed behind it.
LEMMA AgreeScanning ==
    ASSUME TypeOK, AgreeInv, NEW t \in Threads, SetScanning(t)
    PROVE  AgreeInv'
<1>1. /\ todo[t] # <<>> /\ Head(todo[t]).op \in {"scanning", "scanned"} /\ Then(t, <<>>)
      /\ slots' = slots /\ links' = links /\ gap' = gap
  BY DEF SetScanning, At, Unmoved, ble
<1>2. PICK c \in Slots : c = Head(todo[t]).slot
  BY <1>1, HeadTypes DEF SlotOps
<1>3. \A i \in 1 .. Len(<<>>) : Fits(t, <<>>[i])' /\ Promise(t, i)'
  BY EmptyMore
<1>4. client' = [client EXCEPT ![c].scanning = At(t, "scanning")]
  BY <1>2 DEF SetScanning
<1>5. /\ client'[c].bound = client[c].bound /\ client'[c].parked = client[c].parked
      /\ client'[c].addr = client[c].addr /\ client'[c].handle = client[c].handle
      /\ \A d \in Slots \ {c} : client'[d] = client[d]
      /\ client'[c].scanning <=> At(t, "scanning")
  BY <1>4, AgreeClient, Zenon DEF ClientRecords
<1>6. (Assigned(c)' => Assigned(c))
  BY <1>5 DEF Assigned
<1>7. Ready(c)' => Somewhere(RearmOps, c)'
  <2>1. Ready(c)' => Head(todo[t]).op = "scanned"
    BY <1>1, <1>5 DEF Ready, SetScanning, At
  <2>2. Head(todo[t]).op = "scanned" => Later(todo[t], 1, {"arm", "restart"}, c)
    BY <1>1, <1>2, AgreeHead DEF Promise
  <2>3. Later(todo[t], 1, {"arm", "restart"}, c) => Later(todo[t], 1, RearmOps, c)
    BY DEF Later, RearmOps
  <2>4. Later(todo[t], 1, RearmOps, c) => Somewhere(RearmOps, c)'
    BY <1>1, SomewhereThen, EmptyMore
  <2> QED
    BY <2>1, <2>2, <2>3, <2>4
<1>8. client'[c].handle # NoPeer => client'[c].handle \in links \/ Somewhere({"lost"}, c)'
  <2>1. Head(todo[t]).op \notin {"lost"}
    BY <1>1
  <2>2. Somewhere({"lost"}, c) => Somewhere({"lost"}, c)'
    BY <1>1, <2>1, SomewhereThen, EmptyMore
  <2> QED
    BY <1>5, <2>2, AgreeClient
<1> QED
  BY <1>1, <1>2, <1>3, <1>5, <1>6, <1>7, <1>8, AgreeClient, AgreeOne, EmptyMore

\* A thread is handed work by whoever changes no client.
LEMMA AgreeStart ==
    ASSUME TypeOK, AgreeInv, NEW t \in Threads, NEW calls \in Seq(Calls), Starts(t, calls),
           client' = client, slots' = slots,
           gap'.op = "connect" => gap'.peer \in Suits(gap'.slot),
           links \subseteq links' \/ t = "host",
           \A c \in Slots : client[c].handle \in links =>
               client[c].handle \in links' \/ Somewhere({"lost"}, c)',
           \A i \in 1 .. Len(calls) : Fits(t, calls[i])' /\ Promise(t, i)'
    PROVE  AgreeInv'
<1>1. SuitInv'
  BY DEF AgreeInv, SuitInv
<1>2. CallInv'
  BY CallsStart DEF AgreeInv, Assigned
<1>3. \A ops, c : Somewhere(ops, c) => Somewhere(ops, c)'
  BY SomewhereStart
<1>4. WishInv'
  BY <1>3 DEF AgreeInv, WishInv, Ready, Wished
<1>5. HandleInv'
  BY <1>3 DEF AgreeInv, HandleInv
<1> QED
  BY <1>1, <1>2, <1>4, <1>5 DEF AgreeInv

\* The screens switch one client on or off.
LEMMA AgreeScreen ==
    ASSUME TypeOK, AgreeInv, NEW calls \in Seq(Calls), Starts("lvgl", calls),
           slots' = slots, links' = links, gap' = gap, NEW c \in Slots,
           \A d \in Slots \ {c} : client'[d] = client[d],
           client'[c].addr \in Suits(c), client'[c].handle = client[c].handle,
           \A i \in 1 .. Len(calls) : Fits("lvgl", calls[i])' /\ Promise("lvgl", i)',
           ~Ready(c)' \/ Somewhere(RearmOps, c)'
    PROVE  AgreeInv'
<1>1. SuitInv'
  <2>1. \A d \in Slots : /\ client'[d].addr \in Suits(d)
                         /\ client'[d].handle \in Suits(d) \cup {NoPeer}
    BY DEF AgreeInv, SuitInv
  <2> QED
    BY <2>1 DEF AgreeInv, SuitInv, Suits
<1>2. "lvgl" \in Threads
  BY DEF Threads
<1>3. CallInv'
  BY <1>2, CallsStart DEF AgreeInv
<1>4. \A ops, d : Somewhere(ops, d) => Somewhere(ops, d)'
  BY <1>2, SomewhereStart
<1>5. WishInv'
  <2>1. ASSUME NEW d \in Slots, Ready(d)', client'[d].handle = NoPeer
        PROVE  Wished(d)' \/ Somewhere(RearmOps, d)'
    <3>1. CASE d = c
      BY <2>1, <3>1
    <3>2. CASE d # c
      <4>1. client'[d] = client[d]
        BY <3>2
      <4>2. Wished(d) \/ Somewhere(RearmOps, d)
        BY <2>1, <4>1 DEF AgreeInv, WishInv, Ready
      <4> QED
        BY <1>4, <4>1, <4>2 DEF Wished
    <3> QED
      BY <3>1, <3>2
  <2> QED
    BY <2>1 DEF WishInv
<1>6. HandleInv'
  <2>1. \A d \in Slots : client'[d].handle = client[d].handle
    OBVIOUS
  <2> QED
    BY <1>4, <2>1 DEF AgreeInv, HandleInv
<1> QED
  BY <1>1, <1>3, <1>5, <1>6 DEF AgreeInv

LEMMA SimpleStart ==
    ASSUME TypeOK, NEW t \in Threads, NEW calls \in Seq(Simple), Starts(t, calls)
    PROVE  calls \in Seq(Calls) /\ \A i \in 1 .. Len(calls) : Fits(t, calls[i])' /\ Promise(t, i)'
<1>1. calls \in Seq(Calls)
  BY DEF Simple
<1>2. ASSUME NEW i \in 1 .. Len(calls) PROVE Fits(t, calls[i])' /\ Promise(t, i)'
  <2>1. calls[i] \in Simple /\ todo'[t] = calls
    BY <1>1, StartsTypes
  <2> QED
    BY <2>1, SimpleFits
<1> QED
  BY <1>1, <1>2

\* The end of a scan: the flag is cleared and the client armed, by the screens
\* (`first' is the cancellation) or by NimBLE.
LEMMA ScanEnds ==
    ASSUME TypeOK, NEW t \in Threads, NEW c \in Slots, NEW calls \in Seq(Calls), Starts(t, calls),
           \/ calls = <<Call("canceldisc", c), Call("scanned", c), Call("arm", c),
                        Call("resume", None)>>
           \/ calls = <<Call("scanned", c), Call("arm", c), Call("resume", None)>>
    PROVE  \A i \in 1 .. Len(calls) : Fits(t, calls[i])' /\ Promise(t, i)'
<1> DEFINE s == Call("scanned", c)
           a == Call("arm", c)
<1>1. /\ a \in Simple /\ Call("canceldisc", c) \in Simple /\ Call("resume", None) \in Simple
      /\ s.op = "scanned" /\ s.slot = c /\ a.op = "arm" /\ a.slot = c
  BY SimpleCalls, CallTypes DEF SlotOps
<1>2. todo'[t] = calls
  BY StartsTypes
<1>3. PICK k \in 1 .. 2 : /\ calls[k] = s /\ calls[k + 1] = a /\ k + 1 <= Len(calls)
                          /\ \A i \in 1 .. Len(calls) : i = k \/ calls[i] \in Simple
  <2>1. CASE calls = <<Call("canceldisc", c), Call("scanned", c), Call("arm", c),
                       Call("resume", None)>>
    <3>1. /\ calls[2] = s /\ calls[3] = a /\ Len(calls) = 4
          /\ calls[1] \in Simple /\ calls[3] \in Simple /\ calls[4] \in Simple
      BY <1>1, <2>1
    <3> QED
      BY <3>1
  <2>2. CASE calls = <<Call("scanned", c), Call("arm", c), Call("resume", None)>>
    <3>1. /\ calls[1] = s /\ calls[2] = a /\ Len(calls) = 3
          /\ calls[2] \in Simple /\ calls[3] \in Simple
      BY <1>1, <2>2
    <3> QED
      BY <3>1
  <2> QED
    BY <2>1, <2>2
<1> HIDE DEF s, a
<1>4. Later(todo'[t], k, {"arm", "restart"}, c)
  BY <1>1, <1>2, <1>3 DEF Later
<1>5. ASSUME NEW i \in 1 .. Len(calls) PROVE Fits(t, calls[i])' /\ Promise(t, i)'
  <2>1. CASE i = k
    <3>1. calls[i] = s
      BY <1>3, <2>1
    <3> QED
      BY <1>1, <1>2, <1>4, <2>1, <3>1 DEF Fits, Promise
  <2>2. CASE i # k
    BY <1>2, <1>3, <2>2, SimpleFits
  <2> QED
    BY <2>1, <2>2
<1> QED
  BY <1>5

\* The statics of one client, as a screen leaves them.
LEMMA ClientChanged ==
    ASSUME TypeOK, NEW c \in Slots,
           \/ client' = client
           \/ client' = [client EXCEPT ![c].bound = FALSE]
           \/ \E b \in BOOLEAN : client' = [client EXCEPT ![c].parked = b]
           \/ \E p \in Peers : client' = [client EXCEPT ![c].bound = TRUE, ![c].addr = p,
                                                        ![c].parked = FALSE]
    PROVE  /\ \A d \in Slots \ {c} : client'[d] = client[d]
           /\ client'[c].handle = client[c].handle
<1>1. client \in [Slots -> ClientRecords] /\ client[c] \in ClientRecords
  BY ClientTypes DEF TypeOK, ClientRecords
<1>2. CASE client' = [client EXCEPT ![c].bound = FALSE]
  BY <1>1, <1>2 DEF ClientRecords
<1>3. ASSUME NEW b \in BOOLEAN, client' = [client EXCEPT ![c].parked = b]
      PROVE  /\ \A d \in Slots \ {c} : client'[d] = client[d]
             /\ client'[c].handle = client[c].handle
  BY <1>1, <1>3 DEF ClientRecords
<1>4. ASSUME NEW p \in Peers,
             client' = [client EXCEPT ![c].bound = TRUE, ![c].addr = p, ![c].parked = FALSE]
      PROVE  /\ \A d \in Slots \ {c} : client'[d] = client[d]
             /\ client'[c].handle = client[c].handle
  BY <1>1, <1>4 DEF ClientRecords
<1> QED
  BY <1>2, <1>3, <1>4

\* Forgetting a sensor and parking the adapter end with a client that is off.
LEMMA AgreeOff ==
    ASSUME TypeOK, AgreeInv, NEW c \in Slots, Forget(c) \/ Park(c)
    PROVE  AgreeInv'
<1> DEFINE s == Call("stop", c)
           d == Call("drop", c)
           calls == <<s, d>>
<1>1. /\ s \in Calls /\ d \in Calls
      /\ s.op = "stop" /\ s.slot = c /\ d.op = "drop" /\ d.slot = c
  BY CallTypes DEF SlotOps
<1>2. Starts("lvgl", calls) /\ slots' = slots /\ links' = links /\ gap' = gap
  BY DEF Forget, Park, Ui, arb, ble
<1>3. client' = [client EXCEPT ![c].bound = FALSE] \/ client' = [client EXCEPT ![c].parked = TRUE]
  BY DEF Forget, Park
<1>4. /\ \A e \in Slots \ {c} : client'[e] = client[e]
      /\ client'[c].handle = client[c].handle
  BY <1>3, ClientChanged
<1>5. client'[c].addr = client[c].addr /\ ~Assigned(c)' /\ ~Ready(c)'
  BY <1>3, AgreeClient DEF ClientRecords, Assigned, Ready
<1> HIDE DEF s, d
<1>6. calls \in Seq(Calls) /\ Len(calls) = 2 /\ calls[1] = s /\ calls[2] = d
  BY <1>1
<1> HIDE DEF calls
<1>7. "lvgl" \in Threads /\ todo'["lvgl"] = calls
  BY <1>2, <1>6, StartsTypes DEF Threads
<1>8. ASSUME NEW i \in 1 .. Len(calls) PROVE Fits("lvgl", calls[i])' /\ Promise("lvgl", i)'
  <2>1. calls[i].op \in {"stop", "drop"} /\ calls[i].slot = c
    BY <1>1, <1>6
  <2> QED
    BY <1>5, <1>7, <2>1 DEF Fits, Promise
<1> QED
  BY <1>2, <1>4, <1>5, <1>6, <1>8, AgreeClient, AgreeScreen

\* Selecting a sensor and reconnecting the adapter end with a client that is armed.
LEMMA AgreeOn ==
    ASSUME TypeOK, AgreeInv, NEW c \in Slots, Reconnect(c) \/ \E p \in Suits(c) : Bind(c, p)
    PROVE  AgreeInv'
<1>1. slots' = slots /\ links' = links /\ gap' = gap
  BY DEF Reconnect, Bind, Ui, arb, ble
<1>2. CASE Reconnect(c)
  <2> DEFINE calls == <<Call("arm", c)>>
  <2>1. calls \in Seq(Simple) /\ Len(calls) = 1 /\ calls[1].op = "arm" /\ calls[1].slot = c
    BY SimpleCalls, CallTypes DEF SlotOps
  <2>2. Starts("lvgl", calls) /\ client' = [client EXCEPT ![c].parked = FALSE]
    BY <1>2 DEF Reconnect, Ui
  <2> HIDE DEF calls
  <2>3. "lvgl" \in Threads
    BY DEF Threads
  <2>4. /\ calls \in Seq(Calls)
        /\ \A i \in 1 .. Len(calls) : Fits("lvgl", calls[i])' /\ Promise("lvgl", i)'
    BY <2>1, <2>2, <2>3, SimpleStart
  <2>5. Somewhere(RearmOps, c)'
    <3>1. 1 \in 1 .. Len(calls) /\ calls[1].op \in RearmOps
      BY <2>1 DEF RearmOps
    <3> QED
      BY <2>1, <2>2, <2>3, <2>4, <3>1, SomewhereStart
  <2>6. /\ \A d \in Slots \ {c} : client'[d] = client[d]
        /\ client'[c].handle = client[c].handle
    BY <2>2, ClientChanged
  <2>7. client'[c].addr = client[c].addr
    BY <2>2, AgreeClient DEF ClientRecords
  <2> QED
    BY <1>1, <2>2, <2>4, <2>5, <2>6, <2>7, AgreeClient, AgreeScreen
<1>3. CASE \E p \in Suits(c) : Bind(c, p)
  <2>1. PICK p \in Suits(c) : Bind(c, p)
    BY <1>3
  <2> DEFINE e == Call("endscan", c)
             r == Call("restart", c)
             calls == <<e, r>>
  <2>2. /\ e \in Calls /\ r \in Calls
        /\ e.op = "endscan" /\ e.slot = c /\ r.op = "restart" /\ r.slot = c
    BY CallTypes DEF SlotOps
  <2>3. /\ Starts("lvgl", calls)
        /\ client' = [client EXCEPT ![c].bound = TRUE, ![c].addr = p, ![c].parked = FALSE]
    BY <2>1 DEF Bind, Ui
  <2> HIDE DEF e, r
  <2>4. calls \in Seq(Calls) /\ Len(calls) = 2 /\ calls[1] = e /\ calls[2] = r
    BY <2>2
  <2> HIDE DEF calls
  <2>5. "lvgl" \in Threads /\ todo'["lvgl"] = calls
    BY <2>3, <2>4, StartsTypes DEF Threads
  <2>6. Later(calls, 1, {"restart"}, c)
    BY <2>2, <2>4 DEF Later
  <2>7. ASSUME NEW i \in 1 .. Len(calls) PROVE Fits("lvgl", calls[i])' /\ Promise("lvgl", i)'
    <3>1. CASE i = 1
      BY <2>2, <2>4, <2>5, <2>6, <3>1 DEF Fits, Promise
    <3>2. CASE i = 2
      BY <2>2, <2>4, <2>5, <3>2 DEF Fits, Promise
    <3> QED
      BY <2>4, <3>1, <3>2
  <2>8. Somewhere(RearmOps, c)'
    <3>1. 2 \in 1 .. Len(calls) /\ calls[2].op \in RearmOps /\ calls[2].slot = c
      BY <2>2, <2>4 DEF RearmOps
    <3> QED
      BY <2>3, <2>4, <2>5, <3>1, SomewhereStart
  <2>9. p \in Peers /\ p \in Suits(c)
    BY DEF Suits
  <2>10. /\ \A d \in Slots \ {c} : client'[d] = client[d]
         /\ client'[c].handle = client[c].handle
    BY <2>3, <2>9, ClientChanged
  <2>11. client'[c].addr = p
    BY <2>3, AgreeClient DEF ClientRecords
  <2> QED
    BY <1>1, <2>3, <2>4, <2>7, <2>8, <2>9, <2>10, <2>11, AgreeScreen
<1> QED
  BY <1>2, <1>3

LEMMA AgreeScan ==
    ASSUME TypeOK, AgreeInv, NEW c \in Slots, ScanStart(c) \/ ScanStop(c)
    PROVE  AgreeInv'
<1>1. /\ "lvgl" \in Threads /\ client' = client /\ slots' = slots /\ links' = links
      /\ gap' = gap
  BY DEF Threads, ScanStart, ScanStop, Ui, arb, ble
<1>2. PICK calls \in Seq(Calls) :
          /\ Starts("lvgl", calls)
          /\ \A i \in 1 .. Len(calls) : Fits("lvgl", calls[i])' /\ Promise("lvgl", i)'
  <2>1. CASE ScanStart(c)
    <3> DEFINE calls == <<Call("suspend", None), Call("disc", c)>>
    <3>1. calls \in Seq(Simple)
      BY SimpleCalls DEF SlotOps
    <3>2. Starts("lvgl", calls)
      BY <2>1 DEF ScanStart, Ui
    <3> HIDE DEF calls
    <3> QED
      BY <1>1, <3>1, <3>2, SimpleStart
  <2>2. CASE ScanStop(c)
    <3> DEFINE calls == <<Call("canceldisc", c), Call("scanned", c), Call("arm", c),
                          Call("resume", None)>>
    <3>1. /\ Call("canceldisc", c) \in Calls /\ Call("scanned", c) \in Calls
          /\ Call("arm", c) \in Calls /\ Call("resume", None) \in Calls
      BY SlotCalls, ArbCalls DEF SlotOps
    <3>2. calls \in Seq(Calls)
      BY <3>1
    <3>3. Starts("lvgl", calls)
      BY <2>2 DEF ScanStop, Ui
    <3>4. \A i \in 1 .. Len(calls) : Fits("lvgl", calls[i])' /\ Promise("lvgl", i)'
      BY <1>1, <3>2, <3>3, ScanEnds
    <3> HIDE DEF calls
    <3> QED
      BY <3>2, <3>3, <3>4
  <2> QED
    BY <2>1, <2>2
<1>3. gap'.op = "connect" => gap'.peer \in Suits(gap'.slot)
  BY <1>1 DEF AgreeInv, SuitInv
<1> QED
  BY <1>1, <1>2, <1>3, AgreeStart

\* The update worker, and what NimBLE tells the host task.
LEMMA AgreeWorld ==
    ASSUME TypeOK, AgreeInv, OtaBegin \/ OtaEnd \/ ConnectFailed
    PROVE  AgreeInv'
<1>1. client' = client /\ slots' = slots /\ links' = links
  BY DEF OtaBegin, OtaEnd, ConnectFailed, arb, ble
<1>2. gap'.op = "connect" => gap'.peer \in Suits(gap'.slot)
  <2>1. gap' = gap \/ gap' = NoGap
    BY DEF OtaBegin, OtaEnd, ConnectFailed, ble
  <2> QED
    BY <2>1 DEF AgreeInv, SuitInv, NoGap
<1>3. \E t \in Threads : \E calls \in Seq(Simple) : Starts(t, calls)
  <2>1. CASE OtaBegin \/ OtaEnd
    <3>1. Starts("ota", <<Call("suspend", None)>>) \/ Starts("ota", <<Call("resume", None)>>)
      BY <2>1 DEF OtaBegin, OtaEnd
    <3> QED
      BY <3>1, SimpleCalls DEF Threads
  <2>2. CASE ConnectFailed
    <3>1. gap.slot \in Slots
      BY <2>2 DEF ConnectFailed, TypeOK, Procedures
    <3>2. Call("failed", gap.slot) \in Simple
      BY <3>1, SimpleCalls DEF SlotOps
    <3>3. <<Call("failed", gap.slot)>> \in Seq(Simple)
      BY <3>2
    <3> QED
      BY <2>2, <3>3 DEF ConnectFailed, Threads
  <2> QED
    BY <2>1, <2>2
<1>4. PICK t \in Threads : \E calls \in Seq(Simple) : Starts(t, calls)
  BY <1>3
<1>5. PICK calls \in Seq(Simple) : Starts(t, calls)
  BY <1>4
<1>6. calls \in Seq(Calls) /\ \A i \in 1 .. Len(calls) : Fits(t, calls[i])' /\ Promise(t, i)'
  BY <1>5, SimpleStart
<1> QED
  BY <1>1, <1>2, <1>5, <1>6, AgreeStart

LEMMA AgreeDiscComplete ==
    ASSUME TypeOK, AgreeInv, DiscComplete
    PROVE  AgreeInv'
<1>1. /\ "host" \in Threads /\ client' = client /\ slots' = slots /\ links' = links
      /\ gap' = NoGap
  BY DEF Threads, DiscComplete, arb
<1>2. PICK c \in Slots : c = gap.slot
  BY DEF DiscComplete, TypeOK, Procedures
<1> DEFINE calls == <<Call("scanned", c), Call("arm", c), Call("resume", None)>>
<1>3. /\ Call("scanned", c) \in Calls /\ Call("arm", c) \in Calls
      /\ Call("resume", None) \in Calls
  BY SlotCalls, ArbCalls DEF SlotOps
<1>4. calls \in Seq(Calls)
  BY <1>3
<1>5. Starts("host", calls)
  BY <1>2 DEF DiscComplete
<1>6. \A i \in 1 .. Len(calls) : Fits("host", calls[i])' /\ Promise("host", i)'
  BY <1>1, <1>4, <1>5, ScanEnds
<1>7. gap'.op = "connect" => gap'.peer \in Suits(gap'.slot)
  BY <1>1 DEF NoGap
<1> HIDE DEF calls
<1> QED
  BY <1>1, <1>4, <1>5, <1>6, <1>7, AgreeStart

\* A link comes up for the client that asked for it.
LEMMA AgreeConnected ==
    ASSUME TypeOK, AgreeInv, Connected
    PROVE  AgreeInv'
<1>1. /\ "host" \in Threads /\ client' = client /\ slots' = slots
      /\ gap' = NoGap /\ links' = links \cup {gap.peer}
  BY DEF Threads, Connected, arb
<1>2. gap.slot \in Slots /\ gap.peer \in Suits(gap.slot)
  BY DEF Connected, TypeOK, Procedures, AgreeInv, SuitInv
<1>3. PICK x : x = CallPeer("linked", gap.slot, gap.peer)
  OBVIOUS
<1>4. gap.peer \in Peers
  BY <1>2 DEF Suits
<1>5. x \in Calls /\ x.op = "linked" /\ x.slot = gap.slot /\ x.peer = gap.peer
  BY <1>2, <1>3, <1>4, SlotCalls DEF CallPeer
<1>6. <<x>> \in Seq(Calls) /\ Len(<<x>>) = 1 /\ <<x>>[1] = x
  BY <1>5
<1>7. Starts("host", <<x>>)
  BY <1>3 DEF Connected
<1>8. ASSUME NEW i \in 1 .. Len(<<x>>) PROVE Fits("host", <<x>>[i])' /\ Promise("host", i)'
  <2>1. i = 1 /\ <<x>>[i] = x
    BY <1>6
  <2>2. todo'["host"] = <<x>>
    BY <1>1, <1>6, <1>7, StartsTypes
  <2>3. Fits("host", x)'
    BY <1>1, <1>2, <1>5 DEF Fits, Suits
  <2>4. todo'["host"][i] = x
    BY <2>1, <2>2
  <2>5. Promise("host", i)'
    BY <1>5, <2>4 DEF Promise
  <2> QED
    BY <2>1, <2>3, <2>5
<1>9. gap'.op = "connect" => gap'.peer \in Suits(gap'.slot)
  BY <1>1 DEF NoGap
<1> QED
  BY <1>1, <1>6, <1>7, <1>8, <1>9, AgreeStart

\* A link goes down: the client that holds it is told.
LEMMA AgreeDisconnected ==
    ASSUME TypeOK, AgreeInv, NEW p \in Peers, Disconnected(p)
    PROVE  AgreeInv'
<1>1. /\ "host" \in Threads /\ client' = client /\ slots' = slots
      /\ gap' = gap /\ links' = links \ {p} /\ p[1] \in Slots
  BY DEF Threads, Disconnected, arb, Peers
<1> DEFINE calls == <<Call("lost", p[1])>>
<1>2. calls \in Seq(Simple) /\ Len(calls) = 1 /\ calls[1].op = "lost" /\ calls[1].slot = p[1]
  BY <1>1, SimpleCalls, CallTypes DEF SlotOps
<1>3. Starts("host", calls)
  BY DEF Disconnected
<1> HIDE DEF calls
<1>4. /\ calls \in Seq(Calls)
      /\ \A i \in 1 .. Len(calls) : Fits("host", calls[i])' /\ Promise("host", i)'
  BY <1>1, <1>2, <1>3, SimpleStart
<1>5. Somewhere({"lost"}, p[1])'
  <2>1. 1 \in 1 .. Len(calls) /\ calls[1].op \in {"lost"}
    BY <1>2
  <2> QED
    BY <1>1, <1>2, <1>3, <1>4, <2>1, SomewhereStart
<1>6. ASSUME NEW c \in Slots, client[c].handle \in links
      PROVE  client[c].handle \in links' \/ Somewhere({"lost"}, c)'
  <2>1. CASE client[c].handle = p
    <3>1. p \in Suits(c)
      BY <2>1, AgreeClient
    <3> QED
      BY <1>5, <3>1 DEF Suits
  <2>2. CASE client[c].handle # p
    BY <1>1, <1>6, <2>2
  <2> QED
    BY <2>1, <2>2
<1>7. gap'.op = "connect" => gap'.peer \in Suits(gap'.slot)
  BY <1>1 DEF AgreeInv, SuitInv
<1> QED
  BY <1>1, <1>3, <1>4, <1>6, <1>7, AgreeStart

LEMMA AgreeInit == Init => AgreeInv
<1> SUFFICES ASSUME Init PROVE AgreeInv
  OBVIOUS
<1>1. SuitInv
  BY DEF Init, SuitInv, NoGap
<1>2. CallInv
  <2>1. \A t \in Threads : \A i \in 1 .. Len(todo[t]) : todo[t][i].op = "sync"
    BY BleArbAssumption DEF Init, Call
  <2> QED
    BY <2>1 DEF CallInv, FitsAt, Fits, Promise
<1>3. WishInv /\ HandleInv
  BY DEF Init, WishInv, HandleInv, Ready
<1> QED
  BY <1>1, <1>2, <1>3 DEF AgreeInv

LEMMA AgreeStep == TypeOK /\ AgreeInv /\ [Next]_vars => AgreeInv'
<1> SUFFICES ASSUME TypeOK, AgreeInv, [Next]_vars PROVE AgreeInv'
  OBVIOUS
<1>1. ASSUME NEW t \in Threads, Executes(t) PROVE AgreeInv'
  BY <1>1, AgreeRadio, AgreeEvaluate, AgreeEndScan, AgreeWant, AgreeStop, AgreeRelease,
     AgreeArms, AgreeArm, AgreeHandle, AgreeRestart, AgreeScanning DEF Executes
<1>2. CASE Screens
  BY <1>2, AgreeOff, AgreeOn, AgreeScan DEF Screens
<1>3. CASE Nimble
  BY <1>3, AgreeWorld, AgreeDiscComplete, AgreeConnected, AgreeDisconnected DEF Nimble
<1>4. CASE UNCHANGED vars \/ \E p \in Peers : WakesUp(p) \/ FallsAsleep(p)
  <2>1. UNCHANGED <<slots, client, gap, links, todo>>
    BY <1>4 DEF vars, WakesUp, FallsAsleep, arb, ble
  <2> QED
    BY <2>1 DEF AgreeInv, SuitInv, CallInv, FitsAt, Fits, Promise, Assigned, WishInv, HandleInv,
       Ready, Wished, Somewhere
<1> QED
  BY <1>1, <1>2, <1>3, <1>4, AgreeWorld DEF Next

\* However the threads overtake each other, a client whose calls have returned
\* has a link that is up, or has its request with the address it is bound to on
\* the arbiter's record, or is not to connect: no sensor is left with neither.
THEOREM SensorsAreNotForgotten == Spec => []ClientsAgreeWithRadio
<1>1. AgreeInv => ClientsAgreeWithRadio
  <2>1. SUFFICES ASSUME AgreeInv, Idle PROVE WishIsOnRecord /\ HandleIsReal
    BY DEF ClientsAgreeWithRadio, WishIsOnRecord, HandleIsReal
  <2>2. \A ops, c : ~Somewhere(ops, c)
    BY <2>1 DEF Idle, Somewhere
  <2> QED
    BY <2>1, <2>2 DEF AgreeInv, WishInv, HandleInv, Wished, WishIsOnRecord, HandleIsReal
<1> QED
  BY <1>1, TypeInit, TypeStep, AgreeInit, AgreeStep, PTL DEF Spec

===============================================================================
