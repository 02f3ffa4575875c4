------------------------------- MODULE BleArb -------------------------------
(***************************************************************************)
(* The central-connect arbiter of the display (main/ble_central_arb.c)     *)
(* with the clients that share it: cadence sensor, wheel-speed sensor and  *)
(* VESC adapter (ble_cadence_client.c, ble_speed_client.c and              *)
(* ble_vesc_client.c have the same connection management), and the         *)
(* firmware-update worker that parks it (ble_ota.c, ble_link_boost.c).     *)
(*                                                                         *)
(* Three threads run this code: the NimBLE host task (every GAP event),    *)
(* the LVGL task (settings screens) and the update worker.  A lock covers  *)
(* each access to the arbiter's state but never a call into NimBLE, so a   *)
(* thread can be overtaken between the two.  `todo' holds what each thread *)
(* still has to execute: one entry per locked section, NimBLE call or      *)
(* access to a client's state, in program order.                           *)
(*                                                                         *)
(* NimBLE itself is external: one GAP procedure at a time, an initiator    *)
(* that is cancelled asynchronously, links that are closed asynchronously. *)
(***************************************************************************)
EXTENDS Integers, Sequences, FiniteSets

CONSTANTS
    NSlots,        \* registered clients: slots 0 .. NSlots - 1
    Adapter,       \* the slot of the VESC adapter, the one that can be parked
    Sensors,       \* a client may be bound to any of these, in its own range
    MaxUi,         \* bound: operations of the settings screens
    MaxSleeps,     \* bound: times a sensor falls asleep
    MaxOta,        \* bound: firmware updates
    MaxEvents      \* bound: these three together

ASSUME BleArbAssumption ==
    /\ NSlots \in Nat \ {0} /\ Adapter \in Nat
    /\ MaxUi \in Nat /\ MaxSleeps \in Nat /\ MaxOta \in Nat /\ MaxEvents \in Nat

Slots   == 0 .. NSlots - 1
Peers   == Slots \X Sensors       \* an address, and the client it suits
None    == -1                     \* no slot
NoPeer  == <<None, None>>         \* not bound, or BLE_HS_CONN_HANDLE_NONE
Threads == {"host", "lvgl", "ota"}

VARIABLES
    slots,      \* s_slots: [want, peer]
    pending,    \* s_pending
    forever,    \* s_pending_forever
    suspended,  \* s_scan_suspended
    next,       \* s_next
    synced,     \* s_synced of the arbiter
    client,     \* the statics of each client
    boosted,    \* s_link_boosted: the update worker wants the arbiter parked
    gap,        \* NimBLE: the GAP procedure in progress
    links,      \* NimBLE: the peers this device is connected to
    closing,    \* NimBLE: links being terminated
    awake,      \* environment: the sensors that advertise
    todo,       \* what each thread has yet to execute
    lapses,     \* history: a cancellation that missed, an attempt that was refused
    used        \* how much of each bound is used

arb  == <<slots, pending, forever, suspended, next, synced>>
ble  == <<gap, links, closing>>
env  == <<awake, lapses, used>>
vars == <<slots, pending, forever, suspended, next, synced, client, boosted,
          gap, links, closing, awake, todo, lapses, used>>

NoGap == [op |-> "idle", slot |-> None, peer |-> NoPeer,
          forever |-> FALSE, cancelled |-> FALSE]

-----------------------------------------------------------------------------
(* Threads *)

Call(op, c)        == [op |-> op, slot |-> c, peer |-> NoPeer, forever |-> FALSE]
CallPeer(op, c, p) == [op |-> op, slot |-> c, peer |-> p, forever |-> FALSE]

Idle == \A t \in Threads : todo[t] = <<>>

At(t, op) == todo[t] # <<>> /\ Head(todo[t]).op = op

\* What t executes now returns, after calling `more' last.
Then(t, more) == todo' = [todo EXCEPT ![t] = more \o Tail(@)]

\* An idle thread is handed new work.
Starts(t, calls) == todo[t] = <<>> /\ todo' = [todo EXCEPT ![t] = calls]

-----------------------------------------------------------------------------
(* The arbiter *)

Wanting == {c \in Slots : slots[c].want}

\* Mutant of Pick: the cursor is ignored.
PickLowest == CHOOSE c \in Wanting : \A d \in Wanting : c <= d

\* Round robin from the cursor.
Pick == LET Distance(c) == (c - next) % NSlots
        IN  CHOOSE c \in Wanting : \A d \in Wanting : Distance(c) <= Distance(d)

Blocked == ~synced \/ suspended \/ pending # None \/ Wanting = {}

Evaluate(t) ==
    /\ At(t, "evaluate")
    /\ IF Blocked
       THEN /\ Then(t, <<>>)
            /\ UNCHANGED <<pending, forever, next, lapses>>
       ELSE /\ pending' = Pick
            /\ lapses' = lapses \ {"refused"}
            /\ forever' = (Cardinality(Wanting) < 2)
            /\ next' = (Pick + 1) % NSlots
            /\ Then(t, <<[op |-> "connect", slot |-> Pick,
                          peer |-> slots[Pick].peer, forever |-> forever']>>)
    /\ UNCHANGED <<slots, suspended, synced, client, boosted, ble, awake, used>>

\* ble_gap_connect, outside the lock: refused while another procedure owns the
\* radio and for a peer that is already connected.
Connect(t) ==
    /\ At(t, "connect")
    /\ LET c == Head(todo[t])
       IN  IF gap.op = "idle" /\ c.peer \notin links
           THEN /\ gap' = [op |-> "connect", slot |-> c.slot, peer |-> c.peer,
                           forever |-> c.forever, cancelled |-> FALSE]
                /\ Then(t, <<>>)
           ELSE /\ UNCHANGED gap
                /\ Then(t, <<Call("rollback", c.slot)>>)
    /\ UNCHANGED <<arb, client, boosted, links, closing, env>>

\* Mutant of Rollback: a refused attempt stays on record.
RollbackForgotten(t) ==
    /\ At(t, "rollback")
    /\ Then(t, <<>>)
    /\ UNCHANGED <<arb, client, boosted, ble, env>>

Rollback(t) ==
    /\ At(t, "rollback")
    /\ pending' = IF pending = Head(todo[t]).slot THEN None ELSE pending
    /\ lapses' = {"refused"}
    /\ Then(t, <<>>)
    /\ UNCHANGED <<slots, forever, suspended, next, synced, client, boosted, ble, awake, used>>

\* Mutant of WantConnect: an unbounded attempt of another slot is left alone.
WantConnectPolitely(t) ==
    /\ At(t, "want")
    /\ LET c == Head(todo[t]).slot
       IN  /\ slots' = [slots EXCEPT ![c] = [want |-> TRUE, peer |-> client[c].addr]]
           /\ Then(t, IF pending = c THEN <<>> ELSE <<Call("evaluate", None)>>)
    /\ UNCHANGED <<pending, forever, suspended, next, synced, client, boosted, ble, env>>

WantConnect(t) ==
    /\ At(t, "want")
    /\ LET c == Head(todo[t]).slot
       IN  /\ slots' = [slots EXCEPT ![c] = [want |-> TRUE, peer |-> client[c].addr]]
           /\ Then(t, CASE pending \notin {None, c} /\ forever -> <<Call("cancel", None)>>
                        [] pending = c                         -> <<>>
                        [] OTHER                               -> <<Call("evaluate", None)>>)
    /\ UNCHANGED <<pending, forever, suspended, next, synced, client, boosted, ble, env>>

StopConnect(t) ==
    /\ At(t, "stop")
    /\ LET c == Head(todo[t]).slot
       IN  /\ slots' = [slots EXCEPT ![c].want = FALSE]
           /\ Then(t, IF pending = c THEN <<Call("cancel", None)>> ELSE <<>>)
    /\ UNCHANGED <<pending, forever, suspended, next, synced, client, boosted, ble, env>>

\* Mutant of ScanSuspend: only new attempts are held back.
ScanSuspendLate(t) ==
    /\ At(t, "suspend")
    /\ suspended' = TRUE
    /\ Then(t, <<>>)
    /\ UNCHANGED <<slots, pending, forever, next, synced, client, boosted, ble, env>>

ScanSuspend(t) ==
    /\ At(t, "suspend")
    /\ suspended' = TRUE
    /\ Then(t, IF pending # None THEN <<Call("cancel", None)>> ELSE <<>>)
    /\ UNCHANGED <<slots, pending, forever, next, synced, client, boosted, ble, env>>

ScanResume(t) ==
    /\ At(t, "resume")
    /\ suspended' = FALSE
    /\ Then(t, <<Call("evaluate", None)>>)
    /\ UNCHANGED <<slots, pending, forever, next, synced, client, boosted, ble, env>>

\* arb_trampoline on a connection event, before the client's callback.
Release(t) ==
    /\ At(t, "failed") \/ At(t, "linked")
    /\ LET c  == Head(todo[t]).slot
           ok == Head(todo[t]).op = "linked"
       IN  /\ pending' = IF pending = c THEN None ELSE pending
           /\ forever' = (forever /\ pending # c)
           /\ slots' = IF ok THEN [slots EXCEPT ![c].want = FALSE] ELSE slots
           /\ Then(t, <<IF ok THEN CallPeer("keep", c, Head(todo[t]).peer)
                              ELSE Call("lost", c),
                        Call("evaluate", None)>>)
    /\ UNCHANGED <<suspended, next, synced, client, boosted, ble, env>>

-----------------------------------------------------------------------------
(* The clients; the callbacks of the host task and the calls of the screens *)

Unmoved == UNCHANGED <<slots, pending, forever, suspended, next, synced, boosted, env>>

\* The client's on_ble_sync hook.
ClientSync(t) ==
    /\ At(t, "sync")
    /\ LET c == Head(todo[t]).slot
       IN  /\ client' = [client EXCEPT ![c].synced = TRUE]
           /\ Then(t, <<Call("arm", c)>>)
    /\ Unmoved /\ UNCHANGED ble

ArmConnect(t) ==
    /\ At(t, "arm")
    /\ LET c     == Head(todo[t]).slot
           ready == /\ client[c].synced /\ client[c].bound
                    /\ ~client[c].parked /\ ~client[c].scanning
                    /\ client[c].handle = NoPeer
       IN  Then(t, IF ready THEN <<Call("want", c)>> ELSE <<>>)
    /\ Unmoved /\ UNCHANGED <<client, ble>>

\* The connection came up: its handle is kept.
KeepHandle(t) ==
    /\ At(t, "keep")
    /\ client' = [client EXCEPT ![Head(todo[t]).slot].handle = Head(todo[t]).peer]
    /\ Then(t, <<>>)
    /\ Unmoved /\ UNCHANGED ble

\* Mutant of LoseHandle: the client does not re-arm.
LoseHandleForGood(t) ==
    /\ At(t, "lost")
    /\ client' = [client EXCEPT ![Head(todo[t]).slot].handle = NoPeer]
    /\ Then(t, <<>>)
    /\ Unmoved /\ UNCHANGED ble

\* The connection failed, or an existing one is gone: re-arm.
LoseHandle(t) ==
    /\ At(t, "lost")
    /\ LET c == Head(todo[t]).slot
       IN  /\ client' = [client EXCEPT ![c].handle = NoPeer]
           /\ Then(t, <<Call("arm", c)>>)
    /\ Unmoved /\ UNCHANGED ble

Terminated(c) == IF client[c].handle \in links THEN closing \cup {client[c].handle}
                                               ELSE closing

Restart(t) ==
    /\ At(t, "restart")
    /\ LET c == Head(todo[t]).slot
       IN  IF client[c].handle # NoPeer
           THEN closing' = Terminated(c) /\ Then(t, <<>>)
           ELSE UNCHANGED closing /\ Then(t, <<Call("stop", c), Call("arm", c)>>)
    /\ Unmoved /\ UNCHANGED <<client, gap, links>>

\* The end of a forget or a disconnect: terminate, then reset_link_handles.
Drop(t) ==
    /\ At(t, "drop")
    /\ LET c == Head(todo[t]).slot
       IN  /\ closing' = Terminated(c)
           /\ client' = [client EXCEPT ![c].handle = NoPeer]
    /\ Then(t, <<>>)
    /\ Unmoved /\ UNCHANGED <<gap, links>>

\* ble_gap_disc, after the arbiter was suspended.
StartDisc(t) ==
    /\ At(t, "disc")
    /\ LET c == Head(todo[t]).slot
       IN  IF gap.op = "idle"
           THEN /\ gap' = [NoGap EXCEPT !.op = "scan", !.slot = c]
                /\ Then(t, <<Call("scanning", c)>>)
           ELSE /\ UNCHANGED gap
                /\ Then(t, <<Call("arm", c), Call("resume", None)>>)
    /\ Unmoved /\ UNCHANGED <<client, links, closing>>

SetScanning(t) ==
    /\ At(t, "scanning") \/ At(t, "scanned")
    /\ client' = [client EXCEPT ![Head(todo[t]).slot].scanning = At(t, "scanning")]
    /\ Then(t, <<>>)
    /\ Unmoved /\ UNCHANGED ble

CancelDisc(t) ==
    /\ At(t, "canceldisc")
    /\ gap' = IF gap.op = "scan" THEN NoGap ELSE gap
    /\ Then(t, <<>>)
    /\ Unmoved /\ UNCHANGED <<client, links, closing>>

\* bind: a scan in progress is ended before the connection restarts.
EndScan(t) ==
    /\ At(t, "endscan")
    /\ LET c == Head(todo[t]).slot
       IN  Then(t, IF client[c].scanning
                   THEN <<Call("canceldisc", c), Call("scanned", c), Call("resume", None)>>
                   ELSE <<>>)
    /\ Unmoved /\ UNCHANGED <<client, ble>>

\* ble_gap_conn_cancel: the attempt ends later, with a failed connection event.
\* Called before the attempt it is meant for, it hits nothing.
CancelConnect(t) ==
    /\ At(t, "cancel")
    /\ gap' = [gap EXCEPT !.cancelled = (gap.op = "connect")]
    /\ lapses' = IF gap.op # "connect" /\ \E u \in Threads : At(u, "connect")
                 THEN lapses \cup {"missed"} ELSE lapses
    /\ Then(t, <<>>)
    /\ UNCHANGED <<arb, client, boosted, links, closing, awake, used>>

-----------------------------------------------------------------------------
(* What starts a thread: the settings screens, the update worker, NimBLE *)

MoreEvents == used.ui + used.sleeps + used.ota < MaxEvents

Ui(calls) ==
    /\ Starts("lvgl", calls)
    /\ used.ui < MaxUi /\ MoreEvents
    /\ used' = [used EXCEPT !.ui = @ + 1]
    /\ UNCHANGED <<arb, boosted, ble, awake, lapses>>

ScanStart(c) ==
    /\ client[c].synced /\ ~client[c].scanning
    /\ Ui(<<Call("suspend", None), Call("disc", c)>>)
    /\ UNCHANGED client

ScanStop(c) ==
    /\ client[c].scanning
    /\ Ui(<<Call("canceldisc", c), Call("scanned", c), Call("arm", c), Call("resume", None)>>)
    /\ UNCHANGED client

Bind(c, p) ==
    /\ Ui(<<Call("endscan", c), Call("restart", c)>>)
    /\ client' = [client EXCEPT ![c].bound = TRUE, ![c].addr = p, ![c].parked = FALSE]

Forget(c) ==
    /\ client[c].bound
    /\ Ui(<<Call("stop", c), Call("drop", c)>>)
    /\ client' = [client EXCEPT ![c].bound = FALSE]

\* ble_vesc_disconnect and ble_vesc_reconnect
Park(c) ==
    /\ c = Adapter
    /\ Ui(<<Call("stop", c), Call("drop", c)>>)
    /\ client' = [client EXCEPT ![c].parked = TRUE]

Reconnect(c) ==
    /\ c = Adapter
    /\ Ui(<<Call("arm", c)>>)
    /\ client' = [client EXCEPT ![c].parked = FALSE]

OtaBegin ==
    /\ ~boosted /\ used.ota < MaxOta /\ MoreEvents
    /\ boosted' = TRUE
    /\ used' = [used EXCEPT !.ota = @ + 1]
    /\ Starts("ota", <<Call("suspend", None)>>)
    /\ UNCHANGED <<arb, client, ble, awake, lapses>>

OtaEnd ==
    /\ boosted
    /\ boosted' = FALSE
    /\ Starts("ota", <<Call("resume", None)>>)
    /\ UNCHANGED <<arb, client, ble, env>>

\* A cancelled attempt may still win the race against its cancellation.
Connected ==
    /\ gap.op = "connect" /\ gap.peer \in awake
    /\ Starts("host", <<CallPeer("linked", gap.slot, gap.peer)>>)
    /\ links' = links \cup {gap.peer}
    /\ gap' = NoGap /\ lapses' = lapses \ {"missed"}
    /\ UNCHANGED <<arb, client, boosted, closing, awake, used>>

ConnectFailed ==
    /\ gap.op = "connect" /\ (gap.cancelled \/ ~gap.forever)
    /\ Starts("host", <<Call("failed", gap.slot)>>)
    /\ gap' = NoGap /\ lapses' = lapses \ {"missed"}
    /\ UNCHANGED <<arb, client, boosted, links, closing, awake, used>>

\* After six seconds: the flag of the scanning client is long set.
DiscComplete ==
    /\ gap.op = "scan" /\ client[gap.slot].scanning
    /\ Starts("host", <<Call("scanned", gap.slot), Call("arm", gap.slot), Call("resume", None)>>)
    /\ gap' = NoGap
    /\ UNCHANGED <<arb, client, boosted, links, closing, env>>

Disconnected(p) ==
    /\ p \in links /\ (p \in closing \/ p \notin awake)
    /\ Starts("host", <<Call("lost", p[1])>>)
    /\ links' = links \ {p}
    /\ closing' = closing \ {p}
    /\ UNCHANGED <<arb, client, boosted, gap, env>>

WakesUp(p) ==
    /\ p \notin awake
    /\ awake' = awake \cup {p}
    /\ UNCHANGED <<arb, client, boosted, ble, todo, lapses, used>>

FallsAsleep(p) ==
    /\ p \in awake /\ used.sleeps < MaxSleeps /\ MoreEvents
    /\ awake' = awake \ {p}
    /\ used' = [used EXCEPT !.sleeps = @ + 1]
    /\ UNCHANGED <<arb, client, boosted, ble, todo, lapses>>

-----------------------------------------------------------------------------
Suits(c) == {p \in Peers : p[1] = c}

\* Boot: the bindings were read from NVS; the stack has just synchronised, and
\* on_sync_cb is about to call the hooks of the clients.
Init ==
    /\ slots = [c \in Slots |-> [want |-> FALSE, peer |-> NoPeer]]
    /\ pending = None /\ forever = FALSE /\ suspended = FALSE /\ next = 0
    /\ synced = TRUE
    /\ client \in [Slots -> [synced: {FALSE}, bound: BOOLEAN, addr: Peers, parked: {FALSE},
                             scanning: {FALSE}, handle: {NoPeer}]]
    /\ \A c \in Slots : client[c].addr \in Suits(c)
    /\ boosted = FALSE
    /\ gap = NoGap /\ links = {} /\ closing = {}
    /\ awake = {}
    /\ todo = [t \in Threads |->
                 IF t = "host" THEN [i \in 1 .. NSlots |-> Call("sync", i - 1)] ELSE <<>>]
    /\ lapses = {}
    /\ used = [ui |-> 0, sleeps |-> 0, ota |-> 0]

Executes(t) ==
    \/ Evaluate(t) \/ Connect(t) \/ Rollback(t) \/ WantConnect(t) \/ StopConnect(t)
    \/ ScanSuspend(t) \/ ScanResume(t) \/ Release(t)
    \/ ClientSync(t) \/ ArmConnect(t) \/ KeepHandle(t) \/ LoseHandle(t)
    \/ Restart(t) \/ Drop(t) \/ StartDisc(t) \/ SetScanning(t) \/ CancelDisc(t)
    \/ EndScan(t) \/ CancelConnect(t)

Screens ==
    \E c \in Slots :
        \/ ScanStart(c) \/ ScanStop(c) \/ Forget(c) \/ Park(c) \/ Reconnect(c)
        \/ \E p \in Suits(c) : Bind(c, p)

Nimble == Connected \/ ConnectFailed \/ DiscComplete \/ \E p \in Peers : Disconnected(p)

Next ==
    \/ \E t \in Threads : Executes(t)
    \/ Screens \/ OtaBegin \/ OtaEnd \/ Nimble
    \/ \E p \in Peers : WakesUp(p) \/ FallsAsleep(p)

Spec == Init /\ [][Next]_vars

\* A thread that has work runs.  An awake sensor cannot be missed for ever: it
\* advertises about once a second and the window is eight.  A bounded or a
\* cancelled attempt ends, a scan lasts six seconds, a terminated link or one
\* whose peer is silent goes down, and an update comes to its end.
Fairness ==
    /\ \A t \in Threads : WF_vars(Executes(t))
    /\ \A p \in Peers : SF_vars(Connected /\ gap.peer = p)
    /\ WF_vars(ConnectFailed) /\ WF_vars(DiscComplete)
    /\ \A p \in Peers : SF_vars(Disconnected(p))
    /\ WF_vars(OtaEnd)

FairSpec == Spec /\ Fairness

-----------------------------------------------------------------------------
(* Properties *)

\* What a thread can have to execute: on the arbiter, or for a client.
ArbOps  == {"evaluate", "cancel", "suspend", "resume"}
SlotOps == {"connect", "rollback", "failed", "linked", "want", "stop", "sync", "arm",
            "keep", "lost", "restart", "drop", "disc", "scanning", "scanned",
            "canceldisc", "endscan"}
Calls == [op: ArbOps, slot: {None}, peer: {NoPeer}, forever: {FALSE}]
            \cup [op: SlotOps, slot: Slots, peer: Peers \cup {NoPeer}, forever: BOOLEAN]

\* A GAP procedure in progress has an owner.
Procedures ==
    {g \in [op: {"idle", "connect", "scan"}, slot: Slots \cup {None},
            peer: Peers \cup {NoPeer}, forever: BOOLEAN, cancelled: BOOLEAN] :
        g.op # "idle" => g.slot \in Slots}

\* What can go wrong between a decision and its execution.
Lapses == {"missed", "refused"}

\* Every variable keeps its type, the threads' calls among them.
TypeOK ==
    /\ slots \in [Slots -> [want: BOOLEAN, peer: Peers \cup {NoPeer}]]
    /\ pending \in Slots \cup {None} /\ forever \in BOOLEAN
    /\ suspended \in BOOLEAN /\ next \in Slots /\ synced \in BOOLEAN
    /\ client \in [Slots -> [synced: BOOLEAN, bound: BOOLEAN, addr: Peers, parked: BOOLEAN,
                             scanning: BOOLEAN, handle: Peers \cup {NoPeer}]]
    /\ boosted \in BOOLEAN
    /\ gap \in Procedures
    /\ links \subseteq Peers /\ closing \subseteq links /\ awake \subseteq Peers
    /\ todo \in [Threads -> Seq(Calls)]
    /\ lapses \subseteq Lapses
    /\ used \in [ui: 0 .. MaxUi, sleeps: 0 .. MaxSleeps, ota: 0 .. MaxOta]

\* The arbiter's record of the initiator (s_pending, s_pending_forever) agrees
\* with NimBLE: an attempt in progress always has its owner on record, whoever
\* overtakes whom, and when every call has returned nothing else is on record.
\* A leftover s_pending would keep every sensor from connecting until reboot.
PendingIsReal ==
    /\ gap.op = "connect" => pending = gap.slot
    /\ (Idle /\ pending # None) => gap.op = "connect" /\ gap.forever = forever

Ready(c) == /\ client[c].synced /\ client[c].bound
            /\ ~client[c].parked /\ ~client[c].scanning

\* A client that should be connecting has told the arbiter so, with the address
\* it is bound to now: no callback, screen or scan leaves a bound sensor
\* without a request (arm_connect's early returns always have a later re-arm).
WishIsOnRecord ==
    Idle => \A c \in Slots :
               (Ready(c) /\ client[c].handle = NoPeer) =>
                   slots[c].want /\ slots[c].peer = client[c].addr

\* Whatever handle a client keeps belongs to a link that is up: the events of an
\* earlier attempt or link never leave it with a dead one.
HandleIsReal ==
    Idle => \A c \in Slots : client[c].handle # NoPeer => client[c].handle \in links

\* Each client ends a call chain either with a link that is up or, if it should
\* be connecting, with its request on the arbiter's record: never with neither,
\* which would leave its sensor dead until the next boot.
ClientsAgreeWithRadio == WishIsOnRecord /\ HandleIsReal

\* A cancellation came before the attempt it was meant for: nothing stops that
\* attempt until it ends.
Missed == "missed" \in lapses

\* While two clients wait, the attempt in progress is a bounded one (or is
\* already being cancelled): it cannot starve the other client
\* (ble_central_arb.h, "linked within ~2 windows"), whoever overtakes whom,
\* unless its cancellation overtook the attempt itself.
BothWaitingRotate ==
    (Idle /\ pending # None /\ forever) => Wanting \subseteq {pending} \/ gap.cancelled \/ Missed

\* While the arbiter is suspended for a scan or an update, no attempt is left
\* running on the radio, but one whose cancellation came too early.
ParkedIsQuiet ==
    (Idle /\ suspended /\ gap.op = "connect") => gap.cancelled \/ Missed

\* A link that is not being closed is held by the client it serves, and that
\* client is bound to its peer.
LinksAreBound ==
    Idle => \A p \in links \ closing :
               /\ client[p[1]].handle = p
               /\ client[p[1]].bound /\ client[p[1]].addr = p

\* A sensor that stays awake and bound is linked in the end, whatever the other
\* clients wait for and whoever suspended the arbiter in between.  The two
\* lapses that never heal are excused: an unlimited attempt whose cancellation
\* missed, and a refused attempt after which nobody evaluates again (the header
\* has the next GAP event retry it; there may be none).
EverySensorLinked ==
    \A c \in Slots :
        <>[](Ready(c) /\ client[c].addr \in awake /\ lapses = {}) => <>[](\E p \in links : p[1] = c)
=============================================================================
