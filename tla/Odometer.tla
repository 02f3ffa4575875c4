------------------------------ MODULE Odometer ------------------------------
(***************************************************************************)
(* Trip total and lifetime odometer of the display:                        *)
(* components/dev_settings/vesc_trip_persist.c (trip = raw tachometer +    *)
(* offset) and vesc_odo_persist.c (odometer = base + trip), fed by the UI  *)
(* tick of main/vesc_ui_updater.c from the telemetry snapshot of           *)
(* vesc_rt_data.c, and checkpointed through the trip log.                  *)
(*                                                                         *)
(* The motor controller (VESC) is the environment: it rides, and it can be *)
(* power-cycled independently of the display, which restarts its           *)
(* tachometer and its uptime.  Distances are metres and uptime is counted  *)
(* in steps of the model; Ah and total uptime follow the trip distance     *)
(* through the same branches and are not repeated.                         *)
(*                                                                         *)
(* The log is seen as its newest sample and its newest checkpoint, behind  *)
(* the writer's queue; TripLog shows what the flash makes of that.         *)
(***************************************************************************)
EXTENDS Integers, Sequences

CONSTANTS
    Slack,          \* REBOOT_UPTIME_SLACK_MS
    RestartM,       \* REBOOT_TACH_RESTART_M
    AdoptStep,      \* ADOPT_MAX_STEP_M
    UptimeWidth,    \* the uptime is a counter modulo this (2^32 ms)
    HasUptime,      \* does this VESC firmware report its uptime?
    RawOdometers,   \* what the VESC may report as its own odometer (0 = none)
    Edits,          \* values the rider may set the odometer to
    Steps,          \* distances ridden between two events
    QueueDepth,     \* QUEUE_DEPTH of the trip log
    TornReads,      \* may a reply land while the UI reads the snapshot?
    Watched,        \* does the UI tick at least once soon after each VESC start?
    MaxTotal,       \* bound: the trip total a tick starts from
    MaxUptime, MaxDist, MaxReboots, MaxEdits, MaxResets, MaxCuts, MaxFaults

ASSUME OdometerAssumption ==
    /\ Slack \in Nat /\ RestartM \in Nat /\ AdoptStep \in Nat
    /\ UptimeWidth \in Nat \ {0}
    /\ HasUptime \in BOOLEAN /\ TornReads \in BOOLEAN /\ Watched \in BOOLEAN
    /\ RawOdometers \subseteq Nat /\ Edits \subseteq Nat /\ Steps \subseteq Nat
    /\ QueueDepth \in Nat \ {0}
    /\ MaxUptime \in Nat /\ MaxUptime < UptimeWidth
    /\ MaxTotal \in Nat /\ MaxDist \in Nat /\ MaxReboots \in Nat
    /\ MaxEdits \in Nat /\ MaxResets \in Nat /\ MaxCuts \in Nat /\ MaxFaults \in Nat

None == -1

VARIABLES
    vesc,    \* the controller: [tach, up, epoch]; epoch counts its starts
    rt,      \* s_rt_data: the reply decoded last
    heard,   \* s_data_received and fresh
    power,   \* is the display on?
    trip,    \* vesc_trip_persist.c
    odo,     \* vesc_odo_persist.c
    queue,   \* records queued for the writer
    log,     \* newest durable sample and checkpoint
    seen,    \* history: the reading of the last tick, as an exact observer has it
    truth,   \* history: what an exact observer of those readings counts, and
             \* which edit of the rider it rests on
    used     \* how much of each bound is used

vars == <<vesc, rt, heard, power, trip, odo, queue, log, seen, truth, used>>

Readings == [tach : Nat, up : Nat, epoch : Nat]
NoReading == [tach |-> 0, up |-> 0, epoch |-> 0]

\* s_trip_offset_meters, s_current_vesc_trip, s_current_vesc_uptime,
\* s_first_update, s_have_saved_state, s_uptime_supported
TripStates == [offset : Int, cur : Nat, curUp : Nat,
               first : BOOLEAN, saved : BOOLEAN, upSup : BOOLEAN]

\* s_based, s_dirty, s_base_m, s_have_raw, s_last_raw_m
OdoStates == [based : BOOLEAN, dirty : BOOLEAN, base : Int,
              haveRaw : BOOLEAN, lastRaw : Nat]

\* A queued or logged record; `truth` is a history value.
Truths  == [m : Int, edit : Nat]
NoTruth == [m |-> 0, edit |-> 0]
Records == [kind : {"sample", "odo"}, val : Nat, truth : Truths]

\* How much of each bound is used.
Uses == [dist : Nat, reboots : Nat, edits : Nat, resets : Nat, cuts : Nat,
         faults : Nat]

----------------------------------------------------------------------------
(* vesc_trip_persist.c *)

ZeroTrip == [offset |-> 0, cur |-> 0, curUp |-> 0,
             first |-> TRUE, saved |-> FALSE, upSup |-> FALSE]

\* zero_state keeps what is a property of the controller, not of the trip.
ZeroState(t) == [ZeroTrip EXCEPT !.upSup = t.upSup]

TripM(t) == t.cur + t.offset

\* trip_persist_seed_totals
Seeded(t, total) == [t EXCEPT !.offset = total, !.saved = TRUE, !.first = TRUE]

\* The one signal of a controller reboot: its uptime went back by more than the
\* slack (the sum is a 32-bit one), or, without an uptime, the tachometer
\* restarted near zero.
Rebooted(t, r) ==
    IF t.upSup THEN (r.up + Slack) % UptimeWidth < t.curUp
    ELSE r.tach < t.cur - 1 /\ r.tach < RestartM

Larger(a, b) == IF a < b THEN b ELSE a

\* Variants: a fold that forgets the previous reading; no hold on a dip.
FoldedForgets(t, r) == [t EXCEPT !.cur = r.tach, !.curUp = r.up]
HeldLatest(t, r) == [t EXCEPT !.cur = r.tach, !.curUp = r.up]

\* trip_persist_update: baseline on the first reading, fold on a reboot, and
\* otherwise never let a counter go back.
FirstUpdate(t, r) ==
    [t EXCEPT !.offset = (IF t.saved THEN t.offset ELSE 0) - r.tach,
              !.first = FALSE, !.cur = r.tach, !.curUp = r.up]

Folded(t, r) ==
    [t EXCEPT !.offset = t.offset + t.cur, !.cur = r.tach, !.curUp = r.up]

Held(t, r) ==
    [t EXCEPT !.cur = Larger(t.cur, r.tach), !.curUp = Larger(t.curUp, r.up)]

Heard(t, r) == [t EXCEPT !.upSup = t.upSup \/ r.up > 0]

TripUpdate(t, r) ==
    LET h == Heard(t, r)
    IN  IF h.first THEN FirstUpdate(h, r)
        ELSE IF Rebooted(h, r) THEN Folded(h, r)
        ELSE Held(h, r)

----------------------------------------------------------------------------
(* vesc_odo_persist.c *)

NoOdo == [based |-> FALSE, dirty |-> FALSE, base |-> 0,
          haveRaw |-> FALSE, lastRaw |-> 0]

\* odo_persist_get_m
OdoM(o, t) == IF o.based /\ o.base + TripM(t) > 0 THEN o.base + TripM(t) ELSE 0

\* Variant: re-basing that does not mark the checkpoint due.
RebasedClean(o, t, value, dirty) ==
    [o EXCEPT !.base = value - TripM(t), !.based = TRUE, !.haveRaw = FALSE]

\* odo_persist_seed_m and odo_persist_set_km: re-base on an absolute value.
Rebased(o, t, value, dirty) ==
    [o EXCEPT !.base = value - TripM(t), !.based = TRUE, !.dirty = dirty,
              !.haveRaw = FALSE]

Distance(a, b) == IF a > b THEN a - b ELSE b - a

\* odo_persist_update: adopt the controller's own counter once two readings of
\* it agree, while there is no base.
OdoUpdate(o, t, raw) ==
    IF o.based \/ raw = 0 THEN o
    ELSE IF o.haveRaw /\ Distance(raw, o.lastRaw) <= AdoptStep
         THEN [o EXCEPT !.base = raw - TripM(t), !.based = TRUE, !.dirty = TRUE,
                        !.haveRaw = TRUE, !.lastRaw = raw]
         ELSE [o EXCEPT !.haveRaw = TRUE, !.lastRaw = raw]

\* Variant: the finished trip is not folded.
ResetUnfolded(o, t) == o

\* odo_on_trip_reset: fold the finished trip into the base.
OdoOnTripReset(o, t) ==
    IF o.based /\ TripM(t) > 0
    THEN [o EXCEPT !.base = o.base + TripM(t), !.dirty = TRUE]
    ELSE o

----------------------------------------------------------------------------
(* History: what an exact observer makes of the readings the UI acts on *)

\* Distance between the previous reading and this one; a new controller start
\* contributes all it has ridden.
Delta(prev, r) == IF r.epoch = prev.epoch THEN r.tach - prev.tach ELSE r.tach

----------------------------------------------------------------------------
Init ==
    /\ vesc = [NoReading EXCEPT !.epoch = 1]
    /\ rt = NoReading /\ heard = FALSE
    /\ power = FALSE
    /\ trip = ZeroTrip /\ odo = NoOdo
    /\ queue = <<>>
    /\ log = [sample |-> None, odo |-> None, truth |-> NoTruth]
    /\ seen = NoReading /\ truth = NoTruth
    /\ used = [dist |-> 0, reboots |-> 0, edits |-> 0, resets |-> 0,
               cuts |-> 0, faults |-> 0]

\* ---- the controller (external) ----

\* Watched is the assumption that a tick comes soon after every start: the
\* controller is not restarted before its previous start can be told from the
\* next, and it does not run past that until the UI has acted on the new start.
Unseen == ~trip.first /\ power /\ vesc.epoch # seen.epoch
UptimeTells(up) == up + Slack < trip.curUp
TachTells(tach) == tach < trip.cur - 1 /\ tach < RestartM
Tells(up, tach) == IF trip.upSup THEN UptimeTells(up) ELSE TachTells(tach)

Ride ==
    /\ vesc.up < MaxUptime
    /\ \E d \in Steps :
          /\ used.dist + d <= MaxDist
          /\ LET up == IF HasUptime THEN vesc.up + 1 ELSE 0
             IN  /\ Watched /\ Unseen => Tells(up, vesc.tach + d)
                 /\ vesc' = [vesc EXCEPT !.tach = @ + d, !.up = up]
          /\ used' = [used EXCEPT !.dist = @ + d]
    /\ UNCHANGED <<rt, heard, power, trip, odo, queue, log, seen, truth>>

VescRestarts ==
    /\ used.reboots < MaxReboots
    /\ Watched /\ power /\ (heard \/ ~trip.first) =>
          ~trip.first /\ ~Unseen /\ Tells(0, 0)
    /\ vesc' = [tach |-> 0, up |-> 0, epoch |-> vesc.epoch + 1]
    /\ used' = [used EXCEPT !.reboots = @ + 1]
    /\ UNCHANGED <<rt, heard, power, trip, odo, queue, log, seen, truth>>

\* The uptime counter of a controller that was never switched off wraps.
UptimeWraps ==
    /\ HasUptime /\ vesc.up = UptimeWidth - 1
    /\ vesc' = [vesc EXCEPT !.up = 0]
    /\ UNCHANGED <<rt, heard, power, trip, odo, queue, log, seen, truth, used>>

\* ---- the CAN task: a reply is decoded into the snapshot ----
Reply ==
    /\ power
    /\ rt' = vesc /\ heard' = TRUE
    /\ UNCHANGED <<vesc, power, trip, odo, queue, log, seen, truth, used>>

\* The link went silent for longer than the freshness window.
GoesStale ==
    /\ heard /\ heard' = FALSE
    /\ UNCHANGED <<vesc, rt, power, trip, odo, queue, log, seen, truth, used>>

\* ---- the UI task ----

Sent(q, rec) == IF Len(q) < QueueDepth THEN Append(q, rec) ELSE q
Sample(t) == [kind |-> "sample", val |-> TripM(t), truth |-> NoTruth]
Checkpoint(o, t, tr) == [kind |-> "odo", val |-> OdoM(o, t), truth |-> tr]

\* Variant: a queued checkpoint stays due.
OdoQueuedStillDue(q, o) == o

\* queue_odo_record: nothing without a base; the checkpoint is taken (not due
\* any more) as soon as it is queued.
QueueOdo(q, o, t, tr) == IF o.based THEN Sent(q, Checkpoint(o, t, tr)) ELSE q
OdoQueued(q, o) ==
    IF o.based /\ Len(q) < QueueDepth THEN [o EXCEPT !.dirty = FALSE] ELSE o

\* push_rt_locked on a reading r: trip_persist_update, odo_persist_update, then
\* trip_log_tick, which queues a sample and a checkpoint when one is due.
UiTick(r) ==
    /\ power /\ heard /\ TripM(trip) <= MaxTotal
    /\ trip' = TripUpdate(trip, r)
    /\ seen' = r
    /\ \E raw \in RawOdometers, due \in BOOLEAN :
          LET o     == OdoUpdate(odo, trip', raw)
              delta == IF trip.first THEN 0 ELSE Delta(seen, r)
              m     == IF o.based /\ ~odo.based THEN raw ELSE truth.m + delta
              q     == Sent(queue, Sample(trip'))
          IN  /\ truth' = IF o.based THEN [truth EXCEPT !.m = m] ELSE truth
              /\ IF due THEN /\ queue' = QueueOdo(q, o, trip', truth')
                             /\ odo' = OdoQueued(q, o)
                        ELSE queue' = queue /\ odo' = o
    /\ UNCHANGED <<vesc, heard, power, log, used>>

Tick == UiTick(rt) /\ UNCHANGED rt

\* The snapshot is read field by field and without a lock while the CAN task
\* stores the next reply: one field is the old one, the other the new one.
TornTick ==
    /\ TornReads
    /\ rt' = vesc
    /\ \/ UiTick([rt EXCEPT !.tach = vesc.tach])
       \/ UiTick([vesc EXCEPT !.tach = rt.tach])

\* trip_log_odo_flush
OdoFlush ==
    /\ power /\ odo.based /\ odo.dirty
    /\ queue' = QueueOdo(queue, odo, trip, truth)
    /\ odo' = OdoQueued(queue, odo)
    /\ UNCHANGED <<vesc, rt, heard, power, trip, log, seen, truth, used>>

\* trip_persist_reset: the reset button, the charge prompt or a battery swap.
TripReset ==
    /\ power /\ used.resets < MaxResets
    /\ Watched => ~Unseen
    /\ odo' = OdoOnTripReset(odo, trip)
    /\ trip' = ZeroState(trip)
    /\ used' = [used EXCEPT !.resets = @ + 1]
    /\ UNCHANGED <<vesc, rt, heard, power, queue, log, seen, truth>>

\* odo_persist_set_km from the Settings dialog.
SetOdometer ==
    /\ power /\ used.edits < MaxEdits
    /\ \E value \in Edits :
          /\ odo' = Rebased(odo, trip, value, TRUE)
          /\ truth' = [m |-> value, edit |-> used.edits + 1]
    /\ used' = [used EXCEPT !.edits = @ + 1]
    /\ UNCHANGED <<vesc, rt, heard, power, trip, queue, log, seen>>

\* ---- the writer, power cuts and boot ----

WriteRecord ==
    /\ power /\ queue # <<>>
    /\ queue' = Tail(queue)
    /\ log' = LET r == queue[1]
              IN  IF r.kind = "sample" THEN [log EXCEPT !.sample = r.val]
                  ELSE [log EXCEPT !.odo = r.val, !.truth = r.truth]
    /\ UNCHANGED <<vesc, rt, heard, power, trip, odo, seen, truth, used>>

\* A record that never becomes readable: a failed or a torn program.
RecordLost ==
    /\ power /\ queue # <<>> /\ used.faults < MaxFaults
    /\ queue' = Tail(queue)
    /\ used' = [used EXCEPT !.faults = @ + 1]
    /\ UNCHANGED <<vesc, rt, heard, power, trip, odo, log, seen, truth>>

PowerCut ==
    /\ power /\ used.cuts < MaxCuts
    /\ power' = FALSE
    /\ rt' = NoReading /\ heard' = FALSE /\ queue' = <<>>
    /\ trip' = ZeroTrip /\ odo' = NoOdo
    /\ seen' = NoReading /\ truth' = NoTruth
    /\ used' = [used EXCEPT !.cuts = @ + 1]
    /\ UNCHANGED <<vesc, log>>

\* trip_persist_init, odo_persist_init, then the seeds of trip_log's boot scan.
Boot ==
    LET t == IF log.sample = None THEN ZeroTrip ELSE Seeded(ZeroTrip, log.sample)
    IN  /\ ~power /\ power' = TRUE
        /\ trip' = t
        /\ odo' = IF log.odo = None THEN NoOdo ELSE Rebased(NoOdo, t, log.odo, FALSE)
        /\ truth' = log.truth
        /\ UNCHANGED <<vesc, rt, heard, queue, log, seen, used>>

Vesc   == Ride \/ VescRestarts \/ UptimeWraps \/ Reply \/ GoesStale
Ui     == Tick \/ TornTick \/ OdoFlush \/ TripReset \/ SetOdometer
Writer == WriteRecord \/ RecordLost

Next == Vesc \/ Ui \/ Writer \/ PowerCut \/ Boot

Spec == Init /\ [][Next]_vars

\* The writer task keeps draining the queue; the UI tries the flush at every tick
\* (100 ms) while a sample is queued only every 10 s, so a flush that keeps
\* finding room is eventually the one that takes it.
FairSpec == Spec /\ WF_vars(WriteRecord) /\ SF_vars(OdoFlush)

----------------------------------------------------------------------------
(* Properties *)

Odo == OdoM(odo, trip)

\* Types; the trip total and the odometer are never negative.
TypeOK ==
    /\ vesc \in Readings /\ rt \in Readings /\ heard \in BOOLEAN
    /\ power \in BOOLEAN
    /\ trip \in TripStates /\ odo \in OdoStates
    /\ queue \in Seq(Records)
    /\ log \in [sample : Nat \cup {None}, odo : Nat \cup {None}, truth : Truths]
    /\ seen \in Readings /\ truth \in Truths
    /\ used \in Uses
    /\ TripM(trip) >= 0
    /\ odo.based => odo.base + TripM(trip) >= 0

\* A trip waiting for its first reading holds nothing but its seed.
FreshTrip(t) == t.first => t.cur = 0 /\ t.curUp = 0 /\ (t.saved \/ t.offset = 0)

\* The relation between the reading of the last tick and the accumulator.
TripTracksSeen ==
    /\ ~trip.upSup => trip.curUp = 0
    /\ ~trip.first =>
          /\ seen.tach <= trip.cur
          /\ trip.upSup => trip.curUp <= seen.up + Slack
          /\ ~trip.upSup => seen.tach >= RestartM \/ seen.tach >= trip.cur - 1

\* The lifetime number on the dashboard never steps back while the display is
\* on, whatever the controller reports, through trip resets and controller
\* restarts; only the rider's edit may lower it.
OdoNeverStepsBack ==
    [][power /\ power' /\ used'.edits = used.edits => Odo' >= Odo]_vars

\* No distance is ever counted twice: across controller restarts, trip resets,
\* power cuts of the display with a checkpoint and a sample of different trips,
\* the odometer never exceeds what an exact observer of the same readings has.
OdoNotOverCounted == odo.based => Odo <= truth.m

\* ... and when the UI ticks soon enough after each controller start to tell it
\* from the previous one, it loses nothing either.
OdoExact == odo.based => Odo = truth.m

\* An edit of the rider, once its checkpoint is no longer due and the writer is
\* idle, is the one the next boot resumes (no program failed).
EditReachesLog ==
    power /\ odo.based /\ ~odo.dirty /\ queue = <<>> /\ used.faults = 0
        => log.odo # None /\ log.truth.edit = truth.edit

\* A checkpoint that is due does not stay due: the queue drains and the flush
\* takes it even while the controller is silent.
DueCheckpointTaken == (power /\ odo.dirty) ~> (~odo.dirty \/ ~power)
=============================================================================
