------------------------------ MODULE TripLog ------------------------------
(***************************************************************************)
(* The trip log of components/trip_log/trip_log.c: a circular log of fixed *)
(* size records on a raw NOR flash partition.  The UI tick queues records, *)
(* one writer task programs them at the head and keeps a runway of erased  *)
(* sectors in front of it, and at boot a scan of the flash rebuilds the    *)
(* head, the sequence number, the current trip and the resume seeds.       *)
(*                                                                         *)
(* Flash is modelled by what the code can tell about a slot: erased, a     *)
(* record whose CRC holds, a torn slot whose magic is programmed, or a     *)
(* torn slot whose magic still reads 0xFFFF.  Power can be cut between any *)
(* two steps, inside a program operation and inside an erase.              *)
(***************************************************************************)
EXTENDS Integers, Sequences, FiniteSets

CONSTANTS
    NSectors,         \* sectors of the partition
    RecsPerSector,    \* RECS_PER_SECTOR
    RunwayTarget,     \* RUNWAY_TARGET_SECTORS
    RunwayBootMin,    \* RUNWAY_BOOT_MIN
    ScanBack,         \* how many sectors the fine pass of boot_scan walks back (4)
    QueueDepth,       \* QUEUE_DEPTH
    MaxDeleted,       \* MAX_DELETED
    MagicMayBeBlank,  \* can an interrupted program/erase leave a blank magic?
    MaxBurst,         \* records written between two idle ticks of the writer
    MaxRecords,       \* bound: records acknowledged by the flash
    MaxTrips,         \* bound: trip ids
    MaxEdits,         \* bound: checkpoints queued outside the sample cadence
    MaxCuts,          \* bound: power cuts
    MaxWriteFaults,   \* bound: programs that return an error
    MaxEraseFaults    \* bound: erases that return an error

ASSUME RingAssumption ==
    /\ NSectors \in Nat /\ RecsPerSector \in Nat \ {0}
    /\ RunwayTarget \in Nat \ {0} /\ RunwayBootMin \in Nat
    /\ RunwayBootMin <= RunwayTarget /\ RunwayTarget + 1 < NSectors
    /\ ScanBack \in 1..NSectors
    /\ QueueDepth \in Nat \ {0} /\ MaxDeleted \in Nat \ {0}
    /\ MagicMayBeBlank \in BOOLEAN

ASSUME BoundAssumption ==
    /\ MaxBurst \in Nat /\ MaxRecords \in Nat /\ MaxTrips \in Nat
    /\ MaxEdits \in Nat /\ MaxCuts \in Nat
    /\ MaxWriteFaults \in Nat /\ MaxEraseFaults \in Nat

Sectors == 0..(NSectors - 1)
Indices == 0..(RecsPerSector - 1)
Slots   == [sec : Sectors, in : Indices]
Slot(sec, i) == [sec |-> sec, in |-> i]

Kinds  == {"sample", "odo"}          \* REC_TYPE_SAMPLE/TRIP_START, REC_TYPE_ODO
States == {"erased", "valid", "torn", "nomagic"}

\* What a slot holds.  `id` is a history value (the rank of the record among
\* the records the flash acknowledged); no decision of the code reads it.
Contents ==
    [state : States, kind : Kinds \cup {"none"}, trip : Nat, seq : Nat, id : Nat]

Junk(state) == [state |-> state, kind |-> "none", trip |-> 0, seq |-> 0, id |-> 0]

VARIABLES
    flash,      \* sector -> index -> contents
    deleted,    \* NVS: the hidden trip ids (s_deleted)
    power,      \* "off", "boot" (scan done, runway being built) or "run"
    head,       \* s_head: the next slot to write
    seq,        \* s_seq
    trip,       \* s_trip_id
    pendingNew, \* s_pending_new
    hasBase,    \* odo_persist_has_base()
    runway,     \* s_runway_next
    queue,      \* s_queue
    burst,      \* records written since the writer's last idle tick
    acked,      \* history: how many programs returned ESP_OK
    edits, cuts, wfaults, efaults  \* how much of each bound is used

ram  == <<head, seq, trip, pendingNew, hasBase, runway, queue, burst>>
vars == <<flash, deleted, power, ram, acked, edits, cuts, wfaults, efaults>>

----------------------------------------------------------------------------
(* Flash primitives *)

Next1(sec)       == (sec + 1) % NSectors
Ahead(sec, n)    == (sec + n) % NSectors
RingDist(from, to) == (to + NSectors - from) % NSectors

\* The record after slot s: (slot + 1) % s_total_recs.
SlotAfter(s) ==
    IF s.in + 1 < RecsPerSector THEN Slot(s.sec, s.in + 1)
                                ELSE Slot(Next1(s.sec), 0)

\* sector_is_clean reads only the magic of the first slot.
SectorIsClean(f, sec) == f[sec][0].state \in {"erased", "nomagic"}

FilledWith(f, sec, state) == [f EXCEPT ![sec] = [i \in Indices |-> Junk(state)]]
Erased(f, sec) == FilledWith(f, sec, "erased")

\* NOR programming only clears bits: a record programmed over anything but an
\* erased slot leaves the AND of the two, whose CRC fails and whose magic is set.
Programmed(f, s, rec) ==
    [f EXCEPT ![s.sec][s.in] = IF @.state = "erased" THEN rec ELSE Junk("torn")]

\* What an interrupted program or erase leaves behind.
TornStates == IF MagicMayBeBlank THEN {"torn", "nomagic"} ELSE {"torn"}

\* The slot after an interrupted program.
TornAt(f, s, state) ==
    [f EXCEPT ![s.sec][s.in] = IF @.state = "erased" THEN Junk(state) ELSE Junk("torn")]

----------------------------------------------------------------------------
(* boot_scan: a pure function of the flash *)

Valid(f, sec, i) == f[sec][i].state = "valid"

\* Coarse pass: sectors whose first record is valid; `>=` lets the last win.
ScannedSectors(f) == {sec \in Sectors : Valid(f, sec, 0)}
\* Variant: the highest sector index instead of the highest sequence number.
LastSector(f) ==
    CHOOSE b \in ScannedSectors(f) : \A o \in ScannedSectors(f) : o <= b

BestSector(f) ==
    CHOOSE b \in ScannedSectors(f) : \A o \in ScannedSectors(f) :
        \/ f[o][0].seq < f[b][0].seq
        \/ f[o][0].seq = f[b][0].seq /\ o <= b

\* Fine pass, newest sector: the last record of any kind.
LastIndex(f, sec) ==
    CHOOSE b \in Indices : /\ Valid(f, sec, b)
                           /\ \A i \in Indices : Valid(f, sec, i) =>
                                \/ f[sec][i].seq < f[sec][b].seq
                                \/ f[sec][i].seq = f[sec][b].seq /\ i <= b

Holds(f, sec, kind) ==
    \E i \in Indices : Valid(f, sec, i) /\ f[sec][i].kind = kind

\* The sectors the walk back from `best` visits: it goes on, at most ScanBack
\* sectors deep, until it has met a sample and a checkpoint.
Visited(f, best) ==
    {(best + NSectors - k) % NSectors : k \in {k \in 0..(ScanBack - 1) :
        \E kind \in Kinds : \A j \in 0..(k - 1) :
            ~Holds(f, (best + NSectors - j) % NSectors, kind)}}

\* The newest record of a kind in the visited sectors (0 when there is none).
NewestOf(f, kind, secs) ==
    LET found == {f[p.sec][p.in] : p \in {p \in [sec : secs, in : Indices] :
                     Valid(f, p.sec, p.in) /\ f[p.sec][p.in].kind = kind}}
    IN  IF found = {} THEN Junk("erased")
        ELSE CHOOSE r \in found : \A o \in found : o.seq <= r.seq

\* What boot_scan hands to the rest of the system.
EmptyScan == [head |-> Slot(0, 0), seq |-> 1, trip |-> 1,
              last |-> 0, sample |-> 0, odo |-> 0]

\* Variants: resume on the last sequence number instead of the next one; do
\* not resume the trip id.
BootScanSameSeq(f) ==
    IF ScannedSectors(f) = {} THEN EmptyScan
    ELSE LET best == BestSector(f)
             i    == LastIndex(f, best)
         IN [EmptyScan EXCEPT !.head = SlotAfter(Slot(best, i)),
                              !.seq = f[best][i].seq, !.trip = f[best][i].trip]

BootScanFirstTrip(f) ==
    IF ScannedSectors(f) = {} THEN EmptyScan
    ELSE LET best == BestSector(f)
             i    == LastIndex(f, best)
         IN [EmptyScan EXCEPT !.head = SlotAfter(Slot(best, i)),
                              !.seq = f[best][i].seq + 1]

BootScan(f) ==
    IF ScannedSectors(f) = {} THEN EmptyScan
    ELSE LET best == BestSector(f)
             i    == LastIndex(f, best)
             last == f[best][i]
             secs == Visited(f, best)
         IN [head   |-> SlotAfter(Slot(best, i)),
             seq    |-> last.seq + 1,
             trip   |-> last.trip,
             last   |-> last.id,
             sample |-> NewestOf(f, "sample", secs).id,
             odo    |-> NewestOf(f, "odo", secs).id]

----------------------------------------------------------------------------
(* The runway of erased sectors *)

\* head_fresh_sector: the first sector the writer will need clean next.
FreshSector(h) == IF h.in = 0 THEN h.sec ELSE Next1(h.sec)

\* Variant: one sector too many.
RunwayBuiltTooFar(f, from, n) ==
    [sec \in Sectors |->
        IF RingDist(from, sec) <= n /\ ~SectorIsClean(f, sec)
        THEN [i \in Indices |-> Junk("erased")] ELSE f[sec]]

\* runway_build_boot after it looked at the first n sectors ahead of `from`.
RunwayBuilt(f, from, n) ==
    [sec \in Sectors |->
        IF RingDist(from, sec) < n /\ ~SectorIsClean(f, sec)
        THEN [i \in Indices |-> Junk("erased")] ELSE f[sec]]

\* Writer start: how far the fast-forward over clean sectors goes.
CleanAhead(f, from) ==
    CHOOSE n \in 0..RunwayTarget :
        /\ \A k \in 0..(n - 1) : SectorIsClean(f, Ahead(from, k))
        /\ n = RunwayTarget \/ ~SectorIsClean(f, Ahead(from, n))

\* ... and the unconditional erases up to RUNWAY_BOOT_MIN.
RunwayStarted(f, from, n) ==
    [sec \in Sectors |->
        IF n <= RingDist(from, sec) /\ RingDist(from, sec) < RunwayBootMin
        THEN [i \in Indices |-> Junk("erased")] ELSE f[sec]]

\* Variant: no check on entering a sector.
EnteredUnchecked(f, h) == f

\* The writer's check on entering a fresh sector: erase it unless it is clean.
Entered(f, h) ==
    IF h.in = 0 /\ ~SectorIsClean(f, h.sec) THEN Erased(f, h.sec) ELSE f

----------------------------------------------------------------------------
Init ==
    /\ flash = [sec \in Sectors |-> [i \in Indices |-> Junk("erased")]]
    /\ deleted = {}
    /\ power = "off"
    /\ head = Slot(0, 0) /\ seq = 1 /\ trip = 1
    /\ pendingNew = FALSE /\ hasBase = FALSE
    /\ runway = 0 /\ queue = <<>> /\ burst = 0
    /\ acked = 0 /\ edits = 0 /\ cuts = 0 /\ wfaults = 0 /\ efaults = 0

\* trip_log_init: boot_scan and load_deleted; the seeds give the odometer its
\* base when a checkpoint was found.
Boot ==
    LET scan == BootScan(flash)
    IN  /\ power = "off"
        /\ power' = "boot"
        /\ head' = scan.head /\ seq' = scan.seq /\ trip' = scan.trip
        /\ hasBase' = (scan.odo # 0)
        /\ pendingNew' = FALSE /\ queue' = <<>> /\ burst' = 0
        /\ runway' = 0
        /\ UNCHANGED <<flash, deleted, acked, edits, cuts, wfaults, efaults>>

\* runway_build_boot, cut short after n sectors when its time budget is spent,
\* then the writer's start-up; ticks and edits begin.
RunwayBuild ==
    /\ power = "boot"
    /\ \E n \in 0..RunwayTarget :
          LET fresh == FreshSector(head)
              built == RunwayBuilt(flash, fresh, n)
              clean == CleanAhead(built, fresh)
          IN  /\ flash' = RunwayStarted(built, fresh, clean)
              /\ runway' = Ahead(fresh, IF clean < RunwayBootMin
                                        THEN RunwayBootMin ELSE clean)
    /\ power' = "run"
    /\ UNCHANGED <<deleted, head, seq, trip, pendingNew, hasBase, queue, burst,
                   acked, edits, cuts, wfaults, efaults>>

\* xQueueSend with no wait: a full queue drops the record.
Sent(q, kind, t) ==
    IF Len(q) < QueueDepth THEN Append(q, [kind |-> kind, trip |-> t]) ELSE q

\* trip_log_new_trip, called by the trip reset.
NewTrip ==
    /\ power = "run" /\ ~pendingNew
    /\ pendingNew' = TRUE
    /\ UNCHANGED <<flash, deleted, power, head, seq, trip, hasBase, runway, queue,
                   burst, acked, edits, cuts, wfaults, efaults>>

\* trip_log_tick when a sample is due: consume a pending trip, queue the sample
\* and, once the odometer has a base, the checkpoint.  The base may have been
\* adopted from the controller just before (odo_persist_update).
Tick ==
    LET t == IF pendingNew THEN trip + 1 ELSE trip
    IN  /\ power = "run" /\ t <= MaxTrips
        /\ trip' = t /\ pendingNew' = FALSE
        /\ hasBase' \in {hasBase, TRUE}
        /\ LET q == Sent(queue, "sample", t)
           IN  queue' = IF hasBase' THEN Sent(q, "odo", t) ELSE q
        /\ UNCHANGED <<flash, deleted, power, head, seq, runway, burst,
                       acked, edits, cuts, wfaults, efaults>>

\* trip_log_odo_flush after the rider set the odometer (or a reset folded a
\* trip): a checkpoint outside the cadence, under the trip id of the moment.
OdoFlush ==
    /\ power = "run" /\ edits < MaxEdits
    /\ hasBase' = TRUE
    /\ queue' = Sent(queue, "odo", trip)
    /\ edits' = edits + 1
    /\ UNCHANGED <<flash, deleted, power, head, seq, trip, pendingNew, runway,
                   burst, acked, cuts, wfaults, efaults>>

\* What the statistics screen offers: trips with a readable sample in the
\* window, not hidden.
Listed == {t \in 1..trip : t \notin deleted /\
             \E sec \in Sectors, i \in Indices :
                /\ Valid(flash, sec, i)
                /\ flash[sec][i].kind = "sample" /\ flash[sec][i].trip = t}

\* trip_log_delete_trip: never the live trip; a full list evicts its smallest id.
DeleteTrip ==
    /\ power = "run"
    /\ \E t \in Listed \ {trip} :
          deleted' = {t} \cup
              IF Cardinality(deleted) < MaxDeleted THEN deleted
              ELSE {d \in deleted : \E e \in deleted : e < d}
    /\ UNCHANGED <<flash, power, ram, acked, edits, cuts, wfaults, efaults>>

----------------------------------------------------------------------------
(* The writer task *)

QueuedRecord == [state |-> "valid", kind |-> queue[1].kind, trip |-> queue[1].trip,
                 seq |-> seq, id |-> acked + 1]

\* A record is taken and a write begins; `burst` is the timing bound.
Writing == power = "run" /\ queue # <<>> /\ burst < MaxBurst /\ acked < MaxRecords

\* Program the record; the head and the sequence number move on success only.
WriteRecord ==
    /\ Writing
    /\ flash' = Programmed(Entered(flash, head), head, QueuedRecord)
    /\ head' = SlotAfter(head) /\ seq' = seq + 1
    /\ queue' = Tail(queue) /\ burst' = burst + 1 /\ acked' = acked + 1
    /\ UNCHANGED <<deleted, power, trip, pendingNew, hasBase, runway,
                   edits, cuts, wfaults, efaults>>

\* esp_partition_write returns an error: the record is dropped, and the slot
\* may be left half programmed under an unmoved head.
WriteFails ==
    /\ Writing /\ wfaults < MaxWriteFaults
    /\ \E state \in TornStates \cup {"erased"} :
          LET f == Entered(flash, head)
          IN  flash' = IF state = "erased" THEN f ELSE TornAt(f, head, state)
    /\ queue' = Tail(queue) /\ burst' = burst + 1 /\ wfaults' = wfaults + 1
    /\ UNCHANGED <<deleted, power, head, seq, trip, pendingNew, hasBase, runway,
                   acked, edits, cuts, efaults>>

\* The erase on entering a fresh sector returns an error: it is logged and the
\* write goes ahead.
EntryEraseFails ==
    /\ Writing /\ efaults < MaxEraseFaults
    /\ head.in = 0 /\ ~SectorIsClean(flash, head.sec)
    /\ flash' = Programmed(flash, head, QueuedRecord)
    /\ head' = SlotAfter(head) /\ seq' = seq + 1
    /\ queue' = Tail(queue) /\ burst' = burst + 1 /\ acked' = acked + 1
    /\ efaults' = efaults + 1
    /\ UNCHANGED <<deleted, power, trip, pendingNew, hasBase, runway,
                   edits, cuts, wfaults>>

\* Idle tick: a runway pointer the head has overtaken restarts at the head.
IdleRunway ==
    IF RingDist(FreshSector(head), runway) > RunwayTarget
    THEN FreshSector(head) ELSE runway

Idle == power = "run" /\ queue = <<>>

IdleTickMoving ==
    /\ Idle
    /\ runway' = IdleRunway /\ burst' = 0
    /\ UNCHANGED <<flash, deleted, power, head, seq, trip, pendingNew, hasBase,
                   queue, acked, edits, cuts, wfaults, efaults>>

\* Variant: the trickle stops where the boot's minimum does.
TrickleDueToMin == Idle /\ RingDist(FreshSector(head), IdleRunway) < RunwayBootMin

\* Parked long enough: make one more sector clean, up to the target.
TrickleDue == Idle /\ RingDist(FreshSector(head), IdleRunway) < RunwayTarget

IdleTickParked ==
    /\ TrickleDue
    /\ flash' = IF SectorIsClean(flash, IdleRunway) THEN flash
                ELSE Erased(flash, IdleRunway)
    /\ runway' = Next1(IdleRunway) /\ burst' = 0
    /\ UNCHANGED <<deleted, power, head, seq, trip, pendingNew, hasBase, queue,
                   acked, edits, cuts, wfaults, efaults>>

TrickleEraseFails ==
    /\ TrickleDue /\ efaults < MaxEraseFaults
    /\ ~SectorIsClean(flash, IdleRunway)
    /\ runway' = Next1(IdleRunway) /\ burst' = 0
    /\ efaults' = efaults + 1
    /\ UNCHANGED <<flash, deleted, power, head, seq, trip, pendingNew, hasBase,
                   queue, acked, edits, cuts, wfaults>>

----------------------------------------------------------------------------
(* Power cuts *)

Cut(f) ==
    /\ power # "off" /\ cuts < MaxCuts
    /\ power' = "off" /\ flash' = f /\ cuts' = cuts + 1
    /\ head' = Slot(0, 0) /\ seq' = 1 /\ trip' = 1
    /\ pendingNew' = FALSE /\ hasBase' = FALSE
    /\ runway' = 0 /\ queue' = <<>> /\ burst' = 0
    /\ UNCHANGED <<deleted, acked, edits, wfaults, efaults>>

CutBetweenSteps == Cut(flash)

CutDuringWrite ==
    /\ Writing
    /\ \E state \in TornStates : Cut(TornAt(Entered(flash, head), head, state))

CutDuringEntryErase ==
    /\ Writing /\ head.in = 0 /\ ~SectorIsClean(flash, head.sec)
    /\ \E state \in TornStates : Cut(FilledWith(flash, head.sec, state))

CutDuringTrickle ==
    /\ TrickleDue /\ ~SectorIsClean(flash, IdleRunway)
    /\ \E state \in TornStates : Cut(FilledWith(flash, IdleRunway, state))

\* While the boot builds the runway: n sectors done, the next one half erased.
CutDuringBoot ==
    /\ power = "boot"
    /\ \E n \in 0..(RunwayTarget - 1), state \in TornStates :
          LET fresh == FreshSector(head)
          IN  /\ ~SectorIsClean(flash, Ahead(fresh, n))
              /\ Cut(FilledWith(RunwayBuilt(flash, fresh, n), Ahead(fresh, n), state))

Writer == WriteRecord \/ WriteFails \/ EntryEraseFails
          \/ IdleTickMoving \/ IdleTickParked \/ TrickleEraseFails
UserAndTick == NewTrip \/ Tick \/ OdoFlush \/ DeleteTrip
PowerCut == CutBetweenSteps \/ CutDuringWrite \/ CutDuringEntryErase
            \/ CutDuringTrickle \/ CutDuringBoot

Next == Boot \/ RunwayBuild \/ UserAndTick \/ Writer \/ PowerCut

Spec == Init /\ [][Next]_vars

\* The writer task never stops looking: parked for good, it keeps trickling.
FairSpec == Spec /\ WF_vars(IdleTickParked)

----------------------------------------------------------------------------
(* Properties *)

\* Every variable has its type; the head is a slot and the runway a sector.
TypeOK ==
    /\ flash \in [Sectors -> [Indices -> Contents]]
    /\ deleted \subseteq Nat
    /\ power \in {"off", "boot", "run"}
    /\ head \in Slots /\ seq \in Nat /\ trip \in Nat
    /\ pendingNew \in BOOLEAN /\ hasBase \in BOOLEAN
    /\ runway \in Sectors
    /\ queue \in Seq([kind : Kinds, trip : Nat]) /\ Len(queue) <= QueueDepth
    /\ burst \in Nat /\ acked \in Nat /\ edits \in Nat /\ cuts \in Nat
    /\ wfaults \in Nat /\ efaults \in Nat

ValidSlots == {s \in Slots : Valid(flash, s.sec, s.in)}
IdAt(s) == flash[s.sec][s.in].id
Newest(kind) == {s \in ValidSlots : kind = "any" \/ flash[s.sec][s.in].kind = kind}
NewestId(kind) ==
    IF Newest(kind) = {} THEN 0
    ELSE CHOOSE i \in {IdAt(s) : s \in Newest(kind)} :
             \A s \in Newest(kind) : IdAt(s) <= i

\* Whenever power is cut, the boot scan resumes from the newest readable record
\* of the whole ring, although it reads one record per sector and then a few
\* sectors: the head lands after it, and the trip totals and the odometer are
\* seeded from the newest sample and the newest checkpoint unless that lies
\* further back than the sectors the fine pass walks.
WithinWalk(id) == NewestId("any") - id <= (ScanBack - 1) * RecsPerSector

ScanFindsNewest ==
    LET scan == BootScan(flash)
    IN  /\ scan.last = NewestId("any")
        /\ WithinWalk(NewestId("sample")) => scan.sample = NewestId("sample")
        /\ WithinWalk(NewestId("odo")) => scan.odo = NewestId("odo")

\* The sequence numbers of the readable records order them as they were
\* written, without a duplicate, across every restart: the reboot scan and the
\* readers rely on it, and seq is re-derived at each boot from what survived.
SeqFollowsWrites ==
    \A s, t \in ValidSlots :
        IdAt(s) < IdAt(t) =>
            flash[s.sec][s.in].seq < flash[t.sec][t.in].seq

\* The log tells one story per trip: a record of a later trip never precedes one
\* of an earlier trip, and no readable record belongs to a trip after the live
\* one (the reader's window ends there), although the trip id is kept in RAM and
\* re-read from the log at every boot.
TripsInOrder ==
    /\ \A s, t \in ValidSlots :
          IdAt(s) < IdAt(t) =>
              flash[s.sec][s.in].trip <= flash[t.sec][t.in].trip
    /\ power = "run" => \A s \in ValidSlots : flash[s.sec][s.in].trip <= trip

\* How much history the ring must hold: everything but the erased runway and
\* the sector being filled.
Retained == (NSectors - RunwayTarget - 1) * RecsPerSector
Readable(id) == \E s \in ValidSlots : IdAt(s) = id
LostRecent == {id \in (acked - Retained + 1)..acked : id > 0 /\ ~Readable(id)}

\* What one fault can cost.  The boot resumes right after the last readable
\* record, over every torn slot that follows it in the sector, so each cut can
\* cost all but the first record of a sector once more; a failed program costs
\* the record that is written next; and a first slot that lies costs a sector.
ResumeCost == RecsPerSector - 1
LieCost == IF MagicMayBeBlank \/ MaxEraseFaults > 0 THEN RecsPerSector ELSE 0

\* No erase and no overwrite ever takes a recent record: of the records the
\* flash acknowledged within the retained window, no more are unreadable than
\* the power cuts and the failed operations account for.
RecentRecordsKept ==
    Cardinality(LostRecent) <=
        ResumeCost * cuts + wfaults + LieCost * (cuts + wfaults + efaults)

\* trip_log.c:8-10: nothing is lost on a power cut except an in-progress write.
OnlyInProgressLost == LostRecent = {}

\* delete_trip: "never hide the live trip".
LiveTripNeverHidden == power = "run" => trip \notin deleted

\* Whatever a spent boot budget left dirty is picked up by the idle trickle: once
\* the bike stays parked, every sector of the runway ends up clean and stays so.
RunwayClean == \A k \in 0..(RunwayTarget - 1) :
                   SectorIsClean(flash, Ahead(FreshSector(head), k))
RunwayRebuilt == <>[]Idle => <>[](power = "run" /\ RunwayClean)

\* An erase only takes a whole sector of the runway: every readable record that
\* disappears lies between the fresh sector and RUNWAY_TARGET sectors ahead.
EraseOnlyAhead ==
    [][\A s \in ValidSlots :
          flash'[s.sec][s.in] # flash[s.sec][s.in] =>
             /\ RingDist(FreshSector(head), s.sec) < RunwayTarget
             /\ \A i \in Indices : flash'[s.sec][i].state # "valid" \/ Slot(s.sec, i) = head
      ]_vars
=============================================================================
