# Verification of the VESC display firmware

TLA+ models, TLC runs and TLAPS proofs for the firmware of an ESP32-P4 dashboard
for electric vehicles with a VESC motor controller. The display polls the
controller over CAN or BLE, keeps the trip total, the lifetime odometer and a trip
log on raw flash, links BLE sensors, and projects Android Auto. Paths in this file
are relative to the root of the repository.

- [Inventory](#inventory): the parts of the system, their state and what is hard about them
- [Plan](#plan): which modules exist, which come next
- [The modules](#the-modules): how state and actions correspond to the code
- [The runs](#the-runs): what each shows, its bounds, its fairness
- [The proofs](#the-proofs)
- [Disagreements found](#disagreements-found)
- [What is not modelled](#what-is-not-modelled)

To run a model: `tlc -config TripLog_ring.cfg MCTripLog`. To check a proof:
`tlapm CanLinkProofs.tla`.

## Inventory

Tasks: the LVGL task (all screens and the 100 ms dashboard tick), the trip-log writer,
`can_rx`, `can_proc`, the telemetry poll task `rt_task`, the NimBLE host task, workers
for BLE update, files and navigation, the Android Auto session and the H.264 decoder.
They share statics, some under a lock, many not.

```
 VESC --CAN--> comm_can --+                               +-> trip_persist -> odo_persist
 VESC --BLE--> ble_link --+-> packet handlers -> rt_data -+-> battery_calc        |
                                (snapshot, no lock)   LVGL tick -------------> trip_log -> flash
 sensors --BLE--> clients <-> central arbiter <- link boost <- BLE update / navigation
 phone --BLE--> nus / notif / files / nav / ota      phone --Wi-Fi--> Android Auto session
```

### Parts with a model

| Part | State | Operations | What is hard | What makes it correct |
|---|---|---|---|---|
| Trip log (`components/trip_log`) | flash ring; `s_head`, `s_seq`, `s_trip_id`, `s_pending_new`, `s_runway_next`, `s_queue`, `s_deleted` in NVS | boot scan, runway at boot, tick, new trip, odometer record, delete, list; writer: program, entry erase, trickle | power cuts inside a program or an erase, the scan reads one record per sector, everything is re-derived from what survived, the head may overtake the runway | the scan resumes at the newest record, sequence numbers keep the write order, recent history is never erased, the runway comes back |
| Trip total and odometer (`components/dev_settings/vesc_{trip,odo}_persist.c`) | tachometer offset and last reading; base, dirty flag | update, seed, reset, edit, checkpoint | the controller restarts and wraps independently; the seeds come from two records that may belong to different trips | nothing counted twice, nothing stepped back, nothing lost when the restart is observable, the rider's edit reaches the log |
| Telemetry (`vesc_rt_data.c`) and dashboard updater (`vesc_ui_updater.c`) | the snapshot; the order of calls of a tick | decode a reply, push a tick | the reader takes no lock | a tick uses one reply |
| CAN transport (`comm_can.c`, `vesc_link.c`) | receive ring, three reassembly buffers, two semaphores, the mutex, driver state | start, stop, re-initialise, send, poll, receive, decode, serve a request, bus recovery | four tasks; the slot in use counts as free; buffers keyed by destination; a stop races sends and receives; lost frames | frames and packets survive, no call into a removed driver, every poll returns, the bus comes back |
| BLE arbiter (`ble_central_arb.c`) and its three clients | per client: wanted, peer; pending attempt; suspended; per client: bound, address, handle, parked, scanning | want, stop, evaluate, suspend, resume, and each client's sync, GAP events, scan, bind, forget, park, reconnect | one initiator; asynchronous cancels; three threads; a lock that cannot cover the NimBLE calls | sleeping sensors cannot starve others, the record is true, no request or handle is lost |
| BLE link to a VESC (`vesc_ble_link.c`, `ble_vesc_client.c`) | request ring, two semaphores, the packet captured, `s_peer`, `s_probe_*` | send, send and wait, serve, receive, probe, select another device, drop, reconnect | a request outlives its caller's timeout; late answers; one completion signal for all callers; a reset from another thread | a caller is released by its own request, or by one given up before; what was learned is about the device attached; polls reach the controllers in the end |
| Lisp upload and read-back (`vesc_lisp_code.c`, `lisp_http.c`) | busy flag, one set of acknowledgement registers, buffer, the job the editor shows | stop, erase, write, run, read, retries; the editor's requests | an acknowledgement does not say which request it is for; the phone reads, writes and erases at the same controller; the target may be changed | "done" means stored, or shown as stored; every operation ends |
| Poll task and who pauses it (`vesc_rt_data.c`, `vesc_lisp_panel.c`, `vesc_lisp_poll.c`, `vesc_io_data.c`, `pas.c`, `ble_nus.c`, `main.c`) | one flag per poll, the action queue, the resume timer, the last setpoint | poll, pause, resume, swap the link, change the target, tap, setpoint, watchdog | four threads write the flags with no lock and no count of owners; the watchdog sends outside its lock | polls come back; the phone lets go of them; who stops pedalling coasts |
| BLE firmware update (`ble_ota.c`, the app's `bleOta`) and the link boost (`ble_link_boost.c`, shared with `ble_nav.c`) | state, stage, digest, event queue; two counts and the arbiter's parked flag | begin, data, end, abort, disconnect; allocate, verify, flash; request and release a boost | the host preempts the worker between any two steps; a full queue; repeated writes; a disconnect at every step; counts without a lock; a status is sent once; the parking is shared with the sensors' scans | only the announced image is booted; the phone is answered; the sensors get the radio back |

### Parts without a model yet

| Part | State | Operations | What is hard | What would make it correct |
|---|---|---|---|---|
| VESC serial parser (`packet_parser.c`, `crc.c`) | a byte state machine | feed a byte, reset | resynchronisation after lost bytes | a clean packet after a bounded amount of noise is delivered; only packets with a good CRC are |
| IO data (`vesc_io_data.c`, decoding), Lisp statistics and console, second head (`vesc_head2.c`) | a snapshot and its time; a text ring | poll, decode | freshness windows | stale values are not shown as fresh |
| VESC configuration (`components/vesc_config`) | two configurations, one request under way, dirty flags | read, write, detect, measure | an answer after the timeout, a target that changes under a request | what is written back is what was read and edited; unknown firmware is read-only |
| Wheel speed sensor (`speed_sensor.c`) | odometer, trip, revolutions consumed | integrate, save, reset | rollover and reconnects | distance is monotone; a reconnect does not add a turn of the counter |
| Battery calculator (`vesc_battery_calc.c`) | remaining charge, epochs | integrate, detect a charge, reset | floating point; a charge while off | a reset is applied once |
| Settings (`dev_settings.c`, `fw_slots.c`, `app_fs.c`) | RAM cache over NVS keys | set, get, factory reset | a cut between two keys | each key is old or new |
| BLE host, UART service (`ble_host.c`, the proxy of `ble_nus.c`) | up to two phones, fragments | connect, subscribe, fragment, proxy | two phones, one VESC | a reply goes to the phone that asked |
| BLE files, navigation frames, notifications (`ble_files.c`, `ble_nav.c`, `notif_bridge.c`) | transfer state, staging buffer, queue, ring | chunks in the host callback, work on a worker | the callback and the worker share the state; aborts and disconnects in the middle | one transfer at a time; nothing is committed that was not hashed |
| Other updates (`ota_http.c`, `bt_agent_ota.c`, `c6_ota.c`) | stage, counters, hash | begin, chunk, end, abort, flash | as above, and a cut while flashing | only a verified image is booted |
| Navigation map (`nav_*.c`) | tile slots with ages, card store | request, insert, evict | eviction of layers in use | a tile on screen is not evicted for one that is not |
| Android Auto (`aa_*.c`) | partial messages per channel, TLS, unacknowledged frames | handshake, frames, open channels, acknowledge | fragments of channels interleave; one TLS context, several senders | messages are reassembled per channel; acknowledgements match frames |
| Video (`h264_pipe.c`, `display_video.c`) | frame queue, deferred acknowledgements | push, decode, present | backpressure through acknowledgements | each frame is acknowledged once; the pipe cannot stall |
| Network services, agent link (`tcp_server.c`, `wifi_manager.c`, `bt_link.c`, `*_http.c`) | one client, a line buffer | accept, command, event | reconnects | the newest session wins |
| Screen flow, log capture (`ui_mode.c`, `charge_prompt.c`, `log_capture.c`) | mode, prompt, ring | switch, answer, write, read the tail | a ring with concurrent writers | the tail is contiguous |

Left out: the LVGL widgets and simulator, generated tables and screens, board support,
the companion application, the Lisp script of the controller, build scripts. They are
vendored, generated, drawing, or run on another device.

## Plan

Done, most important behaviour first:

1. `TripLog`, the only copy of the rider's history, with every power cut.
2. `Odometer`, the totals above it; it sees the log as its newest sample and
   checkpoint, which is what `TripLog` shows the boot scan to return.
3. `BleArb`, the arbiter with its clients and NimBLE.
4. `CanLink`, the transport every request of the display uses.
5. `VescBleLink`, the other transport, with the abstract specification `SyncCall` of
   its blocking calls, which it implements.
6. `PollTask`, the one task that polls, and everybody who pauses it.
7. `LispCode`, the transfer that depends on the polls being paused.
8. `BleOta` over `LinkBoost`, the update and the parking of the arbiter.
9. Proofs: `OdometerProofs`, `CanLinkProofs`, `VescBleLinkProofs`, `BleArbProofs`,
   `LispCodeProofs`, `BleOtaProofs`, `PollTaskProofs`, `TripLogProofs`.

Next, in this order:

10. Proofs: `TripsInOrder` and `RecentRecordsKept` of `TripLog` where a first slot may
    lie.
11. A specification of what the trip log promises (an append-only history of which a
    bounded suffix is retained) implemented by `TripLog`, and `Odometer` above it.
12. A specification of a transport (a request is answered, lost or late) implemented by
    `CanLink` and `VescBleLink`, with `LispCode` above it.
13. `PacketParser`: a function over byte streams, against a reference definition.
14. `Files`: the other staging buffer between the host and a worker.
15. `AaFrame` and `Video`: reassembly per channel, acknowledgement backpressure.

## The modules

Each definition names the code it stands for in its comment and in `PROJECT.json`
("map"). Constants are parameters of the modules; the MC modules only add the
symmetry and the model values. All modules use the same conventions: an action is a
whole handler up to the point where another task can run, a bound is a guard whose
constant is called `Max...`, and a mutant is a definition next to the one it changes,
used by no run but its own.

### TripLog

`flash` is what the partition holds: a slot is erased, valid, torn, or torn with a
blank magic, together with the record it was programmed with (kind, trip, sequence
number, and the position in the history of what was acknowledged, which the code does
not know). Programming can only clear bits, so a record programmed over a torn slot
does not become valid (`Programmed`). The RAM variables are `s_head`, `s_seq`,
`s_trip_id`, `s_pending_new`, whether the odometer has a base, `s_runway_next`,
`s_queue`; `deleted` is in NVS and survives.

| Action | Code |
|---|---|
| `Boot`, `RunwayBuild` | `trip_log_init`: the scan (`BootScan`, a pure function of `flash`), then the budgeted runway |
| `NewTrip`, `Tick`, `OdoFlush`, `DeleteTrip` | the calls of the LVGL task; a full queue drops a tick and leaves the odometer due |
| `WriteRecord`, `WriteFails`, `EntryEraseFails` | one turn of the writer with a record: entry erase of a dirty sector, program, head and runway |
| `IdleTickMoving`, `IdleTickParked`, `TrickleEraseFails` | one turn without a record: the trickle erase |
| `CutBetweenSteps`, `CutDuringWrite`, `CutDuringEntryErase`, `CutDuringTrickle`, `CutDuringBoot` | the power fails there; a half done program or erase leaves torn slots |

`MaxBurst` bounds the records between two idle turns of the writer. It is a timing
bound: samples come every 10 s and the writer's receive times out after 3 s (`RUNWAY_TRICKLE_MS`).

### Odometer

`vesc` is the controller (tachometer, uptime, which start it is in), `rt` the last
reply stored, `trip` the accumulator of `vesc_trip_persist.c` (`offset`, the last
reading `cur`, the uptime seen with it, the flags), `odo` the base and the dirty flag of
`vesc_odo_persist.c`. `log` is what the next boot finds: the newest sample and the
newest checkpoint. `truth` and `seen` belong to an observer that is shown the same
readings and told when the controller restarted; no action of the code reads them.

`Tick` is the 100 ms tick: `TripUpdate` (first reading, fold, hold), `OdoUpdate`
(adoption of the controller's own odometer), and the queueing of a sample or a
checkpoint. `TornTick` is the same tick over a snapshot whose fields come from two
replies, since the reader takes no lock. `TripReset` and `SetOdometer` are the
rider's; `WriteRecord` and `RecordLost` are the log's writer. `Watched` says that a
tick follows every start of the controller before its counters pass the old ones
again. Ah and uptime totals are updated by the same branches and are not repeated.

### BleArb

`slots`, `pending`, `forever`, `suspended`, `next` are the statics of the arbiter;
`client` those of the sensor clients; `boosted` of the link boost. Three threads run
this code: the NimBLE host, LVGL, and the update worker. `todo[t]` is what thread `t`
has still to do: the locked sections and NimBLE calls of a call chain, in order. The
arbiter's lock covers a section and never a NimBLE call, so another thread may run
between any two elements. `gap`, `links`, `closing`, `awake` are NimBLE and the sensors,
external, modelled from how the code uses the calls and events: one initiator,
cancellation takes effect later, a terminated link goes down later.

`lapses` is history: `missed` while an attempt is yet to be made, or goes on, although
its cancellation was carried out before it (and hit nothing), `refused` since an attempt
was refused and rolled back until an evaluation makes the next one.

### CanLink

`packets` are the reassemblable packets on the bus, each with the index of its next frame.
`ring` is the receive ring of 50 frames, `proc` the frame `process_task` is decoding,
`asm` the reassembly buffers with their owner and the parts received. A packet is
`Chunks` fill frames and a process frame; its CRC holds exactly when every part in the
buffer is its own. `driver` is the TWAI driver, `link` the flags of `comm_can.c`,
`mutex` `s_mutex`, `tx` and `poll` where the senders and `rt_task` are, `done` the
binary semaphore of `comm_can_send_buffer_wait`, `ctl` where a stop, start or
re-initialisation is. `seen` is an observer: frames of one packet decoded in a row, and
what may excuse an overlap of polls.

Where one action stands for several steps, the reason is in the comment: decoding a
frame is one action, because a start only resets buffers at a point where either order
gives the same result; the second check of the driver is made while taking the mutex,
because a stop needs it too. A reply that is lost is a packet that stays on its way.

### VescBleLink and SyncCall

`queue` is the request ring, `tx` the task that serves it one request at a time, `wire`
and `rx` the way of a packet from the radio to the task that hands it on, `replySem` and
`callerSem` the two semaphores, `rt` where the poll task is. The poll task probes what it
is attached to (`probe`, `peer`, `peerId`, `tries`, `lateId`, `seenDrops`): a controller is
spoken to directly, behind an adapter everything is wrapped and addressed (`Wraps`,
`Responder`). The device, the radio and GAP are external. `Old` are the devices whose
version reply ends before the hardware type (`ReportedBy`): the code reads such a reply as
an adapter's, whoever sent it.

| Action | Code |
|---|---|
| `PollAsks`, `ProbeAsks`, `Returns`, `GivesUp` | `send_sync` of the poll task: drain, enqueue, wait 100 ms longer than the request |
| `Serve`, `Answered`, `TimesOut`, `Release` | the tx task: drain, wrap and write, wait for the reply, give the caller's semaphore |
| `RxCaptures`, `RxSignals` | the rx task: capture for the probe, match, hand on; then the semaphore |
| `FindsController`, `AsksAgainLater`, `AsksVersion`, `Verdict`, `ProbeRests` | the rest of `probe_run` |
| `OtherSends`, `DropStale`, `Select`, `Drop`, `Connect`, `Prints` | phone, menus, pedal assist; the reset after a reconnect; another device selected; the link; output of the script |

`SyncCall` says what a caller may expect of a call with a timeout over a queue with one
completion signal: it ends by its own completion, by the timeout, or by the completion
of an earlier call that was given up, and it ends. The mapping is `calling <- Blocked`
and `owed <-` the waiting requests still to be served whose caller has moved on. The
refinement shows that nothing else can release a caller, and that the calls do end.
`SyncSafety` is `SyncCall` without its fairness.

### LispCode

`step` and `phase` are where the worker is: a step asks, waits, and looks at `ack`, the
one set of registers every reply is left in, until `Matches` or `Retries` attempts are
used up. `buf` is the buffer (with its pointer: it may be freed and still pointed at),
`job` what `lisp_http.c` shows; the text of an earlier read, which stays on the page, is
forgotten when the next operation starts. Each controller serves what it is sent in order, programs
erased cells and garbles others, or is deaf. The phone may send any of the four commands,
for any chunk (`PhoneRequests`): the bridge forwards what it is sent. A loss, a slow reply,
a refusal, a request of the phone, a changed target are events of the environment; a wait may end in a timeout
whenever a message is still under way, which makes its answer late.

### PollTask

`at` is where the poll task is in its round: telemetry, one-shot statistics, IO, dashboard
values, the panel's actions, pedal assist, and the loops `main.c` registers: the probe of
the BLE link and the second head, which look at no flag (`AuxLoop`). The flags `rtOn`, `lispOn`, `ioOn`, `paused` are
the variables the others write; `todo[t]` is what thread `t` (the script worker, the
Bluetooth host, the timer task, the display) has still to write, in the order of the code,
and others may run between any two writes. `pas`, `look` and `motor` are the setpoint, the
poll task's copy of it, and what the controller was told last.

### LinkBoost and BleOta

A request to `LinkBoost` is three accesses to its counts (`Ask`, `Count`, and `Look` with
`Update` for the interval); two users run on tasks of equal priority. `BleOta` extends it:
the host's handlers (`WriteBegin`, `WriteData`, `WriteEnd`, `WriteAbort`, `Disconnect`) are
one action each, up to where they wait for room in the queue, since the host outranks the
worker on its core. The worker's event is a list of steps (`BeginSteps`, `AbortSteps`,
...), and the host may come between any two. `phone` is the app: one attempt after the
other, it gives up on a timeout, and repeats a write that had gone out. A status may reach it
or be dropped (`Tells`). The navigator is there as the other user of the boost. The arbiter's
`parked` is one boolean, which a scan for sensors sets when it starts and clears when it is
refused, stopped, over, or ends in a binding (`ScanStarts`, `ScanEnds`; once or twice per
scan), without a look at who else wants it parked.

## The runs

| Run | States | Shows |
|---|---|---|
| `ring` | 202 k | Two power cuts at any point while the ring wraps: the scan finds the newest record (`ScanFindsNewest`), sequence numbers order the records as written (`SeqFollowsWrites`), no erase leaves the runway (`EraseOnlyAhead`), a parked bike gets its runway back (`RunwayRebuilt`) |
| `faults` | 1.94 M | With failing programs and erases, a power cut, and interrupted operations that leave a blank magic, the recent records that are lost are accounted for (`RecentRecordsKept`); trips do not interleave in the log (`TripsInOrder`) |
| `exact` | 733 k | The odometer equals the observer's count (`OdoExact`); the rider's edit is what the next boot resumes (`EditReachesLog`) |
| `hostile` | 327 k | With torn readings, a wrapping uptime and lost records: the number never steps back (`OdoNeverStepsBack`), a due checkpoint is taken (`DueCheckpointTaken`) |
| `linked` | 344 k | Under every interleaving of the threads: a sensor that stays awake is linked in the end (`EverySensorLinked`), unless a cancellation missed its attempt or nobody tries a refused one again |
| `preempted` | 3.4 M | Under every interleaving: the record of the initiator is true (`PendingIsReal`); no wish is lost and no dead handle is kept (`ClientsAgreeWithRadio`); unless a cancellation missed its attempt, waiting clients rotate (`BothWaitingRotate`) and the radio is quiet when it must be (`ParkedIsQuiet`) |
| `link` | 441 k | Frames survive until decoded (`FrameInUse`), packets decoded in a row are delivered (`WholePacketsDelivered`), no call into a removed driver (`DriverInstalledWhileUsed`), polls overlap only when excused (`PollsOverlapOnlyWhenExcused`), bus-off ends (`BusRecovers`) |
| `blelink` | 751 k | What the probe learned is true of the device attached (`PeerIsAttached`), its answers do not reach the telemetry (`BlankNeedsTwoProbes`), a wait ends by its own answer (`WaitEndsByOwnAnswer`), the blocking calls implement `SyncCall` (`ImplementsSyncCall`), and polls end up addressed so that they arrive (`EventuallyAddressed`) |
| `pollers` | 541 k | However the pauses overlap, the polls come back (`PollsComeBack`), the phone's pause ends (`PhoneLetsGo`), and the last setpoint sent after pedalling is zero (`CoastCommanded`) |
| `lisp` | 1.07 M | What the editor is told is true (`DoneMeansStored`: an upload done is stored, a script shown is the one stored), a late reply meets a freed buffer only after a repeated or foreign read or one of an earlier transfer (`FreedOnlyByRepeatedRead`), every operation ends (`OperationsEnd`) |
| `transfer` | 1.12 M | Only the announced image is booted (`BootedIsAnnounced`), data goes into its own stage (`WritesStayInStage`), the link is fast while the phone streams, and the radio quiet unless a scan has ended meanwhile (`StreamsFast`), the sensors come back (`SensorsComeBack`), the phone is answered unless the answer itself was dropped (`PhoneIsAnswered`) |
| `retarget` | | A [disagreement](#disagreements-found); it ends in a counterexample |

Each property of a passing run has a mutant in `PROJECT.json`: a one-definition change
of the kind a bug would be, under which TLC finds the property violated. Every module has
a `TypeOK`; two runs list it. The others are true under the same configurations: add
`INVARIANT TypeOK` to see it.

### Bounds, and why they are enough

- Trip log: 5 sectors of 2 records and 11 records make the head pass the ring's start
  and enter sectors written before; 2 cuts make a boot resume on what an earlier cut
  left. The real ring has more sectors and records per sector, but the code treats a
  sector only as first, last or inner in the ring and a slot only as first, last or inner in
  its sector. `faults` uses 4 sectors, which leaves room for one fault of each kind.
  With 2 records a sector has room for one torn slot behind a readable record; what
  several of them cost together (`ResumeCost`) takes 3, and is what the proof covers.
- Odometer: two starts of the controller, one edit, one reset, one cut and a few units
  of distance reach each branch of the accumulator in each order; `hostile` shortens the
  uptime to wrap within the run, leaves out the rider, and has a queue of one, which is full
  whenever a sample waits. The thresholds (slack, restart, adoption) are the
  code's comparisons at small values.
- BLE: two clients of the arbiter's table and one sensor each (`linked`), or two
  (`preempted`, by symmetry, which rebinding needs); the events of screens, sleep and updates
  share one bound of two, so that any two of them overlap, two scans of the screens among them.
- CAN: 3 ring slots, 3 buffers as in the code, one fill frame, two ids (a
  re-initialisation changes the id, which is what makes a destination new), two polls,
  and one each of the other events, at most 3 of them in one behaviour.
- BLE link: two controllers, one of them old, an adapter and a silent device, a ring of two requests, two
  events (a loss, a slow answer, a call given up, a drop, a reset, another producer) in
  any combination, an unbounded number of polls and probes.
- Lisp: two controllers, one of them deaf, two scripts of two chunks, either of
  them uploaded, one of them stored at first and written by the phone, two attempts per
  step, two events.
- Poll task: one tap, three events. Each thread that pauses or resumes takes one, so any
  three owners overlap.
- Update: images of one write and of two, two attempts, one disconnect, a queue of two, and
  one of: a frame for the navigator, a scan, a repeated write. Two attempts are what parts of
  two transfers need to meet; the queue fills with a BEGIN and an ABORT before it is served. A
  dropped status needs no bound.

Properties that excuse a known hole name it by a history variable (`past`, `cut`, `moved`,
`raced`, ...). No excuse is idle but one: at these bounds TLC finds a counterexample to each
property when one of its excuses is struck out. `leftover` in `DoneMeansStored` takes three
events where a read is concerned, more where an upload is.

Deadlock is checked in `blelink`, `lisp` and `pollers`, whose tasks go on for ever. The
other runs may stop: where their bounds are used up, or, in `transfer`, where the phone
does nothing more.

### Fairness

- `TripLog`: WF of the parked idle turn. The writer has no other work and its queue
  receive times out.
- `Odometer`: WF of `WriteRecord`, SF of `OdoFlush`. The LVGL task tries the flush at
  every tick while a sample is queued only every 10 s.
- `BleArb`: WF of every thread that has work. SF of `Connected` per peer: an awake
  sensor advertises about once a second and the window is 8 s, so it cannot be missed
  for ever. WF of the end of attempts, scans and updates, SF of the end of a link that is
  closed or whose peer is silent: each has a duration.
- `VescBleLink`: WF of the three tasks, of a connection to a device in range and of the
  drop of a link to a device no longer selected; SF of `ProbeAsks`, whose time comes
  again and again. Answers may be lost for ever; `EventuallyAddressed` assumes that they
  get back into step.
- `PollTask`: WF of the poll task, of every started sequence of writes, of the end of a
  script operation (`OperationsEnd` of `LispCode`), of timers and of the pedal task while
  it runs. Nothing is assumed of the phone or the rider.
- `LispCode`: WF of the worker, of the receive task and of each controller serving what
  it was sent. Replies may be lost.
- `BleOta`: WF of the update's worker, the boost it asks for and the waiting host, and of
  the end of scans, which have a duration.
  Nothing is assumed of the phone or the navigator.
- `CanLink`: WF of every task, SF of `HealthCheck`, which `rx_task` makes every 500 ms,
  WF of the end of a recovery (128 idle sequences on the bus). Nothing is assumed of
  the controller or the bus: replies may be lost for ever.

## The proofs

`THEOREM Spec => []P`, for every value of the constants the modules' assumptions allow.

| Theorem | States | Inductive invariant |
|---|---|---|
| `OdometerProofs!TypeCorrect` | `TypeOK`: types, and no negative total | `TypeInv` = `TypeOK` and `FreshTrip`: a trip waiting for its first reading holds only its seed |
| `OdometerProofs!NeverStepsBack` | `OdoNeverStepsBack`, torn and wrapped readings included | `TypeInv`, then each branch of `TripUpdate` and `OdoUpdate` |
| `OdometerProofs!NeverOverCounted` | `OdoNotOverCounted`, given `WholeReads` and `NoWrap`; unlike `OdoExact` it does not need `Watched` | `CountInv`: readings of a controller session are stored and shown in order (`ReadingsInOrder`), the accumulator is tied to the reading of the last tick (`TripTracksSeen`), no checkpoint queued or logged claims more than the observer had when it was made (`CheckpointsHonest`), and base plus trip stay below the observer's count (`SumBounded`) |
| `OdometerProofs!CountsExactly` | `OdoExact`, given `WholeReads`, `NoWrap` and `Watched` | `ExactInv`: `CountInv` with equalities; the accumulator holds the reading of the last tick (`Holds`), and a controller start the UI has not acted on is the only one and can still be told from the one before (`RestartsSeen`) |
| `OdometerProofs!EditIsLogged` | `EditReachesLog`, torn readings included | `EditInv`: an odometer with nothing due has the rider's edit in the newest checkpoint of queue and log (`NewestCarries`), until a program fails |
| `CanLinkProofs!TypeCorrect` | `TypeOK`, with `OneOwner`: no two buffers belong to one destination | itself |
| `CanLinkProofs!FrameNeverOverwritten` | `FrameInUse` | `FrameKept`: the slot being decoded is the one before the read index, which the write index never enters since the ring keeps a slot empty |
| `CanLinkProofs!DriverNotRemovedWhileUsed` | `DriverInstalledWhileUsed` | `DriverKept`: a sender inside the driver holds the mutex, `up` implies installed, `rx_task` receiving implies that no stop has passed it |
| `CanLinkProofs!DecodedInARowDelivered` | `WholePacketsDelivered`, given `EnoughBuffers` | `WholeInv`: a destination whose frames have been decoded in a row owns a buffer that holds exactly those |
| `CanLinkProofs!OverlapsAreExcused` | `PollsOverlapOnlyWhenExcused` | `OrderInv`: the parts of a packet keep their order from the bus through the ring to the decoder, so a completed packet has nothing under way; `PollsInv`: the excuses pay for every reply under way but the one waited for |
| `VescBleLinkProofs!TypeCorrect` | `TypeOK` | itself |
| `VescBleLinkProofs!ProbeTellsTheTruth` | `PeerIsAttached` | `PeerInv`: what is on the wire came from the device attached (`FromAttached`), and what each stage of the probe holds since the last drop is that device's (`ProbeTells`) |
| `VescBleLinkProofs!IdAnswerIsNobodysTelemetry` | `BlankNeedsTwoProbes` | `BlankInv`: until a second probe goes out too early there is one id answer at most, the one the probe waits for or one known to be late (`OneIdProbe`) |
| `VescBleLinkProofs!WaitsEndInStep` | `WaitEndsByOwnAnswer`, an action property | the types |
| `VescBleLinkProofs!CallsAreSyncCalls` | the safety part of `SyncCall`, under the refinement mapping | the requests that wait are told apart by their owner: at most one is the caller's, and `owed` counts the others |
| `BleArbProofs!TypeCorrect` | `TypeOK` | itself |
| `BleArbProofs!RecordIsRadios` | `PendingIsReal`, with threads preempting each other at every call | `TokenInv` |
| `BleArbProofs!SensorsAreNotForgotten` | `ClientsAgreeWithRadio`, with threads preempting each other at every call | `AgreeInv`: a dead handle has its "lost" event still to come, and whoever is to connect has its request on record, its link, or a thread that is about to ask (`SuitInv`, `CallInv`, `WishInv`, `HandleInv`) |
| `BleArbProofs!ParkingSilences` | `ParkedIsQuiet`, with threads preempting each other at every call | `QuietInv`: an attempt on record while suspended is at its end, is cancelled or about to be, or its cancellation missed (`Ending`) |
| `BleArbProofs!WaitingRotates` | `BothWaitingRotate`, with threads preempting each other at every call | `RotateInv`: an attempt without a limit has no rival, or is `Ending` |
| `LispCodeProofs!TypeCorrect` | `TypeOK` | with `ThreadInv`: which steps belong to which operation, and whose the buffer is meanwhile |
| `LispCodeProofs!ReportsAreTrue` | `DoneMeansStored` | `UpInv` (what has been erased, sent and written of an upload) and `RdInv` (what a read has sent and assembled), as long as no excuse holds |
| `LispCodeProofs!FreedIsNotWritten` | `FreedOnlyByRepeatedRead` | `ReadInv`: without a repetition, a foreign request and a transfer left under way there is one read under way, in one place (`OneRead`) |
| `BleOtaProofs!TypeCorrect` | `TypeOK`; the stage fits its partition, the arbiter's count one user | `CoreInv`: types, `PlanInv`, `ParkInv`, `StageInv` |
| `BleOtaProofs!BootsTheAnnounced` | `BootedIsAnnounced` | `StageInv`: the stage is what has been hashed, or freed; at the head `flash` it is complete and can no longer be written |
| `BleOtaProofs!WritesAreStaged` | `WritesStayInStage` | `GateInv` |
| `BleOtaProofs!StreamingIsFast` | `StreamsFast` | `CountInv`: without an overlap the count covers the users' wishes, what a request has read is the count, and the interval follows the count; `ParkInv`: as long as a user wants the arbiter parked it is, or a scan has ended since (`scanned`) |
| `PollTaskProofs!TypeCorrect` | `TypeOK`: types, and a phone that has paused the polls is waited for by the timer, or about to be let go | `PollInv`, with `PlansInv`: what each thread may still have to write, in which order |
| `PollTaskProofs!PollsReturn` | `PollsComeBack` | `BackInv`: while the dashboard or the telemetry is off, somebody who will switch it on again is on record, or has it among the writes still to do (`Owed`), or one of the two holes is open |
| `TripLogProofs!TypeCorrect` | `TypeOK`, whatever fails | `TypeInv`: and no readable record has a rank or a number beyond those acknowledged |
| `TripLogProofs!ScanFinds` | `ScanFindsNewest`, given `NoLies` | `RingInv`: seen from the sector written longest ago, the readable records lie in the order they were written, at least as many ranks apart as slots (`Ordered`); the head follows the newest (`HeadFits`) |
| `TripLogProofs!SequenceFollowsWrites` | `SeqFollowsWrites`, given `NoLies` | `RingInv` |
| `TripLogProofs!TripsFollow` | `TripsInOrder`, given `NoLies` | `RingInv`: the trips of the log, the queue and the live trip ascend (`TripsFit`) |
| `TripLogProofs!ErasesStayAhead` | `EraseOnlyAhead`, an action property, given `NoLies` | `RingInv` |
| `TripLogProofs!RecentKept` | `RecentRecordsKept`, given `NoLies` | `LossInv`: what is lost, and the torn slots the head has still to pass (`Rubble`), are paid for by the cuts and the failed programs (`Spent`) |

Why the hypotheses are needed:

- `NoLies` (an interrupted operation leaves no blank magic, and erases succeed): otherwise
  a sector can hold readable records behind a first slot that cannot be read, and the
  coarse pass of `boot_scan`, which reads first slots only, misses them. Set
  `MagicMayBeBlank` to `TRUE` in `TripLog_ring.cfg` and TLC shows it. The run `faults`
  checks `TripsInOrder` and `RecentRecordsKept` without it.
- `WholeReads` (no torn snapshot): without it the conclusion is false. Set `TornReads` to
  `TRUE` in `Odometer_exact.cfg` and TLC shows a tick over two replies that folds a
  distance the next tick counts again.
- `NoWrap` (no controller session reaches the wrap of the 32-bit millisecond uptime, 49
  days): the uptime test for a restart mistakes a wrap for one.
- `Watched` (a tick comes before the controller restarts again, and before it has run so
  long that uptime or tachometer no longer tell the new start from the last): without it
  the distance of a start the UI did not see is lost, as TLC shows with `Watched` set to
  `FALSE` in `Odometer_exact.cfg`. The odometer still never exceeds the observer's count:
  `NeverOverCounted` does without this hypothesis.
- `EnoughBuffers` (no more destinations than reassembly buffers). The code has three
  buffers; the destinations are the ids the display has had and the broadcast id. With one
  buffer, two ids and one re-initialisation, TLC finds a packet dropped: a half received
  packet of the old id keeps the buffer for ever. Three buffers serve two ids and the
  broadcast id; a second new id set with `comm_can_reinit` would be a fourth destination.
  `comm_can_start` forgets the half received packets, `comm_can_reinit` does not.

One assumption on a constant is more than a type: `LispCode` has at least two attempts per
step (the code has three). With one, a read would be given up and its buffer freed while
its only answer is still under way, and `FreedOnlyByRepeatedRead` would be false.

What the invariants of `TripLog`, `BleArb`, `LispCode`, `BleOta` and `PollTask` rest on:

- `TripLog`: distances on the ring are taken from the sector after the head's, so moving
  the head into the next sector turns the whole ring by one, and all that matters is that
  the oldest sector, now the farthest, holds nothing. Ranks are tied to slots by an
  inequality, since acknowledged records may be lost to torn slots: between two readable
  records there are at least as many ranks as slots. That one inequality gives both bounds
  of the scan and of the runway: a record within the walk's reach in ranks is within its
  reach in sectors, and a record in the runway is older than what must be retained.
  `LossInv` is where the proof corrected the property. `RecentRecordsKept` said that a
  fault costs one record, and TLC agreed with two records to a sector. But the head resumes
  after the last readable record, before every torn slot that follows it, and the writer
  passes them all again: with three records to a sector, two cuts inside a program cost
  three records. A cut costs what is left of the sector, 63 records of 64 at most.
- `BleArb`: the pending attempt is a token. One thread at most has its *turn*, a chain
  with a call still to make that starts, ends or undoes an attempt, and as long as one has,
  `pending` is the client it works for; otherwise the initiator has the token. The
  conclusion holds at every element of every chain, so no order of the threads matters.
  `AgreeInv` follows the wishes the same way: a thread that takes a request back, or
  finishes a scan, has the call that asks again behind it in its chain, so a wish is
  always in one place at least, and an element of a chain only ever moves it to the next.
- `LispCode`: replies do not say what they answer, so the argument counts them. A step
  sends one request and waits; until an acknowledgement is excused, all that is under way,
  on both queues and in the registers, belongs to the current step and to one chunk.
  A request of the phone that changes nothing only delays that; one that writes or erases is
  an excuse (`rival`). This is where a hole was found that the run's bounds hide: the acknowledgements of a
  transfer that was given up while they were under way count for the next one, and
  `DoneMeansStored` was false without its excuse `leftover`. It takes a transfer more than
  the run's two events allow to be combined with.
- `BleOta`: the worker's plan is always the rest of one of four lists, so the step at its
  head says which of them have been taken; `StageInv` says for each head what the stage and
  the state then are, whatever the host has done in between. The host can close the gate
  and never opens it. `GateInv` follows one BEGIN from the phone through the wait of the
  host and the queue to the plan; a second BEGIN is what breaks it, and is the excuse. An app
  whose READY was dropped still waits, with the gate already open (`unheard`).
- `PollTask`: four threads write four flags, so the argument is about what each of them
  has still to write. `PlansInv` keeps the orders that matter: the worker ends its operation
  after it has resumed, the host arms the timer after it has paused and resumes after it has
  disarmed it, the timer task resumes what it pauses. Then a write that switches a poll off
  always leaves somebody who owes the write that switches it on, and paying that debt is the
  only way to lose it. The timer may fire between two writes of the host's pause; that
  drops the record (`phone`) with pauses still to be written, which is the excuse `cut`.

The existence of the free buffer is a pigeonhole argument on `Cardinality(Dests)`; that
`BuffersFor` picks a first one rests on well-founded induction, over strict subsets of
a finite set, from the library.

Only model-checked: all liveness properties and everything that needs ENABLED (the
prover has no rule for them here), and with them the liveness part of `SyncCall`; of
`TripLog`, what `faults` checks without `NoLies`. Every other invariant and action
property of a passing run is a theorem. Properties of what a recursive definition computes
for every input are out of reach as well: the library's induction theorems take an
operator as a parameter, which the provers used here cannot instantiate.

## Disagreements found

The run `retarget` and its entry of "findings": the comment of the target's callback says
that the pollers are re-initialised "and the next poll cycle hits the new node"
(`main.c:349`). Re-initialising the telemetry poll leaves it stopped
(`vesc_rt_data.c:67`), and nothing starts it again until something else happens to.

The modules state further promises of the repository's documents that the code does not
keep. They are in no run; name them in the `.cfg` given here to see the counterexample.

| Property | Add to | What happens |
|---|---|---|
| `OnlyInProgressLost` | `ring` | After a cut inside a program, the next record is written over the half programmed slot (`trip_log.c:475`): reported as written, unreadable for every later scan. The slot stays the one the next boot resumes on until a record after it is readable, so every further cut can cost it again. The header promises that only an in-progress write is lost (`trip_log.c:8`). |
| `LiveTripNeverHidden` | `faults` | `trip_log_delete_trip` compares with the trip id in RAM (`trip_log.c:641`), durable only with the new trip's first record. Reset, delete the old trip, lose power before that record: the deleted trip is live again, and hidden. |
| `OdoNotOverCounted` | `exact`, with `TornReads = TRUE` | A tick that reads the old tachometer with the new uptime (`vesc_ui_updater.c:157`) folds a distance that is counted again. |
| `LinksAreBound` | `preempted` | A sensor that answers just as it is forgotten or replaced gets linked (`ble_cadence_client.c:270`); nothing compares it with the binding, against `ble_cadence_client.h:64`. |
| `StoppedMeansRemoved` | `link` | `comm_can_stop` ignores failures of the driver (`comm_can.c:235`): during a bus-off recovery the driver stays, and every later start fails. |
| `ControllerNotTakenForAdapter` | `blelink` | An id request that outlived its call is answered while the version is awaited; its answer sets the flag the verdict is taken from (`vesc_ble_link.c:661`), and the controller is latched as an adapter, which the comment at line 665 rules out. |
| `StatsAreAsked` | `pollers` | A request for the statistics that finds the poll paused is left to "the periodic poll" (`vesc_lisp_poll.c:75`), which nothing runs. |
| `UndoneIfTransferFails` | `transfer` | A disconnect before the worker has handled BEGIN finds nothing to abort (`ble_ota.c:372`); the worker then boosts the link and parks the sensors for nobody, against `ble_ota.h:44-47`. |

Also met, as the excuses the properties name:

- **Arbiter.** A cancellation that is carried out before the attempt it is meant for hits
  nothing, and the attempt goes out afterwards: unlimited while another client waits, against
  `ble_central_arb.h:12-14` ("linked within ~2 windows"), or on a suspended arbiter, against
  `:57-58` ("suspend cancels any pending connect attempt"). Strike `Missed` out of
  `BothWaitingRotate` or `ParkedIsQuiet` in `preempted` to see it. A refused attempt is rolled
  back and left to "the next GAP event" (`:30`). When an evaluation of another thread has
  backed off for it meanwhile, or when it was refused because its client is already
  connected, there may be no such event, and a waiting client stays without its sensor
  until something else happens; strike `refused` out of `EverySensorLinked` to see it.
- **BLE link.** A controller that lost its two id probes and whose version reply is too
  old to carry the hardware type is latched as an adapter (`:671`): its own polls are
  wrapped and nobody answers them, until the link drops. The comment there says so
  (`Unreported`, `LatchedUnreported`). An id request that outlived its call and is answered
  while the version is awaited makes an adapter of any device (`overtaken`). After one call given up, each later call may be released by the one before
  it, for as long as requests keep coming (`InStep`).
- **Lisp.** A reply to a read, the phone's for instance, that arrives during an upload is
  copied over the script being uploaded (`vesc_lisp_code.c:434`). The bridge forwards a write
  or an erase of the phone's in the middle of an upload (`ble_nus.c:206`), and its
  acknowledgement is taken for the upload's. A changed target moves
  the rest of a transfer to another controller (`:306`). Between `free` and the reset of the
  pointer (`:234`) the second answer to a repeated read is copied into freed memory.
  Acknowledgements of an earlier transfer that arrive late count for the next (`leftover`).
- **Poll task.** When the resume timer fires while the host is pausing, the bridge forgets
  that it paused, and no firing resumes (`cut`). One owner's resume takes away the pause of
  another. A setpoint that arrives while the watchdog sends its zero is booked as stopped;
  that lasts only if the pedal task then hangs (`covered`). A script transfer pauses the polls
  "so the bus is ours" (`vesc_lisp_code.c:186-187`); on a BLE link the probe and the second
  head's poll go on, since they look at no pause (`vesc_rt_data.c:327-329`, `AuxLoop`).
- **Update.** The navigator forgets on a disconnect that it holds a boost (`ble_nav.c:739`), and
  `ble_link_boost_reset` has no caller, so the count is carried to the next link
  (`carried`). Overlapping requests lose a count (`raced`). BEGIN, a timeout, ABORT and
  another BEGIN reopen the gate for data onto a stage that is about to be freed
  (`stacked`, against `ble_ota.c:65-70`). An ABORT that finds the queue full is dropped.
  A scan for sensors that was under way when the update began resumes the arbiter under it
  when it ends (`ble_cadence_client.c:262`, and `:383`, `:395`, `:412`; the other two clients
  alike), against `ble_ota.h:43-45` (`scanned`). A status that finds no buffer, or
  whose notification is refused, is dropped (`ble_ota.c:106-109`): the app then waits until
  its own timeout (`unheard`).

## What is not modelled

Inside the modelled parts:

- Trip log: transient read errors at boot (a sector the coarse pass cannot read is skipped), the clock of a trip, the Ah and energy fields,
  `read_series` and the CSV export (they only read), bit flips.
- Odometer: rounding of floats (distances are integers), Ah and uptime totals.
- BLE: a reset of the host, a torn copy of a 6-byte address, service discovery after the
  connection, the choice of connection intervals. `scan_stop` and `reconnect` have no
  caller in the repository; they are modelled as the API they are.
- CAN: `comm_can_ping` (no caller) and its PONG, STATUS frames, the current and duty
  setters, packets longer than the buffer, the interleaving of two tasks' outgoing
  frames on the bus, and a swap by the timer task during a re-initialisation by the
  LVGL task.

- BLE link: the manual choices of addressing and of the transport, stopping the link or
  forgetting the device, payloads above the size limit; the receive ring is empty
  before a reconnect; the config menu's retry is one of its requests.
- Poll task: lengths of intervals (a loop whose time may have come may skip), the
  contents of polls and of panel actions, an exact age of the setpoint.
- Lisp: the container around the script, progress, a worker that cannot be created.
- Update: a new connection that takes the old one's place without a disconnect, progress
  events, a BEGIN too short to parse, a connection update the stack refuses. Both
  workers yield to the host at every step, and the count read again at
  `ble_link_boost.c:80` is the one just written.

The parts without a model are listed in the [inventory](#parts-without-a-model-yet) with
what would make them correct; the [plan](#plan) orders them.
