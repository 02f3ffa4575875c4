-------------------------------- MODULE BleOta --------------------------------
(***************************************************************************)
(* The firmware update over Bluetooth (main/ble_ota.c) next to the         *)
(* navigator (main/ble_nav.c), which shares the boost of the phone's link  *)
(* with it.  The host task takes what the phone writes, stages the image   *)
(* and queues events; the update's worker allocates, verifies, flashes and *)
(* answers.  The host outranks both workers and runs on their core: it     *)
(* preempts them between any two steps, they never preempt it, except      *)
(* where it blocks on the full queue.                                      *)
(*                                                                         *)
(* The phone runs the companion app (bleOta in ble_service.dart): one      *)
(* attempt after the other, each of them BEGIN, the image, END.  Radio and *)
(* flash are external.                                                     *)
(***************************************************************************)
EXTENDS LinkBoost, Integers, Sequences

CONSTANTS
    Sizes,       \* the images the app has for this device, in data writes
    Slot,        \* size of the update partition
    MaxQueue,    \* length of s_q
    MaxBegins,   \* bound: updates the phone starts
    MaxDrops,    \* bound: times the phone disconnects
    MaxOthers    \* bound: tiles and views for the navigator, scans for sensors, and
                 \* data writes the app repeats that had gone out

ASSUME BleOtaAssumption ==
    /\ Sizes \subseteq Nat /\ Slot \in Nat /\ MaxQueue \in Nat \ {0}
    /\ MaxBegins \in Nat /\ MaxDrops \in Nat /\ MaxOthers \in Nat

VARIABLES
    state,    \* s_state
    stage,    \* s_stage: what it holds, or Freed
    total,    \* s_total
    recv,     \* s_recv
    sha,      \* s_sha: what has been hashed
    expect,   \* s_expect_sha: the image it belongs to
    queue,    \* s_q
    todo,     \* what the worker has still to do for its event
    boot,     \* what the boot partition holds of an update, the image announced
    blocked,  \* the event the host is waiting to queue
    frames,   \* s_q of the navigator
    phone,    \* the app: what it waits for, its image, what it has sent of it
    unheard,  \* history: the status the app waits for was not sent
    missed,   \* history: the last disconnect found nothing to abort
    stacked,  \* history: an update was begun before the previous BEGIN was handled
    wild,     \* history: a data write hit memory that had been freed
    carried,  \* history: this link came while the last one's boosts were counted
    used      \* how much of each bound is used

ota  == <<state, stage, total, recv, sha, expect>>
app  == <<phone, unheard>>
past == <<missed, stacked, wild, carried>>
vars == <<refs, scanRefs, parked, fast, linkUp, boosted, request, raced, scans,
          scanned, state, stage, total, recv, sha, expect, queue, todo, boot, blocked,
          frames, phone, unheard, missed, stacked, wild, carried, used>>

Freed == <<-1>>
Image(n) == [i \in 1 .. n |-> i]

NoPhone == [st |-> "idle", n |-> 0, sent |-> 0]
Begin(n) == [kind |-> "begin", n |-> n]
Event(k) == [kind |-> k, n |-> 0]

Bounded == {"begins", "drops", "others"}
Spent == [begins |-> MaxBegins, drops |-> MaxDrops, others |-> MaxOthers]
Uses(bound, max) == used[bound] < max /\ used' = [used EXCEPT ![bound] = @ + 1]

-----------------------------------------------------------------------------
(* The queue *)

Full == Len(queue) >= MaxQueue

\* xQueueSend with no timeout: dropped if there is no room.
Offer(e) == queue' = IF Full THEN queue ELSE Append(queue, e)

\* xQueueSend that waits: the host goes on when there is room.
Post(e) ==
    IF Full THEN blocked' = <<e>> /\ UNCHANGED queue
            ELSE queue' = Append(queue, e) /\ UNCHANGED blocked

HostFree == blocked = <<>>

HostUnblocks ==
    /\ ~HostFree /\ ~Full
    /\ queue' = queue \o blocked
    /\ blocked' = <<>>
    /\ UNCHANGED <<boost, linkUp, ota, todo, boot, frames, app, past, used>>

-----------------------------------------------------------------------------
(* The host task: what the phone writes *)

BeginPending == \/ \E i \in 1 .. Len(queue) : queue[i].kind = "begin"
                \/ todo # <<>> /\ todo[Len(todo)] = "ready"

\* The app starts an attempt: OTA_OP_BEGIN.
WriteBegin ==
    /\ HostFree /\ linkUp /\ phone.st = "idle" /\ Uses("begins", MaxBegins)
    /\ \E n \in Sizes :
          /\ Post(Begin(n))
          /\ phone' = [st |-> "asked", n |-> n, sent |-> 0] /\ unheard' = FALSE
    /\ state' = "idle"
    /\ stacked' = (stacked \/ BeginPending)
    /\ UNCHANGED <<boost, linkUp, stage, total, recv, sha, expect, todo, boot, frames,
                   missed, wild, carried>>

\* OTA_OP_END, once the whole image is out.
WriteEnd ==
    /\ HostFree /\ linkUp /\ phone.st = "streaming" /\ phone.sent = phone.n
    /\ Post(Event("finalize"))
    /\ phone' = [NoPhone EXCEPT !.st = "ended"]
    /\ UNCHANGED <<boost, linkUp, ota, todo, boot, frames, unheard, past, used>>

\* No answer to BEGIN or END in time: OTA_OP_ABORT.  The app may try again.
WriteAbort ==
    /\ HostFree /\ linkUp /\ phone.st \in {"asked", "ended"}
    /\ Offer(Event("abort"))
    /\ phone' = NoPhone /\ unheard' = FALSE
    /\ UNCHANGED <<boost, linkUp, ota, todo, boot, blocked, frames, past, used>>

\* A data write fails on the phone: the attempt ends, and the device is not told.
PhoneFails ==
    /\ phone.st = "streaming"
    /\ phone' = NoPhone
    /\ UNCHANGED <<boost, linkUp, ota, queue, todo, boot, blocked, frames, unheard,
                   past, used>>

Overflows == recv + 1 > total

\* ble_ota_data_write.  (A data write that reaches no memory of its own is
\* recorded in `wild'; its progress event is left out: the worker only shows it.)
Takes(c) ==
    \/ state # "receiving" /\ UNCHANGED <<ota, queue, wild>>
    \/ /\ state = "receiving" /\ Overflows
       /\ state' = "failed"
       /\ Offer(Event("fail"))
       /\ UNCHANGED <<stage, total, recv, sha, expect, wild>>
    \/ /\ state = "receiving" /\ ~Overflows
       /\ stage' = IF stage = Freed THEN Freed ELSE Append(stage, c)
       /\ sha' = Append(sha, c)
       /\ recv' = recv + 1
       /\ wild' = (wild \/ stage = Freed)
       /\ UNCHANGED <<state, total, expect, queue>>

\* The app sends the next write, and again when the phone's stack says it is busy
\* although the write went out.
WriteData ==
    /\ HostFree /\ linkUp /\ phone.st = "streaming" /\ phone.sent < phone.n
    /\ Takes(phone.sent + 1)
    /\ \/ phone' = [phone EXCEPT !.sent = @ + 1] /\ UNCHANGED used
       \/ Uses("others", MaxOthers) /\ UNCHANGED phone
    /\ UNCHANGED <<boost, linkUp, todo, boot, blocked, frames, unheard, missed, stacked,
                   carried>>

-----------------------------------------------------------------------------
(* The host task: the link *)

\* ble_ota_set_link, ble_nav_set_link
Connect ==
    /\ HostFree /\ ~linkUp
    /\ linkUp' = TRUE
    /\ fast' = FALSE
    /\ boosted' = [boosted EXCEPT !["nav"] = FALSE]
    /\ carried' = (refs > 0 \/ ~Settled)
    /\ missed' = FALSE
    /\ UNCHANGED <<refs, scanRefs, parked, request, raced, scans, scanned, ota, queue,
                   todo, boot, blocked, frames, app, stacked, wild, used>>

\* Does the disconnect end an update?
Abandons == state = "receiving"

\* An update the disconnect ought to end and does not: its BEGIN is not handled
\* yet, it has been begun again, or there is no room for the event.
Misses == IF Abandons THEN Full
          ELSE state # "finalizing" /\ (boosted["ota"] \/ BeginPending)

\* ble_ota_on_disconnect, ble_nav_on_disconnect
Disconnect ==
    /\ HostFree /\ linkUp /\ Uses("drops", MaxDrops)
    /\ linkUp' = FALSE
    /\ fast' = FALSE
    /\ phone' = NoPhone /\ unheard' = FALSE
    /\ IF Abandons THEN Offer(Event("abort")) ELSE UNCHANGED queue
    /\ missed' = Misses
    /\ boosted' = [boosted EXCEPT !["nav"] = FALSE]
    /\ frames' = IF Len(frames) < MaxQueue THEN Append(frames, "stop") ELSE frames
    /\ UNCHANGED <<refs, scanRefs, parked, request, raced, scans, scanned, ota, todo,
                   boot, blocked, stacked, wild, carried>>

-----------------------------------------------------------------------------
(* The worker *)

\* Mutant of BeginSteps: the phone is told at once.
BeginStepsEager == <<"idle", "ready", "receiving", "free", "zero", "alloc", "boost", "ready">>

BeginSteps == <<"free", "zero", "idle", "alloc", "receiving", "boost", "ready">>
Cleared    == <<"free", "zero", "idle">>
\* Mutant of AbortSteps: the link is left as it is.
AbortStepsOnly == Cleared
AbortSteps == <<"free", "zero", "idle", "unboost">>
FinalizeSteps ==
    <<"gate", "unboost", "check", "flash", "free", "zero", "idle", "done", "restart">>

\* What a status does to the app.  While it streams it does not listen.
Told(status) ==
    CASE status = "ready" /\ phone.st = "asked" -> [phone EXCEPT !.st = "streaming"]
      [] status # "ready" /\ phone.st \in {"asked", "ended"} -> NoPhone
      [] OTHER -> phone

\* notify_status: without a link, without memory or when the notification is
\* refused, the status is dropped, and nothing sends it again.
Tells(status) ==
    \/ /\ linkUp
       /\ phone' = Told(status)
       /\ unheard' = (unheard /\ phone' = phone)
    \/ /\ linkUp
       /\ unheard' = (unheard \/ Told(status) # phone)
       /\ UNCHANGED phone
    \/ ~linkUp /\ UNCHANGED app

\* The worker takes the next event.  `expect' of a BEGIN is noted here, the
\* worker copies it with the length.
TakeEvent ==
    /\ todo = <<>> /\ queue # <<>>
    /\ queue' = Tail(queue)
    /\ LET e == Head(queue)
       IN  \/ /\ e.kind = "begin"
              /\ todo' = BeginSteps
              /\ expect' = Image(e.n)
              /\ UNCHANGED app
           \/ /\ e.kind = "finalize"
              /\ todo' = FinalizeSteps
              /\ UNCHANGED <<expect, app>>
           \/ /\ e.kind \in {"abort", "fail"}
              /\ todo' = AbortSteps
              /\ IF e.kind = "fail" THEN Tells("error") ELSE UNCHANGED app
              /\ UNCHANGED expect
    /\ UNCHANGED <<boost, linkUp, state, stage, total, recv, sha, boot, blocked, frames,
                   past, used>>

Doing(w) == todo # <<>> /\ Head(todo) = w /\ ~Calling("ota")
Done == todo' = Tail(todo)

\* Mutant of GivesUp: the phone is not told.
GivesUpSilently(steps) == todo' = steps /\ UNCHANGED app

\* An error inside the event: the phone is told, the worker gives up.
GivesUp(steps) == todo' = steps /\ Tells("error")

Rest == <<queue, blocked, frames, past, used>>

\* stage_free: the buffer first, the numbers after it.
FreeStage ==
    /\ Doing("free") /\ Done
    /\ stage' = Freed
    /\ UNCHANGED <<boost, linkUp, state, total, recv, sha, expect, boot, app, Rest>>

ZeroStage ==
    /\ Doing("zero") /\ Done
    /\ total' = 0 /\ recv' = 0 /\ sha' = <<>>
    /\ UNCHANGED <<boost, linkUp, state, stage, expect, boot, app, Rest>>

ToIdle ==
    /\ Doing("idle") /\ Done
    /\ state' = "idle"
    /\ UNCHANGED <<boost, linkUp, stage, total, recv, sha, expect, boot, app, Rest>>

\* No partition, a size that does not fit, no memory, or a stage for the image.
\* (Nothing is staged while the state is not receiving, so the steps up to the
\* next change of state are taken at once.)
Alloc ==
    /\ Doing("alloc")
    /\ \/ /\ Len(expect) \in 1 .. Slot
          /\ stage' = <<>> /\ sha' = <<>> /\ total' = Len(expect) /\ recv' = 0
          /\ Done /\ UNCHANGED app
       \/ /\ GivesUp(<<>>)
          /\ UNCHANGED <<stage, sha, total, recv>>
    /\ UNCHANGED <<boost, linkUp, state, expect, boot, Rest>>

ToReceiving ==
    /\ Doing("receiving") /\ Done
    /\ state' = "receiving"
    /\ UNCHANGED <<boost, linkUp, stage, total, recv, sha, expect, boot, app, Rest>>

Boost ==
    /\ \/ Doing("boost") /\ Ask("ota", TRUE)
       \/ Doing("unboost") /\ Ask("ota", FALSE)
    /\ Done
    /\ UNCHANGED <<ota, boot, app, Rest>>

Ready ==
    /\ Doing("ready") /\ Done
    /\ Tells("ready")
    /\ UNCHANGED <<boost, linkUp, ota, boot, Rest>>

\* do_finalize: only a transfer in progress can end.
Gate ==
    /\ Doing("gate")
    /\ IF state # "receiving" THEN GivesUp(<<>>) /\ UNCHANGED state
       ELSE state' = "finalizing" /\ Done /\ UNCHANGED app
    /\ UNCHANGED <<boost, linkUp, stage, total, recv, sha, expect, boot, Rest>>

\* Mutant of Matches: the digest is not compared.
MatchesAny == recv = total

Matches == recv = total /\ sha = expect

Check ==
    /\ Doing("check")
    /\ IF Matches THEN Done /\ UNCHANGED app ELSE GivesUp(Cleared)
    /\ UNCHANGED <<boost, linkUp, ota, boot, Rest>>

\* esp_ota_begin, esp_ota_write, esp_ota_end and esp_ota_set_boot_partition: any
\* of them may fail, and only the last one touches what the device boots.
Flash ==
    /\ Doing("flash")
    /\ \/ /\ boot' = [image |-> stage, announced |-> expect]
          /\ Done /\ UNCHANGED app
       \/ GivesUp(Cleared) /\ UNCHANGED boot
    /\ UNCHANGED <<boost, linkUp, ota, Rest>>

SayDone ==
    /\ Doing("done") /\ Done
    /\ Tells("done")
    /\ UNCHANGED <<boost, linkUp, ota, boot, Rest>>

\* esp_restart.  What follows is what Init allows, and is not explored again.
Restart ==
    /\ Doing("restart")
    /\ state' = "idle" /\ stage' = Freed /\ total' = 0 /\ recv' = 0
    /\ sha' = <<>> /\ expect' = <<>>
    /\ queue' = <<>> /\ todo' = <<>> /\ blocked' = <<>> /\ frames' = <<>>
    /\ linkUp' = FALSE /\ phone' = NoPhone /\ unheard' = FALSE
    /\ missed' = FALSE /\ stacked' = FALSE /\ wild' = FALSE /\ carried' = FALSE
    /\ BoostReset
    /\ used' = Spent
    /\ UNCHANGED boot

Worker == \/ TakeEvent \/ FreeStage \/ ZeroStage \/ ToIdle \/ Alloc \/ ToReceiving
          \/ Boost \/ Ready \/ Gate \/ Check \/ Flash \/ SayDone \/ Restart

\* ble_link_boost_request, for a user
Boosts(u) ==
    /\ GoesOn(u)
    /\ missed' = (missed /\ (scanRefs' > 0 \/ scanRefs = 0 \/ BeginPending))
    /\ carried' = (carried /\ refs' > 0)
    /\ UNCHANGED <<ota, queue, todo, boot, blocked, frames, app, stacked, wild, used>>

-----------------------------------------------------------------------------
(* The navigator *)

\* A tile or a view arrives.  (That the app says it stops is NavIdles.)
WriteFrame ==
    /\ HostFree /\ linkUp /\ Len(frames) < MaxQueue /\ Uses("others", MaxOthers)
    /\ frames' = Append(frames, "frame")
    /\ UNCHANGED <<boost, linkUp, ota, queue, todo, boot, blocked, app, past>>

\* The navigator's worker takes it.
NavTakes ==
    /\ frames # <<>>
    /\ \/ Head(frames) = "frame" /\ Ask("nav", TRUE)
       \/ Head(frames) = "stop" /\ Ask("nav", FALSE)
    /\ frames' = Tail(frames)
    /\ UNCHANGED <<ota, queue, todo, boot, blocked, app, past, used>>

\* Nothing arrived for a while.
NavIdles ==
    /\ frames = <<>> /\ boosted["nav"]
    /\ Ask("nav", FALSE)
    /\ UNCHANGED <<ota, queue, todo, boot, blocked, frames, app, past, used>>

-----------------------------------------------------------------------------
(* The clients of the sensors, which the rider has scan from the settings *)

Scans ==
    /\ ScanStarts /\ Uses("others", MaxOthers)
    /\ UNCHANGED <<ota, queue, todo, boot, blocked, frames, app, past>>

ScanIsOver ==
    /\ ScanEnds
    /\ UNCHANGED <<ota, queue, todo, boot, blocked, frames, app, past, used>>

-----------------------------------------------------------------------------
Init ==
    /\ state = "idle" /\ stage = Freed /\ total = 0 /\ recv = 0 /\ sha = <<>> /\ expect = <<>>
    /\ queue = <<>> /\ todo = <<>> /\ blocked = <<>> /\ frames = <<>>
    /\ linkUp = FALSE /\ phone = NoPhone /\ unheard = FALSE
    /\ missed = FALSE /\ stacked = FALSE /\ wild = FALSE /\ carried = FALSE
    /\ BoostInit
    /\ boot = [image |-> <<>>, announced |-> <<>>]
    /\ used = [b \in Bounded |-> 0]

Next ==
    \/ WriteBegin \/ WriteEnd \/ WriteAbort \/ PhoneFails \/ WriteData \/ HostUnblocks
    \/ Connect \/ Disconnect \/ WriteFrame
    \/ Worker \/ NavTakes \/ NavIdles
    \/ \E u \in Users : Boosts(u)
    \/ Scans \/ ScanIsOver

Spec == Init /\ [][Next]_vars

\* The worker or the waiting host goes on, a scan lasts half a minute at most.
\* Nothing makes the phone go on, and nothing here waits for the navigator.
FairSpec == Spec /\ WF_vars(Worker \/ Boosts("ota") \/ HostUnblocks) /\ WF_vars(ScanIsOver)

-----------------------------------------------------------------------------
(* Properties *)

Events == {Begin(n) : n \in Sizes} \cup {Event(k) : k \in {"finalize", "abort", "fail"}}
Steps  == {"free", "zero", "idle", "alloc", "receiving", "boost", "ready", "unboost",
           "gate", "check", "flash", "done", "restart"}

TypeOK ==
    /\ BoostTypeOK
    /\ state \in {"idle", "receiving", "finalizing", "failed"}
    /\ stage \in Seq(Int) /\ sha \in Seq(Int) /\ expect \in Seq(Int)
    /\ stage = Freed \/ Len(stage) <= Slot
    /\ total \in Sizes \cup {0} /\ recv \in 0 .. total
    /\ todo \in Seq(Steps) /\ scanRefs <= 1
    /\ queue \in Seq(Events) /\ Len(queue) <= MaxQueue
    /\ blocked \in Seq(Events) /\ Len(blocked) <= 1
    /\ frames \in Seq({"frame", "stop"}) /\ Len(frames) <= MaxQueue
    /\ phone \in [st : {"idle", "asked", "streaming", "ended"}, n : Nat, sent : Nat]
    /\ boot \in [image : Seq(Int), announced : Seq(Int)]
    /\ unheard \in BOOLEAN /\ missed \in BOOLEAN /\ stacked \in BOOLEAN /\ wild \in BOOLEAN
    /\ carried \in BOOLEAN
    /\ used \in [Bounded -> Nat]

\* What the device boots after an update is the whole image the phone announced:
\* no interleaving of a second BEGIN, a late data write or a disconnect lets
\* parts of two transfers be taken for one (do_finalize).
BootedIsAnnounced == boot.image = boot.announced

\* A data write reaches only memory allocated for its transfer, unless the app
\* began again before its previous BEGIN was handled: the gate the host closes for
\* the second is then opened by the first, while ABORT and the second BEGIN still
\* wait to free its stage (ble_ota_ctrl_write, do_begin).
WritesStayInStage == wild => stacked

\* While the phone streams an image, the link was asked to be fast and the sensors
\* leave the radio alone.  The exceptions: two requests overlapped, or boosts of
\* the previous link were still counted when this one came (nobody calls
\* ble_link_boost_reset), until the count is zero again; and the end of a scan
\* resumes the arbiter under the update, but takes nothing else from it.
StreamsFast ==
    /\ phone.st = "streaming" /\ linkUp /\ state = "receiving" /\ Settled
    /\ todo = <<>>
    /\ ~raced /\ ~carried
    => fast /\ (parked \/ scanned)

\* Once the phone has gone, the sensors get the radio back.  The exception is a
\* disconnect that found nothing to abort.
SensorsComeBack == (~linkUp /\ parked) ~> (linkUp \/ ~parked \/ missed)

\* The same without the exception: ble_ota.h promises that the fast interval and
\* the parked arbiter "are undone if the transfer fails".
UndoneIfTransferFails == (~linkUp /\ parked) ~> (linkUp \/ ~parked)

\* Every BEGIN and every END of a phone that stays connected is answered, even if
\* the host had to wait for room in the queue, unless the status that answers it
\* is the one that was dropped.
PhoneIsAnswered ==
    phone.st \in {"asked", "ended"} ~>
        (phone.st \in {"idle", "streaming"} \/ ~linkUp \/ unheard)
=============================================================================
