------------------------------- MODULE PollTask -------------------------------
(***************************************************************************)
(* The poll task (rt_task in components/vesc_can/vesc_rt_data.c) and those *)
(* who switch its loops off and on again: the worker that transfers a      *)
(* script (vesc_lisp_code.c), the bridge for the phone's transfers         *)
(* (main/ble_nus.c), the swap of the transport and the change of the       *)
(* target (main/main.c), and the screens.  The flags are plain variables,  *)
(* one per loop, written by all of them; no lock, no count of owners.      *)
(*                                                                         *)
(* The same task sends the pedal assist's setpoint on, and zero once it    *)
(* has gone stale (vesc_lisp_panel.c, main/pas.c).                         *)
(*                                                                         *)
(* Intervals are not counted: a loop whose time may have come may skip.    *)
(***************************************************************************)
EXTENDS Naturals, Sequences

CONSTANTS
    MaxTaps,     \* capacity of the queue of tapped actions
    MaxEvents    \* bound: transfers, packets of the phone, swaps, changes of the
                 \* target, taps, screens opened, stats asked for, setpoints

ASSUME PollTaskAssumption == MaxTaps \in Nat \ {0} /\ MaxEvents \in Nat

VARIABLES
    rtOn,        \* s_active of vesc_rt_data
    lispOn,      \* s_active of vesc_lisp_poll
    ioOn,        \* s_active of vesc_io_data
    paused,      \* s_polls_paused of vesc_lisp_panel
    panelOn,     \* s_enabled of vesc_lisp_panel: the drawer is open
    taps,        \* s_action_q
    once,        \* s_once_pending
    codeBusy,    \* s_busy of vesc_lisp_code
    phone,       \* s_pollers_paused of ble_nus
    timer,       \* s_poll_resume_timer is armed
    swaps,       \* swaps of the transport the timer task has still to do
    todo,        \* per thread: the writes it has still to do
    at,          \* where the poll task is
    moved,       \* history: the target was changed since polling was started
    cut,         \* history: the timer fired while the host was pausing
    pas,         \* s_pas_amps, age of s_pas_seen_ms, s_pas_sent_zero
    look,        \* the poll task's copy of it
    pedal,       \* pas_task: whether it runs, was_active
    motor,       \* the last setpoint sent to the controller
    covered,     \* history: the zero sent last was booked on a fresh setpoint
    events       \* how much of the bound is used

flags == <<rtOn, lispOn, ioOn, paused>>
own   == <<codeBusy, phone, timer, swaps, todo, moved, cut>>
ui    == <<panelOn, taps, once>>
ride  == <<pas, look, pedal, motor, covered>>
vars  == <<rtOn, lispOn, ioOn, paused, panelOn, taps, once, codeBusy, phone, timer,
           swaps, todo, at, moved, cut, pas, look, pedal, motor, covered, events>>

Event == events < MaxEvents /\ events' = events + 1

-----------------------------------------------------------------------------
(* Pausing and resuming.  Each is a sequence of writes, by a thread that can *)
(* be preempted between any two of them.                                     *)

\* The worker, the Bluetooth host, the timer task (esp_timer) and the display.
Threads == {"worker", "host", "timer", "ui"}

Pause  == <<"rtOff", "lispOff", "ioOff", "pause">>     \* pause_pollers
Resume == <<"rtOn", "lispOn", "unpause">>              \* resume_pollers

Swap   == <<"rtOff", "pause", "ioOff", "unpause", "rtOn">>  \* vesc_link_swap_cb
Target == <<"rtInit", "lispOff", "ioOff">>             \* on_target_id_changed

Idle(t) == todo[t] = <<>>

\* Mutant of Restarted: polling is not started during an operation on the script.
RestartedUnlessBusy == ~codeBusy

\* vesc_rt_data_start
Restarted == TRUE

\* The next write of thread t.  "resume" is poll_resume_cb, called by the host.
Write(t) ==
    /\ ~Idle(t)
    /\ LET w == Head(todo[t])
       IN  /\ rtOn'   = CASE w \in {"rtOff", "rtInit"} -> FALSE
                          [] w = "rtOn" -> Restarted
                          [] OTHER -> rtOn
           /\ lispOn' = ((lispOn \/ w = "lispOn") /\ w # "lispOff")
           /\ ioOn'   = (ioOn /\ w # "ioOff")
           /\ paused' = ((paused \/ w = "pause") /\ w # "unpause")
           /\ moved'  = ((moved \/ w = "rtInit") /\ w # "rtOn")
           /\ codeBusy' = (codeBusy /\ w # "done")
           /\ timer'  = ((timer \/ w = "arm") /\ w # "disarm")
           /\ phone'  = (phone /\ w # "resume")
           /\ todo'   = [todo EXCEPT ![t] =
                            IF w = "resume" /\ phone THEN Resume \o Tail(@) ELSE Tail(@)]
    /\ UNCHANGED <<swaps, cut, at, ui, ride, events>>

Does(t, writes) == Idle(t) /\ todo' = [todo EXCEPT ![t] = writes]

\* An operation on the script starts, and has finished.
CodeStarts ==
    /\ ~codeBusy
    /\ Event
    /\ Does("worker", Pause) /\ codeBusy' = TRUE
    /\ UNCHANGED <<flags, phone, timer, swaps, moved, cut, at, ui, ride>>

CodeEnds ==
    /\ codeBusy
    /\ Does("worker", Resume \o <<"done">>)
    /\ UNCHANGED <<flags, codeBusy, phone, timer, swaps, moved, cut, at, ui, ride, events>>

\* lisp_transfer_touch: a packet of a transfer by the phone.
PhonePacket ==
    /\ Event
    /\ Does("host", (IF phone THEN <<>> ELSE Pause) \o <<"arm">>)
    /\ phone' = TRUE
    /\ UNCHANGED <<flags, codeBusy, timer, swaps, moved, cut, at, ui, ride>>

\* Mutant of PhoneLeaves: the timer is stopped and nothing resumed.
PhoneLeavesPaused ==
    /\ phone \/ timer
    /\ Does("host", <<"disarm">>)
    /\ UNCHANGED <<flags, codeBusy, phone, timer, swaps, moved, cut, at, ui, ride, events>>

\* ble_nus_on_disconnect
PhoneLeaves ==
    /\ phone \/ timer
    /\ Does("host", <<"disarm", "resume">>)
    /\ UNCHANGED <<flags, codeBusy, phone, timer, swaps, moved, cut, at, ui, ride, events>>

\* The phone has sent nothing for three seconds.  The timer task outranks the
\* host on their core: poll_resume_cb decides as soon as the timer has fired.
TimerFires ==
    /\ timer /\ timer' = FALSE
    /\ phone' = FALSE
    /\ Does("timer", IF phone THEN Resume ELSE <<>>)
    /\ cut' = (cut \/ (phone /\ Len(todo["host"]) > 1))
    /\ UNCHANGED <<flags, codeBusy, swaps, moved, at, ui, ride, events>>

\* on_vesc_link_changed hands the swap to the timer task.
LinkChanged ==
    /\ Event
    /\ swaps' = swaps + 1
    /\ UNCHANGED <<flags, codeBusy, phone, timer, todo, moved, cut, at, ui, ride>>

Swaps ==
    /\ swaps > 0 /\ swaps' = swaps - 1
    /\ Does("timer", Swap)
    /\ UNCHANGED <<flags, codeBusy, phone, timer, moved, cut, at, ui, ride, events>>

TargetChanged ==
    /\ Event
    /\ Does("ui", Target)
    /\ UNCHANGED <<flags, codeBusy, phone, timer, swaps, moved, cut, at, ui, ride>>

-----------------------------------------------------------------------------
(* Screens and the web editor *)

\* The realtime viewer is opened or closed.
Viewer ==
    /\ Event /\ Idle("ui")
    /\ ioOn' \in BOOLEAN
    /\ UNCHANGED <<rtOn, lispOn, paused, own, at, ui, ride>>

\* vesc_lisp_panel_set_enabled
Drawer ==
    /\ Event /\ Idle("ui")
    /\ panelOn' = ~panelOn
    /\ UNCHANGED <<flags, own, at, taps, once, ride>>

\* vesc_lisp_panel_send_action: dropped when the queue is full.
Tap ==
    /\ Event /\ Idle("ui") /\ panelOn
    /\ taps' = IF taps < MaxTaps THEN taps + 1 ELSE taps
    /\ UNCHANGED <<flags, own, at, panelOn, once, ride>>

\* vesc_lisp_poll_request_once
AsksStats ==
    /\ Event
    /\ once' = TRUE
    /\ UNCHANGED <<flags, own, at, panelOn, taps, ride>>

-----------------------------------------------------------------------------
(* One pass of the poll task: each loop looks at its flag, and sends.  The    *)
(* link is up.                                                                *)

Goes(from, to) == at = from /\ at' = to

Same == UNCHANGED <<flags, own, ride, events>>

\* vesc_rt_data_loop
RtLoop   == /\ \/ Goes("rt", "once")
               \/ rtOn /\ Goes("rt", "rtSends")
               \/ Goes("rtSends", "once")
            /\ UNCHANGED ui /\ Same

\* vesc_lisp_poll_once_loop
OnceLoop == /\ \/ ~once /\ Goes("once", "io") /\ UNCHANGED once
               \/ once /\ lispOn /\ Goes("once", "io") /\ once' = FALSE
               \/ once /\ ~lispOn /\ codeBusy /\ Goes("once", "io") /\ UNCHANGED once
               \/ once /\ ~lispOn /\ ~codeBusy /\ Goes("once", "onceSends") /\ once' = FALSE
               \/ Goes("onceSends", "io") /\ UNCHANGED once
            /\ UNCHANGED <<panelOn, taps>> /\ Same

\* vesc_io_data_loop: two requests on one look at the flag.
IoLoop   == /\ \/ Goes("io", "dash")
               \/ ioOn /\ Goes("io", "adcSends")
               \/ Goes("adcSends", "ppmSends")
               \/ Goes("ppmSends", "dash")
            /\ UNCHANGED ui /\ Same

DashMay  == ~paused

\* vesc_lisp_panel_dash_loop
DashLoop == /\ \/ Goes("dash", "panel")
               \/ DashMay /\ Goes("dash", "dashSends")
               \/ Goes("dashSends", "panel")
            /\ UNCHANGED ui /\ Same

\* vesc_lisp_panel_poll_loop: what was tapped, then the descriptor or state.
PanelLoop == /\ \/ (~panelOn \/ paused) /\ Goes("panel", "pas") /\ UNCHANGED taps
                \/ panelOn /\ ~paused /\ Goes("panel", "panelSends") /\ UNCHANGED taps
                \/ taps > 0 /\ Goes("panelSends", "panelSends") /\ taps' = taps - 1
                \/ taps = 0 /\ Goes("panelSends", "pas") /\ UNCHANGED taps
             /\ UNCHANGED <<panelOn, once>> /\ Same

\* The loops registered in main.c: the probe of the Bluetooth link
\* (vesc_ble_link.c) and, after it, the second head's temperatures (vesc_head2.c).
\* Both send on a Bluetooth link only, and look at none of the flags.
AuxLoop == /\ \/ at = "probe" /\ at' \in {"probeSends", "headSends", "rt"}
              \/ at = "probeSends" /\ at' \in {"headSends", "rt"}
              \/ Goes("headSends", "rt")
           /\ UNCHANGED ui /\ Same

Sending == {"rtSends", "onceSends", "adcSends", "ppmSends", "dashSends", "panelSends",
            "probeSends", "headSends"}

-----------------------------------------------------------------------------
(* Pedal assist *)

\* Mutant of SetPas: fresh data does not re-arm the watchdog.
SetPasUnarmed(amps) == pas' = [pas EXCEPT !.amps = amps, !.age = "fresh"]

\* vesc_lisp_panel_set_pas
SetPas(amps) == pas' = [amps |-> amps, age |-> "fresh", zeroed |-> FALSE]

\* A tick of pas_task: while there is torque to command, and once after.
PasTick ==
    /\ pedal.runs
    /\ \E amps \in {0, 1} :
          /\ IF amps > 0 THEN Event ELSE UNCHANGED events
          /\ amps > 0 \/ pedal.wasActive
          /\ SetPas(amps)
          /\ pedal' = [pedal EXCEPT !.wasActive = (amps > 0)]
    /\ covered' = FALSE
    /\ UNCHANGED <<flags, own, ui, at, look, motor>>

\* The task hangs for good.
PasHangs ==
    /\ Event
    /\ pedal' = [pedal EXCEPT !.runs = FALSE]
    /\ UNCHANGED <<flags, own, ui, at, pas, look, motor, covered>>

\* VLP_PAS_WATCHDOG_MS have passed since the last setpoint.
PasAges ==
    /\ pas.age = "fresh"
    /\ pas' = [pas EXCEPT !.age = "stale"]
    /\ UNCHANGED <<flags, own, ui, at, look, pedal, motor, covered, events>>

\* No setpoint has been seen.
NoLook == [amps |-> 0, age |-> "never", zeroed |-> FALSE]

\* vesc_lisp_panel_pas_loop: it looks under the lock, and sends after.
PasLooks ==
    /\ at = "pas"
    /\ at' = CASE pas.age = "fresh" -> "pasSends"
               [] pas.age = "stale" /\ ~pas.zeroed -> "zeroSends"
               [] OTHER -> "probe"
    /\ look' = IF at' = "probe" THEN NoLook ELSE pas
    /\ UNCHANGED <<flags, own, ui, pas, pedal, motor, covered, events>>

\* Fresh: sent again, unless it was sent less than VLP_PAS_SEND_MS ago.
PasSends ==
    /\ Goes("pasSends", "probe")
    /\ motor' \in {motor, look.amps}
    /\ look' = NoLook
    /\ UNCHANGED <<flags, own, ui, pas, pedal, covered, events>>

ZeroSends ==
    /\ Goes("zeroSends", "zeroBooks")
    /\ motor' = 0
    /\ UNCHANGED <<flags, own, ui, pas, look, pedal, covered, events>>

\* The zero is booked, on whatever setpoint is there by now.
ZeroBooks ==
    /\ Goes("zeroBooks", "probe")
    /\ pas' = [pas EXCEPT !.zeroed = TRUE]
    /\ covered' = (pas # look)
    /\ look' = NoLook
    /\ UNCHANGED <<flags, own, ui, pedal, motor, events>>

-----------------------------------------------------------------------------
Init ==
    /\ rtOn = TRUE
    /\ lispOn \in BOOLEAN        \* CONFIG_VESC_CAN_LISP_POLL_ENABLE
    /\ ioOn = FALSE /\ paused = FALSE
    /\ panelOn = FALSE /\ taps = 0 /\ once = FALSE
    /\ codeBusy = FALSE /\ phone = FALSE /\ timer = FALSE /\ swaps = 0
    /\ todo = [t \in Threads |-> <<>>]
    /\ at = "rt" /\ moved = FALSE /\ cut = FALSE
    /\ pas = NoLook /\ look = NoLook
    /\ pedal = [runs |-> TRUE, wasActive |-> FALSE]
    /\ motor = 0 /\ covered = FALSE
    /\ events = 0

Owners == \/ CodeStarts \/ CodeEnds \/ PhonePacket \/ PhoneLeaves \/ TimerFires
          \/ LinkChanged \/ Swaps \/ TargetChanged
Screens == Viewer \/ Drawer \/ Tap \/ AsksStats
PasLoop == PasLooks \/ PasSends \/ ZeroSends \/ ZeroBooks
Pass    == RtLoop \/ OnceLoop \/ IoLoop \/ DashLoop \/ PanelLoop \/ PasLoop \/ AuxLoop

Next == Pass \/ (\E t \in Threads : Write(t)) \/ Owners \/ Screens
            \/ PasTick \/ PasHangs \/ PasAges

\* The tasks are scheduled, operations on the script end (LispCode), timers
\* fire, time passes.  Nothing obliges the phone or the user.
Fairness ==
    /\ WF_vars(Pass) /\ \A t \in Threads : WF_vars(Write(t))
    /\ WF_vars(CodeEnds) /\ WF_vars(TimerFires) /\ WF_vars(Swaps)
    /\ WF_vars(PasTick) /\ WF_vars(PasAges)

Spec     == Init /\ [][Next]_vars
FairSpec == Spec /\ Fairness

-----------------------------------------------------------------------------
(* Properties *)

TypeOK ==
    /\ {rtOn, lispOn, ioOn, paused, panelOn, once, codeBusy, phone, timer, moved,
        cut, covered} \subseteq BOOLEAN
    /\ taps \in 0 .. MaxTaps /\ swaps \in 0 .. MaxEvents
    /\ todo \in [Threads -> Seq({"rtOff", "lispOff", "ioOff", "pause", "rtOn", "lispOn",
                                 "unpause", "rtInit", "arm", "disarm", "resume", "done"})]
    /\ at \in Sending \cup {"rt", "once", "io", "dash", "panel", "pas", "pasSends",
                            "zeroSends", "zeroBooks", "probe"}
    /\ {pas, look} \subseteq [amps : {0, 1}, age : {"never", "fresh", "stale"},
                              zeroed : BOOLEAN]
    /\ pedal \in [runs : BOOLEAN, wasActive : BOOLEAN] /\ motor \in {0, 1}
    /\ phone /\ Idle("host") /\ Idle("timer") => timer
    /\ events \in 0 .. MaxEvents

\* However the pauses of the worker, the phone, its disconnection, its timer
\* and a swap overlap: once all are done the dashboard is polled again
\* (ble_nus.c:324-325, vesc_lisp_code.c:187).  Two holes: a change of the target
\* stops the telemetry for good; and when the timer fires while the host pauses,
\* the bridge forgets that it has paused, and no later firing resumes.
PollsComeBack ==
    (\A t \in Threads : Idle(t)) /\ ~codeBusy /\ ~phone /\ swaps = 0 =>
        cut \/ (~paused /\ (rtOn \/ moved))

\* Every pause of a phone that sends no more, or has gone, comes to its end
\* (ble_nus.c:134-137).
PhoneLetsGo == phone ~> ~phone

\* When the rider stops, or the task that commands the current hangs, the last
\* setpoint the controller was sent becomes zero and stays it
\* (vesc_lisp_panel.c:186-189, pas.c:200-203).  The hole: a setpoint that
\* arrives while the watchdog sends its zero, and is the last one.
CoastCommanded ==
    <>[](motor = 0 \/ (covered /\ ~pedal.runs))

\* main.c:347-349, "we just re-init them and the next poll cycle hits the new
\* node".
TargetChangeKeepsPolling ==
    (\A t \in Threads : Idle(t)) /\ ~codeBusy /\ ~phone /\ swaps = 0 => rtOn

\* vesc_lisp_poll.c:75, "periodic poll covers it": a request for the statistics
\* is answered by a poll.
StatsAreAsked == [][once /\ ~once' => at' = "onceSends"]_vars
=============================================================================
