---------------------------- MODULE PollTaskProofs ----------------------------
(***************************************************************************)
(* The poll task, for any number of things happening to it: who pauses the *)
(* polls has its resume before it, and no loop starts to poll while they   *)
(* are paused.                                                             *)
(***************************************************************************)
EXTENDS PollTask, SequenceTheorems, TLAPS

-----------------------------------------------------------------------------
(* What is left of a list of writes *)

Ops == {"rtOff", "lispOff", "ioOff", "pause", "rtOn", "lispOn", "unpause", "rtInit", "arm",
        "disarm", "resume", "done"}

\* The write w is still to be done.
Has(s, w) == \E i \in 1 .. Len(s) : s[i] = w

\* The worker: the end of an operation is its last write, and after the polls
\* have been started again.
WorkerFits(s) ==
    /\ s \in Seq(Ops \ {"rtInit", "arm", "disarm", "resume"})
    /\ \A i \in 1 .. Len(s) :
          /\ s[i] \in {"rtOff", "pause"} => ~Has(s, "done")
          /\ s[i] = "done" => i = Len(s)

\* The host: it arms the timer after it has paused, and resumes after it has
\* disarmed it.
HostFits(s) ==
    /\ s \in Seq(Ops \ {"rtInit", "done"})
    /\ \A i \in 1 .. Len(s) :
          /\ s[i] \in {"rtOff", "pause"} => i < Len(s)
          /\ s[i] = "disarm" => i < Len(s) /\ s[i + 1] = "resume"
          /\ s[i] = "resume" => i = Len(s)

\* The timer task: what it pauses it resumes.
TimerFits(s) ==
    /\ s \in Seq(Ops \ {"rtInit", "arm", "disarm", "resume", "done"})
    /\ \A i \in 1 .. Len(s) :
          /\ s[i] = "pause" => \E j \in i + 1 .. Len(s) : s[j] = "unpause"
          /\ s[i] = "rtOff" => \E j \in i + 1 .. Len(s) : s[j] = "rtOn"

UiFits(s) == s \in Seq({"rtInit", "lispOff", "ioOff"})

Fits(t, s) == CASE t = "worker" -> WorkerFits(s)
                [] t = "host" -> HostFits(s)
                [] t = "timer" -> TimerFits(s)
                [] t = "ui" -> UiFits(s)

-----------------------------------------------------------------------------
(* The invariant *)

FlagTypes ==
    /\ rtOn \in BOOLEAN /\ lispOn \in BOOLEAN /\ ioOn \in BOOLEAN /\ paused \in BOOLEAN
    /\ panelOn \in BOOLEAN /\ once \in BOOLEAN /\ codeBusy \in BOOLEAN /\ phone \in BOOLEAN
    /\ timer \in BOOLEAN /\ moved \in BOOLEAN /\ cut \in BOOLEAN /\ covered \in BOOLEAN

CountTypes ==
    /\ taps \in 0 .. MaxTaps /\ swaps \in Nat /\ events \in Nat
    /\ swaps <= events /\ events <= MaxEvents
    /\ at \in Sending \cup {"rt", "once", "io", "dash", "panel", "pas", "pasSends",
                            "zeroSends", "zeroBooks", "probe"}

Setpoints == [amps : {0, 1}, age : {"never", "fresh", "stale"}, zeroed : BOOLEAN]

RideTypes ==
    /\ pas \in Setpoints /\ look \in Setpoints
    /\ pedal \in [runs : BOOLEAN, wasActive : BOOLEAN] /\ motor \in {0, 1}

Types == FlagTypes /\ CountTypes /\ RideTypes

PlansInv == todo = [t \in Threads |-> todo[t]] /\ \A t \in Threads : Fits(t, todo[t])

\* The worker writes only in an operation; the host pauses only for a phone; a
\* phone is waited for, or about to be let go.
OwnersInv ==
    /\ todo["worker"] # <<>> => codeBusy
    /\ Has(todo["host"], "rtOff") \/ Has(todo["host"], "pause") => phone \/ cut
    /\ phone => timer \/ Has(todo["host"], "arm") \/ Has(todo["host"], "resume")

\* Somebody has still to write w.
Owed(w) ==
    \/ cut \/ phone \/ Has(todo["host"], w) \/ Has(todo["timer"], w)
    \/ codeBusy /\ (Has(todo["worker"], "done") => Has(todo["worker"], w))

BackInv ==
    /\ paused => Owed("unpause")
    /\ ~rtOn => moved \/ Owed("rtOn")

PollInv == Types /\ PlansInv /\ OwnersInv /\ BackInv

-----------------------------------------------------------------------------
(* The lists *)

LEMMA ListsAre ==
    /\ Len(Pause) = 4 /\ Pause[1] = "rtOff" /\ Pause[2] = "lispOff" /\ Pause[3] = "ioOff"
    /\ Pause[4] = "pause" /\ Pause \in Seq(Ops)
    /\ Len(Resume) = 3 /\ Resume[1] = "rtOn" /\ Resume[2] = "lispOn" /\ Resume[3] = "unpause"
    /\ Resume \in Seq(Ops)
    /\ Len(Swap) = 5 /\ Swap[1] = "rtOff" /\ Swap[2] = "pause" /\ Swap[3] = "ioOff"
    /\ Swap[4] = "unpause" /\ Swap[5] = "rtOn" /\ Swap \in Seq(Ops)
    /\ Len(Target) = 3 /\ Target[1] = "rtInit" /\ Target[2] = "lispOff" /\ Target[3] = "ioOff"
    /\ Target \in Seq(Ops)
BY DEF Pause, Resume, Swap, Target, Ops

\* A sequence keeps the type of its elements.
LEMMA SeqOf ==
    ASSUME NEW S, NEW s \in Seq(S), NEW T, \A i \in 1 .. Len(s) : s[i] \in T
    PROVE  s \in Seq(T)
<1>1. s = [i \in 1 .. Len(s) |-> s[i]] /\ Len(s) \in Nat
  OBVIOUS
<1>2. s \in [1 .. Len(s) -> T]
  BY <1>1
<1> QED
  BY <1>1, <1>2

LEMMA Rest ==
    ASSUME NEW S, NEW s \in Seq(S), s # <<>>
    PROVE  /\ Len(s) \in Nat \ {0} /\ Head(s) = s[1]
           /\ Tail(s) \in Seq(S) /\ Len(Tail(s)) = Len(s) - 1
           /\ \A i \in 1 .. Len(s) - 1 : Tail(s)[i] = s[i + 1]
BY HeadTailProperties

LEMMA HasRest ==
    ASSUME NEW S, NEW s \in Seq(S), s # <<>>
    PROVE  /\ Has(s, Head(s))
           /\ \A w : Has(Tail(s), w) => Has(s, w)
           /\ \A w : Has(s, w) => w = Head(s) \/ Has(Tail(s), w)
<1>1. /\ Len(s) \in Nat \ {0} /\ Head(s) = s[1]
      /\ Tail(s) \in Seq(S) /\ Len(Tail(s)) = Len(s) - 1
      /\ \A i \in 1 .. Len(s) - 1 : Tail(s)[i] = s[i + 1]
  BY Rest
<1>2. Has(s, Head(s))
  BY <1>1 DEF Has
<1>3. ASSUME NEW w, Has(Tail(s), w) PROVE Has(s, w)
  <2>1. PICK i \in 1 .. Len(s) - 1 : Tail(s)[i] = w
    BY <1>1, <1>3 DEF Has
  <2>2. i + 1 \in 1 .. Len(s) /\ s[i + 1] = w
    BY <1>1, <2>1
  <2> QED
    BY <2>2 DEF Has
<1>4. ASSUME NEW w, Has(s, w), w # Head(s) PROVE Has(Tail(s), w)
  <2>1. PICK i \in 1 .. Len(s) : s[i] = w
    BY <1>4 DEF Has
  <2>2. i # 1 /\ i - 1 \in 1 .. Len(s) - 1 /\ (i - 1) + 1 = i
    BY <1>1, <1>4, <2>1
  <2>3. Tail(s)[i - 1] = w
    BY <1>1, <2>1, <2>2
  <2> QED
    BY <1>1, <2>2, <2>3 DEF Has
<1> QED
  BY <1>2, <1>3, <1>4

LEMMA HasNone == \A w : ~Has(<<>>, w)
BY DEF Has

LEMMA Joined ==
    ASSUME NEW s \in Seq(Ops), NEW r \in Seq(Ops)
    PROVE  /\ s \o r \in Seq(Ops) /\ Len(s \o r) = Len(s) + Len(r)
           /\ Len(s) \in Nat /\ Len(r) \in Nat
           /\ \A i \in 1 .. Len(s) : (s \o r)[i] = s[i]
           /\ \A i \in 1 .. Len(r) : (s \o r)[Len(s) + i] = r[i]
           /\ \A i \in 1 .. Len(s \o r) : i \in 1 .. Len(s) \/ i - Len(s) \in 1 .. Len(r)
<1>1. /\ s \o r \in Seq(Ops) /\ Len(s \o r) = Len(s) + Len(r)
      /\ \A i \in 1 .. Len(s) + Len(r) : (s \o r)[i] = IF i <= Len(s) THEN s[i] ELSE r[i - Len(s)]
  BY ConcatProperties
<1>2. Len(s) \in Nat /\ Len(r) \in Nat
  OBVIOUS
<1>3. ASSUME NEW i \in 1 .. Len(r) PROVE (s \o r)[Len(s) + i] = r[i]
  <2>1. /\ Len(s) + i \in 1 .. Len(s) + Len(r) /\ ~(Len(s) + i <= Len(s))
        /\ (Len(s) + i) - Len(s) = i
    BY <1>2
  <2> QED
    BY <1>1, <2>1
<1>4. ASSUME NEW i \in 1 .. Len(s) PROVE (s \o r)[i] = s[i]
  BY <1>1, <1>2
<1> QED
  BY <1>1, <1>2, <1>3, <1>4

LEMMA WorkerRest ==
    ASSUME NEW s, WorkerFits(s), s # <<>>
    PROVE  /\ WorkerFits(Tail(s))
           /\ Head(s) \in Ops \ {"rtInit", "arm", "disarm", "resume"}
           /\ Head(s) \in {"rtOff", "pause"} => ~Has(s, "done")
           /\ Head(s) = "done" => Tail(s) = <<>> /\ \A w : Has(s, w) => w = "done"
<1> DEFINE S == Ops \ {"rtInit", "arm", "disarm", "resume"}
<1>1. /\ s \in Seq(S) /\ Len(s) \in Nat \ {0} /\ Head(s) = s[1]
      /\ Tail(s) \in Seq(S) /\ Len(Tail(s)) = Len(s) - 1
      /\ \A i \in 1 .. Len(s) - 1 : Tail(s)[i] = s[i + 1]
  BY Rest DEF WorkerFits
<1>2. ASSUME NEW i \in 1 .. Len(Tail(s))
      PROVE  /\ Tail(s)[i] \in {"rtOff", "pause"} => ~Has(Tail(s), "done")
             /\ Tail(s)[i] = "done" => i = Len(Tail(s))
  <2>1. i + 1 \in 1 .. Len(s) /\ Tail(s)[i] = s[i + 1]
    BY <1>1
  <2>2. Has(Tail(s), "done") => Has(s, "done")
    BY <1>1, HasRest
  <2>3. /\ s[i + 1] \in {"rtOff", "pause"} => ~Has(s, "done")
        /\ s[i + 1] = "done" => i + 1 = Len(s)
    BY <2>1 DEF WorkerFits
  <2>4. Len(Tail(s)) = Len(s) - 1 /\ Len(s) \in Nat
    BY <1>1
  <2> QED
    <3>1. \A n, m, k \in Nat : m = n - 1 /\ k + 1 = n => k = m
      OBVIOUS
    <3>2. Len(Tail(s)) \in Nat /\ i \in Nat
      BY <1>1
    <3>3. i + 1 = Len(s) => i = Len(Tail(s))
      BY <2>4, <3>1, <3>2, Zenon
    <3> QED
      BY <2>1, <2>2, <2>3, <3>3
<1>3. WorkerFits(Tail(s))
  BY <1>1, <1>2 DEF WorkerFits
<1>4. 1 \in 1 .. Len(s) /\ s[1] \in S
  BY <1>1
<1>5. Head(s) = "done" => Tail(s) = <<>>
  <2>1. Head(s) = "done" => Len(s) = 1
    BY <1>1, <1>4 DEF WorkerFits
  <2> QED
    BY <1>1, <2>1
<1>6. Head(s) = "done" => \A w : Has(s, w) => w = "done"
  <2> SUFFICES ASSUME s[1] = "done", NEW w, Has(s, w) PROVE w = "done"
    BY <1>1
  <2>1. 1 = Len(s)
    BY <1>4 DEF WorkerFits
  <2>2. PICK i \in 1 .. Len(s) : s[i] = w
    BY DEF Has
  <2>3. i = 1
    BY <2>1, <2>2
  <2> QED
    BY <2>2, <2>3
<1> QED
  BY <1>1, <1>3, <1>4, <1>5, <1>6 DEF WorkerFits

LEMMA HostRest ==
    ASSUME NEW s, HostFits(s), s # <<>>
    PROVE  /\ HostFits(Tail(s)) /\ Head(s) \in Ops \ {"rtInit", "done"}
           /\ Head(s) = "disarm" => Has(Tail(s), "resume")
           /\ Head(s) = "resume" => Tail(s) = <<>>
           /\ Head(s) \in {"rtOff", "pause"} => Len(s) > 1
           /\ \A w \in {"rtOff", "pause"} : Has(s, w) => Len(s) > 1
<1> DEFINE S == Ops \ {"rtInit", "done"}
<1>1. /\ s \in Seq(S) /\ Len(s) \in Nat \ {0} /\ Head(s) = s[1]
      /\ Tail(s) \in Seq(S) /\ Len(Tail(s)) = Len(s) - 1
      /\ \A i \in 1 .. Len(s) - 1 : Tail(s)[i] = s[i + 1]
  BY Rest DEF HostFits
<1>2. ASSUME NEW i \in 1 .. Len(Tail(s))
      PROVE  /\ Tail(s)[i] \in {"rtOff", "pause"} => i < Len(Tail(s))
             /\ Tail(s)[i] = "disarm" => i < Len(Tail(s)) /\ Tail(s)[i + 1] = "resume"
             /\ Tail(s)[i] = "resume" => i = Len(Tail(s))
  <2>1. i + 1 \in 1 .. Len(s) /\ Tail(s)[i] = s[i + 1]
    BY <1>1
  <2>2. i + 1 < Len(s) => Tail(s)[i + 1] = s[(i + 1) + 1] /\ i < Len(Tail(s))
    BY <1>1
  <2>3. i + 1 = Len(s) => i = Len(Tail(s))
    <3>1. \A n, m, k \in Nat : m = n - 1 /\ k + 1 = n => k = m
      OBVIOUS
    <3>2. Len(Tail(s)) \in Nat /\ i \in Nat /\ Len(s) \in Nat /\ Len(Tail(s)) = Len(s) - 1
      BY <1>1
    <3> QED
      BY <3>1, <3>2, Zenon
  <2>4. /\ s[i + 1] \in {"rtOff", "pause"} => i + 1 < Len(s)
        /\ s[i + 1] = "disarm" => i + 1 < Len(s) /\ s[(i + 1) + 1] = "resume"
        /\ s[i + 1] = "resume" => i + 1 = Len(s)
    BY <2>1 DEF HostFits
  <2> QED
    BY <2>1, <2>2, <2>3, <2>4
<1>3. HostFits(Tail(s))
  BY <1>1, <1>2 DEF HostFits
<1>4. 1 \in 1 .. Len(s) /\ s[1] \in S
  BY <1>1
<1>5. Head(s) = "disarm" => Has(Tail(s), "resume")
  <2> SUFFICES ASSUME s[1] = "disarm" PROVE Has(Tail(s), "resume")
    BY <1>1
  <2>1. 1 < Len(s) /\ s[1 + 1] = "resume"
    BY <1>4 DEF HostFits
  <2>2. 1 \in 1 .. Len(Tail(s)) /\ Tail(s)[1] = "resume"
    BY <1>1, <2>1
  <2> QED
    BY <2>2 DEF Has
<1>6. \A i \in 1 .. Len(s) : s[i] \in {"rtOff", "pause"} => Len(s) > 1
  <2>1. ASSUME NEW i \in 1 .. Len(s), i < Len(s) PROVE Len(s) > 1
    BY <1>1, <2>1
  <2> QED
    BY <2>1 DEF HostFits
<1>7. Head(s) = "resume" => Tail(s) = <<>>
  <2>1. Head(s) = "resume" => Len(s) = 1
    BY <1>1, <1>4 DEF HostFits
  <2> QED
    BY <1>1, <2>1
<1> QED
  BY <1>1, <1>3, <1>4, <1>5, <1>6, <1>7 DEF Has

LEMMA TimerRest ==
    ASSUME NEW s, TimerFits(s), s # <<>>
    PROVE  /\ TimerFits(Tail(s))
           /\ Head(s) \in Ops \ {"rtInit", "arm", "disarm", "resume", "done"}
           /\ Head(s) = "pause" => Has(Tail(s), "unpause")
           /\ Head(s) = "rtOff" => Has(Tail(s), "rtOn")
<1> DEFINE S == Ops \ {"rtInit", "arm", "disarm", "resume", "done"}
<1>1. /\ s \in Seq(S) /\ Len(s) \in Nat \ {0} /\ Head(s) = s[1]
      /\ Tail(s) \in Seq(S) /\ Len(Tail(s)) = Len(s) - 1
      /\ \A i \in 1 .. Len(s) - 1 : Tail(s)[i] = s[i + 1]
  BY Rest DEF TimerFits
<1>2. ASSUME NEW i \in 1 .. Len(s), NEW w, \E j \in i + 1 .. Len(s) : s[j] = w
      PROVE  \E j \in i .. Len(Tail(s)) : Tail(s)[j] = w
  <2>1. PICK j \in i + 1 .. Len(s) : s[j] = w
    BY <1>2
  <2>2. j - 1 \in i .. Len(Tail(s)) /\ j - 1 \in 1 .. Len(s) - 1 /\ (j - 1) + 1 = j
    BY <1>1
  <2>3. Tail(s)[j - 1] = w
    BY <1>1, <2>1, <2>2
  <2> QED
    BY <2>2, <2>3
<1>3. ASSUME NEW i \in 1 .. Len(Tail(s))
      PROVE  /\ Tail(s)[i] = "pause" => \E j \in i + 1 .. Len(Tail(s)) : Tail(s)[j] = "unpause"
             /\ Tail(s)[i] = "rtOff" => \E j \in i + 1 .. Len(Tail(s)) : Tail(s)[j] = "rtOn"
  <2>1. i + 1 \in 1 .. Len(s) /\ Tail(s)[i] = s[i + 1]
    BY <1>1
  <2> QED
    BY <1>2, <2>1 DEF TimerFits
<1>4. TimerFits(Tail(s))
  BY <1>1, <1>3 DEF TimerFits
<1>5. 1 \in 1 .. Len(s) /\ s[1] \in S
  BY <1>1
<1>6. /\ s[1] = "pause" => \E j \in 1 .. Len(Tail(s)) : Tail(s)[j] = "unpause"
      /\ s[1] = "rtOff" => \E j \in 1 .. Len(Tail(s)) : Tail(s)[j] = "rtOn"
  BY <1>2, <1>5 DEF TimerFits
<1> QED
  BY <1>1, <1>4, <1>5, <1>6 DEF Has

LEMMA UiRest ==
    ASSUME NEW s, UiFits(s), s # <<>>
    PROVE  UiFits(Tail(s)) /\ Head(s) \in {"rtInit", "lispOff", "ioOff"}
BY HeadTailProperties DEF UiFits

\* What the threads begin with.
LEMMA WorkerBegins ==
    /\ WorkerFits(<<>>)
    /\ WorkerFits(Pause) /\ ~Has(Pause, "done")
    /\ WorkerFits(Resume \o <<"done">>)
    /\ Has(Resume \o <<"done">>, "unpause") /\ Has(Resume \o <<"done">>, "rtOn")
<1>1. WorkerFits(<<>>)
  BY DEF WorkerFits
<1> DEFINE S == Ops \ {"rtInit", "arm", "disarm", "resume"}
<1>2. \A i \in 1 .. Len(Pause) : Pause[i] # "done" /\ Pause[i] \in S
  BY ListsAre DEF Ops
<1>3. Pause \in Seq(S)
  BY <1>2, ListsAre, SeqOf
<1>4. WorkerFits(Pause) /\ ~Has(Pause, "done")
  BY <1>2, <1>3 DEF WorkerFits, Has
<1> DEFINE d == <<"done">>
           s == Resume \o d
<1>5. d \in Seq(Ops) /\ Len(d) = 1 /\ d[1] = "done"
  BY DEF Ops
<1> HIDE DEF d
<1>6. /\ s \in Seq(Ops) /\ Len(s) = 4 /\ s[1] = "rtOn" /\ s[2] = "lispOn" /\ s[3] = "unpause"
      /\ s[4] = "done"
  <2>1. /\ s \in Seq(Ops) /\ Len(s) = Len(Resume) + Len(d)
        /\ \A i \in 1 .. Len(Resume) : s[i] = Resume[i]
        /\ \A i \in 1 .. Len(d) : s[Len(Resume) + i] = d[i]
    BY <1>5, ListsAre, Joined
  <2>2. s[3 + 1] = d[1]
    BY <1>5, <2>1, ListsAre
  <2> QED
    BY <1>5, <2>1, <2>2, ListsAre
<1> HIDE DEF s
<1>7. \A i \in 1 .. Len(s) : /\ s[i] \in S /\ s[i] \notin {"rtOff", "pause"}
                             /\ s[i] = "done" => i = Len(s)
  BY <1>6 DEF Ops
<1>8. s \in Seq(S)
  BY <1>6, <1>7, SeqOf
<1>9. WorkerFits(s) /\ Has(s, "unpause") /\ Has(s, "rtOn")
  BY <1>6, <1>7, <1>8 DEF WorkerFits, Has
<1> QED
  BY <1>1, <1>4, <1>9 DEF s, d

LEMMA HostBegins ==
    /\ HostFits(<<>>)
    /\ HostFits(Pause \o <<"arm">>) /\ Has(Pause \o <<"arm">>, "arm")
    /\ HostFits(<<>> \o <<"arm">>) /\ Has(<<>> \o <<"arm">>, "arm")
    /\ HostFits(<<"disarm", "resume">>) /\ Has(<<"disarm", "resume">>, "resume")
    /\ ~Has(<<"disarm", "resume">>, "rtOff") /\ ~Has(<<"disarm", "resume">>, "pause")
<1> DEFINE S == Ops \ {"rtInit", "done"}
<1>1. HostFits(<<>>)
  BY DEF HostFits
<1> DEFINE a == <<"arm">>
           s == Pause \o a
<1>2. a \in Seq(Ops) /\ a \in Seq(S) /\ Len(a) = 1 /\ a[1] = "arm" /\ <<>> \o a = a
  BY DEF Ops
<1> HIDE DEF a
<1>3. HostFits(a) /\ Has(a, "arm")
  BY <1>2 DEF HostFits, Has
<1>4. /\ s \in Seq(Ops) /\ Len(s) = 5 /\ s[1] = "rtOff" /\ s[2] = "lispOff" /\ s[3] = "ioOff"
      /\ s[4] = "pause" /\ s[5] = "arm"
  <2>1. /\ s \in Seq(Ops) /\ Len(s) = Len(Pause) + Len(a)
        /\ \A i \in 1 .. Len(Pause) : s[i] = Pause[i]
        /\ \A i \in 1 .. Len(a) : s[Len(Pause) + i] = a[i]
    BY <1>2, ListsAre, Joined
  <2>2. s[4 + 1] = a[1]
    BY <1>2, <2>1, ListsAre
  <2> QED
    BY <1>2, <2>1, <2>2, ListsAre
<1> HIDE DEF s
<1>5. \A i \in 1 .. Len(s) : /\ s[i] \in S /\ s[i] \notin {"disarm", "resume"}
                             /\ s[i] \in {"rtOff", "pause"} => i < Len(s)
  BY <1>4 DEF Ops
<1>6. s \in Seq(S)
  BY <1>4, <1>5, SeqOf
<1>7. HostFits(s) /\ Has(s, "arm")
  BY <1>4, <1>5, <1>6 DEF HostFits, Has
<1> DEFINE l == <<"disarm", "resume">>
<1>8. l \in Seq(S) /\ Len(l) = 2 /\ l[1] = "disarm" /\ l[2] = "resume"
  BY DEF Ops
<1> HIDE DEF l
<1>9. /\ HostFits(l) /\ Has(l, "resume") /\ ~Has(l, "rtOff") /\ ~Has(l, "pause")
  BY <1>8 DEF HostFits, Has
<1> QED
  BY <1>1, <1>2, <1>3, <1>7, <1>9 DEF s, a, l

LEMMA TimerBegins ==
    /\ TimerFits(<<>>)
    /\ TimerFits(Resume) /\ Has(Resume, "unpause") /\ Has(Resume, "rtOn")
    /\ TimerFits(Swap)
<1> DEFINE S == Ops \ {"rtInit", "arm", "disarm", "resume", "done"}
<1>1. TimerFits(<<>>)
  BY DEF TimerFits
<1>2. \A i \in 1 .. Len(Resume) : Resume[i] \in S /\ Resume[i] # "pause" /\ Resume[i] # "rtOff"
  BY ListsAre DEF Ops
<1>3. Resume \in Seq(S)
  BY <1>2, ListsAre, SeqOf
<1>4. TimerFits(Resume) /\ Has(Resume, "unpause") /\ Has(Resume, "rtOn")
  BY <1>2, <1>3, ListsAre DEF TimerFits, Has
<1>5. \A i \in 1 .. Len(Swap) : /\ Swap[i] \in S
                                /\ Swap[i] = "pause" => i = 2
                                /\ Swap[i] = "rtOff" => i = 1
  BY ListsAre DEF Ops
<1>6. Swap \in Seq(S)
  BY <1>5, ListsAre, SeqOf
<1>7. TimerFits(Swap)
  BY <1>5, <1>6, ListsAre DEF TimerFits
<1> QED
  BY <1>1, <1>4, <1>7

LEMMA UiBegins == UiFits(<<>>) /\ UiFits(Target)
<1>1. \A i \in 1 .. Len(Target) : Target[i] \in {"rtInit", "lispOff", "ioOff"}
  BY ListsAre
<1>2. Target \in Seq({"rtInit", "lispOff", "ioOff"})
  BY <1>1, ListsAre, SeqOf
<1> QED
  BY <1>2 DEF UiFits

\* The host's call to resume, after which it does the rest.
LEMMA HostResumes ==
    /\ HostFits(Resume \o <<>>) /\ Has(Resume \o <<>>, "rtOn") /\ Has(Resume \o <<>>, "unpause")
    /\ ~Has(Resume \o <<>>, "rtOff") /\ ~Has(Resume \o <<>>, "pause")
<1>1. Resume \o <<>> = Resume
  BY ListsAre, ConcatEmptySeq
<1> DEFINE S == Ops \ {"rtInit", "done"}
<1>2. \A i \in 1 .. Len(Resume) :
          Resume[i] \in S /\ Resume[i] \notin {"rtOff", "pause", "disarm", "resume"}
  BY ListsAre DEF Ops
<1>3. Resume \in Seq(S)
  BY <1>2, ListsAre, SeqOf
<1>4. HostFits(Resume) /\ ~Has(Resume, "rtOff") /\ ~Has(Resume, "pause")
  BY <1>2, <1>3 DEF HostFits, Has
<1> QED
  BY <1>1, <1>4, TimerBegins

-----------------------------------------------------------------------------
(* Types *)

LEMMA TypesInit == Init => Types
<1> SUFFICES ASSUME Init PROVE Types
  OBVIOUS
<1>1. FlagTypes
  BY Zenon DEF Init, FlagTypes
<1>2. CountTypes
  BY PollTaskAssumption DEF Init, CountTypes
<1>3. RideTypes
  BY DEF Init, RideTypes, NoLook, Setpoints
<1> QED
  BY <1>1, <1>2, <1>3 DEF Types

\* What a write does.
LEMMA Writes ==
    ASSUME NEW t \in Threads, Write(t), NEW w, w = Head(todo[t])
    PROVE  /\ todo[t] # <<>>
           /\ rtOn' <=> (w = "rtOn" \/ (rtOn /\ w \notin {"rtOff", "rtInit"}))
           /\ lispOn' <=> ((lispOn \/ w = "lispOn") /\ w # "lispOff")
           /\ ioOn' <=> (ioOn /\ w # "ioOff")
           /\ paused' <=> ((paused \/ w = "pause") /\ w # "unpause")
           /\ moved' <=> ((moved \/ w = "rtInit") /\ w # "rtOn")
           /\ codeBusy' <=> (codeBusy /\ w # "done")
           /\ timer' <=> ((timer \/ w = "arm") /\ w # "disarm")
           /\ phone' <=> (phone /\ w # "resume")
           /\ rtOn \in BOOLEAN => rtOn' \in BOOLEAN
           /\ lispOn' \in BOOLEAN /\ ioOn' \in BOOLEAN /\ paused' \in BOOLEAN /\ moved' \in BOOLEAN
           /\ codeBusy' \in BOOLEAN /\ timer' \in BOOLEAN /\ phone' \in BOOLEAN
           /\ todo' = [todo EXCEPT ![t] = IF w = "resume" /\ phone
                                          THEN Resume \o Tail(todo[t]) ELSE Tail(todo[t])]
           /\ UNCHANGED <<swaps, cut, at, ui, ride, events>>
<1>1. todo[t] # <<>>
  BY DEF Write, Idle
<1>2. /\ rtOn' = CASE w \in {"rtOff", "rtInit"} -> FALSE
                   [] w = "rtOn" -> TRUE
                   [] OTHER -> rtOn
      /\ lispOn' = ((lispOn \/ w = "lispOn") /\ w # "lispOff")
      /\ ioOn'   = (ioOn /\ w # "ioOff")
      /\ paused' = ((paused \/ w = "pause") /\ w # "unpause")
      /\ moved'  = ((moved \/ w = "rtInit") /\ w # "rtOn")
      /\ codeBusy' = (codeBusy /\ w # "done")
      /\ timer'  = ((timer \/ w = "arm") /\ w # "disarm")
      /\ phone'  = (phone /\ w # "resume")
      /\ todo'   = [todo EXCEPT ![t] = IF w = "resume" /\ phone
                                       THEN Resume \o Tail(todo[t]) ELSE Tail(todo[t])]
  BY Zenon DEF Write, Restarted
<1>3. UNCHANGED <<swaps, cut, at, ui, ride, events>>
  BY DEF Write
<1>4. rtOn' <=> (w = "rtOn" \/ (rtOn /\ w \notin {"rtOff", "rtInit"}))
  BY <1>2
<1>5. /\ lispOn' \in BOOLEAN /\ ioOn' \in BOOLEAN /\ paused' \in BOOLEAN /\ moved' \in BOOLEAN
      /\ codeBusy' \in BOOLEAN /\ timer' \in BOOLEAN /\ phone' \in BOOLEAN
  BY <1>2, Zenon
<1>6. rtOn \in BOOLEAN => rtOn' \in BOOLEAN
  <2>1. rtOn' = FALSE \/ rtOn' = TRUE \/ rtOn' = rtOn
    BY <1>2
  <2> QED
    BY <2>1, Zenon
<1>7. /\ lispOn' <=> ((lispOn \/ w = "lispOn") /\ w # "lispOff")
      /\ ioOn' <=> (ioOn /\ w # "ioOff")
      /\ paused' <=> ((paused \/ w = "pause") /\ w # "unpause")
      /\ moved' <=> ((moved \/ w = "rtInit") /\ w # "rtOn")
      /\ codeBusy' <=> (codeBusy /\ w # "done")
      /\ timer' <=> ((timer \/ w = "arm") /\ w # "disarm")
      /\ phone' <=> (phone /\ w # "resume")
  BY <1>2, Zenon
<1> QED
  BY <1>1, <1>2, <1>3, <1>4, <1>5, <1>6, <1>7, Zenon

LEMMA WriteTypes ==
    ASSUME Types, NEW t \in Threads, Write(t)
    PROVE  Types'
<1>1. PICK w : w = Head(todo[t])
  OBVIOUS
<1>2. FlagTypes'
  BY <1>1, Writes, Zenon DEF Types, FlagTypes, ui, ride
<1>3. UNCHANGED <<taps, swaps, events, at, pas, look, pedal, motor>>
  BY <1>1, Writes DEF ui, ride
<1> QED
  BY <1>2, <1>3 DEF Types, CountTypes, RideTypes

LEMMA OwnersTypes ==
    ASSUME Types, Owners
    PROVE  Types'
<1>1. /\ rtOn' = rtOn /\ lispOn' = lispOn /\ ioOn' = ioOn /\ paused' = paused
      /\ UNCHANGED <<panelOn, once, moved, covered, taps, at, pas, look, pedal, motor>>
  BY DEF Owners, CodeStarts, CodeEnds, PhonePacket, PhoneLeaves, TimerFires, LinkChanged, Swaps,
         TargetChanged, flags, ui, ride
<1>2. codeBusy' \in BOOLEAN
  BY Zenon DEF Types, FlagTypes, Owners, CodeStarts, CodeEnds, PhonePacket, PhoneLeaves, TimerFires,
         LinkChanged, Swaps, TargetChanged
<1>3. phone' \in BOOLEAN
  BY Zenon DEF Types, FlagTypes, Owners, CodeStarts, CodeEnds, PhonePacket, PhoneLeaves, TimerFires,
         LinkChanged, Swaps, TargetChanged
<1>4. timer' \in BOOLEAN
  BY Zenon DEF Types, FlagTypes, Owners, CodeStarts, CodeEnds, PhonePacket, PhoneLeaves, TimerFires,
         LinkChanged, Swaps, TargetChanged
<1>5. cut' \in BOOLEAN
  BY Zenon DEF Types, FlagTypes, Owners, CodeStarts, CodeEnds, PhonePacket, PhoneLeaves, TimerFires,
         LinkChanged, Swaps, TargetChanged
<1>6. FlagTypes'
  BY <1>1, <1>2, <1>3, <1>4, <1>5, Zenon DEF Types, FlagTypes
<1>7. /\ swaps \in Nat /\ events \in Nat /\ swaps <= events /\ events <= MaxEvents
  BY DEF Types, CountTypes
<1>8. \/ swaps' = swaps /\ (events' = events \/ Event)
      \/ swaps' = swaps + 1 /\ Event
      \/ swaps > 0 /\ swaps' = swaps - 1 /\ events' = events
  BY DEF Owners, CodeStarts, CodeEnds, PhonePacket, PhoneLeaves, TimerFires, LinkChanged, Swaps,
         TargetChanged
<1>9. CountTypes'
  BY <1>1, <1>7, <1>8, PollTaskAssumption DEF Types, CountTypes, Event
<1>10. RideTypes'
  BY <1>1 DEF Types, RideTypes
<1> QED
  BY <1>6, <1>9, <1>10 DEF Types

LEMMA ScreensTypes ==
    ASSUME Types, Screens
    PROVE  Types'
<1>1. /\ UNCHANGED <<rtOn, lispOn, paused, codeBusy, phone, timer, swaps, todo, moved, cut, at>>
      /\ UNCHANGED <<pas, look, pedal, motor, covered>> /\ Event
  BY DEF Screens, Viewer, Drawer, Tap, AsksStats, flags, own, ride
<1>2. ioOn' \in BOOLEAN
  BY Zenon DEF Types, FlagTypes, Screens, Viewer, Drawer, Tap, AsksStats, flags
<1>3. panelOn' \in BOOLEAN
  BY Zenon DEF Types, FlagTypes, Screens, Viewer, Drawer, Tap, AsksStats, ui
<1>4. once' \in BOOLEAN
  BY Zenon DEF Types, FlagTypes, Screens, Viewer, Drawer, Tap, AsksStats, ui
<1>5. FlagTypes'
  BY <1>1, <1>2, <1>3, <1>4, Zenon DEF Types, FlagTypes
<1>6. taps' \in 0 .. MaxTaps
  BY PollTaskAssumption DEF Types, CountTypes, Screens, Viewer, Drawer, Tap, AsksStats, ui
<1>7. CountTypes'
  BY <1>1, <1>6, PollTaskAssumption DEF Types, CountTypes, Event
<1>8. RideTypes'
  BY <1>1 DEF Types, RideTypes
<1> QED
  BY <1>5, <1>7, <1>8 DEF Types

LEMMA LoopTypes ==
    ASSUME Types, RtLoop \/ OnceLoop \/ IoLoop \/ DashLoop \/ PanelLoop \/ AuxLoop
    PROVE  Types'
<1>1. Same
  BY DEF RtLoop, OnceLoop, IoLoop, DashLoop, PanelLoop, AuxLoop
<1>2. panelOn' = panelOn
  BY DEF RtLoop, OnceLoop, IoLoop, DashLoop, PanelLoop, AuxLoop, ui
<1>3. once' \in BOOLEAN
  BY Zenon DEF Types, FlagTypes, RtLoop, OnceLoop, IoLoop, DashLoop, PanelLoop, AuxLoop, ui
<1>4. FlagTypes'
  BY <1>1, <1>2, <1>3, Zenon DEF Types, FlagTypes, Same, flags, own, ride
<1>5. taps' \in 0 .. MaxTaps
  BY PollTaskAssumption
  DEF Types, CountTypes, RtLoop, OnceLoop, IoLoop, DashLoop, PanelLoop, AuxLoop, ui
<1>6. at' \in Sending \cup {"rt", "once", "io", "dash", "panel", "pas"}
  BY DEF RtLoop, OnceLoop, IoLoop, DashLoop, PanelLoop, AuxLoop, Goes, Sending
<1>7. CountTypes'
  BY <1>1, <1>5, <1>6 DEF Types, CountTypes, Same, own
<1>8. RideTypes'
  BY <1>1 DEF Types, RideTypes, Same, ride
<1> QED
  BY <1>4, <1>7, <1>8 DEF Types

LEMMA RideStepTypes ==
    ASSUME Types, PasLoop \/ PasTick \/ PasHangs \/ PasAges
    PROVE  Types'
<1>1. UNCHANGED <<flags, own, ui>>
  BY DEF PasLoop, PasLooks, PasSends, ZeroSends, ZeroBooks, PasTick, PasHangs, PasAges
<1>2. covered' \in BOOLEAN
  BY Zenon DEF PasLoop, PasLooks, PasSends, ZeroSends, ZeroBooks, PasTick, PasHangs, PasAges, Types,
               FlagTypes
<1>3. FlagTypes'
  BY <1>1, <1>2, Zenon DEF Types, FlagTypes, flags, own, ui
<1>4. events' = events \/ Event
  BY DEF PasLoop, PasLooks, PasSends, ZeroSends, ZeroBooks, PasTick, PasHangs, PasAges
<1>5. at' \in {at, "pasSends", "zeroSends", "zeroBooks", "probe"}
  BY DEF PasLoop, PasLooks, PasSends, ZeroSends, ZeroBooks, PasTick, PasHangs, PasAges, Goes
<1>6. taps' = taps /\ swaps' = swaps
  BY <1>1 DEF ui, own
<1>7. CountTypes'
  BY <1>4, <1>5, <1>6, PollTaskAssumption DEF Types, CountTypes, Event
<1>8. pas \in Setpoints /\ look \in Setpoints
  BY DEF Types, RideTypes
<1>9. NoLook \in Setpoints
  BY DEF NoLook, Setpoints
<1>10. pas' \in Setpoints
  <2>1. \/ pas' = pas \/ (\E amps \in {0, 1} : SetPas(amps))
        \/ pas' = [pas EXCEPT !.age = "stale"] \/ pas' = [pas EXCEPT !.zeroed = TRUE]
    BY DEF PasLoop, PasLooks, PasSends, ZeroSends, ZeroBooks, PasTick, PasHangs, PasAges
  <2> QED
    <3>1. \A amps \in {0, 1} : SetPas(amps) => pas' \in Setpoints
      BY DEF SetPas, Setpoints
    <3>2. pas' = [pas EXCEPT !.age = "stale"] => pas' \in Setpoints
      BY <1>8 DEF Setpoints
    <3>3. pas' = [pas EXCEPT !.zeroed = TRUE] => pas' \in Setpoints
      BY <1>8 DEF Setpoints
    <3> QED
      BY <1>8, <2>1, <3>1, <3>2, <3>3
<1>11. look' \in Setpoints
  <2>1. look' \in {look, NoLook, pas}
    BY DEF PasLoop, PasLooks, PasSends, ZeroSends, ZeroBooks, PasTick, PasHangs, PasAges
  <2> QED
    BY <1>8, <1>9, <2>1
<1>12. pedal' \in [runs : BOOLEAN, wasActive : BOOLEAN]
  <2>1. pedal \in [runs : BOOLEAN, wasActive : BOOLEAN]
    BY DEF Types, RideTypes
  <2>2. CASE pedal' = pedal
    BY <2>1, <2>2
  <2>3. CASE pedal' = [pedal EXCEPT !.runs = FALSE]
    BY <2>1, <2>3
  <2>4. ASSUME NEW b \in BOOLEAN, pedal' = [pedal EXCEPT !.wasActive = b]
        PROVE  pedal' \in [runs : BOOLEAN, wasActive : BOOLEAN]
    BY <2>1, <2>4
  <2>5. \/ pedal' = pedal \/ pedal' = [pedal EXCEPT !.runs = FALSE]
        \/ \E amps \in {0, 1} : pedal' = [pedal EXCEPT !.wasActive = (amps > 0)]
    BY DEF PasLoop, PasLooks, PasSends, ZeroSends, ZeroBooks, PasTick, PasHangs, PasAges
  <2>6. \A amps \in {0, 1} : (amps > 0) \in BOOLEAN
    OBVIOUS
  <2> QED
    BY <2>2, <2>3, <2>4, <2>5, <2>6, Zenon
<1>13. motor' \in {0, 1}
  <2>1. motor' \in {motor, look.amps, 0}
    BY DEF PasLoop, PasLooks, PasSends, ZeroSends, ZeroBooks, PasTick, PasHangs, PasAges
  <2> QED
    BY <1>8, <2>1 DEF Types, RideTypes, Setpoints
<1> QED
  BY <1>3, <1>7, <1>10, <1>11, <1>12, <1>13 DEF Types, RideTypes

-----------------------------------------------------------------------------
(* The steps *)

LEMMA PlansHold ==
    ASSUME PlansInv
    PROVE  /\ WorkerFits(todo["worker"]) /\ HostFits(todo["host"])
           /\ TimerFits(todo["timer"]) /\ UiFits(todo["ui"])
           /\ DOMAIN todo = Threads
<1>1. \A t \in Threads : Fits(t, todo[t])
  BY DEF PlansInv
<1>2. DOMAIN todo = Threads
  BY DEF PlansInv
<1>3. {"worker", "host", "timer", "ui"} \subseteq Threads
  BY DEF Threads
<1> QED
  BY <1>1, <1>2, <1>3 DEF Fits

\* One thread's list changes.
LEMMA PlansChange ==
    ASSUME PlansInv, NEW t \in Threads, NEW s, todo' = [todo EXCEPT ![t] = s], Fits(t, s)
    PROVE  PlansInv' /\ todo'[t] = s /\ \A u \in Threads \ {t} : todo'[u] = todo[u]
<1>1. DOMAIN todo = Threads
  BY PlansHold
<1>2. todo'[t] = s /\ \A u \in Threads \ {t} : todo'[u] = todo[u]
  BY <1>1
<1>3. \A u \in Threads : Fits(u, todo'[u])
  BY <1>2 DEF PlansInv
<1>4. todo' = [u \in Threads |-> todo'[u]]
  BY <1>1
<1> QED
  BY <1>2, <1>3, <1>4 DEF PlansInv, Fits, WorkerFits, HostFits, TimerFits, UiFits

\* A write by each of the threads.
LEMMA WorkerWrites ==
    ASSUME PollInv, Write("worker")
    PROVE  PlansInv' /\ OwnersInv' /\ BackInv'
<1> DEFINE s == todo["worker"]
<1>1. PICK h : h = Head(s)
  OBVIOUS
<1>2. "worker" \in Threads
  BY DEF Threads
<1>3. /\ s # <<>>
      /\ rtOn' <=> (h = "rtOn" \/ (rtOn /\ h \notin {"rtOff", "rtInit"}))
      /\ paused' <=> ((paused \/ h = "pause") /\ h # "unpause")
      /\ moved' <=> ((moved \/ h = "rtInit") /\ h # "rtOn")
      /\ codeBusy' <=> (codeBusy /\ h # "done")
      /\ timer' <=> ((timer \/ h = "arm") /\ h # "disarm")
      /\ phone' <=> (phone /\ h # "resume")
      /\ todo' = [todo EXCEPT !["worker"] = IF h = "resume" /\ phone
                                            THEN Resume \o Tail(s) ELSE Tail(s)]
      /\ cut' = cut
  BY <1>1, <1>2, Writes, Zenon
<1>4. PlansInv /\ OwnersInv /\ BackInv
  BY DEF PollInv
<1>5. /\ WorkerFits(Tail(s)) /\ h \in Ops \ {"rtInit", "arm", "disarm", "resume"}
      /\ h \in {"rtOff", "pause"} => ~Has(s, "done")
      /\ h = "done" => Tail(s) = <<>> /\ \A w : Has(s, w) => w = "done"
  BY <1>1, <1>3, <1>4, PlansHold, WorkerRest
<1>6. /\ Has(s, h) /\ \A w : Has(Tail(s), w) => Has(s, w)
      /\ \A w : Has(s, w) => w = h \/ Has(Tail(s), w)
  BY <1>1, <1>3, <1>4, PlansHold, HasRest DEF WorkerFits
<1>7. h \notin {"rtInit", "arm", "disarm", "resume"}
  BY <1>5
<1>8. PlansInv' /\ todo'["worker"] = Tail(s) /\ todo'["host"] = todo["host"]
      /\ todo'["timer"] = todo["timer"]
  <2>1. todo' = [todo EXCEPT !["worker"] = Tail(s)]
    BY <1>3, <1>7
  <2>2. Fits("worker", Tail(s))
    BY <1>5 DEF Fits
  <2>3. {"host", "timer"} \subseteq Threads \ {"worker"}
    BY DEF Threads
  <2> QED
    BY <1>2, <1>4, <2>1, <2>2, <2>3, PlansChange
<1>9. OwnersInv'
  BY <1>3, <1>4, <1>5, <1>7, <1>8 DEF OwnersInv
<1>10. ASSUME NEW o \in {"unpause", "rtOn"}, Owed(o), h # o PROVE Owed(o)'
  <2>1. Has(s, o) => h # "done"
    BY <1>5, <1>10
  <2> QED
    BY <1>3, <1>5, <1>6, <1>7, <1>8, <1>10, <2>1 DEF Owed
<1>11. ASSUME h \in {"pause", "rtOff"}, NEW o PROVE Owed(o)'
  <2>1. codeBusy /\ h # "done" /\ ~Has(Tail(s), "done")
    BY <1>3, <1>4, <1>5, <1>6, <1>11 DEF OwnersInv
  <2> QED
    BY <1>3, <1>8, <2>1 DEF Owed
<1>12. BackInv'
  BY <1>3, <1>4, <1>7, <1>10, <1>11 DEF BackInv
<1> QED
  BY <1>8, <1>9, <1>12

LEMMA HostWrites ==
    ASSUME PollInv, Write("host")
    PROVE  PlansInv' /\ OwnersInv' /\ BackInv'
<1> DEFINE s == todo["host"]
<1>1. PICK h : h = Head(s)
  OBVIOUS
<1>2. "host" \in Threads
  BY DEF Threads
<1>3. /\ s # <<>>
      /\ rtOn' <=> (h = "rtOn" \/ (rtOn /\ h \notin {"rtOff", "rtInit"}))
      /\ paused' <=> ((paused \/ h = "pause") /\ h # "unpause")
      /\ moved' <=> ((moved \/ h = "rtInit") /\ h # "rtOn")
      /\ codeBusy' <=> (codeBusy /\ h # "done")
      /\ timer' <=> ((timer \/ h = "arm") /\ h # "disarm")
      /\ phone' <=> (phone /\ h # "resume")
      /\ todo' = [todo EXCEPT !["host"] = IF h = "resume" /\ phone
                                          THEN Resume \o Tail(s) ELSE Tail(s)]
      /\ cut' = cut
  BY <1>1, <1>2, Writes, Zenon
<1>4. PlansInv /\ OwnersInv /\ BackInv
  BY DEF PollInv
<1>5. /\ HostFits(Tail(s)) /\ h \in Ops \ {"rtInit", "done"}
      /\ h = "disarm" => Has(Tail(s), "resume")
      /\ h = "resume" => Tail(s) = <<>>
  BY <1>1, <1>3, <1>4, PlansHold, HostRest
<1>6. /\ Has(s, h) /\ \A w : Has(Tail(s), w) => Has(s, w)
      /\ \A w : Has(s, w) => w = h \/ Has(Tail(s), w)
  BY <1>1, <1>3, <1>4, PlansHold, HasRest DEF HostFits
<1>7. h \notin {"rtInit", "done"}
  BY <1>5
<1>8. PICK r : r = IF h = "resume" /\ phone THEN Resume \o <<>> ELSE Tail(s)
  OBVIOUS
<1>9. HostFits(r)
  BY <1>5, <1>8, HostResumes
<1>10. PlansInv' /\ todo'["host"] = r /\ todo'["worker"] = todo["worker"]
       /\ todo'["timer"] = todo["timer"]
  <2>1. todo' = [todo EXCEPT !["host"] = r]
    BY <1>3, <1>5, <1>8
  <2>2. Fits("host", r)
    BY <1>9 DEF Fits
  <2>3. {"worker", "timer"} \subseteq Threads \ {"host"}
    BY DEF Threads
  <2> QED
    BY <1>2, <1>4, <2>1, <2>2, <2>3, PlansChange
<1>11. h = "resume" /\ phone =>
          /\ ~Has(r, "rtOff") /\ ~Has(r, "pause")
          /\ Has(r, "rtOn") /\ Has(r, "unpause")
  BY <1>8, HostResumes
<1>12. ~(h = "resume" /\ phone) => r = Tail(s)
  BY <1>8
<1>13. OwnersInv'
  <2>1. todo'["worker"] # <<>> => codeBusy'
    BY <1>3, <1>4, <1>7, <1>10 DEF OwnersInv
  <2>2. Has(r, "rtOff") \/ Has(r, "pause") => phone' \/ cut'
    BY <1>3, <1>4, <1>6, <1>11, <1>12 DEF OwnersInv
  <2>3. phone' => timer' \/ Has(r, "arm") \/ Has(r, "resume")
    BY <1>3, <1>4, <1>5, <1>6, <1>12 DEF OwnersInv
  <2> QED
    BY <1>10, <2>1, <2>2, <2>3 DEF OwnersInv
<1>14. ASSUME NEW o \in {"unpause", "rtOn"}, Owed(o), h # o PROVE Owed(o)'
  <2>1. Has(s, o) => Has(r, o)
    BY <1>6, <1>11, <1>12, <1>14
  <2>2. phone => phone' \/ Has(r, o)
    BY <1>3, <1>11
  <2> QED
    BY <1>3, <1>7, <1>10, <1>14, <2>1, <2>2 DEF Owed
<1>15. ASSUME h \in {"pause", "rtOff"}, NEW o PROVE Owed(o)'
  <2>1. phone \/ cut
    BY <1>4, <1>6, <1>15 DEF OwnersInv
  <2> QED
    BY <1>3, <1>15, <2>1 DEF Owed
<1>16. BackInv'
  BY <1>3, <1>4, <1>7, <1>14, <1>15 DEF BackInv
<1> QED
  BY <1>10, <1>13, <1>16

LEMMA TimerWrites ==
    ASSUME PollInv, Write("timer")
    PROVE  PlansInv' /\ OwnersInv' /\ BackInv'
<1> DEFINE s == todo["timer"]
<1>1. PICK h : h = Head(s)
  OBVIOUS
<1>2. "timer" \in Threads
  BY DEF Threads
<1>3. /\ s # <<>>
      /\ rtOn' <=> (h = "rtOn" \/ (rtOn /\ h \notin {"rtOff", "rtInit"}))
      /\ paused' <=> ((paused \/ h = "pause") /\ h # "unpause")
      /\ moved' <=> ((moved \/ h = "rtInit") /\ h # "rtOn")
      /\ codeBusy' <=> (codeBusy /\ h # "done")
      /\ timer' <=> ((timer \/ h = "arm") /\ h # "disarm")
      /\ phone' <=> (phone /\ h # "resume")
      /\ todo' = [todo EXCEPT !["timer"] = IF h = "resume" /\ phone
                                           THEN Resume \o Tail(s) ELSE Tail(s)]
      /\ cut' = cut
  BY <1>1, <1>2, Writes, Zenon
<1>4. PlansInv /\ OwnersInv /\ BackInv
  BY DEF PollInv
<1>5. /\ TimerFits(Tail(s)) /\ h \in Ops \ {"rtInit", "arm", "disarm", "resume", "done"}
      /\ h = "pause" => Has(Tail(s), "unpause")
      /\ h = "rtOff" => Has(Tail(s), "rtOn")
  BY <1>1, <1>3, <1>4, PlansHold, TimerRest
<1>6. \A w : Has(s, w) => w = h \/ Has(Tail(s), w)
  BY <1>1, <1>3, <1>4, PlansHold, HasRest DEF TimerFits
<1>7. h \notin {"rtInit", "arm", "disarm", "resume", "done"}
  BY <1>5
<1>8. PlansInv' /\ todo'["timer"] = Tail(s) /\ todo'["host"] = todo["host"]
      /\ todo'["worker"] = todo["worker"]
  <2>1. todo' = [todo EXCEPT !["timer"] = Tail(s)]
    BY <1>3, <1>7
  <2>2. Fits("timer", Tail(s))
    BY <1>5 DEF Fits
  <2>3. {"host", "worker"} \subseteq Threads \ {"timer"}
    BY DEF Threads
  <2> QED
    BY <1>2, <1>4, <2>1, <2>2, <2>3, PlansChange
<1>9. OwnersInv'
  BY <1>3, <1>4, <1>7, <1>8 DEF OwnersInv
<1>10. ASSUME NEW o \in {"unpause", "rtOn"}, Owed(o), h # o PROVE Owed(o)'
  BY <1>3, <1>6, <1>7, <1>8, <1>10 DEF Owed
<1>11. (h = "pause" => Owed("unpause")') /\ (h = "rtOff" => Owed("rtOn")')
  BY <1>5, <1>8 DEF Owed
<1>12. BackInv'
  BY <1>3, <1>4, <1>7, <1>10, <1>11 DEF BackInv
<1> QED
  BY <1>8, <1>9, <1>12

LEMMA UiWrites ==
    ASSUME PollInv, Write("ui")
    PROVE  PlansInv' /\ OwnersInv' /\ BackInv'
<1> DEFINE s == todo["ui"]
<1>1. PICK h : h = Head(s)
  OBVIOUS
<1>2. "ui" \in Threads
  BY DEF Threads
<1>3. /\ s # <<>>
      /\ rtOn' <=> (h = "rtOn" \/ (rtOn /\ h \notin {"rtOff", "rtInit"}))
      /\ paused' <=> ((paused \/ h = "pause") /\ h # "unpause")
      /\ moved' <=> ((moved \/ h = "rtInit") /\ h # "rtOn")
      /\ codeBusy' <=> (codeBusy /\ h # "done")
      /\ timer' <=> ((timer \/ h = "arm") /\ h # "disarm")
      /\ phone' <=> (phone /\ h # "resume")
      /\ todo' = [todo EXCEPT !["ui"] = IF h = "resume" /\ phone
                                        THEN Resume \o Tail(s) ELSE Tail(s)]
      /\ cut' = cut
  BY <1>1, <1>2, Writes, Zenon
<1>4. PlansInv /\ OwnersInv /\ BackInv
  BY DEF PollInv
<1>5. UiFits(Tail(s)) /\ h \in {"rtInit", "lispOff", "ioOff"}
  BY <1>1, <1>3, <1>4, PlansHold, UiRest
<1>6. PlansInv' /\ UNCHANGED <<todo["worker"], todo["host"], todo["timer"]>>
  <2>1. todo' = [todo EXCEPT !["ui"] = Tail(s)]
    BY <1>3, <1>5
  <2>2. Fits("ui", Tail(s))
    BY <1>5 DEF Fits
  <2>3. {"worker", "host", "timer"} \subseteq Threads \ {"ui"}
    BY DEF Threads
  <2> QED
    BY <1>2, <1>4, <2>1, <2>2, <2>3, PlansChange
<1>7. OwnersInv' /\ BackInv'
  BY <1>3, <1>4, <1>5, <1>6 DEF OwnersInv, BackInv, Owed
<1> QED
  BY <1>6, <1>7

\* Those who start to pause and to resume.
LEMMA OwnersKeep ==
    ASSUME PollInv, Owners
    PROVE  PlansInv' /\ OwnersInv' /\ BackInv'
<1>1. PlansInv /\ OwnersInv /\ BackInv
  BY DEF PollInv
<1>2. /\ WorkerFits(todo["worker"]) /\ HostFits(todo["host"])
      /\ TimerFits(todo["timer"]) /\ UiFits(todo["ui"])
  BY <1>1, PlansHold
<1>3. Threads = {"worker", "host", "timer", "ui"}
  BY DEF Threads
<1>4. CASE CodeStarts
  <2>1. /\ todo' = [todo EXCEPT !["worker"] = Pause] /\ codeBusy'
        /\ UNCHANGED <<rtOn, paused, phone, timer, moved, cut>>
    BY <1>4 DEF CodeStarts, Does, flags
  <2>2. Fits("worker", Pause)
    BY WorkerBegins DEF Fits
  <2>3. /\ PlansInv' /\ todo'["worker"] = Pause /\ todo'["host"] = todo["host"]
        /\ todo'["timer"] = todo["timer"]
    BY <1>1, <1>3, <2>1, <2>2, PlansChange
  <2> QED
    BY <1>1, <2>1, <2>3, WorkerBegins DEF OwnersInv, BackInv, Owed
<1>5. CASE CodeEnds
  <2> DEFINE r == Resume \o <<"done">>
  <2>1. /\ todo' = [todo EXCEPT !["worker"] = r] /\ codeBusy
        /\ UNCHANGED <<rtOn, paused, codeBusy, phone, timer, moved, cut>>
    BY <1>5 DEF CodeEnds, Does, flags
  <2>2. Fits("worker", r) /\ Has(r, "unpause") /\ Has(r, "rtOn")
    BY WorkerBegins DEF Fits
  <2> HIDE DEF r
  <2>3. /\ PlansInv' /\ todo'["worker"] = r /\ todo'["host"] = todo["host"]
        /\ todo'["timer"] = todo["timer"]
    BY <1>1, <1>3, <2>1, <2>2, PlansChange
  <2> QED
    BY <1>1, <2>1, <2>2, <2>3 DEF OwnersInv, BackInv, Owed
<1>6. CASE PhonePacket
  <2> DEFINE r == (IF phone THEN <<>> ELSE Pause) \o <<"arm">>
  <2>1. /\ todo' = [todo EXCEPT !["host"] = r] /\ phone'
        /\ UNCHANGED <<rtOn, paused, codeBusy, timer, moved, cut>>
    BY <1>6 DEF PhonePacket, Does, flags
  <2>2. Fits("host", r) /\ Has(r, "arm")
    BY HostBegins DEF Fits
  <2> HIDE DEF r
  <2>3. /\ PlansInv' /\ todo'["host"] = r /\ todo'["worker"] = todo["worker"]
        /\ todo'["timer"] = todo["timer"]
    BY <1>1, <1>3, <2>1, <2>2, PlansChange
  <2> QED
    BY <1>1, <2>1, <2>2, <2>3 DEF OwnersInv, BackInv, Owed
<1>7. CASE PhoneLeaves
  <2> DEFINE r == <<"disarm", "resume">>
  <2>1. /\ todo["host"] = <<>> /\ todo' = [todo EXCEPT !["host"] = r]
        /\ UNCHANGED <<rtOn, paused, codeBusy, phone, timer, moved, cut>>
    BY <1>7 DEF PhoneLeaves, Does, Idle, flags
  <2>2. Fits("host", r) /\ Has(r, "resume") /\ ~Has(r, "rtOff") /\ ~Has(r, "pause")
    BY HostBegins DEF Fits
  <2> HIDE DEF r
  <2>3. /\ PlansInv' /\ todo'["host"] = r /\ todo'["worker"] = todo["worker"]
        /\ todo'["timer"] = todo["timer"]
    BY <1>1, <1>3, <2>1, <2>2, PlansChange
  <2> QED
    BY <1>1, <2>1, <2>2, <2>3, HasNone DEF OwnersInv, BackInv, Owed
<1>8. CASE TimerFires
  <2> DEFINE r == IF phone THEN Resume ELSE <<>>
  <2>1. /\ todo["timer"] = <<>> /\ todo' = [todo EXCEPT !["timer"] = r] /\ ~phone' /\ ~timer'
        /\ cut' <=> (cut \/ (phone /\ Len(todo["host"]) > 1))
        /\ UNCHANGED <<rtOn, paused, codeBusy, moved>>
    BY <1>8 DEF TimerFires, Does, Idle, flags
  <2>2. Fits("timer", r) /\ (phone => Has(r, "unpause") /\ Has(r, "rtOn"))
    BY TimerBegins DEF Fits
  <2> HIDE DEF r
  <2>3. /\ PlansInv' /\ todo'["timer"] = r /\ todo'["worker"] = todo["worker"]
        /\ todo'["host"] = todo["host"]
    BY <1>1, <1>3, <2>1, <2>2, PlansChange
  <2>4. \A w \in {"rtOff", "pause"} : Has(todo["host"], w) => Len(todo["host"]) > 1
    BY <1>2, HasNone, HostRest
  <2>5. OwnersInv'
    BY <1>1, <2>1, <2>3, <2>4 DEF OwnersInv
  <2> QED
    BY <1>1, <2>1, <2>2, <2>3, <2>5, HasNone DEF BackInv, Owed
<1>9. CASE LinkChanged
  <2>1. UNCHANGED <<todo, rtOn, paused, codeBusy, phone, timer, moved, cut>>
    BY <1>9 DEF LinkChanged, flags
  <2> QED
    BY <1>1, <2>1 DEF PlansInv, OwnersInv, BackInv, Owed
<1>10. CASE Swaps
  <2>1. /\ todo["timer"] = <<>> /\ todo' = [todo EXCEPT !["timer"] = Swap]
        /\ UNCHANGED <<rtOn, paused, codeBusy, phone, timer, moved, cut>>
    BY <1>10 DEF Swaps, Does, Idle, flags
  <2>2. Fits("timer", Swap)
    BY TimerBegins DEF Fits
  <2>3. /\ PlansInv' /\ todo'["worker"] = todo["worker"] /\ todo'["host"] = todo["host"]
    BY <1>1, <1>3, <2>1, <2>2, PlansChange
  <2> QED
    BY <1>1, <2>1, <2>3, HasNone DEF OwnersInv, BackInv, Owed
<1>11. CASE TargetChanged
  <2>1. /\ todo' = [todo EXCEPT !["ui"] = Target]
        /\ UNCHANGED <<rtOn, paused, codeBusy, phone, timer, moved, cut>>
    BY <1>11 DEF TargetChanged, Does, flags
  <2>2. Fits("ui", Target)
    BY UiBegins DEF Fits
  <2>3. /\ PlansInv' /\ UNCHANGED <<todo["worker"], todo["host"], todo["timer"]>>
    BY <1>1, <1>3, <2>1, <2>2, PlansChange
  <2> QED
    BY <1>1, <2>1, <2>3 DEF OwnersInv, BackInv, Owed
<1> QED
  BY <1>4, <1>5, <1>6, <1>7, <1>8, <1>9, <1>10, <1>11 DEF Owners

\* The rest writes none of it.
LEMMA OthersKeep ==
    ASSUME PollInv, UNCHANGED <<todo, rtOn, paused, codeBusy, phone, timer, moved, cut>>
    PROVE  PlansInv' /\ OwnersInv' /\ BackInv'
BY DEF PollInv, PlansInv, OwnersInv, BackInv, Owed

LEMMA InvInit == Init => PollInv
<1> SUFFICES ASSUME Init PROVE PollInv
  OBVIOUS
<1>1. todo = [t \in Threads |-> <<>>] /\ rtOn /\ ~paused /\ ~phone
  BY DEF Init
<1>2. \A t \in Threads : todo[t] = <<>>
  BY <1>1
<1>3. \A t \in Threads : Fits(t, <<>>)
  BY WorkerBegins, HostBegins, TimerBegins, UiBegins DEF Fits, Threads
<1>4. PlansInv
  BY <1>1, <1>2, <1>3 DEF PlansInv
<1>5. OwnersInv /\ BackInv
  BY <1>1, <1>2, HasNone DEF OwnersInv, BackInv, Threads
<1> QED
  BY <1>4, <1>5, TypesInit DEF PollInv

LEMMA InvNext == PollInv /\ [Next]_vars => PollInv'
<1> SUFFICES ASSUME PollInv, [Next]_vars PROVE PollInv'
  OBVIOUS
<1>1. Types
  BY DEF PollInv
<1>2. CASE UNCHANGED vars
  <2>1. Types'
    BY <1>1, <1>2 DEF vars, Types, FlagTypes, CountTypes, RideTypes
  <2> QED
    BY <1>2, <2>1, OthersKeep DEF vars, PollInv
<1>3. ASSUME NEW t \in Threads, Write(t) PROVE PollInv'
  BY <1>1, <1>3, WriteTypes, WorkerWrites, HostWrites, TimerWrites, UiWrites DEF PollInv, Threads
<1>4. CASE Owners
  BY <1>1, <1>4, OwnersTypes, OwnersKeep DEF PollInv
<1>5. CASE Screens
  <2>1. UNCHANGED <<todo, rtOn, paused, codeBusy, phone, timer, moved, cut>>
    BY <1>5 DEF Screens, Viewer, Drawer, Tap, AsksStats, flags, own
  <2> QED
    BY <1>1, <1>5, <2>1, ScreensTypes, OthersKeep DEF PollInv
<1>6. CASE RtLoop \/ OnceLoop \/ IoLoop \/ DashLoop \/ PanelLoop \/ AuxLoop
  <2>1. Same
    BY <1>6 DEF RtLoop, OnceLoop, IoLoop, DashLoop, PanelLoop, AuxLoop
  <2> QED
    BY <1>1, <1>6, <2>1, LoopTypes, OthersKeep DEF PollInv, Same, flags, own
<1>7. CASE PasLoop \/ PasTick \/ PasHangs \/ PasAges
  <2>1. UNCHANGED <<flags, own>>
    BY <1>7 DEF PasLoop, PasLooks, PasSends, ZeroSends, ZeroBooks, PasTick, PasHangs, PasAges
  <2> QED
    BY <1>1, <1>7, <2>1, RideStepTypes, OthersKeep DEF PollInv, flags, own
<1> QED
  BY <1>2, <1>3, <1>4, <1>5, <1>6, <1>7 DEF Next, Pass

-----------------------------------------------------------------------------
(* The theorems *)

LEMMA Invariant == Spec => []PollInv
BY InvInit, InvNext, PTL DEF Spec

\* Every variable has its type, and a phone that has paused the polls is waited
\* for by the timer, or about to be let go.
THEOREM TypeCorrect == Spec => []TypeOK
<1>1. PollInv => TypeOK
  <2> SUFFICES ASSUME PollInv PROVE TypeOK
    OBVIOUS
  <2>1. Types /\ PlansInv /\ OwnersInv
    BY DEF PollInv
  <2>2. {rtOn, lispOn, ioOn, paused, panelOn, once, codeBusy, phone, timer, moved,
         cut, covered} \subseteq BOOLEAN
    BY <2>1 DEF Types, FlagTypes
  <2>3. taps \in 0 .. MaxTaps /\ swaps \in 0 .. MaxEvents /\ events \in 0 .. MaxEvents
    BY <2>1, PollTaskAssumption DEF Types, CountTypes
  <2>4. at \in Sending \cup {"rt", "once", "io", "dash", "panel", "pas", "pasSends",
                             "zeroSends", "zeroBooks", "probe"}
    BY <2>1 DEF Types, CountTypes
  <2>5. todo \in [Threads -> Seq(Ops)]
    <3>1. ASSUME NEW t \in Threads PROVE todo[t] \in Seq(Ops)
      <4>1. PICK S : S \subseteq Ops /\ todo[t] \in Seq(S)
        BY <2>1, PlansHold DEF Threads, WorkerFits, HostFits, TimerFits, UiFits, Ops
      <4>2. \A i \in 1 .. Len(todo[t]) : todo[t][i] \in Ops
        BY <4>1
      <4> QED
        BY <4>1, <4>2, SeqOf
    <3> QED
      BY <2>1, <3>1 DEF PlansInv
  <2>6. phone /\ Idle("host") /\ Idle("timer") => timer
    BY <2>1, HasNone DEF OwnersInv, Idle
  <2> QED
    BY <2>1, <2>2, <2>3, <2>4, <2>5, <2>6 DEF Types, RideTypes, Setpoints, Ops, TypeOK
<1> QED
  BY <1>1, Invariant, PTL

\* Once all who pause the polls are done, the dashboard is polled again, and so
\* is the telemetry, but for the two holes.
THEOREM PollsReturn == Spec => []PollsComeBack
<1>1. PollInv => PollsComeBack
  <2> SUFFICES ASSUME PollInv, \A t \in Threads : Idle(t), ~codeBusy, ~phone
               PROVE  cut \/ (~paused /\ (rtOn \/ moved))
    BY DEF PollsComeBack
  <2>1. todo["host"] = <<>> /\ todo["timer"] = <<>>
    BY DEF Idle, Threads
  <2> QED
    BY <2>1, HasNone DEF PollInv, BackInv, Owed
<1> QED
  BY <1>1, Invariant, PTL
=============================================================================
