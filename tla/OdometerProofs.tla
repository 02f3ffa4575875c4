--------------------------- MODULE OdometerProofs ---------------------------
(***************************************************************************)
(* Proofs about Odometer, for every value of its constants.                *)
(***************************************************************************)
EXTENDS Odometer, TLAPS

----------------------------------------------------------------------------
(* The pure operators *)

\* The three branches of trip_persist_update: what each does to the fields.
LEMMA BranchTypes ==
    ASSUME NEW t \in TripStates, NEW r \in Readings
    PROVE  /\ Heard(t, r) \in TripStates
           /\ FirstUpdate(t, r) \in TripStates
           /\ Folded(t, r) \in TripStates
           /\ Held(t, r) \in TripStates
<1>1. Heard(t, r) \in TripStates
  BY DEF TripStates, Readings, Heard
<1>2. FirstUpdate(t, r) \in TripStates
  <2> DEFINE o == (IF t.saved THEN t.offset ELSE 0) - r.tach
  <2>1. o \in Int
    <3>1. CASE t.saved BY <3>1 DEF TripStates, Readings
    <3>2. CASE ~t.saved BY <3>2 DEF TripStates, Readings
    <3> QED BY <3>1, <3>2
  <2> HIDE DEF o
  <2>2. [t EXCEPT !.offset = o, !.first = FALSE, !.cur = r.tach, !.curUp = r.up]
           \in TripStates
    BY <2>1 DEF TripStates, Readings
  <2> QED BY <2>2 DEF FirstUpdate, o
<1>3. Folded(t, r) \in TripStates
  <2> DEFINE o == t.offset + t.cur
  <2>1. o \in Int
    BY DEF TripStates
  <2> HIDE DEF o
  <2>2. [t EXCEPT !.offset = o, !.cur = r.tach, !.curUp = r.up] \in TripStates
    BY <2>1 DEF TripStates, Readings
  <2> QED BY <2>2 DEF Folded, o
<1>4. Held(t, r) \in TripStates
  <2>1. Larger(t.cur, r.tach) \in Nat /\ Larger(t.curUp, r.up) \in Nat
    BY DEF Larger, TripStates, Readings
  <2> QED BY <2>1 DEF TripStates, Readings, Held
<1> QED BY <1>1, <1>2, <1>3, <1>4

LEMMA BranchFields ==
    ASSUME NEW t \in TripStates, NEW r \in Readings
    PROVE  /\ Heard(t, r).first = t.first /\ Heard(t, r).saved = t.saved
           /\ Heard(t, r).offset = t.offset /\ Heard(t, r).cur = t.cur
           /\ Heard(t, r).curUp = t.curUp
           /\ FirstUpdate(t, r).first = FALSE
           /\ FirstUpdate(t, r).cur = r.tach /\ FirstUpdate(t, r).curUp = r.up
           /\ FirstUpdate(t, r).upSup = t.upSup
           /\ TripM(FirstUpdate(t, r)) = IF t.saved THEN t.offset ELSE 0
           /\ Folded(t, r).first = t.first
           /\ Folded(t, r).cur = r.tach /\ Folded(t, r).curUp = r.up
           /\ Folded(t, r).upSup = t.upSup
           /\ TripM(Folded(t, r)) = TripM(t) + r.tach
           /\ Held(t, r).first = t.first /\ Held(t, r).upSup = t.upSup
           /\ Held(t, r).cur = Larger(t.cur, r.tach)
           /\ Held(t, r).curUp = Larger(t.curUp, r.up)
           /\ TripM(Held(t, r)) = Larger(t.cur, r.tach) + t.offset
  BY DEF TripStates, Readings, Heard, FirstUpdate, Folded, Held, Larger, TripM

\* trip_persist_update takes one of the three branches on the reading's h.
LEMMA TripUpdateBranches ==
    ASSUME NEW t \in TripStates, NEW r \in Readings
    PROVE  \E h \in TripStates :
              /\ h = Heard(t, r)
              /\ h.first = t.first /\ h.saved = t.saved /\ h.offset = t.offset
              /\ h.cur = t.cur /\ h.curUp = t.curUp
              /\ h.first => TripUpdate(t, r) = FirstUpdate(h, r)
              /\ ~h.first /\ Rebooted(h, r) => TripUpdate(t, r) = Folded(h, r)
              /\ ~h.first /\ ~Rebooted(h, r) => TripUpdate(t, r) = Held(h, r)
<1>1. Heard(t, r) \in TripStates
  BY BranchTypes
<1> QED BY <1>1, BranchFields, Zenon DEF TripUpdate

\* ... keeps the types and ends the wait for a first reading.
LEMMA TripUpdateType ==
    ASSUME NEW t \in TripStates, NEW r \in Readings
    PROVE  TripUpdate(t, r) \in TripStates /\ ~TripUpdate(t, r).first
<1>1. PICK h \in TripStates :
              /\ h.first => TripUpdate(t, r) = FirstUpdate(h, r)
              /\ ~h.first /\ Rebooted(h, r) => TripUpdate(t, r) = Folded(h, r)
              /\ ~h.first /\ ~Rebooted(h, r) => TripUpdate(t, r) = Held(h, r)
  BY TripUpdateBranches, Zenon
<1>2. /\ FirstUpdate(h, r) \in TripStates /\ ~FirstUpdate(h, r).first
      /\ Folded(h, r) \in TripStates /\ Folded(h, r).first = h.first
      /\ Held(h, r) \in TripStates /\ Held(h, r).first = h.first
  BY BranchTypes, BranchFields, Zenon
<1> QED BY <1>1, <1>2

\* ... and never lowers the trip total, whatever the reading.
LEMMA TripUpdateMonotone ==
    ASSUME NEW t \in TripStates, NEW r \in Readings, FreshTrip(t)
    PROVE  TripM(t) <= TripM(TripUpdate(t, r))
<1>1. PICK h \in TripStates :
              /\ h.first = t.first /\ h.saved = t.saved /\ h.offset = t.offset
              /\ h.cur = t.cur
              /\ h.first => TripUpdate(t, r) = FirstUpdate(h, r)
              /\ ~h.first /\ Rebooted(h, r) => TripUpdate(t, r) = Folded(h, r)
              /\ ~h.first /\ ~Rebooted(h, r) => TripUpdate(t, r) = Held(h, r)
  BY TripUpdateBranches, Zenon
<1>2. /\ TripM(FirstUpdate(h, r)) = IF h.saved THEN h.offset ELSE 0
      /\ TripM(Folded(h, r)) = TripM(h) + r.tach
      /\ TripM(Held(h, r)) = Larger(h.cur, r.tach) + h.offset
  BY BranchFields, Zenon
<1>3. CASE h.first
  BY <1>1, <1>2, <1>3 DEF FreshTrip, TripM, TripStates
<1>4. CASE ~h.first /\ Rebooted(h, r)
  BY <1>1, <1>2, <1>4 DEF TripM, TripStates, Readings
<1>5. CASE ~h.first /\ ~Rebooted(h, r)
  BY <1>1, <1>2, <1>5 DEF Larger, TripM, TripStates, Readings
<1> QED BY <1>3, <1>4, <1>5

\* odo_persist_update keeps a base it has, and a new base shows the raw counter.
LEMMA OdoUpdateFacts ==
    ASSUME NEW o \in OdoStates, NEW t \in TripStates, NEW raw \in Nat
    PROVE  /\ OdoUpdate(o, t, raw) \in OdoStates
           /\ o.based => OdoUpdate(o, t, raw) = o
           /\ OdoUpdate(o, t, raw).based /\ ~o.based =>
                  OdoUpdate(o, t, raw).base + TripM(t) = raw
<1>1. CASE o.based \/ raw = 0
  BY <1>1 DEF OdoUpdate, OdoStates
<1>2. CASE ~(o.based \/ raw = 0) /\ o.haveRaw /\ Distance(raw, o.lastRaw) <= AdoptStep
  <2> DEFINE b == raw - TripM(t)
  <2>1. b \in Int /\ b + TripM(t) = raw
    BY DEF TripM, TripStates
  <2>2. OdoUpdate(o, t, raw) = [o EXCEPT !.base = b, !.based = TRUE, !.dirty = TRUE,
                                         !.haveRaw = TRUE, !.lastRaw = raw]
    BY <1>2, Zenon DEF OdoUpdate
  <2> HIDE DEF b
  <2> QED BY <1>2, <2>1, <2>2 DEF OdoStates
<1>3. CASE ~(o.based \/ raw = 0) /\ ~(o.haveRaw /\ Distance(raw, o.lastRaw) <= AdoptStep)
  <2>1. OdoUpdate(o, t, raw) = [o EXCEPT !.haveRaw = TRUE, !.lastRaw = raw]
    BY <1>3, Zenon DEF OdoUpdate
  <2> QED BY <1>3, <2>1 DEF OdoStates
<1> QED BY <1>1, <1>2, <1>3

LEMMA OdoMType ==
    ASSUME NEW o \in OdoStates, NEW t \in TripStates
    PROVE  OdoM(o, t) \in Nat
  BY DEF OdoM, OdoStates, TripStates, TripM

LEMMA SentType ==
    ASSUME NEW q \in Seq(Records), NEW rec \in Records
    PROVE  Sent(q, rec) \in Seq(Records)
  BY DEF Sent

LEMMA QueueOdoType ==
    ASSUME NEW q \in Seq(Records), NEW o \in OdoStates, NEW t \in TripStates,
           NEW tr \in Truths
    PROVE  /\ QueueOdo(q, o, t, tr) \in Seq(Records)
           /\ OdoQueued(q, o) \in OdoStates
           /\ OdoQueued(q, o).base = o.base /\ OdoQueued(q, o).based = o.based
<1>1. Checkpoint(o, t, tr) \in Records
  BY OdoMType DEF Checkpoint, Records
<1> QED BY <1>1, SentType DEF QueueOdo, OdoQueued, OdoStates

LEMMA DeltaType ==
    ASSUME NEW a \in Readings, NEW b \in Readings
    PROVE  Delta(a, b) \in Int
  BY DEF Delta, Readings

----------------------------------------------------------------------------
(* Type correctness *)

TypeInv == TypeOK /\ FreshTrip(trip)

\* What a UI tick does to the odometer: a base it had, it keeps; a base it has
\* just adopted shows the controller's own counter; the rest is bookkeeping.
LEMMA UiTickOdo ==
    ASSUME TypeInv, NEW r \in Readings, UiTick(r)
    PROVE  /\ odo' \in OdoStates /\ queue' \in Seq(Records) /\ truth' \in Truths
           /\ odo.based => /\ odo'.based /\ odo'.base = odo.base
                           /\ truth'.m = truth.m +
                                 (IF trip.first THEN 0 ELSE Delta(seen, r))
           /\ ~odo.based /\ odo'.based =>
                 /\ odo'.base + TripM(trip') = truth'.m
                 /\ truth'.m \in Nat
<1>1. trip \in TripStates /\ odo \in OdoStates /\ queue \in Seq(Records)
      /\ truth \in Truths /\ seen \in Readings /\ FreshTrip(trip) /\ TripM(trip) >= 0
  BY DEF TypeInv, TypeOK
<1>2. trip' \in TripStates
  BY <1>1, TripUpdateType DEF UiTick
<1>3. TripM(trip') \in Nat
  <2>1. TripM(trip) \in Int /\ TripM(trip') \in Int
    BY <1>1, <1>2 DEF TripM, TripStates
  <2>2. TripM(trip) <= TripM(trip')
    BY <1>1, TripUpdateMonotone DEF UiTick
  <2> QED BY <1>1, <2>1, <2>2
<1> DEFINE delta == IF trip.first THEN 0 ELSE Delta(seen, r)
<1>4. delta \in Int
  BY <1>1, DeltaType
<1> HIDE DEF delta
<1>5. PICK raw \in RawOdometers, due \in BOOLEAN :
          LET o == OdoUpdate(odo, trip', raw)
              m == IF o.based /\ ~odo.based THEN raw ELSE truth.m + delta
              q == Sent(queue, Sample(trip'))
          IN  /\ truth' = IF o.based THEN [truth EXCEPT !.m = m] ELSE truth
              /\ IF due THEN /\ queue' = QueueOdo(q, o, trip', truth')
                             /\ odo' = OdoQueued(q, o)
                        ELSE queue' = queue /\ odo' = o
  BY Zenon DEF UiTick, delta
<1> DEFINE o == OdoUpdate(odo, trip', raw)
           q == Sent(queue, Sample(trip'))
           m == IF o.based /\ ~odo.based THEN raw ELSE truth.m + delta
<1>6. raw \in Nat
  BY OdometerAssumption
<1>7. /\ o \in OdoStates
      /\ odo.based => o = odo
      /\ o.based /\ ~odo.based => o.base + TripM(trip') = raw
  BY <1>1, <1>2, <1>6, OdoUpdateFacts
<1>8. m \in Int
  BY <1>1, <1>4, <1>6 DEF Truths
<1>9. truth' = IF o.based THEN [truth EXCEPT !.m = m] ELSE truth
  BY <1>5
<1>10. IF due THEN queue' = QueueOdo(q, o, trip', truth') /\ odo' = OdoQueued(q, o)
              ELSE queue' = queue /\ odo' = o
  BY <1>5
<1>11. q \in Seq(Records)
  <2>1. Sample(trip') \in Records
    BY <1>3 DEF Sample, Records, Truths, NoTruth
  <2> QED BY <1>1, <2>1, SentType
<1> HIDE DEF o, q, m
<1>12. truth' \in Truths
  BY <1>1, <1>8, <1>9 DEF Truths
<1>13. queue' \in Seq(Records) /\ odo' \in OdoStates
       /\ odo'.base = o.base /\ odo'.based = o.based
  <2>1. CASE due
    BY <2>1, <1>2, <1>7, <1>10, <1>11, <1>12, QueueOdoType
  <2>2. CASE ~due
    BY <2>2, <1>1, <1>7, <1>10
  <2> QED BY <2>1, <2>2
<1>14. o.based => truth'.m = m
  BY <1>1, <1>9 DEF Truths
<1>15. odo.based => odo'.based /\ odo'.base = odo.base /\ truth'.m = truth.m + delta
  BY <1>7, <1>13, <1>14 DEF m
<1>16. ~odo.based /\ odo'.based =>
          odo'.base + TripM(trip') = truth'.m /\ truth'.m \in Nat
  BY <1>6, <1>7, <1>13, <1>14 DEF m
<1> QED BY <1>12, <1>13, <1>15, <1>16 DEF delta

LEMMA UiTickTypes ==
    ASSUME TypeInv, NEW r \in Readings, UiTick(r)
    PROVE  /\ trip' \in TripStates /\ ~trip'.first /\ FreshTrip(trip')
           /\ TripM(trip) <= TripM(trip') /\ TripM(trip') \in Nat
           /\ odo' \in OdoStates /\ queue' \in Seq(Records)
           /\ truth' \in Truths /\ seen' \in Readings
           /\ odo'.based => odo'.base + TripM(trip') >= 0
<1>1. trip \in TripStates /\ FreshTrip(trip) /\ TripM(trip) >= 0 /\ odo \in OdoStates
      /\ (odo.based => odo.base + TripM(trip) >= 0)
  BY DEF TypeInv, TypeOK
<1>2. trip' \in TripStates /\ ~trip'.first
  BY <1>1, TripUpdateType DEF UiTick
<1>3. TripM(trip) <= TripM(trip')
  BY <1>1, TripUpdateMonotone DEF UiTick
<1>4. TripM(trip) \in Int /\ TripM(trip') \in Int
  BY <1>1, <1>2 DEF TripM, TripStates
<1>5. odo' \in OdoStates /\ queue' \in Seq(Records) /\ truth' \in Truths
  BY UiTickOdo
<1>6. odo'.based => odo'.base + TripM(trip') >= 0
  <2>1. CASE odo.based
    <3>1. odo'.base = odo.base
      BY <2>1, UiTickOdo
    <3> QED BY <2>1, <3>1, <1>1, <1>3, <1>4 DEF OdoStates
  <2>2. CASE ~odo.based
    <3>1. odo'.based => odo'.base + TripM(trip') = truth'.m /\ truth'.m \in Nat
      BY <2>2, UiTickOdo
    <3> QED BY <3>1
  <2> QED BY <2>1, <2>2
<1> QED BY <1>1, <1>2, <1>3, <1>4, <1>5, <1>6 DEF FreshTrip, UiTick

\* The initial values have their types, and counting a use keeps its type.
LEMMA InitialValues ==
    /\ NoReading \in Readings /\ NoTruth \in Truths
    /\ ZeroTrip \in TripStates /\ ZeroTrip.first /\ ~ZeroTrip.upSup
    /\ FreshTrip(ZeroTrip) /\ TripM(ZeroTrip) = 0
    /\ NoOdo \in OdoStates /\ ~NoOdo.based
<1>1. NoReading \in Readings /\ NoTruth \in Truths
  BY DEF NoReading, Readings, NoTruth, Truths
<1>2. ZeroTrip \in TripStates
  BY DEF ZeroTrip, TripStates
<1>3. /\ ZeroTrip.first /\ ~ZeroTrip.upSup /\ ZeroTrip.cur = 0
      /\ ZeroTrip.curUp = 0 /\ ZeroTrip.offset = 0
  BY DEF ZeroTrip
<1>4. FreshTrip(ZeroTrip) /\ TripM(ZeroTrip) = 0
  BY <1>3 DEF FreshTrip, TripM
<1>5. NoOdo \in OdoStates /\ ~NoOdo.based
  BY DEF NoOdo, OdoStates
<1> QED BY <1>1, <1>2, <1>3, <1>4, <1>5

LEMMA Counting ==
    ASSUME NEW u \in Uses, NEW n \in Nat
    PROVE  /\ [u EXCEPT !.dist = n] \in Uses
           /\ [u EXCEPT !.reboots = n] \in Uses
           /\ [u EXCEPT !.edits = n] \in Uses
           /\ [u EXCEPT !.resets = n] \in Uses
           /\ [u EXCEPT !.cuts = n] \in Uses
           /\ [u EXCEPT !.faults = n] \in Uses
  BY DEF Uses

\* Re-basing on an absolute value shows exactly that value.
LEMMA RebasedFacts ==
    ASSUME NEW o \in OdoStates, NEW t \in TripStates, NEW value \in Nat,
           NEW dirty \in BOOLEAN
    PROVE  /\ Rebased(o, t, value, dirty) \in OdoStates
           /\ Rebased(o, t, value, dirty).based
           /\ Rebased(o, t, value, dirty).base + TripM(t) = value
<1> DEFINE b == value - TripM(t)
<1>1. b \in Int /\ b + TripM(t) = value
  BY DEF TripM, TripStates
<1>2. Rebased(o, t, value, dirty) =
        [o EXCEPT !.base = b, !.based = TRUE, !.dirty = dirty, !.haveRaw = FALSE]
  BY DEF Rebased
<1> HIDE DEF b
<1> QED BY <1>1, <1>2 DEF OdoStates

\* A trip reset moves the finished trip into the base: the sum stays.
LEMMA ResetFacts ==
    ASSUME NEW o \in OdoStates, NEW t \in TripStates, TripM(t) >= 0
    PROVE  /\ ZeroState(t) \in TripStates /\ ZeroState(t).first
           /\ FreshTrip(ZeroState(t)) /\ TripM(ZeroState(t)) = 0
           /\ OdoOnTripReset(o, t) \in OdoStates
           /\ OdoOnTripReset(o, t).based = o.based
           /\ o.based => OdoOnTripReset(o, t).base = o.base + TripM(t)
<1>1. /\ ZeroState(t) \in TripStates /\ ZeroState(t).first
      /\ FreshTrip(ZeroState(t)) /\ TripM(ZeroState(t)) = 0
  <2>1. t.upSup \in BOOLEAN
    BY DEF TripStates
  <2>2. ZeroState(t) = [ZeroTrip EXCEPT !.upSup = t.upSup]
    BY DEF ZeroState
  <2>3. ZeroState(t) \in TripStates
    BY <2>1, <2>2, InitialValues DEF TripStates
  <2>4. /\ ZeroState(t).first /\ ZeroState(t).cur = 0
        /\ ZeroState(t).curUp = 0 /\ ZeroState(t).offset = 0
    BY <2>2 DEF ZeroTrip
  <2> QED BY <2>3, <2>4 DEF FreshTrip, TripM
<1>2. TripM(t) \in Int
  BY DEF TripM, TripStates
<1>3. CASE o.based /\ TripM(t) > 0
  <2> DEFINE b == o.base + TripM(t)
  <2>1. b \in Int
    BY <1>2 DEF OdoStates
  <2>2. OdoOnTripReset(o, t) = [o EXCEPT !.base = b, !.dirty = TRUE]
    BY <1>3 DEF OdoOnTripReset
  <2> HIDE DEF b
  <2>3. OdoOnTripReset(o, t) \in OdoStates /\ OdoOnTripReset(o, t).based = o.based
        /\ OdoOnTripReset(o, t).base = b
    BY <2>1, <2>2 DEF OdoStates
  <2> QED BY <1>1, <2>3 DEF b
<1>4. CASE ~(o.based /\ TripM(t) > 0)
  BY <1>1, <1>2, <1>4 DEF OdoOnTripReset, OdoStates
<1> QED BY <1>3, <1>4

\* The boot seeds: the trip waits for its first reading, and the odometer shows
\* the checkpoint whatever trip the sample belongs to.
LEMMA BootFacts ==
    ASSUME TypeInv, Boot
    PROVE  /\ trip' \in TripStates /\ trip'.first /\ FreshTrip(trip')
           /\ TripM(trip') >= 0 /\ ~trip'.upSup
           /\ odo' \in OdoStates
           /\ odo'.based <=> log.odo # None
           /\ odo'.based => odo'.base + TripM(trip') = log.odo
<1> DEFINE t == IF log.sample = None THEN ZeroTrip ELSE Seeded(ZeroTrip, log.sample)
<1>1. trip' = t
  BY DEF Boot
<1>2. log.sample \in Nat \cup {None} /\ log.odo \in Nat \cup {None}
  BY DEF TypeInv, TypeOK
<1>3. t \in TripStates /\ t.first /\ FreshTrip(t) /\ TripM(t) >= 0 /\ ~t.upSup
  <2>1. CASE log.sample = None
    BY <2>1, InitialValues
  <2>2. CASE log.sample # None
    <3>1. log.sample \in Nat
      BY <1>2, <2>2
    <3>2. t = [ZeroTrip EXCEPT !.offset = log.sample, !.saved = TRUE, !.first = TRUE]
      BY <2>2 DEF Seeded
    <3> HIDE DEF t
    <3>3. t \in TripStates
      <4>1. log.sample \in Int /\ ZeroTrip \in TripStates
        BY <3>1, InitialValues
      <4> QED BY <3>2, <4>1 DEF TripStates
    <3>4. /\ t.first /\ t.saved /\ ~t.upSup /\ t.cur = 0 /\ t.curUp = 0
          /\ t.offset = log.sample
      BY <3>2 DEF ZeroTrip
    <3> QED BY <3>1, <3>3, <3>4 DEF FreshTrip, TripM
  <2> QED BY <2>1, <2>2
<1>4. NoOdo \in OdoStates /\ ~NoOdo.based
  BY InitialValues
<1>5. odo' = IF log.odo = None THEN NoOdo ELSE Rebased(NoOdo, t, log.odo, FALSE)
  BY DEF Boot
<1> HIDE DEF t
<1>6. CASE log.odo = None
  BY <1>1, <1>3, <1>4, <1>5, <1>6
<1>7. CASE log.odo # None
  <2>1. log.odo \in Nat
    BY <1>2, <1>7
  <2> QED BY <1>1, <1>3, <1>4, <1>5, <1>7, <2>1, RebasedFacts
<1> QED BY <1>6, <1>7

LEMMA TypeInit == Init => TypeInv
<1> SUFFICES ASSUME Init PROVE TypeInv
  OBVIOUS
<1>1. vesc \in Readings
  BY DEF Init, NoReading, Readings
<1>2. log \in [sample : Nat \cup {None}, odo : Nat \cup {None}, truth : Truths]
  <2> DEFINE l == [sample |-> None, odo |-> None, truth |-> NoTruth]
  <2>1. NoTruth \in Truths
    BY InitialValues
  <2>2. l \in [sample : Nat \cup {None}, odo : Nat \cup {None}, truth : Truths]
    BY <2>1
  <2> QED BY <2>2 DEF Init
<1>3. used \in Uses
  BY DEF Init, Uses
<1>4. /\ rt = NoReading /\ heard = FALSE /\ power = FALSE /\ trip = ZeroTrip
      /\ odo = NoOdo /\ queue = <<>> /\ seen = NoReading /\ truth = NoTruth
  BY DEF Init
<1>5. queue \in Seq(Records)
  BY <1>4
<1>6. TripM(trip) >= 0 /\ ~odo.based
  BY <1>4, InitialValues
<1>7. /\ rt \in Readings /\ trip \in TripStates /\ FreshTrip(trip)
      /\ odo \in OdoStates /\ seen \in Readings /\ truth \in Truths
  BY <1>4, InitialValues
<1> QED BY <1>1, <1>2, <1>3, <1>4, <1>5, <1>6, <1>7 DEF TypeInv, TypeOK

\* What the controller may do to its own counters keeps their types.
LEMMA ReadingTypes ==
    ASSUME NEW v \in Readings, NEW a \in Nat, NEW b \in Nat
    PROVE  /\ [v EXCEPT !.tach = a, !.up = b] \in Readings
           /\ [v EXCEPT !.up = b] \in Readings
           /\ [v EXCEPT !.tach = a] \in Readings
           /\ [tach |-> 0, up |-> 0, epoch |-> v.epoch + 1] \in Readings
           /\ v.tach \in Nat /\ v.up \in Nat /\ v.epoch \in Nat
<1>1. v.epoch + 1 \in Nat
  BY DEF Readings
<1> DEFINE e == v.epoch + 1
<1> HIDE DEF e
<1>2. [tach |-> 0, up |-> 0, epoch |-> e] \in Readings
  BY <1>1 DEF e, Readings
<1> QED BY <1>2 DEF Readings, e

LEMMA TypeStep == TypeInv /\ [Next]_vars => TypeInv'
<1> SUFFICES ASSUME TypeInv, [Next]_vars PROVE TypeInv'
  OBVIOUS
<1> USE DEF TypeInv, TypeOK
<1>u. /\ used.dist \in Nat /\ used.reboots \in Nat /\ used.edits \in Nat
      /\ used.resets \in Nat /\ used.cuts \in Nat /\ used.faults \in Nat
  BY DEF Uses
<1>1. CASE Ride
  <2>1. PICK d \in Steps : LET up == IF HasUptime THEN vesc.up + 1 ELSE 0
                           IN  /\ vesc' = [vesc EXCEPT !.tach = @ + d, !.up = up]
                               /\ used' = [used EXCEPT !.dist = @ + d]
    BY <1>1, Zenon DEF Ride
  <2> DEFINE a == vesc.tach + d
             b == IF HasUptime THEN vesc.up + 1 ELSE 0
             n == used.dist + d
  <2>2. d \in Nat
    BY OdometerAssumption
  <2>3. a \in Nat /\ b \in Nat /\ n \in Nat
    <3>1. vesc.tach \in Nat /\ vesc.up \in Nat
      BY ReadingTypes
    <3>2. b \in Nat
      BY <3>1
    <3>3. used.dist \in Nat
      BY <1>u
    <3> HIDE DEF TypeInv, TypeOK
    <3>4. a \in Nat
      BY <2>2, <3>1
    <3>5. n \in Nat
      BY <2>2, <3>3
    <3> QED BY <3>2, <3>4, <3>5, Zenon
  <2>4. vesc' = [vesc EXCEPT !.tach = a, !.up = b] /\ used' = [used EXCEPT !.dist = n]
    BY <2>1, Zenon
  <2> HIDE DEF a, b, n
  <2>5. vesc' \in Readings
    BY <2>3, <2>4, ReadingTypes
  <2>6. used' \in Uses
    BY <2>3, <2>4, Counting
  <2> QED BY <1>1, <2>5, <2>6 DEF Ride, FreshTrip, TripM
<1>2. CASE VescRestarts
  <2>1. vesc' \in Readings
    BY <1>2, ReadingTypes DEF VescRestarts
  <2>2. used.reboots + 1 \in Nat
    BY <1>u
  <2>3. used' \in Uses
    BY <1>2, <2>2, Counting DEF VescRestarts
  <2> QED BY <1>2, <2>1, <2>3 DEF VescRestarts, FreshTrip, TripM
<1>3. CASE UptimeWraps
  <2>1. vesc' \in Readings
    BY <1>3, ReadingTypes DEF UptimeWraps
  <2> QED BY <1>3, <2>1 DEF UptimeWraps, FreshTrip, TripM
<1>4. CASE Reply
  BY <1>4 DEF Reply, FreshTrip, TripM
<1>5. CASE GoesStale
  BY <1>5 DEF GoesStale, FreshTrip, TripM
<1>6. CASE Tick
  <2>1. rt \in Readings /\ UiTick(rt) /\ rt' = rt
    BY <1>6 DEF Tick
  <2> QED BY <2>1, UiTickTypes DEF UiTick
<1>7. CASE TornTick
  <2>1. rt' \in Readings
    BY <1>7 DEF TornTick
  <2>2. /\ [rt EXCEPT !.tach = vesc.tach] \in Readings
        /\ [vesc EXCEPT !.tach = rt.tach] \in Readings
    BY ReadingTypes
  <2>3. PICK r \in Readings : UiTick(r)
    BY <1>7, <2>2 DEF TornTick
  <2> QED BY <2>1, <2>3, UiTickTypes DEF UiTick
<1>8. CASE OdoFlush
  <2>1. queue' \in Seq(Records) /\ odo' \in OdoStates
        /\ odo'.base = odo.base /\ odo'.based = odo.based
    BY <1>8, QueueOdoType DEF OdoFlush
  <2> QED BY <1>8, <2>1 DEF OdoFlush, FreshTrip, TripM
<1>9. CASE TripReset
  <2>1. /\ trip' \in TripStates /\ FreshTrip(trip') /\ TripM(trip') = 0
        /\ odo' \in OdoStates /\ odo'.based = odo.based
        /\ odo.based => odo'.base = odo.base + TripM(trip)
    BY <1>9, ResetFacts DEF TripReset
  <2>2. odo'.based => odo'.base + TripM(trip') >= 0
    BY <2>1 DEF OdoStates, TripStates, TripM
  <2>3. used.resets + 1 \in Nat
    BY <1>u
  <2>4. used' \in Uses
    BY <1>9, <2>3, Counting DEF TripReset
  <2> QED BY <1>9, <2>1, <2>2, <2>4 DEF TripReset
<1>10. CASE SetOdometer
  <2>1. PICK value \in Edits : /\ odo' = Rebased(odo, trip, value, TRUE)
                               /\ truth' = [m |-> value, edit |-> used.edits + 1]
    BY <1>10, Zenon DEF SetOdometer
  <2>2. value \in Nat /\ used.edits + 1 \in Nat
    BY <1>u, OdometerAssumption
  <2>3. odo' \in OdoStates /\ odo'.base + TripM(trip) = value
    BY <2>1, <2>2, RebasedFacts
  <2>4. truth' \in Truths
    BY <2>1, <2>2 DEF Truths
  <2>5. used' \in Uses
    BY <1>10, <2>2, Counting DEF SetOdometer
  <2>6. trip' = trip /\ TripM(trip') = TripM(trip)
    BY <1>10 DEF SetOdometer
  <2>7. TripM(trip') >= 0 /\ FreshTrip(trip') /\ odo'.base + TripM(trip') >= 0
    BY <2>2, <2>3, <2>6
  <2> QED BY <1>10, <2>3, <2>4, <2>5, <2>6, <2>7 DEF SetOdometer
<1>11. CASE WriteRecord
  <2>1. queue' \in Seq(Records) /\ queue[1] \in Records
    BY <1>11 DEF WriteRecord
  <2> DEFINE r == queue[1]
  <2>2. r.val \in Nat /\ r.truth \in Truths
    BY <2>1 DEF Records
  <2> HIDE DEF r
  <2>3. /\ [log EXCEPT !.sample = r.val] \in
              [sample : Nat \cup {None}, odo : Nat \cup {None}, truth : Truths]
        /\ [log EXCEPT !.odo = r.val, !.truth = r.truth] \in
              [sample : Nat \cup {None}, odo : Nat \cup {None}, truth : Truths]
    BY <2>2
  <2>4. log' \in [sample : Nat \cup {None}, odo : Nat \cup {None}, truth : Truths]
    BY <1>11, <2>3, Zenon DEF WriteRecord, r
  <2> QED BY <1>11, <2>1, <2>4 DEF WriteRecord, FreshTrip, TripM
<1>12. CASE RecordLost
  <2>1. queue' \in Seq(Records)
    BY <1>12 DEF RecordLost
  <2>2. used.faults + 1 \in Nat
    BY <1>u
  <2>3. used' \in Uses
    BY <1>12, <2>2, Counting DEF RecordLost
  <2> QED BY <1>12, <2>1, <2>3 DEF RecordLost, FreshTrip, TripM
<1>13. CASE PowerCut
  <2>1. used.cuts + 1 \in Nat
    BY <1>u
  <2>2. used' \in Uses
    BY <1>13, <2>1, Counting DEF PowerCut
  <2>3. /\ power' = FALSE /\ rt' = NoReading /\ heard' = FALSE /\ queue' = <<>>
        /\ trip' = ZeroTrip /\ odo' = NoOdo /\ seen' = NoReading
        /\ truth' = NoTruth /\ vesc' = vesc /\ log' = log
    BY <1>13 DEF PowerCut
  <2>4. queue' \in Seq(Records)
    BY <2>3
  <2>5. TripM(trip') >= 0 /\ ~odo'.based
    BY <2>3, InitialValues
  <2>6. /\ rt' \in Readings /\ trip' \in TripStates /\ FreshTrip(trip')
        /\ odo' \in OdoStates /\ seen' \in Readings /\ truth' \in Truths
    BY <2>3, InitialValues
  <2> QED BY <2>2, <2>3, <2>4, <2>5, <2>6
<1>14. CASE Boot
  <2>1. odo'.based => odo'.base + TripM(trip') >= 0
    <3>1. log.odo # None => log.odo \in Nat
      OBVIOUS
    <3> QED BY <1>14, <3>1, BootFacts
  <2>2. truth' \in Truths
    BY <1>14 DEF Boot
  <2> QED BY <1>14, <2>1, <2>2, BootFacts DEF Boot
<1>15. CASE UNCHANGED vars
  BY <1>15 DEF vars, FreshTrip, TripM
<1> QED BY <1>1, <1>2, <1>3, <1>4, <1>5, <1>6, <1>7, <1>8, <1>9, <1>10, <1>11,
           <1>12, <1>13, <1>14, <1>15 DEF Next, Vesc, Ui, Writer

\* The types of Odometer hold in every reachable state, and neither the trip
\* total nor the odometer is ever negative.
THEOREM TypeCorrect == Spec => []TypeOK
<1>1. TypeInv => TypeOK
  BY DEF TypeInv
<1> QED BY <1>1, TypeInit, TypeStep, PTL DEF Spec

----------------------------------------------------------------------------
(* The number on the dashboard *)

\* odo_persist_get_m in terms of the sum, which is never negative.
LEMMA OdoMValue ==
    ASSUME NEW o \in OdoStates, NEW t \in TripStates,
           o.based => o.base + TripM(t) >= 0
    PROVE  /\ o.based => OdoM(o, t) = o.base + TripM(t)
           /\ ~o.based => OdoM(o, t) = 0
<1>1. o.base + TripM(t) \in Int
  BY DEF OdoStates, TripStates, TripM
<1> QED BY <1>1 DEF OdoM

LEMMA NeverBackStep ==
    ASSUME TypeInv, TypeInv', Next, power, power', used'.edits = used.edits
    PROVE  Odo' >= Odo
<1> USE DEF Odo
<1>1. /\ trip \in TripStates /\ odo \in OdoStates
      /\ odo.based => odo.base + TripM(trip) >= 0
      /\ trip' \in TripStates /\ odo' \in OdoStates
      /\ odo'.based => odo'.base + TripM(trip') >= 0
  BY DEF TypeInv, TypeOK
<1>2. /\ odo.based => OdoM(odo, trip) = odo.base + TripM(trip)
      /\ ~odo.based => OdoM(odo, trip) = 0
      /\ odo'.based => OdoM(odo', trip') = odo'.base + TripM(trip')
      /\ OdoM(odo, trip) \in Nat /\ OdoM(odo', trip') \in Nat
  BY <1>1, OdoMValue, OdoMType
<1>3. SUFFICES ASSUME odo.based PROVE OdoM(odo', trip') >= OdoM(odo, trip)
  BY <1>2
<1>4. TripM(trip) \in Int /\ TripM(trip') \in Int /\ odo.base \in Int
  BY <1>1 DEF TripM, TripStates, OdoStates
<1>5. ASSUME NEW r \in Readings, UiTick(r) PROVE OdoM(odo', trip') >= OdoM(odo, trip)
  <2>1. odo'.based /\ odo'.base = odo.base
    BY <1>3, <1>5, UiTickOdo
  <2>2. TripM(trip) <= TripM(trip')
    BY <1>5, UiTickTypes
  <2> QED BY <1>2, <1>3, <1>4, <2>1, <2>2
<1>6. ASSUME odo'.base = odo.base, odo'.based = odo.based, trip' = trip
      PROVE  OdoM(odo', trip') >= OdoM(odo, trip)
  BY <1>2, <1>3, <1>4, <1>6
<1>7. CASE Tick
  <2>1. rt \in Readings /\ UiTick(rt)
    BY <1>7 DEF Tick, TypeInv, TypeOK
  <2> QED BY <2>1, <1>5
<1>8. CASE TornTick
  <2>1. /\ [rt EXCEPT !.tach = vesc.tach] \in Readings
        /\ [vesc EXCEPT !.tach = rt.tach] \in Readings
    BY ReadingTypes DEF TypeInv, TypeOK
  <2> QED BY <1>5, <1>8, <2>1 DEF TornTick
<1>9. CASE OdoFlush
  <2>1. odo'.base = odo.base /\ odo'.based = odo.based /\ trip' = trip
    BY <1>9, QueueOdoType DEF OdoFlush, TypeInv, TypeOK
  <2> QED BY <2>1, <1>6
<1>10. CASE TripReset
  <2>1. TripM(trip) >= 0
    BY DEF TypeInv, TypeOK
  <2>2. /\ TripM(trip') = 0 /\ odo'.based = odo.based
        /\ odo'.base = odo.base + TripM(trip)
    BY <1>1, <1>3, <1>10, <2>1, ResetFacts DEF TripReset
  <2> QED BY <1>2, <1>3, <1>4, <2>2
<1>11. CASE SetOdometer
  <2>1. used \in Uses /\ used' = [used EXCEPT !.edits = @ + 1]
    BY <1>11 DEF SetOdometer, TypeInv, TypeOK
  <2>2. used.edits \in Nat /\ used'.edits = used.edits + 1
    BY <2>1 DEF Uses
  <2> QED BY <2>2
<1>12. CASE PowerCut
  BY <1>12 DEF PowerCut
<1>13. CASE Boot
  BY <1>13 DEF Boot
<1>14. CASE Vesc \/ Writer
  <2>1. odo' = odo /\ trip' = trip
    BY <1>14, Zenon DEF Vesc, Writer, Ride, VescRestarts, UptimeWraps, Reply, GoesStale,
                        WriteRecord, RecordLost
  <2> QED BY <2>1, <1>6
<1> QED BY <1>7, <1>8, <1>9, <1>10, <1>11, <1>12, <1>13, <1>14 DEF Next, Ui

\* The lifetime odometer on the dashboard never steps back while the display is
\* on, unless the rider edits it: for every reading the controller may send,
\* torn ones and wrapped uptimes included.
THEOREM NeverStepsBack == Spec => OdoNeverStepsBack
<1>1. TypeInv /\ TypeInv' /\ [Next]_vars
         => [power /\ power' /\ used'.edits = used.edits => Odo' >= Odo]_vars
  BY NeverBackStep
<1> QED BY <1>1, TypeInit, TypeStep, PTL DEF Spec, OdoNeverStepsBack

----------------------------------------------------------------------------
(* No distance is counted twice, under two conditions without which it is:   *)
(* the UI reads the snapshot whole, and no controller session comes within   *)
(* the slack of the uptime's wrap.                                           *)

\* The conditions.
WholeReads == ~TornReads
NoWrap     == MaxUptime + Slack + 1 < UptimeWidth

----------------------------------------------------------------------------
(* The inductive invariant *)

\* Reading a was taken from the same controller no later than reading b.
Precedes(a, b) ==
    /\ a.epoch <= b.epoch
    /\ a.epoch = b.epoch => a.tach <= b.tach /\ a.up <= b.up

ReadingsInOrder ==
    /\ Precedes(seen, rt) /\ Precedes(rt, vesc)
    /\ vesc.up <= MaxUptime /\ rt.up <= MaxUptime /\ seen.up <= MaxUptime
    /\ HasUptime \/ vesc.up = 0

\* No queued checkpoint claims more than the observer had when it was taken.
Honest(q) == \A i \in 1..Len(q) : q[i].kind = "odo" => q[i].val <= q[i].truth.m

CheckpointsHonest ==
    /\ Honest(queue)
    /\ log.odo # None => log.odo <= log.truth.m

SumBounded == odo.based => odo.base + TripM(trip) <= truth.m

\* The accumulator stays tied to the reading of the last tick: that is what
\* makes the distance a fold or a hold adds at most the distance ridden.
CountInv == TypeInv /\ ReadingsInOrder /\ TripTracksSeen /\ CheckpointsHonest
            /\ SumBounded

----------------------------------------------------------------------------
(* The pure operators *)

LEMMA PrecedesTransitive ==
    ASSUME NEW a \in Readings, NEW b \in Readings, NEW c \in Readings,
           Precedes(a, b), Precedes(b, c)
    PROVE  Precedes(a, c)
  BY DEF Precedes, Readings

LEMMA SentHonest ==
    ASSUME NEW q \in Seq(Records), NEW rec \in Records, Honest(q),
           rec.kind = "odo" => rec.val <= rec.truth.m
    PROVE  Honest(Sent(q, rec))
<1>1. CASE Len(q) < QueueDepth
  <2>1. Sent(q, rec) = Append(q, rec)
    BY <1>1 DEF Sent
  <2> QED BY <2>1 DEF Honest
<1>2. CASE ~(Len(q) < QueueDepth)
  BY <1>2 DEF Sent
<1> QED BY <1>1, <1>2

LEMMA QueueOdoHonest ==
    ASSUME NEW q \in Seq(Records), NEW o \in OdoStates, NEW t \in TripStates,
           NEW tr \in Truths, Honest(q), o.based => OdoM(o, t) <= tr.m
    PROVE  Honest(QueueOdo(q, o, t, tr))
<1>1. CASE o.based
  <2>1. Checkpoint(o, t, tr) \in Records
    BY OdoMType DEF Checkpoint, Records
  <2>2. Checkpoint(o, t, tr).val <= Checkpoint(o, t, tr).truth.m
    BY <1>1 DEF Checkpoint
  <2> QED BY <1>1, <2>1, <2>2, SentHonest DEF QueueOdo
<1>2. CASE ~o.based
  BY <1>2 DEF QueueOdo
<1> QED BY <1>1, <1>2

\* What a tick queues is honest if the odometer it ends with is.
LEMMA UiTickHonest ==
    ASSUME TypeInv, TypeInv', NEW r \in Readings, UiTick(r), Honest(queue),
           odo'.based => OdoM(odo', trip') <= truth'.m
    PROVE  Honest(queue')
<1>1. /\ odo \in OdoStates /\ queue \in Seq(Records) /\ truth' \in Truths
      /\ trip' \in TripStates /\ odo' \in OdoStates /\ TripM(trip') >= 0
  BY DEF TypeInv, TypeOK
<1>2. PICK raw \in RawOdometers, due \in BOOLEAN :
          LET o == OdoUpdate(odo, trip', raw)
              q == Sent(queue, Sample(trip'))
          IN  IF due THEN /\ queue' = QueueOdo(q, o, trip', truth')
                          /\ odo' = OdoQueued(q, o)
                     ELSE queue' = queue /\ odo' = o
  BY Zenon DEF UiTick
<1> DEFINE o == OdoUpdate(odo, trip', raw)
           q == Sent(queue, Sample(trip'))
<1>3. IF due THEN queue' = QueueOdo(q, o, trip', truth') /\ odo' = OdoQueued(q, o)
             ELSE queue' = queue /\ odo' = o
  BY <1>2
<1>4. o \in OdoStates
  BY <1>1, OdometerAssumption, OdoUpdateFacts
<1>5. q \in Seq(Records) /\ Honest(q)
  <2>1. TripM(trip') \in Nat
    BY <1>1 DEF TripM, TripStates
  <2>2. Sample(trip') \in Records /\ Sample(trip').kind = "sample"
    BY <2>1 DEF Sample, Records, Truths, NoTruth
  <2> QED BY <1>1, <2>2, SentType, SentHonest
<1> HIDE DEF o, q
<1>6. CASE due
  <2>1. odo'.base = o.base /\ odo'.based = o.based
    BY <1>1, <1>3, <1>4, <1>5, <1>6, QueueOdoType
  <2>2. OdoM(o, trip') = OdoM(odo', trip')
    BY <2>1 DEF OdoM
  <2> QED BY <1>1, <1>3, <1>4, <1>5, <1>6, <2>1, <2>2, QueueOdoHonest
<1>7. CASE ~due
  BY <1>3, <1>7
<1> QED BY <1>6, <1>7

LEMMA TailHonest ==
    ASSUME NEW q \in Seq(Records), q # <<>>, Honest(q)
    PROVE  Honest(Tail(q))
  BY DEF Honest

\* Without a wrap the reboot test compares what it was meant to compare.
LEMMA RebootTest ==
    ASSUME NoWrap, NEW h \in TripStates, NEW r \in Readings, r.up <= MaxUptime
    PROVE  /\ h.upSup => (Rebooted(h, r) <=> r.up + Slack < h.curUp)
           /\ ~h.upSup => (Rebooted(h, r) <=> r.tach < h.cur - 1 /\ r.tach < RestartM)
<1>1. r.up + Slack \in Nat /\ r.up + Slack < UptimeWidth
  BY OdometerAssumption DEF NoWrap, Readings
<1>2. (r.up + Slack) % UptimeWidth = r.up + Slack
  BY <1>1, OdometerAssumption
<1>3. h.upSup => (Rebooted(h, r) <=> r.up + Slack < h.curUp)
  BY <1>2, Zenon DEF Rebooted
<1>4. ~h.upSup => (Rebooted(h, r) <=> r.tach < h.cur - 1 /\ r.tach < RestartM)
  BY Zenon DEF Rebooted
<1> QED BY <1>3, <1>4

\* TripTracksSeen as a relation between an accumulator and a reading.
Tracks(t, s) ==
    /\ ~t.upSup => t.curUp = 0
    /\ ~t.first =>
          /\ s.tach <= t.cur
          /\ t.upSup => t.curUp <= s.up + Slack
          /\ ~t.upSup => s.tach >= RestartM \/ s.tach >= t.cur - 1

\* One tick: the accumulator tracks the reading acted on, and the trip total grew
\* by no more than the observer's distance.
LEMMA OneUpdate ==
    ASSUME NoWrap, NEW t \in TripStates, NEW s \in Readings, NEW r \in Readings,
           FreshTrip(t), Tracks(t, s), Precedes(s, r), r.up <= MaxUptime
    PROVE  /\ Tracks(TripUpdate(t, r), r)
           /\ TripM(TripUpdate(t, r)) <=
                  TripM(t) + (IF t.first THEN 0 ELSE Delta(s, r))
<1>1. PICK h \in TripStates :
              /\ h = Heard(t, r)
              /\ h.first = t.first /\ h.saved = t.saved /\ h.offset = t.offset
              /\ h.cur = t.cur /\ h.curUp = t.curUp
              /\ h.first => TripUpdate(t, r) = FirstUpdate(h, r)
              /\ ~h.first /\ Rebooted(h, r) => TripUpdate(t, r) = Folded(h, r)
              /\ ~h.first /\ ~Rebooted(h, r) => TripUpdate(t, r) = Held(h, r)
  BY TripUpdateBranches, Zenon
<1> DEFINE u == TripUpdate(t, r)
<1>2. (h.upSup <=> t.upSup \/ r.up > 0)
  BY <1>1 DEF Heard, TripStates
<1>3. /\ FirstUpdate(h, r).first = FALSE
      /\ FirstUpdate(h, r).cur = r.tach /\ FirstUpdate(h, r).curUp = r.up
      /\ FirstUpdate(h, r).upSup = h.upSup
      /\ TripM(FirstUpdate(h, r)) = IF h.saved THEN h.offset ELSE 0
      /\ Folded(h, r).first = h.first
      /\ Folded(h, r).cur = r.tach /\ Folded(h, r).curUp = r.up
      /\ Folded(h, r).upSup = h.upSup
      /\ TripM(Folded(h, r)) = TripM(h) + r.tach
      /\ Held(h, r).first = h.first /\ Held(h, r).upSup = h.upSup
      /\ Held(h, r).cur = Larger(h.cur, r.tach)
      /\ Held(h, r).curUp = Larger(h.curUp, r.up)
      /\ TripM(Held(h, r)) = Larger(h.cur, r.tach) + h.offset
  BY BranchFields, Zenon
<1>4. /\ h.upSup => (Rebooted(h, r) <=> r.up + Slack < h.curUp)
      /\ ~h.upSup => (Rebooted(h, r) <=> r.tach < h.cur - 1 /\ r.tach < RestartM)
  BY RebootTest
<1>5. /\ r.up \in Nat /\ r.tach \in Nat /\ s.up \in Nat /\ s.tach \in Nat
      /\ t.cur \in Nat /\ t.curUp \in Nat /\ t.offset \in Int
      /\ Slack \in Nat /\ RestartM \in Nat
      /\ r.epoch \in Nat /\ s.epoch \in Nat
  BY OdometerAssumption DEF Readings, TripStates
<1>6. CASE h.first
  <2>1. u = FirstUpdate(h, r) /\ t.first
    BY <1>1, <1>6
  <2>2. Tracks(u, r)
    <3>1. /\ u.first = FALSE /\ u.cur = r.tach /\ u.curUp = r.up /\ u.upSup = h.upSup
      BY <2>1, <1>3
    <3> HIDE DEF u
    <3> QED BY <3>1, <1>2, <1>5 DEF Tracks
  <2>3. TripM(u) <= TripM(t)
    BY <2>1, <1>1, <1>3, <1>5 DEF FreshTrip, TripM
  <2>4. TripM(t) \in Int
    BY <1>5 DEF TripM
  <2> QED BY <2>1, <2>2, <2>3, <2>4
<1>7. CASE ~h.first /\ Rebooted(h, r)
  <2>1. u = Folded(h, r) /\ ~t.first
    BY <1>1, <1>7
  <2>2. Tracks(u, r)
    <3>1. u.cur = r.tach /\ u.curUp = r.up /\ u.upSup = h.upSup
      BY <2>1, <1>3
    <3> HIDE DEF u
    <3> QED BY <3>1, <1>2, <1>5 DEF Tracks
  <2>3. r.epoch # s.epoch
    <3>1. SUFFICES ASSUME r.epoch = s.epoch PROVE FALSE
      OBVIOUS
    <3>2. s.tach <= r.tach /\ s.up <= r.up
      BY <3>1 DEF Precedes
    <3>3. CASE t.upSup
      BY <1>1, <1>2, <1>4, <1>5, <1>7, <3>2, <3>3 DEF Tracks
    <3>4. CASE ~t.upSup /\ h.upSup
      BY <1>1, <1>2, <1>4, <1>5, <1>7, <3>4 DEF Tracks
    <3>5. CASE ~h.upSup
      BY <1>1, <1>2, <1>4, <1>5, <1>7, <3>2, <3>5 DEF Tracks
    <3> QED BY <3>3, <3>4, <3>5
  <2>4. TripM(u) = TripM(t) + r.tach
    BY <2>1, <1>1, <1>3 DEF TripM
  <2>5. TripM(t) \in Int
    BY <1>5 DEF TripM
  <2> QED BY <2>1, <2>2, <2>3, <2>4, <2>5, <1>5 DEF Delta
<1>8. CASE ~h.first /\ ~Rebooted(h, r)
  <2>1. u = Held(h, r) /\ ~t.first
    BY <1>1, <1>8
  <2>2. Tracks(u, r)
    <3>1. /\ u.cur = Larger(t.cur, r.tach) /\ u.curUp = Larger(t.curUp, r.up)
          /\ u.upSup = h.upSup
      BY <2>1, <1>1, <1>3
    <3> HIDE DEF u
    <3>a. /\ u.cur \in Nat /\ r.tach <= u.cur
          /\ u.cur = t.cur \/ u.cur = r.tach
          /\ u.curUp \in Nat
          /\ u.curUp = t.curUp \/ u.curUp = r.up
      BY <3>1, <1>5 DEF Larger
    <3>2. CASE h.upSup
      <4>1. ~(r.up + Slack < t.curUp)
        BY <3>2, <1>1, <1>4, <1>8
      <4>2. u.curUp <= r.up + Slack
        BY <4>1, <3>a, <1>5
      <4>3. u.upSup
        BY <3>1, <3>2
      <4> QED BY <4>2, <4>3, <3>a DEF Tracks
    <3>3. CASE ~h.upSup
      <4>1. ~(r.tach < t.cur - 1 /\ r.tach < RestartM)
        BY <3>3, <1>1, <1>4, <1>8
      <4>2. t.curUp = 0 /\ r.up = 0
        BY <3>3, <1>2, <1>5 DEF Tracks
      <4>3. r.tach >= RestartM \/ r.tach >= u.cur - 1
        BY <4>1, <3>a, <1>5
      <4>4. ~u.upSup /\ u.curUp = 0
        BY <3>1, <3>3, <3>a, <4>2
      <4> QED BY <4>3, <4>4, <3>a DEF Tracks
    <3> QED BY <3>2, <3>3
  <2>3. TripM(u) = Larger(t.cur, r.tach) + t.offset
    BY <2>1, <1>1, <1>3
  <2>4. s.tach <= t.cur
    BY <2>1 DEF Tracks
  <2> HIDE DEF u
  <2>5. TripM(t) = t.cur + t.offset
    BY DEF TripM
  <2>6. TripM(u) <= TripM(t) + Delta(s, r)
    <3>1. Larger(t.cur, r.tach) = t.cur \/ Larger(t.cur, r.tach) = r.tach
      BY DEF Larger
    <3>2. CASE r.epoch = s.epoch
      <4>1. Delta(s, r) = r.tach - s.tach /\ s.tach <= r.tach
        BY <3>2, <1>5 DEF Delta, Precedes
      <4> QED BY <2>3, <2>4, <2>5, <3>1, <4>1, <1>5
    <3>3. CASE r.epoch # s.epoch
      BY <2>3, <2>5, <3>1, <3>3, <1>5 DEF Delta
    <3> QED BY <3>2, <3>3
  <2> QED BY <2>1, <2>2, <2>6 DEF u
<1> QED BY <1>6, <1>7, <1>8

----------------------------------------------------------------------------
(* The steps *)

\* What a tick on a whole snapshot does.
LEMMA TickCounts ==
    ASSUME NoWrap, CountInv, TypeInv', Tick
    PROVE  CountInv'
<1>1. /\ rt \in Readings /\ seen \in Readings /\ trip \in TripStates
      /\ FreshTrip(trip) /\ odo \in OdoStates /\ queue \in Seq(Records)
      /\ truth \in Truths /\ vesc \in Readings
  BY DEF CountInv, TypeInv, TypeOK
<1>2. /\ UiTick(rt) /\ rt' = rt /\ seen' = rt /\ vesc' = vesc /\ log' = log
      /\ trip' = TripUpdate(trip, rt)
  BY Zenon DEF Tick, UiTick
<1>3. Precedes(seen, rt) /\ Precedes(rt, vesc) /\ rt.up <= MaxUptime
  BY DEF CountInv, ReadingsInOrder
<1>4. Tracks(trip, seen)
  BY Zenon DEF CountInv, TripTracksSeen, Tracks
<1>5. /\ Tracks(trip', seen')
      /\ TripM(trip') <= TripM(trip) + (IF trip.first THEN 0 ELSE Delta(seen, rt))
  BY <1>1, <1>2, <1>3, <1>4, OneUpdate
<1>6. ReadingsInOrder'
  <2>1. Precedes(rt, rt)
    BY <1>1 DEF Precedes, Readings
  <2> QED BY <2>1, <1>2, <1>3 DEF ReadingsInOrder, CountInv
<1>7. TripTracksSeen'
  BY <1>5, Zenon DEF Tracks, TripTracksSeen
<1>8. trip' \in TripStates /\ odo' \in OdoStates /\ truth' \in Truths
  BY DEF TypeInv, TypeOK
<1>9. SumBounded'
  <2> DEFINE d == IF trip.first THEN 0 ELSE Delta(seen, rt)
  <2>1. /\ TripM(trip') \in Int /\ TripM(trip) \in Int /\ odo.base \in Int
        /\ truth.m \in Int /\ d \in Int
    <3>1. d \in Int
      <4>1. Delta(seen, rt) \in Int
        BY <1>1, DeltaType
      <4> QED BY <4>1
    <3> HIDE DEF d
    <3>2. TripM(trip') \in Int /\ TripM(trip) \in Int
      BY <1>1, <1>8 DEF TripM, TripStates
    <3>3. odo.base \in Int
      BY <1>1 DEF OdoStates
    <3>4. truth.m \in Int
      BY <1>1 DEF Truths
    <3> QED BY <3>1, <3>2, <3>3, <3>4
  <2>2. CASE odo.based
    <3>1. odo'.base = odo.base /\ truth'.m = truth.m + d
      BY <1>1, <1>2, <2>2, UiTickOdo DEF CountInv
    <3>2. TripM(trip') <= TripM(trip) + d /\ odo.base + TripM(trip) <= truth.m
      BY <1>5, <2>2 DEF CountInv, SumBounded
    <3> HIDE DEF d
    <3> QED BY <2>1, <3>1, <3>2 DEF SumBounded
  <2>3. CASE ~odo.based
    <3>1. odo'.based => odo'.base + TripM(trip') = truth'.m /\ truth'.m \in Nat
      BY <1>1, <1>2, <2>3, UiTickOdo DEF CountInv
    <3> QED BY <3>1 DEF SumBounded
  <2> QED BY <2>2, <2>3
<1>10. odo'.based => OdoM(odo', trip') <= truth'.m
  <2>1. odo'.based => OdoM(odo', trip') = odo'.base + TripM(trip')
    BY <1>8, OdoMValue DEF TypeInv, TypeOK
  <2> QED BY <2>1, <1>9 DEF SumBounded
<1>11. Honest(queue')
  BY <1>1, <1>2, <1>10, UiTickHonest DEF CountInv, CheckpointsHonest
<1> QED BY <1>2, <1>6, <1>7, <1>9, <1>11 DEF CountInv, CheckpointsHonest

LEMMA CountInit == Init => CountInv
<1> SUFFICES ASSUME Init PROVE CountInv
  OBVIOUS
<1>1. TypeInv
  BY TypeInit
<1>2. /\ rt = NoReading /\ seen = NoReading /\ trip = ZeroTrip /\ odo = NoOdo
      /\ queue = <<>>
  BY DEF Init
<1>3. NoReading.epoch = 0 /\ NoReading.tach = 0 /\ NoReading.up = 0
  BY DEF NoReading
<1>4. vesc.epoch = 1 /\ vesc.up = 0
  BY DEF Init, NoReading
<1>5. ReadingsInOrder
  BY <1>2, <1>3, <1>4, OdometerAssumption DEF ReadingsInOrder, Precedes
<1>6. ZeroTrip.first /\ ZeroTrip.curUp = 0
  BY DEF ZeroTrip
<1>7. TripTracksSeen
  BY <1>2, <1>6 DEF TripTracksSeen
<1>8. Honest(queue)
  BY <1>2 DEF Honest
<1>9. log.odo = None
  BY DEF Init
<1>10. ~odo.based
  BY <1>2, InitialValues
<1> QED BY <1>1, <1>5, <1>7, <1>8, <1>9, <1>10 DEF CountInv, CheckpointsHonest, SumBounded

LEMMA CountStep ==
    ASSUME WholeReads, NoWrap
    PROVE  CountInv /\ [Next]_vars => CountInv'
<1> SUFFICES ASSUME CountInv, [Next]_vars PROVE CountInv'
  OBVIOUS
<1>1. TypeInv /\ TypeInv'
  BY TypeStep DEF CountInv
<1>2. /\ vesc \in Readings /\ rt \in Readings /\ seen \in Readings
      /\ trip \in TripStates /\ odo \in OdoStates /\ queue \in Seq(Records)
      /\ truth \in Truths /\ TripM(trip) >= 0 /\ FreshTrip(trip)
  BY <1>1 DEF TypeInv, TypeOK
<1>3. ReadingsInOrder /\ TripTracksSeen /\ CheckpointsHonest /\ SumBounded
  BY DEF CountInv
<1>4. /\ vesc.tach \in Nat /\ vesc.up \in Nat /\ vesc.epoch \in Nat
      /\ rt.tach \in Nat /\ rt.up \in Nat /\ rt.epoch \in Nat
      /\ Slack \in Nat /\ MaxUptime \in Nat
  BY <1>2, OdometerAssumption DEF Readings
<1>5. ASSUME UNCHANGED <<trip, odo, queue, log, seen, truth>>, ReadingsInOrder'
      PROVE  CountInv'
  BY <1>1, <1>3, <1>5 DEF CountInv, TripTracksSeen, CheckpointsHonest, SumBounded, Honest
<1>6. CASE Ride
  <2>1. PICK d \in Steps : LET up == IF HasUptime THEN vesc.up + 1 ELSE 0
                           IN  vesc' = [vesc EXCEPT !.tach = @ + d, !.up = up]
    BY <1>6, Zenon DEF Ride
  <2>2. vesc.up < MaxUptime /\ rt' = rt /\ UNCHANGED <<trip, odo, queue, log, seen, truth>>
    BY <1>6 DEF Ride
  <2>3. d \in Nat
    BY OdometerAssumption
  <2> DEFINE up == IF HasUptime THEN vesc.up + 1 ELSE 0
  <2>4. vesc'.epoch = vesc.epoch /\ vesc'.tach = vesc.tach + d /\ vesc'.up = up
    BY <1>2, <2>1 DEF Readings
  <2>5. up <= MaxUptime /\ (HasUptime => vesc.up <= up)
    BY <1>4, <2>2
  <2>6. HasUptime \/ (vesc.up = 0 /\ up = 0)
    BY <1>3 DEF ReadingsInOrder
  <2>7. up \in Nat
    BY <1>4
  <2> HIDE DEF up
  <2>8. ReadingsInOrder'
    BY <1>2, <1>3, <1>4, <2>2, <2>3, <2>4, <2>5, <2>6, <2>7
       DEF ReadingsInOrder, Precedes
  <2> QED BY <1>5, <2>2, <2>8
<1>7. CASE VescRestarts
  <2>1. /\ vesc'.epoch = vesc.epoch + 1 /\ vesc'.up = 0 /\ rt' = rt
        /\ UNCHANGED <<trip, odo, queue, log, seen, truth>>
    BY <1>7 DEF VescRestarts
  <2>2. ReadingsInOrder'
    BY <1>3, <1>4, <2>1 DEF ReadingsInOrder, Precedes
  <2> QED BY <1>5, <2>1, <2>2
<1>8. CASE UptimeWraps
  <2>1. FALSE
    BY <1>3, <1>4, <1>8, OdometerAssumption DEF UptimeWraps, ReadingsInOrder, NoWrap
  <2> QED BY <2>1
<1>9. CASE Reply
  <2>1. rt' = vesc /\ vesc' = vesc /\ UNCHANGED <<trip, odo, queue, log, seen, truth>>
    BY <1>9 DEF Reply
  <2>2. Precedes(seen, vesc) /\ Precedes(vesc, vesc)
    <3>1. Precedes(seen, vesc)
      BY <1>2, <1>3, PrecedesTransitive DEF ReadingsInOrder
    <3>2. Precedes(vesc, vesc)
      BY <1>4 DEF Precedes
    <3> QED BY <3>1, <3>2
  <2>3. ReadingsInOrder'
    BY <1>3, <2>1, <2>2 DEF ReadingsInOrder
  <2> QED BY <1>5, <2>1, <2>3
<1>10. CASE GoesStale \/ UNCHANGED vars
  <2>1. UNCHANGED <<vesc, rt, trip, odo, queue, log, seen, truth>>
    BY <1>10 DEF GoesStale, vars
  <2>2. ReadingsInOrder'
    BY <1>3, <2>1 DEF ReadingsInOrder, Precedes
  <2> QED BY <1>5, <2>1, <2>2
<1>11. CASE Tick
  BY <1>1, <1>11, TickCounts
<1>12. CASE TornTick
  BY <1>12 DEF TornTick, WholeReads
<1>13. ASSUME UNCHANGED <<vesc, rt, seen>> PROVE ReadingsInOrder'
  BY <1>3, <1>13 DEF ReadingsInOrder, Precedes
<1>14. CASE OdoFlush
  <2>1. UNCHANGED <<vesc, rt, seen, trip, log, truth>>
    BY <1>14 DEF OdoFlush
  <2>2. odo'.base = odo.base /\ odo'.based = odo.based
    BY <1>2, <1>14, QueueOdoType DEF OdoFlush
  <2>3. SumBounded'
    BY <1>3, <2>1, <2>2 DEF SumBounded
  <2>4. TripTracksSeen'
    BY <1>3, <2>1 DEF TripTracksSeen
  <2>5. odo.based => OdoM(odo, trip) <= truth.m
    <3>1. odo.based => OdoM(odo, trip) = odo.base + TripM(trip)
      BY <1>1, <1>2, OdoMValue DEF TypeInv, TypeOK
    <3> QED BY <3>1, <1>3 DEF SumBounded
  <2>6. Honest(queue')
    BY <1>2, <1>3, <1>14, <2>5, QueueOdoHonest DEF OdoFlush, CheckpointsHonest
  <2>7. CheckpointsHonest'
    BY <1>3, <2>1, <2>6 DEF CheckpointsHonest
  <2> QED BY <1>1, <1>13, <2>1, <2>3, <2>4, <2>7 DEF CountInv
<1>15. CASE TripReset
  <2>1. UNCHANGED <<vesc, rt, seen, queue, log, truth>>
    BY <1>15 DEF TripReset
  <2>2. /\ trip' = ZeroState(trip) /\ trip'.first /\ TripM(trip') = 0
        /\ odo'.based = odo.based
        /\ odo.based => odo'.base = odo.base + TripM(trip)
    BY <1>2, <1>15, ResetFacts DEF TripReset
  <2>3. trip'.curUp = 0
    BY <2>2 DEF ZeroState, ZeroTrip
  <2>4. TripTracksSeen'
    BY <2>2, <2>3 DEF TripTracksSeen
  <2>5. odo.base + TripM(trip) \in Int
    BY <1>2 DEF OdoStates, TripM, TripStates
  <2>6. SumBounded'
    BY <1>3, <2>1, <2>2, <2>5 DEF SumBounded
  <2>7. CheckpointsHonest'
    BY <1>3, <2>1 DEF CheckpointsHonest, Honest
  <2> QED BY <1>1, <1>13, <2>1, <2>4, <2>6, <2>7 DEF CountInv
<1>16. CASE SetOdometer
  <2>1. PICK value \in Edits : /\ odo' = Rebased(odo, trip, value, TRUE)
                               /\ truth' = [m |-> value, edit |-> used.edits + 1]
    BY <1>16, Zenon DEF SetOdometer
  <2>2. UNCHANGED <<vesc, rt, seen, queue, log, trip>>
    BY <1>16 DEF SetOdometer
  <2>3. value \in Nat
    BY OdometerAssumption
  <2>4. odo'.base + TripM(trip) = value /\ truth'.m = value
    BY <1>2, <2>1, <2>3, RebasedFacts
  <2>5. SumBounded'
    BY <2>2, <2>3, <2>4 DEF SumBounded, TripM
  <2>6. TripTracksSeen' /\ CheckpointsHonest'
    BY <1>3, <2>2 DEF TripTracksSeen, CheckpointsHonest, Honest
  <2> QED BY <1>1, <1>13, <2>2, <2>5, <2>6 DEF CountInv
<1>17. CASE WriteRecord
  <2>1. /\ UNCHANGED <<vesc, rt, seen, trip, odo, truth>>
        /\ queue # <<>> /\ queue' = Tail(queue)
    BY <1>17 DEF WriteRecord
  <2>2. Honest(queue')
    BY <1>2, <1>3, <2>1, TailHonest DEF CheckpointsHonest
  <2> DEFINE r == queue[1]
  <2>3. r \in Records /\ (r.kind = "odo" => r.val <= r.truth.m)
    BY <1>2, <1>3, <2>1 DEF CheckpointsHonest, Honest
  <2>4. log' = IF r.kind = "sample" THEN [log EXCEPT !.sample = r.val]
               ELSE [log EXCEPT !.odo = r.val, !.truth = r.truth]
    BY <1>17, Zenon DEF WriteRecord
  <2> HIDE DEF r
  <2>5. log \in [sample : Nat \cup {None}, odo : Nat \cup {None}, truth : Truths]
    BY <1>1 DEF TypeInv, TypeOK
  <2>6. log'.odo # None => log'.odo <= log'.truth.m
    <3>1. CASE r.kind = "sample"
      <4>1. log'.odo = log.odo /\ log'.truth = log.truth
        BY <2>4, <2>5, <3>1
      <4> QED BY <1>3, <4>1 DEF CheckpointsHonest
    <3>2. CASE r.kind # "sample"
      <4>1. r.kind = "odo"
        BY <2>3, <3>2 DEF Records
      <4>2. log'.odo = r.val /\ log'.truth = r.truth
        BY <2>4, <2>5, <3>2
      <4> QED BY <2>3, <4>1, <4>2
    <3> QED BY <3>1, <3>2
  <2>7. SumBounded' /\ TripTracksSeen'
    BY <1>3, <2>1 DEF SumBounded, TripTracksSeen
  <2> QED BY <1>1, <1>13, <2>1, <2>2, <2>6, <2>7 DEF CountInv, CheckpointsHonest
<1>18. CASE RecordLost
  <2>1. /\ UNCHANGED <<vesc, rt, seen, trip, odo, truth, log>>
        /\ queue # <<>> /\ queue' = Tail(queue)
    BY <1>18 DEF RecordLost
  <2>2. Honest(queue')
    BY <1>2, <1>3, <2>1, TailHonest DEF CheckpointsHonest
  <2>3. SumBounded' /\ TripTracksSeen' /\ CheckpointsHonest'
    BY <1>3, <2>1, <2>2 DEF SumBounded, TripTracksSeen, CheckpointsHonest
  <2> QED BY <1>1, <1>13, <2>1, <2>3 DEF CountInv
<1>19. CASE PowerCut
  <2>1. /\ rt' = NoReading /\ seen' = NoReading /\ trip' = ZeroTrip
        /\ odo' = NoOdo /\ queue' = <<>> /\ vesc' = vesc /\ log' = log
    BY <1>19 DEF PowerCut
  <2>2. /\ NoReading.epoch = 0 /\ NoReading.tach = 0 /\ NoReading.up = 0
        /\ ZeroTrip.first /\ ZeroTrip.curUp = 0
    BY DEF NoReading, ZeroTrip
  <2>3. ReadingsInOrder'
    BY <1>3, <1>4, <2>1, <2>2 DEF ReadingsInOrder, Precedes
  <2>4. TripTracksSeen'
    BY <2>1, <2>2 DEF TripTracksSeen
  <2>5. SumBounded'
    BY <2>1, InitialValues DEF SumBounded
  <2>6. Honest(queue')
    BY <2>1 DEF Honest
  <2>7. CheckpointsHonest'
    BY <1>3, <2>1, <2>6 DEF CheckpointsHonest
  <2> QED BY <1>1, <2>3, <2>4, <2>5, <2>7 DEF CountInv
<1>20. CASE Boot
  <2>1. UNCHANGED <<vesc, rt, seen, queue, log>> /\ truth' = log.truth
    BY <1>20 DEF Boot
  <2>2. /\ trip'.first /\ (odo'.based <=> log.odo # None)
        /\ odo'.based => odo'.base + TripM(trip') = log.odo
    BY <1>1, <1>20, BootFacts
  <2>3. trip'.curUp = 0
    BY <1>1, <1>20, BootFacts DEF FreshTrip
  <2>4. TripTracksSeen'
    BY <2>2, <2>3 DEF TripTracksSeen
  <2>5. SumBounded'
    BY <1>3, <2>1, <2>2 DEF SumBounded, CheckpointsHonest
  <2>6. CheckpointsHonest'
    BY <1>3, <2>1 DEF CheckpointsHonest, Honest
  <2> QED BY <1>1, <1>13, <2>1, <2>4, <2>5, <2>6 DEF CountInv
<1> QED BY <1>6, <1>7, <1>8, <1>9, <1>10, <1>11, <1>12, <1>14, <1>15, <1>16, <1>17,
           <1>18, <1>19, <1>20 DEF Next, Vesc, Ui, Writer

\* With whole snapshots and no wrap within the slack, the odometer never exceeds
\* what an exact observer of the same readings counts: through controller
\* restarts, lost records, trip resets, edits and power cuts whose checkpoint and
\* sample belong to different trips.
THEOREM NeverOverCounted ==
    ASSUME WholeReads, NoWrap
    PROVE  Spec => []OdoNotOverCounted
<1>1. CountInv => OdoNotOverCounted
  <2> SUFFICES ASSUME CountInv, odo.based PROVE Odo <= truth.m
    BY DEF OdoNotOverCounted
  <2>1. OdoM(odo, trip) = odo.base + TripM(trip)
    BY OdoMValue DEF CountInv, TypeInv, TypeOK
  <2> QED BY <2>1 DEF Odo, CountInv, SumBounded
<1>2. Init => CountInv
  BY CountInit
<1>3. CountInv /\ [Next]_vars => CountInv'
  BY CountStep
<1> QED BY <1>1, <1>2, <1>3, PTL DEF Spec

----------------------------------------------------------------------------
(* What a tick queues *)

\* A tick leaves the queue alone, or appends its sample and then, once there is a
\* base, the checkpoint of the odometer and the truth it ends with; a checkpoint
\* that is no longer due is one that was appended.
LEMMA UiTickQueue ==
    ASSUME TypeInv, TypeInv', NEW r \in Readings, UiTick(r)
    PROVE  \E o \in OdoStates, q \in Seq(Records), due \in BOOLEAN :
              /\ q = Sent(queue, Sample(trip'))
              /\ Sample(trip') \in Records /\ Sample(trip').kind = "sample"
              /\ o.base = odo'.base /\ o.based = odo'.based
              /\ odo.based => o = odo
              /\ ~odo.based /\ o.based => o.dirty
              /\ truth'.edit = truth.edit
              /\ due => /\ queue' = QueueOdo(q, o, trip', truth')
                        /\ odo' = OdoQueued(q, o)
              /\ ~due => queue' = queue /\ odo' = o
<1>1. /\ odo \in OdoStates /\ queue \in Seq(Records) /\ truth' \in Truths
      /\ truth \in Truths
      /\ trip' \in TripStates /\ odo' \in OdoStates /\ TripM(trip') >= 0
  BY DEF TypeInv, TypeOK
<1>2. PICK raw \in RawOdometers, due \in BOOLEAN :
          LET o == OdoUpdate(odo, trip', raw)
              delta == IF trip.first THEN 0 ELSE Delta(seen, r)
              m == IF o.based /\ ~odo.based THEN raw ELSE truth.m + delta
              q == Sent(queue, Sample(trip'))
          IN  /\ truth' = IF o.based THEN [truth EXCEPT !.m = m] ELSE truth
              /\ IF due THEN /\ queue' = QueueOdo(q, o, trip', truth')
                             /\ odo' = OdoQueued(q, o)
                        ELSE queue' = queue /\ odo' = o
  BY Zenon DEF UiTick
<1> DEFINE o == OdoUpdate(odo, trip', raw)
           q == Sent(queue, Sample(trip'))
           delta == IF trip.first THEN 0 ELSE Delta(seen, r)
           m == IF o.based /\ ~odo.based THEN raw ELSE truth.m + delta
<1>3. /\ due => queue' = QueueOdo(q, o, trip', truth') /\ odo' = OdoQueued(q, o)
      /\ ~due => queue' = queue /\ odo' = o
  BY <1>2
<1>4. truth' = IF o.based THEN [truth EXCEPT !.m = m] ELSE truth
  BY <1>2
<1>5. raw \in Nat
  BY OdometerAssumption
<1>6. o \in OdoStates
  BY <1>1, <1>5, OdoUpdateFacts
<1>7. odo.based => o = odo
  BY <1>1, <1>5, OdoUpdateFacts
<1>8. ~odo.based /\ o.based => o.dirty
  BY <1>1 DEF OdoUpdate, OdoStates
<1>9. Sample(trip') \in Records /\ Sample(trip').kind = "sample"
  <2>1. TripM(trip') \in Nat
    BY <1>1 DEF TripM, TripStates
  <2> QED BY <2>1 DEF Sample, Records, Truths, NoTruth
<1>10. q \in Seq(Records)
  BY <1>1, <1>9, SentType
<1> HIDE DEF o, m, delta
<1>11. truth'.edit = truth.edit
  BY <1>1, <1>4 DEF Truths
<1>12. q = Sent(queue, Sample(trip'))
  OBVIOUS
<1> HIDE DEF q
<1>13. o.base = odo'.base /\ o.based = odo'.based
  <2>1. CASE due
    BY <1>1, <1>3, <1>6, <1>10, <2>1, QueueOdoType
  <2>2. CASE ~due
    BY <1>3, <2>2
  <2> QED BY <2>1, <2>2
<1> QED BY <1>3, <1>6, <1>7, <1>8, <1>9, <1>10, <1>11, <1>12, <1>13, Zenon

----------------------------------------------------------------------------
(* The rider's edit *)

\* The newest checkpoint on its way to the log, or else the one in it, carries
\* the edit e.
NewestCarries(q, lg, e) ==
    \/ \E i \in 1..Len(q) : /\ q[i].kind = "odo" /\ q[i].truth.edit = e
                            /\ \A j \in (i + 1)..Len(q) : q[j].kind # "odo"
    \/ /\ \A i \in 1..Len(q) : q[i].kind # "odo"
       /\ lg.odo # None /\ lg.truth.edit = e

\* An odometer that is not due has its edit in the newest checkpoint.
EditInv ==
    /\ TypeInv
    /\ ~power => queue = <<>>
    /\ power /\ odo.based /\ ~odo.dirty /\ used.faults = 0
         => NewestCarries(queue, log, truth.edit)

\* A sample behind the newest checkpoint changes nothing.
LEMMA SampleCarries ==
    ASSUME NEW q \in Seq(Records), NEW lg, NEW e, NEW rec \in Records,
           rec.kind = "sample", NewestCarries(q, lg, e)
    PROVE  NewestCarries(Sent(q, rec), lg, e)
<1>1. CASE ~(Len(q) < QueueDepth)
  BY <1>1 DEF Sent
<1>2. CASE Len(q) < QueueDepth
  <2> DEFINE p == Append(q, rec)
  <2>1. Sent(q, rec) = p
    BY <1>2 DEF Sent
  <2>2. Len(p) = Len(q) + 1 /\ p[Len(q) + 1] = rec /\ Len(q) \in Nat
    OBVIOUS
  <2>3. \A i \in 1..Len(q) : p[i] = q[i]
    OBVIOUS
  <2> HIDE DEF p
  <2>4. CASE \E i \in 1..Len(q) : /\ q[i].kind = "odo" /\ q[i].truth.edit = e
                                  /\ \A j \in (i + 1)..Len(q) : q[j].kind # "odo"
    <3>1. PICK i \in 1..Len(q) : /\ q[i].kind = "odo" /\ q[i].truth.edit = e
                                 /\ \A j \in (i + 1)..Len(q) : q[j].kind # "odo"
      BY <2>4
    <3>2. i \in 1..Len(p) /\ p[i].kind = "odo" /\ p[i].truth.edit = e
      BY <2>2, <2>3, <3>1
    <3>3. ASSUME NEW j \in (i + 1)..Len(p) PROVE p[j].kind # "odo"
      <4>1. CASE j = Len(q) + 1
        BY <2>2, <4>1
      <4>2. CASE j # Len(q) + 1
        <5>1. j \in (i + 1)..Len(q) /\ j \in 1..Len(q)
          BY <2>2, <4>2
        <5> QED BY <2>3, <3>1, <5>1
      <4> QED BY <4>1, <4>2
    <3> QED BY <2>1, <3>2, <3>3 DEF NewestCarries
  <2>5. CASE /\ \A i \in 1..Len(q) : q[i].kind # "odo"
             /\ lg.odo # None /\ lg.truth.edit = e
    <3>1. ASSUME NEW i \in 1..Len(p) PROVE p[i].kind # "odo"
      <4>1. CASE i = Len(q) + 1
        BY <2>2, <4>1
      <4>2. CASE i # Len(q) + 1
        <5>1. i \in 1..Len(q)
          BY <2>2, <4>2
        <5> QED BY <2>3, <2>5, <5>1
      <4> QED BY <4>1, <4>2
    <3> QED BY <2>1, <2>5, <3>1 DEF NewestCarries
  <2> QED BY <2>4, <2>5 DEF NewestCarries
<1> QED BY <1>1, <1>2

\* A checkpoint that fits is the newest one.
LEMMA CheckpointCarries ==
    ASSUME NEW q \in Seq(Records), NEW lg, NEW rec \in Records,
           rec.kind = "odo", Len(q) < QueueDepth
    PROVE  NewestCarries(Sent(q, rec), lg, rec.truth.edit)
<1> DEFINE p == Append(q, rec)
<1>1. Sent(q, rec) = p
  BY DEF Sent
<1>2. Len(p) = Len(q) + 1 /\ p[Len(q) + 1] = rec /\ Len(q) \in Nat
  OBVIOUS
<1> HIDE DEF p
<1>3. Len(p) \in 1..Len(p) /\ p[Len(p)] = rec
  BY <1>2
<1>4. \A j \in (Len(p) + 1)..Len(p) : p[j].kind # "odo"
  BY <1>2
<1> QED BY <1>1, <1>3, <1>4 DEF NewestCarries

\* Queueing a checkpoint: either it fits and carries the edit, or it stays due.
LEMMA QueueOdoCarries ==
    ASSUME NEW q \in Seq(Records), NEW o \in OdoStates, NEW t \in TripStates,
           NEW tr \in Truths, NEW lg,
           o.based /\ ~o.dirty => NewestCarries(q, lg, tr.edit),
           OdoQueued(q, o).based, ~OdoQueued(q, o).dirty
    PROVE  NewestCarries(QueueOdo(q, o, t, tr), lg, tr.edit)
<1>1. o.based
  BY DEF OdoQueued, OdoStates
<1>2. Checkpoint(o, t, tr) \in Records
  BY OdoMType DEF Checkpoint, Records
<1>3. QueueOdo(q, o, t, tr) = Sent(q, Checkpoint(o, t, tr))
  BY <1>1 DEF QueueOdo
<1>4. CASE Len(q) < QueueDepth
  <2>1. Checkpoint(o, t, tr).kind = "odo" /\ Checkpoint(o, t, tr).truth = tr
    BY DEF Checkpoint
  <2> QED BY <1>2, <1>3, <1>4, <2>1, CheckpointCarries
<1>5. CASE ~(Len(q) < QueueDepth)
  <2>1. OdoQueued(q, o) = o
    BY <1>5 DEF OdoQueued
  <2>2. Sent(q, Checkpoint(o, t, tr)) = q
    BY <1>5 DEF Sent
  <2> QED BY <1>1, <1>3, <2>1, <2>2
<1> QED BY <1>4, <1>5

\* Writing the oldest record moves the newest checkpoint at most into the log.
LEMMA WriteCarries ==
    ASSUME NEW q \in Seq(Records), q # <<>>, NEW e,
           NEW lg \in [sample : Nat \cup {None}, odo : Nat \cup {None}, truth : Truths],
           NewestCarries(q, lg, e)
    PROVE  NewestCarries(Tail(q),
               IF q[1].kind = "sample" THEN [lg EXCEPT !.sample = q[1].val]
               ELSE [lg EXCEPT !.odo = q[1].val, !.truth = q[1].truth], e)
<1> DEFINE p == Tail(q)
           h == q[1]
           l == IF h.kind = "sample" THEN [lg EXCEPT !.sample = h.val]
                ELSE [lg EXCEPT !.odo = h.val, !.truth = h.truth]
<1>1. h \in Records
  OBVIOUS
<1>2. Len(q) \in Nat /\ Len(q) > 0 /\ Len(p) = Len(q) - 1
      /\ (\A i \in 1..Len(p) : p[i] = q[i + 1])
  OBVIOUS
<1>3. h.kind = "sample" => l.odo = lg.odo /\ l.truth = lg.truth
  BY <1>1
<1>4. h.kind = "odo" => l.odo = h.val /\ l.truth = h.truth
  BY <1>1
<1>5. q[1] = h /\ h.kind \in {"sample", "odo"} /\ h.val \in Nat
  BY <1>1 DEF Records
<1> SUFFICES NewestCarries(p, l, e)
  OBVIOUS
<1> HIDE DEF p, h, l
<1>6. CASE \E i \in 1..Len(q) : /\ q[i].kind = "odo" /\ q[i].truth.edit = e
                                /\ \A j \in (i + 1)..Len(q) : q[j].kind # "odo"
  <2>1. PICK i \in 1..Len(q) : /\ q[i].kind = "odo" /\ q[i].truth.edit = e
                               /\ \A j \in (i + 1)..Len(q) : q[j].kind # "odo"
    BY <1>6
  <2>2. CASE i = 1
    <3>1. l.odo = h.val /\ l.truth = h.truth /\ h.truth.edit = e
      BY <1>4, <1>5, <2>1, <2>2
    <3>2. ASSUME NEW j \in 1..Len(p) PROVE p[j].kind # "odo"
      <4>1. j + 1 \in (i + 1)..Len(q)
        BY <1>2, <2>2
      <4> QED BY <1>2, <2>1, <4>1
    <3>3. l.odo # None
      BY <1>5, <3>1 DEF None
    <3> QED BY <3>1, <3>2, <3>3 DEF NewestCarries
  <2>3. CASE i # 1
    <3>1. i - 1 \in 1..Len(p) /\ p[i - 1] = q[i]
      BY <1>2, <2>3
    <3>2. ASSUME NEW j \in ((i - 1) + 1)..Len(p) PROVE p[j].kind # "odo"
      <4>1. j + 1 \in (i + 1)..Len(q) /\ j \in 1..Len(p)
        BY <1>2, <2>3
      <4> QED BY <1>2, <2>1, <4>1
    <3> QED BY <2>1, <3>1, <3>2 DEF NewestCarries
  <2> QED BY <2>2, <2>3
<1>7. CASE /\ \A i \in 1..Len(q) : q[i].kind # "odo"
           /\ lg.odo # None /\ lg.truth.edit = e
  <2>1. h.kind = "sample"
    <3>1. 1 \in 1..Len(q)
      BY <1>2
    <3> QED BY <1>5, <1>7, <3>1
  <2>2. ASSUME NEW j \in 1..Len(p) PROVE p[j].kind # "odo"
    <3>1. j + 1 \in 1..Len(q)
      BY <1>2
    <3> QED BY <1>2, <1>7, <3>1
  <2> QED BY <1>3, <1>7, <2>1, <2>2 DEF NewestCarries
<1> QED BY <1>6, <1>7 DEF NewestCarries

LEMMA EditInit == Init => EditInv
<1> SUFFICES ASSUME Init PROVE EditInv
  OBVIOUS
<1>1. TypeInv
  BY TypeInit
<1>2. queue = <<>> /\ power = FALSE
  BY DEF Init
<1> QED BY <1>1, <1>2 DEF EditInv

LEMMA EditStep == EditInv /\ [Next]_vars => EditInv'
<1> SUFFICES ASSUME EditInv, [Next]_vars PROVE EditInv'
  OBVIOUS
<1>1. TypeInv /\ TypeInv'
  BY TypeStep DEF EditInv
<1>2. /\ odo \in OdoStates /\ queue \in Seq(Records) /\ trip \in TripStates
      /\ truth \in Truths /\ used \in Uses
      /\ log \in [sample : Nat \cup {None}, odo : Nat \cup {None}, truth : Truths]
  BY <1>1 DEF TypeInv, TypeOK
<1>3. /\ ~power => queue = <<>>
      /\ power /\ odo.based /\ ~odo.dirty /\ used.faults = 0
           => NewestCarries(queue, log, truth.edit)
  BY DEF EditInv
<1>4. ASSUME power' = power, queue' = queue, log' = log, truth'.edit = truth.edit,
             odo'.based => odo.based, odo'.based /\ ~odo'.dirty => ~odo.dirty,
             used'.faults = used.faults
      PROVE  EditInv'
  BY <1>1, <1>3, <1>4 DEF EditInv, NewestCarries
<1>5. CASE Vesc \/ UNCHANGED vars
  <2>1. /\ UNCHANGED <<power, queue, log, truth, odo>>
        /\ used' = used \/ (\E d \in Steps : used' = [used EXCEPT !.dist = @ + d])
                        \/ used' = [used EXCEPT !.reboots = @ + 1]
    BY <1>5, Zenon DEF Vesc, Ride, VescRestarts, UptimeWraps, Reply, GoesStale, vars
  <2>2. used'.faults = used.faults
    BY <1>2, <2>1 DEF Uses
  <2> QED BY <1>4, <2>1, <2>2
<1>6. ASSUME NEW r \in Readings, UiTick(r) PROVE EditInv'
  <2>1. power /\ power' = power /\ log' = log /\ used' = used
    BY <1>6 DEF UiTick
  <2>2. PICK o \in OdoStates, q \in Seq(Records), due \in BOOLEAN :
              /\ q = Sent(queue, Sample(trip'))
              /\ Sample(trip') \in Records /\ Sample(trip').kind = "sample"
              /\ o.base = odo'.base /\ o.based = odo'.based
              /\ odo.based => o = odo
              /\ ~odo.based /\ o.based => o.dirty
              /\ truth'.edit = truth.edit
              /\ due => /\ queue' = QueueOdo(q, o, trip', truth')
                        /\ odo' = OdoQueued(q, o)
              /\ ~due => queue' = queue /\ odo' = o
    BY <1>1, <1>6, UiTickQueue, Zenon
  <2>3. o.based /\ ~o.dirty => odo.based /\ ~odo.dirty
    BY <2>2
  <2>4. SUFFICES ASSUME odo'.based, ~odo'.dirty, used'.faults = 0
                 PROVE  NewestCarries(queue', log', truth'.edit)
    BY <1>1, <2>1 DEF EditInv
  <2>5. CASE ~due
    BY <1>3, <2>1, <2>2, <2>3, <2>4, <2>5
  <2>6. CASE due
    <3>1. queue' = QueueOdo(q, o, trip', truth') /\ odo' = OdoQueued(q, o)
      BY <2>2, <2>6
    <3>2. o.based /\ ~o.dirty => NewestCarries(q, log, truth'.edit)
      <4>1. SUFFICES ASSUME o.based, ~o.dirty PROVE NewestCarries(q, log, truth'.edit)
        OBVIOUS
      <4>2. NewestCarries(queue, log, truth.edit)
        BY <1>3, <2>1, <2>3, <2>4, <4>1
      <4> QED BY <1>2, <2>2, <4>2, SampleCarries
    <3>3. trip' \in TripStates /\ truth' \in Truths
      BY <1>1 DEF TypeInv, TypeOK
    <3>4. OdoQueued(q, o).based /\ ~OdoQueued(q, o).dirty
      BY <2>4, <3>1
    <3>5. NewestCarries(QueueOdo(q, o, trip', truth'), log, truth'.edit)
      BY <3>2, <3>3, <3>4, QueueOdoCarries
    <3> QED BY <2>1, <3>1, <3>5
  <2> QED BY <2>5, <2>6
<1>7. CASE Tick
  <2>1. rt \in Readings /\ UiTick(rt)
    BY <1>1, <1>7 DEF Tick, TypeInv, TypeOK
  <2> QED BY <2>1, <1>6
<1>8. CASE TornTick
  <2>1. /\ [rt EXCEPT !.tach = vesc.tach] \in Readings
        /\ [vesc EXCEPT !.tach = rt.tach] \in Readings
    BY <1>1, ReadingTypes DEF TypeInv, TypeOK
  <2> QED BY <1>6, <1>8, <2>1 DEF TornTick
<1>9. CASE OdoFlush
  <2>1. /\ power /\ UNCHANGED <<power, log, truth, used>> /\ odo.dirty
        /\ queue' = QueueOdo(queue, odo, trip, truth) /\ odo' = OdoQueued(queue, odo)
    BY <1>9 DEF OdoFlush
  <2>2. odo'.based /\ ~odo'.dirty => NewestCarries(queue', log', truth'.edit)
    BY <1>2, <2>1, QueueOdoCarries
  <2> QED BY <1>1, <2>1, <2>2 DEF EditInv
<1>10. CASE TripReset
  <2>1. /\ UNCHANGED <<power, queue, log, truth>> /\ odo' = OdoOnTripReset(odo, trip)
        /\ used' = [used EXCEPT !.resets = @ + 1]
    BY <1>10 DEF TripReset
  <2>2. odo'.based => odo.based
    BY <1>2, <2>1 DEF OdoOnTripReset, OdoStates
  <2>3. ~odo'.dirty => ~odo.dirty
    BY <1>2, <2>1 DEF OdoOnTripReset, OdoStates
  <2>4. used'.faults = used.faults
    BY <1>2, <2>1 DEF Uses
  <2> QED BY <1>4, <2>1, <2>2, <2>3, <2>4
<1>11. CASE SetOdometer
  <2>1. UNCHANGED <<power, queue>> /\ \E value \in Edits : odo' = Rebased(odo, trip, value, TRUE)
    BY <1>11, Zenon DEF SetOdometer
  <2>2. odo'.dirty
    BY <1>2, <2>1 DEF Rebased, OdoStates
  <2> QED BY <1>1, <1>3, <2>1, <2>2 DEF EditInv
<1>12. CASE WriteRecord
  <2>1. /\ UNCHANGED <<power, odo, truth, used>> /\ power
        /\ queue # <<>> /\ queue' = Tail(queue)
    BY <1>12 DEF WriteRecord
  <2>2. log' = IF queue[1].kind = "sample" THEN [log EXCEPT !.sample = queue[1].val]
               ELSE [log EXCEPT !.odo = queue[1].val, !.truth = queue[1].truth]
    BY <1>12, Zenon DEF WriteRecord
  <2>3. NewestCarries(queue, log, truth.edit) => NewestCarries(queue', log', truth.edit)
    BY <1>2, <2>1, <2>2, WriteCarries
  <2> QED BY <1>1, <1>3, <2>1, <2>3 DEF EditInv
<1>13. CASE RecordLost
  <2>1. power' = power /\ power /\ used' = [used EXCEPT !.faults = @ + 1]
    BY <1>13 DEF RecordLost
  <2>2. used'.faults # 0
    BY <1>2, <2>1 DEF Uses
  <2> QED BY <1>1, <2>1, <2>2 DEF EditInv
<1>14. CASE PowerCut
  <2>1. ~power' /\ queue' = <<>>
    BY <1>14 DEF PowerCut
  <2> QED BY <1>1, <2>1 DEF EditInv
<1>15. CASE Boot
  <2>1. queue' = <<>> /\ power' /\ log' = log /\ truth' = log.truth
    BY <1>3, <1>15 DEF Boot
  <2>2. odo'.based => log.odo # None
    BY <1>1, <1>15, BootFacts
  <2>3. Len(queue') = 0
    BY <2>1
  <2>4. odo'.based => NewestCarries(queue', log', truth'.edit)
    BY <2>1, <2>2, <2>3 DEF NewestCarries
  <2> QED BY <1>1, <2>1, <2>4 DEF EditInv
<1> QED BY <1>5, <1>7, <1>8, <1>9, <1>10, <1>11, <1>12, <1>13, <1>14, <1>15
        DEF Next, Ui, Writer

\* An edit of the rider, once its checkpoint is no longer due and the writer is
\* idle, is what the log holds and the next boot resumes, as long as no program
\* failed: whatever a full queue, trip resets, torn readings and power cuts did
\* in between.
THEOREM EditIsLogged == Spec => []EditReachesLog
<1>1. EditInv => EditReachesLog
  <2> SUFFICES ASSUME EditInv, power, odo.based, ~odo.dirty, queue = <<>>, used.faults = 0
               PROVE  log.odo # None /\ log.truth.edit = truth.edit
    BY DEF EditReachesLog
  <2>1. Len(queue) = 0 /\ NewestCarries(queue, log, truth.edit)
    BY DEF EditInv
  <2> QED BY <2>1 DEF NewestCarries
<1> QED BY <1>1, EditInit, EditStep, PTL DEF Spec

----------------------------------------------------------------------------
(* Nothing is lost either *)

\* A controller that has counted no uptime yet has not moved.
AtRest(x) == HasUptime /\ x.up = 0 => x.tach = 0

ReadingsPlain ==
    /\ AtRest(vesc) /\ AtRest(rt) /\ AtRest(seen)
    /\ HasUptime \/ rt.up = 0

\* Without torn readings the accumulator holds the reading of the last tick.
Holds(t, s) == ~t.first =>
    /\ t.cur = s.tach /\ t.curUp = s.up
    /\ s.up > 0 => t.upSup

\* Every controller start is either behind the last tick or one that its first
\* tick will tell from the previous one.
RestartsSeen ==
    /\ ~power => ~heard /\ trip.first
    /\ heard /\ trip.first => rt.epoch = vesc.epoch
    /\ ~trip.first => \/ vesc.epoch = seen.epoch
                      \/ vesc.epoch = seen.epoch + 1 /\ Tells(vesc.up, vesc.tach)

Exact(q) == \A i \in 1..Len(q) : q[i].kind = "odo" => q[i].val = q[i].truth.m

CheckpointsExact ==
    /\ Exact(queue)
    /\ log.odo # None => log.odo = log.truth.m

SumExact == odo.based => odo.base + TripM(trip) = truth.m

ExactInv == CountInv /\ ReadingsPlain /\ Holds(trip, seen) /\ RestartsSeen
            /\ CheckpointsExact /\ SumExact

LEMMA SentExact ==
    ASSUME NEW q \in Seq(Records), NEW rec \in Records, Exact(q),
           rec.kind = "odo" => rec.val = rec.truth.m
    PROVE  Exact(Sent(q, rec))
<1>1. CASE Len(q) < QueueDepth
  <2>1. Sent(q, rec) = Append(q, rec)
    BY <1>1 DEF Sent
  <2> QED BY <2>1 DEF Exact
<1>2. CASE ~(Len(q) < QueueDepth)
  BY <1>2 DEF Sent
<1> QED BY <1>1, <1>2

LEMMA QueueOdoExact ==
    ASSUME NEW q \in Seq(Records), NEW o \in OdoStates, NEW t \in TripStates,
           NEW tr \in Truths, Exact(q), o.based => OdoM(o, t) = tr.m
    PROVE  Exact(QueueOdo(q, o, t, tr))
<1>1. CASE o.based
  <2>1. Checkpoint(o, t, tr) \in Records
    BY OdoMType DEF Checkpoint, Records
  <2>2. Checkpoint(o, t, tr).val = Checkpoint(o, t, tr).truth.m
    BY <1>1 DEF Checkpoint
  <2> QED BY <1>1, <2>1, <2>2, SentExact DEF QueueOdo
<1>2. CASE ~o.based
  BY <1>2 DEF QueueOdo
<1> QED BY <1>1, <1>2

LEMMA TailExact ==
    ASSUME NEW q \in Seq(Records), q # <<>>, Exact(q)
    PROVE  Exact(Tail(q))
  BY DEF Exact

\* What a tick queues is exact if the odometer it ends with is.
LEMMA UiTickExact ==
    ASSUME TypeInv, TypeInv', NEW r \in Readings, UiTick(r), Exact(queue),
           odo'.based => OdoM(odo', trip') = truth'.m
    PROVE  Exact(queue')
<1>1. queue \in Seq(Records) /\ trip' \in TripStates /\ truth' \in Truths
  BY DEF TypeInv, TypeOK
<1>2. PICK o \in OdoStates, q \in Seq(Records), due \in BOOLEAN :
              /\ q = Sent(queue, Sample(trip'))
              /\ Sample(trip') \in Records /\ Sample(trip').kind = "sample"
              /\ o.base = odo'.base /\ o.based = odo'.based
              /\ due => /\ queue' = QueueOdo(q, o, trip', truth')
                        /\ odo' = OdoQueued(q, o)
              /\ ~due => queue' = queue /\ odo' = o
  BY UiTickQueue, Zenon
<1>3. Exact(q)
  BY <1>1, <1>2, SentExact
<1>4. OdoM(o, trip') = OdoM(odo', trip')
  BY <1>2 DEF OdoM
<1>5. o.based => OdoM(o, trip') = truth'.m
  BY <1>2, <1>4
<1>6. Exact(QueueOdo(q, o, trip', truth'))
  BY <1>1, <1>3, <1>5, QueueOdoExact
<1> QED BY <1>2, <1>6

\* One tick on a reading of the same start, or of a new start that tells: the
\* accumulator holds the reading, and the trip total grew by the distance.
LEMMA OneExactUpdate ==
    ASSUME NoWrap, NEW t \in TripStates, NEW s \in Readings, NEW r \in Readings,
           FreshTrip(t), Tracks(t, s), Precedes(s, r), r.up <= MaxUptime,
           Holds(t, s),
           ~t.first /\ r.epoch # s.epoch =>
               /\ t.upSup => r.up + Slack < t.curUp
               /\ ~t.upSup => r.up = 0 /\ r.tach < t.cur - 1 /\ r.tach < RestartM
    PROVE  /\ Holds(TripUpdate(t, r), r)
           /\ TripM(TripUpdate(t, r)) =
                  TripM(t) + (IF t.first THEN 0 ELSE Delta(s, r))
<1>1. PICK h \in TripStates :
              /\ h = Heard(t, r)
              /\ h.first = t.first /\ h.saved = t.saved /\ h.offset = t.offset
              /\ h.cur = t.cur /\ h.curUp = t.curUp
              /\ h.first => TripUpdate(t, r) = FirstUpdate(h, r)
              /\ ~h.first /\ Rebooted(h, r) => TripUpdate(t, r) = Folded(h, r)
              /\ ~h.first /\ ~Rebooted(h, r) => TripUpdate(t, r) = Held(h, r)
  BY TripUpdateBranches, Zenon
<1> DEFINE u == TripUpdate(t, r)
<1>2. (h.upSup <=> t.upSup \/ r.up > 0)
  BY <1>1 DEF Heard, TripStates
<1>3. /\ FirstUpdate(h, r).first = FALSE
      /\ FirstUpdate(h, r).cur = r.tach /\ FirstUpdate(h, r).curUp = r.up
      /\ FirstUpdate(h, r).upSup = h.upSup
      /\ TripM(FirstUpdate(h, r)) = IF h.saved THEN h.offset ELSE 0
      /\ Folded(h, r).first = h.first
      /\ Folded(h, r).cur = r.tach /\ Folded(h, r).curUp = r.up
      /\ Folded(h, r).upSup = h.upSup
      /\ TripM(Folded(h, r)) = TripM(h) + r.tach
      /\ Held(h, r).first = h.first /\ Held(h, r).upSup = h.upSup
      /\ Held(h, r).cur = Larger(h.cur, r.tach)
      /\ Held(h, r).curUp = Larger(h.curUp, r.up)
      /\ TripM(Held(h, r)) = Larger(h.cur, r.tach) + h.offset
  BY BranchFields, Zenon
<1>4. /\ h.upSup => (Rebooted(h, r) <=> r.up + Slack < h.curUp)
      /\ ~h.upSup => (Rebooted(h, r) <=> r.tach < h.cur - 1 /\ r.tach < RestartM)
  BY RebootTest
<1>5. /\ r.up \in Nat /\ r.tach \in Nat /\ s.up \in Nat /\ s.tach \in Nat
      /\ t.cur \in Nat /\ t.curUp \in Nat /\ t.offset \in Int
      /\ Slack \in Nat /\ RestartM \in Nat
  BY OdometerAssumption DEF Readings, TripStates
<1>6. TripM(t) = t.cur + t.offset /\ TripM(h) = t.cur + t.offset
  BY <1>1 DEF TripM
<1>7. CASE t.first
  <2>1. u = FirstUpdate(h, r)
    BY <1>1, <1>7
  <2>2. TripM(u) = TripM(t)
    BY <2>1, <1>1, <1>3, <1>5, <1>6, <1>7 DEF FreshTrip
  <2>3. u.cur = r.tach /\ u.curUp = r.up /\ (r.up > 0 => u.upSup)
    BY <2>1, <1>2, <1>3
  <2>4. TripM(t) \in Int
    BY <1>5, <1>6
  <2> HIDE DEF u
  <2>5. Holds(u, r)
    BY <2>3 DEF Holds
  <2> QED BY <1>7, <2>2, <2>4, <2>5 DEF u
<1>8. CASE ~t.first /\ r.epoch # s.epoch
  <2>1. Rebooted(h, r)
    <3>1. CASE t.upSup
      BY <1>1, <1>2, <1>4, <1>8, <3>1
    <3>2. CASE ~t.upSup
      <4>1. ~h.upSup
        BY <1>2, <1>8, <3>2
      <4> QED BY <1>1, <1>4, <1>8, <3>2, <4>1
    <3> QED BY <3>1, <3>2
  <2>2. u = Folded(h, r)
    BY <1>1, <1>8, <2>1
  <2>3. TripM(u) = TripM(t) + r.tach
    BY <2>2, <1>3, <1>6
  <2>4. u.cur = r.tach /\ u.curUp = r.up /\ (r.up > 0 => u.upSup)
    BY <2>2, <1>2, <1>3
  <2> HIDE DEF u
  <2>5. Holds(u, r)
    BY <2>4 DEF Holds
  <2> QED BY <1>8, <2>3, <2>5 DEF u, Delta
<1>9. CASE ~t.first /\ r.epoch = s.epoch
  <2>1. /\ s.tach <= r.tach /\ s.up <= r.up
        /\ t.cur = s.tach /\ t.curUp = s.up
    BY <1>9 DEF Precedes, Holds
  <2>2. ~Rebooted(h, r)
    <3>1. CASE h.upSup
      BY <1>1, <1>4, <1>5, <2>1, <3>1
    <3>2. CASE ~h.upSup
      BY <1>1, <1>4, <1>5, <2>1, <3>2
    <3> QED BY <3>1, <3>2
  <2>3. u = Held(h, r)
    BY <1>1, <1>9, <2>2
  <2>4. Larger(t.cur, r.tach) = r.tach /\ Larger(t.curUp, r.up) = r.up
    BY <1>5, <2>1 DEF Larger
  <2>5. /\ u.cur = r.tach /\ u.curUp = r.up /\ (r.up > 0 => u.upSup)
        /\ TripM(u) = r.tach + t.offset
    BY <2>3, <2>4, <1>1, <1>2, <1>3
  <2> HIDE DEF u
  <2>6. Holds(u, r)
    BY <2>5 DEF Holds
  <2>7. Delta(s, r) = r.tach - s.tach
    BY <1>9 DEF Delta
  <2>8. TripM(u) = TripM(t) + Delta(s, r)
    BY <1>5, <1>6, <2>1, <2>5, <2>7
  <2> QED BY <1>9, <2>6, <2>8 DEF u
<1> QED BY <1>7, <1>8, <1>9

\* With Watched, the reading a tick acts on is of the last tick's start, or of the
\* next one and tells.
LEMMA NextStartTells ==
    ASSUME ExactInv, power, heard, ~trip.first, rt.epoch # seen.epoch
    PROVE  /\ rt.epoch = vesc.epoch
           /\ trip.upSup => rt.up + Slack < trip.curUp
           /\ ~trip.upSup => rt.up = 0 /\ rt.tach < trip.cur - 1 /\ rt.tach < RestartM
<1>1. /\ rt \in Readings /\ seen \in Readings /\ vesc \in Readings /\ trip \in TripStates
  BY DEF ExactInv, CountInv, TypeInv, TypeOK
<1>2. /\ Precedes(seen, rt) /\ Precedes(rt, vesc) /\ (HasUptime \/ vesc.up = 0)
      /\ (HasUptime \/ rt.up = 0)
      /\ Holds(trip, seen) /\ AtRest(seen)
  BY DEF ExactInv, CountInv, ReadingsInOrder, ReadingsPlain
<1>3. \/ vesc.epoch = seen.epoch
      \/ vesc.epoch = seen.epoch + 1 /\ Tells(vesc.up, vesc.tach)
  BY DEF ExactInv, RestartsSeen
<1>4. /\ rt.epoch \in Nat /\ seen.epoch \in Nat /\ vesc.epoch \in Nat
      /\ rt.up \in Nat /\ rt.tach \in Nat /\ vesc.up \in Nat /\ vesc.tach \in Nat
      /\ seen.up \in Nat /\ seen.tach \in Nat
      /\ Slack \in Nat /\ RestartM \in Nat /\ trip.cur \in Nat /\ trip.curUp \in Nat
  BY <1>1, OdometerAssumption DEF Readings, TripStates
<1>5. rt.epoch = vesc.epoch /\ Tells(vesc.up, vesc.tach)
  BY <1>2, <1>3, <1>4 DEF Precedes
<1>6. rt.up <= vesc.up /\ rt.tach <= vesc.tach
  BY <1>2, <1>5 DEF Precedes
<1>7. CASE trip.upSup
  <2>1. vesc.up + Slack < trip.curUp
    BY <1>5, <1>7 DEF Tells, UptimeTells
  <2>2. rt.up + Slack < trip.curUp
    BY <1>4, <1>6, <2>1
  <2> QED BY <1>5, <1>7, <2>2
<1>8. CASE ~trip.upSup
  <2>1. vesc.tach < trip.cur - 1 /\ vesc.tach < RestartM
    BY <1>5, <1>8 DEF Tells, TachTells
  <2>2. rt.tach < trip.cur - 1 /\ rt.tach < RestartM
    BY <1>4, <1>6, <2>1
  <2>3. trip.cur = seen.tach /\ seen.up = 0
    BY <1>2, <1>4, <1>8 DEF Holds
  <2>4. ~HasUptime
    BY <1>2, <1>4, <2>1, <2>3 DEF AtRest
  <2> QED BY <1>2, <1>5, <1>8, <2>2, <2>4
<1> QED BY <1>7, <1>8

\* What a tick on a whole snapshot does.
LEMMA TickExact ==
    ASSUME NoWrap, ExactInv, CountInv', Tick
    PROVE  ExactInv'
<1>1. /\ rt \in Readings /\ seen \in Readings /\ trip \in TripStates
      /\ FreshTrip(trip) /\ odo \in OdoStates /\ queue \in Seq(Records)
      /\ truth \in Truths /\ vesc \in Readings
  BY DEF ExactInv, CountInv, TypeInv, TypeOK
<1>2. /\ UiTick(rt) /\ rt' = rt /\ seen' = rt /\ vesc' = vesc /\ log' = log
      /\ trip' = TripUpdate(trip, rt) /\ power /\ heard /\ power' = power
      /\ heard' = heard
  BY Zenon DEF Tick, UiTick
<1>3. TypeInv /\ TypeInv' /\ Precedes(seen, rt) /\ Precedes(rt, vesc) /\ rt.up <= MaxUptime
  BY DEF ExactInv, CountInv, ReadingsInOrder
<1>4. Tracks(trip, seen)
  BY Zenon DEF ExactInv, CountInv, TripTracksSeen, Tracks
<1>5. Holds(trip, seen) /\ ReadingsPlain /\ RestartsSeen /\ CheckpointsExact /\ SumExact
  BY DEF ExactInv
<1>6. /\ Holds(trip', seen')
      /\ TripM(trip') = TripM(trip) + (IF trip.first THEN 0 ELSE Delta(seen, rt))
  <2>1. ~trip.first /\ rt.epoch # seen.epoch =>
            /\ trip.upSup => rt.up + Slack < trip.curUp
            /\ ~trip.upSup => rt.up = 0 /\ rt.tach < trip.cur - 1 /\ rt.tach < RestartM
    BY <1>2, NextStartTells
  <2> QED BY <1>1, <1>2, <1>3, <1>4, <1>5, <2>1, OneExactUpdate
<1>7. ReadingsPlain'
  <2>1. AtRest(vesc') /\ AtRest(rt') /\ AtRest(seen') /\ (HasUptime \/ rt'.up = 0)
    BY <1>2, <1>5 DEF ReadingsPlain
  <2> QED BY <2>1 DEF ReadingsPlain, AtRest
<1>8. trip' \in TripStates /\ odo' \in OdoStates /\ truth' \in Truths /\ ~trip'.first
      /\ trip'.upSup \in BOOLEAN
  <2>1. trip' \in TripStates /\ odo' \in OdoStates /\ truth' \in Truths
    BY <1>3 DEF TypeInv, TypeOK
  <2>2. ~trip'.first
    BY <1>1, <1>2, TripUpdateType
  <2> QED BY <2>1, <2>2 DEF TripStates
<1>9. RestartsSeen'
  <2>1. SUFFICES \/ vesc.epoch = rt.epoch
                 \/ vesc.epoch = rt.epoch + 1 /\ Tells(vesc.up, vesc.tach)'
    BY <1>2, <1>8 DEF RestartsSeen
  <2>2. CASE trip.first
    BY <1>2, <1>5, <2>2 DEF RestartsSeen
  <2>3. CASE ~trip.first /\ rt.epoch # seen.epoch
    BY <1>2, <2>3, NextStartTells
  <2>4. CASE ~trip.first /\ rt.epoch = seen.epoch
    <3>1. CASE vesc.epoch = seen.epoch
      BY <2>4, <3>1
    <3>2. CASE vesc.epoch = seen.epoch + 1 /\ Tells(vesc.up, vesc.tach)
      <4>1. /\ trip.cur = seen.tach /\ trip.curUp = seen.up
            /\ trip'.cur = rt.tach /\ trip'.curUp = rt.up
            /\ seen.tach <= rt.tach /\ seen.up <= rt.up
            /\ seen.up > 0 => trip.upSup
            /\ rt.up > 0 => trip'.upSup
        <5>1. trip.cur = seen.tach /\ trip.curUp = seen.up /\ (seen.up > 0 => trip.upSup)
          BY <1>5, <2>4 DEF Holds
        <5>2. /\ trip'.cur = rt.tach /\ trip'.curUp = rt.up
              /\ rt.up > 0 => trip'.upSup
          BY <1>2, <1>6, <1>8 DEF Holds
        <5>3. seen.tach <= rt.tach /\ seen.up <= rt.up
          BY <1>3, <2>4 DEF Precedes
        <5> QED BY <5>1, <5>2, <5>3
      <4>2. /\ rt.up \in Nat /\ rt.tach \in Nat /\ seen.up \in Nat /\ seen.tach \in Nat
            /\ vesc.up \in Nat /\ vesc.tach \in Nat /\ Slack \in Nat /\ RestartM \in Nat
        BY <1>1, OdometerAssumption DEF Readings
      <4>3. trip.upSup => trip'.upSup
        <5>1. TripUpdate(trip, rt).upSup = Heard(trip, rt).upSup
          BY <1>1, BranchTypes, BranchFields, Zenon DEF TripUpdate
        <5>2. trip.upSup => Heard(trip, rt).upSup
          BY <1>1 DEF Heard, TripStates
        <5> QED BY <1>2, <5>1, <5>2
      <4>4. CASE trip.upSup
        <5>1. vesc.up + Slack < trip.curUp
          BY <3>2, <4>4 DEF Tells, UptimeTells
        <5>2. vesc.up + Slack < trip'.curUp
          BY <4>1, <4>2, <5>1
        <5>3. Tells(vesc.up, vesc.tach)'
          BY <1>2, <4>3, <4>4, <5>2 DEF Tells, UptimeTells
        <5> QED BY <2>4, <3>2, <5>3
      <4>5. CASE ~trip.upSup
        <5>1. vesc.tach < trip.cur - 1 /\ vesc.tach < RestartM
          BY <3>2, <4>5 DEF Tells, TachTells
        <5>2. seen.up = 0 /\ seen.tach # 0
          BY <4>1, <4>2, <4>5, <5>1
        <5>3. ~HasUptime
          BY <1>5, <5>2 DEF ReadingsPlain, AtRest
        <5>4. rt.up = 0
          BY <1>5, <5>3 DEF ReadingsPlain
        <5>5. ~trip'.upSup
          <6>1. TripUpdate(trip, rt).upSup = Heard(trip, rt).upSup
            BY <1>1, BranchTypes, BranchFields, Zenon DEF TripUpdate
          <6>2. ~Heard(trip, rt).upSup
            BY <1>1, <4>5, <5>4 DEF Heard, TripStates
          <6> QED BY <1>2, <6>1, <6>2
        <5>6. vesc.tach < trip'.cur - 1
          BY <4>1, <4>2, <5>1
        <5>7. Tells(vesc.up, vesc.tach)'
          BY <1>2, <5>1, <5>5, <5>6 DEF Tells, TachTells
        <5> QED BY <2>4, <3>2, <5>7
      <4> QED BY <4>4, <4>5
    <3> QED BY <1>5, <2>4, <3>1, <3>2 DEF RestartsSeen
  <2> QED BY <2>2, <2>3, <2>4
<1>10. SumExact'
  <2> DEFINE d == IF trip.first THEN 0 ELSE Delta(seen, rt)
  <2>1. /\ TripM(trip) \in Int /\ odo.base \in Int /\ truth.m \in Int
    BY <1>1 DEF TripM, TripStates, OdoStates, Truths
  <2>2. d \in Int
    <3>1. Delta(seen, rt) \in Int
      BY <1>1, DeltaType
    <3> QED BY <3>1
  <2>3. CASE odo.based
    <3>1. odo'.base = odo.base /\ truth'.m = truth.m + d
      BY <1>1, <1>2, <1>3, <2>3, UiTickOdo
    <3>2. TripM(trip') = TripM(trip) + d /\ odo.base + TripM(trip) = truth.m
      BY <1>5, <1>6, <2>3 DEF SumExact
    <3> HIDE DEF d
    <3> QED BY <2>1, <2>2, <3>1, <3>2 DEF SumExact
  <2>4. CASE ~odo.based
    <3>1. odo'.based => odo'.base + TripM(trip') = truth'.m
      BY <1>1, <1>2, <1>3, <2>4, UiTickOdo
    <3> QED BY <3>1 DEF SumExact
  <2> QED BY <2>3, <2>4
<1>11. Exact(queue')
  <2>1. odo'.based => OdoM(odo', trip') = odo'.base + TripM(trip')
    BY <1>3, <1>8, OdoMValue DEF TypeInv, TypeOK
  <2>2. odo'.based => OdoM(odo', trip') = truth'.m
    BY <1>10, <2>1 DEF SumExact
  <2>3. Exact(queue)
    BY <1>5 DEF CheckpointsExact
  <2> QED BY <1>1, <1>2, <1>3, <2>2, <2>3, UiTickExact
<1>12. CheckpointsExact'
  BY <1>2, <1>5, <1>11 DEF CheckpointsExact
<1>13. Holds(trip, seen)'
  BY <1>6 DEF Holds
<1> QED BY <1>7, <1>9, <1>10, <1>12, <1>13 DEF ExactInv

LEMMA ExactInit == Init => ExactInv
<1> SUFFICES ASSUME Init PROVE ExactInv
  OBVIOUS
<1>1. CountInv
  BY CountInit
<1>2. /\ rt = NoReading /\ seen = NoReading /\ trip = ZeroTrip /\ odo = NoOdo
      /\ queue = <<>> /\ log.odo = None /\ ~heard /\ ~power
  BY DEF Init
<1>3. /\ NoReading.tach = 0 /\ NoReading.up = 0 /\ vesc.tach = 0
      /\ trip.first /\ ~odo.based
  BY <1>2, InitialValues DEF Init, NoReading
<1>4. ReadingsPlain
  BY <1>2, <1>3 DEF ReadingsPlain, AtRest
<1>5. Holds(trip, seen) /\ RestartsSeen
  BY <1>2, <1>3 DEF Holds, RestartsSeen
<1>6. Exact(queue)
  BY <1>2 DEF Exact
<1> QED BY <1>1, <1>2, <1>3, <1>4, <1>5, <1>6 DEF ExactInv, CheckpointsExact, SumExact

LEMMA ExactStep ==
    ASSUME WholeReads, NoWrap, Watched
    PROVE  ExactInv /\ [Next]_vars => ExactInv'
<1> SUFFICES ASSUME ExactInv, [Next]_vars PROVE ExactInv'
  OBVIOUS
<1>1. CountInv /\ CountInv' /\ TypeInv /\ TypeInv'
  BY CountStep DEF ExactInv, CountInv
<1>2. /\ vesc \in Readings /\ rt \in Readings /\ seen \in Readings
      /\ trip \in TripStates /\ odo \in OdoStates /\ queue \in Seq(Records)
      /\ truth \in Truths /\ TripM(trip) >= 0 /\ FreshTrip(trip)
      /\ log \in [sample : Nat \cup {None}, odo : Nat \cup {None}, truth : Truths]
  BY <1>1 DEF TypeInv, TypeOK
<1>3. /\ ReadingsPlain /\ Holds(trip, seen) /\ RestartsSeen /\ CheckpointsExact
      /\ SumExact
  BY DEF ExactInv
<1>4. /\ vesc.tach \in Nat /\ vesc.up \in Nat /\ vesc.epoch \in Nat
      /\ rt.epoch \in Nat /\ seen.epoch \in Nat
  BY <1>2 DEF Readings
<1>5. ASSUME UNCHANGED <<trip, odo, queue, log, seen, truth>>, ReadingsPlain', RestartsSeen'
      PROVE  ExactInv'
  BY <1>1, <1>3, <1>5 DEF ExactInv, Holds, CheckpointsExact, SumExact, Exact
<1>6. CASE Ride
  <2>1. PICK d \in Steps : LET up == IF HasUptime THEN vesc.up + 1 ELSE 0
                           IN  /\ Watched /\ Unseen => Tells(up, vesc.tach + d)
                               /\ vesc' = [vesc EXCEPT !.tach = @ + d, !.up = up]
    BY <1>6, Zenon DEF Ride
  <2>2. UNCHANGED <<rt, heard, power, trip, odo, queue, log, seen, truth>>
    BY <1>6 DEF Ride
  <2>3. d \in Nat
    BY OdometerAssumption
  <2> DEFINE up == IF HasUptime THEN vesc.up + 1 ELSE 0
  <2>4. vesc'.epoch = vesc.epoch /\ vesc'.tach = vesc.tach + d /\ vesc'.up = up
    BY <1>2, <2>1 DEF Readings
  <2>5. HasUptime => up # 0
    BY <1>4
  <2>6. Unseen => Tells(up, vesc.tach + d)
    BY <2>1
  <2> HIDE DEF up
  <2>7. ReadingsPlain'
    BY <1>3, <2>2, <2>4, <2>5 DEF ReadingsPlain, AtRest
  <2>8. RestartsSeen'
    <3>1. ~trip.first /\ vesc.epoch # seen.epoch => Unseen
      BY <1>3 DEF Unseen, RestartsSeen
    <3>2. Tells(vesc.up, vesc.tach)' = Tells(up, vesc.tach + d)
      BY <2>2, <2>4 DEF Tells, UptimeTells, TachTells
    <3> QED BY <1>3, <2>2, <2>4, <2>6, <3>1, <3>2 DEF RestartsSeen
  <2> QED BY <1>5, <2>2, <2>7, <2>8
<1>7. CASE VescRestarts
  <2>1. /\ vesc'.epoch = vesc.epoch + 1 /\ vesc'.up = 0 /\ vesc'.tach = 0
        /\ UNCHANGED <<rt, heard, power, trip, odo, queue, log, seen, truth>>
    BY <1>7 DEF VescRestarts
  <2>2. power /\ (heard \/ ~trip.first) => ~trip.first /\ ~Unseen /\ Tells(0, 0)
    BY <1>7 DEF VescRestarts
  <2>3. ReadingsPlain'
    BY <1>3, <2>1 DEF ReadingsPlain, AtRest
  <2>4. Tells(vesc.up, vesc.tach)' = Tells(0, 0)
    BY <2>1 DEF Tells, UptimeTells, TachTells
  <2>5. ~trip.first => vesc.epoch = seen.epoch /\ Tells(0, 0)
    BY <1>3, <2>2 DEF RestartsSeen, Unseen
  <2>6. ~(heard /\ trip.first)
    BY <1>3, <2>2 DEF RestartsSeen
  <2>7. RestartsSeen'
    BY <1>3, <2>1, <2>4, <2>5, <2>6 DEF RestartsSeen
  <2> QED BY <1>5, <2>1, <2>3, <2>7
<1>8. CASE UptimeWraps
  <2>1. FALSE
    BY <1>1, <1>4, <1>8, OdometerAssumption
       DEF UptimeWraps, CountInv, ReadingsInOrder, NoWrap
  <2> QED BY <2>1
<1>9. CASE Reply
  <2>1. rt' = vesc /\ power
        /\ UNCHANGED <<vesc, power, trip, odo, queue, log, seen, truth>>
    BY <1>9 DEF Reply
  <2>2. HasUptime \/ vesc.up = 0
    BY <1>1 DEF CountInv, ReadingsInOrder
  <2>3. ReadingsPlain'
    BY <1>3, <2>1, <2>2 DEF ReadingsPlain, AtRest
  <2>4. RestartsSeen'
    BY <1>3, <2>1 DEF RestartsSeen, Tells, UptimeTells, TachTells
  <2> QED BY <1>5, <2>1, <2>3, <2>4
<1>10. CASE GoesStale \/ UNCHANGED vars
  <2>1. UNCHANGED <<vesc, rt, power, trip, odo, queue, log, seen, truth>>
        /\ (heard' => heard)
    BY <1>10 DEF GoesStale, vars
  <2>2. ReadingsPlain'
    BY <1>3, <2>1 DEF ReadingsPlain, AtRest
  <2>3. RestartsSeen'
    BY <1>3, <2>1 DEF RestartsSeen, Tells, UptimeTells, TachTells
  <2> QED BY <1>5, <2>1, <2>2, <2>3
<1>11. CASE Tick
  BY <1>1, <1>11, TickExact
<1>12. CASE TornTick
  BY <1>12 DEF TornTick, WholeReads
<1>13. ASSUME UNCHANGED <<vesc, rt, heard, power, seen, trip>>
       PROVE  ReadingsPlain' /\ RestartsSeen' /\ Holds(trip, seen)'
  BY <1>3, <1>13 DEF ReadingsPlain, AtRest, RestartsSeen, Holds, Tells, UptimeTells,
                     TachTells
<1>14. CASE OdoFlush
  <2>1. UNCHANGED <<vesc, rt, heard, power, seen, trip, log, truth>>
    BY <1>14 DEF OdoFlush
  <2>2. odo'.base = odo.base /\ odo'.based = odo.based
    BY <1>2, <1>14, QueueOdoType DEF OdoFlush
  <2>3. SumExact'
    BY <1>3, <2>1, <2>2 DEF SumExact
  <2>4. odo.based => OdoM(odo, trip) = truth.m
    <3>1. odo.based => OdoM(odo, trip) = odo.base + TripM(trip)
      BY <1>1, <1>2, OdoMValue DEF TypeInv, TypeOK
    <3> QED BY <3>1, <1>3 DEF SumExact
  <2>5. Exact(queue')
    BY <1>2, <1>3, <1>14, <2>4, QueueOdoExact DEF OdoFlush, CheckpointsExact
  <2>6. CheckpointsExact'
    BY <1>3, <2>1, <2>5 DEF CheckpointsExact
  <2> QED BY <1>1, <1>13, <2>1, <2>3, <2>6 DEF ExactInv
<1>15. CASE TripReset
  <2>1. UNCHANGED <<vesc, rt, heard, power, seen, queue, log, truth>> /\ power /\ ~Unseen
    BY <1>15 DEF TripReset
  <2>2. /\ trip' = ZeroState(trip) /\ trip'.first /\ TripM(trip') = 0
        /\ odo'.based = odo.based
        /\ odo.based => odo'.base = odo.base + TripM(trip)
    BY <1>2, <1>15, ResetFacts DEF TripReset
  <2>3. Holds(trip', seen') /\ ReadingsPlain'
    BY <1>3, <2>1, <2>2 DEF Holds, ReadingsPlain, AtRest
  <2>4. RestartsSeen'
    <3>1. rt.epoch = vesc.epoch \/ ~heard
      <4>1. CASE trip.first
        BY <1>3, <4>1 DEF RestartsSeen
      <4>2. CASE ~trip.first
        <5>1. vesc.epoch = seen.epoch
          BY <2>1, <4>2 DEF Unseen
        <5>2. seen.epoch <= rt.epoch /\ rt.epoch <= vesc.epoch
          BY <1>1 DEF CountInv, ReadingsInOrder, Precedes
        <5> QED BY <1>4, <5>1, <5>2
      <4> QED BY <4>1, <4>2
    <3> QED BY <2>1, <2>2, <3>1 DEF RestartsSeen
  <2>5. odo.base + TripM(trip) \in Int
    BY <1>2 DEF OdoStates, TripM, TripStates
  <2>6. SumExact'
    BY <1>3, <2>1, <2>2, <2>5 DEF SumExact
  <2>7. CheckpointsExact'
    BY <1>3, <2>1 DEF CheckpointsExact, Exact
  <2>8. Holds(trip, seen)'
    BY <2>3 DEF Holds
  <2> QED BY <1>1, <2>3, <2>4, <2>6, <2>7, <2>8 DEF ExactInv
<1>16. CASE SetOdometer
  <2>1. PICK value \in Edits : /\ odo' = Rebased(odo, trip, value, TRUE)
                               /\ truth' = [m |-> value, edit |-> used.edits + 1]
    BY <1>16, Zenon DEF SetOdometer
  <2>2. UNCHANGED <<vesc, rt, heard, power, seen, queue, log, trip>>
    BY <1>16 DEF SetOdometer
  <2>3. value \in Nat
    BY OdometerAssumption
  <2>4. odo'.base + TripM(trip) = value /\ truth'.m = value
    BY <1>2, <2>1, <2>3, RebasedFacts
  <2>5. SumExact'
    BY <2>2, <2>4 DEF SumExact, TripM
  <2>6. CheckpointsExact'
    BY <1>3, <2>2 DEF CheckpointsExact, Exact
  <2> QED BY <1>1, <1>13, <2>2, <2>5, <2>6 DEF ExactInv
<1>17. CASE WriteRecord
  <2>1. /\ UNCHANGED <<vesc, rt, heard, power, seen, trip, odo, truth>>
        /\ queue # <<>> /\ queue' = Tail(queue)
    BY <1>17 DEF WriteRecord
  <2>2. Exact(queue')
    BY <1>2, <1>3, <2>1, TailExact DEF CheckpointsExact
  <2> DEFINE r == queue[1]
  <2>3. r \in Records /\ (r.kind = "odo" => r.val = r.truth.m)
    BY <1>2, <1>3, <2>1 DEF CheckpointsExact, Exact
  <2>4. log' = IF r.kind = "sample" THEN [log EXCEPT !.sample = r.val]
               ELSE [log EXCEPT !.odo = r.val, !.truth = r.truth]
    BY <1>17, Zenon DEF WriteRecord
  <2> HIDE DEF r
  <2>5. log'.odo # None => log'.odo = log'.truth.m
    <3>1. CASE r.kind = "sample"
      <4>1. log'.odo = log.odo /\ log'.truth = log.truth
        BY <1>2, <2>4, <3>1
      <4> QED BY <1>3, <4>1 DEF CheckpointsExact
    <3>2. CASE r.kind # "sample"
      <4>1. r.kind = "odo"
        BY <2>3, <3>2 DEF Records
      <4>2. log'.odo = r.val /\ log'.truth = r.truth
        BY <1>2, <2>4, <3>2
      <4> QED BY <2>3, <4>1, <4>2
    <3> QED BY <3>1, <3>2
  <2>6. SumExact'
    BY <1>3, <2>1 DEF SumExact
  <2> QED BY <1>1, <1>13, <2>1, <2>2, <2>5, <2>6 DEF ExactInv, CheckpointsExact
<1>18. CASE RecordLost
  <2>1. /\ UNCHANGED <<vesc, rt, heard, power, seen, trip, odo, truth, log>>
        /\ queue # <<>> /\ queue' = Tail(queue)
    BY <1>18 DEF RecordLost
  <2>2. Exact(queue')
    BY <1>2, <1>3, <2>1, TailExact DEF CheckpointsExact
  <2>3. SumExact' /\ CheckpointsExact'
    BY <1>3, <2>1, <2>2 DEF SumExact, CheckpointsExact
  <2> QED BY <1>1, <1>13, <2>1, <2>3 DEF ExactInv
<1>19. CASE PowerCut
  <2>1. /\ rt' = NoReading /\ seen' = NoReading /\ trip' = ZeroTrip /\ ~heard'
        /\ odo' = NoOdo /\ queue' = <<>> /\ vesc' = vesc /\ log' = log
    BY <1>19 DEF PowerCut
  <2>2. NoReading.tach = 0 /\ NoReading.up = 0 /\ ZeroTrip.first /\ ~NoOdo.based
    BY InitialValues DEF NoReading
  <2>3. ReadingsPlain'
    BY <1>3, <2>1, <2>2 DEF ReadingsPlain, AtRest
  <2>4. Holds(trip, seen)' /\ RestartsSeen'
    BY <2>1, <2>2 DEF Holds, RestartsSeen
  <2>5. SumExact'
    BY <2>1, <2>2 DEF SumExact
  <2>6. Exact(queue')
    BY <2>1 DEF Exact
  <2>7. CheckpointsExact'
    BY <1>3, <2>1, <2>6 DEF CheckpointsExact
  <2> QED BY <1>1, <2>3, <2>4, <2>5, <2>7 DEF ExactInv
<1>20. CASE Boot
  <2>1. /\ UNCHANGED <<vesc, rt, heard, seen, queue, log>> /\ truth' = log.truth
        /\ ~power
    BY <1>20 DEF Boot
  <2>2. /\ trip'.first /\ (odo'.based <=> log.odo # None)
        /\ odo'.based => odo'.base + TripM(trip') = log.odo
    BY <1>1, <1>20, BootFacts
  <2>3. ~heard
    BY <1>3, <2>1 DEF RestartsSeen
  <2>4. ReadingsPlain'
    BY <1>3, <2>1 DEF ReadingsPlain, AtRest
  <2>5. Holds(trip, seen)' /\ RestartsSeen'
    BY <2>1, <2>2, <2>3 DEF Holds, RestartsSeen
  <2>6. SumExact'
    BY <1>3, <2>1, <2>2 DEF SumExact, CheckpointsExact
  <2>7. CheckpointsExact'
    BY <1>3, <2>1 DEF CheckpointsExact, Exact
  <2> QED BY <1>1, <2>4, <2>5, <2>6, <2>7 DEF ExactInv
<1> QED BY <1>6, <1>7, <1>8, <1>9, <1>10, <1>11, <1>12, <1>14, <1>15, <1>16, <1>17,
           <1>18, <1>19, <1>20 DEF Next, Vesc, Ui, Writer

\* When moreover every controller start is told from the previous one by its
\* first tick, the odometer is the count of an exact observer of the readings:
\* nothing is lost either, through controller restarts, lost records, resets,
\* edits and power cuts.
THEOREM CountsExactly ==
    ASSUME WholeReads, NoWrap, Watched
    PROVE  Spec => []OdoExact
<1>1. ExactInv => OdoExact
  <2> SUFFICES ASSUME ExactInv, odo.based PROVE Odo = truth.m
    BY DEF OdoExact
  <2>1. OdoM(odo, trip) = odo.base + TripM(trip)
    BY OdoMValue DEF ExactInv, CountInv, TypeInv, TypeOK
  <2> QED BY <2>1 DEF Odo, ExactInv, SumExact
<1>2. Init => ExactInv
  BY ExactInit
<1>3. ExactInv /\ [Next]_vars => ExactInv'
  BY ExactStep
<1> QED BY <1>1, <1>2, <1>3, PTL DEF Spec
=============================================================================
