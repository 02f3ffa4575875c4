----------------------------- MODULE BleOtaProofs -----------------------------
(***************************************************************************)
(* The firmware update, for any images, queue and number of attempts: what *)
(* is flashed is what was announced, data reach only the memory of their   *)
(* transfer, and a transfer in progress has its fast link, and a parked    *)
(* arbiter until a scan for sensors resumes it.                            *)
(***************************************************************************)
EXTENDS BleOta, SequenceTheorems, TLAPS

-----------------------------------------------------------------------------
(* The boost *)

Counting(u) == request[u].step = "count"
Share(u) == IF boosted[u] THEN 1 ELSE 0
Other(u) == IF u = "ota" THEN "nav" ELSE "ota"

\* The second count has one user only, whose requests follow each other: it is
\* that user's wish as soon as the request has been counted.  Only a scan resumes
\* the arbiter under it.
ParkInv ==
    /\ Counting("ota") => /\ request["ota"].on <=> boosted["ota"]
                          /\ scanRefs = 1 - Share("ota")
    /\ ~Counting("ota") => scanRefs = Share("ota")
    /\ scanRefs = 1 => parked \/ scanned
    /\ scanned => scanRefs = 1

\* The link comes or goes; the navigator forgets its wish.
Relinks ==
    /\ linkUp' \in BOOLEAN
    /\ fast' = FALSE
    /\ boosted' = [boosted EXCEPT !["nav"] = FALSE]
    /\ UNCHANGED <<refs, scanRefs, parked, request, raced, scans, scanned>>
    /\ linkUp' => (carried' <=> (refs > 0 \/ ~Settled))

\* What a step of the whole does to the boost.
BoostNext ==
    \/ \E u \in Users : (Ask(u, TRUE) \/ Ask(u, FALSE)) /\ UNCHANGED carried
    \/ \E u \in Users : GoesOn(u) /\ (carried' <=> (carried /\ refs' > 0))
    \/ Relinks
    \/ (ScanStarts \/ ScanEnds) /\ UNCHANGED carried
    \/ BoostReset /\ linkUp' = FALSE
    \/ UNCHANGED <<boost, linkUp, carried>>

LEMMA BoostSteps == [Next]_vars => BoostNext
<1> USE DEF BoostNext, boost, past
<1>1. ASSUME WriteBegin \/ WriteEnd \/ WriteAbort \/ PhoneFails \/ WriteData \/ HostUnblocks \/ WriteFrame
      PROVE  BoostNext
  BY <1>1 DEF WriteBegin, WriteEnd, WriteAbort, PhoneFails, WriteData, HostUnblocks, WriteFrame
<1>2. CASE Connect
  <2>1. linkUp' \in BOOLEAN
    BY <1>2, Zenon DEF Connect
  <2>2. carried' <=> (refs > 0 \/ ~Settled)
    BY <1>2, Zenon DEF Connect
  <2> QED
    BY <1>2, <2>1, <2>2 DEF Connect, Relinks
<1>3. CASE Disconnect
  <2>1. linkUp' = FALSE /\ linkUp' \in BOOLEAN
    BY <1>3, Zenon DEF Disconnect
  <2> QED
    BY <1>3, <2>1 DEF Disconnect, Relinks
<1>4. ASSUME Worker PROVE BoostNext
  <2>1. CASE TakeEvent \/ FreeStage \/ ZeroStage \/ ToIdle \/ Alloc \/ ToReceiving \/ Ready
             \/ Gate \/ Check \/ Flash \/ SayDone
    BY <2>1 DEF TakeEvent, FreeStage, ZeroStage, ToIdle, Alloc, ToReceiving, Ready, Gate, Check,
                Flash, SayDone, Rest
  <2>2. CASE Boost
    BY <2>2 DEF Boost, Users, Rest
  <2>3. CASE Restart
    <3>1. BoostReset /\ linkUp' = FALSE
      BY <2>3, Zenon DEF Restart
    <3> QED
      BY <3>1, Zenon
  <2> QED
    BY <1>4, <2>1, <2>2, <2>3 DEF Worker
<1>5. ASSUME NavTakes \/ NavIdles PROVE BoostNext
  BY <1>5 DEF NavTakes, NavIdles, Users
<1>6. ASSUME NEW u \in Users, Boosts(u) PROVE BoostNext
  <2>1. GoesOn(u) /\ (carried' <=> (carried /\ refs' > 0))
    BY <1>6, Zenon DEF Boosts
  <2> QED
    BY <2>1, Zenon
<1>7. UNCHANGED vars => BoostNext
  BY DEF vars
<1>8. ASSUME Scans \/ ScanIsOver PROVE BoostNext
  BY <1>8 DEF Scans, ScanIsOver
<1> QED
  BY <1>1, <1>2, <1>3, <1>4, <1>5, <1>6, <1>7, <1>8 DEF Next

Requests == [step : {"none", "count", "look", "update"}, on : BOOLEAN, was : Nat,
             conn : BOOLEAN, want : BOOLEAN]

LEMMA AskTypes ==
    ASSUME BoostTypeOK, NEW u \in Users, NEW on \in {TRUE, FALSE}, Ask(u, on)
    PROVE  BoostTypeOK'
<1> USE DEF BoostTypeOK
<1>1. UNCHANGED <<refs, scanRefs, parked, fast, linkUp, scans, scanned>>
  BY DEF Ask
<1>2. boosted' \in [Users -> BOOLEAN]
  BY Zenon DEF Ask
<1>3. raced' \in BOOLEAN
  <2>1. raced' = raced \/ raced' = (raced \/ ~Settled)
    BY Zenon DEF Ask
  <2> QED
    BY <2>1, Zenon
<1>4. request' \in [Users -> Requests]
  <2>1. [step |-> "count", on |-> on, was |-> refs, conn |-> linkUp, want |-> FALSE] \in Requests
    <3>1. on \in BOOLEAN
      BY Zenon
    <3> QED
      BY <3>1, Zenon DEF Requests
  <2>2. request \in [Users -> Requests]
    BY DEF Requests
  <2> QED
    BY <2>1, <2>2, Zenon DEF Ask
<1> QED
  BY <1>1, <1>2, <1>3, <1>4 DEF Requests

\* A wish that is news.
Noted(u) ==
    /\ request' = [request EXCEPT ![u] = request'[u]]
    /\ request'[u].step = "count" /\ request'[u].was = refs
    /\ request'[u].conn <=> linkUp
    /\ request'[u].on <=> boosted'[u]
    /\ boosted'[u] <=> ~boosted[u]
    /\ boosted' = [boosted EXCEPT ![u] = boosted'[u]]
    /\ raced' <=> (raced \/ ~Settled)

LEMMA AskNotes ==
    ASSUME BoostTypeOK, NEW u \in Users, Ask(u, TRUE) \/ Ask(u, FALSE)
    PROVE  /\ ~Calling(u)
           /\ UNCHANGED <<refs, scanRefs, parked, fast, linkUp, scans, scanned>>
           /\ Noted(u) \/ UNCHANGED <<boosted, request, raced>>
<1> USE DEF BoostTypeOK
<1>1. ~Calling(u) /\ UNCHANGED <<refs, scanRefs, parked, fast, linkUp, scans, scanned>>
  BY DEF Ask
<1>2. ASSUME Ask(u, TRUE), ~UNCHANGED <<boosted, request, raced>> PROVE Noted(u)
  <2>1. /\ boosted[u] # TRUE
        /\ boosted' = [boosted EXCEPT ![u] = TRUE]
        /\ request' = [request EXCEPT ![u] = [step |-> "count", on |-> TRUE, was |-> refs,
                                              conn |-> linkUp, want |-> FALSE]]
        /\ raced' = (raced \/ ~Settled)
    BY <1>2, Zenon DEF Ask, Wishes
  <2> QED
    BY <2>1 DEF Noted
<1>3. ASSUME Ask(u, FALSE), ~UNCHANGED <<boosted, request, raced>> PROVE Noted(u)
  <2>1. /\ boosted[u] # FALSE
        /\ boosted' = [boosted EXCEPT ![u] = FALSE]
        /\ request' = [request EXCEPT ![u] = [step |-> "count", on |-> FALSE, was |-> refs,
                                              conn |-> linkUp, want |-> FALSE]]
        /\ raced' = (raced \/ ~Settled)
    BY <1>3, Zenon DEF Ask, Wishes
  <2> QED
    BY <2>1 DEF Noted
<1> QED
  BY <1>1, <1>2, <1>3

\* One access of a request under way.
LEMMA GoesOnTypes ==
    ASSUME BoostTypeOK, NEW u \in Users, GoesOn(u)
    PROVE  BoostTypeOK'
<1> USE DEF BoostTypeOK
<1>1. request \in [Users -> Requests] /\ NoRequest \in Requests
  BY Zenon DEF Requests, NoRequest
<1>2. CASE Count(u)
  <2>1. refs' \in Nat /\ scanRefs' \in Nat
    BY <1>2 DEF Count, Counted, Less
  <2>2. parked' \in BOOLEAN
    BY <1>2, Zenon DEF Count
  <2>3. request' \in [Users -> Requests]
    <3>1. [request[u] EXCEPT !.step = "look"] \in Requests
      BY <1>1 DEF Requests
    <3> QED
      BY <3>1, <1>1, <1>2, Zenon DEF Count
  <2>4. scanned' \in BOOLEAN
    BY <1>2, Zenon DEF Count
  <2> QED
    BY <2>1, <2>2, <2>3, <2>4, <1>2 DEF Count, Requests
<1>3. CASE Look(u)
  <2>1. request' \in [Users -> Requests]
    <3>1. [[request[u] EXCEPT !.step = "update"] EXCEPT !.want = refs > 0] \in Requests
      <4>1. (refs > 0) \in BOOLEAN
        <5>1. CASE refs > 0
          BY <5>1, Zenon
        <5>2. CASE ~(refs > 0)
          <6>1. (refs > 0) = FALSE
            BY <5>2
          <6> QED
            BY <6>1, Zenon
        <5> QED
          BY <5>1, <5>2, Zenon
      <4> QED
        BY <4>1, <1>1, Zenon DEF Requests
    <3>2. request' = [request EXCEPT ![u] = [[request[u] EXCEPT !.step = "update"]
                                             EXCEPT !.want = refs > 0]]
      BY <1>3, Zenon DEF Look
    <3> QED
      BY <3>1, <3>2, <1>1, Zenon
  <2> QED
    BY <2>1, <1>3 DEF Look, Requests
<1>4. CASE Update(u)
  <2>1. request' \in [Users -> Requests]
    BY <1>1, <1>4, Zenon DEF Update
  <2>2. fast' \in BOOLEAN
    BY <1>4, Zenon DEF Update
  <2> QED
    BY <2>1, <2>2, <1>4 DEF Update, Requests
<1> QED
  BY <1>2, <1>3, <1>4 DEF GoesOn

LEMMA BoostTypes ==
    ASSUME BoostTypeOK, BoostNext
    PROVE  BoostTypeOK'
<1>1. ASSUME NEW u \in Users, Ask(u, TRUE) \/ Ask(u, FALSE) PROVE BoostTypeOK'
  BY <1>1, AskTypes
<1>2. CASE Relinks
  BY <1>2 DEF Relinks, BoostTypeOK
<1>3. CASE BoostReset /\ linkUp' = FALSE
  BY <1>3 DEF BoostReset, BoostTypeOK, NoRequest
<1>4. CASE UNCHANGED <<boost, linkUp>>
  BY <1>4 DEF boost, BoostTypeOK
<1>5. CASE ScanStarts \/ ScanEnds
  <2>1. parked' \in BOOLEAN /\ scanned' \in BOOLEAN
    BY <1>5, Zenon DEF ScanStarts, ScanEnds, BoostTypeOK
  <2>2. scans' \in Nat
    BY <1>5 DEF ScanStarts, ScanEnds, BoostTypeOK
  <2> QED
    BY <1>5, <2>1, <2>2 DEF ScanStarts, ScanEnds, BoostTypeOK
<1> QED
  BY <1>1, <1>2, <1>3, <1>4, <1>5, GoesOnTypes DEF BoostNext

\* The arbiter is parked while the update's last counted wish is that it be, until
\* a scan resumes it.
LEMMA ParkStep ==
    ASSUME BoostTypeOK, ParkInv, BoostNext
    PROVE  ParkInv'
<1> USE DEF BoostTypeOK, ParkInv, Counting, Share
<1>1. ASSUME NEW u \in Users, Ask(u, TRUE) \/ Ask(u, FALSE) PROVE ParkInv'
  <2>1. CASE u = "ota"
    <3>1. ~Calling("ota") /\ UNCHANGED <<scanRefs, parked, scanned>>
      BY <1>1, <2>1, AskNotes
    <3>2. CASE Noted("ota")
      <4>1. request'["ota"].step = "count" /\ (request'["ota"].on <=> boosted'["ota"])
        BY <3>2 DEF Noted
      <4>2. boosted'["ota"] <=> ~boosted["ota"]
        BY <3>2 DEF Noted
      <4> QED
        BY <3>1, <4>1, <4>2 DEF Calling
    <3>3. CASE UNCHANGED <<boosted, request, raced>>
      BY <3>1, <3>3
    <3> QED
      BY <1>1, <2>1, <3>2, <3>3, AskNotes
  <2>2. CASE u = "nav"
    BY <1>1, <2>2, AskNotes DEF Noted, Calling, Users
  <2> QED
    BY <2>1, <2>2 DEF Users
<1>2. ASSUME NEW u \in Users, GoesOn(u) PROVE ParkInv'
  <2>1. CASE u = "ota"
    <3>1. CASE Count(u)
      BY <2>1, <3>1 DEF Count, Unparks, Parks, Less, Users, NoRequest
    <3>2. CASE Look(u) \/ Update(u)
      BY <2>1, <3>2 DEF Look, Update, Users, NoRequest
    <3> QED
      BY <1>2, <3>1, <3>2 DEF GoesOn
  <2>2. CASE u = "nav"
    BY <1>2, <2>2 DEF GoesOn, Count, Look, Update, Unparks, Parks, Users
  <2> QED
    BY <2>1, <2>2 DEF Users
<1>3. CASE Relinks
  BY <1>3 DEF Relinks, Users
<1>4. CASE BoostReset /\ linkUp' = FALSE
  BY <1>4 DEF BoostReset, NoRequest, Users
<1>5. CASE UNCHANGED <<boost, linkUp, carried>>
  BY <1>5 DEF boost
<1>6. CASE ScanStarts \/ ScanEnds
  <2>1. UNCHANGED <<scanRefs, boosted, request>> /\ scanRefs \in {0, 1}
    BY <1>6 DEF ScanStarts, ScanEnds
  <2>2. (scanRefs = 1 => parked' \/ scanned') /\ (scanned' => scanRefs = 1)
    BY <1>6, <2>1 DEF ScanStarts, ScanEnds
  <2> QED
    BY <2>1, <2>2
<1> QED
  BY <1>1, <1>2, <1>3, <1>4, <1>5, <1>6 DEF BoostNext

\* What a request finds, as long as no two have overlapped.  A request to leave
\* gives back a share of the count that is its own, a request from before the
\* link came asks nobody, and one about to ask knows the count.
Finds(u) ==
    /\ Counting(u) =>
         /\ request[u].was = refs
         /\ request[u].on => refs >= Share(Other(u))
         /\ ~request[u].on => ~boosted[u] /\ refs >= 1 + Share(Other(u))
         /\ linkUp /\ ~request[u].conn => carried /\ ~fast
    /\ request[u].step = "update" => (request[u].want <=> refs > 0)

\* The count covers the users' wishes; the interval follows the count.
CountInv ==
    ~raced =>
      /\ ~Calling("ota") \/ ~Calling("nav")
      /\ \A u \in Users : Finds(u)
      /\ ~Counting("ota") /\ ~Counting("nav") => refs >= Share("ota") + Share("nav")
      /\ /\ linkUp /\ ~carried
         /\ \A u \in Users : ~Calling(u) \/ Counting(u)
         => (fast <=> refs > 0)

LEMMA CountAsk ==
    ASSUME BoostTypeOK, CountInv, NEW u \in Users, Ask(u, TRUE) \/ Ask(u, FALSE), UNCHANGED carried
    PROVE  CountInv'
<1> DEFINE o == Other(u)
<1>1. o \in Users /\ o # u /\ Users = {u, o} /\ (u = "ota" \/ o = "ota") /\ (u = "nav" \/ o = "nav")
  BY DEF Other, Users
<1>2. Share("ota") + Share("nav") = Share(u) + Share(o)
  BY DEF Other, Users, Share
<1>3. ~Calling(u) /\ UNCHANGED <<refs, fast, linkUp>>
  BY AskNotes
<1>4. CASE UNCHANGED <<boosted, request, raced>>
  BY <1>3, <1>4 DEF CountInv, Finds, Counting, Calling, Share
<1>5. CASE Noted(u) /\ ~raced'
  <2>1. /\ request'[u].step = "count" /\ request'[u].was = refs /\ (request'[u].conn <=> linkUp)
        /\ request'[u].on <=> boosted'[u]
        /\ boosted'[u] <=> ~boosted[u]
        /\ request'[o] = request[o] /\ (boosted'[o] <=> boosted[o])
        /\ ~raced /\ Settled
    BY <1>1, <1>5 DEF Noted, BoostTypeOK
  <2>2. ~Calling(o) /\ refs >= Share(u) + Share(o)
    BY <1>1, <1>2, <1>3, <2>1 DEF CountInv, Settled, Calling, Counting
  <2>3. Finds(u)'
    <3>1. o = Other(u)
      OBVIOUS
    <3> HIDE DEF o
    <3> QED
      BY <1>1, <1>3, <2>1, <2>2, <3>1 DEF Finds, Counting, Share, BoostTypeOK
  <2>4. Finds(o)' /\ ~Calling(o)'
    BY <2>1, <2>2 DEF Finds, Calling, Counting
  <2>5. linkUp /\ ~carried => (fast <=> refs > 0)
    BY <1>1, <1>3, <2>1, <2>2 DEF CountInv, Calling
  <2> HIDE DEF o
  <2> QED
    BY <1>1, <1>3, <2>1, <2>3, <2>4, <2>5 DEF CountInv, Counting, Calling
<1>6. CASE raced'
  BY <1>6 DEF CountInv
<1> QED
  BY <1>4, <1>5, <1>6, AskNotes

LEMMA CountGoesOn ==
    ASSUME BoostTypeOK, CountInv, NEW u \in Users, GoesOn(u), carried' <=> (carried /\ refs' > 0)
    PROVE  CountInv'
<1> DEFINE o == Other(u)
<1>1. o \in Users /\ o # u /\ Users = {u, o} /\ (u = "ota" \/ o = "ota") /\ (u = "nav" \/ o = "nav")
  BY DEF Other, Users
<1>2. Share("ota") + Share("nav") = Share(u) + Share(o)
  BY DEF Other, Users, Share
<1>3. UNCHANGED <<linkUp, boosted, raced>> /\ request'[o] = request[o] /\ Calling(u)
  BY <1>1 DEF GoesOn, Count, Look, Update, Calling, BoostTypeOK
<1>4. CASE raced
  BY <1>3, <1>4 DEF CountInv
<1>5. CASE ~raced
  <2>1. ~Calling(o) /\ ~Calling(o)' /\ Finds(o)'
    BY <1>1, <1>3, <1>5 DEF CountInv, Finds, Calling, Counting
  <2>2. Finds(u)
    BY <1>5 DEF CountInv
  <2>3. (Share(u) + Share(o))' = Share(u) + Share(o) /\ refs \in Nat
    BY <1>3 DEF Share, BoostTypeOK
  <2>4. CASE Count(u)
    <3>1. /\ refs' = Counted(u) /\ request[u].was = refs
          /\ UNCHANGED fast /\ Counting(u)
      BY <2>2, <2>4 DEF Count, Finds, Counting
    <3>2. refs' = IF request[u].on THEN refs + 1 ELSE refs - 1
      BY <2>2, <3>1 DEF Counted, Less, Finds, Counting, BoostTypeOK, Share
    <3>3. refs' >= Share(u) + Share(o) /\ refs' \in Nat
      BY <2>2, <2>3, <3>1, <3>2 DEF Finds, Share, BoostTypeOK
    <3>4. request'[u].step = IF Edge(u) /\ request[u].conn THEN "look" ELSE "none"
      BY <2>4 DEF Count, BoostTypeOK, NoRequest
    <3>5. Edge(u) <=> (refs > 0) # (refs' > 0)
      BY <3>1 DEF Edge
    <3>6. linkUp /\ ~carried /\ request[u].conn => (fast <=> refs > 0)
      BY <1>1, <1>5, <2>1, <3>1 DEF CountInv
    <3>7. linkUp /\ ~carried' /\ ~Calling(u)' => (fast' <=> refs' > 0)
      <4>1. CASE request[u].conn
        <5>1. CASE carried
          <6>1. ~carried' => refs' = 0 /\ refs > 0
            BY <2>2, <2>3, <3>1, <3>2, <3>3, <5>1 DEF Finds, Share
          <6>2. refs' = 0 /\ refs > 0 => Edge(u)
            BY <3>5
          <6>3. ~carried' => Calling(u)'
            BY <3>4, <4>1, <6>1, <6>2 DEF Calling
          <6> QED
            BY <6>3
        <5>2. CASE ~carried
          BY <3>1, <3>4, <3>5, <3>6, <4>1, <5>2 DEF Calling
        <5> QED
          BY <5>1, <5>2
      <4>2. CASE ~request[u].conn
        BY <2>2, <3>1, <3>3, <4>2 DEF Finds
      <4> QED
        BY <4>1, <4>2
    <3>8. Finds(u)'
      BY <3>4 DEF Finds, Counting
    <3>9. ~Counting(u)' /\ ~Counting(o)' /\ (Calling(u)' => request'[u].step = "look")
      BY <2>1, <3>4 DEF Counting, Calling
    <3> HIDE DEF o
    <3> QED
      <4>1. ~Calling("ota")' \/ ~Calling("nav")'
        BY <1>1, <2>1
      <4>2. \A w \in Users : Finds(w)'
        BY <1>1, <2>1, <3>8
      <4>3. refs' >= Share("ota")' + Share("nav")'
        BY <1>2, <1>3, <2>3, <3>3 DEF Share
      <4>4. (\A w \in Users : ~Calling(w) \/ Counting(w))' => ~Calling(u)'
        BY <1>1, <3>9
      <4> QED
        BY <1>3, <3>7, <4>1, <4>2, <4>3, <4>4 DEF CountInv
  <2>5. CASE Look(u)
    <3>1. /\ UNCHANGED <<refs, fast>>
          /\ request[u].step = "look" /\ request'[u].step = "update"
          /\ request'[u].want <=> refs > 0
      BY <2>5 DEF Look, BoostTypeOK
    <3> HIDE DEF o
    <3> QED
      BY <1>1, <1>2, <1>3, <1>5, <2>1, <3>1 DEF CountInv, Finds, Counting, Calling, Share
  <2>6. CASE Update(u)
    <3>1. /\ UNCHANGED refs /\ request[u].step = "update" /\ request'[u].step = "none"
          /\ linkUp => (fast' <=> request[u].want)
      BY <2>6 DEF Update, BoostTypeOK, NoRequest
    <3>2. request[u].want <=> refs > 0
      BY <2>2, <3>1 DEF Finds
    <3> HIDE DEF o
    <3> QED
      BY <1>1, <1>2, <1>3, <1>5, <2>1, <3>1, <3>2 DEF CountInv, Finds, Counting, Calling, Share
  <2> QED
    BY <2>4, <2>5, <2>6 DEF GoesOn
<1> QED
  BY <1>4, <1>5

LEMMA CountStep ==
    ASSUME BoostTypeOK, CountInv, BoostNext
    PROVE  CountInv'
<1>1. CASE Relinks
  <2>1. /\ UNCHANGED <<refs, request, raced>> /\ fast' = FALSE
        /\ linkUp' => (carried' <=> (refs > 0 \/ ~Settled))
        /\ boosted'["ota"] = boosted["ota"] /\ ~boosted'["nav"]
    BY <1>1 DEF Relinks, Users, BoostTypeOK
  <2>2. Share("ota")' = Share("ota") /\ Share("nav")' <= Share("nav") /\ Share("nav")' \in Nat
    BY <2>1 DEF Share
  <2>3. ~raced => \A u \in Users : Finds(u)'
    <3> SUFFICES ASSUME ~raced, NEW u \in Users PROVE Finds(u)'
      OBVIOUS
    <3>1. Finds(u)
      BY DEF CountInv
    <3>2. Share(Other(u))' <= Share(Other(u)) /\ Share(Other(u)) \in Nat /\ Share(Other(u))' \in Nat
      BY <2>1, <2>2 DEF Other, Share, Users
    <3>3. Counting(u) /\ linkUp' => carried'
      BY <2>1 DEF Counting, Settled, Calling
    <3>4. ~boosted[u] => ~boosted'[u]
      BY <2>1 DEF Users
    <3> QED
      BY <2>1, <3>1, <3>2, <3>3, <3>4 DEF Finds, Counting, BoostTypeOK
  <2>4. linkUp' /\ ~carried' => ~fast' /\ ~(refs' > 0)
    BY <2>1
  <2> QED
    BY <2>1, <2>2, <2>3, <2>4 DEF CountInv, Counting, Calling, Share, BoostTypeOK
<1>2. CASE BoostReset /\ linkUp' = FALSE
  BY <1>2 DEF BoostReset, NoRequest, CountInv, Finds, Counting, Calling, Share, Users
<1>3. CASE UNCHANGED <<boost, linkUp, carried>>
  BY <1>3 DEF boost, CountInv, Finds, Counting, Calling, Share
<1>4. CASE (ScanStarts \/ ScanEnds) /\ UNCHANGED carried
  BY <1>4 DEF ScanStarts, ScanEnds, CountInv, Finds, Counting, Calling, Share
<1> QED
  BY <1>1, <1>2, <1>3, <1>4, CountAsk, CountGoesOn DEF BoostNext
-----------------------------------------------------------------------------
(* The worker's plans *)

Plans == {BeginSteps, FinalizeSteps, AbortSteps, Cleared}

Remains(p, k) == Len(todo) = Len(p) - k /\ \A i \in 1 .. Len(todo) : todo[i] = p[k + i]

\* What is still to do is the rest of one of the plans.
PlanInv == \E p \in Plans : \E k \in 0 .. Len(p) : Remains(p, k)

At(w) == todo # <<>> /\ Head(todo) = w
Beginning == todo # <<>> /\ todo[Len(todo)] = "ready"

LEMMA PlanShapes ==
    /\ BeginSteps \in Seq(Steps) /\ FinalizeSteps \in Seq(Steps)
    /\ AbortSteps \in Seq(Steps) /\ Cleared \in Seq(Steps)
    /\ BeginSteps = <<"free", "zero", "idle", "alloc", "receiving", "boost", "ready">>
    /\ FinalizeSteps = <<"gate", "unboost", "check", "flash", "free", "zero", "idle", "done", "restart">>
    /\ AbortSteps = <<"free", "zero", "idle", "unboost">>
    /\ Cleared = <<"free", "zero", "idle">>
BY DEF BeginSteps, FinalizeSteps, AbortSteps, Cleared, Steps

LEMMA PlanStarts ==
    ASSUME NEW p \in Plans \cup {<<>>}, todo' = p
    PROVE  PlanInv' /\ todo' \in Seq(Steps)
<1>1. CASE p \in Plans
  <2>1. Len(p) \in Nat /\ p \in Seq(Steps)
    BY <1>1, PlanShapes DEF Plans
  <2>2. 0 \in 0 .. Len(p) /\ Remains(p, 0)'
    BY <2>1 DEF Remains
  <2> QED
    BY <1>1, <2>1, <2>2 DEF PlanInv
<1>2. CASE p = <<>>
  <2>1. Len(Cleared) = 3 /\ Cleared \in Plans
    BY DEF Cleared, Plans
  <2>2. 3 \in 0 .. Len(Cleared) /\ Remains(Cleared, 3)'
    BY <1>2, <2>1 DEF Remains
  <2> QED
    BY <1>2, <2>1, <2>2 DEF PlanInv
<1> QED
  BY <1>1, <1>2

LEMMA PlanGoesOn ==
    ASSUME PlanInv, todo \in Seq(Steps), todo # <<>>, todo' = Tail(todo)
    PROVE  PlanInv' /\ todo' \in Seq(Steps)
<1>1. PICK p \in Plans : \E k \in 0 .. Len(p) : Remains(p, k)
  BY DEF PlanInv
<1>0. PICK k \in 0 .. Len(p) : Remains(p, k)
  BY <1>1
<1>2. Len(p) \in Nat
  BY PlanShapes DEF Plans
<1>3. Len(todo) \in Nat \ {0}
  OBVIOUS
<1>4. k + 1 \in 0 .. Len(p) /\ Remains(p, k + 1)'
  BY <1>0, <1>2, <1>3 DEF Remains
<1> QED
  BY <1>4 DEF PlanInv

\* What follows what.
LEMMA PlanFacts ==
    ASSUME PlanInv, todo \in Seq(Steps), todo # <<>>
    PROVE  /\ At("free") => Len(todo) > 1 /\ todo[2] = "zero"
           /\ At("zero") => Len(todo) > 1 /\ todo[2] = "idle"
           /\ At("idle") => \/ Len(todo) = 1
                            \/ Len(todo) > 1 /\ todo[2] \in {"alloc", "done"}
                            \/ Len(todo) = 2 /\ todo[2] = "unboost"
           /\ At("alloc") => Len(todo) > 1 /\ todo[2] = "receiving"
           /\ At("receiving") => Len(todo) > 1 /\ todo[2] = "boost"
           /\ At("boost") => Len(todo) > 1 /\ todo[2] = "ready"
           /\ At("gate") => Len(todo) = 9 /\ todo[2] = "unboost"
           /\ At("unboost") => Len(todo) = 1 \/ (Len(todo) = 8 /\ todo[2] = "check")
           /\ At("check") => Len(todo) > 1 /\ todo[2] = "flash"
           /\ At("flash") => Len(todo) > 1 /\ todo[2] = "free"
           /\ At("done") => Len(todo) > 1 /\ todo[2] = "restart"
           /\ At("ready") \/ At("restart") => Len(todo) = 1
           /\ At("alloc") \/ At("receiving") \/ At("boost") \/ At("ready") => Beginning
           /\ Beginning => ~At("done") /\ ~At("gate") /\ ~At("check") /\ ~At("flash") /\ ~At("unboost")
<1>1. PICK p \in Plans : \E k \in 0 .. Len(p) : Remains(p, k)
  BY DEF PlanInv
<1>0. PICK k \in 0 .. Len(p) : Remains(p, k)
  BY <1>1
<1>2. Len(todo) \in Nat \ {0} /\ Head(todo) = todo[1]
  OBVIOUS
<1>3. Len(todo) = Len(p) - k /\ \A i \in 1 .. Len(todo) : todo[i] = p[k + i]
  BY <1>0 DEF Remains
<1>4. CASE p = BeginSteps
  <2>1. Len(p) = 7 /\ k \in 0 .. 6 /\ p[1] = "free" /\ p[2] = "zero" /\ p[3] = "idle"
        /\ p[4] = "alloc" /\ p[5] = "receiving" /\ p[6] = "boost" /\ p[7] = "ready"
    BY <1>2, <1>3, <1>4 DEF BeginSteps
  <2>2. todo[1] = p[k + 1] /\ todo[Len(todo)] = p[7] /\ (Len(todo) > 1 => todo[2] = p[k + 2])
    BY <1>2, <1>3, <2>1
  <2>3. k = 0 \/ k = 1 \/ k = 2 \/ k = 3 \/ k = 4 \/ k = 5 \/ k = 6
    BY <2>1
  <2> QED
    BY <1>2, <1>3, <2>1, <2>2, <2>3 DEF At, Beginning
<1>5. CASE p = FinalizeSteps
  <2>1. Len(p) = 9 /\ k \in 0 .. 8 /\ p[1] = "gate" /\ p[2] = "unboost" /\ p[3] = "check"
        /\ p[4] = "flash" /\ p[5] = "free" /\ p[6] = "zero" /\ p[7] = "idle" /\ p[8] = "done"
        /\ p[9] = "restart"
    BY <1>2, <1>3, <1>5, PlanShapes
  <2>2. todo[1] = p[k + 1] /\ todo[Len(todo)] = p[9] /\ (Len(todo) > 1 => todo[2] = p[k + 2])
    BY <1>2, <1>3, <2>1
  <2>3. todo[Len(todo)] = "restart" /\ Len(todo) = 9 - k
    BY <1>3, <2>1, <2>2
  <2>4. CASE k = 0 \/ k = 1 \/ k = 2 \/ k = 3
    BY <1>2, <2>1, <2>2, <2>3, <2>4 DEF At, Beginning
  <2>5. CASE k = 4 \/ k = 5 \/ k = 6
    BY <1>2, <2>1, <2>2, <2>3, <2>5 DEF At, Beginning
  <2>6. CASE k = 7 \/ k = 8
    BY <1>2, <2>1, <2>2, <2>3, <2>6 DEF At, Beginning
  <2> QED
    BY <2>1, <2>4, <2>5, <2>6
<1>6. CASE p = AbortSteps
  <2>1. Len(p) = 4 /\ k \in 0 .. 3 /\ p[1] = "free" /\ p[2] = "zero" /\ p[3] = "idle"
        /\ p[4] = "unboost"
    BY <1>2, <1>3, <1>6, PlanShapes
  <2>2. todo[1] = p[k + 1] /\ todo[Len(todo)] = p[4] /\ (Len(todo) > 1 => todo[2] = p[k + 2])
    BY <1>2, <1>3, <2>1
  <2>3. k = 0 \/ k = 1 \/ k = 2 \/ k = 3
    BY <2>1
  <2> QED
    BY <1>2, <1>3, <2>1, <2>2, <2>3 DEF At, Beginning
<1>7. CASE p = Cleared
  <2>1. Len(p) = 3 /\ k \in 0 .. 2 /\ p[1] = "free" /\ p[2] = "zero" /\ p[3] = "idle"
    BY <1>2, <1>3, <1>7 DEF Cleared
  <2>2. todo[1] = p[k + 1] /\ todo[Len(todo)] = p[3] /\ (Len(todo) > 1 => todo[2] = p[k + 2])
    BY <1>2, <1>3, <2>1
  <2>3. k = 0 \/ k = 1 \/ k = 2
    BY <2>1
  <2> QED
    BY <1>2, <1>3, <2>1, <2>2, <2>3 DEF At, Beginning
<1> QED
  BY <1>4, <1>5, <1>6, <1>7 DEF Plans
\* The step after this one.
LEMMA DoneLeads ==
    ASSUME todo \in Seq(Steps), todo # <<>>, todo' = Tail(todo)
    PROVE  /\ Len(todo) = 1 => todo' = <<>>
           /\ Len(todo) > 1 => /\ todo' # <<>> /\ Head(todo') = todo[2]
                               /\ Len(todo') = Len(todo) - 1
           /\ Beginning' => Beginning
           /\ Beginning /\ Head(todo) # "ready" => Beginning'
<1>1. Len(todo) \in Nat \ {0} /\ Head(todo) = todo[1]
  OBVIOUS
<1>2. Len(todo) = 1 => todo' = <<>>
  <2>1. Len(todo) = 1 => Len(todo') = 0 /\ todo' \in Seq(Steps)
    OBVIOUS
  <2> QED
    BY <2>1
<1>3. ASSUME Len(todo) > 1
      PROVE  /\ todo' # <<>> /\ Head(todo') = todo[2] /\ Len(todo') = Len(todo) - 1
             /\ todo'[Len(todo')] = todo[Len(todo)]
  <2>1. Len(todo') = Len(todo) - 1
    OBVIOUS
  <2>2. \A i \in 1 .. Len(todo') : todo'[i] = todo[i + 1]
    OBVIOUS
  <2> QED
    BY <1>1, <1>3, <2>1, <2>2
<1> QED
  BY <1>1, <1>2, <1>3 DEF Beginning

\* How a step of the whole moves the plan.
PlanNext ==
    \/ UNCHANGED todo
    \/ todo # <<>> /\ ~Calling("ota") /\ todo' = Tail(todo)
    \/ todo' \in Plans \cup {<<>>}

LEMMA PlanSteps == [Next]_vars => PlanNext
<1> USE DEF PlanNext, Plans
<1>1. ASSUME WriteBegin \/ WriteEnd \/ WriteAbort \/ PhoneFails \/ WriteData \/ HostUnblocks \/ WriteFrame
             \/ Connect \/ Disconnect
      PROVE  PlanNext
  BY <1>1 DEF WriteBegin, WriteEnd, WriteAbort, PhoneFails, WriteData, HostUnblocks, WriteFrame,
              Connect, Disconnect
<1>2. ASSUME Worker PROVE PlanNext
  <2>1. CASE TakeEvent
    BY <2>1 DEF TakeEvent
  <2>2. CASE \/ FreeStage \/ ZeroStage \/ ToIdle \/ Alloc \/ ToReceiving \/ Boost
             \/ Ready \/ Gate \/ Check \/ Flash \/ SayDone
    BY <2>2 DEF FreeStage, ZeroStage, ToIdle, Alloc, ToReceiving, Boost, Ready, Gate, Check, Flash,
                SayDone, Doing, Done, GivesUp
  <2>3. CASE Restart
    BY <2>3, Zenon DEF Restart
  <2> QED
    BY <1>2, <2>1, <2>2, <2>3 DEF Worker
<1>3. ASSUME NavTakes \/ NavIdles \/ Scans \/ ScanIsOver PROVE PlanNext
  BY <1>3 DEF NavTakes, NavIdles, Scans, ScanIsOver
<1>4. ASSUME NEW u \in Users, Boosts(u) PROVE PlanNext
  BY <1>4 DEF Boosts
<1>5. UNCHANGED vars => PlanNext
  BY DEF vars
<1> QED
  BY <1>1, <1>2, <1>3, <1>4, <1>5 DEF Next

LEMMA PlanStep ==
    ASSUME PlanInv, todo \in Seq(Steps), PlanNext
    PROVE  PlanInv' /\ todo' \in Seq(Steps)
<1>1. CASE UNCHANGED todo
  BY <1>1 DEF PlanInv, Remains
<1> QED
  BY <1>1, PlanGoesOn, PlanStarts DEF PlanNext
-----------------------------------------------------------------------------
(* The stage *)

OtaTypes ==
    /\ state \in {"idle", "receiving", "finalizing", "failed"}
    /\ stage \in Seq(Int) /\ sha \in Seq(Int) /\ expect \in Seq(Int)
    /\ total \in Sizes \cup {0} /\ recv \in 0 .. total
    /\ boot \in [image : Seq(Int), announced : Seq(Int)]

\* The stage holds what has been hashed, unless it is freed; it is freed outside
\* of the plans' clearing steps only when nothing is received.  What an END goes on
\* to check and to flash can no longer be written to, and the link of a transfer
\* has been asked to be fast.
StageInv ==
    /\ stage # Freed => stage = sha
    /\ Len(sha) = recv
    /\ total <= Slot
    /\ expect = <<>> \/ \E n \in Sizes : expect = Image(n)
    /\ At("zero") \/ At("idle") => stage = Freed
    /\ state = "receiving" => stage # Freed \/ At("zero") \/ At("idle")
    /\ At("alloc") \/ At("receiving") \/ At("check") \/ At("flash") \/ At("unboost")
         => state # "receiving"
    /\ At("receiving") \/ At("check") \/ At("flash") => stage # Freed
    /\ At("unboost") => Len(todo) = 1 \/ stage # Freed
    /\ At("flash") => sha = expect
    /\ boot.image = boot.announced
    /\ state = "receiving" => boosted["ota"] \/ At("boost")

LEMMA ImageTypes ==
    ASSUME NEW n \in Nat
    PROVE  Image(n) \in Seq(Int) /\ Len(Image(n)) = n
BY DEF Image

LEMMA FreedTypes == Freed \in Seq(Int) /\ <<>> \in Seq(Int) /\ Freed # <<>>
BY DEF Freed

LEMMA AskBoosts ==
    /\ BoostTypeOK /\ Ask("ota", TRUE) => boosted'["ota"]
    /\ BoostTypeOK /\ (Ask("nav", TRUE) \/ Ask("nav", FALSE)) => (boosted'["ota"] <=> boosted["ota"])
<1>1. ASSUME BoostTypeOK, Ask("ota", TRUE) PROVE boosted'["ota"]
  BY <1>1 DEF Ask, Wishes, Users, BoostTypeOK
<1>2. ASSUME BoostTypeOK, Ask("nav", TRUE) \/ Ask("nav", FALSE)
      PROVE  boosted'["ota"] <=> boosted["ota"]
  BY <1>2 DEF Ask, Users, BoostTypeOK
<1> QED
  BY <1>1, <1>2

\* Steps that leave the transfer alone, or end it.
LEMMA StageAside ==
    ASSUME OtaTypes, StageInv, UNCHANGED <<stage, total, recv, sha, expect, todo, boot>>,
           state' = state \/ state' \in {"idle", "failed"},
           boosted'["ota"] <=> boosted["ota"]
    PROVE  OtaTypes' /\ StageInv'
<1>1. OtaTypes'
  BY DEF OtaTypes
<1>2. StageInv'
  BY DEF StageInv, At
<1> QED
  BY <1>1, <1>2

LEMMA StageTakes ==
    ASSUME OtaTypes, StageInv, NEW c \in Nat \ {0}, Takes(c), UNCHANGED <<todo, boot, boosted>>
    PROVE  OtaTypes' /\ StageInv'
<1>1. CASE state # "receiving"
  BY <1>1, StageAside DEF Takes, ota
<1>2. CASE state = "receiving" /\ Overflows
  BY <1>2, StageAside DEF Takes
<1>3. CASE state = "receiving" /\ ~Overflows
  <2>1. /\ stage' = IF stage = Freed THEN Freed ELSE Append(stage, c)
        /\ sha' = Append(sha, c) /\ recv' = recv + 1
        /\ UNCHANGED <<state, total, expect, todo, boot, boosted>>
    BY <1>3 DEF Takes
  <2>2. recv + 1 <= total /\ recv \in Nat /\ total \in Nat
    BY <1>3, BleOtaAssumption DEF Overflows, OtaTypes
  <2>3. OtaTypes'
    BY <2>1, <2>2, FreedTypes DEF OtaTypes
  <2>4. stage' # Freed <=> stage # Freed
    <3>1. ASSUME stage # Freed, Append(stage, c) = Freed PROVE FALSE
      <4>1. Append(stage, c)[Len(stage) + 1] = c /\ Len(Append(stage, c)) = Len(stage) + 1
        BY DEF OtaTypes
      <4>2. Len(Freed) = 1 /\ Freed[1] = -1
        BY DEF Freed
      <4>3. Len(stage) + 1 = 1
        BY <3>1, <4>1, <4>2
      <4> QED
        BY <3>1, <4>1, <4>2, <4>3
    <3> QED
      BY <2>1, <3>1
  <2>5. stage # Freed => stage' = sha'
    BY <2>1 DEF StageInv
  <2>6. Len(sha') = recv'
    <3>1. sha \in Seq(Int) /\ Len(sha) = recv /\ c \in Int
      BY DEF StageInv, OtaTypes
    <3>2. Len(Append(sha, c)) = Len(sha) + 1
      BY <3>1
    <3> QED
      BY <2>1, <3>1, <3>2
  <2>7. /\ ~At("alloc") /\ ~At("receiving") /\ ~At("check") /\ ~At("flash") /\ ~At("unboost")
        /\ ~At("alloc")' /\ ~At("receiving")' /\ ~At("check")' /\ ~At("flash")' /\ ~At("unboost")'
    BY <1>3, <2>1 DEF StageInv, At
  <2>8. StageInv'
    BY <2>1, <2>4, <2>5, <2>6, <2>7 DEF StageInv, At
  <2> QED
    BY <2>3, <2>8
<1> QED
  BY <1>1, <1>2, <1>3
LEMMA StageClears ==
    ASSUME OtaTypes, StageInv, PlanInv, todo \in Seq(Steps), FreeStage \/ ZeroStage \/ ToIdle
    PROVE  OtaTypes' /\ StageInv'
<1>1. todo # <<>> /\ todo' = Tail(todo) /\ UNCHANGED <<boot, boosted, expect>>
  BY DEF FreeStage, ZeroStage, ToIdle, Doing, Done, boost
<1>2. CASE FreeStage
  <2>1. At("free") /\ At("zero")' /\ stage' = Freed /\ UNCHANGED <<state, total, recv, sha>>
    BY <1>1, <1>2, PlanFacts, DoneLeads DEF FreeStage, Doing, At
  <2>2. OtaTypes'
    BY <1>1, <2>1, FreedTypes DEF OtaTypes
  <2>3. /\ ~At("idle")' /\ ~At("alloc")' /\ ~At("receiving")' /\ ~At("check")' /\ ~At("flash")'
        /\ ~At("unboost")' /\ ~At("boost")
    BY <2>1 DEF At
  <2> HIDE DEF At
  <2> QED
    BY <1>1, <2>1, <2>2, <2>3 DEF StageInv
<1>3. CASE ZeroStage
  <2>1. At("zero") /\ At("idle")'
    BY <1>1, <1>3, PlanFacts, DoneLeads DEF ZeroStage, Doing, At
  <2>2. total' = 0 /\ recv' = 0 /\ sha' = <<>> /\ UNCHANGED <<state, stage>>
    BY <1>3 DEF ZeroStage
  <2>3. OtaTypes'
    BY <1>1, <2>2, FreedTypes DEF OtaTypes
  <2>4. /\ ~At("zero")' /\ ~At("alloc")' /\ ~At("receiving")' /\ ~At("check")' /\ ~At("flash")'
        /\ ~At("unboost")' /\ ~At("boost") /\ stage = Freed
    BY <2>1 DEF At, StageInv
  <2> HIDE DEF At
  <2> QED
    BY <1>1, <2>1, <2>2, <2>3, <2>4, BleOtaAssumption DEF StageInv
<1>4. CASE ToIdle
  <2>1. At("idle") /\ state' = "idle" /\ UNCHANGED <<stage, total, recv, sha>>
    BY <1>4 DEF ToIdle, Doing, At
  <2>2. OtaTypes'
    BY <1>1, <2>1 DEF OtaTypes
  <2>3. /\ ~At("zero")' /\ ~At("idle")' /\ ~At("receiving")' /\ ~At("check")' /\ ~At("flash")'
        /\ At("unboost")' => Len(todo') = 1
    BY <1>1, <2>1, PlanFacts, DoneLeads DEF At
  <2> HIDE DEF At
  <2> QED
    BY <1>1, <2>1, <2>2, <2>3 DEF StageInv
<1> QED
  BY <1>2, <1>3, <1>4

LEMMA StageAllocates ==
    ASSUME OtaTypes, StageInv, PlanInv, todo \in Seq(Steps), Alloc \/ ToReceiving
    PROVE  OtaTypes' /\ StageInv'
<1>1. UNCHANGED <<boot, boosted, expect>>
  BY DEF Alloc, ToReceiving, boost
<1>2. CASE Alloc
  <2>1. At("alloc") /\ UNCHANGED state /\ state # "receiving" /\ todo # <<>>
    BY <1>2 DEF Alloc, Doing, At, StageInv
  <2>2. CASE todo' = <<>> /\ UNCHANGED <<stage, sha, total, recv>>
    BY <1>1, <2>1, <2>2 DEF OtaTypes, StageInv, At
  <2>3. CASE /\ Len(expect) \in 1 .. Slot
             /\ stage' = <<>> /\ sha' = <<>> /\ total' = Len(expect) /\ recv' = 0
             /\ todo' = Tail(todo)
    <3>1. total' \in Sizes /\ total' \in Nat /\ total' <= Slot
      <4>1. expect # <<>>
        BY <2>3
      <4>2. PICK n \in Sizes : expect = Image(n)
        BY <4>1 DEF StageInv
      <4> QED
        BY <2>3, <4>2, ImageTypes, BleOtaAssumption
    <3>2. OtaTypes'
      BY <1>1, <2>1, <2>3, <3>1, FreedTypes DEF OtaTypes
    <3>3. At("receiving")'
      BY <2>1, <2>3, PlanFacts, DoneLeads DEF At
    <3>4. ~At("zero")' /\ ~At("idle")' /\ ~At("check")' /\ ~At("flash")' /\ ~At("unboost")'
      BY <3>3 DEF At
    <3> QED
      BY <1>1, <2>1, <2>3, <3>1, <3>2, <3>4, FreedTypes DEF StageInv
  <2> QED
    BY <1>2, <2>2, <2>3 DEF Alloc, Done, GivesUp
<1>3. CASE ToReceiving
  <2>1. At("receiving") /\ state' = "receiving" /\ UNCHANGED <<stage, total, recv, sha>>
        /\ todo # <<>> /\ todo' = Tail(todo)
    BY <1>3 DEF ToReceiving, Doing, Done, At
  <2>2. At("boost")'
    BY <2>1, PlanFacts, DoneLeads DEF At
  <2>3. /\ ~At("zero")' /\ ~At("idle")' /\ ~At("alloc")' /\ ~At("receiving")' /\ ~At("check")'
        /\ ~At("flash")' /\ ~At("unboost")'
    BY <2>2 DEF At
  <2>4. OtaTypes'
    BY <1>1, <2>1 DEF OtaTypes
  <2> QED
    BY <1>1, <2>1, <2>2, <2>3, <2>4 DEF StageInv
<1> QED
  BY <1>2, <1>3

LEMMA StageBoosts ==
    ASSUME BoostTypeOK, OtaTypes, StageInv, PlanInv, todo \in Seq(Steps), Boost
    PROVE  OtaTypes' /\ StageInv'
<1>1. UNCHANGED <<state, stage, total, recv, sha, expect, boot>> /\ todo # <<>> /\ todo' = Tail(todo)
  BY DEF Boost, ota, Doing, Done
<1>2. OtaTypes'
  BY <1>1 DEF OtaTypes
<1>3. CASE At("boost") /\ Ask("ota", TRUE)
  <2>1. At("ready")' /\ boosted'["ota"]
    BY <1>1, <1>3, PlanFacts, DoneLeads, AskBoosts DEF At
  <2>2. /\ ~At("zero")' /\ ~At("idle")' /\ ~At("alloc")' /\ ~At("receiving")' /\ ~At("check")'
        /\ ~At("flash")' /\ ~At("unboost")' /\ ~At("zero") /\ ~At("idle")
    BY <1>3, <2>1 DEF At
  <2> QED
    BY <1>1, <1>2, <2>1, <2>2 DEF StageInv
<1>4. CASE At("unboost")
  <2>1. state # "receiving"
    BY <1>4 DEF StageInv
  <2>2. todo' = <<>> \/ (At("check")' /\ stage # Freed)
    <3>1. CASE Len(todo) = 1
      BY <1>1, <3>1, DoneLeads
    <3>2. CASE Len(todo) # 1
      <4>1. Len(todo) = 8 /\ todo[2] = "check"
        BY <1>1, <1>4, <3>2, PlanFacts
      <4> QED
        BY <1>1, <1>4, <4>1, DoneLeads DEF At, StageInv
    <3> QED
      BY <3>1, <3>2
  <2>3. /\ ~At("zero")' /\ ~At("idle")' /\ ~At("alloc")' /\ ~At("receiving")'
        /\ ~At("flash")' /\ ~At("unboost")'
    BY <2>2 DEF At
  <2>4. At("check")' => stage # Freed
    BY <2>2 DEF At
  <2> QED
    BY <1>1, <1>2, <2>1, <2>3, <2>4 DEF StageInv
<1> QED
  BY <1>3, <1>4 DEF Boost, Doing, At
LEMMA StageFinishes ==
    ASSUME OtaTypes, StageInv, PlanInv, todo \in Seq(Steps),
           Gate \/ Check \/ Flash \/ SayDone \/ Ready
    PROVE  OtaTypes' /\ StageInv'
<1>1. UNCHANGED <<boosted, stage, total, recv, sha, expect>> /\ todo # <<>>
  BY DEF Gate, Check, Flash, SayDone, Ready, boost, ota, Doing
<1>2. CASE Gate
  <2>1. At("gate") /\ UNCHANGED boot
    BY <1>2 DEF Gate, Doing, At
  <2>2. CASE state # "receiving"
    <3>1. todo' = <<>> /\ UNCHANGED state
      BY <1>2, <2>2 DEF Gate, GivesUp
    <3> QED
      BY <1>1, <2>1, <2>2, <3>1 DEF OtaTypes, StageInv, At
  <2>3. CASE state = "receiving"
    <3>1. state' = "finalizing" /\ todo' = Tail(todo)
      BY <1>2, <2>3 DEF Gate, Done
    <3>2. At("unboost")'
      <4>1. Len(todo) > 1 /\ todo[2] = "unboost"
        <5>1. Len(todo) = 9 /\ todo[2] = "unboost"
          BY <1>1, <2>1, PlanFacts
        <5> QED
          BY <5>1
      <4> QED
        BY <1>1, <3>1, <4>1, DoneLeads DEF At
    <3>3. stage # Freed
      BY <2>1, <2>3 DEF StageInv, At
    <3>4. /\ ~At("zero")' /\ ~At("idle")' /\ ~At("alloc")' /\ ~At("receiving")' /\ ~At("check")'
          /\ ~At("flash")'
      BY <3>2 DEF At
    <3>5. OtaTypes'
      BY <1>1, <2>1, <3>1 DEF OtaTypes
    <3> QED
      BY <1>1, <2>1, <3>1, <3>3, <3>4, <3>5 DEF StageInv
  <2> QED
    BY <2>2, <2>3
<1>3. CASE Check
  <2>1. At("check") /\ UNCHANGED <<state, boot>> /\ state # "receiving" /\ stage # Freed
    BY <1>3 DEF Check, Doing, At, StageInv, ota
  <2>2. OtaTypes'
    BY <1>1, <2>1 DEF OtaTypes
  <2>3. CASE Matches
    <3>1. todo' = Tail(todo) /\ sha = expect
      BY <1>3, <2>3 DEF Check, Matches, Done
    <3>2. At("flash")'
      BY <1>1, <2>1, <3>1, PlanFacts, DoneLeads DEF At
    <3>3. ~At("zero")' /\ ~At("idle")' /\ ~At("unboost")'
      BY <3>2 DEF At
    <3> QED
      BY <1>1, <2>1, <2>2, <3>1, <3>3 DEF StageInv
  <2>4. CASE ~Matches
    <3>1. At("free")'
      BY <1>3, <2>4 DEF Check, GivesUp, Cleared, At
    <3>2. ~At("zero")' /\ ~At("idle")' /\ ~At("flash")' /\ ~At("unboost")'
      BY <3>1 DEF At
    <3> QED
      BY <1>1, <2>1, <2>2, <3>2 DEF StageInv
  <2> QED
    BY <2>3, <2>4
<1>4. CASE Flash
  <2>1. At("flash") /\ UNCHANGED state /\ state # "receiving" /\ stage = sha /\ sha = expect
    BY <1>4 DEF Flash, Doing, At, StageInv, ota
  <2>2. boot' = boot \/ boot' = [image |-> stage, announced |-> expect]
    BY <1>4 DEF Flash
  <2>3. At("free")'
    <3>1. At("flash") /\ todo' = Tail(todo) => At("free")'
      BY <1>1, PlanFacts, DoneLeads DEF At
    <3>2. todo' = Cleared => At("free")'
      BY DEF Cleared, At
    <3> QED
      BY <1>4, <2>1, <3>1, <3>2 DEF Flash, Done, GivesUp
  <2>4. /\ ~At("zero")' /\ ~At("idle")' /\ ~At("alloc")' /\ ~At("receiving")' /\ ~At("check")'
        /\ ~At("flash")' /\ ~At("unboost")'
    BY <2>3 DEF At
  <2>5. OtaTypes' /\ boot'.image = boot'.announced
    BY <1>1, <2>1, <2>2 DEF OtaTypes, StageInv
  <2> QED
    BY <1>1, <2>1, <2>4, <2>5 DEF StageInv
<1>5. CASE SayDone \/ Ready
  <2>1. (At("done") \/ At("ready")) /\ UNCHANGED <<state, boot>> /\ todo' = Tail(todo)
    BY <1>5 DEF SayDone, Ready, Doing, Done, At, ota
  <2>2. todo' = <<>> \/ At("restart")'
    BY <1>1, <2>1, PlanFacts, DoneLeads DEF At
  <2>3. /\ ~At("zero")' /\ ~At("idle")' /\ ~At("alloc")' /\ ~At("receiving")' /\ ~At("check")'
        /\ ~At("flash")' /\ ~At("unboost")' /\ ~At("boost") /\ ~At("zero") /\ ~At("idle")
    BY <2>1, <2>2 DEF At
  <2>4. OtaTypes'
    BY <1>1, <2>1 DEF OtaTypes
  <2> QED
    BY <1>1, <2>1, <2>3, <2>4 DEF StageInv
<1> QED
  BY <1>2, <1>3, <1>4, <1>5

LEMMA EventTypes ==
    ASSUME NEW e \in Events
    PROVE  /\ e.kind \in {"begin", "finalize", "abort", "fail"}
           /\ e.kind = "begin" => e.n \in Sizes
BY DEF Events, Begin, Event

LEMMA StageTakesEvent ==
    ASSUME OtaTypes, StageInv, queue \in Seq(Events), TakeEvent
    PROVE  OtaTypes' /\ StageInv'
<1>1. UNCHANGED <<boosted, state, stage, total, recv, sha, boot>> /\ todo = <<>> /\ queue # <<>>
  BY DEF TakeEvent, boost
<1>2. Head(queue) \in Events
  BY <1>1
<1>3. (todo' = BeginSteps \/ todo' = FinalizeSteps \/ todo' = AbortSteps)
  BY DEF TakeEvent
<1>4. At("free")' \/ At("gate")'
  BY <1>3 DEF At, BeginSteps, FinalizeSteps, AbortSteps
<1>5. /\ ~At("zero")' /\ ~At("idle")' /\ ~At("alloc")' /\ ~At("receiving")' /\ ~At("check")'
      /\ ~At("flash")' /\ ~At("unboost")' /\ ~At("boost") /\ ~At("zero") /\ ~At("idle")
  BY <1>1, <1>4 DEF At
<1>6. expect' = expect \/ \E n \in Sizes : expect' = Image(n)
  BY <1>2, EventTypes DEF TakeEvent
<1>7. expect' \in Seq(Int)
  BY <1>6, ImageTypes, BleOtaAssumption DEF OtaTypes
<1>8. OtaTypes'
  BY <1>1, <1>7 DEF OtaTypes
<1>9. expect' = <<>> \/ \E n \in Sizes : expect' = Image(n)
  BY <1>6 DEF StageInv
<1> QED
  BY <1>1, <1>5, <1>8, <1>9 DEF StageInv

LEMMA StageRestarts ==
    ASSUME OtaTypes, StageInv, Restart
    PROVE  OtaTypes' /\ StageInv'
<1>1. /\ state' = "idle" /\ stage' = Freed /\ total' = 0 /\ recv' = 0
      /\ sha' = <<>> /\ expect' = <<>> /\ todo' = <<>> /\ UNCHANGED boot
  BY DEF Restart
<1>2. OtaTypes'
  BY <1>1, FreedTypes DEF OtaTypes
<1> QED
  BY <1>1, <1>2, BleOtaAssumption DEF StageInv, At
LEMMA StageStep ==
    ASSUME BoostTypeOK, OtaTypes, StageInv, PlanInv, todo \in Seq(Steps), queue \in Seq(Events),
           phone.sent \in Nat, [Next]_vars
    PROVE  OtaTypes' /\ StageInv'
<1>1. ASSUME WriteEnd \/ WriteAbort \/ PhoneFails \/ HostUnblocks \/ WriteFrame
      PROVE  OtaTypes' /\ StageInv'
  BY <1>1, StageAside DEF WriteEnd, WriteAbort, PhoneFails, HostUnblocks, WriteFrame, ota, boost
<1>2. CASE WriteBegin
  BY <1>2, StageAside DEF WriteBegin, boost
<1>3. CASE WriteData
  <2>1. UNCHANGED <<todo, boot, boosted>> /\ Takes(phone.sent + 1)
    BY <1>3 DEF WriteData, boost
  <2> QED
    BY <2>1, StageTakes
<1>4. CASE Connect \/ Disconnect
  <2>1. boosted'["ota"] <=> boosted["ota"]
    BY <1>4 DEF Connect, Disconnect, BoostTypeOK, Users
  <2> QED
    BY <1>4, <2>1, StageAside DEF Connect, Disconnect, ota
<1>5. CASE NavTakes \/ NavIdles
  <2>1. boosted'["ota"] <=> boosted["ota"]
    BY <1>5, AskBoosts DEF NavTakes, NavIdles
  <2> QED
    BY <1>5, <2>1, StageAside DEF NavTakes, NavIdles, ota
<1>6. ASSUME NEW u \in Users, Boosts(u) PROVE OtaTypes' /\ StageInv'
  <2>1. UNCHANGED boosted
    BY <1>6 DEF Boosts, GoesOn, Count, Look, Update
  <2> QED
    BY <1>6, <2>1, StageAside DEF Boosts, ota
<1>7. CASE Worker
  BY <1>7, StageClears, StageAllocates, StageBoosts, StageFinishes, StageTakesEvent, StageRestarts
     DEF Worker
<1>8. CASE UNCHANGED vars
  BY <1>8, StageAside DEF vars
<1>9. CASE Scans \/ ScanIsOver
  BY <1>9, StageAside DEF Scans, ScanIsOver, ScanStarts, ScanEnds, ota
<1> QED
  BY <1>1, <1>2, <1>3, <1>4, <1>5, <1>6, <1>7, <1>8, <1>9 DEF Next

-----------------------------------------------------------------------------
(* Types *)

QueueTypes ==
    /\ queue \in Seq(Events) /\ Len(queue) <= MaxQueue
    /\ blocked \in Seq(Events) /\ Len(blocked) <= 1
    /\ frames \in Seq({"frame", "stop"}) /\ Len(frames) <= MaxQueue

Phones == [st : {"idle", "asked", "streaming", "ended"}, n : Nat, sent : Nat]

LEMMA AppendTypes ==
    ASSUME NEW S, NEW s \in Seq(S), NEW e \in S
    PROVE  Append(s, e) \in Seq(S) /\ Len(Append(s, e)) = Len(s) + 1 /\ Len(s) \in Nat
OBVIOUS

LEMMA QueueTakes ==
    ASSUME QueueTypes, NEW e \in Events, (HostFree /\ Post(e)) \/ (Offer(e) /\ UNCHANGED blocked)
    PROVE  /\ queue' \in Seq(Events) /\ Len(queue') <= MaxQueue
           /\ blocked' \in Seq(Events) /\ Len(blocked') <= 1
<1>1. queue' = queue \/ (~Full /\ queue' = Append(queue, e))
  BY DEF Post, Offer
<1>2. blocked' = blocked \/ blocked' = <<e>>
  BY DEF Post
<1>3. queue' \in Seq(Events) /\ Len(queue') <= MaxQueue
  <2>1. queue \in Seq(Events) /\ Len(queue) <= MaxQueue
    BY DEF QueueTypes
  <2>2. Len(Append(queue, e)) = Len(queue) + 1 /\ Len(queue) \in Nat /\ Append(queue, e) \in Seq(Events)
    BY <2>1, AppendTypes
  <2> QED
    BY <1>1, <2>1, <2>2, BleOtaAssumption DEF Full
<1>4. blocked' \in Seq(Events) /\ Len(blocked') <= 1
  <2>1. <<e>> \in Seq(Events) /\ Len(<<e>>) = 1
    OBVIOUS
  <2> QED
    <3>1. blocked \in Seq(Events) /\ Len(blocked) <= 1
      BY DEF QueueTypes
    <3>2. CASE blocked' = blocked
      BY <3>1, <3>2
    <3>3. CASE blocked' = <<e>>
      BY <2>1, <3>3
    <3> QED
      BY <1>2, <3>2, <3>3
<1> QED
  BY <1>3, <1>4

LEMMA EventsHave ==
    /\ \A n \in Sizes : Begin(n) \in Events
    /\ Event("finalize") \in Events /\ Event("abort") \in Events /\ Event("fail") \in Events
BY DEF Events

LEMMA QueueStep ==
    ASSUME QueueTypes, [Next]_vars
    PROVE  QueueTypes'
<1> USE DEF QueueTypes
<1>1. CASE WriteBegin
  <2>1. PICK n \in Sizes : Post(Begin(n))
    BY <1>1 DEF WriteBegin
  <2> QED
    BY <1>1, <2>1, QueueTakes, EventsHave DEF WriteBegin
<1>2. CASE WriteEnd
  BY <1>2, QueueTakes, EventsHave DEF WriteEnd
<1>3. CASE WriteAbort
  BY <1>3, QueueTakes, EventsHave DEF WriteAbort
<1>4. CASE WriteData
  <2>1. UNCHANGED <<blocked, frames>> /\ (queue' = queue \/ Offer(Event("fail")))
    BY <1>4 DEF WriteData, Takes
  <2> QED
    BY <2>1, QueueTakes, EventsHave
<1>5. CASE HostUnblocks
  <2>1. /\ blocked # <<>> /\ Len(queue) < MaxQueue /\ queue' = queue \o blocked
        /\ blocked' = <<>> /\ UNCHANGED frames
    BY <1>5, BleOtaAssumption DEF HostUnblocks, HostFree, Full
  <2>2. Len(queue') = Len(queue) + 1 /\ queue' \in Seq(Events)
    <3>1. blocked \in Seq(Events) /\ Len(blocked) <= 1 /\ queue \in Seq(Events)
      OBVIOUS
    <3> HIDE DEF QueueTypes
    <3>2. Len(blocked) \in Nat /\ Len(blocked) # 0 /\ Len(queue) \in Nat
      BY <2>1, <3>1
    <3>3. Len(blocked) = 1
      <4>1. \A n \in Nat : n # 0 /\ n <= 1 => n = 1
        OBVIOUS
      <4> QED
        BY <3>1, <3>2, <4>1, Zenon
    <3>4. queue \o blocked \in Seq(Events) /\ Len(queue \o blocked) = Len(queue) + Len(blocked)
      BY <3>1, ConcatProperties
    <3> QED
      BY <2>1, <3>3, <3>4
  <2> QED
    BY <1>5, <2>1, <2>2, BleOtaAssumption DEF HostUnblocks
<1>6. CASE Disconnect
  <2>1. UNCHANGED blocked /\ (queue' = queue \/ Offer(Event("abort")))
    BY <1>6 DEF Disconnect
  <2>2. frames' = frames \/ (Len(frames) < MaxQueue /\ frames' = Append(frames, "stop"))
    BY <1>6 DEF Disconnect
  <2>3. frames' \in Seq({"frame", "stop"}) /\ Len(frames') <= MaxQueue
    <3>1. Len(Append(frames, "stop")) = Len(frames) + 1 /\ Append(frames, "stop") \in Seq({"frame", "stop"})
      OBVIOUS
    <3>2. frames \in Seq({"frame", "stop"}) /\ Len(frames) <= MaxQueue /\ Len(frames) \in Nat
      OBVIOUS
    <3> HIDE DEF QueueTypes
    <3>3. CASE frames' = frames
      BY <3>2, <3>3
    <3>4. CASE frames' # frames
      BY <2>2, <3>1, <3>2, <3>4, BleOtaAssumption
    <3> QED
      BY <3>3, <3>4
  <2> QED
    BY <2>1, <2>3, QueueTakes, EventsHave
<1>7. CASE WriteFrame
  <2>1. Len(frames) < MaxQueue /\ frames' = Append(frames, "frame") /\ UNCHANGED <<queue, blocked>>
    BY <1>7 DEF WriteFrame
  <2>2. frames' \in Seq({"frame", "stop"}) /\ Len(frames') <= MaxQueue
    BY <2>1, AppendTypes, BleOtaAssumption
  <2> QED
    BY <2>1, <2>2
<1>8. CASE NavTakes
  <2>1. frames # <<>> /\ frames' = Tail(frames) /\ UNCHANGED <<queue, blocked>>
    BY <1>8 DEF NavTakes
  <2> QED
    BY <2>1, BleOtaAssumption
<1>9. CASE TakeEvent
  <2>1. queue # <<>> /\ queue' = Tail(queue) /\ UNCHANGED <<blocked, frames>>
    BY <1>9 DEF TakeEvent
  <2> QED
    BY <2>1, BleOtaAssumption
<1>10. CASE Restart
  <2>1. queue' = <<>> /\ blocked' = <<>> /\ frames' = <<>>
    BY <1>10, Zenon DEF Restart
  <2> QED
    BY <2>1, BleOtaAssumption
<1>11. CASE \/ Connect \/ PhoneFails \/ NavIdles \/ Scans \/ ScanIsOver
            \/ (\E u \in Users : Boosts(u))
            \/ FreeStage \/ ZeroStage \/ ToIdle \/ Alloc \/ ToReceiving \/ Boost
            \/ Ready \/ Gate \/ Check \/ Flash \/ SayDone \/ UNCHANGED vars
  <2>1. UNCHANGED <<queue, blocked, frames>>
    BY <1>11 DEF Connect, PhoneFails, NavIdles, Scans, ScanIsOver, Boosts, FreeStage, ZeroStage, ToIdle, Alloc,
                 ToReceiving, Boost, Ready, Gate, Check, Flash, SayDone, Rest, vars
  <2> QED
    BY <2>1
<1> QED
  BY <1>1, <1>2, <1>3, <1>4, <1>5, <1>6, <1>7, <1>8, <1>9, <1>10, <1>11 DEF Next, Worker
\* What a status does to the phone that waits for it.
LEMMA TellsPhone ==
    ASSUME phone \in Phones, unheard \in BOOLEAN, NEW status, Tells(status)
    PROVE  /\ phone' \in Phones /\ unheard' \in BOOLEAN
           /\ \/ phone' = phone \/ phone' = NoPhone
              \/ status = "ready" /\ phone.st = "asked" /\ phone'.st = "streaming"
           /\ linkUp /\ phone.st = "asked" => phone' # phone \/ unheard'
           /\ phone' = phone /\ unheard => unheard'
<1>1. NoPhone \in Phones /\ NoPhone.st = "idle"
  BY DEF NoPhone, Phones
<1>2. [phone EXCEPT !.st = "streaming"] \in Phones /\ [phone EXCEPT !.st = "streaming"].st = "streaming"
  BY DEF Phones
<1>3. /\ Told(status) \in Phones
      /\ \/ Told(status) = phone \/ Told(status) = NoPhone
         \/ status = "ready" /\ phone.st = "asked" /\ Told(status).st = "streaming"
      /\ phone.st = "asked" => Told(status) # phone
  <2>1. CASE status = "ready" /\ phone.st = "asked"
    BY <1>2, <2>1 DEF Told
  <2>2. CASE status # "ready" /\ phone.st \in {"asked", "ended"}
    BY <1>1, <2>2 DEF Told
  <2>3. CASE /\ ~(status = "ready" /\ phone.st = "asked")
             /\ ~(status # "ready" /\ phone.st \in {"asked", "ended"})
    BY <2>3 DEF Told
  <2> QED
    BY <2>1, <2>2, <2>3
<1>4. \/ phone' = Told(status) /\ unheard' = (unheard /\ phone' = phone)
      \/ phone' = phone /\ unheard' = (unheard \/ Told(status) # phone)
      \/ ~linkUp /\ phone' = phone /\ unheard' = unheard
  BY Zenon DEF Tells, app
<1>5. unheard' \in BOOLEAN
  BY <1>4, Zenon
<1>6. (phone' = phone /\ unheard => unheard') /\ (linkUp /\ phone.st = "asked" => phone' # phone \/ unheard')
  BY <1>3, <1>4
<1> QED
  BY <1>3, <1>4, <1>5, <1>6

LEMMA PhoneStep ==
    ASSUME phone \in Phones, unheard \in BOOLEAN, [Next]_vars
    PROVE  phone' \in Phones /\ unheard' \in BOOLEAN
<1>1. NoPhone \in Phones /\ [NoPhone EXCEPT !.st = "ended"] \in Phones
  BY DEF NoPhone, Phones
<1>2. CASE WriteBegin
  <2>1. PICK n \in Sizes : phone' = [st |-> "asked", n |-> n, sent |-> 0]
    BY <1>2 DEF WriteBegin
  <2>2. unheard' = FALSE
    BY <1>2 DEF WriteBegin
  <2> QED
    BY <2>1, <2>2, BleOtaAssumption DEF Phones
<1>3. CASE WriteEnd \/ WriteAbort \/ PhoneFails \/ Disconnect
  BY <1>1, <1>3 DEF WriteEnd, WriteAbort, PhoneFails, Disconnect
<1>4. CASE WriteData
  <2>1. (phone' = phone \/ phone' = [phone EXCEPT !.sent = @ + 1]) /\ UNCHANGED unheard
    BY <1>4 DEF WriteData
  <2> QED
    BY <2>1 DEF Phones
<1>5. CASE TakeEvent \/ Alloc \/ Ready \/ Gate \/ Check \/ Flash \/ SayDone
  <2>1. UNCHANGED <<phone, unheard>> \/ Tells("error") \/ Tells("ready") \/ Tells("done")
    BY <1>5 DEF TakeEvent, Alloc, Ready, Gate, Check, Flash, SayDone, GivesUp, app
  <2> QED
    BY <2>1, TellsPhone
<1>6. CASE Restart
  <2>1. phone' = NoPhone /\ unheard' \in BOOLEAN
    BY <1>6, Zenon DEF Restart
  <2> QED
    BY <1>1, <2>1
<1>7. CASE \/ HostUnblocks \/ Connect \/ WriteFrame \/ NavTakes \/ NavIdles \/ Scans
           \/ ScanIsOver \/ (\E u \in Users : Boosts(u))
           \/ FreeStage \/ ZeroStage \/ ToIdle \/ ToReceiving \/ Boost \/ UNCHANGED vars
  BY <1>7 DEF HostUnblocks, Connect, WriteFrame, NavTakes, NavIdles, Scans, ScanIsOver, Boosts,
              FreeStage, ZeroStage, ToIdle, ToReceiving, Boost, vars, app
<1> QED
  BY <1>2, <1>3, <1>4, <1>5, <1>6, <1>7 DEF Next, Worker

Bounds == [Bounded -> Nat]

LEMMA UsedStep ==
    ASSUME used \in Bounds, [Next]_vars
    PROVE  used' \in Bounds
<1>1. ASSUME NEW b \in Bounded, NEW max, Uses(b, max)
      PROVE  used' \in Bounds
  BY <1>1 DEF Uses, Bounds
<1>2. CASE WriteBegin \/ WriteFrame \/ Disconnect \/ Scans
  BY <1>1, <1>2 DEF WriteBegin, WriteFrame, Disconnect, Scans, Bounded
<1>3. CASE WriteData
  BY <1>1, <1>3 DEF WriteData, Bounded
<1>4. CASE Restart
  <2>1. used' = Spent
    BY <1>4, Zenon DEF Restart
  <2> QED
    BY <2>1, BleOtaAssumption DEF Spent, Bounds, Bounded
<1>5. CASE TakeEvent \/ FreeStage \/ ZeroStage \/ ToIdle \/ Alloc \/ ToReceiving \/ Boost \/ Ready
           \/ Gate \/ Check \/ Flash \/ SayDone
  BY <1>5 DEF TakeEvent, FreeStage, ZeroStage, ToIdle, Alloc, ToReceiving, Boost, Ready, Gate, Check,
              Flash, SayDone, Rest
<1>6. CASE \/ WriteEnd \/ WriteAbort \/ PhoneFails \/ HostUnblocks \/ Connect \/ NavTakes \/ NavIdles
           \/ (\E u \in Users : Boosts(u)) \/ ScanIsOver \/ UNCHANGED vars
  BY <1>6 DEF ScanIsOver, WriteEnd, WriteAbort, PhoneFails, HostUnblocks, Connect, NavTakes, NavIdles, Boosts, vars
<1> QED
  BY <1>2, <1>3, <1>4, <1>5, <1>6 DEF Next, Worker

PastTypes == missed \in BOOLEAN /\ stacked \in BOOLEAN /\ wild \in BOOLEAN /\ carried \in BOOLEAN

LEMMA PastStep ==
    ASSUME PastTypes, [Next]_vars
    PROVE  PastTypes'
<1>1. CASE WriteBegin
  <2>1. UNCHANGED <<missed, wild, carried>> /\ stacked' = (stacked \/ BeginPending)
    BY <1>1, Zenon DEF WriteBegin
  <2> QED
    BY <2>1, Zenon DEF PastTypes
<1>2. CASE WriteData
  <2>1. UNCHANGED <<missed, stacked, carried>> /\ (UNCHANGED wild \/ wild' = (wild \/ stage = Freed))
    BY <1>2, Zenon DEF WriteData, Takes
  <2> QED
    BY <2>1, Zenon DEF PastTypes
<1>3. CASE Connect
  <2>1. UNCHANGED <<stacked, wild>> /\ missed' = FALSE /\ carried' = (refs > 0 \/ ~Settled)
    BY <1>3, Zenon DEF Connect
  <2> QED
    BY <2>1, Zenon DEF PastTypes
<1>4. CASE Disconnect
  <2>1. UNCHANGED <<stacked, wild, carried>> /\ missed' = Misses
    BY <1>4, Zenon DEF Disconnect
  <2>2. Misses \in BOOLEAN
    <3>1. CASE Abandons
      BY <3>1 DEF Misses, Full
    <3>2. CASE ~Abandons
      BY <3>2, Zenon DEF Misses
    <3> QED
      BY <3>1, <3>2
  <2> QED
    BY <2>1, <2>2, Zenon DEF PastTypes
<1>5. ASSUME NEW u \in Users, Boosts(u) PROVE PastTypes'
  <2>1. /\ UNCHANGED <<stacked, wild>>
        /\ missed' = (missed /\ (scanRefs' > 0 \/ scanRefs = 0 \/ BeginPending))
        /\ carried' = (carried /\ refs' > 0)
    BY <1>5, Zenon DEF Boosts
  <2> QED
    BY <2>1, Zenon DEF PastTypes
<1>6. CASE Restart
  BY <1>6, Zenon DEF Restart, PastTypes
<1>7. CASE TakeEvent \/ FreeStage \/ ZeroStage \/ ToIdle \/ Alloc \/ ToReceiving \/ Boost \/ Ready
           \/ Gate \/ Check \/ Flash \/ SayDone
  <2>1. UNCHANGED past
    BY <1>7 DEF TakeEvent, FreeStage, ZeroStage, ToIdle, Alloc, ToReceiving, Boost, Ready, Gate, Check,
                Flash, SayDone, Rest
  <2> QED
    BY <2>1 DEF PastTypes, past
<1>8. CASE \/ WriteEnd \/ WriteAbort \/ PhoneFails \/ HostUnblocks \/ WriteFrame \/ NavTakes \/ NavIdles
           \/ Scans \/ ScanIsOver \/ UNCHANGED vars
  <2>1. UNCHANGED past
    BY <1>8 DEF WriteEnd, WriteAbort, PhoneFails, HostUnblocks, WriteFrame, NavTakes, NavIdles, Scans,
                ScanIsOver, vars, past
  <2> QED
    BY <2>1 DEF PastTypes, past
<1> QED
  BY <1>1, <1>2, <1>3, <1>4, <1>5, <1>6, <1>7, <1>8 DEF Next, Worker
CoreInv == TypeOK /\ PlanInv /\ ParkInv /\ StageInv

LEMMA CoreInit == Init => CoreInv
<1> SUFFICES ASSUME Init PROVE CoreInv
  OBVIOUS
<1>1. /\ state = "idle" /\ stage = Freed /\ total = 0 /\ recv = 0 /\ sha = <<>> /\ expect = <<>>
      /\ queue = <<>> /\ todo = <<>> /\ blocked = <<>> /\ frames = <<>>
      /\ linkUp = FALSE /\ phone = NoPhone /\ unheard = FALSE
      /\ boot = [image |-> <<>>, announced |-> <<>>]
      /\ used = [b \in Bounded |-> 0]
  BY Zenon DEF Init
<1>2. BoostTypeOK /\ ParkInv
  <2>1. BoostInit /\ linkUp \in BOOLEAN
    BY Zenon DEF Init
  <2>2. BoostTypeOK
    <3>1. NoRequest \in Requests
      BY Zenon DEF NoRequest, Requests
    <3>2. request \in [Users -> Requests] /\ boosted \in [Users -> BOOLEAN]
      BY <2>1, <3>1, Zenon DEF BoostInit
    <3>3. refs \in Nat /\ scanRefs \in Nat /\ scans \in Nat
      BY <2>1 DEF BoostInit
    <3> QED
      BY <2>1, <3>2, <3>3, Zenon DEF BoostInit, BoostTypeOK, Requests
  <2>3. ParkInv
    <3>1. scanRefs = 0 /\ ~scanned /\ ~boosted["ota"] /\ request["ota"].step = "none"
      BY <2>1 DEF BoostInit, NoRequest, Users
    <3> QED
      BY <3>1 DEF ParkInv, Counting, Share
  <2> QED
    BY <2>2, <2>3
<1>3. PastTypes
  BY Zenon DEF Init, PastTypes
<1>4. PlanInv /\ todo \in Seq(Steps)
  <2>1. 3 \in 0 .. Len(Cleared) /\ Cleared \in Plans /\ Remains(Cleared, 3)
    BY <1>1 DEF Cleared, Plans, Remains
  <2> QED
    BY <1>1, <2>1 DEF PlanInv
<1>5. StageInv
  BY <1>1, BleOtaAssumption DEF StageInv, At
<1>6. /\ queue \in Seq(Events) /\ Len(queue) <= MaxQueue
      /\ blocked \in Seq(Events) /\ Len(blocked) <= 1
      /\ frames \in Seq({"frame", "stop"}) /\ Len(frames) <= MaxQueue
  BY <1>1, BleOtaAssumption
<1>7. stage \in Seq(Int) /\ sha \in Seq(Int) /\ expect \in Seq(Int)
      /\ boot \in [image : Seq(Int), announced : Seq(Int)]
  BY <1>1, FreedTypes
<1>8. /\ phone \in [st : {"idle", "asked", "streaming", "ended"}, n : Nat, sent : Nat]
      /\ used \in [Bounded -> Nat]
  BY <1>1 DEF NoPhone
<1>9. scanRefs <= 1
  BY <1>2 DEF ParkInv, Share, Counting
<1>10. state \in {"idle", "receiving", "finalizing", "failed"} /\ total \in Sizes \cup {0} /\ recv \in 0 .. total
  BY <1>1
<1>11. TypeOK
  BY <1>1, <1>2, <1>3, <1>4, <1>6, <1>7, <1>8, <1>9, <1>10, Zenon DEF TypeOK, PastTypes
<1> QED
  BY <1>2, <1>4, <1>5, <1>11 DEF CoreInv

LEMMA CoreStep ==
    ASSUME CoreInv, [Next]_vars
    PROVE  CoreInv'
<1>1. /\ BoostTypeOK /\ OtaTypes /\ QueueTypes /\ todo \in Seq(Steps) /\ phone \in Phones
      /\ unheard \in BOOLEAN /\ PastTypes /\ used \in Bounds
  BY Zenon DEF CoreInv, TypeOK, OtaTypes, QueueTypes, Phones, PastTypes, Bounds
<1>2. PlanInv /\ ParkInv /\ StageInv /\ queue \in Seq(Events) /\ phone.sent \in Nat
  BY <1>1 DEF CoreInv, QueueTypes, Phones
<1>3. BoostTypeOK' /\ ParkInv'
  BY <1>1, <1>2, BoostSteps, BoostTypes, ParkStep
<1>4. PlanInv' /\ todo' \in Seq(Steps)
  BY <1>1, <1>2, PlanSteps, PlanStep
<1>5. OtaTypes' /\ StageInv'
  BY <1>1, <1>2, StageStep
<1>6. QueueTypes' /\ phone' \in Phones /\ unheard' \in BOOLEAN /\ used' \in Bounds /\ PastTypes'
  BY <1>1, QueueStep, PhoneStep, UsedStep, PastStep
<1>7. scanRefs' <= 1
  BY <1>3 DEF ParkInv, Share, Counting
<1>8. stage' = Freed \/ Len(stage') <= Slot
  <2>1. stage' # Freed => Len(stage') = recv' /\ recv' <= total' /\ total' <= Slot
    BY <1>5 DEF StageInv, OtaTypes
  <2>2. recv' \in Int /\ total' \in Int /\ Slot \in Int
    BY <1>5, BleOtaAssumption DEF OtaTypes
  <2> QED
    BY <2>1, <2>2
<1>9. TypeOK'
  BY <1>3, <1>4, <1>5, <1>6, <1>7, <1>8, Zenon DEF TypeOK, OtaTypes, QueueTypes, Phones, PastTypes, Bounds
<1> QED
  BY <1>3, <1>4, <1>5, <1>9 DEF CoreInv

\* Every variable keeps its type; the stage never outgrows the partition, the
\* arbiter's count never exceeds its one user (main/ble_ota.c).
THEOREM TypeCorrect == Spec => []TypeOK
<1>1. CoreInv => TypeOK
  BY DEF CoreInv
<1> QED
  BY <1>1, CoreInit, CoreStep, PTL DEF Spec

\* What the device boots after an update is the image the phone announced, whatever
\* BEGINs, repeated data, ENDs and disconnects came in between (do_finalize).
THEOREM BootsTheAnnounced == Spec => []BootedIsAnnounced
<1>1. CoreInv => BootedIsAnnounced
  BY DEF CoreInv, StageInv, BootedIsAnnounced
<1> QED
  BY <1>1, CoreInit, CoreStep, PTL DEF Spec
LEMMA CountInit == Init => CountInv
<1>1. Init => \A u \in Users : request[u].step = "none"
  BY DEF Init, BoostInit, NoRequest
<1>2. Init => refs = 0 /\ ~linkUp /\ ~boosted["ota"] /\ ~boosted["nav"]
  BY DEF Init, BoostInit, Users
<1> QED
  BY <1>1, <1>2 DEF CountInv, Finds, Counting, Calling, Share, Users

\* While an image is streamed, the link was asked to be fast and the arbiter is
\* parked, unless requests of the two users overlapped or an earlier link's are
\* still counted (ble_link_boost_request); the end of a scan may resume the
\* arbiter (ble_arb_scan_resume), and does not slow the link.
THEOREM StreamingIsFast == Spec => []StreamsFast
<1>1. CoreInv /\ CountInv => StreamsFast
  <2> SUFFICES ASSUME CoreInv, CountInv,
                      linkUp, state = "receiving", Settled, todo = <<>>, ~raced, ~carried
               PROVE  fast /\ (parked \/ scanned)
    BY DEF StreamsFast
  <2>1. boosted["ota"] /\ Share("ota") = 1 /\ Share("nav") \in Nat
    BY DEF CoreInv, StageInv, At, Share
  <2>2. \A u \in Users : ~Calling(u) /\ ~Counting(u)
    BY DEF Settled, Calling, Counting
  <2>3. parked \/ scanned
    BY <2>1, <2>2 DEF CoreInv, ParkInv, Users
  <2>4. refs > 0
    <3>1. refs >= Share("ota") + Share("nav") /\ refs \in Nat
      BY <2>2 DEF CountInv, Users, CoreInv, TypeOK, BoostTypeOK
    <3> QED
      BY <2>1, <3>1
  <2>5. fast
    BY <2>2, <2>4 DEF CountInv
  <2> QED
    BY <2>3, <2>5
<1>2. CoreInv /\ CountInv /\ [Next]_vars => CountInv'
  <2>1. CoreInv => BoostTypeOK
    BY DEF CoreInv, TypeOK
  <2> QED
    BY <2>1, BoostSteps, CountStep
<1> QED
  BY <1>1, <1>2, CountInit, CoreInit, CoreStep, PTL DEF Spec

-----------------------------------------------------------------------------
(* The gate *)

Begins == {i \in 1 .. Len(queue) : queue[i].kind = "begin"}

\* Until a second BEGIN overtakes a first, the phone that waits for a BEGIN has it
\* in one place only, the last to be reached, or its answer was dropped, and the
\* phone that streams into an open gate has left the worker nothing to do.
GateInv ==
    /\ phone.st # "idle" => linkUp
    /\ ~stacked =>
         /\ ~wild
         /\ phone.st = "asked" =>
              \/ ~Beginning /\ Begins = {} /\ blocked # <<>> /\ blocked[1].kind = "begin"
              \/ ~Beginning /\ Begins = {Len(queue)} /\ blocked = <<>>
              \/ Beginning /\ queue = <<>> /\ blocked = <<>>
              \/ ~Beginning /\ Begins = {} /\ blocked = <<>> /\ unheard
         /\ phone.st = "streaming" =>
              /\ ~Beginning /\ Begins = {} /\ blocked = <<>>
              /\ state = "receiving" => queue = <<>> /\ todo = <<>>
LEMMA BeginsAppended ==
    ASSUME queue \in Seq(Events), NEW e \in Events, queue' = Append(queue, e)
    PROVE  /\ e.kind # "begin" => Begins' = Begins
           /\ e.kind = "begin" /\ Begins = {} => Begins' = {Len(queue')}
<1>1. /\ Len(queue) \in Nat /\ Len(queue') = Len(queue) + 1
      /\ \A i \in 1 .. Len(queue) : queue'[i] = queue[i]
      /\ queue'[Len(queue) + 1] = e
  OBVIOUS
<1>2. \A i : i \in 1 .. Len(queue') <=> i \in 1 .. Len(queue) \/ i = Len(queue')
  BY <1>1
<1>3. \A i : i \in Begins' <=> i \in Begins \/ (i = Len(queue') /\ e.kind = "begin")
  <2>1. \A i \in 1 .. Len(queue) : i # Len(queue')
    BY <1>1
  <2> QED
    BY <1>1, <1>2, <2>1 DEF Begins
<1> QED
  BY <1>3

LEMMA BeginsTaken ==
    ASSUME queue \in Seq(Events), queue # <<>>, queue' = Tail(queue)
    PROVE  /\ Begins = {} => Begins' = {} /\ Head(queue).kind # "begin"
           /\ Begins = {Len(queue)} =>
                \/ Head(queue).kind = "begin" /\ queue' = <<>>
                \/ Head(queue).kind # "begin" /\ Begins' = {Len(queue')}
<1>1. /\ Len(queue) \in Nat \ {0} /\ Len(queue') = Len(queue) - 1 /\ Head(queue) = queue[1]
      /\ \A i \in 1 .. Len(queue') : queue'[i] = queue[i + 1]
      /\ queue' \in Seq(Events)
  OBVIOUS
<1>2. \A i \in 1 .. Len(queue') : i + 1 \in 1 .. Len(queue)
  BY <1>1
<1>3. Begins = {} => Begins' = {} /\ Head(queue).kind # "begin"
  <2>1. 1 \in 1 .. Len(queue)
    BY <1>1
  <2> QED
    BY <1>1, <1>2, <2>1 DEF Begins
<1>4. ASSUME Begins = {Len(queue)}, Len(queue) = 1 PROVE Head(queue).kind = "begin" /\ queue' = <<>>
  <2>1. 1 \in Begins /\ Len(queue') = 0
    BY <1>1, <1>4
  <2> QED
    BY <1>1, <2>1 DEF Begins
<1>5. ASSUME Begins = {Len(queue)}, Len(queue) # 1
      PROVE  Head(queue).kind # "begin" /\ Begins' = {Len(queue')}
  <2>1. 1 \in 1 .. Len(queue) /\ 1 \notin Begins
    BY <1>1, <1>5
  <2>2. Head(queue).kind # "begin"
    BY <1>1, <2>1 DEF Begins
  <2>3. Len(queue') \in 1 .. Len(queue') /\ Len(queue') + 1 = Len(queue)
    BY <1>1, <1>5
  <2>4. Len(queue) \in Begins
    BY <1>5
  <2>5. Len(queue') \in Begins'
    BY <1>1, <2>3, <2>4 DEF Begins
  <2>6. ASSUME NEW i \in Begins' PROVE i = Len(queue')
    <3>1. i \in 1 .. Len(queue') /\ queue[i + 1].kind = "begin"
      BY <1>1, <2>6 DEF Begins
    <3>2. i + 1 \in Begins
      BY <1>2, <3>1 DEF Begins
    <3>3. i + 1 = Len(queue)
      BY <1>5, <3>2
    <3>4. i \in Nat /\ Len(queue') \in Nat
      BY <1>1, <3>1
    <3>5. \A a, b \in Nat : a + 1 = b + 1 => a = b
      OBVIOUS
    <3> QED
      BY <2>3, <3>3, <3>4, <3>5
  <2> QED
    BY <2>2, <2>5, <2>6
<1> QED
  BY <1>3, <1>4, <1>5

LEMMA PendingBegins == BeginPending <=> Begins # {} \/ Beginning
BY DEF BeginPending, Begins, Beginning

\* Steps that concern neither the phone nor the gate.
LEMMA GateAside ==
    ASSUME GateInv, UNCHANGED <<queue, blocked, todo, app, linkUp, state, stacked, wild>>
    PROVE  GateInv'
BY DEF GateInv, Begins, Beginning, app

\* Steps of a plan that tell the waiting phone nothing, or that it failed.
LEMMA GateGoesOn ==
    ASSUME GateInv, todo # <<>>, UNCHANGED <<queue, blocked, linkUp, stacked, wild>>,
           Beginning' <=> Beginning,
           phone'.st = phone.st \/ phone'.st = "idle",
           phone'.st = "asked" /\ unheard => unheard',
           state' = "receiving" => state = "receiving" \/ Beginning
    PROVE  GateInv'
<1>1. Begins' = Begins
  BY DEF Begins
<1>2. (phone'.st # "idle" => linkUp') /\ (stacked' <=> stacked) /\ (wild' <=> wild)
  BY DEF GateInv
<1>3. CASE phone'.st = "asked"
  BY <1>1, <1>2, <1>3 DEF GateInv
<1>4. CASE phone'.st = "streaming"
  BY <1>1, <1>2, <1>4 DEF GateInv
<1> QED
  BY <1>1, <1>2, <1>3, <1>4 DEF GateInv
LEMMA GateHost ==
    ASSUME CoreInv, GateInv,
           \/ WriteBegin \/ WriteEnd \/ WriteAbort \/ PhoneFails \/ WriteData \/ HostUnblocks
           \/ Connect \/ Disconnect
    PROVE  GateInv'
<1>1. queue \in Seq(Events) /\ blocked \in Seq(Events) /\ phone \in Phones
  BY Zenon DEF CoreInv, TypeOK, Phones
<1>2. CASE WriteBegin
  <2>1. PICK n \in Sizes : Post(Begin(n)) /\ phone'.st = "asked"
    BY <1>2 DEF WriteBegin
  <2>2. /\ blocked = <<>> /\ linkUp' /\ UNCHANGED <<todo, wild>> /\ (stacked' <=> (stacked \/ BeginPending))
    BY <1>2 DEF WriteBegin, HostFree, GateInv
  <2>3. Begin(n) \in Events /\ Begin(n).kind = "begin"
    BY <2>1, EventsHave DEF Begin
  <2>4. ~stacked' => ~stacked /\ Begins = {} /\ ~Beginning /\ ~Beginning'
    BY <2>2, PendingBegins DEF Beginning
  <2>5. \/ blocked' = <<Begin(n)>> /\ queue' = queue
        \/ blocked' = <<>> /\ queue' = Append(queue, Begin(n))
    BY <2>1, <2>2 DEF Post
  <2>6. ~stacked' => \/ Begins' = {} /\ blocked' # <<>> /\ blocked'[1].kind = "begin"
                     \/ Begins' = {Len(queue')} /\ blocked' = <<>>
    <3>1. CASE blocked' = <<Begin(n)>> /\ queue' = queue
      BY <2>3, <2>4, <3>1 DEF Begins
    <3>2. CASE blocked' = <<>> /\ queue' = Append(queue, Begin(n))
      BY <1>1, <2>3, <2>4, <3>2, BeginsAppended
    <3> QED
      BY <2>5, <3>1, <3>2
  <2> QED
    BY <2>1, <2>2, <2>4, <2>6 DEF GateInv
<1>3. CASE WriteEnd \/ WriteAbort \/ PhoneFails \/ Disconnect
  <2>1. /\ phone'.st = "idle" \/ (phone'.st = "ended" /\ linkUp')
        /\ UNCHANGED <<stacked, wild>>
    BY <1>3 DEF WriteEnd, WriteAbort, PhoneFails, Disconnect, NoPhone, past
  <2> QED
    BY <2>1 DEF GateInv
<1>4. CASE WriteData
  <2>1. /\ phone.st = "streaming" /\ phone'.st = "streaming" /\ Takes(phone.sent + 1)
        /\ UNCHANGED <<linkUp, todo, blocked, stacked>> /\ linkUp
    BY <1>1, <1>4 DEF WriteData, Phones, GateInv
  <2>2. CASE state # "receiving"
    BY <2>1, <2>2 DEF GateInv, Takes, Begins, Beginning, ota
  <2>3. CASE state = "receiving" /\ Overflows
    <3>1. state' = "failed" /\ UNCHANGED wild /\ (queue' = queue \/ queue' = Append(queue, Event("fail")))
      BY <2>1, <2>3 DEF Takes, Offer
    <3>2. Event("fail") \in Events /\ Event("fail").kind # "begin"
      BY EventsHave DEF Event
    <3>3. Begins' = Begins
      <4>1. CASE queue' = queue
        BY <4>1 DEF Begins
      <4>2. CASE queue' = Append(queue, Event("fail"))
        BY <1>1, <3>2, <4>2, BeginsAppended
      <4> QED
        BY <3>1, <4>1, <4>2
    <3>4. Beginning' <=> Beginning
      BY <2>1 DEF Beginning
    <3> QED
      BY <2>1, <3>1, <3>3, <3>4 DEF GateInv
  <2>4. CASE state = "receiving" /\ ~Overflows
    <3>1. UNCHANGED <<state, queue>> /\ (wild' <=> (wild \/ stage = Freed))
      BY <2>1, <2>4 DEF Takes
    <3>2. ~stacked => stage # Freed
      BY <2>1, <2>4 DEF GateInv, CoreInv, StageInv, At
    <3> QED
      BY <2>1, <3>1, <3>2 DEF GateInv, Begins, Beginning
  <2> QED
    BY <2>2, <2>3, <2>4
<1>5. CASE HostUnblocks
  <2>1. /\ blocked # <<>> /\ queue' = queue \o blocked /\ blocked' = <<>>
        /\ UNCHANGED <<linkUp, state, todo, phone, stacked, wild>>
    BY <1>5 DEF HostUnblocks, HostFree, ota, past, app
  <2>2. Len(blocked) = 1
    <3>1. Len(blocked) <= 1 /\ Len(blocked) \in Nat /\ Len(blocked) # 0
      <4>1. Len(blocked) <= 1
        BY DEF CoreInv, TypeOK
      <4> QED
        BY <1>1, <2>1, <4>1
    <3>2. \A n \in Nat : n # 0 /\ n <= 1 => n = 1
      OBVIOUS
    <3> QED
      BY <3>1, <3>2, Zenon
  <2>3. blocked = <<blocked[1]>> /\ blocked[1] \in Events
    <3>1. blocked[1] \in Events
      BY <1>1, <2>2
    <3>2. <<blocked[1]>> \in Seq(Events) /\ Len(<<blocked[1]>>) = 1
      BY <3>1
    <3>3. \A i \in 1 .. Len(blocked) : blocked[i] = <<blocked[1]>>[i]
      BY <2>2
    <3> QED
      BY <1>1, <2>2, <3>1, <3>2, <3>3, SeqEqual
  <2>4. queue' = Append(queue, blocked[1])
    BY <1>1, <2>1, <2>3, AppendIsConcat, Zenon
  <2>5. Beginning' <=> Beginning
    BY <2>1 DEF Beginning
  <2>6. phone.st = "asked" /\ ~stacked => ~Beginning /\ Begins' = {Len(queue')}
    BY <1>1, <2>1, <2>3, <2>4, BeginsAppended DEF GateInv
  <2> QED
    BY <2>1, <2>5, <2>6 DEF GateInv
<1>6. CASE Connect
  <2>1. phone' = phone /\ ~linkUp /\ UNCHANGED <<stacked, wild>>
    BY <1>6 DEF Connect, app
  <2> QED
    BY <2>1 DEF GateInv
<1> QED
  BY <1>2, <1>3, <1>4, <1>5, <1>6
\* What an event inside a plan does to the phone when it fails.
LEMMA ErrorIdles ==
    ASSUME phone \in Phones, unheard \in BOOLEAN, GateInv, NEW status, status # "ready",
           Tells(status)
    PROVE  /\ phone'.st = phone.st \/ phone'.st = "idle"
           /\ phone.st = "asked" => phone'.st = "idle" \/ unheard'
           /\ phone'.st = "asked" /\ unheard => unheard'
<1>1. phone' = phone \/ phone'.st = "idle"
  BY TellsPhone DEF NoPhone
<1>2. phone.st = "asked" => phone'.st = "idle" \/ unheard'
  BY <1>1, TellsPhone DEF GateInv
<1>3. phone'.st = "asked" /\ unheard => unheard'
  BY <1>1, TellsPhone
<1> QED
  BY <1>1, <1>2, <1>3

LEMMA GateTakesEvent ==
    ASSUME CoreInv, GateInv, TakeEvent
    PROVE  GateInv'
<1>1. queue \in Seq(Events) /\ phone \in Phones /\ unheard \in BOOLEAN
  BY Zenon DEF CoreInv, TypeOK, Phones
<1>2. /\ todo = <<>> /\ queue # <<>> /\ queue' = Tail(queue)
      /\ UNCHANGED <<linkUp, state, blocked, stacked, wild>>
  BY DEF TakeEvent, past
<1>3. ~Beginning
  BY <1>2 DEF Beginning
<1>4. Head(queue).kind \in {"begin", "finalize", "abort", "fail"}
  BY <1>1, <1>2, EventTypes
<1>5. CASE Head(queue).kind = "begin"
  <2>1. Beginning' /\ phone' = phone
    <3>1. todo' = BeginSteps /\ phone' = phone
      BY <1>5 DEF TakeEvent, app
    <3>2. todo' = BeginSteps => Beginning'
      BY DEF BeginSteps, Beginning
    <3> QED
      BY <3>1, <3>2
  <2>2. ~stacked /\ phone.st = "asked" => Begins = {Len(queue)} /\ blocked = <<>>
    BY <1>1, <1>2, <1>3, <1>5, BeginsTaken DEF GateInv
  <2>3. ~stacked /\ phone.st = "asked" => queue' = <<>>
    BY <1>1, <1>2, <1>5, <2>2, BeginsTaken
  <2>4. ~stacked => phone.st # "streaming"
    BY <1>1, <1>2, <1>5, BeginsTaken DEF GateInv
  <2> QED
    BY <1>2, <2>1, <2>2, <2>3, <2>4 DEF GateInv
<1>6. CASE Head(queue).kind # "begin"
  <2>1. ~Beginning'
    <3>1. todo' = FinalizeSteps \/ todo' = AbortSteps
      BY <1>6 DEF TakeEvent
    <3>2. todo' = FinalizeSteps => todo'[Len(todo')] = "restart"
      <4>1. Len(FinalizeSteps) = 9 /\ FinalizeSteps[9] = "restart"
        BY DEF FinalizeSteps
      <4> QED
        BY <4>1
    <3>3. todo' = AbortSteps => todo'[Len(todo')] = "unboost"
      BY DEF AbortSteps
    <3> QED
      BY <3>1, <3>2, <3>3 DEF Beginning
  <2>2. /\ phone'.st = phone.st \/ phone'.st = "idle"
        /\ phone'.st = "asked" /\ unheard => unheard'
    <3>1. UNCHANGED <<phone, unheard>> \/ Tells("error")
      BY <1>6 DEF TakeEvent, app
    <3> QED
      BY <1>1, <3>1, ErrorIdles
  <2>3. ~stacked /\ phone.st = "asked" =>
          \/ Begins' = {} /\ blocked # <<>> /\ blocked[1].kind = "begin"
          \/ Begins' = {Len(queue')} /\ blocked = <<>>
          \/ Begins' = {} /\ blocked = <<>> /\ unheard
    <3>1. CASE Begins = {}
      <4>1. Begins' = {}
        BY <1>1, <1>2, <3>1, BeginsTaken
      <4>2. ~stacked /\ phone.st = "asked" =>
              \/ blocked # <<>> /\ blocked[1].kind = "begin"
              \/ Begins = {Len(queue)}
              \/ blocked = <<>> /\ unheard
        BY <1>3 DEF GateInv
      <4> QED
        BY <3>1, <4>1, <4>2
    <3>2. CASE Begins = {Len(queue)}
      <4>1. Begins' = {Len(queue')}
        BY <1>1, <1>2, <1>6, <3>2, BeginsTaken
      <4>2. Begins # {}
        BY <3>2
      <4> QED
        BY <1>3, <4>1, <4>2 DEF GateInv
    <3> QED
      BY <1>3, <3>1, <3>2 DEF GateInv
  <2>4. ~stacked /\ phone.st = "streaming" => Begins' = {} /\ blocked = <<>> /\ state # "receiving"
    BY <1>1, <1>2, BeginsTaken DEF GateInv
  <2>5. (phone'.st # "idle" => linkUp') /\ (~stacked' => ~wild')
    BY <1>2, <2>2 DEF GateInv
  <2>6. CASE phone'.st = "asked"
    BY <1>2, <2>1, <2>2, <2>3, <2>5, <2>6 DEF GateInv
  <2>7. CASE phone'.st # "asked"
    BY <1>2, <2>1, <2>2, <2>4, <2>5, <2>7 DEF GateInv
  <2> QED
    BY <2>6, <2>7
<1> QED
  BY <1>5, <1>6

LEMMA GateWorker ==
    ASSUME CoreInv, GateInv, Worker
    PROVE  GateInv'
<1>1. phone \in Phones /\ unheard \in BOOLEAN /\ todo \in Seq(Steps) /\ PlanInv
  BY Zenon DEF CoreInv, TypeOK, Phones
<1>2. CASE FreeStage \/ ZeroStage \/ ToIdle \/ ToReceiving \/ Boost
  <2>1. /\ todo # <<>> /\ todo' = Tail(todo) /\ Head(todo) # "ready"
        /\ UNCHANGED <<queue, blocked, linkUp, stacked, wild, phone, unheard>>
    BY <1>2 DEF FreeStage, ZeroStage, ToIdle, ToReceiving, Boost, Doing, Done, Rest, past, Ask, app
  <2>2. Beginning' <=> Beginning
    BY <1>1, <2>1, DoneLeads
  <2>3. state' = "receiving" => state = "receiving" \/ Beginning
    <3>1. CASE ToReceiving
      <4>1. At("receiving")
        BY <3>1 DEF ToReceiving, Doing, At
      <4> QED
        BY <1>1, <2>1, <4>1, PlanFacts
    <3>2. CASE FreeStage \/ ZeroStage \/ ToIdle \/ Boost
      BY <3>2 DEF FreeStage, ZeroStage, ToIdle, Boost, ota
    <3> QED
      BY <1>2, <3>1, <3>2
  <2> QED
    BY <2>1, <2>2, <2>3, GateGoesOn
<1>3. CASE Alloc
  <2>1. /\ At("alloc") /\ todo # <<>>
        /\ UNCHANGED <<queue, blocked, linkUp, stacked, wild, state>>
    BY <1>3 DEF Alloc, Doing, At, Rest, past
  <2>2. Beginning
    BY <1>1, <2>1, PlanFacts
  <2>3. CASE todo' = Tail(todo) /\ UNCHANGED <<phone, unheard>>
    <3>1. Beginning'
      BY <1>1, <2>1, <2>2, <2>3, DoneLeads DEF At
    <3> QED
      BY <2>1, <2>2, <2>3, <3>1, GateGoesOn
  <2>4. CASE todo' = <<>> /\ Tells("error")
    <3>1. phone.st # "asked" \/ phone'.st = "idle" \/ unheard'
      BY <1>1, <2>4, ErrorIdles
    <3>2. phone'.st = phone.st \/ phone'.st = "idle"
      BY <1>1, <2>4, ErrorIdles
    <3>3. ~stacked => phone.st # "streaming"
      BY <2>2 DEF GateInv
    <3>4. ~Beginning'
      BY <2>4 DEF Beginning
    <3>5. ~stacked /\ phone.st = "asked" => Begins' = {} /\ blocked = <<>>
      BY <2>1, <2>2 DEF GateInv, Begins
    <3> QED
      BY <2>1, <3>1, <3>2, <3>3, <3>4, <3>5 DEF GateInv
  <2> QED
    BY <1>3, <2>3, <2>4 DEF Alloc, Done, GivesUp, app
<1>4. CASE Ready
  <2>1. /\ At("ready") /\ todo # <<>> /\ todo' = Tail(todo) /\ Tells("ready")
        /\ UNCHANGED <<queue, blocked, linkUp, stacked, wild, state>>
    BY <1>4 DEF Ready, Doing, Done, At, Rest, past, ota
  <2>2. Beginning /\ todo' = <<>>
    BY <1>1, <2>1, PlanFacts, DoneLeads
  <2>3. /\ phone' = phone \/ phone' = NoPhone \/ (phone.st = "asked" /\ phone'.st = "streaming")
        /\ phone'.st = "asked" => unheard'
    <3>1. phone.st = "asked" => linkUp
      BY DEF GateInv
    <3>2. NoPhone.st # "asked"
      BY DEF NoPhone
    <3> QED
      BY <1>1, <2>1, <3>1, <3>2, TellsPhone
  <2>4. ~stacked => phone.st # "streaming"
    BY <2>2 DEF GateInv
  <2>5. ~stacked /\ phone.st = "asked" => queue = <<>> /\ blocked = <<>>
    BY <2>2 DEF GateInv
  <2>6. ~Beginning'
    BY <2>2 DEF Beginning
  <2>7. queue = <<>> => Begins' = {}
    BY <2>1 DEF Begins
  <2>8. phone'.st # "idle" => linkUp'
    BY <2>1, <2>3 DEF GateInv, NoPhone
  <2>9. ~stacked /\ phone'.st # "idle" /\ phone'.st # "ended" =>
          phone.st = "asked" /\ (phone'.st = "streaming" \/ (phone'.st = "asked" /\ unheard'))
    BY <1>1, <2>3, <2>4 DEF NoPhone, Phones
  <2> QED
    BY <2>1, <2>2, <2>5, <2>6, <2>7, <2>8, <2>9 DEF GateInv
<1>5. CASE Gate \/ Check \/ Flash \/ SayDone
  <2>1. /\ todo # <<>>
        /\ At("gate") \/ At("check") \/ At("flash") \/ At("done")
        /\ UNCHANGED <<queue, blocked, linkUp, stacked, wild>>
        /\ state' = "receiving" => state = "receiving"
    BY <1>5 DEF Gate, Check, Flash, SayDone, Doing, At, Rest, past, ota
  <2>2. ~Beginning
    BY <1>1, <2>1, PlanFacts
  <2>3. todo' = Tail(todo) \/ todo' = <<>> \/ todo' = Cleared
    BY <1>5 DEF Gate, Check, Flash, SayDone, Done, GivesUp
  <2>4. ~Beginning'
    <3>1. todo' = Tail(todo) => ~Beginning'
      BY <1>1, <2>1, <2>2, DoneLeads
    <3>2. todo' = Cleared => ~Beginning'
      BY DEF Cleared, Beginning
    <3>3. todo' = <<>> => ~Beginning'
      BY DEF Beginning
    <3> QED
      BY <2>3, <3>1, <3>2, <3>3
  <2>5. /\ phone'.st = phone.st \/ phone'.st = "idle"
        /\ phone'.st = "asked" /\ unheard => unheard'
    <3>1. UNCHANGED <<phone, unheard>> \/ Tells("error") \/ Tells("done")
      BY <1>5 DEF Gate, Check, Flash, SayDone, GivesUp, app
    <3> QED
      BY <1>1, <3>1, ErrorIdles
  <2> QED
    BY <2>1, <2>2, <2>4, <2>5, GateGoesOn
<1>6. CASE Restart
  <2>1. phone' = NoPhone /\ ~wild'
    BY <1>6 DEF Restart
  <2> QED
    BY <2>1 DEF GateInv, NoPhone
<1> QED
  BY <1>2, <1>3, <1>4, <1>5, <1>6, GateTakesEvent DEF Worker

LEMMA GateStep ==
    ASSUME CoreInv, GateInv, [Next]_vars
    PROVE  GateInv'
<1>1. CASE \/ WriteFrame \/ NavTakes \/ NavIdles \/ (\E u \in Users : Boosts(u))
           \/ Scans \/ ScanIsOver \/ UNCHANGED vars
  <2>1. UNCHANGED <<queue, blocked, todo, app, linkUp, state, stacked, wild>>
    BY <1>1 DEF WriteFrame, NavTakes, NavIdles, Boosts, Scans, ScanIsOver, vars, ota, past, app, Ask,
                GoesOn, Count, Look, Update, ScanStarts, ScanEnds
  <2> QED
    BY <2>1, GateAside
<1> QED
  BY <1>1, GateHost, GateWorker DEF Next

\* A data write reaches only memory of its own transfer, as long as the app begins
\* no update before its previous BEGIN has been handled (ble_ota_data_write).
THEOREM WritesAreStaged == Spec => []WritesStayInStage
<1>1. Init => GateInv
  BY DEF Init, GateInv, NoPhone
<1>2. GateInv => WritesStayInStage
  BY DEF GateInv, WritesStayInStage
<1> QED
  BY <1>1, <1>2, CoreInit, CoreStep, GateStep, PTL DEF Spec
===============================================================================
