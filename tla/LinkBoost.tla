------------------------------ MODULE LinkBoost ------------------------------
(***************************************************************************)
(* The boost of the phone's link (main/ble_link_boost.c): a count of the   *)
(* users who want a short connection interval, and a second count of those *)
(* who also want the central arbiter parked.  The users are tasks of equal *)
(* priority, the counts are plain variables: a request is three accesses,  *)
(* and another request may come between any two of them.                   *)
(*                                                                         *)
(* The sensors' clients park the arbiter too, for a scan.  Parked is one   *)
(* boolean: the first to resume it resumes it for all.                     *)
(***************************************************************************)
EXTENDS Naturals

VARIABLES
    refs,       \* s_refs
    scanRefs,   \* s_scan_refs
    parked,     \* s_scan_suspended of the arbiter
    fast,       \* the interval this side asked the phone for last
    linkUp,     \* the phone is connected (connection handles are reused)
    boosted,    \* per user: s_link_boosted of ble_ota, s_boosted of ble_nav
    request,    \* per user: the call of ble_link_boost_request under way
    raced,      \* history: two requests have overlapped
    scans,      \* calls of ble_arb_scan_resume the scans begun have still to make
    scanned     \* history: one of them came while a user wanted the arbiter parked

boost == <<refs, scanRefs, parked, fast, boosted, request, raced, scans, scanned>>

Users == {"ota", "nav"}
Parks == {"ota"}           \* who passes suspend_scan

NoRequest == [step |-> "none", on |-> FALSE, was |-> 0, conn |-> FALSE, want |-> FALSE]

Calling(u) == request[u].step # "none"
Settled == \A u \in Users : ~Calling(u)

BoostTypeOK ==
    /\ refs \in Nat /\ scanRefs \in Nat
    /\ parked \in BOOLEAN /\ fast \in BOOLEAN /\ linkUp \in BOOLEAN /\ raced \in BOOLEAN
    /\ scans \in Nat /\ scanned \in BOOLEAN
    /\ boosted \in [Users -> BOOLEAN]
    /\ request \in [Users -> [step : {"none", "count", "look", "update"}, on : BOOLEAN,
                              was : Nat, conn : BOOLEAN, want : BOOLEAN]]

BoostInit ==
    /\ refs = 0 /\ scanRefs = 0
    /\ parked = FALSE /\ fast = FALSE /\ raced = FALSE
    /\ scans = 0 /\ scanned = FALSE
    /\ boosted = [u \in Users |-> FALSE]
    /\ request = [u \in Users |-> NoRequest]

BoostReset ==
    /\ refs' = 0 /\ scanRefs' = 0
    /\ parked' = FALSE /\ fast' = FALSE /\ raced' = FALSE
    /\ scans' = 0 /\ scanned' = FALSE
    /\ boosted' = [u \in Users |-> FALSE]
    /\ request' = [u \in Users |-> NoRequest]

\* Mutant of Wishes: the user's own flag is not looked at.
WishesAgain(u, on) == TRUE

\* A user passes a wish on only when it is news.
Wishes(u, on) == boosted[u] # on

\* The user notes the wish and reads the count.
Ask(u, on) ==
    /\ ~Calling(u)
    /\ IF Wishes(u, on)
       THEN /\ boosted' = [boosted EXCEPT ![u] = on]
            /\ request' = [request EXCEPT ![u] =
                  [step |-> "count", on |-> on, was |-> refs, conn |-> linkUp, want |-> FALSE]]
            /\ raced' = (raced \/ ~Settled)
       ELSE UNCHANGED <<boosted, request, raced>>
    /\ UNCHANGED <<refs, scanRefs, parked, fast, linkUp, scans, scanned>>

Less(n) == IF n > 0 THEN n - 1 ELSE 0

Counted(u) == IF request[u].on THEN request[u].was + 1 ELSE Less(request[u].was)

Edge(u) == (request[u].was > 0) # (Counted(u) > 0)

Unparks(u) == ~request[u].on /\ u \in Parks /\ scanRefs = 1

\* The counts are written back, the arbiter is parked or resumed.
Count(u) ==
    /\ request[u].step = "count"
    /\ refs' = Counted(u)
    /\ scanRefs' = IF u \notin Parks THEN scanRefs
                   ELSE IF request[u].on THEN scanRefs + 1 ELSE Less(scanRefs)
    /\ parked' = IF Unparks(u) THEN FALSE
                 ELSE parked \/ (request[u].on /\ u \in Parks /\ scanRefs = 0)
    /\ request' = [request EXCEPT ![u] = IF Edge(u) /\ @.conn THEN [@ EXCEPT !.step = "look"]
                                         ELSE NoRequest]
    /\ scanned' = (scanned /\ scanRefs' > 0)
    /\ UNCHANGED <<fast, linkUp, boosted, raced, scans>>

\* apply reads the count again ...
Look(u) ==
    /\ request[u].step = "look"
    /\ request' = [request EXCEPT ![u].step = "update", ![u].want = refs > 0]
    /\ UNCHANGED <<refs, scanRefs, parked, fast, linkUp, boosted, raced, scans,
                   scanned>>

\* ... and asks the phone, if it is there.
Update(u) ==
    /\ request[u].step = "update"
    /\ fast' = IF linkUp THEN request[u].want ELSE fast
    /\ request' = [request EXCEPT ![u] = NoRequest]
    /\ UNCHANGED <<refs, scanRefs, parked, linkUp, boosted, raced, scans, scanned>>

GoesOn(u) == Count(u) \/ Look(u) \/ Update(u)

\* A scan for sensors parks the arbiter.  It resumes it when it is refused, is
\* over, is stopped or ends in a binding, or twice, when it is over just as the
\* user stops it.
ScanStarts ==
    /\ parked' = TRUE
    /\ \E ends \in {1, 2} : scans' = scans + ends
    /\ UNCHANGED <<refs, scanRefs, fast, linkUp, boosted, request, raced, scanned>>

ScanEnds ==
    /\ scans > 0 /\ scans' = scans - 1
    /\ parked' = FALSE
    /\ scanned' = (scanned \/ scanRefs > 0)
    /\ UNCHANGED <<refs, scanRefs, fast, linkUp, boosted, request, raced>>
=============================================================================
