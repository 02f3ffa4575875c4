------------------------------ MODULE SyncCall ------------------------------
(***************************************************************************)
(* What one caller may expect of a blocking call with a timeout over a     *)
(* queue that is served in order and shares a single completion signal.    *)
(*                                                                         *)
(* A call ends by its own completion, by the caller giving up, or by the   *)
(* completion of an earlier call that was given up and is still being      *)
(* served.  The last one is the price of the single signal; nothing else   *)
(* may end a call, and every call ends.                                    *)
(***************************************************************************)
EXTENDS Naturals

VARIABLES
    calling,    \* the caller is blocked
    owed        \* requests still being served whose caller has moved on

syncVars == <<calling, owed>>

SyncTypeOK == calling \in BOOLEAN /\ owed \in Nat

SyncInit == ~calling /\ owed = 0

Call      == ~calling /\ calling' = TRUE /\ UNCHANGED owed

\* Its own completion: whatever was queued before it has been served.
Completed == calling /\ owed = 0 /\ calling' = FALSE /\ UNCHANGED owed

GivenUp   == calling /\ calling' = FALSE /\ owed' = owed + 1

\* An earlier request completes and releases this call, whose own request is
\* now the one that is owed.
TakenFor  == calling /\ owed > 0 /\ calling' = FALSE /\ UNCHANGED owed

\* A completion nobody waits for.
Unclaimed == ~calling /\ owed > 0 /\ owed' = owed - 1 /\ UNCHANGED calling

Return == Completed \/ GivenUp \/ TakenFor

SyncNext == Call \/ Return \/ Unclaimed

\* What may end a call, and that every call ends.
SyncSafety == SyncInit /\ [][SyncNext]_syncVars
SyncSpec   == SyncSafety /\ WF_syncVars(Return)
=============================================================================
