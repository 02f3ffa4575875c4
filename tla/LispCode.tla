------------------------------- MODULE LispCode -------------------------------
(***************************************************************************)
(* Upload and read-back of the script stored on a controller               *)
(* (components/vesc_can/vesc_lisp_code.c), as the web editor drives it     *)
(* (main/lisp_http.c).                                                     *)
(*                                                                         *)
(* Three threads: the HTTP server, which starts one operation at a time;   *)
(* the worker, which asks step by step and waits for each acknowledgement; *)
(* and the receive task, which leaves every reply in one set of registers  *)
(* and, for a read, in the buffer.  A reply carries nothing that tells     *)
(* which request it is for beyond its command and its offset.              *)
(*                                                                         *)
(* Controllers and their flash are external: each serves what it is sent   *)
(* in order, programs cells that are erased and garbles those that are     *)
(* not.  A script is a sequence of NumChunks chunks, all of one length.    *)
(***************************************************************************)
EXTENDS Integers, Sequences

CONSTANTS
    Nodes,       \* controllers
    Deaf,        \* those whose firmware knows no scripts and never answers
    Edited,      \* scripts the web editor uploads
    Phoned,      \* scripts the phone's editor writes; one of them is stored at first
    Blank,       \* erased flash, zeroed memory
    Garbled,     \* content that is no script
    NumChunks,   \* chunks of a script
    Retries,     \* STEP_RETRIES
    MaxQueue,    \* bound: requests and replies under way
    MaxEvents    \* bound: losses, slow replies, refusals, foreign requests,
                 \* changes of the target

Code == Edited \cup Phoned

ASSUME LispCodeAssumption ==
    /\ Deaf \subseteq Nodes /\ Nodes # {} /\ Edited # {} /\ Phoned # {}
    /\ Blank \notin Code /\ Garbled \notin Code \cup {Blank}
    /\ NumChunks \in Nat \ {0} /\ Retries \in Nat \ {0, 1}
    /\ MaxQueue \in Nat \ {0} /\ MaxEvents \in Nat

Chunks  == 0 .. NumChunks - 1
Content == Code \cup {Blank, Garbled}

VARIABLES
    flash,      \* per controller and chunk: what is stored
    requests,   \* per controller: what it was sent and has not served
    replies,    \* on their way to the receive task
    target,     \* s_target
    busy,       \* s_busy
    op,         \* s_op, s_run_after and the script uploaded
    buf,        \* s_buf: none, owned or freed and still pointed at; its chunks
    ack,        \* s_ack_cmd, s_ack_ok, s_ack_off, s_ack_len, s_read_total
    ackSem,     \* s_ack_sem
    step,       \* the step the worker is in
    phase,      \* asking, draining, waiting, or with a reply to look at
    retry,      \* attempts of this step made
    have,       \* chunks written, or assembled
    total,      \* read: chunks expected
    result,     \* the outcome so far
    job,        \* s_active, s_finished, s_kind, s_result of the web editor, and what
                \* this operation has put on its page
    past,       \* history: what the excuses below refer to
    events      \* how much of the bound is used

air    == <<flash, requests, replies>>
regs   == <<ack, ackSem>>
worker == <<step, phase, retry, have, total, result>>
vars   == <<flash, requests, replies, target, busy, op, buf, ack, ackSem, step,
            phase, retry, have, total, result, job, past, events>>

-----------------------------------------------------------------------------
(* Messages *)

Request(cmd, off, data, run) == [cmd |-> cmd, off |-> off, data |-> data, run |-> run]

\* SET_RUNNING, ERASE_CODE, WRITE_CODE and READ_CODE.
Running(on)    == Request("running", 0, Blank, on)
Erase          == Request("erase", 0, Blank, FALSE)
Write(k, data) == Request("write", k, data, FALSE)
Read(k)        == Request("read", k, Blank, FALSE)

Cmds == {"running", "erase", "write", "read"}

Event == events < MaxEvents /\ events' = events + 1

\* vesc_link_send to the current target: may be lost on the way.
Send(r) ==
    \/ /\ Len(requests[target]) < MaxQueue
       /\ requests' = [requests EXCEPT ![target] = Append(@, r)]
       /\ UNCHANGED events
    \/ Event /\ UNCHANGED requests

NoOp  == [kind |-> "none", code |-> Blank, run |-> FALSE]
Empty == [k \in Chunks |-> Blank]
NoPage == [len |-> 0, is |-> Empty]

-----------------------------------------------------------------------------
(* The controllers *)

\* Programming flash that was not erased garbles it.
Program(old, data) == IF old \in {Blank, data} THEN data ELSE Garbled

Flashed(f, r) ==
    CASE r.cmd = "erase" -> Empty
      [] r.cmd = "write" -> [f EXCEPT ![r.off] = Program(@, r.data)]
      [] OTHER           -> f

Whole(f) == \E c \in Code : \A k \in Chunks : f[k] = c

\* total: the size in the header, nothing when it does not match the content.
Reply(f, r, ok) ==
    [cmd |-> r.cmd, ok |-> ok, off |-> r.off,
     data |-> IF r.cmd = "read" THEN f[r.off] ELSE Blank,
     total |-> IF r.cmd = "read" /\ Whole(f) THEN NumChunks ELSE 0]

Serve(n) ==
    /\ requests[n] # <<>>
    /\ requests' = [requests EXCEPT ![n] = Tail(@)]
    /\ LET r == Head(requests[n])
           f == Flashed(flash[n], r)
       IN  IF n \in Deaf
           THEN UNCHANGED <<flash, replies, events>>
           ELSE \/ /\ Len(replies) < MaxQueue
                   /\ flash' = [flash EXCEPT ![n] = f]
                   /\ replies' = Append(replies, Reply(f, r, TRUE))
                   /\ UNCHANGED events
                \/ Event /\ flash' = [flash EXCEPT ![n] = f] /\ UNCHANGED replies
                \/ /\ Event /\ Len(replies) < MaxQueue /\ r.cmd # "read"
                   /\ replies' = Append(replies, Reply(f, r, FALSE))
                   /\ UNCHANGED flash
    /\ UNCHANGED <<target, busy, op, buf, regs, worker, job, past>>

Changes(r) == r.cmd \in {"erase", "write"}

\* What the phone's own editor may send.
PhoneRequests(k, c) == {Running(TRUE), Erase, Read(k), Write(k, c)}

\* The phone's own editor, over the bridge, which forwards whatever it is sent
\* and does not look at s_busy: same controller, same replies.
PhoneSends ==
    /\ Event
    /\ \E k \in Chunks, c \in Phoned : \E r \in PhoneRequests(k, c) :
          /\ Len(requests[target]) < MaxQueue
          /\ requests' = [requests EXCEPT ![target] = Append(@, r)]
          /\ past' = [past EXCEPT !.foreign = TRUE, !.rival = @ \/ Changes(r)]
    /\ UNCHANGED <<flash, replies, target, busy, op, buf, regs, worker, job>>

\* vesc_lisp_code_set_target, from the settings screen.
SetTarget ==
    /\ Event
    /\ target' \in Nodes \ {target}
    /\ past' = [past EXCEPT !.moved = TRUE]
    /\ UNCHANGED <<air, busy, op, buf, regs, worker, job>>

-----------------------------------------------------------------------------
(* The HTTP server *)

\* Something of an earlier transfer is under way, or anything at all at another
\* controller.
Leftover ==
    \/ \E n \in Nodes \ {target} : requests[n] # <<>>
    \/ \E i \in 1 .. Len(requests[target]) : requests[target][i].cmd # "running"
    \/ \E i \in 1 .. Len(replies) : replies[i].cmd # "running"

\* The history is about one operation.
\* The history is about one operation.
NoPast == [stray |-> FALSE, moved |-> FALSE, leftover |-> FALSE, foreign |-> FALSE,
           rival |-> FALSE, freed |-> FALSE, doubled |-> FALSE]

Start(kind, code, run) ==
    /\ ~job.active /\ ~busy
    /\ job' = [active |-> TRUE, finished |-> FALSE, kind |-> kind, result |-> "ok",
               page |-> NoPage]
    /\ buf' = [mem |-> "owned", is |-> [k \in Chunks |-> code]]
    /\ op' = [kind |-> kind, code |-> code, run |-> run]
    /\ busy' = TRUE
    /\ past' = [NoPast EXCEPT !.leftover = Leftover]
    /\ UNCHANGED <<air, target, regs, worker, events>>

\* vesc_lisp_code_upload and vesc_lisp_code_read, from their handlers.
StartUpload == \E c \in Edited, run \in BOOLEAN : Start("upload", c, run)
StartRead   == Start("read", Blank, FALSE)

\* vesc_lisp_code_set_running
SetRunning ==
    /\ ~job.active /\ ~busy
    /\ Event
    /\ Len(requests[target]) < MaxQueue
    /\ requests' = [requests EXCEPT ![target] = Append(@, Running(TRUE))]
    /\ UNCHANGED <<flash, replies, target, busy, op, buf, regs, worker, job, past>>

-----------------------------------------------------------------------------
(* The receive task: vesc_lisp_code_process_response *)

\* s_buf is tested, not who owns what it points at.  In an upload the bytes
\* land on the blob, eight bytes off where the blob has them.
Stores(r) == r.cmd = "read" /\ buf.mem # "none"

Receive ==
    /\ replies # <<>>
    /\ replies' = Tail(replies)
    /\ LET r == Head(replies)
       IN  IF ~busy
           THEN UNCHANGED <<buf, ack, ackSem, past>>
           ELSE /\ ack' = [cmd |-> r.cmd, ok |-> r.ok \/ r.cmd = "read",
                           off |-> IF r.cmd \in {"write", "read"} THEN r.off ELSE 0,
                           len |-> IF Stores(r) THEN 1 ELSE 0,
                           total |-> IF r.cmd = "read" THEN r.total ELSE ack.total]
                /\ ackSem' = TRUE
                /\ buf' = IF ~Stores(r) THEN buf
                          ELSE [buf EXCEPT !.is[r.off] =
                                  IF op.kind = "read" THEN r.data ELSE Garbled]
                /\ past' = [past EXCEPT
                              !.stray = @ \/ (Stores(r) /\ op.kind = "upload"),
                              !.freed = @ \/ (Stores(r) /\ buf.mem = "freed")]
    /\ UNCHANGED <<flash, requests, target, busy, op, worker, job, events>>

-----------------------------------------------------------------------------
(* The worker *)

Goto(s)   == step' = s /\ phase' = "ask" /\ retry' = 0
Fails(why) == Goto("done") /\ result' = why

\* worker_task, and do_upload or do_read up to the first step.
Begin ==
    /\ step = "idle" /\ busy
    /\ have' = 0 /\ total' = 0 /\ result' = "ok"
    /\ Goto(IF op.kind = "upload" THEN "stop" ELSE "read")
    /\ ack' = IF op.kind = "read" THEN [ack EXCEPT !.total = 0] ELSE ack
    /\ UNCHANGED <<air, target, busy, op, buf, ackSem, job, past, events>>

\* The script is stopped before and started after, as best one can: send, then
\* drain, then wait for any acknowledgement or 500 ms.
BestEffort == step \in {"stop", "run"}

AsksRunning ==
    /\ BestEffort /\ phase = "ask"
    /\ Send(Running(step = "run"))
    /\ phase' = "drain"
    /\ UNCHANGED <<flash, replies, target, busy, op, buf, regs, step, retry, have,
                   total, result, job, past>>

DrainsLate ==
    /\ phase = "drain"
    /\ ackSem' = FALSE /\ phase' = "wait"
    /\ UNCHANGED <<air, target, busy, op, buf, ack, step, retry, have, total,
                   result, job, past, events>>

GoesOn ==
    /\ BestEffort /\ phase = "look"
    /\ Goto(IF step = "stop" THEN "erase" ELSE "done")
    /\ UNCHANGED <<air, target, busy, op, buf, regs, have, total, result, job, past,
                   events>>

\* step_erase, step_write and step_read: drain, send, wait; up to Retries times.
Attempt ==
    CASE step = "erase" -> Erase
      [] step = "write" -> Write(have, buf.is[have])
      [] step = "read"  -> Read(have)

Asks ==
    /\ step \in {"erase", "write", "read"} /\ phase = "ask" /\ retry < Retries
    /\ ackSem' = FALSE
    /\ Send(Attempt)
    /\ phase' = "wait"
    /\ past' = [past EXCEPT !.doubled = @ \/ (step = "read" /\ retry > 0)]
    /\ UNCHANGED <<flash, replies, target, busy, op, buf, ack, step, retry, have,
                   total, result, job>>

Exhausted ==
    /\ step \in {"erase", "write", "read"} /\ phase = "ask" /\ retry = Retries
    /\ Fails("timeout")
    /\ UNCHANGED <<air, target, busy, op, buf, regs, have, total, job, past, events>>

\* wait_ack: the semaphore ...
Acked ==
    /\ phase = "wait" /\ ackSem
    /\ ackSem' = FALSE /\ phase' = "look"
    /\ UNCHANGED <<air, target, busy, op, buf, ack, step, retry, have, total,
                   result, job, past, events>>

Quiet == replies = <<>> /\ \A n \in Nodes : requests[n] = <<>>

\* Mutant of Retried: an attempt in vain is not counted.
NeverGivesUp == phase' = "ask" /\ UNCHANGED <<step, retry>>

\* The attempt was in vain.
Retried == phase' = "ask" /\ retry' = retry + 1 /\ UNCHANGED step

\* ... or its timeout.  Nothing under way: no answer will come, else it is slow.
TimesOut ==
    /\ phase = "wait" /\ ~ackSem
    /\ IF Quiet THEN UNCHANGED events ELSE Event
    /\ IF BestEffort THEN Goto(IF step = "stop" THEN "erase" ELSE "done") ELSE Retried
    /\ UNCHANGED <<air, target, busy, op, buf, regs, have, total, result, job, past>>

\* Mutants of Matches: the offset echoed, or the command, is not looked at.
MatchesAnyOffset  == ack.cmd = step /\ ack.ok
MatchesAnyCommand == ack.ok /\ (step # "erase" => ack.off = have)

\* The registers, which the next reply may have overwritten by now.
Matches ==
    /\ ack.cmd = step /\ ack.ok
    /\ step # "erase" => ack.off = have

Mismatch ==
    /\ step \in {"erase", "write", "read"} /\ phase = "look" /\ ~Matches
    /\ Retried
    /\ UNCHANGED <<air, target, busy, op, buf, regs, have, total, result, job, past,
                   events>>

Erased ==
    /\ step = "erase" /\ phase = "look" /\ Matches
    /\ Goto("write")
    /\ UNCHANGED <<air, target, busy, op, buf, regs, have, total, result, job, past,
                   events>>

Wrote ==
    /\ step = "write" /\ phase = "look" /\ Matches
    /\ have' = have + 1
    /\ Goto(CASE have + 1 < NumChunks -> "write"
              [] have + 1 = NumChunks /\ op.run -> "run"
              [] OTHER -> "done")
    /\ UNCHANGED <<air, target, busy, op, buf, regs, total, result, job, past, events>>

GotChunk ==
    /\ step = "read" /\ phase = "look" /\ Matches
    /\ phase' = "measure"
    /\ UNCHANGED <<air, target, busy, op, buf, regs, step, retry, have, total, result,
                   job, past, events>>

\* do_read looks at the registers once more: for the length stored, after the
\* first reply, and for the length of this one.
Measures ==
    /\ phase = "measure"
    /\ LET expected == IF total = 0 THEN ack.total ELSE total
           got      == have + ack.len
           goesOn   == got < expected /\ (total = 0 \/ ack.len > 0)
       IN  /\ total' = expected
           /\ have' = got
           /\ \/ expected = 0 /\ Fails("empty")
              \/ expected # 0 /\ goesOn /\ Goto("read") /\ UNCHANGED result
              \/ expected # 0 /\ ~goesOn /\ Goto("done") /\ UNCHANGED result
    /\ UNCHANGED <<air, target, busy, op, buf, regs, job, past, events>>

\* The pollers run again and the callback reports; what was read is copied.
Reports ==
    /\ step = "done"
    /\ Goto("free")
    /\ job' = [job EXCEPT !.active = FALSE, !.finished = TRUE, !.result = result,
                          !.page = IF op.kind = "read" /\ result = "ok"
                                   THEN [len |-> have, is |-> buf.is] ELSE @]
    /\ UNCHANGED <<air, target, busy, op, buf, regs, have, total, result, past, events>>

\* free(s_buf), and only then s_buf = NULL.
Frees ==
    /\ step = "free"
    /\ Goto("clear")
    /\ buf' = [buf EXCEPT !.mem = "freed"]
    /\ UNCHANGED <<air, target, busy, op, regs, have, total, result, job, past, events>>

Clears ==
    /\ step = "clear"
    /\ Goto("release")
    /\ buf' = [mem |-> "none", is |-> Empty]
    /\ UNCHANGED <<air, target, busy, op, regs, have, total, result, job, past, events>>

Releases ==
    /\ step = "release"
    /\ Goto("idle")
    /\ busy' = FALSE /\ op' = NoOp
    /\ UNCHANGED <<air, target, buf, regs, have, total, result, job, past, events>>

-----------------------------------------------------------------------------
Init ==
    /\ \E c \in Phoned : flash = [n \in Nodes |-> [k \in Chunks |-> c]]
    /\ requests = [n \in Nodes |-> <<>>] /\ replies = <<>>
    /\ target \in Nodes
    /\ busy = FALSE /\ op = NoOp
    /\ buf = [mem |-> "none", is |-> Empty]
    /\ ack = [cmd |-> "none", ok |-> FALSE, off |-> 0, len |-> 0, total |-> 0]
    /\ ackSem = FALSE
    /\ step = "idle" /\ phase = "ask" /\ retry = 0
    /\ have = 0 /\ total = 0 /\ result = "ok"
    /\ job = [active |-> FALSE, finished |-> FALSE, kind |-> "none", result |-> "ok",
              page |-> NoPage]
    /\ past = NoPast
    /\ events = 0

WorkerStep ==
    \/ Begin \/ AsksRunning \/ DrainsLate \/ GoesOn
    \/ Asks \/ Exhausted \/ Acked \/ TimesOut \/ Mismatch
    \/ Erased \/ Wrote \/ GotChunk \/ Measures
    \/ Reports \/ Frees \/ Clears \/ Releases

Http  == StartUpload \/ StartRead \/ SetRunning
World == PhoneSends \/ SetTarget \/ \E n \in Nodes : Serve(n)

Next == WorkerStep \/ Receive \/ Http \/ World

\* The two tasks are scheduled, a controller serves what it is sent.
Fairness ==
    /\ WF_vars(WorkerStep) /\ WF_vars(Receive)
    /\ \A n \in Nodes : WF_vars(Serve(n))

Spec     == Init /\ [][Next]_vars
FairSpec == Spec /\ Fairness

-----------------------------------------------------------------------------
(* Properties *)

Requests == [cmd : Cmds, off : Chunks, data : Content, run : BOOLEAN]
Replies  == [cmd : Cmds, ok : BOOLEAN, off : Chunks, data : Content,
             total : {0, NumChunks}]

TypeOK ==
    /\ flash \in [Nodes -> [Chunks -> Content]]
    /\ requests \in [Nodes -> Seq(Requests)] /\ replies \in Seq(Replies)
    /\ target \in Nodes /\ busy \in BOOLEAN
    /\ op \in [kind : {"none", "upload", "read"}, code : Code \cup {Blank}, run : BOOLEAN]
    /\ buf \in [mem : {"none", "owned", "freed"}, is : [Chunks -> Content]]
    /\ ack \in [cmd : Cmds \cup {"none"}, ok : BOOLEAN, off : Chunks, len : 0 .. 1,
                total : {0, NumChunks}]
    /\ ackSem \in BOOLEAN
    /\ step \in {"idle", "stop", "erase", "write", "run", "read", "done", "free",
                 "clear", "release"}
    /\ phase \in {"ask", "drain", "wait", "look", "measure"}
    /\ retry \in 0 .. Retries
    /\ have \in 0 .. NumChunks
    /\ step \in {"write", "read"} => have < NumChunks
    /\ total \in {0, NumChunks} /\ result \in {"ok", "timeout", "empty"}
    /\ past \in [stray : BOOLEAN, moved : BOOLEAN, leftover : BOOLEAN,
                foreign : BOOLEAN, rival : BOOLEAN, freed : BOOLEAN, doubled : BOOLEAN]
    /\ job.active => busy /\ step \notin {"free", "clear", "release"}
    /\ events \in 0 .. MaxEvents

\* An upload reported as done has stored the whole script, whatever was lost,
\* slow, refused or retried (vesc_lisp_code.c:17-23).  Four holes: a reply to a
\* read that arrives during an upload is written over the script; the phone may
\* write or erase meanwhile, and its acknowledgements count for this upload; the
\* target may be changed under it; and the acknowledgements of an earlier
\* transfer that was given up while they were under way count for this one.
UploadStoresCode ==
    step = "free" /\ op.kind = "upload" /\ result = "ok" =>
        \/ past.stray \/ past.rival \/ past.moved \/ past.leftover
        \/ \A k \in Chunks : flash[target][k] = op.code

\* A read reported as done shows the script that is stored, all of it and
\* nothing of an earlier one (vesc_lisp_code.c:28-33), unless the phone used the
\* same controller, the target was changed or an earlier transfer was still
\* under way.
ReadShowsStored ==
    step = "free" /\ op.kind = "read" /\ result = "ok" =>
        \/ past.foreign \/ past.moved \/ past.leftover
        \/ job.page = [len |-> NumChunks, is |-> flash[target]]

\* What the editor is told is true of what the controller stores (done_cb of
\* lisp_http.c shows the outcome and nothing else).
DoneMeansStored == UploadStoresCode /\ ReadShowsStored

\* The receive task writes into the buffer of an operation only while there is
\* one (vesc_lisp_code.c:434-436): free and the reset of the pointer are two
\* steps, and only the second answer to a repeated read, one of the phone's or
\* one of an earlier transfer's can come between.
FreedOnlyByRepeatedRead == past.freed => past.doubled \/ past.foreign \/ past.leftover

\* Every operation ends, with a controller that is deaf or slow as well, and
\* the editor is told and may start the next (lisp_http.c:234, 270).
OperationsEnd == (busy \/ job.active) ~> (~busy /\ ~job.active /\ job.finished)
=============================================================================
