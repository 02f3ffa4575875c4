---------------------------- MODULE LispCodeProofs ----------------------------
(***************************************************************************)
(* The script transfer, for any number of controllers, chunks, retries and *)
(* events: its types, that what is reported as done is true of what the    *)
(* controller stores, and that the freed buffer is written to only after a *)
(* repeated or a foreign read.                                             *)
(***************************************************************************)
EXTENDS LispCode, TLAPS

-----------------------------------------------------------------------------
(* Queues *)

\* What is in a queue, which commands, and in which order.
Elements(q)  == {q[i] : i \in 1 .. Len(q)}
Has(q, cmd)  == \E i \in 1 .. Len(q) : q[i].cmd = cmd
Before(q, first, later) ==
    \A i, j \in 1 .. Len(q) : q[i].cmd = first /\ q[j].cmd = later => i < j

Single(q, cmd) ==
    \A i, j \in 1 .. Len(q) : q[i].cmd = cmd /\ q[j].cmd = cmd => i = j

\* Taking the first of a queue.
LEMMA TailOf ==
    ASSUME NEW S, NEW q \in Seq(S), q # <<>>
    PROVE  /\ Head(q) \in S /\ Tail(q) \in Seq(S)
           /\ Elements(q) = Elements(Tail(q)) \cup {Head(q)}
           /\ \A cmd : Has(q, cmd) <=> Has(Tail(q), cmd) \/ Head(q).cmd = cmd
           /\ \A first, later : Before(q, first, later) =>
                  /\ Before(Tail(q), first, later)
                  /\ Head(q).cmd = later => ~Has(Tail(q), first)
           /\ \A cmd : Single(q, cmd) =>
                  /\ Single(Tail(q), cmd)
                  /\ Head(q).cmd = cmd => ~Has(Tail(q), cmd)
<1>1. Len(q) \in Nat /\ Len(q) >= 1 /\ Head(q) = q[1] /\ Head(q) \in S
  OBVIOUS
<1>2. /\ Tail(q) \in Seq(S) /\ Len(Tail(q)) = Len(q) - 1
      /\ \A i \in 1 .. Len(Tail(q)) : Tail(q)[i] = q[i + 1]
  OBVIOUS
<1> DEFINE t == Tail(q)
<1> HIDE DEF t
<1>3. \A i \in 1 .. Len(q) : i = 1 \/ (i - 1 \in 1 .. Len(t) /\ t[i - 1] = q[i])
  BY <1>1, <1>2 DEF t
<1>4. \A i \in 1 .. Len(t) : i + 1 \in 1 .. Len(q) /\ t[i] = q[i + 1]
  BY <1>1, <1>2 DEF t
<1>5. Elements(q) = Elements(t) \cup {Head(q)}
  BY <1>1, <1>3, <1>4 DEF Elements
<1>6. ASSUME NEW cmd
      PROVE  Has(q, cmd) <=> Has(t, cmd) \/ Head(q).cmd = cmd
  <2>1. ASSUME NEW i \in 1 .. Len(q), q[i].cmd = cmd
        PROVE  Has(t, cmd) \/ Head(q).cmd = cmd
    BY <1>1, <1>3, <2>1 DEF Has
  <2>2. ASSUME NEW i \in 1 .. Len(t), t[i].cmd = cmd
        PROVE  Has(q, cmd)
    BY <1>4, <2>2 DEF Has
  <2>3. Head(q).cmd = cmd => Has(q, cmd)
    BY <1>1 DEF Has
  <2> QED
    BY <2>1, <2>2, <2>3 DEF Has
<1>7. ASSUME NEW first, NEW later, Before(q, first, later)
      PROVE  Before(t, first, later) /\ (Head(q).cmd = later => ~Has(t, first))
  <2>1. \A i, j \in 1 .. Len(t) : t[i].cmd = first /\ t[j].cmd = later => i + 1 < j + 1
    BY <1>4, <1>7 DEF Before
  <2>2. Before(t, first, later)
    BY <1>2, <2>1 DEF Before, t
  <2>3. \A i \in 1 .. Len(t) : t[i].cmd = first /\ Head(q).cmd = later => i + 1 < 1
    BY <1>1, <1>4, <1>7 DEF Before
  <2> QED
    BY <1>2, <2>2, <2>3 DEF Has, t
<1>8. ASSUME NEW cmd, Single(q, cmd)
      PROVE  Single(t, cmd) /\ (Head(q).cmd = cmd => ~Has(t, cmd))
  <2>1. \A i, j \in 1 .. Len(t) : t[i].cmd = cmd /\ t[j].cmd = cmd => i + 1 = j + 1
    BY <1>4, <1>8 DEF Single
  <2>2. Single(t, cmd)
    BY <1>2, <2>1 DEF Single, t
  <2>3. \A i \in 1 .. Len(t) : t[i].cmd = cmd /\ Head(q).cmd = cmd => i + 1 = 1
    BY <1>1, <1>4, <1>8 DEF Single
  <2> QED
    BY <1>2, <2>2, <2>3 DEF Has, t
<1> QED
  BY <1>1, <1>2, <1>5, <1>6, <1>7, <1>8 DEF t

\* Adding one at the end.
LEMMA AppendOf ==
    ASSUME NEW S, NEW q \in Seq(S), NEW r \in S
    PROVE  /\ Append(q, r) \in Seq(S)
           /\ Elements(Append(q, r)) = Elements(q) \cup {r}
           /\ \A cmd : Has(Append(q, r), cmd) <=> Has(q, cmd) \/ r.cmd = cmd
           /\ \A first, later :
                  Before(q, first, later) /\ first # later /\ (r.cmd = first => ~Has(q, later))
                      => Before(Append(q, r), first, later)
           /\ \A cmd : Single(q, cmd) /\ (r.cmd = cmd => ~Has(q, cmd))
                      => Single(Append(q, r), cmd)
<1> DEFINE a == Append(q, r)
<1>1. /\ a \in Seq(S) /\ Len(q) \in Nat /\ Len(a) = Len(q) + 1
      /\ a[Len(q) + 1] = r /\ \A i \in 1 .. Len(q) : a[i] = q[i]
  OBVIOUS
<1> HIDE DEF a
<1>2. \A i \in 1 .. Len(a) : i \in 1 .. Len(q) \/ i = Len(q) + 1
  BY <1>1
<1>3. \A i \in 1 .. Len(q) : i \in 1 .. Len(a)
  BY <1>1
<1>4. Len(q) + 1 \in 1 .. Len(a)
  BY <1>1
<1>5. Elements(a) = Elements(q) \cup {r}
  BY <1>1, <1>2, <1>3, <1>4 DEF Elements
<1>6. \A cmd : Has(a, cmd) <=> Has(q, cmd) \/ r.cmd = cmd
  BY <1>1, <1>2, <1>3, <1>4 DEF Has
<1>7. ASSUME NEW first, NEW later, Before(q, first, later), first # later,
             r.cmd = first => ~Has(q, later)
      PROVE  Before(a, first, later)
  <2> SUFFICES ASSUME NEW i \in 1 .. Len(a), NEW j \in 1 .. Len(a),
                      a[i].cmd = first, a[j].cmd = later
               PROVE  i < j
    BY DEF Before
  <2>1. CASE i \in 1 .. Len(q) /\ j \in 1 .. Len(q)
    BY <1>1, <1>7, <2>1 DEF Before
  <2>2. CASE i = Len(q) + 1
    BY <1>1, <1>2, <1>7, <2>2 DEF Has
  <2>3. CASE i \in 1 .. Len(q) /\ j = Len(q) + 1
    BY <1>1, <2>3
  <2> QED
    BY <1>2, <2>1, <2>2, <2>3
<1>8. ASSUME NEW cmd, Single(q, cmd), r.cmd = cmd => ~Has(q, cmd)
      PROVE  Single(a, cmd)
  <2> SUFFICES ASSUME NEW i \in 1 .. Len(a), NEW j \in 1 .. Len(a),
                      a[i].cmd = cmd, a[j].cmd = cmd
               PROVE  i = j
    BY DEF Single
  <2>1. CASE i \in 1 .. Len(q) /\ j \in 1 .. Len(q)
    BY <1>1, <1>8, <2>1 DEF Single
  <2>2. (i \in 1 .. Len(q) /\ j \in 1 .. Len(q)) \/ i = j
    BY <1>1, <1>2, <1>8 DEF Has
  <2> QED
    BY <2>1, <2>2
<1> QED
  BY <1>1, <1>5, <1>6, <1>7, <1>8 DEF a

-----------------------------------------------------------------------------
(* Types *)

\* The requests and the replies are messages.
LEMMA RequestTypes ==
    /\ \A on \in BOOLEAN : Running(on) \in Requests
    /\ Erase \in Requests
    /\ \A k \in Chunks : Read(k) \in Requests /\ \A d \in Content : Write(k, d) \in Requests
<1>1. 0 \in Chunks
  BY LispCodeAssumption DEF Chunks
<1> QED
  BY <1>1 DEF Running, Erase, Write, Read, Request, Requests, Cmds, Content

\* What a send does to the queues.
LEMMA SendTypes ==
    ASSUME TypeOK, NEW r \in Requests, Send(r)
    PROVE  requests' \in [Nodes -> Seq(Requests)] /\ events' \in 0 .. MaxEvents
<1>1. requests \in [Nodes -> Seq(Requests)] /\ target \in Nodes /\ events \in 0 .. MaxEvents
  BY DEF TypeOK
<1>2. Append(requests[target], r) \in Seq(Requests)
  BY <1>1
<1>3. requests' \in [Nodes -> Seq(Requests)]
  BY <1>1, <1>2 DEF Send
<1>4. events' \in 0 .. MaxEvents
  BY <1>1, LispCodeAssumption DEF Send, Event
<1> QED
  BY <1>3, <1>4

\* A controller's flash and its replies.
LEMMA ServeTypes ==
    ASSUME NEW f \in [Chunks -> Content], NEW r \in Requests, NEW ok \in BOOLEAN
    PROVE  Flashed(f, r) \in [Chunks -> Content] /\ Reply(f, r, ok) \in Replies
<1>1. r.cmd \in Cmds /\ r.off \in Chunks /\ r.data \in Content
  BY DEF Requests
<1>2. Program(f[r.off], r.data) \in Content /\ Blank \in Content
  BY <1>1 DEF Program, Content
<1>3. Flashed(f, r) \in [Chunks -> Content]
  BY <1>2 DEF Flashed, Empty
<1>4. Reply(f, r, ok) \in Replies
  BY <1>1, <1>2 DEF Reply, Replies
<1> QED
  BY <1>3, <1>4

\* The threads: which steps belong to which operation, and what is done with
\* the buffer meanwhile.
ThreadInv ==
    /\ ~busy => step = "idle" /\ buf.mem = "none"
    /\ step = "idle" => phase = "ask" /\ retry = 0
    /\ busy => op.kind \in {"upload", "read"}
    /\ step \in {"stop", "erase", "write", "run"} => op.kind = "upload"
    /\ step = "read" => op.kind = "read"
    /\ phase = "measure" => step = "read"
    /\ phase = "drain" => BestEffort
    /\ phase # "ask" => step \in {"stop", "erase", "write", "run", "read"} /\ retry < Retries
    /\ step \in {"stop", "erase"} => have = 0
    /\ BestEffort => retry = 0
    /\ step = "clear" <=> buf.mem = "freed"
    /\ step = "release" => buf.mem = "none"
    /\ busy /\ step \notin {"clear", "release"} => buf.mem = "owned"

\* What the phone may send.
LEMMA PhoneRequestTypes ==
    ASSUME NEW k \in Chunks, NEW c \in Phoned, NEW r \in PhoneRequests(k, c)
    PROVE  /\ r \in Requests
           /\ ~Changes(r) => r.cmd \in {"running", "read"}
<1>1. c \in Content
  BY DEF Content, Code
<1>2. {Running(TRUE), Erase, Read(k), Write(k, c)} \subseteq Requests
  BY <1>1, RequestTypes, Zenon
<1>3. r \in Requests
  BY <1>2 DEF PhoneRequests
<1>4. r.cmd \in Cmds
  BY <1>3 DEF Requests
<1> QED
  BY <1>3, <1>4 DEF Changes, Cmds

LEMMA TypeStep ==
    ASSUME TypeOK, ThreadInv, [Next]_vars
    PROVE  TypeOK'
<1> USE DEF TypeOK
<1>1. CASE UNCHANGED vars
  BY <1>1 DEF vars, air, regs, worker
<1>2. CASE Begin
  <2>1. step' \in {"stop", "read"} /\ phase' = "ask" /\ retry' = 0 /\ have' = 0 /\ total' = 0
    BY <1>2 DEF Begin, Goto
  <2>2. ack' \in [cmd : Cmds \cup {"none"}, ok : BOOLEAN, off : Chunks, len : 0 .. 1,
                  total : {0, NumChunks}]
    BY <1>2 DEF Begin
  <2> QED
    BY <1>2, <2>1, <2>2, LispCodeAssumption DEF Begin, air
<1>3. CASE AsksRunning
  <2>1. Running(step = "run") \in Requests
    BY RequestTypes
  <2>2. requests' \in [Nodes -> Seq(Requests)] /\ events' \in 0 .. MaxEvents
    BY <1>3, <2>1, SendTypes DEF AsksRunning
  <2> QED
    BY <1>3, <2>2 DEF AsksRunning, regs, BestEffort
<1>4. CASE DrainsLate
  <2>1. ackSem' \in BOOLEAN
    BY <1>4, Zenon DEF DrainsLate
  <2> QED
    BY <1>4, <2>1 DEF DrainsLate, air
<1>5. CASE GoesOn
  BY <1>5, LispCodeAssumption DEF GoesOn, Goto, air, regs, BestEffort
<1>6. CASE Asks
  <2>1. Attempt \in Requests
    <3>1. step \in {"write", "read"} => have \in Chunks
      BY LispCodeAssumption DEF Chunks
    <3> QED
      BY <1>6, <3>1, RequestTypes DEF Asks, Attempt
  <2>2. requests' \in [Nodes -> Seq(Requests)] /\ events' \in 0 .. MaxEvents
    BY <1>6, <2>1, SendTypes DEF Asks
  <2>3. past' \in [stray : BOOLEAN, moved : BOOLEAN, leftover : BOOLEAN,
                   foreign : BOOLEAN, rival : BOOLEAN, freed : BOOLEAN, doubled : BOOLEAN]
    BY <1>6 DEF Asks
  <2>4. ackSem' \in BOOLEAN
    BY <1>6, Zenon DEF Asks
  <2> QED
    BY <1>6, <2>2, <2>3, <2>4 DEF Asks
<1>7. CASE Exhausted
  BY <1>7, LispCodeAssumption DEF Exhausted, Fails, Goto, air, regs
<1>8. CASE Acked
  <2>1. ackSem' \in BOOLEAN
    BY <1>8, Zenon DEF Acked
  <2> QED
    BY <1>8, <2>1 DEF Acked, air
<1>9. CASE TimesOut
  BY <1>9, LispCodeAssumption DEF ThreadInv, TimesOut, Retried, Goto, Event, BestEffort, air, regs
<1>10. CASE Mismatch
  BY <1>10, LispCodeAssumption DEF ThreadInv, Mismatch, Retried, air, regs
<1>11. CASE Erased
  BY <1>11, LispCodeAssumption DEF ThreadInv, Erased, Goto, air, regs
<1>12. CASE Wrote
  BY <1>12, LispCodeAssumption DEF Wrote, Goto, air, regs
<1>13. CASE GotChunk
  BY <1>13 DEF GotChunk, air, regs
<1>14. CASE Measures
  BY <1>14, LispCodeAssumption DEF Measures, Goto, Fails, air, regs, ThreadInv
<1>15. CASE Reports
  BY <1>15, LispCodeAssumption DEF Reports, Goto, air, regs
<1>16. CASE Frees
  <2>1. buf' \in [mem : {"none", "owned", "freed"}, is : [Chunks -> Content]]
    BY <1>16 DEF Frees
  <2>2. ~job.active /\ UNCHANGED job
    BY <1>16 DEF Frees
  <2>3. UNCHANGED <<flash, requests, replies, target, busy, op, ack, ackSem, have, total,
                    result, past, events>>
    BY <1>16 DEF Frees, air, regs
  <2>4. step' = "clear" /\ phase' = "ask" /\ retry' = 0
    BY <1>16 DEF Frees, Goto
  <2> QED
    BY <2>1, <2>2, <2>3, <2>4, LispCodeAssumption
<1>17. CASE Clears
  BY <1>17, LispCodeAssumption DEF Clears, Goto, air, regs, Empty, Content
<1>18. CASE Releases
  <2>1. busy' \in BOOLEAN /\ step' = "idle" /\ phase' = "ask" /\ retry' = 0
    BY <1>18, Zenon DEF Releases, Goto
  <2>2. op' \in [kind : {"none", "upload", "read"}, code : Code \cup {Blank}, run : BOOLEAN]
    BY <1>18 DEF Releases, NoOp
  <2>3. ~job.active /\ UNCHANGED job
    BY <1>18 DEF Releases
  <2> QED
    BY <1>18, <2>1, <2>2, <2>3, LispCodeAssumption DEF Releases, air, regs
<1>19. CASE Receive
  <2>1. Head(replies) \in Replies /\ Tail(replies) \in Seq(Replies)
    BY <1>19, TailOf DEF Receive
  <2>2. CASE busy
    <3> DEFINE r == Head(replies)
    <3>1. /\ r.cmd \in Cmds /\ r.ok \in BOOLEAN /\ r.off \in Chunks /\ r.data \in Content
          /\ r.total \in {0, NumChunks} /\ 0 \in Chunks
      BY <2>1, LispCodeAssumption DEF Replies, Chunks
    <3> HIDE DEF r
    <3>2. ack' \in [cmd : Cmds \cup {"none"}, ok : BOOLEAN, off : Chunks, len : 0 .. 1,
                    total : {0, NumChunks}]
      <4> DEFINE ok == r.ok \/ r.cmd = "read"
                 off == IF r.cmd \in {"write", "read"} THEN r.off ELSE 0
                 len == IF Stores(r) THEN 1 ELSE 0
                 size == IF r.cmd = "read" THEN r.total ELSE ack.total
      <4>1. ok \in BOOLEAN /\ off \in Chunks /\ len \in 0 .. 1 /\ size \in {0, NumChunks}
        BY <3>1
      <4>2. ack' = [cmd |-> r.cmd, ok |-> ok, off |-> off, len |-> len, total |-> size]
        BY <1>19, <2>2 DEF Receive, r
      <4> HIDE DEF ok, off, len, size
      <4> QED
        BY <3>1, <4>1, <4>2
    <3>3. ackSem' \in BOOLEAN
      BY <1>19, <2>2, Zenon DEF Receive
    <3>4. buf' \in [mem : {"none", "owned", "freed"}, is : [Chunks -> Content]]
      <4>1. \/ buf' = buf
            \/ \E d \in Content : buf' = [buf EXCEPT !.is[r.off] = d]
        <5>1. (IF op.kind = "read" THEN r.data ELSE Garbled) \in Content
          BY <3>1 DEF Content
        <5>2. \/ buf' = buf
              \/ buf' = [buf EXCEPT !.is[r.off] = IF op.kind = "read" THEN r.data ELSE Garbled]
          BY <1>19, <2>2 DEF Receive, r
        <5> QED
          BY <5>1, <5>2
      <4>2. buf \in [mem : {"none", "owned", "freed"}, is : [Chunks -> Content]]
        OBVIOUS
      <4>3. ASSUME NEW d \in Content, buf' = [buf EXCEPT !.is[r.off] = d]
            PROVE  buf' \in [mem : {"none", "owned", "freed"}, is : [Chunks -> Content]]
        <5> HIDE DEF TypeOK
        <5> QED
          BY <3>1, <4>2, <4>3
      <4> QED
        BY <4>1, <4>2, <4>3
    <3>5. past' \in [stray : BOOLEAN, moved : BOOLEAN, leftover : BOOLEAN,
                     foreign : BOOLEAN, rival : BOOLEAN, freed : BOOLEAN, doubled : BOOLEAN]
      BY <1>19, <2>2 DEF Receive, Stores
    <3> QED
      BY <1>19, <2>1, <3>2, <3>3, <3>4, <3>5 DEF Receive, worker
  <2> QED
    BY <1>19, <2>1, <2>2 DEF Receive, worker
<1>20. ASSUME NEW kind \in {"upload", "read"}, NEW code \in Code \cup {Blank},
              NEW run \in BOOLEAN, Start(kind, code, run)
       PROVE  TypeOK'
  <2>1. busy' \in BOOLEAN /\ busy'
    BY <1>20, Zenon DEF Start
  <2>2. /\ op' \in [kind : {"none", "upload", "read"}, code : Code \cup {Blank}, run : BOOLEAN]
        /\ buf' \in [mem : {"none", "owned", "freed"}, is : [Chunks -> Content]]
    BY <1>20 DEF Start, Content
  <2>3. past' \in [stray : BOOLEAN, moved : BOOLEAN, leftover : BOOLEAN,
                   foreign : BOOLEAN, rival : BOOLEAN, freed : BOOLEAN, doubled : BOOLEAN]
    <3>1. Leftover \in BOOLEAN
      BY DEF Leftover
    <3> QED
      BY <1>20, <3>1 DEF Start, NoPast
  <2>4. step \notin {"free", "clear", "release"}
    BY <1>20 DEF Start, ThreadInv
  <2> QED
    BY <1>20, <2>1, <2>2, <2>3, <2>4 DEF Start, air, regs, worker
<1>21. CASE SetRunning
  <2>1. Running(TRUE) \in Requests
    BY RequestTypes
  <2>2. requests[target] \in Seq(Requests)
    OBVIOUS
  <2>3. Append(requests[target], Running(TRUE)) \in Seq(Requests)
    BY <2>1, <2>2, AppendOf, Zenon
  <2>4. requests' \in [Nodes -> Seq(Requests)]
    BY <1>21, <2>3 DEF SetRunning
  <2>5. events' \in 0 .. MaxEvents
    BY <1>21, LispCodeAssumption DEF SetRunning, Event
  <2>6. UNCHANGED <<flash, replies, target, busy, op, buf, ack, ackSem, step, phase, retry,
                    have, total, result, job, past>>
    BY <1>21 DEF SetRunning, regs, worker
  <2> QED
    BY <2>4, <2>5, <2>6
<1>22. CASE PhoneSends
  <2>0. PICK k \in Chunks, c \in Phoned : \E r \in PhoneRequests(k, c) :
            /\ requests' = [requests EXCEPT ![target] = Append(@, r)]
            /\ past' = [past EXCEPT !.foreign = TRUE, !.rival = @ \/ Changes(r)]
    BY <1>22 DEF PhoneSends
  <2>1. PICK r \in PhoneRequests(k, c) :
            /\ requests' = [requests EXCEPT ![target] = Append(@, r)]
            /\ past' = [past EXCEPT !.foreign = TRUE, !.rival = @ \/ Changes(r)]
    BY <2>0
  <2>2. r \in Requests
    BY PhoneRequestTypes
  <2>3. requests' \in [Nodes -> Seq(Requests)]
    BY <2>1, <2>2
  <2>4. past' \in [stray : BOOLEAN, moved : BOOLEAN, leftover : BOOLEAN,
                   foreign : BOOLEAN, rival : BOOLEAN, freed : BOOLEAN, doubled : BOOLEAN]
    BY <2>1 DEF Changes
  <2> QED
    BY <1>22, <2>3, <2>4, LispCodeAssumption DEF PhoneSends, Event, regs, worker
<1>23. CASE SetTarget
  <2>1. past' \in [stray : BOOLEAN, moved : BOOLEAN, leftover : BOOLEAN,
                   foreign : BOOLEAN, rival : BOOLEAN, freed : BOOLEAN, doubled : BOOLEAN]
    BY <1>23 DEF SetTarget
  <2> QED
    BY <1>23, <2>1, LispCodeAssumption DEF SetTarget, Event, air, regs, worker
<1>24. ASSUME NEW n \in Nodes, Serve(n)
       PROVE  TypeOK'
  <2> DEFINE r == Head(requests[n])
             f == Flashed(flash[n], r)
  <2>1. r \in Requests /\ Tail(requests[n]) \in Seq(Requests)
    BY <1>24, TailOf DEF Serve
  <2>2. \A ok \in BOOLEAN : f \in [Chunks -> Content] /\ Reply(f, r, ok) \in Replies
    <3> HIDE DEF r
    <3>1. \A g \in [Chunks -> Content], ok \in BOOLEAN : Reply(g, r, ok) \in Replies
      BY <2>1, ServeTypes
    <3> QED
      BY <2>1, <3>1, ServeTypes
  <2>3. requests' \in [Nodes -> Seq(Requests)]
    BY <1>24, <2>1 DEF Serve
  <2>4. flash' \in [Nodes -> [Chunks -> Content]] /\ replies' \in Seq(Replies)
    <3>1. flash' = flash \/ flash' = [flash EXCEPT ![n] = f]
      BY <1>24 DEF Serve
    <3>2. \/ replies' = replies
          \/ replies' = Append(replies, Reply(f, r, TRUE))
          \/ replies' = Append(replies, Reply(f, r, FALSE))
      BY <1>24 DEF Serve
    <3> HIDE DEF r, f
    <3>3. flash' \in [Nodes -> [Chunks -> Content]]
      BY <2>2, <3>1
    <3>4. Reply(f, r, TRUE) \in Replies /\ Reply(f, r, FALSE) \in Replies
      BY <2>2
    <3>5. replies' \in Seq(Replies)
      <4>1. replies \in Seq(Replies)
        OBVIOUS
      <4>2. \A x \in Replies : Append(replies, x) \in Seq(Replies)
        BY <4>1, AppendOf, Zenon
      <4> HIDE DEF TypeOK
      <4> QED
        BY <3>2, <3>4, <4>1, <4>2, Zenon
    <3> QED
      BY <3>3, <3>5
  <2>5. events' \in 0 .. MaxEvents
    <3>1. events' = events \/ Event
      BY <1>24, Zenon DEF Serve
    <3> QED
      BY <3>1, LispCodeAssumption DEF Event
  <2> QED
    BY <1>24, <2>3, <2>4, <2>5 DEF Serve, regs, worker
<1>25. CASE WorkerStep
  BY <1>2, <1>3, <1>4, <1>5, <1>6, <1>7, <1>8, <1>9, <1>10, <1>11, <1>12, <1>13,
     <1>14, <1>15, <1>16, <1>17, <1>18, <1>25, Zenon DEF WorkerStep
<1>26. CASE Http
  <2>1. CASE StartUpload
    BY <1>20, <2>1 DEF StartUpload, Code
  <2>2. CASE StartRead
    BY <1>20, <2>2 DEF StartRead
  <2> QED
    BY <1>21, <1>26, <2>1, <2>2, Zenon DEF Http
<1>27. CASE World
  BY <1>22, <1>23, <1>24, <1>27, Zenon DEF World
<1> QED
  BY <1>1, <1>19, <1>25, <1>26, <1>27, Zenon DEF Next

LEMMA ThreadStep ==
    ASSUME TypeOK, ThreadInv, [Next]_vars
    PROVE  ThreadInv'
<1> USE LispCodeAssumption DEF TypeOK, ThreadInv, BestEffort
<1>1. CASE UNCHANGED vars
  BY <1>1 DEF vars, air, regs, worker
<1>2. CASE Begin
  BY <1>2 DEF Begin, Goto, air
<1>3. CASE AsksRunning
  BY <1>3 DEF AsksRunning, regs
<1>4. CASE DrainsLate
  BY <1>4 DEF DrainsLate, air
<1>5. CASE GoesOn
  BY <1>5 DEF GoesOn, Goto, air, regs
<1>6. CASE Asks
  BY <1>6 DEF Asks
<1>7. CASE Exhausted
  BY <1>7 DEF Exhausted, Fails, Goto, air, regs
<1>8. CASE Acked
  BY <1>8 DEF Acked, air
<1>9. CASE TimesOut
  BY <1>9 DEF TimesOut, Retried, Goto, air, regs
<1>10. CASE Mismatch
  BY <1>10 DEF Mismatch, Retried, air, regs
<1>11. CASE Erased
  BY <1>11 DEF Erased, Goto, air, regs
<1>12. CASE Wrote
  BY <1>12 DEF Wrote, Goto, air, regs
<1>13. CASE GotChunk
  BY <1>13 DEF GotChunk, air, regs
<1>14. CASE Measures
  BY <1>14 DEF Measures, Goto, Fails, air, regs
<1>15. CASE Reports
  BY <1>15 DEF Reports, Goto, air, regs
<1>16. CASE Frees
  BY <1>16 DEF Frees, Goto, air, regs
<1>17. CASE Clears
  BY <1>17 DEF Clears, Goto, air, regs
<1>18. CASE Releases
  BY <1>18 DEF Releases, Goto, air, regs
<1>19. CASE Receive
  <2>1. buf'.mem = buf.mem
    BY <1>19 DEF Receive
  <2> QED
    BY <1>19, <2>1 DEF Receive, worker
<1>20. ASSUME NEW kind \in {"upload", "read"}, NEW code, NEW run, Start(kind, code, run)
       PROVE  ThreadInv'
  BY <1>20 DEF Start, air, regs, worker
<1>21. CASE Http
  <2>1. CASE StartUpload
    BY <1>20, <2>1 DEF StartUpload, Code
  <2>2. CASE StartRead
    BY <1>20, <2>2 DEF StartRead
  <2>3. CASE SetRunning
    BY <2>3 DEF SetRunning, regs, worker
  <2> QED
    BY <1>21, <2>1, <2>2, <2>3 DEF Http
<1>22. CASE World
  <2>1. CASE PhoneSends
    BY <2>1 DEF PhoneSends, regs, worker
  <2>2. CASE SetTarget
    BY <2>2 DEF SetTarget, air, regs, worker
  <2>3. ASSUME NEW n \in Nodes, Serve(n)
        PROVE  ThreadInv'
    BY <2>3 DEF Serve, regs, worker
  <2> QED
    BY <1>22, <2>1, <2>2, <2>3, Zenon DEF World
<1>23. CASE WorkerStep
  BY <1>2, <1>3, <1>4, <1>5, <1>6, <1>7, <1>8, <1>9,
     <1>10, <1>11, <1>12, <1>13, <1>14, <1>15, <1>16, <1>17, <1>18, <1>23, Zenon
     DEF WorkerStep
<1> QED
  BY <1>1, <1>19, <1>21, <1>22, <1>23, Zenon DEF Next

-----------------------------------------------------------------------------
(* One read at a time *)

\* There is a reply to look at.
Live == (phase = "wait" /\ ackSem) \/ phase = "look"

Reading == (\E n \in Nodes : Has(requests[n], "read")) \/ Has(replies, "read")

\* Until a read is repeated, or the phone comes in, and unless an earlier
\* transfer was still under way at the start, at most one read is
\* under way, the worker is waiting for it, and once it is answered none is.
OneRead ==
    /\ \A m, n \in Nodes : Has(requests[m], "read") /\ Has(requests[n], "read") => m = n
    /\ \A n \in Nodes : Single(requests[n], "read")
    /\ \A n \in Nodes : Has(requests[n], "read") => ~Has(replies, "read")
    /\ Single(replies, "read")
    /\ Reading => step = "read" /\ (phase \in {"wait", "look"} \/ (phase = "ask" /\ retry > 0))
    /\ Live /\ ack.cmd = "read" => ~Reading

ReadInv ==
    /\ step = "read" /\ (retry > 1 \/ (retry = 1 /\ phase # "ask")) => past.doubled
    /\ ~past.doubled /\ ~past.foreign /\ ~past.leftover => OneRead
    /\ FreedOnlyByRepeatedRead

\* Nothing to say when no read is under way.
LEMMA NoReadsNext ==
    ASSUME ~Reading'
    PROVE  OneRead'
BY DEF Reading, OneRead, Single, Has

\* What a request adds to the queues.
LEMMA RequestAdds ==
    ASSUME TypeOK, NEW r \in Requests,
           requests' = requests \/ requests' = [requests EXCEPT ![target] = Append(@, r)]
    PROVE  /\ \A cmd : \A n \in Nodes :
                  Has(requests'[n], cmd) => Has(requests[n], cmd) \/ (n = target /\ r.cmd = cmd)
           /\ \A n \in Nodes \ {target} : requests'[n] = requests[n]
           /\ requests'[target] \in {requests[target], Append(requests[target], r)}
<1>1. requests[target] \in Seq(Requests) /\ target \in Nodes
  BY DEF TypeOK
<1>2. /\ \A n \in Nodes \ {target} : requests'[n] = requests[n]
      /\ requests'[target] \in {requests[target], Append(requests[target], r)}
  BY <1>1 DEF TypeOK
<1>3. \A cmd : Has(Append(requests[target], r), cmd) <=> Has(requests[target], cmd) \/ r.cmd = cmd
  BY <1>1, AppendOf, Zenon
<1>4. ASSUME NEW n \in Nodes, NEW cmd, Has(requests'[n], cmd)
      PROVE  Has(requests[n], cmd) \/ (n = target /\ r.cmd = cmd)
  BY <1>2, <1>3, <1>4, Zenon
<1> QED
  BY <1>2, <1>4

LEMMA ReadStep ==
    ASSUME TypeOK, ThreadInv, ReadInv, [Next]_vars
    PROVE  ReadInv'
<1> USE LispCodeAssumption DEF ReadInv
<1>0. ASSUME UNCHANGED air, UNCHANGED past,
             step' = "read" /\ (retry' > 1 \/ (retry' = 1 /\ phase' # "ask")) => past.doubled,
             ~past.doubled /\ ~past.foreign /\ ~past.leftover /\ Reading =>
                 step' = "read" /\ (phase' \in {"wait", "look"} \/ (phase' = "ask" /\ retry' > 0)),
             ~past.doubled /\ ~past.foreign /\ ~past.leftover /\ Live' /\ ack'.cmd = "read" => ~Reading
      PROVE  ReadInv'
  BY <1>0 DEF OneRead, Reading, FreedOnlyByRepeatedRead, air
<1>1. CASE UNCHANGED vars
  <2> USE <1>1 DEF vars, air, regs, worker
  <2>1. UNCHANGED air /\ UNCHANGED past /\ UNCHANGED Live
    BY DEF Live
  <2> QED
    BY <1>0, <2>1 DEF OneRead
<1>2. CASE \/ Begin \/ DrainsLate \/ GoesOn \/ Exhausted \/ Acked \/ TimesOut \/ Mismatch
           \/ Erased \/ Wrote \/ GotChunk \/ Measures \/ Reports \/ Frees \/ Clears \/ Releases
  <2>1. UNCHANGED air /\ UNCHANGED past
    BY <1>2 DEF Begin, DrainsLate, GoesOn, Exhausted, Acked, TimesOut, Mismatch, Erased, Wrote,
         GotChunk, Measures, Reports, Frees, Clears, Releases
  <2>2. step' = "read" /\ (retry' > 1 \/ (retry' = 1 /\ phase' # "ask")) => past.doubled
    BY <1>2 DEF TypeOK, ThreadInv, Begin, DrainsLate, GoesOn, Exhausted, Acked, TimesOut,
         Mismatch, Erased, Wrote, GotChunk, Measures, Reports, Frees, Clears, Releases, Goto,
         Fails, Retried, BestEffort, regs
  <2>3. ASSUME ~past.doubled, ~past.foreign, ~past.leftover, Reading
        PROVE  step' = "read" /\ (phase' \in {"wait", "look"} \/ (phase' = "ask" /\ retry' > 0))
    <3>1. /\ step = "read" /\ (phase \in {"wait", "look"} \/ (phase = "ask" /\ retry > 0))
          /\ ~(Live /\ ack.cmd = "read")
      BY <2>3 DEF OneRead
    <3> QED
      BY <1>2, <2>3, <3>1 DEF TypeOK, Live, Matches, Begin, DrainsLate, GoesOn, Exhausted, Acked, TimesOut,
         Mismatch, Erased, Wrote, GotChunk, Measures, Reports, Frees, Clears, Releases, Goto,
         Fails, Retried, BestEffort, regs
  <2>4. ASSUME ~past.doubled, ~past.foreign, ~past.leftover, Live', ack'.cmd = "read"
        PROVE  ~Reading
    <3>1. Live /\ ack.cmd = "read"
      BY <1>2, <2>4 DEF TypeOK, Live, Begin, DrainsLate, GoesOn, Exhausted, Acked, TimesOut,
         Mismatch, Erased, Wrote, GotChunk, Measures, Reports, Frees, Clears, Releases, Goto,
         Fails, Retried, BestEffort, regs
    <3> QED
      BY <2>4, <3>1 DEF OneRead
  <2> QED
    BY <1>0, <2>1, <2>2, <2>3, <2>4
<1>3. CASE AsksRunning
  <2>1. Running(step = "run") \in Requests /\ Running(step = "run").cmd = "running"
    BY RequestTypes DEF Running, Request
  <2>2. requests' = requests \/ requests' = [requests EXCEPT ![target] = Append(@, Running(step = "run"))]
    BY <1>3 DEF AsksRunning, Send
  <2>3. \A n \in Nodes : Has(requests'[n], "read") => Has(requests[n], "read")
    BY <2>1, <2>2, RequestAdds
  <2>4. UNCHANGED <<replies, past>> /\ step' \in {"stop", "run"} /\ step' = step
    BY <1>3 DEF AsksRunning, BestEffort
  <2>5. ~past.doubled /\ ~past.foreign /\ ~past.leftover => ~Reading'
    BY <2>3, <2>4 DEF OneRead, Reading
  <2> QED
    BY <2>4, <2>5, NoReadsNext DEF FreedOnlyByRepeatedRead
<1>4. CASE Asks
  <2>1. Attempt \in Requests /\ Attempt.cmd = step
    <3>1. step \in {"write", "read"} => have \in Chunks /\ buf.is[have] \in Content
      BY DEF TypeOK, Chunks
    <3> QED
      BY <1>4, <3>1, RequestTypes DEF Asks, Attempt, Erase, Write, Read, Request
  <2>2. requests' = requests \/ requests' = [requests EXCEPT ![target] = Append(@, Attempt)]
    BY <1>4 DEF Asks, Send
  <2>3. /\ \A n \in Nodes : Has(requests'[n], "read")
                             => Has(requests[n], "read") \/ (n = target /\ step = "read")
        /\ \A n \in Nodes \ {target} : requests'[n] = requests[n]
        /\ requests'[target] \in {requests[target], Append(requests[target], Attempt)}
    BY <2>1, <2>2, RequestAdds
  <2>4. UNCHANGED <<replies, step, retry, ack>> /\ phase = "ask" /\ phase' = "wait" /\ ~ackSem'
    BY <1>4 DEF Asks
  <2>5. /\ past'.foreign = past.foreign /\ past'.freed = past.freed
        /\ past'.leftover = past.leftover
        /\ past'.doubled <=> past.doubled \/ (step = "read" /\ retry > 0)
    BY <1>4 DEF Asks, TypeOK
  <2>6. ASSUME ~past'.doubled, ~past'.foreign, ~past'.leftover
        PROVE  OneRead'
    <3>1. OneRead /\ ~Reading
      BY <2>4, <2>5, <2>6 DEF OneRead
    <3>2. CASE step # "read"
      BY <2>3, <2>4, <3>1, <3>2, NoReadsNext DEF Reading
    <3>3. CASE step = "read"
      <4>1. \A n \in Nodes : Has(requests'[n], "read") => n = target
        BY <2>3, <3>1 DEF Reading
      <4>2. Single(requests'[target], "read")
        <5>1. requests[target] \in Seq(Requests) /\ target \in Nodes
          BY DEF TypeOK
        <5>2. Single(requests[target], "read") /\ ~Has(requests[target], "read")
          BY <3>1, <5>1 DEF OneRead, Reading
        <5>3. Single(Append(requests[target], Attempt), "read")
          BY <2>1, <5>1, <5>2, AppendOf, Zenon
        <5> QED
          BY <2>3, <5>2, <5>3
      <4>3. \A n \in Nodes : Single(requests'[n], "read")
        BY <2>3, <3>1, <4>2 DEF OneRead
      <4>4. ~Has(replies', "read") /\ Single(replies', "read") /\ ~Live'
        BY <2>4, <3>1 DEF OneRead, Reading, Live
      <4> QED
        BY <2>4, <3>3, <4>1, <4>3, <4>4 DEF OneRead
    <3> QED
      BY <3>2, <3>3
  <2>7. step = "read" /\ retry >= 1 => past'.doubled
    BY <2>5 DEF TypeOK
  <2>8. step' = "read" /\ (retry' > 1 \/ (retry' = 1 /\ phase' # "ask")) => past'.doubled
    BY <2>4, <2>7 DEF TypeOK
  <2>9. FreedOnlyByRepeatedRead'
    BY <2>5 DEF FreedOnlyByRepeatedRead
  <2> QED
    BY <2>6, <2>8, <2>9
<1>5. CASE Receive
  <2>1. /\ replies \in Seq(Replies) /\ replies # <<>> /\ replies' = Tail(replies)
        /\ UNCHANGED <<requests, step, phase, retry>>
    BY <1>5 DEF Receive, worker, TypeOK
  <2>2. /\ Has(replies, "read") <=> Has(replies', "read") \/ Head(replies).cmd = "read"
        /\ Single(replies, "read") =>
               Single(replies', "read") /\ (Head(replies).cmd = "read" => ~Has(replies', "read"))
    BY <2>1, TailOf, Zenon
  <2>3. /\ past'.foreign = past.foreign /\ past'.doubled = past.doubled
        /\ past'.leftover = past.leftover
        /\ past'.freed => past.freed \/ (buf.mem = "freed" /\ Head(replies).cmd = "read")
    BY <1>5 DEF Receive, Stores, TypeOK
  <2>4. \/ UNCHANGED <<ack, ackSem>>
        \/ ack'.cmd = Head(replies).cmd
    BY <1>5 DEF Receive
  <2>5. ASSUME ~past.doubled, ~past.foreign, ~past.leftover
        PROVE  OneRead'
    <3>1. OneRead
      BY <2>5
    <3>2. Reading' => Reading
      BY <2>1, <2>2 DEF Reading
    <3>3. Head(replies).cmd = "read" => ~Reading'
      BY <2>1, <2>2, <3>1 DEF OneRead, Reading
    <3>4. Live' /\ ack'.cmd = "read" => ~Reading'
      BY <2>1, <2>4, <3>1, <3>2, <3>3 DEF OneRead, Live
    <3> QED
      BY <2>1, <2>2, <3>1, <3>2, <3>4 DEF OneRead
  <2>6. past'.freed => past.doubled \/ past.foreign \/ past.leftover
    <3>1. CASE buf.mem = "freed" /\ Head(replies).cmd = "read"
      BY <2>2, <3>1 DEF ThreadInv, OneRead, Reading
    <3> QED
      BY <2>3, <3>1 DEF FreedOnlyByRepeatedRead
  <2> QED
    BY <2>1, <2>3, <2>5, <2>6 DEF FreedOnlyByRepeatedRead
<1>6. CASE StartUpload \/ StartRead
  <2>1. PICK kind, code, run : Start(kind, code, run)
    BY <1>6 DEF StartUpload, StartRead
  <2>2. UNCHANGED <<requests, replies, target, step>> /\ step = "idle"
    BY <2>1 DEF Start, air, regs, worker, ThreadInv
  <2>3. ~past'.freed /\ (past'.leftover <=> Leftover)
    BY <2>1 DEF Start, NoPast
  <2>4. ASSUME ~past'.leftover
        PROVE  OneRead'
    <3>1. ~Leftover /\ target \in Nodes
      BY <2>3, <2>4 DEF TypeOK
    <3>2. /\ \A n \in Nodes \ {target} : requests[n] = <<>>
          /\ \A i \in 1 .. Len(requests[target]) : requests[target][i].cmd = "running"
          /\ \A i \in 1 .. Len(replies) : replies[i].cmd = "running"
      BY <3>1 DEF Leftover
    <3>3. ~Reading'
      BY <2>2, <3>1, <3>2 DEF Reading, Has
    <3> QED
      BY <3>3, NoReadsNext
  <2> QED
    BY <2>2, <2>3, <2>4 DEF FreedOnlyByRepeatedRead
<1>7. CASE SetRunning
  <2>1. Running(TRUE) \in Requests /\ Running(TRUE).cmd = "running"
    BY RequestTypes DEF Running, Request
  <2>2. requests' = [requests EXCEPT ![target] = Append(@, Running(TRUE))]
    BY <1>7 DEF SetRunning
  <2>3. \A n \in Nodes : Has(requests'[n], "read") => Has(requests[n], "read")
    BY <2>1, <2>2, RequestAdds
  <2>4. UNCHANGED <<replies, past>> /\ step = "idle" /\ step' = step
    BY <1>7 DEF SetRunning, ThreadInv, worker
  <2>5. ~past.doubled /\ ~past.foreign /\ ~past.leftover => ~Reading'
    BY <2>3, <2>4 DEF OneRead, Reading
  <2> QED
    BY <2>4, <2>5, NoReadsNext DEF FreedOnlyByRepeatedRead
<1>8. CASE PhoneSends
  <2>1. /\ past'.foreign /\ past'.doubled = past.doubled
        /\ UNCHANGED <<step, phase, retry>>
    BY <1>8 DEF PhoneSends, TypeOK, worker
  <2> QED
    BY <2>1 DEF FreedOnlyByRepeatedRead
<1>9. CASE SetTarget
  <2>1. UNCHANGED air /\ UNCHANGED <<step, phase, retry, ack, ackSem>>
    BY <1>9 DEF SetTarget, regs, worker
  <2>2. /\ past'.foreign = past.foreign /\ past'.doubled = past.doubled
        /\ past'.leftover = past.leftover
        /\ past'.freed = past.freed
    BY <1>9 DEF SetTarget, TypeOK
  <2>3. UNCHANGED Live /\ UNCHANGED Reading
    BY <2>1 DEF Live, Reading, air
  <2> QED
    BY <2>1, <2>2, <2>3 DEF OneRead, FreedOnlyByRepeatedRead, air
<1>10. ASSUME NEW n \in Nodes, Serve(n)
       PROVE  ReadInv'
  <2> DEFINE r == Head(requests[n])
  <2>1. /\ requests[n] \in Seq(Requests) /\ requests[n] # <<>> /\ replies \in Seq(Replies)
        /\ requests' = [requests EXCEPT ![n] = Tail(@)]
        /\ UNCHANGED <<step, phase, retry, ack, ackSem, past>>
    BY <1>10 DEF Serve, worker, regs, TypeOK
  <2>2. /\ requests'[n] = Tail(requests[n])
        /\ \A m \in Nodes \ {n} : requests'[m] = requests[m]
    BY <2>1 DEF TypeOK
  <2>3. /\ Has(requests[n], "read") <=> Has(requests'[n], "read") \/ r.cmd = "read"
        /\ Single(requests[n], "read") =>
               Single(requests'[n], "read") /\ (r.cmd = "read" => ~Has(requests'[n], "read"))
    BY <2>1, <2>2, TailOf
  <2>4. replies' = replies \/ \E x \in Replies : x.cmd = r.cmd /\ replies' = Append(replies, x)
    <3>1. r \in Requests
      BY <2>1, TailOf, Zenon
    <3>2. flash[n] \in [Chunks -> Content]
      BY DEF TypeOK
    <3>3. Flashed(flash[n], r) \in [Chunks -> Content]
      BY <3>1, <3>2, ServeTypes, Zenon
    <3>4. \A ok \in BOOLEAN : Reply(Flashed(flash[n], r), r, ok) \in Replies
      BY <3>1, <3>3, ServeTypes, Zenon
    <3>5. \A ok \in BOOLEAN : Reply(Flashed(flash[n], r), r, ok).cmd = r.cmd
      BY DEF Reply
    <3>6. \/ replies' = replies
          \/ replies' = Append(replies, Reply(Flashed(flash[n], r), r, TRUE))
          \/ replies' = Append(replies, Reply(Flashed(flash[n], r), r, FALSE))
      BY <1>10 DEF Serve
    <3> QED
      BY <3>4, <3>5, <3>6, Zenon
  <2>5. ASSUME ~past.doubled, ~past.foreign, ~past.leftover
        PROVE  OneRead'
    <3>1. OneRead
      BY <2>5
    <3>2. \A m \in Nodes : Has(requests'[m], "read") => Has(requests[m], "read")
      BY <2>2, <2>3
    <3>3. \A m \in Nodes : Single(requests'[m], "read")
      BY <2>2, <2>3, <3>1 DEF OneRead
    <3>4. /\ Has(replies', "read") => Has(replies, "read") \/ r.cmd = "read"
          /\ Single(replies, "read") /\ (r.cmd = "read" => ~Has(replies, "read")) => Single(replies', "read")
      <4>1. CASE replies' = replies
        BY <4>1
      <4>2. ASSUME NEW x \in Replies, x.cmd = r.cmd, replies' = Append(replies, x)
            PROVE  /\ Has(replies', "read") => Has(replies, "read") \/ r.cmd = "read"
                   /\ Single(replies, "read") /\ (r.cmd = "read" => ~Has(replies, "read"))
                          => Single(replies', "read")
        BY <2>1, <4>2, AppendOf
      <4> QED
        BY <2>4, <4>1, <4>2
    <3>5. Reading' => Reading
      BY <2>3, <3>2, <3>4 DEF Reading
    <3>6. \A m \in Nodes : r.cmd = "read" => ~Has(requests'[m], "read")
      BY <2>2, <2>3, <3>1 DEF OneRead
    <3>7. Single(replies', "read")
      BY <2>3, <3>1, <3>4 DEF OneRead
    <3>8. \A m \in Nodes : Has(requests'[m], "read") => ~Has(replies', "read")
      BY <3>1, <3>2, <3>4, <3>6 DEF OneRead
    <3>9. \A l, m \in Nodes : Has(requests'[l], "read") /\ Has(requests'[m], "read") => l = m
      BY <3>1, <3>2 DEF OneRead
    <3>10. UNCHANGED Live
      BY <2>1 DEF Live
    <3> HIDE DEF r
    <3> QED
      BY <2>1, <3>1, <3>3, <3>5, <3>7, <3>8, <3>9, <3>10 DEF OneRead
  <2> QED
    BY <2>1, <2>5 DEF FreedOnlyByRepeatedRead
<1> QED
  BY <1>1, <1>2, <1>3, <1>4, <1>5, <1>6, <1>7, <1>8, <1>9, <1>10, Zenon
     DEF Next, WorkerStep, Http, World
-----------------------------------------------------------------------------
(* Uploads *)

\* An upload that is under way and may still be reported as done.
GoingUp ==
    /\ busy /\ op.kind = "upload" /\ (step = "idle" \/ result = "ok")
    /\ ~past.stray /\ ~past.rival /\ ~past.moved /\ ~past.leftover

\* What is under way: this upload's erase requests, then its writes.
SentUp ==
    /\ op.code \in Code
    /\ \A n \in Nodes \ {target} : requests[n] = <<>>
    /\ buf.mem # "none" => \A k \in Chunks : buf.is[k] = op.code
    /\ \A r \in Elements(requests[target]) : r.cmd = "write" => r.data = op.code
    /\ Before(requests[target], "erase", "write")
    /\ step \in {"idle", "stop", "erase"} =>
           ~Has(requests[target], "write") /\ ~Has(replies, "write")
    /\ step \in {"idle", "stop"} =>
           ~Has(requests[target], "erase") /\ ~Has(replies, "erase")

\* An erase acknowledged leaves cells that are erased or of this script.
ErasedUp ==
    \/ step \notin {"idle", "stop", "erase"}
    \/ \E r \in Elements(replies) : r.cmd = "erase" /\ r.ok
    \/ Live /\ ack.cmd = "erase" /\ ack.ok
    => \A k \in Chunks : flash[target][k] \in {Blank, op.code}

\* A write acknowledged has stored its chunk, and no erase is still to come.
WrittenUp ==
    /\ \A r \in Elements(replies) : r.cmd = "write" /\ r.ok =>
           flash[target][r.off] = op.code /\ ~Has(requests[target], "erase")
    /\ Live /\ ack.cmd = "write" /\ ack.ok =>
           flash[target][ack.off] = op.code /\ ~Has(requests[target], "erase")
    /\ step # "idle" =>
           /\ \A k \in Chunks : k < have => flash[target][k] = op.code
           /\ have > 0 => ~Has(requests[target], "erase")
    /\ step \in {"run", "done", "free", "clear", "release"} => have = NumChunks

UpInv == GoingUp => SentUp /\ ErasedUp /\ WrittenUp

\* A request more, of a kind that belongs to the step.
LEMMA UpAsks ==
    ASSUME TypeOK, SentUp, ErasedUp, WrittenUp, NEW r \in Requests,
           requests' = requests \/ requests' = [requests EXCEPT ![target] = Append(@, r)],
           UNCHANGED <<flash, replies, target, op, buf, ack, step, have>>, Live' => Live,
           r.cmd = "write" => step = "write" /\ r.data = op.code,
           r.cmd = "erase" => step = "erase" /\ have = 0 /\ ~Live'
    PROVE  SentUp' /\ ErasedUp' /\ WrittenUp'
<1> DEFINE q == requests[target]
<1>1. q \in Seq(Requests) /\ target \in Nodes
  BY DEF TypeOK
<1>2. /\ \A n \in Nodes \ {target} : requests'[n] = requests[n]
      /\ requests'[target] = q \/ requests'[target] = Append(q, r)
      /\ \A cmd : Has(requests'[target], cmd) => Has(q, cmd) \/ r.cmd = cmd
  BY <1>1, RequestAdds
<1>3. Elements(requests'[target]) \subseteq Elements(q) \cup {r}
  <2>1. Elements(Append(q, r)) = Elements(q) \cup {r}
    <3> HIDE DEF q
    <3> QED
      BY <1>1, AppendOf
  <2> QED
    BY <1>2, <2>1
<1>4. Before(requests'[target], "erase", "write")
  <2>1. Before(q, "erase", "write") /\ (r.cmd = "erase" => ~Has(q, "write"))
    BY DEF SentUp
  <2>2. Before(Append(q, r), "erase", "write")
    BY <1>1, <2>1, AppendOf
  <2> QED
    BY <1>2, <2>1, <2>2
<1> HIDE DEF q
<1>5. SentUp'
  BY <1>2, <1>3, <1>4 DEF SentUp, q
<1>6. ErasedUp'
  BY DEF ErasedUp
<1>7. WrittenUp'
  <2>1. CASE r.cmd = "erase"
    <3>1. \A x \in Elements(replies) : x.cmd # "write"
      BY <2>1 DEF SentUp, Has, Elements
    <3> QED
      BY <2>1, <3>1 DEF WrittenUp, Chunks
  <2>2. CASE r.cmd # "erase"
    BY <1>2, <2>2 DEF WrittenUp, q
  <2> QED
    BY <2>1, <2>2
<1> QED
  BY <1>5, <1>6, <1>7

LEMMA UpStep ==
    ASSUME TypeOK, ThreadInv, UpInv, [Next]_vars
    PROVE  UpInv'
<1> USE LispCodeAssumption
<1> DEFINE quiet == UNCHANGED <<flash, requests, replies, target, op, past>>
<1>1. ASSUME quiet, UNCHANGED <<buf, ack, step, have>>, GoingUp' => GoingUp, Live' => Live
      PROVE  UpInv'
  BY <1>1 DEF UpInv, SentUp, ErasedUp, WrittenUp
<1>2. CASE UNCHANGED vars
  BY <1>1, <1>2 DEF vars, air, regs, worker, GoingUp, Live
<1>3. CASE Begin \/ GoesOn \/ (TimesOut /\ BestEffort)
  <2>1. quiet /\ UNCHANGED buf
    BY <1>3 DEF Begin, GoesOn, TimesOut, air
  <2>2. /\ GoingUp' => GoingUp
        /\ ~Live'
        /\ GoingUp => \/ step = "idle" /\ step' = "stop" /\ have' = 0
                      \/ step = "stop" /\ step' = "erase" /\ have' = have /\ have = 0
                      \/ step = "run" /\ step' = "done" /\ have' = have
    BY <1>3 DEF Begin, GoesOn, TimesOut, BestEffort, Goto, GoingUp, Live, ThreadInv, TypeOK
  <2>3. ASSUME GoingUp'
        PROVE  SentUp' /\ ErasedUp' /\ WrittenUp'
    <3>1. SentUp /\ ErasedUp /\ WrittenUp
      BY <2>2, <2>3 DEF UpInv
    <3>2. SentUp'
      BY <2>1, <2>2, <2>3, <3>1 DEF SentUp
    <3>3. ErasedUp'
      BY <2>1, <2>2, <2>3, <3>1 DEF ErasedUp
    <3>4. WrittenUp'
      BY <2>1, <2>2, <2>3, <3>1 DEF WrittenUp, Chunks
    <3> QED
      BY <3>2, <3>3, <3>4
  <2> QED
    BY <2>3 DEF UpInv
<1>4. CASE DrainsLate \/ Acked \/ (TimesOut /\ ~BestEffort) \/ Mismatch \/ GotChunk
  <2>1. quiet /\ UNCHANGED <<buf, ack, step, have>>
    BY <1>4 DEF DrainsLate, Acked, TimesOut, Mismatch, Retried, GotChunk, air, regs
  <2>2. (GoingUp' => GoingUp) /\ (Live' => Live)
    BY <1>4 DEF DrainsLate, Acked, TimesOut, Mismatch, Retried, GotChunk, air, regs,
       GoingUp, Live, TypeOK
  <2> QED
    BY <1>1, <2>1, <2>2
<1>5. CASE Exhausted \/ Measures
  <2>1. ~GoingUp'
    BY <1>5 DEF Exhausted, Measures, Fails, Goto, GoingUp, ThreadInv
  <2> QED
    BY <2>1 DEF UpInv
<1>6. CASE Erased
  <2>1. /\ quiet /\ UNCHANGED <<buf, have>> /\ (GoingUp' => GoingUp) /\ ~Live' /\ have = 0
        /\ step' = "write" /\ Live /\ ack.cmd = "erase" /\ ack.ok
    BY <1>6 DEF Erased, Goto, Matches, GoingUp, Live, air, ThreadInv
  <2>2. ASSUME GoingUp'
        PROVE  SentUp' /\ ErasedUp' /\ WrittenUp'
    <3>1. SentUp /\ ErasedUp /\ WrittenUp
      BY <2>1, <2>2 DEF UpInv
    <3> QED
      BY <2>1, <3>1 DEF SentUp, ErasedUp, WrittenUp, Chunks
  <2> QED
    BY <2>2 DEF UpInv
<1>7. CASE Wrote
  <2>1. /\ quiet /\ UNCHANGED <<buf>> /\ (GoingUp' => GoingUp) /\ ~Live' /\ have' = have + 1
        /\ step = "write" /\ Live /\ ack.cmd = "write" /\ ack.ok /\ ack.off = have
        /\ step' \in {"write", "run", "done"} /\ (have' < NumChunks => step' = "write")
    BY <1>7 DEF Wrote, Goto, Matches, GoingUp, Live, air
  <2>2. step' # "write" => have' = NumChunks
    BY <2>1, <1>7 DEF TypeOK
  <2>3. ASSUME GoingUp'
        PROVE  SentUp' /\ ErasedUp' /\ WrittenUp'
    <3>1. SentUp /\ ErasedUp /\ WrittenUp
      BY <2>1, <2>3 DEF UpInv
    <3>2. SentUp' /\ ErasedUp'
      BY <2>1, <3>1 DEF SentUp, ErasedUp
    <3>3. \A k \in Chunks : k < have' => flash'[target'][k] = op'.code
      <4>1. \A k \in Chunks : k < have' => k < have \/ k = have
        BY <2>1 DEF TypeOK, Chunks
      <4> QED
        BY <2>1, <3>1, <4>1 DEF WrittenUp
    <3>4. WrittenUp'
      BY <2>1, <2>2, <3>1, <3>3 DEF WrittenUp
    <3> QED
      BY <3>2, <3>4
  <2> QED
    BY <2>3 DEF UpInv
<1>8. CASE Reports \/ Frees \/ Clears \/ Releases
  <2>1. /\ ~Live' /\ step \in {"done", "free", "clear", "release"} /\ UNCHANGED <<have, result>>
        /\ GoingUp' => GoingUp /\ quiet /\ step' \in {"free", "clear", "release"}
                      /\ (buf'.mem # "none" => buf.mem # "none" /\ buf'.is = buf.is)
    BY <1>8 DEF Reports, Frees, Clears, Releases, Goto, GoingUp, Live, air, ThreadInv, TypeOK
  <2>2. ASSUME GoingUp'
        PROVE  SentUp' /\ ErasedUp' /\ WrittenUp'
    <3>1. SentUp /\ ErasedUp /\ WrittenUp
      BY <2>1, <2>2 DEF UpInv
    <3> QED
      BY <2>1, <2>2, <3>1 DEF SentUp, ErasedUp, WrittenUp
  <2> QED
    BY <2>2 DEF UpInv
<1>9. CASE AsksRunning
  <2> DEFINE r == Running(step = "run")
  <2>1. r \in Requests /\ r.cmd = "running"
    BY RequestTypes DEF Running, Request
  <2>2. /\ requests' = requests \/ requests' = [requests EXCEPT ![target] = Append(@, r)]
        /\ UNCHANGED <<flash, replies, target, op, past, buf, ack, step, have>> /\ ~Live'
        /\ GoingUp' => GoingUp
    BY <1>9 DEF AsksRunning, Send, regs, GoingUp, Live
  <2> HIDE DEF r
  <2> QED
    BY <2>1, <2>2, UpAsks DEF UpInv
<1>10. CASE Asks
  <2>1. /\ UNCHANGED <<flash, replies, target, op, buf, ack, step, have>> /\ ~Live'
        /\ requests' = requests \/ requests' = [requests EXCEPT ![target] = Append(@, Attempt)]
        /\ GoingUp' => GoingUp
    <3>1. /\ past'.stray = past.stray /\ past'.rival = past.rival
          /\ past'.moved = past.moved /\ past'.leftover = past.leftover
      BY <1>10 DEF Asks, TypeOK
    <3> QED
      BY <1>10, <3>1 DEF Asks, Send, GoingUp, Live
  <2>2. ASSUME GoingUp'
        PROVE  /\ Attempt \in Requests /\ (step # "erase" => Attempt.cmd # "erase")
               /\ Attempt.cmd = "write" => step = "write" /\ Attempt.data = op.code
               /\ Attempt.cmd = "erase" => step = "erase"
    <3>1. step \in {"erase", "write"} /\ (step = "write" => have \in Chunks)
      BY <1>10, <2>1, <2>2 DEF Asks, GoingUp, ThreadInv, TypeOK, Chunks
    <3>2. step = "write" => buf.is[have] = op.code /\ op.code \in Content
      BY <2>1, <2>2, <3>1 DEF GoingUp, ThreadInv, UpInv, SentUp, Content
    <3>3. /\ step = "erase" => Attempt = Erase
          /\ step = "write" => Attempt = Write(have, buf.is[have])
      BY <3>1 DEF Attempt
    <3>4. CASE step = "erase"
      <4>1. Attempt = Erase /\ Erase \in Requests
        BY <3>3, <3>4, RequestTypes
      <4>2. Erase.cmd = "erase"
        BY DEF Erase, Request
      <4> QED
        BY <3>4, <4>1, <4>2
    <3>5. CASE step = "write"
      <4>1. Attempt = Write(have, op.code) /\ Attempt \in Requests
        BY <3>1, <3>2, <3>3, <3>5, RequestTypes
      <4> QED
        BY <3>5, <4>1 DEF Write, Request
    <3> QED
      BY <3>1, <3>4, <3>5
  <2>3. GoingUp' => SentUp /\ ErasedUp /\ WrittenUp
    BY <2>1 DEF UpInv
  <2>4. GoingUp' => have = 0 \/ step # "erase"
    BY DEF ThreadInv
  <2> HIDE DEF quiet
  <2> QED
    BY <2>1, <2>2, <2>3, <2>4, UpAsks DEF UpInv
<1>11. CASE Receive
  <2> DEFINE r == Head(replies)
  <2>1. /\ replies \in Seq(Replies) /\ replies # <<>> /\ replies' = Tail(replies)
        /\ UNCHANGED <<flash, requests, target, op, busy, step, phase, have, result>>
    BY <1>11 DEF Receive, worker, TypeOK
  <2>2. /\ Elements(replies) = Elements(replies') \cup {r}
        /\ \A cmd : Has(replies', cmd) => Has(replies, cmd)
        /\ r \in Replies
    BY <2>1, TailOf, Zenon
  <2>3. ASSUME GoingUp'
        PROVE  SentUp' /\ ErasedUp' /\ WrittenUp'
    <3>1. /\ past'.rival = past.rival
          /\ past'.moved = past.moved /\ past'.leftover = past.leftover
          /\ ~past'.stray => ~past.stray /\ ~(busy /\ op.kind = "upload" /\ Stores(r))
      BY <1>11 DEF Receive, TypeOK
    <3>2. GoingUp /\ ~Stores(r)
      BY <2>1, <2>3, <3>1 DEF GoingUp
    <3>3. /\ buf' = buf
          /\ ack' = [cmd |-> r.cmd, ok |-> r.ok \/ r.cmd = "read",
                     off |-> IF r.cmd \in {"write", "read"} THEN r.off ELSE 0,
                     len |-> IF Stores(r) THEN 1 ELSE 0,
                     total |-> IF r.cmd = "read" THEN r.total ELSE ack.total]
      BY <1>11, <3>2 DEF Receive, GoingUp
    <3>4. ack'.cmd = r.cmd /\ (r.cmd = "write" => ack'.off = r.off)
      BY <3>3
    <3>5. ack'.ok <=> r.ok \/ r.cmd = "read"
      BY <3>3
    <3>6. SentUp /\ ErasedUp /\ WrittenUp
      BY <3>2 DEF UpInv
    <3> HIDE DEF r
    <3>7. SentUp'
      BY <2>1, <2>2, <3>3, <3>6 DEF SentUp
    <3>8. ErasedUp'
      BY <2>1, <2>2, <3>4, <3>5, <3>6 DEF ErasedUp
    <3>9. WrittenUp'
      <4>1. \A x \in Elements(replies') : x \in Elements(replies)
        BY <2>2
      <4>2. ack'.cmd = "write" /\ ack'.ok =>
                flash[target][ack'.off] = op.code /\ ~Has(requests[target], "erase")
        BY <2>2, <3>4, <3>5, <3>6 DEF WrittenUp
      <4> QED
        BY <2>1, <3>6, <4>1, <4>2 DEF WrittenUp
    <3> QED
      BY <3>7, <3>8, <3>9
  <2> QED
    BY <2>3 DEF UpInv
<1>12. CASE StartUpload
  <2>1. PICK c \in Code, run \in BOOLEAN : Start("upload", c, run)
    BY <1>12 DEF StartUpload, Code
  <2>2. /\ UNCHANGED <<flash, requests, replies, target, ack, ackSem, step, phase, have>>
        /\ op'.code = c /\ buf'.is = [k \in Chunks |-> c] /\ step = "idle" /\ phase = "ask"
    BY <2>1 DEF Start, air, regs, worker, ThreadInv
  <2>3. past'.leftover <=> Leftover
    BY <2>1 DEF Start, TypeOK
  <2>4. ASSUME GoingUp'
        PROVE  SentUp' /\ ErasedUp' /\ WrittenUp'
    <3>1. ~Leftover
      BY <2>3, <2>4 DEF GoingUp
    <3>2. /\ \A n \in Nodes \ {target} : requests[n] = <<>>
          /\ \A i \in 1 .. Len(requests[target]) : requests[target][i].cmd = "running"
          /\ \A i \in 1 .. Len(replies) : replies[i].cmd = "running"
      BY <3>1 DEF Leftover
    <3>3. /\ \A r \in Elements(requests[target]) : r.cmd = "running"
          /\ \A r \in Elements(replies) : r.cmd = "running"
          /\ ~Has(requests[target], "write") /\ ~Has(replies, "write")
          /\ ~Has(requests[target], "erase") /\ ~Has(replies, "erase")
          /\ Before(requests[target], "erase", "write")
      BY <3>2 DEF Elements, Has, Before
    <3> QED
      BY <2>2, <3>2, <3>3 DEF SentUp, ErasedUp, WrittenUp, Live
  <2> QED
    BY <2>4 DEF UpInv
<1>13. CASE StartRead \/ SetRunning \/ SetTarget
  <2>1. StartRead => op'.kind = "read"
    BY DEF StartRead, Start
  <2>2. SetRunning => ~busy'
    BY DEF SetRunning
  <2>3. SetTarget => past'.moved
    BY DEF SetTarget, TypeOK
  <2> QED
    BY <1>13, <2>1, <2>2, <2>3 DEF UpInv, GoingUp
<1>14. CASE PhoneSends
  <2>0. PICK k \in Chunks, c \in Phoned : \E r \in PhoneRequests(k, c) :
            /\ requests' = [requests EXCEPT ![target] = Append(@, r)]
            /\ past' = [past EXCEPT !.foreign = TRUE, !.rival = @ \/ Changes(r)]
    BY <1>14 DEF PhoneSends
  <2>1. PICK r \in PhoneRequests(k, c) :
            /\ requests' = [requests EXCEPT ![target] = Append(@, r)]
            /\ past' = [past EXCEPT !.foreign = TRUE, !.rival = @ \/ Changes(r)]
    BY <2>0
  <2>2. r \in Requests /\ (~Changes(r) => r.cmd \in {"running", "read"})
    BY PhoneRequestTypes
  <2>3. /\ UNCHANGED <<flash, replies, target, op, buf, ack, ackSem, busy, step, phase, have,
                       result>>
        /\ past'.stray = past.stray /\ past'.moved = past.moved /\ past'.leftover = past.leftover
        /\ past'.rival <=> past.rival \/ Changes(r)
    BY <1>14, <2>1 DEF PhoneSends, regs, worker, TypeOK
  <2>4. (GoingUp' => GoingUp /\ ~Changes(r)) /\ (Live' => Live)
    BY <2>3 DEF GoingUp, Live
  <2>5. GoingUp' => SentUp /\ ErasedUp /\ WrittenUp
    BY <2>4 DEF UpInv
  <2>6. CASE Changes(r)
    BY <2>4, <2>6 DEF UpInv
  <2>7. CASE ~Changes(r)
    BY <2>1, <2>2, <2>3, <2>4, <2>5, <2>7, UpAsks DEF UpInv
  <2> QED
    BY <2>6, <2>7
<1>15. ASSUME NEW n \in Nodes, Serve(n)
       PROVE  UpInv'
  <2> DEFINE q == requests[target]
             r == Head(q)
             f == flash[target]
  <2>1. /\ UNCHANGED <<target, op, past, buf, ack, ackSem, busy, step, phase, have, result>>
        /\ requests[n] # <<>> /\ requests' = [requests EXCEPT ![n] = Tail(@)]
    BY <1>15 DEF Serve, regs, worker
  <2>2. UNCHANGED GoingUp /\ UNCHANGED Live
    BY <2>1 DEF GoingUp, Live
  <2>3. ASSUME GoingUp
        PROVE  SentUp' /\ ErasedUp' /\ WrittenUp'
    <3>1. SentUp /\ ErasedUp /\ WrittenUp
      BY <2>3 DEF UpInv
    <3>2. n = target
      BY <2>1, <3>1 DEF SentUp
    <3>3. q \in Seq(Requests) /\ q # <<>> /\ replies \in Seq(Replies) /\ f \in [Chunks -> Content]
      BY <2>1, <3>2 DEF TypeOK
    <3>4. /\ requests'[target] = Tail(q)
          /\ \A m \in Nodes \ {target} : requests'[m] = requests[m]
      BY <2>1, <3>2 DEF TypeOK
    <3>5. /\ Elements(q) = Elements(Tail(q)) \cup {r} /\ r \in Requests
          /\ \A cmd : Has(q, cmd) <=> Has(Tail(q), cmd) \/ r.cmd = cmd
          /\ Before(Tail(q), "erase", "write")
          /\ r.cmd = "write" => ~Has(Tail(q), "erase")
      <4>1. Before(q, "erase", "write")
        BY <3>1 DEF SentUp
      <4> HIDE DEF q
      <4> QED
        BY <3>3, <4>1, TailOf
    <3>6. \/ flash' = flash /\ replies' = replies
          \/ flash' = [flash EXCEPT ![target] = Flashed(f, r)] /\ replies' = replies
          \/ /\ flash' = [flash EXCEPT ![target] = Flashed(f, r)]
             /\ replies' = Append(replies, Reply(Flashed(f, r), r, TRUE))
          \/ flash' = flash /\ replies' = Append(replies, Reply(Flashed(f, r), r, FALSE))
      BY <1>15, <3>2 DEF Serve
    <3> DEFINE g == flash'[target]
    <3>7. g \in {f, Flashed(f, r)}
      BY <3>6 DEF TypeOK
    <3>8. \/ g = f
          \/ r.cmd = "erase" /\ \A k \in Chunks : g[k] = Blank
          \/ /\ r.cmd = "write" /\ g = [f EXCEPT ![r.off] = Program(@, r.data)]
      <4> HIDE DEF g, f, r
      <4> QED
        BY <3>7 DEF Flashed, Empty
    <3>9. /\ \A x \in Elements(replies') : \/ x \in Elements(replies)
                                           \/ /\ x.cmd = r.cmd /\ x.off = r.off
                                              /\ x.ok => g = Flashed(f, r)
          /\ \A cmd : Has(replies', cmd) => Has(replies, cmd) \/ r.cmd = cmd
          /\ \A x \in Elements(replies) : x \in Elements(replies')
      <4> DEFINE y(ok) == Reply(Flashed(f, r), r, ok)
      <4>1. \A ok \in BOOLEAN : y(ok) \in Replies /\ y(ok).cmd = r.cmd /\ y(ok).off = r.off
        <5>1. Flashed(f, r) \in [Chunks -> Content]
          BY <3>3, <3>5, ServeTypes, Zenon
        <5>2. \A ok \in BOOLEAN : y(ok) \in Replies
          BY <3>5, <5>1, ServeTypes, Zenon
        <5> QED
          BY <5>2 DEF Reply
      <4>2. ~y(FALSE).ok
        BY DEF Reply
      <4>3. ASSUME NEW ok \in BOOLEAN
            PROVE  /\ Elements(Append(replies, y(ok))) = Elements(replies) \cup {y(ok)}
                   /\ \A cmd : Has(Append(replies, y(ok)), cmd) => Has(replies, cmd) \/ r.cmd = cmd
        <5>1. y(ok) \in Replies /\ y(ok).cmd = r.cmd
          BY <4>1
        <5> HIDE DEF y, r
        <5> QED
          BY <3>3, <5>1, AppendOf
      <4>4. CASE replies' = replies
        BY <4>4
      <4>5. CASE replies' = Append(replies, y(TRUE)) /\ g = Flashed(f, r)
        <5> HIDE DEF y, r, g
        <5> QED
          BY <4>1, <4>3, <4>5
      <4>6. CASE replies' = Append(replies, y(FALSE))
        <5> HIDE DEF y, r, g
        <5> QED
          BY <4>1, <4>2, <4>3, <4>6
      <4>7. flash' = [flash EXCEPT ![target] = Flashed(f, r)] => g = Flashed(f, r)
        BY DEF TypeOK
      <4> QED
        BY <3>6, <4>4, <4>5, <4>6, <4>7
    <3>10. SentUp'
      <4> HIDE DEF r
      <4> QED
        BY <2>1, <3>1, <3>4, <3>5, <3>9 DEF SentUp
    <3>11. r.cmd = "write" =>
              /\ r.data = op.code /\ r.off \in Chunks
              /\ \A k \in Chunks : f[k] \in {Blank, op.code}
      <4>1. Has(q, "write") <=> \E x \in Elements(q) : x.cmd = "write"
        BY DEF Has, Elements
      <4> QED
        BY <3>1, <3>5, <4>1 DEF SentUp, ErasedUp, Requests
    <3>12. \A k \in Chunks : r.cmd = "write" => g[k] \in {f[k], op.code}
      <4> HIDE DEF r, g, f
      <4> QED
        BY <3>3, <3>8, <3>11 DEF Program
    <3>13. r.cmd = "write" /\ g = Flashed(f, r) => g[r.off] = op.code
      <4> HIDE DEF r, g, f
      <4> QED
        BY <3>3, <3>11 DEF Program, Flashed
    <3>14. r.cmd = "erase" /\ g = Flashed(f, r) => \A k \in Chunks : g[k] = Blank
      <4> HIDE DEF r, g, f
      <4> QED
        BY <3>3 DEF Empty, Flashed
    <3>15. /\ r.cmd # "erase" => \A k \in Chunks : g[k] \in {f[k], op.code}
           /\ g = f \/ r.cmd = "write" \/ (r.cmd = "erase" /\ \A k \in Chunks : g[k] = Blank)
      <4> HIDE DEF r, g, f
      <4> QED
        BY <3>8, <3>12
    <3>16. ErasedUp'
      <4> SUFFICES ASSUME \/ step \notin {"idle", "stop", "erase"}
                          \/ \E x \in Elements(replies') : x.cmd = "erase" /\ x.ok
                          \/ Live /\ ack.cmd = "erase" /\ ack.ok
                   PROVE  \A k \in Chunks : g[k] \in {Blank, op.code}
        BY <2>1, <2>2 DEF ErasedUp
      <4>1. CASE \A k \in Chunks : g[k] = Blank
        BY <4>1
      <4>2. CASE \A k \in Chunks : f[k] \in {Blank, op.code}
        <5> HIDE DEF r, g, f
        <5> QED
          BY <3>15, <4>2
      <4>3. \/ \A k \in Chunks : g[k] = Blank
            \/ \A k \in Chunks : f[k] \in {Blank, op.code}
        <5>1. CASE step \notin {"idle", "stop", "erase"} \/ (Live /\ ack.cmd = "erase" /\ ack.ok)
          BY <3>1, <5>1 DEF ErasedUp
        <5>2. ASSUME NEW x \in Elements(replies'), x.cmd = "erase", x.ok
              PROVE  \/ \A k \in Chunks : g[k] = Blank
                     \/ \A k \in Chunks : f[k] \in {Blank, op.code}
          <6>1. CASE x \in Elements(replies)
            BY <3>1, <5>2, <6>1 DEF ErasedUp
          <6>2. CASE r.cmd = "erase" /\ g = Flashed(f, r)
            BY <3>14, <6>2
          <6> HIDE DEF r, g, f
          <6> QED
            BY <3>9, <5>2, <6>1, <6>2
        <5> QED
          BY <5>1, <5>2
      <4> QED
        BY <4>1, <4>2, <4>3
    <3>17. WrittenUp'
      <4>1. ASSUME NEW x \in Elements(replies'), x.cmd = "write", x.ok
            PROVE  g[x.off] = op.code /\ ~Has(requests'[target], "erase")
        <5>1. CASE x \in Elements(replies)
          <6>1. x.off \in Chunks
            <7>1. PICK i \in 1 .. Len(replies) : x = replies[i]
              BY <5>1 DEF Elements
            <7>2. x \in Replies
              BY <3>3, <7>1
            <7> QED
              BY <7>2 DEF Replies
          <6>2. f[x.off] = op.code /\ ~Has(q, "erase")
            BY <3>1, <4>1, <5>1 DEF WrittenUp
          <6> HIDE DEF r, g, f, q
          <6> QED
            BY <3>4, <3>5, <3>15, <6>1, <6>2
        <5>2. CASE x.cmd = r.cmd /\ x.off = r.off /\ g = Flashed(f, r)
          <6> HIDE DEF r, g, f, q
          <6> QED
            BY <3>4, <3>5, <3>13, <4>1, <5>2
        <5> HIDE DEF r, g, f, q
        <5> QED
          BY <3>9, <4>1, <5>1, <5>2
      <4>2. Live /\ ack.cmd = "write" /\ ack.ok =>
                g[ack.off] = op.code /\ ~Has(requests'[target], "erase")
        <5>1. ack.off \in Chunks
          BY DEF TypeOK
        <5>2. Live /\ ack.cmd = "write" /\ ack.ok => f[ack.off] = op.code /\ ~Has(q, "erase")
          BY <3>1 DEF WrittenUp
        <5> HIDE DEF r, g, f, q
        <5> QED
          BY <3>4, <3>5, <3>15, <5>1, <5>2
      <4>3. step # "idle" =>
                /\ \A k \in Chunks : k < have => g[k] = op.code
                /\ have > 0 => ~Has(requests'[target], "erase")
        <5>1. step # "idle" =>
                  /\ \A k \in Chunks : k < have => f[k] = op.code
                  /\ have > 0 => ~Has(q, "erase")
          BY <3>1 DEF WrittenUp
        <5>2. \A k \in Chunks : k < have => have > 0
          BY DEF TypeOK, Chunks
        <5> HIDE DEF r, g, f, q
        <5> QED
          BY <3>4, <3>5, <3>15, <5>1, <5>2
      <4> QED
        BY <2>1, <2>2, <3>1, <4>1, <4>2, <4>3 DEF WrittenUp
    <3> QED
      BY <3>10, <3>16, <3>17
  <2> QED
    BY <2>2, <2>3 DEF UpInv
<1> QED
  BY <1>2, <1>3, <1>4, <1>5, <1>6, <1>7, <1>8, <1>9, <1>10, <1>11, <1>12, <1>13, <1>14, <1>15,
     Zenon DEF Next, WorkerStep, Http, World
-----------------------------------------------------------------------------
(* Reads *)

\* A read that is under way and may still be reported as done.
GoingRead ==
    /\ busy /\ op.kind = "read" /\ (step = "idle" \/ result = "ok")
    /\ ~past.foreign /\ ~past.moved /\ ~past.leftover

\* The worker has a reply to this read to look at, or has looked at one.
Taken == \/ step = "read" /\ have > 0
         \/ Live /\ ack.cmd = "read"
         \/ phase = "measure"

\* What is under way: requests to run made before, then this read's.
SentRead ==
    /\ \A n \in Nodes \ {target} : requests[n] = <<>>
    /\ ~Has(requests[target], "erase") /\ ~Has(requests[target], "write")
    /\ ~Has(replies, "erase") /\ ~Has(replies, "write")
    /\ Before(requests[target], "running", "read") /\ Before(replies, "running", "read")
    /\ step = "idle" => ~Has(requests[target], "read") /\ ~Has(replies, "read")
    /\ Taken \/ Has(replies, "read") => ~Has(requests[target], "running")
    /\ Taken => ~Has(replies, "running")

Size == IF Whole(flash[target]) THEN NumChunks ELSE 0

\* What has been assembled is what the controller stores.
Assembled ==
    /\ \A r \in Elements(replies) : r.cmd = "read" => r.data = flash[target][r.off] /\ r.total = Size
    /\ Live /\ ack.cmd = "read" => buf.is[ack.off] = flash[target][ack.off]
    /\ phase = "measure" => ack.cmd = "read" /\ buf.is[have] = flash[target][have]
    /\ (Live /\ ack.cmd = "read") \/ phase = "measure" => ack.total = Size /\ ack.len = 1
    /\ step \in {"read", "done"} => \A k \in Chunks : k < have => buf.is[k] = flash[target][k]
    /\ step = "read" => total \in {0, Size} /\ (total = 0 => have = 0)
    /\ step = "done" => have = NumChunks
    /\ step = "free" => job.page = [len |-> NumChunks, is |-> flash[target]]

RdInv == GoingRead => SentRead /\ Assembled

LEMMA RdStep ==
    ASSUME TypeOK, ThreadInv, RdInv, [Next]_vars
    PROVE  RdInv'
<1> USE LispCodeAssumption
<1> DEFINE quiet == UNCHANGED <<flash, requests, replies, target, op, past>>
<1>1. ASSUME quiet, UNCHANGED <<buf, ack, step, have, total, job>>, GoingRead' => GoingRead,
             Live' => Live, phase' # "measure"
      PROVE  RdInv'
  BY <1>1 DEF RdInv, SentRead, Assembled, Taken, Size, Whole
<1>2. CASE UNCHANGED vars
  <2>1. quiet /\ UNCHANGED <<buf, ack, step, have, total, job, phase>> /\ UNCHANGED GoingRead
        /\ UNCHANGED Live
    BY <1>2 DEF vars, air, regs, worker, GoingRead, Live
  <2> QED
    BY <2>1 DEF RdInv, SentRead, Assembled, Taken, Size, Whole
<1>3. CASE Begin
  <2>1. /\ quiet /\ step = "idle" /\ phase = "ask" /\ ~Live' /\ phase' = "ask"
        /\ GoingRead' => GoingRead /\ step' = "read"
        /\ have' = 0 /\ total' = 0
    BY <1>3 DEF Begin, Goto, GoingRead, Live, air, ThreadInv
  <2>2. ASSUME GoingRead'
        PROVE  SentRead' /\ Assembled'
    <3>1. SentRead /\ Assembled
      BY <2>1, <2>2 DEF RdInv
    <3> QED
      BY <2>1, <2>2, <3>1 DEF SentRead, Assembled, Taken, Size, Whole, Chunks
  <2> QED
    BY <2>2 DEF RdInv
<1>4. CASE DrainsLate \/ Acked \/ (TimesOut /\ ~BestEffort) \/ Mismatch
  <2>1. quiet /\ UNCHANGED <<buf, ack, step, have, total, job>> /\ phase' # "measure"
    BY <1>4 DEF DrainsLate, Acked, TimesOut, Mismatch, Retried, air, regs
  <2>2. (GoingRead' => GoingRead) /\ (Live' => Live)
    BY <1>4 DEF DrainsLate, Acked, TimesOut, Mismatch, Retried, air, regs, GoingRead, Live, TypeOK
  <2> QED
    BY <1>1, <2>1, <2>2
<1>5. CASE \/ AsksRunning \/ GoesOn \/ (TimesOut /\ BestEffort) \/ Erased \/ Wrote \/ Exhausted
  <2>1. ~GoingRead'
    BY <1>5 DEF AsksRunning, GoesOn, TimesOut, BestEffort, Erased, Wrote, Exhausted, Fails, Goto,
       GoingRead, ThreadInv
  <2> QED
    BY <2>1 DEF RdInv
<1>6. CASE Clears \/ Releases \/ Frees
  <2>1. /\ GoingRead' => GoingRead /\ step' \in {"clear", "release"} /\ quiet
        /\ ~Live' /\ phase' = "ask"
    BY <1>6 DEF Clears, Releases, Frees, Goto, GoingRead, ThreadInv, Live, air
  <2>2. ASSUME GoingRead'
        PROVE  SentRead' /\ Assembled'
    <3>1. SentRead /\ Assembled
      BY <2>1, <2>2 DEF RdInv
    <3> QED
      BY <2>1, <2>2, <3>1 DEF SentRead, Assembled, Taken, Size, Whole
  <2> QED
    BY <2>2 DEF RdInv
<1>7. CASE GotChunk
  <2>1. /\ quiet /\ UNCHANGED <<buf, ack, step, have, total, job>> /\ (GoingRead' => GoingRead)
        /\ step = "read" /\ phase' = "measure" /\ ~Live'
        /\ Live /\ ack.cmd = "read" /\ ack.off = have
    BY <1>7 DEF GotChunk, Matches, GoingRead, Live, air, regs
  <2>2. ASSUME GoingRead'
        PROVE  SentRead' /\ Assembled'
    <3>1. SentRead /\ Assembled
      BY <2>1, <2>2 DEF RdInv
    <3> QED
      BY <2>1, <3>1 DEF SentRead, Assembled, Taken, Size, Whole
  <2> QED
    BY <2>2 DEF RdInv
<1>8. CASE Measures
  <2>1. /\ quiet /\ UNCHANGED <<buf, ack, job>> /\ step = "read" /\ phase = "measure"
        /\ ~Live' /\ phase' = "ask" /\ have' = have + ack.len /\ step' \in {"read", "done"}
        /\ total' = IF total = 0 THEN ack.total ELSE total
    BY <1>8 DEF Measures, Fails, Goto, Live, air, regs, ThreadInv
  <2>2. GoingRead' => GoingRead /\ total' # 0
                      /\ (step' = "read" => have' < total')
                      /\ (step' = "done" => ~(have' < total' /\ ack.len > 0))
    BY <1>8, <2>1 DEF Measures, Fails, Goto, GoingRead
  <2>3. ASSUME GoingRead'
        PROVE  SentRead' /\ Assembled'
    <3>1. SentRead /\ Assembled
      BY <2>2, <2>3 DEF RdInv
    <3>2. /\ ack.len = 1 /\ ack.total = Size /\ have' = have + 1 /\ total' = Size /\ Size = NumChunks
          /\ have \in Nat /\ have < NumChunks /\ have' > 0
      BY <2>1, <2>2, <2>3, <3>1 DEF Assembled, TypeOK, Size
    <3>3. step' = "done" => have' = NumChunks
      <4>1. step' = "done" => ~(have' < NumChunks)
        BY <2>2, <2>3, <3>2
      <4>2. have' \in Nat /\ have' <= NumChunks
        BY <3>2
      <4> QED
        BY <4>1, <4>2
    <3>4. \A k \in Chunks : k < have' => buf.is[k] = flash[target][k]
      <4>1. \A k \in Chunks : k < have' => k < have \/ k = have
        BY <3>2 DEF Chunks
      <4> QED
        BY <2>1, <3>1, <4>1 DEF Assembled
    <3>5. SentRead'
      BY <2>1, <3>1 DEF SentRead, Taken
    <3>6. UNCHANGED Size
      BY <2>1 DEF Size, Whole
    <3>7. Assembled'
      BY <2>1, <3>1, <3>2, <3>3, <3>4, <3>6 DEF Assembled
    <3> QED
      BY <3>5, <3>7
  <2> QED
    BY <2>3 DEF RdInv
<1>9. CASE Reports
  <2>1. /\ quiet /\ step = "done" /\ step' = "free" /\ phase' = "ask" /\ ~Live'
        /\ UNCHANGED <<have, result>>
        /\ GoingRead' => GoingRead /\ job'.page = [len |-> have, is |-> buf.is]
    BY <1>9 DEF Reports, Goto, GoingRead, Live, air, TypeOK
  <2>2. ASSUME GoingRead'
        PROVE  SentRead' /\ Assembled'
    <3>1. SentRead /\ Assembled
      BY <2>1, <2>2 DEF RdInv
    <3>2. have = NumChunks /\ \A k \in Chunks : buf.is[k] = flash[target][k]
      BY <2>1, <3>1 DEF Assembled, Chunks
    <3>3. buf.is = flash[target]
      BY <3>2 DEF TypeOK
    <3> QED
      BY <2>1, <2>2, <3>1, <3>2, <3>3 DEF SentRead, Assembled, Taken, Size, Whole
  <2> QED
    BY <2>2 DEF RdInv
<1>10. CASE Asks
  <2> DEFINE q == requests[target]
             r == Read(have)
  <2>1. /\ UNCHANGED <<flash, replies, target, op, buf, ack, step, have, total, job>> /\ ~Live'
        /\ phase' = "wait"
        /\ GoingRead' => GoingRead /\ step = "read"
    <3>1. past'.foreign = past.foreign /\ past'.moved = past.moved /\ past'.leftover = past.leftover
      BY <1>10 DEF Asks, TypeOK
    <3> QED
      BY <1>10, <3>1 DEF Asks, GoingRead, Live, ThreadInv
  <2>2. ASSUME GoingRead'
        PROVE  SentRead' /\ Assembled'
    <3>1. SentRead /\ Assembled /\ step = "read"
      BY <2>1, <2>2 DEF RdInv
    <3>2. requests' = requests \/ requests' = [requests EXCEPT ![target] = Append(@, r)]
      BY <1>10, <3>1 DEF Asks, Send, Attempt
    <3>3. r \in Requests /\ r.cmd = "read"
      <4>1. have \in Chunks
        BY <3>1 DEF TypeOK, Chunks
      <4>2. r \in Requests
        BY <4>1, RequestTypes
      <4> QED
        BY <4>2 DEF Read, Request
    <3>4. q \in Seq(Requests)
      BY DEF TypeOK
    <3> HIDE DEF r
    <3>5. /\ \A n \in Nodes \ {target} : requests'[n] = requests[n]
          /\ requests'[target] = q \/ requests'[target] = Append(q, r)
      BY <3>2, <3>3, RequestAdds
    <3>6. \A cmd \in {"erase", "write", "running"} : Has(requests'[target], cmd) => Has(q, cmd)
      <4> HIDE DEF q
      <4>1. \A cmd : Has(Append(q, r), cmd) <=> Has(q, cmd) \/ r.cmd = cmd
        BY <3>3, <3>4, AppendOf
      <4> QED
        BY <3>3, <3>5, <4>1
    <3>7. Before(requests'[target], "running", "read")
      <4>1. Before(q, "running", "read")
        BY <3>1 DEF SentRead
      <4> HIDE DEF q
      <4>2. Before(Append(q, r), "running", "read")
        BY <3>3, <3>4, <4>1, AppendOf
      <4> QED
        BY <3>5, <4>1, <4>2
    <3>8. SentRead'
      BY <2>1, <3>1, <3>5, <3>6, <3>7 DEF SentRead, Taken
    <3>9. Assembled'
      BY <2>1, <3>1 DEF Assembled, Size, Whole
    <3> QED
      BY <3>8, <3>9
  <2> QED
    BY <2>2 DEF RdInv
<1>11. CASE Receive
  <2> DEFINE r == Head(replies)
  <2>1. /\ replies \in Seq(Replies) /\ replies # <<>> /\ replies' = Tail(replies)
        /\ UNCHANGED <<flash, requests, target, op, busy, step, phase, have, total, result, job>>
    BY <1>11 DEF Receive, worker, TypeOK
  <2>2. /\ Elements(replies) = Elements(replies') \cup {r} /\ r \in Replies
        /\ \A cmd : Has(replies, cmd) <=> Has(replies', cmd) \/ r.cmd = cmd
        /\ Before(replies, "running", "read") =>
               Before(replies', "running", "read") /\ (r.cmd = "read" => ~Has(replies', "running"))
    BY <2>1, TailOf
  <2>3. /\ past'.foreign = past.foreign /\ past'.moved = past.moved
        /\ past'.leftover = past.leftover
    BY <1>11 DEF Receive, TypeOK
  <2>4. UNCHANGED GoingRead
    BY <2>1, <2>3 DEF GoingRead
  <2>5. ASSUME GoingRead
        PROVE  SentRead' /\ Assembled'
    <3>1. SentRead /\ Assembled
      BY <2>5 DEF RdInv
    <3>2. /\ ack'.cmd = r.cmd /\ (r.cmd \in {"write", "read"} => ack'.off = r.off)
          /\ ack'.len = (IF Stores(r) THEN 1 ELSE 0) /\ (r.cmd = "read" => ack'.total = r.total)
          /\ buf' = IF ~Stores(r) THEN buf ELSE [buf EXCEPT !.is[r.off] = r.data]
      BY <1>11, <2>5 DEF Receive, GoingRead
    <3> HIDE DEF r
    <3>3. r.cmd \in {"running", "read"} /\ r.off \in Chunks
      BY <2>2, <3>1 DEF SentRead, Replies, Cmds
    <3>4. r.cmd = "read" => r.data = flash[target][r.off] /\ r.total = Size
      BY <2>2, <3>1 DEF Assembled
    <3>5. \A k \in Chunks : \/ buf'.is[k] = buf.is[k]
                            \/ buf'.is[k] = flash[target][k]
      BY <3>2, <3>3, <3>4 DEF TypeOK, Stores
    <3>6. SentRead'
      BY <2>1, <2>2, <3>1, <3>2 DEF SentRead, Taken, Live
    <3>7. r.cmd = "read" /\ step = "read" =>
              buf'.is[r.off] = flash[target][r.off] /\ ack'.len = 1 /\ ack'.total = Size
      BY <2>5, <3>2, <3>3, <3>4 DEF TypeOK, Stores, ThreadInv, GoingRead
    <3>8. phase \in {"wait", "look", "measure"} => step = "read"
      BY <2>5 DEF ThreadInv, GoingRead
    <3>9. Live' /\ ack'.cmd = "read" =>
              buf'.is[ack'.off] = flash[target][ack'.off] /\ ack'.total = Size /\ ack'.len = 1
      BY <2>1, <3>2, <3>7, <3>8 DEF Live
    <3>10. phase = "measure" => r.cmd = "read"
      BY <2>2, <3>1, <3>3 DEF SentRead, Taken
    <3>11. phase = "measure" => /\ ack'.cmd = "read" /\ buf'.is[have] = flash[target][have]
                                /\ ack'.total = Size /\ ack'.len = 1
      <4>1. phase = "measure" => have \in Chunks
        BY <3>8 DEF TypeOK, Chunks
      <4> QED
        BY <3>1, <3>2, <3>5, <3>7, <3>8, <3>10, <4>1 DEF Assembled
    <3>12. UNCHANGED Size
      BY <2>1 DEF Size, Whole
    <3>13. Assembled'
      <4>1. \A x \in Elements(replies') :
                x.cmd = "read" => x.data = flash'[target'][x.off] /\ x.total = Size'
        BY <2>1, <2>2, <3>1, <3>12 DEF Assembled
      <4>2. step \in {"read", "done"} => \A k \in Chunks : k < have => buf'.is[k] = flash[target][k]
        BY <3>1, <3>5 DEF Assembled
      <4> QED
        BY <2>1, <3>1, <3>9, <3>11, <3>12, <4>1, <4>2 DEF Assembled
    <3> QED
      BY <3>6, <3>13
  <2> QED
    BY <2>4, <2>5 DEF RdInv
<1>12. CASE StartRead
  <2>1. Start("read", Blank, FALSE)
    BY <1>12 DEF StartRead
  <2>2. /\ UNCHANGED <<flash, requests, replies, target, ack, ackSem, step, phase, have, total>>
        /\ step = "idle" /\ phase = "ask"
    BY <2>1 DEF Start, air, regs, worker, ThreadInv
  <2>3. past'.leftover <=> Leftover
    BY <2>1 DEF Start, TypeOK
  <2>4. ASSUME GoingRead'
        PROVE  SentRead' /\ Assembled'
    <3>1. ~Leftover
      BY <2>3, <2>4 DEF GoingRead
    <3>2. /\ \A n \in Nodes \ {target} : requests[n] = <<>>
          /\ \A i \in 1 .. Len(requests[target]) : requests[target][i].cmd = "running"
          /\ \A i \in 1 .. Len(replies) : replies[i].cmd = "running"
      BY <3>1 DEF Leftover
    <3>3. /\ \A r \in Elements(replies) : r.cmd = "running"
          /\ \A cmd \in {"erase", "write", "read"} :
                 ~Has(requests[target], cmd) /\ ~Has(replies, cmd)
          /\ Before(requests[target], "running", "read") /\ Before(replies, "running", "read")
      BY <3>2 DEF Elements, Has, Before
    <3>4. ~Taken' /\ ~Live'
      BY <2>2 DEF Taken, Live
    <3> QED
      BY <2>2, <3>2, <3>3, <3>4 DEF SentRead, Assembled
  <2> QED
    BY <2>4 DEF RdInv
<1>13. CASE StartUpload \/ SetRunning \/ SetTarget \/ PhoneSends
  <2>1. StartUpload => op'.kind = "upload"
    BY DEF StartUpload, Start
  <2>2. SetRunning => ~busy'
    BY DEF SetRunning
  <2>3. SetTarget => past'.moved
    BY DEF SetTarget, TypeOK
  <2>4. PhoneSends => past'.foreign
    BY DEF PhoneSends, TypeOK
  <2> QED
    BY <1>13, <2>1, <2>2, <2>3, <2>4 DEF RdInv, GoingRead
<1>14. ASSUME NEW n \in Nodes, Serve(n)
       PROVE  RdInv'
  <2> DEFINE q == requests[target]
             r == Head(q)
             f == flash[target]
             y(ok) == Reply(f, r, ok)
  <2>1. /\ UNCHANGED <<target, op, past, buf, ack, ackSem, busy, step, phase, have, total, result, job>>
        /\ requests[n] # <<>> /\ requests' = [requests EXCEPT ![n] = Tail(@)]
    BY <1>14 DEF Serve, regs, worker
  <2>2. UNCHANGED GoingRead /\ UNCHANGED Live /\ UNCHANGED Taken
    BY <2>1 DEF GoingRead, Live, Taken
  <2>3. ASSUME GoingRead
        PROVE  SentRead' /\ Assembled'
    <3>1. SentRead /\ Assembled
      BY <2>3 DEF RdInv
    <3>2. n = target
      BY <2>1, <3>1 DEF SentRead
    <3>3. q \in Seq(Requests) /\ q # <<>> /\ replies \in Seq(Replies) /\ f \in [Chunks -> Content]
      BY <2>1, <3>2 DEF TypeOK
    <3>4. /\ requests'[target] = Tail(q)
          /\ \A m \in Nodes \ {target} : requests'[m] = requests[m]
      BY <2>1, <3>2 DEF TypeOK
    <3>5. /\ r \in Requests
          /\ \A cmd : Has(q, cmd) <=> Has(Tail(q), cmd) \/ r.cmd = cmd
          /\ Before(Tail(q), "running", "read")
          /\ r.cmd = "read" => ~Has(Tail(q), "running")
      <4>1. Before(q, "running", "read")
        BY <3>1 DEF SentRead
      <4> HIDE DEF q
      <4> QED
        BY <3>3, <4>1, TailOf
    <3>6. r.cmd \in {"running", "read"}
      <4> HIDE DEF r
      <4> QED
        BY <3>1, <3>5 DEF SentRead, Requests, Cmds
    <3>7. Flashed(f, r) = f
      BY <3>6 DEF Flashed
    <3>8. /\ flash'[target] = f
          /\ \/ replies' = replies
             \/ replies' = Append(replies, y(TRUE))
             \/ replies' = Append(replies, y(FALSE))
      BY <1>14, <3>2, <3>7 DEF Serve, TypeOK
    <3>9. \A ok \in BOOLEAN : /\ y(ok) \in Replies /\ y(ok).cmd = r.cmd
                              /\ r.cmd = "read" => y(ok).data = f[y(ok).off] /\ y(ok).total = Size
      <4>1. \A ok \in BOOLEAN : y(ok) \in Replies
        BY <3>3, <3>5, ServeTypes, Zenon
      <4> QED
        BY <4>1 DEF Reply, Size
    <3> HIDE DEF y, r
    <3>10. \/ replies' = replies
           \/ \E x \in Replies : /\ replies' = Append(replies, x) /\ x.cmd = r.cmd
                                 /\ r.cmd = "read" => (x.data = f[x.off] /\ x.total = Size)
      BY <3>8, <3>9, Zenon
    <3>11. /\ \A x \in Elements(replies') :
                  x \in Elements(replies) \/ (x.cmd = "read" => x.data = f[x.off] /\ x.total = Size)
           /\ \A cmd : Has(replies', cmd) => Has(replies, cmd) \/ r.cmd = cmd
           /\ Before(replies', "running", "read")
      <4>1. Before(replies, "running", "read") /\ (r.cmd = "running" => ~Has(replies, "read"))
        BY <3>1, <3>5 DEF SentRead
      <4>2. CASE replies' = replies
        BY <4>1, <4>2
      <4>3. ASSUME NEW x \in Replies, replies' = Append(replies, x), x.cmd = r.cmd,
                   r.cmd = "read" => (x.data = f[x.off] /\ x.total = Size)
            PROVE  /\ \A z \in Elements(replies') :
                          z \in Elements(replies) \/ (z.cmd = "read" => z.data = f[z.off] /\ z.total = Size)
                   /\ \A cmd : Has(replies', cmd) => Has(replies, cmd) \/ r.cmd = cmd
                   /\ Before(replies', "running", "read")
        <5>1. /\ Elements(Append(replies, x)) = Elements(replies) \cup {x}
              /\ \A cmd : Has(Append(replies, x), cmd) <=> Has(replies, cmd) \/ x.cmd = cmd
          BY <3>3, AppendOf
        <5>2. Before(Append(replies, x), "running", "read")
          BY <3>3, <4>1, <4>3, AppendOf
        <5> HIDE DEF f
        <5> QED
          BY <4>3, <5>1, <5>2
      <4>4. CASE replies' # replies
        <5>1. PICK x \in Replies : /\ replies' = Append(replies, x) /\ x.cmd = r.cmd
                                   /\ r.cmd = "read" => (x.data = f[x.off] /\ x.total = Size)
          BY <3>10, <4>4
        <5> HIDE DEF f
        <5> QED
          BY <4>3, <5>1
      <4> QED
        BY <4>2, <4>4
    <3>12. SentRead'
      BY <2>1, <2>2, <3>1, <3>4, <3>5, <3>11 DEF SentRead
    <3>13. UNCHANGED Size
      BY <2>1, <3>8 DEF Size
    <3>14. Assembled'
      BY <2>1, <2>2, <3>1, <3>8, <3>11, <3>13 DEF Assembled
    <3> QED
      BY <3>12, <3>14
  <2> QED
    BY <2>2, <2>3 DEF RdInv
<1> QED
  BY <1>2, <1>3, <1>4, <1>5, <1>7, <1>8, <1>9, <1>10, <1>11, <1>12, <1>13, <1>14, <1>6, Zenon
     DEF Next, WorkerStep, Http, World
-----------------------------------------------------------------------------
(* Theorems *)

Inv == TypeOK /\ ThreadInv /\ ReadInv /\ UpInv /\ RdInv

LEMMA InvHolds == Spec => []Inv
<1>1. Init => Inv
  <2> SUFFICES ASSUME Init
               PROVE  Inv
    OBVIOUS
  <2> USE LispCodeAssumption DEF Init
  <2>1. TypeOK
    <3>1. Empty \in [Chunks -> Content] /\ 0 \in Chunks
      BY DEF Empty, Content, Chunks
    <3>2. <<>> \in Seq(Requests) /\ <<>> \in Seq(Replies)
      OBVIOUS
    <3>3. past \in [stray : BOOLEAN, moved : BOOLEAN, leftover : BOOLEAN,
                    foreign : BOOLEAN, rival : BOOLEAN, freed : BOOLEAN, doubled : BOOLEAN]
      BY DEF NoPast
    <3>6. flash \in [Nodes -> [Chunks -> Content]]
      BY DEF Content, Code
    <3>4. busy \in BOOLEAN /\ ackSem \in BOOLEAN
      OBVIOUS
    <3>5. ack \in [cmd : Cmds \cup {"none"}, ok : BOOLEAN, off : Chunks, len : 0 .. 1,
                   total : {0, NumChunks}]
      BY <3>1
    <3> QED
      BY <3>1, <3>2, <3>3, <3>4, <3>5, <3>6 DEF TypeOK, NoOp, NoPage
  <2>2. ThreadInv
    BY DEF ThreadInv, BestEffort
  <2>3. ReadInv
    <3>1. ~Reading /\ ~Live
      BY DEF Reading, Has, Live
    <3>2. OneRead
      BY <3>1 DEF OneRead, Single, Has, Reading
    <3> QED
      BY <3>2 DEF ReadInv, FreedOnlyByRepeatedRead, NoPast
  <2>4. UpInv /\ RdInv
    BY DEF UpInv, RdInv, GoingUp, GoingRead
  <2> QED
    BY <2>1, <2>2, <2>3, <2>4 DEF Inv
<1>2. Inv /\ [Next]_vars => Inv'
  BY TypeStep, ThreadStep, ReadStep, UpStep, RdStep DEF Inv
<1> QED
  BY <1>1, <1>2, PTL DEF Spec

\* Every variable keeps its type: the offsets stay within the script, the
\* retries within STEP_RETRIES.
THEOREM TypeCorrect == Spec => []TypeOK
BY InvHolds, PTL DEF Inv

\* What the worker reports as done is true of the controller: an upload stored
\* the whole script, a read shows what is stored, whatever was lost, slow,
\* refused or repeated in between (vesc_lisp_code.c:210-268), unless one of the
\* holes that DoneMeansStored names was met.
THEOREM ReportsAreTrue == Spec => []DoneMeansStored
<1>1. Inv => DoneMeansStored
  <2> SUFFICES ASSUME Inv
               PROVE  DoneMeansStored
    OBVIOUS
  <2>1. UploadStoresCode
    <3> SUFFICES ASSUME step = "free", op.kind = "upload", result = "ok",
                        ~past.stray, ~past.rival, ~past.moved, ~past.leftover
                 PROVE  \A k \in Chunks : flash[target][k] = op.code
      BY DEF UploadStoresCode
    <3>1. GoingUp
      BY DEF GoingUp, Inv, ThreadInv
    <3>2. WrittenUp
      BY <3>1 DEF Inv, UpInv
    <3>3. \A k \in Chunks : k < NumChunks
      BY LispCodeAssumption DEF Chunks
    <3> QED
      BY <3>2, <3>3 DEF WrittenUp
  <2>2. ReadShowsStored
    <3> SUFFICES ASSUME step = "free", op.kind = "read", result = "ok",
                        ~past.foreign, ~past.moved, ~past.leftover
                 PROVE  job.page = [len |-> NumChunks, is |-> flash[target]]
      BY DEF ReadShowsStored
    <3>1. GoingRead
      BY DEF GoingRead, Inv, ThreadInv
    <3>2. Assembled
      BY <3>1 DEF Inv, RdInv
    <3> QED
      BY <3>2 DEF Assembled
  <2> QED
    BY <2>1, <2>2 DEF DoneMeansStored
<1> QED
  BY <1>1, InvHolds, PTL

\* The receive task writes into freed memory only when the answer it takes is
\* the second one to a read that was repeated, to one of the phone's, or to
\* one of an earlier transfer that was still under way
\* (vesc_lisp_code.c:234, 434).
THEOREM FreedIsNotWritten == Spec => []FreedOnlyByRepeatedRead
BY InvHolds, PTL DEF Inv, ReadInv
=============================================================================
