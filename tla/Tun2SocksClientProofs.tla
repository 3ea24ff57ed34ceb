------------------------ MODULE Tun2SocksClientProofs ------------------------
(***************************************************************************)
(* Proofs about one client of tun2socks, for any sizes of its buffers and  *)
(* windows and any number of bytes, in this order:                         *)
(*                                                                         *)
(*   the receive window of lwIP covers the buffer of the client;           *)
(*   each direction is a pipe that keeps the order;                        *)
(*   no step uses what is freed;                                           *)
(*   what the handlers assert holds where they assert it;                  *)
(*   a connection that is over has delivered what it had to.               *)
(***************************************************************************)
EXTENDS Tun2SocksClient, TLAPS

(* The parts of the structures that the window depends on.                 *)
ClientFields == {"life", "clientClosed", "socksClosed", "socksUp", "buf", "rest", "pending",
                 "callbacks"}
ConnFields == {"state", "busy", "sendWait", "done", "recvWait", "data", "hup"}

(* Nobody is called back for a client that was closed.                     *)
ClientOK(c) ==
  /\ DOMAIN c = ClientFields /\ c.buf \in Seq(Int)
  /\ c.clientClosed => c.callbacks = {}
PcbOK(p) == DOMAIN p = {"state", "rcvWnd", "queue"} /\ p.rcvWnd \in Int

(* What is being written, or was just written, is in the buffer.           *)
ConnOK(k, buf) ==
  DOMAIN k = ConnFields /\ {k.busy, k.done} \subseteq Nat /\ k.busy <= Len(buf) /\ k.done <= Len(buf)

(* The mark of SYNC_COMMIT is the last job.                                *)
JobsOK(j) == j \in Seq(JobNames) /\ \A i \in 1..(Len(j) - 1) : j[i] # "mark"
HasMark(j) == \E i \in 1..Len(j) : j[i] = "mark"

InputOK ==
  /\ DOMAIN input = {"stage", "acked", "data", "fin"} /\ input.data \in Nat
  /\ input.fin \in BOOLEAN
  /\ input.stage \in {"idle", "accept"} => ~input.fin
  /\ DOMAIN app = {"sent", "fin", "got"} /\ app.sent \in Nat
  /\ HasMark(jobs) => input.stage \in {"accept", "sentSync", "recvSync"}

(* Before a connection comes nothing can happen but that.                  *)
Fresh ==
  client.life = "none" =>
    /\ ~client.clientClosed /\ client.buf = <<>>
    /\ pcb.state = "none" /\ pcb.rcvWnd = Wnd
    /\ conn.state = "none" /\ jobs = <<>> /\ input.stage = "idle"

Shapes == ClientOK(client) /\ PcbOK(pcb) /\ ConnOK(conn, client.buf) /\ JobsOK(jobs) /\ InputOK

IInv == Shapes /\ Fresh /\ (client.clientClosed => ~PcbLive) /\ WindowCoversBuffer

-----------------------------------------------------------------------------
(* What is left of a buffer, and what is put into it.                      *)

LEMMA DropInts ==
  ASSUME NEW s \in Seq(Int), NEW n \in Nat, n <= Len(s)
  PROVE  Drop(s, n) \in Seq(Int) /\ Len(Drop(s, n)) = Len(s) - n
BY DEF Drop

LEMMA ConcatInts ==
  ASSUME NEW s \in Seq(Int), NEW t \in Seq(Int)
  PROVE  s \o t \in Seq(Int) /\ Len(s \o t) = Len(s) + Len(t)
OBVIOUS

LEMMA BytesInts ==
  ASSUME NEW from \in Nat, NEW n \in Nat
  PROVE  Bytes(from - n, from) \in Seq(Int) /\ Len(Bytes(from - n, from)) = n
<1> DEFINE b == [i \in 1..n |-> from - n + i]
<1>1. Bytes(from - n, from) = b
  BY DEF Bytes
<1>2. b \in Seq(Int) /\ Len(b) = n
  OBVIOUS
<1>3. QED
  BY <1>1, <1>2

-----------------------------------------------------------------------------
(* The stack of jobs.                                                      *)

LEMMA NoJobs == JobsOK(<<>>) /\ ~HasMark(<<>>)
BY DEF JobsOK, HasMark

LEMMA PopJob ==
  ASSUME NEW j, JobsOK(j), j # <<>>
  PROVE  JobsOK(Tail(j)) /\ (HasMark(Tail(j)) => HasMark(j))
<1>1. j \in Seq(JobNames) /\ Len(j) \in Nat /\ Len(j) # 0
  BY DEF JobsOK
<1>2. /\ Tail(j) \in Seq(JobNames) /\ Len(Tail(j)) = Len(j) - 1
      /\ \A i \in 1..(Len(j) - 1) : Tail(j)[i] = j[i + 1]
  BY <1>1
<1>3. \A i \in 1..(Len(Tail(j)) - 1) : Tail(j)[i] # "mark"
  BY <1>1, <1>2 DEF JobsOK
<1>4. HasMark(Tail(j)) => HasMark(j)
  BY <1>1, <1>2 DEF HasMark
<1>5. QED
  BY <1>2, <1>3, <1>4 DEF JobsOK

LEMMA PushJob ==
  ASSUME NEW j, JobsOK(j), NEW job \in JobNames, job # "mark"
  PROVE  JobsOK(<<job>> \o j) /\ (HasMark(<<job>> \o j) => HasMark(j))
<1> DEFINE k == <<job>> \o j
<1>1. j \in Seq(JobNames) /\ Len(j) \in Nat
  BY DEF JobsOK
<1>2. /\ k \in Seq(JobNames) /\ Len(k) = Len(j) + 1 /\ k[1] = job
      /\ \A i \in 2..(Len(j) + 1) : k[i] = j[i - 1]
  BY <1>1
<1> HIDE DEF k
<1>3. \A i \in 1..(Len(k) - 1) : k[i] # "mark"
  BY <1>1, <1>2 DEF JobsOK
<1>4. HasMark(k) => HasMark(j)
  BY <1>1, <1>2 DEF HasMark
<1>5. QED
  BY <1>2, <1>3, <1>4 DEF JobsOK, k

LEMMA PushIf ==
  ASSUME NEW j, JobsOK(j), NEW job \in JobNames, job # "mark", NEW condition \in BOOLEAN
  PROVE  /\ JobsOK(If(condition, job) \o j)
         /\ HasMark(If(condition, job) \o j) => HasMark(j)
<1>1. CASE condition
  BY <1>1, PushJob DEF If
<1>2. CASE ~condition
  <2>1. <<>> \o j = j
    BY DEF JobsOK
  <2>2. QED
    BY <1>2, <2>1 DEF If
<1>3. QED
  BY <1>1, <1>2

LEMMA MarkOnly == JobsOK(<<"mark">>)
BY DEF JobsOK, JobNames

(* A job on top of a mark.                                                 *)
LEMMA JobAndMark ==
  ASSUME NEW job \in JobNames, job # "mark"
  PROVE  JobsOK(<<job, "mark">>)
BY DEF JobsOK, JobNames

-----------------------------------------------------------------------------
(* Most steps take the structures c and p as a handler has left them and   *)
(* keep the buffer of c, and the window of p as long as the PCB lives.     *)
LiveState(p) == p.state \in {"established", "closeWait"}
Kept(c, p) ==
  /\ ClientOK(client') /\ client'.buf = c.buf /\ client'.life # "none"
  /\ PcbOK(pcb') /\ (LiveState(pcb') => LiveState(p) /\ pcb'.rcvWnd = p.rcvWnd)
  /\ client'.clientClosed => ~LiveState(pcb')
  /\ ConnOK(conn', c.buf)
  /\ JobsOK(jobs') /\ (HasMark(jobs') => HasMark(jobs))

(* Such structures.                                                        *)
Given(c, p) ==
  /\ ClientOK(c) /\ c.life # "none" /\ PcbOK(p)
  /\ c.clientClosed => ~LiveState(p)

LEMMA DeallocClient ==
  ASSUME NEW c, ClientOK(c), Dealloc(c)
  PROVE  ClientOK(client') /\ client'.buf = c.buf /\ client'.life = "gone"
BY DEF Dealloc, ClientOK, ClientFields

LEMMA FreeConnJobs ==
  ASSUME JobsOK(jobs), FreeConn, NEW buf \in Seq(Int)
  PROVE  ConnOK(conn', buf) /\ JobsOK(jobs') /\ (HasMark(jobs') => HasMark(jobs))
<1>1. ConnOK(conn', buf)
  <2>1. Len(buf) \in Nat
    OBVIOUS
  <2>2. conn' = [NoConn EXCEPT !.state = "freed"]
    BY DEF FreeConn
  <2>3. DOMAIN conn' = ConnFields /\ conn'.busy = 0 /\ conn'.done = 0
    BY <2>2 DEF NoConn, ConnFields
  <2>4. QED
    BY <2>1, <2>3 DEF ConnOK
<1>2. DOMAIN jobs = 1..Len(jobs)
  BY DEF JobsOK
<1>3. (\E i \in DOMAIN jobs : jobs[i] = "mark") <=> HasMark(jobs)
  BY <1>2 DEF HasMark
<1>4. jobs' = If(HasMark(jobs), "mark")
  <2>1. CASE HasMark(jobs)
    BY <1>3, <2>1 DEF FreeConn, If
  <2>2. CASE ~HasMark(jobs)
    BY <1>3, <2>2 DEF FreeConn, If
  <2>3. QED
    BY <2>1, <2>2
<1>5. CASE HasMark(jobs)
  BY <1>1, <1>4, <1>5, MarkOnly DEF If
<1>6. CASE ~HasMark(jobs)
  BY <1>1, <1>4, <1>6, NoJobs DEF If
<1>7. QED
  BY <1>5, <1>6

LEMMA ClosePcbState ==
  ASSUME NEW p, PcbOK(p), ClosePcb(p)
  PROVE  PcbOK(pcb') /\ ~LiveState(pcb')
BY DEF ClosePcb, PcbOK, LiveState

LEMMA HandleFreedClientKept ==
  ASSUME NEW c, ClientOK(c), c.life # "none", NEW p, PcbOK(pcb'), ~LiveState(pcb'),
         ConnOK(conn, c.buf), JobsOK(jobs),
         NEW base, JobsOK(base), HasMark(base) => HasMark(jobs), HandleFreedClient(c, base)
  PROVE  Kept(c, p)
<1>1. CASE Dealloc(c) /\ UNCHANGED conn /\ jobs' = base
  BY <1>1, DeallocClient DEF Kept
<1>2. CASE /\ client' = [c EXCEPT !.clientClosed = TRUE, !.callbacks = {}]
           /\ UNCHANGED conn /\ jobs' = base
  <2>1. ClientOK(client') /\ client'.buf = c.buf /\ client'.life = c.life
    BY <1>2 DEF ClientOK, ClientFields
  <2>2. QED
    BY <1>2, <2>1 DEF Kept
<1>3. CASE Dealloc(c) /\ FreeConn
  <2>1. c.buf \in Seq(Int)
    BY DEF ClientOK
  <2>2. QED
    BY <1>3, <2>1, DeallocClient, FreeConnJobs DEF Kept
<1>4. QED
  BY <1>1, <1>2, <1>3 DEF HandleFreedClient

LEMMA FreeClientKept ==
  ASSUME NEW c, ClientOK(c), c.life # "none", NEW p, PcbOK(p),
         ConnOK(conn, c.buf), JobsOK(jobs),
         NEW base, JobsOK(base), HasMark(base) => HasMark(jobs), FreeClient(c, p, base)
  PROVE  Kept(c, p)
BY ClosePcbState, HandleFreedClientKept DEF FreeClient

LEMMA AbortClientKept ==
  ASSUME NEW c, ClientOK(c), c.life # "none", NEW p, PcbOK(p),
         ConnOK(conn, c.buf), JobsOK(jobs),
         NEW base, JobsOK(base), HasMark(base) => HasMark(jobs), AbortClient(c, p, base)
  PROVE  Kept(c, p)
<1>1. PcbOK(pcb') /\ ~LiveState(pcb')
  BY DEF AbortClient, PcbOK, LiveState
<1>2. QED
  BY <1>1, HandleFreedClientKept DEF AbortClient

LEMMA FreeSocksKept ==
  ASSUME NEW c, NEW p, Given(c, p), JobsOK(jobs), FreeSocks(c, p),
         c.clientClosed => p.state = pcb.state /\ PcbOK(pcb)
  PROVE  Kept(c, p)
<1>1. /\ ConnOK(conn', c.buf) /\ JobsOK(jobs') /\ (HasMark(jobs') => HasMark(jobs))
  BY FreeConnJobs DEF FreeSocks, Given, ClientOK
<1>2. CASE c.clientClosed /\ Dealloc(c) /\ UNCHANGED <<pcb, short>>
  BY <1>1, <1>2, DeallocClient DEF Kept, Given, LiveState
<1>3. CASE /\ ~c.clientClosed /\ pcb' = p
           /\ client' = [c EXCEPT !.socksClosed = TRUE, !.callbacks = @ \ {"recv"}]
  <2>1. /\ ClientOK(client') /\ client'.buf = c.buf /\ client'.life = c.life
        /\ client'.clientClosed = c.clientClosed
    BY <1>3 DEF ClientOK, ClientFields, Given
  <2>2. QED
    BY <1>1, <1>3, <2>1 DEF Kept, Given
<1>4. CASE Dealloc(c) /\ ClosePcb(p)
  BY <1>1, <1>4, DeallocClient, ClosePcbState DEF Kept, Given
<1>5. QED
  BY <1>2, <1>3, <1>4 DEF FreeSocks

(* A step of this kind keeps the invariant.                                *)
LEMMA KeptIInv ==
  ASSUME IInv, client.life # "none", Kept(client, pcb), UNCHANGED <<input, app>>
  PROVE  IInv'
<1>1. PcbLive' => PcbLive /\ pcb'.rcvWnd = pcb.rcvWnd
  BY DEF Kept, LiveState, PcbLive
<1>2. InputOK'
  BY DEF Kept, IInv, Shapes, InputOK, HasMark
<1>3. Shapes'
  BY <1>2 DEF Shapes, Kept
<1>4. Fresh' /\ (client.clientClosed => ~PcbLive)'
  BY DEF Fresh, Kept, LiveState, PcbLive
<1>5. WindowCoversBuffer'
  BY <1>1 DEF Kept, IInv, WindowCoversBuffer, Unhandled
<1>6. QED
  BY <1>3, <1>4, <1>5 DEF IInv

(* What the invariant gives to the steps after a connection has come.      *)
LEMMA IInvGiven ==
  ASSUME IInv, client.life # "none"
  PROVE  Given(client, pcb) /\ ConnOK(conn, client.buf) /\ JobsOK(jobs)
BY DEF IInv, Shapes, Given, LiveState, PcbLive

-----------------------------------------------------------------------------
(* The actions.                                                            *)

LEMMA TopJob ==
  ASSUME IInv, NEW job, Top(job)
  PROVE  /\ client.life # "none" /\ Given(client, pcb) /\ ConnOK(conn, client.buf) /\ JobsOK(jobs)
         /\ JobsOK(Tail(jobs)) /\ (HasMark(Tail(jobs)) => HasMark(jobs))
<1>1. client.life # "none"
  BY DEF IInv, Fresh, Top
<1>2. QED
  BY <1>1, IInvGiven, PopJob DEF Top

LEMMA AcceptIInv == IInv /\ Accept => IInv'
<1> SUFFICES ASSUME IInv, Accept PROVE IInv'
  OBVIOUS
<1>1. /\ client.life = "none" /\ Idle /\ UNCHANGED app /\ ~client.clientClosed
      /\ client.buf = <<>> /\ pcb.rcvWnd = Wnd /\ ~input.fin
  BY DEF Accept, IInv, Fresh, Shapes, InputOK, Idle
<1>2. CASE AcceptFails
  <2>1. /\ ClientOK(client') /\ client'.life = "gone" /\ client'.buf = <<>>
        /\ client'.clientClosed = client.clientClosed
    BY <1>1, <1>2 DEF AcceptFails, IInv, Shapes, ClientOK, ClientFields
  <2>2. PcbOK(pcb') /\ ~PcbLive'
    BY <1>2 DEF AcceptFails, IInv, Shapes, PcbOK, PcbLive
  <2>3. UNCHANGED <<conn, jobs, input, app>>
    BY <1>1, <1>2 DEF AcceptFails
  <2>4. Shapes'
    BY <1>1, <2>1, <2>2, <2>3 DEF IInv, Shapes, InputOK, HasMark
  <2>5. QED
    BY <2>1, <2>2, <2>4 DEF IInv, Fresh, WindowCoversBuffer
<1>3. CASE AcceptClient
  <2>1. /\ ClientOK(client') /\ client'.life = "live" /\ client'.buf = <<>>
        /\ ~client'.clientClosed
    BY <1>1, <1>3 DEF AcceptClient, IInv, Shapes, ClientOK, ClientFields
  <2>2. PcbOK(pcb') /\ pcb'.rcvWnd = Wnd
    BY <1>1, <1>3 DEF AcceptClient, IInv, Shapes, PcbOK
  <2>3. ConnOK(conn', client'.buf)
    BY <1>1, <1>3, <2>1 DEF AcceptClient, IInv, Shapes, ConnOK, ConnFields
  <2>4. JobsOK(jobs')
    <3>1. PICK atOnce \in BOOLEAN : jobs' = If(atOnce, "handshake") \o <<"mark">>
      BY <1>3 DEF AcceptClient
    <3>2. QED
      BY <3>1, MarkOnly, PushIf DEF JobNames
  <2>5. InputOK' /\ input'.stage = "accept" /\ ~input'.fin
    BY <1>1, <1>3 DEF AcceptClient, IInv, Shapes, InputOK
  <2>6. WindowCoversBuffer'
    <3>1. Len(client'.buf) = 0 /\ Unhandled' = 0 /\ Wnd \in Nat
      BY <2>1, <2>5, SizesAssumption DEF Unhandled
    <3>2. QED
      BY <2>2, <3>1 DEF WindowCoversBuffer
  <2>7. QED
    BY <2>1, <2>2, <2>3, <2>4, <2>5, <2>6 DEF IInv, Shapes, Fresh
<1>4. QED
  BY <1>2, <1>3 DEF Accept

LEMMA HandshakeStepKept ==
  ASSUME client.life # "none", Given(client, pcb), ConnOK(conn, client.buf), JobsOK(jobs),
         NEW base, JobsOK(base), HasMark(base) => HasMark(jobs), HandshakeStep(base)
  PROVE  Kept(client, pcb)
<1>1. ASSUME NEW state,
             conn' = [conn EXCEPT !.state = state], jobs' = <<"handshake">> \o base,
             UNCHANGED <<client, pcb>>
      PROVE  Kept(client, pcb)
  <2>1. ConnOK(conn', client.buf)
    BY <1>1 DEF ConnOK, ConnFields
  <2>2. JobsOK(jobs') /\ (HasMark(jobs') => HasMark(base))
    BY <1>1, PushJob DEF JobNames
  <2>3. QED
    BY <1>1, <2>1, <2>2 DEF Kept, Given
<1>2. CASE SocksUp(base)
  <2>1. /\ ClientOK(client') /\ client'.buf = client.buf /\ client'.life = client.life
        /\ client'.clientClosed = client.clientClosed
    BY <1>2 DEF SocksUp, Given, ClientOK, ClientFields
  <2>2. ConnOK(conn', client.buf)
    <3>1. Len(client.buf) \in Nat
      BY DEF Given, ClientOK
    <3>2. QED
      BY <1>2, <3>1 DEF SocksUp, ConnOK, ConnFields
  <2>3. JobsOK(jobs') /\ (HasMark(jobs') => HasMark(base))
    <3> DEFINE j == If(client.buf # <<>>, "send") \o base
    <3>1. JobsOK(j) /\ (HasMark(j) => HasMark(base))
      BY PushIf DEF JobNames
    <3>2. PICK open \in BOOLEAN : jobs' = If(open, "recv") \o j
      <4>1. jobs' = If(~client.clientClosed, "recv") \o j
        BY <1>2 DEF SocksUp
      <4>2. QED
        BY <4>1
    <3> HIDE DEF j
    <3>3. JobsOK(If(open, "recv") \o j) /\ (HasMark(If(open, "recv") \o j) => HasMark(j))
      BY <3>1, PushIf DEF JobNames
    <3>4. QED
      BY <3>1, <3>2, <3>3
  <2>4. QED
    BY <1>2, <2>1, <2>2, <2>3 DEF SocksUp, Kept, Given
<1>3. CASE HandshakeFails
  BY <1>3, FreeSocksKept DEF HandshakeFails, Given
<1>4. QED
  BY <1>1, <1>2, <1>3 DEF HandshakeStep

LEMMA HandshakeIInv == IInv /\ (HandshakeJob \/ HandshakeEvent) => IInv'
<1> SUFFICES ASSUME IInv, HandshakeJob \/ HandshakeEvent PROVE IInv'
  OBVIOUS
<1>1. CASE HandshakeJob
  <2>1. CASE HandshakeStep(Tail(jobs))
    BY <1>1, <2>1, TopJob, HandshakeStepKept, KeptIInv DEF HandshakeJob
  <2>2. CASE HandshakeWaits
    BY <1>1, <2>2, TopJob, KeptIInv DEF HandshakeJob, HandshakeWaits, Kept, Given
  <2>3. QED
    BY <1>1, <2>1, <2>2 DEF HandshakeJob
<1>2. CASE HandshakeEvent
  <2>1. client.life # "none"
    BY <1>2 DEF HandshakeEvent, IInv, Fresh, InHandshake, After
  <2>2. Kept(client, pcb)
    BY <1>2, <2>1, IInvGiven, NoJobs, HandshakeStepKept DEF HandshakeEvent
  <2>3. QED
    BY <1>2, <2>1, <2>2, KeptIInv DEF HandshakeEvent
<1>3. QED
  BY <1>1, <1>2

-----------------------------------------------------------------------------
(* Transfers of the socket.                                                *)

LEMMA ConnectionSendKept ==
  ASSUME client.life # "none", Given(client, pcb), NEW c, ConnOK(c, client.buf), JobsOK(jobs),
         NEW base, JobsOK(base), HasMark(base) => HasMark(jobs), ConnectionSend(c, base)
  PROVE  Kept(client, pcb)
<1>1. ASSUME NEW k \in 1..c.busy, conn' = [c EXCEPT !.busy = 0, !.done = k],
             jobs' = <<"sendDone">> \o base, UNCHANGED <<client, pcb>>
      PROVE  Kept(client, pcb)
  <2>1. ConnOK(conn', client.buf)
    <3>1. Len(client.buf) \in Nat
      BY DEF Given, ClientOK
    <3>2. QED
      BY <1>1, <3>1 DEF ConnOK, ConnFields
  <2>2. JobsOK(jobs') /\ (HasMark(jobs') => HasMark(base))
    BY <1>1, PushJob DEF JobNames
  <2>3. QED
    BY <1>1, <2>1, <2>2 DEF Kept, Given
<1>2. CASE FreeSocks(client, pcb)
  BY <1>2, FreeSocksKept DEF Given
<1>3. QED
  BY <1>1, <1>2 DEF ConnectionSend

LEMMA ConnectionRecvKept ==
  ASSUME client.life # "none", Given(client, pcb), NEW c, ConnOK(c, client.buf), JobsOK(jobs),
         NEW base, JobsOK(base), HasMark(base) => HasMark(jobs), ConnectionRecv(c, base)
  PROVE  Kept(client, pcb)
<1>1. ASSUME NEW data, conn' = [c EXCEPT !.data = data],
             jobs' = <<"recvDone">> \o base, UNCHANGED <<client, pcb>>
      PROVE  Kept(client, pcb)
  <2>1. ConnOK(conn', client.buf)
    BY <1>1 DEF ConnOK, ConnFields
  <2>2. JobsOK(jobs') /\ (HasMark(jobs') => HasMark(base))
    BY <1>1, PushJob DEF JobNames
  <2>3. QED
    BY <1>1, <2>1, <2>2 DEF Kept, Given
<1>2. CASE FreeSocks(client, pcb)
  BY <1>2, FreeSocksKept DEF Given
<1>3. QED
  BY <1>1, <1>2 DEF ConnectionRecv

LEMMA SendRecvIInv == IInv /\ (SendJob \/ RecvJob) => IInv'
<1> SUFFICES ASSUME IInv, SendJob \/ RecvJob PROVE IInv'
  OBVIOUS
<1>1. /\ client.life # "none" /\ Given(client, pcb) /\ ConnOK(conn, client.buf) /\ JobsOK(jobs)
      /\ JobsOK(Tail(jobs)) /\ (HasMark(Tail(jobs)) => HasMark(jobs))
      /\ UNCHANGED <<input, app>>
  BY TopJob DEF SendJob, RecvJob
<1>2. CASE ConnectionSend(conn, Tail(jobs))
  BY <1>1, <1>2, ConnectionSendKept, KeptIInv
<1>3. CASE ConnectionRecv(conn, Tail(jobs))
  BY <1>1, <1>3, ConnectionRecvKept, KeptIInv
<1>4. CASE /\ \/ conn' = [conn EXCEPT !.sendWait = TRUE]
              \/ conn' = [conn EXCEPT !.recvWait = TRUE]
           /\ jobs' = Tail(jobs) /\ UNCHANGED <<client, pcb>>
  <2>1. ConnOK(conn', client.buf)
    BY <1>1, <1>4 DEF ConnOK, ConnFields
  <2>2. QED
    BY <1>1, <1>4, <2>1, KeptIInv DEF Kept, Given
<1>5. QED
  BY <1>2, <1>3, <1>4 DEF SendJob, RecvJob

LEMMA FdEventIInv == IInv /\ FdEvent => IInv'
<1> SUFFICES ASSUME IInv, FdEvent PROVE IInv'
  OBVIOUS
<1>1. client.life # "none" /\ jobs = <<>> /\ UNCHANGED <<input, app>>
  BY DEF FdEvent, IInv, Fresh, Idle
<1>2. Given(client, pcb) /\ ConnOK(conn, client.buf) /\ JobsOK(jobs)
  BY <1>1, IInvGiven
<1>3. PICK write, read, hup \in BOOLEAN :
        /\ write => conn.sendWait
        /\ read => conn.recvWait /\ Readable
        /\ hup = server.reset
        /\ LET send == conn.sendWait /\ (write \/ hup)
               recv == conn.recvWait /\ (read \/ hup)
               c == [conn EXCEPT !.hup = hup, !.sendWait = @ /\ ~send, !.recvWait = @ /\ ~recv]
           IN \/ send /\ ConnectionSend(c, If(recv, "recv"))
              \/ recv /\ ~send /\ ConnectionRecv(c, <<>>)
              \/ /\ hup /\ ~send /\ ~recv
                 /\ conn' = c /\ UNCHANGED <<client, pcb, jobs, short, server>>
  BY Zenon DEF FdEvent
<1> DEFINE send == conn.sendWait /\ (write \/ hup)
           recv == conn.recvWait /\ (read \/ hup)
           c == [conn EXCEPT !.hup = hup, !.sendWait = @ /\ ~send, !.recvWait = @ /\ ~recv]
<1>4. ConnOK(c, client.buf)
  BY <1>2 DEF ConnOK, ConnFields
<1>5. \/ ConnectionSend(c, If(recv, "recv"))
      \/ ConnectionRecv(c, <<>>)
      \/ conn' = c /\ UNCHANGED <<client, pcb, jobs>>
  BY <1>3
<1> HIDE DEF c, send, recv
<1>6. CASE ConnectionSend(c, If(recv, "recv"))
  <2>1. JobsOK(If(recv, "recv")) /\ ~HasMark(If(recv, "recv"))
    <3>1. JobsOK(<<"recv">>) /\ ~HasMark(<<"recv">>)
      BY DEF JobsOK, HasMark, JobNames
    <3>2. QED
      BY <3>1, NoJobs DEF If
  <2>2. QED
    BY <1>1, <1>2, <1>4, <1>6, <2>1, ConnectionSendKept, KeptIInv
<1>7. CASE ConnectionRecv(c, <<>>)
  BY <1>1, <1>2, <1>4, <1>7, ConnectionRecvKept, KeptIInv
<1>8. CASE conn' = c /\ UNCHANGED <<client, pcb, jobs>>
  BY <1>1, <1>2, <1>4, <1>8, KeptIInv DEF Kept, Given
<1>9. QED
  BY <1>5, <1>6, <1>7, <1>8

(* A write is done: what leaves the buffer is given back to the window.    *)
LEMMA SendDoneIInv == IInv /\ SendDone => IInv'
<1> SUFFICES ASSUME IInv, SendDone PROVE IInv'
  OBVIOUS
<1> DEFINE c == [client EXCEPT !.buf = Unsent(client)]
           p == Confirm(c, pcb)
<1>1. /\ client.life # "none" /\ Given(client, pcb) /\ ConnOK(conn, client.buf) /\ JobsOK(jobs)
      /\ JobsOK(Tail(jobs)) /\ (HasMark(Tail(jobs)) => HasMark(jobs))
      /\ UNCHANGED <<input, app>>
  BY TopJob DEF SendDone
<1>2. /\ Len(client.buf) \in Nat /\ conn.done \in Nat
      /\ Unsent(client) \in Seq(Int) /\ Len(Unsent(client)) = Len(client.buf) - conn.done
  <2>1. client.buf \in Seq(Int) /\ Len(client.buf) \in Nat
    BY <1>1 DEF Given, ClientOK
  <2>2. conn.done \in Nat /\ conn.done <= Len(client.buf)
    BY <1>1 DEF ConnOK
  <2>3. QED
    BY <2>1, <2>2, DropInts DEF Unsent
<1>3. /\ ClientOK(c) /\ c.life = client.life /\ c.clientClosed = client.clientClosed
      /\ c.buf = Unsent(client)
  BY <1>1, <1>2 DEF Given, ClientOK, ClientFields
<1>4. /\ PcbOK(p) /\ p.state = pcb.state
      /\ ~client.clientClosed => p.rcvWnd = pcb.rcvWnd + conn.done
      /\ client.clientClosed => p = pcb
  BY <1>1, <1>2, <1>3 DEF Confirm, Given, PcbOK
<1>5. Given(c, p)
  BY <1>1, <1>3, <1>4 DEF Given, LiveState
<1>6. Kept(c, p)
  <2>1. CASE FreeSocks(c, p)
    BY <1>1, <1>4, <1>5, <2>1, FreeSocksKept DEF Given
  <2>2. CASE /\ client' = c /\ pcb' = p
             /\ conn' = [conn EXCEPT !.done = 0, !.busy = Len(c.buf)]
             /\ jobs' = If(c.buf # <<>>, "send") \o Tail(jobs)
    <3> HIDE DEF c, p
    <3>1. ConnOK(conn', c.buf)
      <4>1. Len(c.buf) \in Nat
        BY <1>5 DEF Given, ClientOK
      <4>2. QED
        BY <1>1, <2>2, <4>1 DEF ConnOK, ConnFields
    <3>2. JobsOK(jobs') /\ (HasMark(jobs') => HasMark(jobs))
      BY <1>1, <2>2, PushIf DEF JobNames
    <3>3. QED
      BY <1>5, <2>2, <3>1, <3>2 DEF Kept, Given
  <2>3. QED
    BY <2>1, <2>2 DEF SendDone
<1> HIDE DEF c, p
<1>7. WindowCoversBuffer'
  <2>1. SUFFICES ASSUME PcbLive' PROVE pcb'.rcvWnd + Len(client'.buf) + Unhandled' = Wnd
    BY DEF WindowCoversBuffer
  <2>2. PcbLive /\ pcb'.rcvWnd = p.rcvWnd /\ client'.buf = c.buf
    BY <1>4, <1>6, <2>1 DEF Kept, LiveState, PcbLive
  <2>3. ~client.clientClosed
    BY <2>2 DEF IInv
  <2>4. pcb.rcvWnd + Len(client.buf) + Unhandled = Wnd /\ Unhandled' = Unhandled
    BY <1>1, <2>2 DEF IInv, WindowCoversBuffer, Unhandled
  <2>5. pcb.rcvWnd \in Int /\ Unhandled \in Int
    BY <1>1 DEF Given, PcbOK, Unhandled, IInv, Shapes, InputOK
  <2>6. QED
    BY <1>2, <1>3, <1>4, <2>2, <2>3, <2>4, <2>5
<1>8. InputOK'
  BY <1>1, <1>6 DEF Kept, IInv, Shapes, InputOK, HasMark
<1>9. Shapes' /\ Fresh' /\ (client.clientClosed => ~PcbLive)'
  BY <1>6, <1>8 DEF Shapes, Fresh, Kept, LiveState, PcbLive
<1>10. QED
  BY <1>7, <1>9 DEF IInv

(* What client_socks_recv_send_out leaves of the two structures.           *)
Left(c, n) == [c EXCEPT !.rest = Drop(@, n), !.pending = @ + n]
Queued(c, p, n) == [p EXCEPT !.queue = @ \o SubSeq(c.rest, 1, n)]

LEMMA QueuedGiven ==
  ASSUME NEW c, NEW p, Given(c, p), NEW n
  PROVE  /\ Given(Left(c, n), Queued(c, p, n))
         /\ Left(c, n).buf = c.buf /\ Left(c, n).clientClosed = c.clientClosed
         /\ Queued(c, p, n).state = p.state /\ Queued(c, p, n).rcvWnd = p.rcvWnd
<1> DEFINE left == Left(c, n)
           queued == Queued(c, p, n)
<1>1. /\ ClientOK(left) /\ left.life = c.life /\ left.buf = c.buf
      /\ left.clientClosed = c.clientClosed
  BY DEF Left, Given, ClientOK, ClientFields
<1>2. PcbOK(queued) /\ queued.state = p.state /\ queued.rcvWnd = p.rcvWnd
  BY DEF Queued, Given, PcbOK
<1>3. QED
  BY <1>1, <1>2 DEF Given, LiveState

LEMMA RecvDoneIInv == IInv /\ RecvDone => IInv'
<1> SUFFICES ASSUME IInv, RecvDone PROVE IInv'
  OBVIOUS
<1> DEFINE c == [client EXCEPT !.rest = conn.data]
<1>1. /\ client.life # "none" /\ Given(client, pcb) /\ ConnOK(conn, client.buf) /\ JobsOK(jobs)
      /\ JobsOK(Tail(jobs)) /\ (HasMark(Tail(jobs)) => HasMark(jobs))
      /\ UNCHANGED <<input, app>>
  BY TopJob DEF RecvDone
<1>2. ConnOK([conn EXCEPT !.data = <<>>], client.buf)
  BY <1>1 DEF ConnOK, ConnFields
<1>3. CASE /\ conn' = [conn EXCEPT !.data = <<>>] /\ jobs' = Tail(jobs)
           /\ UNCHANGED <<client, pcb, short>>
  BY <1>1, <1>2, <1>3, KeptIInv DEF Kept, Given
<1>4. ASSUME NEW n,
             \/ /\ client' = Left(c, n) /\ pcb' = Queued(c, pcb, n)
                /\ conn' = [conn EXCEPT !.data = <<>>]
                /\ jobs' = If(Left(c, n).rest = <<>>, "recv") \o Tail(jobs)
             \/ AbortClient(Left(c, n), Queued(c, pcb, n), Tail(jobs))
      PROVE  IInv'
  <2> DEFINE left == Left(c, n)
             queued == Queued(c, pcb, n)
  <2>1. /\ Given(left, queued) /\ left.buf = client.buf
        /\ queued.state = pcb.state /\ queued.rcvWnd = pcb.rcvWnd
    <3>1. ClientOK(c) /\ c.life = client.life /\ c.buf = client.buf /\ c.clientClosed = client.clientClosed
      BY <1>1 DEF Given, ClientOK, ClientFields
    <3>2. Given(c, pcb)
      BY <1>1, <3>1 DEF Given
    <3> HIDE DEF c
    <3>3. QED
      BY <3>1, <3>2, QueuedGiven
  <2> HIDE DEF c, left, queued
  <2>2. Kept(left, queued)
    <3>1. CASE AbortClient(left, queued, Tail(jobs))
      BY <1>1, <2>1, <3>1, AbortClientKept DEF Given
    <3>2. CASE /\ client' = left /\ pcb' = queued
               /\ conn' = [conn EXCEPT !.data = <<>>]
               /\ jobs' = If(left.rest = <<>>, "recv") \o Tail(jobs)
      <4>1. JobsOK(jobs') /\ (HasMark(jobs') => HasMark(jobs))
        BY <1>1, <3>2, PushIf DEF JobNames
      <4>2. QED
        BY <1>2, <2>1, <3>2, <4>1 DEF Kept, Given
    <3>3. QED
      BY <1>4, <3>1, <3>2 DEF left, queued
  <2>3. Kept(client, pcb)
    BY <2>1, <2>2 DEF Kept, LiveState
  <2>4. QED
    BY <1>1, <2>3, KeptIInv
<1>5. QED
  <2>1. CASE client.clientClosed
    BY <1>3, <2>1 DEF RecvDone
  <2>2. CASE ~client.clientClosed
    BY <1>4, <2>2 DEF RecvDone, SendOut, Left, Queued
  <2>3. QED
    BY <2>1, <2>2

-----------------------------------------------------------------------------
(* tcp_input.                                                              *)

(* A segment: what it takes of the window is not yet handled.              *)
LEMMA TcpInputIInv ==
  ASSUME IInv, NEW acked, NEW data \in 0..(MaxUp - app.sent), NEW fin \in BOOLEAN,
         TcpInput(acked, data, fin)
  PROVE  IInv'
<1>1. /\ PcbLive /\ Idle /\ client.life # "none" /\ UNCHANGED <<client, conn, jobs>>
      /\ ~client.clientClosed /\ data \in Nat
  <2>1. PcbLive /\ Idle /\ UNCHANGED <<client, conn, jobs>>
    BY DEF TcpInput
  <2>2. client.life # "none" /\ ~client.clientClosed
    BY <2>1 DEF IInv, Fresh, PcbLive
  <2>3. app.sent \in Nat /\ MaxUp \in Nat
    BY BoundsAssumption DEF IInv, Shapes, InputOK
  <2>4. data \in Nat
    BY <2>3
  <2>5. QED
    BY <2>1, <2>2, <2>4
<1> DEFINE taken == data + (IF fin THEN 1 ELSE 0)
<1>2. /\ pcb'.rcvWnd = pcb.rcvWnd - taken /\ PcbOK(pcb')
      /\ taken \in Nat
  BY <1>1 DEF TcpInput, IInv, Shapes, PcbOK
<1>3. /\ input'.stage \in {"sent", "recv"} /\ input'.data = data /\ input'.fin = fin
      /\ DOMAIN input' = {"stage", "acked", "data", "fin"}
      /\ app'.sent = app.sent + data /\ DOMAIN app' = {"sent", "fin", "got"}
  BY DEF TcpInput
<1>4. InputOK'
  BY <1>1, <1>3, NoJobs DEF InputOK, IInv, Shapes, Idle, HasMark
<1>5. WindowCoversBuffer'
  <2>1. Unhandled = 0 /\ Unhandled' = taken
    BY <1>1, <1>3 DEF Unhandled, IInv, Shapes, InputOK, Idle
  <2>2. pcb.rcvWnd \in Int /\ Len(client.buf) \in Nat
    BY DEF IInv, Shapes, PcbOK, ClientOK
  <2>3. pcb.rcvWnd + Len(client.buf) = Wnd
    BY <1>1, <2>1, <2>2 DEF IInv, WindowCoversBuffer
  <2>4. QED
    BY <1>1, <1>2, <2>1, <2>2, <2>3 DEF WindowCoversBuffer
<1>6. QED
  BY <1>1, <1>2, <1>4, <1>5 DEF IInv, Shapes, Fresh

LEMMA SegmentIInv == IInv /\ AppSegment => IInv'
BY TcpInputIInv DEF AppSegment

(* A callback of tcp_input that keeps the buffer and the window.  Where it *)
(* has pushed a mark, tcp_input waits for the jobs above it.               *)
Called ==
  /\ ClientOK(client') /\ client'.buf = client.buf /\ client'.life # "none"
  /\ PcbOK(pcb') /\ (PcbLive' => PcbLive /\ pcb'.rcvWnd = pcb.rcvWnd)
  /\ client'.clientClosed => ~PcbLive'
  /\ ConnOK(conn', client.buf) /\ JobsOK(jobs')
  /\ HasMark(jobs') => jobs' # <<>> /\ ~client'.clientClosed

LEMMA KeptCalled ==
  ASSUME jobs = <<>>, NEW c, NEW p, Kept(c, p), c.buf = client.buf,
         p.state = pcb.state, p.rcvWnd = pcb.rcvWnd
  PROVE  Called
BY NoJobs DEF Kept, Called, LiveState, PcbLive

LEMMA TcpSentCalled ==
  ASSUME IInv, client.life # "none", input.stage = "sent", jobs = <<>>, TcpSent
  PROVE  Called
<1> DEFINE c == [client EXCEPT !.pending = @ - input.acked]
<1>1. Given(client, pcb) /\ ConnOK(conn, client.buf) /\ JobsOK(jobs) /\ ~HasMark(jobs)
  BY IInvGiven, NoJobs
<1>2. /\ Given(c, pcb) /\ c.buf = client.buf /\ c.life = client.life
      /\ c.clientClosed = client.clientClosed
  <2>1. /\ ClientOK(c) /\ c.buf = client.buf /\ c.life = client.life
        /\ c.clientClosed = client.clientClosed
    BY <1>1 DEF Given, ClientOK, ClientFields
  <2>2. QED
    BY <1>1, <2>1 DEF Given
<1>3. CASE UNCHANGED <<client, pcb, conn, jobs, short>>
  BY <1>1, <1>3 DEF Called, Given, LiveState, PcbLive
<1>4. ASSUME NEW n, "sent" \in client.callbacks,
             \/ /\ client' = Left(c, n) /\ pcb' = Queued(c, pcb, n) /\ UNCHANGED conn
                /\ jobs' = IF Left(c, n).rest = <<>> /\ ~Left(c, n).socksClosed
                             THEN <<"recv", "mark">> ELSE jobs
             \/ AbortClient(Left(c, n), Queued(c, pcb, n), jobs)
      PROVE  Called
  <2> DEFINE left == Left(c, n)
             queued == Queued(c, pcb, n)
  <2>1. /\ Given(left, queued) /\ left.buf = client.buf /\ left.clientClosed = client.clientClosed
        /\ queued.state = pcb.state /\ queued.rcvWnd = pcb.rcvWnd
    <3> HIDE DEF c
    <3>1. QED
      BY <1>2, QueuedGiven
  <2>2. ~client.clientClosed
    BY <1>1, <1>4 DEF Given, ClientOK
  <2> HIDE DEF c, left, queued
  <2>3. CASE AbortClient(left, queued, jobs)
    BY <1>1, <2>1, <2>3, AbortClientKept, KeptCalled DEF Given
  <2>4. CASE /\ client' = left /\ pcb' = queued /\ UNCHANGED conn
             /\ jobs' = IF left.rest = <<>> /\ ~left.socksClosed THEN <<"recv", "mark">> ELSE jobs
    <3>1. JobsOK(jobs') /\ (HasMark(jobs') => jobs' # <<>>)
      BY <1>1, <2>4, JobAndMark, NoJobs DEF JobNames
    <3>2. QED
      BY <1>1, <2>1, <2>2, <2>4, <3>1 DEF Called, Given, LiveState, PcbLive
  <2>5. QED
    BY <1>4, <2>3, <2>4 DEF left, queued
<1>5. CASE FreeClient(c, pcb, jobs)
  <2> HIDE DEF c
  <2>1. Kept(c, pcb)
    BY <1>1, <1>2, <1>5, FreeClientKept DEF Given
  <2>2. QED
    BY <1>2, <2>1, KeptCalled
<1>6. CASE client' = c /\ UNCHANGED <<pcb, conn, jobs, short>>
  <2> HIDE DEF c
  <2>1. QED
    BY <1>1, <1>2, <1>6 DEF Called, Given, LiveState, PcbLive
<1>7. QED
  <2>1. CASE "sent" \notin client.callbacks
    BY <1>3, <2>1 DEF TcpSent
  <2>2. CASE "sent" \in client.callbacks /\ c.rest # <<>>
    <3>1. ClientSent
      BY <2>2 DEF TcpSent
    <3>2. QED
      BY <1>4, <2>2, <3>1 DEF ClientSent, SendOut, Left, Queued
  <2>3. CASE "sent" \in client.callbacks /\ c.rest = <<>>
    <3>1. ClientSent
      BY <2>3 DEF TcpSent
    <3>2. CASE OwesNothing(c)
      BY <1>5, <2>3, <3>1, <3>2 DEF ClientSent
    <3>3. CASE ~OwesNothing(c)
      BY <1>6, <2>3, <3>1, <3>3 DEF ClientSent
    <3>4. QED
      BY <3>2, <3>3
  <2>4. QED
    BY <2>1, <2>2, <2>3

LEMMA TcpSentIInv == IInv /\ TcpSent => IInv'
<1> SUFFICES ASSUME IInv, TcpSent PROVE IInv'
  OBVIOUS
<1>1. input.stage = "sent" /\ jobs = <<>> /\ client.life # "none" /\ UNCHANGED app
  BY DEF TcpSent, IInv, Fresh
<1>2. Called
  BY <1>1, TcpSentCalled
<1>3. \/ input' = NoInput /\ client'.clientClosed
      \/ input' = [input EXCEPT !.stage = "sentSync", !.acked = 0]
      \/ jobs' = <<>> /\ input' = [input EXCEPT !.stage = "recv", !.acked = 0]
  BY DEF TcpSent, Killed, InputAborted, InputGoesOn
<1>4. /\ InputOK'
      /\ PcbLive' => Unhandled' = Unhandled
  <2>1. CASE input' = NoInput /\ client'.clientClosed
    BY <1>1, <1>2, <2>1 DEF Called, InputOK, NoInput, IInv, Shapes, HasMark
  <2>2. CASE input' = [input EXCEPT !.stage = "sentSync", !.acked = 0]
    BY <1>1, <2>2 DEF InputOK, IInv, Shapes, HasMark, Unhandled
  <2>3. CASE jobs' = <<>> /\ input' = [input EXCEPT !.stage = "recv", !.acked = 0]
    <3>1. ~HasMark(jobs')
      BY <2>3, NoJobs
    <3>2. QED
      BY <1>1, <2>3, <3>1 DEF InputOK, IInv, Shapes, HasMark, Unhandled
  <2>4. QED
    BY <1>3, <2>1, <2>2, <2>3
<1>5. WindowCoversBuffer'
  BY <1>2, <1>4 DEF Called, IInv, WindowCoversBuffer
<1>6. QED
  BY <1>2, <1>4, <1>5 DEF Called, IInv, Shapes, Fresh

(* Data of a segment goes into the buffer, or is discarded.                *)
LEMMA TcpRecvIInv == IInv /\ TcpRecv => IInv'
<1> SUFFICES ASSUME IInv, TcpRecv PROVE IInv'
  OBVIOUS
<1> DEFINE data == Bytes(app.sent - input.data, app.sent)
<1>1. /\ input.stage = "recv" /\ jobs = <<>> /\ client.life # "none" /\ UNCHANGED app
      /\ input.data \in Nat /\ app.sent \in Nat /\ input.fin \in BOOLEAN
  BY DEF TcpRecv, IInv, Fresh, Shapes, InputOK
<1>2. Given(client, pcb) /\ ConnOK(conn, client.buf) /\ JobsOK(jobs)
  BY <1>1, IInvGiven
<1>3. data \in Seq(Int) /\ Len(data) = input.data
  BY <1>1, BytesInts
<1>4. pcb.rcvWnd \in Int /\ client.buf \in Seq(Int) /\ Len(client.buf) \in Nat
  BY <1>2 DEF Given, PcbOK, ClientOK
<1>5. PcbLive => pcb.rcvWnd + Len(client.buf) + input.data + (IF input.fin THEN 1 ELSE 0) = Wnd
  <2>1. Unhandled = input.data + (IF input.fin THEN 1 ELSE 0)
    BY <1>1 DEF Unhandled
  <2>2. QED
    BY <1>1, <1>4, <2>1 DEF IInv, WindowCoversBuffer
<1> HIDE DEF data
<1>6. ASSUME client' = [client EXCEPT !.buf = @ \o data], UNCHANGED pcb,
             \/ /\ conn' = [conn EXCEPT !.busy = input.data] /\ jobs' = <<"send", "mark">>
                /\ input' = [input EXCEPT !.stage = "recvSync"]
             \/ /\ conn' = conn /\ jobs' = <<>>
                /\ input' = [input EXCEPT !.stage = "fin", !.data = 0]
      PROVE  IInv'
  <2>1. client'.buf \in Seq(Int) /\ Len(client'.buf) = Len(client.buf) + input.data
    <3>1. client'.buf = client.buf \o data
      BY <1>2, <1>6 DEF Given, ClientOK, ClientFields
    <3>2. QED
      BY <1>3, <1>4, <3>1, ConcatInts
  <2>2. /\ ClientOK(client') /\ client'.life = client.life
        /\ client'.clientClosed = client.clientClosed
    BY <1>2, <1>6, <2>1 DEF Given, ClientOK, ClientFields
  <2>3. ConnOK(conn', client'.buf)
    <3>1. {conn.busy, conn.done} \subseteq Nat /\ conn.busy <= Len(client.buf)
          /\ conn.done <= Len(client.buf) /\ DOMAIN conn = ConnFields
      BY <1>2 DEF ConnOK
    <3>2. CASE conn' = conn
      BY <1>1, <1>4, <2>1, <3>1, <3>2 DEF ConnOK
    <3>3. CASE conn' = [conn EXCEPT !.busy = input.data]
      <4>1. conn'.busy = input.data /\ conn'.done = conn.done /\ DOMAIN conn' = ConnFields
        BY <3>1, <3>3 DEF ConnFields
      <4>2. QED
        BY <1>1, <1>4, <2>1, <3>1, <4>1 DEF ConnOK
    <3>4. QED
      BY <1>6, <3>2, <3>3
  <2>4. JobsOK(jobs')
    BY <1>6, NoJobs, JobAndMark DEF JobNames
  <2>5. InputOK' /\ Unhandled' = (IF input.fin THEN 1 ELSE 0)
    <3>1. CASE input' = [input EXCEPT !.stage = "recvSync"]
      BY <1>1, <3>1 DEF InputOK, IInv, Shapes, Unhandled
    <3>2. CASE jobs' = <<>> /\ input' = [input EXCEPT !.stage = "fin", !.data = 0]
      BY <1>1, <3>2, NoJobs DEF InputOK, IInv, Shapes, Unhandled
    <3>3. QED
      BY <1>6, <3>1, <3>2
  <2>6. WindowCoversBuffer'
    BY <1>1, <1>4, <1>5, <1>6, <2>1, <2>5 DEF WindowCoversBuffer, PcbLive
  <2>7. QED
    BY <1>1, <1>2, <1>6, <2>2, <2>3, <2>4, <2>5, <2>6 DEF IInv, Shapes, Fresh, Given, PcbLive
<1>7. CASE /\ pcb' = [pcb EXCEPT !.rcvWnd = @ + input.data]
           /\ input' = [input EXCEPT !.stage = "fin", !.data = 0]
           /\ UNCHANGED <<client, conn, jobs>>
  <2>1. PcbOK(pcb') /\ pcb'.rcvWnd = pcb.rcvWnd + input.data /\ pcb'.state = pcb.state
    BY <1>1, <1>2, <1>7 DEF Given, PcbOK
  <2>2. InputOK' /\ Unhandled' = (IF input.fin THEN 1 ELSE 0)
    BY <1>1, <1>7, NoJobs DEF InputOK, IInv, Shapes, Unhandled
  <2>3. WindowCoversBuffer'
    BY <1>1, <1>4, <1>5, <1>7, <2>1, <2>2 DEF WindowCoversBuffer, PcbLive
  <2>4. QED
    BY <1>1, <1>2, <1>7, <2>1, <2>2, <2>3 DEF IInv, Shapes, Fresh, Given, PcbLive
<1>8. QED
  <2>1. CASE input.data > 0 /\ "recv" \in client.callbacks
    BY <1>6, <2>1 DEF TcpRecv, data
  <2>2. CASE ~(input.data > 0 /\ "recv" \in client.callbacks)
    BY <1>7, <2>2 DEF TcpRecv
  <2>3. QED
    BY <2>1, <2>2

(* The FIN's unit of the window is given back, or the PCB is closed.       *)
LEMMA TcpFinIInv == IInv /\ TcpFin => IInv'
<1> SUFFICES ASSUME IInv, TcpFin PROVE IInv'
  OBVIOUS
<1> DEFINE p == [pcb EXCEPT !.rcvWnd = Lesser(@ + 1, Wnd)]
<1>1. /\ input.stage = "fin" /\ jobs = <<>> /\ client.life # "none" /\ UNCHANGED app
      /\ input' = NoInput
  BY DEF TcpFin, IInv, Fresh
<1>2. Given(client, pcb) /\ ConnOK(conn, client.buf) /\ JobsOK(jobs) /\ ~HasMark(jobs)
  BY <1>1, IInvGiven, NoJobs
<1>3. /\ pcb.rcvWnd \in Int /\ Len(client.buf) \in Nat /\ Wnd \in Nat
      /\ PcbLive => pcb.rcvWnd + Len(client.buf) + (IF input.fin THEN 1 ELSE 0) = Wnd
  <2>1. pcb.rcvWnd \in Int /\ Len(client.buf) \in Nat /\ Wnd \in Nat
    BY <1>2, SizesAssumption DEF Given, PcbOK, ClientOK
  <2>2. Unhandled = (IF input.fin THEN 1 ELSE 0)
    BY <1>1 DEF Unhandled
  <2>3. QED
    BY <2>1, <2>2 DEF IInv, WindowCoversBuffer
<1>4. PcbOK(p) /\ p.state = pcb.state /\ p.rcvWnd = Lesser(pcb.rcvWnd + 1, Wnd)
  BY <1>2, <1>3 DEF Given, PcbOK, Lesser
<1>5. Unhandled' = 0 /\ (~HasMark(jobs') => InputOK')
  BY <1>1 DEF NoInput, Unhandled, InputOK, IInv, Shapes
<1> HIDE DEF p
<1>6. CASE ~input.fin /\ UNCHANGED <<client, pcb, conn, jobs, short>>
  <2>1. WindowCoversBuffer'
    BY <1>3, <1>5, <1>6 DEF WindowCoversBuffer, PcbLive
  <2>2. QED
    BY <1>1, <1>2, <1>5, <1>6, <2>1 DEF IInv, Shapes, Fresh, PcbLive
<1>7. CASE FreeClient(client, p, jobs)
  <2>1. Kept(client, p) /\ ~LiveState(pcb')
    BY <1>2, <1>4, <1>7, FreeClientKept, ClosePcbState DEF Given, FreeClient
  <2>2. ~HasMark(jobs') /\ ~PcbLive'
    BY <1>2, <2>1 DEF Kept, PcbLive, LiveState
  <2>3. QED
    BY <1>5, <2>1, <2>2 DEF IInv, Shapes, Fresh, Kept, WindowCoversBuffer
<1>8. CASE input.fin /\ pcb' = p /\ UNCHANGED <<client, conn, jobs, short>>
  <2>1. PcbLive => Lesser(pcb.rcvWnd + 1, Wnd) = pcb.rcvWnd + 1
    BY <1>3, <1>8 DEF Lesser
  <2>2. PcbLive' => PcbLive
    BY <1>4, <1>8 DEF PcbLive
  <2>3. WindowCoversBuffer'
    BY <1>3, <1>4, <1>5, <1>8, <2>1, <2>2 DEF WindowCoversBuffer
  <2>4. QED
    BY <1>1, <1>2, <1>4, <1>5, <1>8, <2>2, <2>3 DEF IInv, Shapes, Fresh
<1>9. QED
  <2>1. \/ ~input.fin /\ UNCHANGED <<client, pcb, conn, jobs, short>>
        \/ FreeClient(client, p, jobs)
        \/ input.fin /\ pcb' = p /\ UNCHANGED <<client, conn, jobs, short>>
    BY DEF TcpFin, p
  <2>2. QED
    BY <1>6, <1>7, <1>8, <2>1

(* SYNC_COMMIT returns to the callback that waited.                        *)
LEMMA CommitIInv == IInv /\ CommitReturns => IInv'
<1> SUFFICES ASSUME IInv, CommitReturns PROVE IInv'
  OBVIOUS
<1>1. /\ Top("mark") /\ jobs' = Tail(jobs) /\ client.life # "none"
      /\ UNCHANGED <<client, pcb, conn, app>>
  BY TopJob DEF CommitReturns
<1>2. HasMark(jobs) /\ jobs' = <<>> /\ ~HasMark(jobs')
  <2>1. jobs \in Seq(JobNames) /\ Len(jobs) \in Nat /\ Len(jobs) # 0 /\ jobs[1] = "mark"
    BY <1>1 DEF Top, IInv, Shapes, JobsOK
  <2>2. Len(jobs) = 1
    <3>1. \A i \in 1..(Len(jobs) - 1) : jobs[i] # "mark"
      BY DEF IInv, Shapes, JobsOK
    <3>2. \A n \in Nat \ {0} : 1 \in 1..(n - 1) \/ n = 1
      OBVIOUS
    <3>3. 1 \in 1..(Len(jobs) - 1) => jobs[1] # "mark"
      BY ONLY <3>1
    <3>4. Len(jobs) \in Nat \ {0}
      BY <2>1
    <3>5. QED
      BY <2>1, <3>2, <3>3, <3>4, Zenon
  <2>3. HasMark(jobs)
    BY <2>1, <2>2 DEF HasMark
  <2>4. Len(jobs') = 0 /\ jobs' \in Seq(JobNames)
    BY <1>1, <2>1, <2>2
  <2>5. jobs' = <<>>
    BY <2>4
  <2>6. QED
    BY <2>3, <2>5, NoJobs
<1>3. input.stage \in {"accept", "sentSync", "recvSync"} /\ Shapes /\ InputOK
  BY <1>2 DEF IInv, Shapes, InputOK
<1>4. \/ (client.clientClosed \/ input.stage = "accept") /\ input' = NoInput
      \/ input.stage = "sentSync" /\ input' = [input EXCEPT !.stage = "recv", !.acked = 0]
      \/ input.stage = "recvSync" /\ input' = [input EXCEPT !.stage = "fin", !.data = 0]
  <2>1. CASE client.clientClosed \/ input.stage = "accept"
    BY <2>1 DEF CommitReturns, Killed, InputAborted
  <2>2. CASE ~client.clientClosed /\ input.stage = "sentSync"
    BY <2>2 DEF CommitReturns, Killed, InputGoesOn
  <2>3. CASE ~client.clientClosed /\ input.stage = "recvSync"
    BY <2>3 DEF CommitReturns, Killed
  <2>4. QED
    BY <1>3, <2>1, <2>2, <2>3
<1>5. InputOK' /\ (PcbLive => Unhandled' = Unhandled)
  <2>1. CASE (client.clientClosed \/ input.stage = "accept") /\ input' = NoInput
    BY <1>1, <1>2, <1>3, <2>1 DEF InputOK, NoInput, Unhandled, IInv
  <2>2. CASE input.stage = "sentSync" /\ input' = [input EXCEPT !.stage = "recv", !.acked = 0]
    BY <1>1, <1>2, <1>3, <2>2 DEF InputOK, Unhandled
  <2>3. CASE input.stage = "recvSync" /\ input' = [input EXCEPT !.stage = "fin", !.data = 0]
    BY <1>1, <1>2, <1>3, <2>3 DEF InputOK, Unhandled
  <2>4. QED
    BY <1>4, <2>1, <2>2, <2>3
<1>6. QED
  BY <1>1, <1>2, <1>3, <1>5, NoJobs DEF IInv, Shapes, Fresh, PcbLive, WindowCoversBuffer

LEMMA PcbLostIInv == IInv /\ PcbLost => IInv'
<1> SUFFICES ASSUME IInv, PcbLost PROVE IInv'
  OBVIOUS
<1>1. client.life # "none" /\ UNCHANGED <<input, app>> /\ jobs = <<>>
  BY DEF PcbLost, PcbLive, IInv, Fresh, Idle
<1>2. Given(client, pcb) /\ ConnOK(conn, client.buf) /\ JobsOK(jobs)
  BY <1>1, IInvGiven
<1>3. PcbOK(pcb') /\ ~LiveState(pcb')
  BY <1>2 DEF PcbLost, Given, PcbOK, LiveState
<1>4. CASE HandleFreedClient(client, jobs)
  BY <1>1, <1>2, <1>3, <1>4, HandleFreedClientKept, KeptIInv DEF Given
<1>5. CASE UNCHANGED <<client, conn, jobs>>
  BY <1>1, <1>2, <1>3, <1>5, KeptIInv DEF Kept, Given
<1>6. QED
  BY <1>4, <1>5 DEF PcbLost

LEMMA ClosingInputIInv == IInv /\ ClosingInput => IInv'
<1> SUFFICES ASSUME IInv, ClosingInput PROVE IInv'
  OBVIOUS
<1>1. client.life # "none" /\ UNCHANGED <<client, conn, jobs, input>> /\ pcb.state = "closing"
  BY DEF ClosingInput, IInv, Fresh
<1>2. Given(client, pcb) /\ ConnOK(conn, client.buf) /\ JobsOK(jobs)
  BY <1>1, IInvGiven
<1>3. PcbOK(pcb') /\ ~PcbLive'
  BY <1>1, <1>2 DEF ClosingInput, Given, PcbOK, PcbLive
<1>4. app'.sent = app.sent /\ DOMAIN app' = DOMAIN app
  BY DEF ClosingInput, IInv, Shapes, InputOK
<1>5. InputOK'
  BY <1>1, <1>4 DEF IInv, Shapes, InputOK
<1>6. QED
  BY <1>1, <1>2, <1>3, <1>5 DEF IInv, Shapes, Fresh, Given, WindowCoversBuffer

LEMMA InitIInv == Init => IInv
<1> SUFFICES ASSUME Init PROVE IInv
  OBVIOUS
<1>1. /\ ClientOK(client) /\ client.buf = <<>> /\ Len(client.buf) = 0
      /\ ~client.clientClosed
  BY DEF Init, ClientOK, ClientFields
<1>2. PcbOK(pcb) /\ ~PcbLive /\ pcb.state = "none" /\ pcb.rcvWnd = Wnd
  BY SizesAssumption DEF Init, PcbOK, PcbLive
<1>3. ConnOK(conn, client.buf) /\ conn.state = "none"
  BY <1>1 DEF Init, NoConn, ConnOK, ConnFields
<1>4. JobsOK(jobs) /\ ~HasMark(jobs) /\ jobs = <<>>
  BY NoJobs DEF Init
<1>5. InputOK /\ input.stage = "idle"
  BY <1>4 DEF Init, NoInput, InputOK
<1>6. QED
  BY <1>1, <1>2, <1>3, <1>4, <1>5 DEF IInv, Shapes, Fresh, WindowCoversBuffer

LEMMA NextIInv == IInv /\ [Next]_vars => IInv'
<1> SUFFICES ASSUME IInv, [Next]_vars PROVE IInv'
  OBVIOUS
<1>1. CASE Accept
  BY <1>1, AcceptIInv
<1>2. CASE HandshakeEvent \/ HandshakeJob
  BY <1>2, HandshakeIInv
<1>3. CASE FdEvent
  BY <1>3, FdEventIInv
<1>4. CASE SendJob \/ RecvJob
  BY <1>4, SendRecvIInv
<1>5. CASE SendDone
  BY <1>5, SendDoneIInv
<1>6. CASE RecvDone
  BY <1>6, RecvDoneIInv
<1>7. CASE CommitReturns
  BY <1>7, CommitIInv
<1>8. CASE AppSegment
  BY <1>8, SegmentIInv
<1>9. CASE TcpSent
  BY <1>9, TcpSentIInv
<1>10. CASE TcpRecv
  BY <1>10, TcpRecvIInv
<1>11. CASE TcpFin
  BY <1>11, TcpFinIInv
<1>12. CASE PcbLost
  BY <1>12, PcbLostIInv
<1>13. CASE ClosingInput
  BY <1>13, ClosingInputIInv
<1>14. CASE ServerSends \/ ServerEnds \/ UNCHANGED vars
  <2>1. UNCHANGED <<client, pcb, conn, jobs, input, app>>
    BY <1>14 DEF ServerSends, ServerEnds, vars
  <2>2. InputOK' = InputOK /\ Unhandled' = Unhandled
    BY <2>1 DEF InputOK, HasMark, Unhandled
  <2>3. QED
    BY <2>1, <2>2 DEF IInv, Shapes, Fresh, PcbLive, WindowCoversBuffer
<1>15. QED
  BY <1>1, <1>2, <1>3, <1>4, <1>5, <1>6, <1>7, <1>8, <1>9, <1>10, <1>11, <1>12, <1>13, <1>14
     DEF Next, RunJob, RunInput

(* The receive window that lwIP announces and what the client buffers,     *)
(* with what tcp_input has not handed over yet, are always the whole       *)
(* window: client_recv_func never finds its buffer too small, whatever the *)
(* order of segments, writes and the ends of the three parties.            *)
THEOREM SpecWindowCoversBuffer == Spec => []WindowCoversBuffer
<1>1. IInv => WindowCoversBuffer
  BY DEF IInv
<1>2. QED
  BY <1>1, InitIInv, NextIInv, PTL DEF Spec

-----------------------------------------------------------------------------
(***************************************************************************)
(* Each direction is a pipe: the bytes of a stream lie end to end.         *)
(***************************************************************************)

(* The bytes that follow the first n of a stream.                          *)
Piece(s, n) == s \in Seq(Int) /\ \A i \in 1..Len(s) : s[i] = n + i

(* The jobs on the stack; those that read the socket.                      *)
Jobs(j) == {j[i] : i \in 1..Len(j)}
Reading == {"recv", "recvDone"}
NoRead(j) == Jobs(j) \cap Reading = {}
OneRead(j) == \A a, b \in 1..Len(j) : j[a] \in Reading /\ j[b] \in Reading => a = b

(* How far a connection to ss-local is.                                    *)
Handshaking == {"connecting", "sendingHello", "sentHello", "sendingPassword", "sentPassword",
                "sendingRequest", "sentRequest", "receivedHeader"}
Off(k) == k.state \in {"none", "freed"}
Quiet(k) == k.busy = 0 /\ k.done = 0 /\ ~k.recvWait /\ k.data = <<>>

(* The connection and the jobs: outside the handshake no job of it is on   *)
(* the stack, the socket is read once at a time, and what was read waits   *)
(* for its job.                                                            *)
JobsFit(k, j) ==
  /\ k.state \in Handshaking \cup {"none", "up", "freed"}
  /\ Off(k) => Quiet(k) /\ Jobs(j) \subseteq {"mark"}
  /\ k.state \in Handshaking =>
       /\ Quiet(k)
       /\ \/ Jobs(j) \subseteq {"mark"}
          \/ j # <<>> /\ Head(j) = "handshake" /\ Jobs(Tail(j)) \subseteq {"mark"}
  /\ k.state = "up" => "handshake" \notin Jobs(j)
  /\ OneRead(j)
  /\ k.recvWait => NoRead(j)
  /\ k.done > 0 => k.busy = 0

(* The client and its connection.                                          *)
Open(c) == "err" \in c.callbacks
ClientFits(c, k) ==
  /\ ~Open(c) => c.callbacks = {}
  /\ c.socksClosed <=> k.state = "freed"
  /\ "sent" \in c.callbacks \/ c.socksUp => k.state \in {"up", "freed"}
  /\ "recv" \in c.callbacks => ~c.socksClosed
  /\ ~Open(c) /\ ~c.clientClosed => k.state = "none"
  /\ k.state = "none" => ~Open(c) \/ c.life = "none"

(* What still has to be queued is not followed by a read, and what was     *)
(* read waits for its job.                                                 *)
RestFits(c, k, j) ==
  /\ Open(c) /\ c.rest # <<>> => NoRead(j) /\ ~k.recvWait
  /\ Open(c) /\ k.data # <<>> => "recvDone" \in Jobs(j)
  /\ k.state \in Handshaking => c.rest = <<>>

(* From the application to ss-local: what ss-local has got, then buf, then *)
(* what tcp_input has not handed over.                                     *)
Due(i) == IF i.stage \in {"sent", "sentSync", "recv"} THEN i.data ELSE 0
UpFits(c, k, i, a, s) ==
  LET from == Len(s.got) - k.done
      upTo == from + Len(c.buf) IN
  /\ Piece(s.got, 0) /\ Len(s.got) <= a.sent
  /\ ~Off(k) => from >= 0 /\ Piece(c.buf, from) /\ upTo <= a.sent
  /\ "recv" \in c.callbacks \/ c.life = "none" => upTo + Due(i) = a.sent

(* From ss-local to the application: what it has got, the queue of lwIP,   *)
(* what still has to be queued, and what was just read.                    *)
DownFits(c, p, k, a, s) ==
  LET queued == Len(a.got) + Len(p.queue)
      known == queued + Len(c.rest) IN
  /\ Piece(a.got, 0) /\ Piece(p.queue, Len(a.got)) /\ queued <= s.read /\ Len(p.queue) <= SndBuf
  /\ Open(c) => Piece(c.rest, queued) /\ known <= s.read
  /\ Open(c) /\ ~Off(k) => Piece(k.data, known) /\ known + Len(k.data) = s.read

ServerOK(s) ==
  DOMAIN s = {"sent", "fin", "reset", "read", "got"} /\ {s.sent, s.read} \subseteq Nat /\ s.read <= s.sent

(* Before a connection comes all is empty.                                 *)
Untouched ==
  client.life = "none" =>
    /\ client.rest = <<>> /\ client.callbacks = {} /\ pcb.queue = <<>>
    /\ app.got = <<>> /\ server.got = <<>> /\ app.sent = 0 /\ server.read = 0

PipeInv ==
  /\ ServerOK(server) /\ Untouched
  /\ Open(client) <=> PcbLive
  /\ ClientFits(client, conn) /\ JobsFit(conn, jobs) /\ RestFits(client, conn, jobs)
  /\ UpFits(client, conn, input, app, server)
  /\ DownFits(client, pcb, conn, app, server)

-----------------------------------------------------------------------------
(* Pieces of a stream.                                                     *)

LEMMA PieceEmpty == \A n : Piece(<<>>, n)
BY DEF Piece

LEMMA PieceLen ==
  ASSUME NEW s, NEW n, Piece(s, n)
  PROVE  s \in Seq(Int) /\ Len(s) \in Nat
BY DEF Piece

LEMMA PieceConcat ==
  ASSUME NEW n \in Int, NEW s, NEW t, Piece(s, n), Piece(t, n + Len(s))
  PROVE  Piece(s \o t, n) /\ Len(s \o t) = Len(s) + Len(t)
<1>1. s \in Seq(Int) /\ t \in Seq(Int) /\ Len(s) \in Nat /\ Len(t) \in Nat
  BY DEF Piece
<1>2. s \o t \in Seq(Int) /\ Len(s \o t) = Len(s) + Len(t)
  BY <1>1
<1>3. ASSUME NEW i \in 1..(Len(s) + Len(t)) PROVE (s \o t)[i] = n + i
  <2>1. CASE i <= Len(s)
    BY <1>1, <2>1 DEF Piece
  <2>2. CASE i > Len(s)
    <3>1. (s \o t)[i] = t[i - Len(s)] /\ i - Len(s) \in 1..Len(t)
      BY <1>1, <2>2
    <3>2. t[i - Len(s)] = n + Len(s) + (i - Len(s))
      BY <3>1 DEF Piece
    <3> QED
      BY <1>1, <3>1, <3>2
  <2> QED
    BY <1>1, <2>1, <2>2
<1> QED
  BY <1>2, <1>3 DEF Piece

LEMMA PieceFront ==
  ASSUME NEW n \in Int, NEW s, Piece(s, n), NEW k \in Nat, k <= Len(s)
  PROVE  Piece(SubSeq(s, 1, k), n) /\ Len(SubSeq(s, 1, k)) = k
<1>1. s \in Seq(Int) /\ Len(s) \in Nat
  BY DEF Piece
<1>2. /\ SubSeq(s, 1, k) \in Seq(Int) /\ Len(SubSeq(s, 1, k)) = k
      /\ \A i \in 1..k : SubSeq(s, 1, k)[i] = s[i]
  BY <1>1
<1> QED
  BY <1>1, <1>2 DEF Piece

LEMMA PieceDrop ==
  ASSUME NEW n \in Int, NEW s, Piece(s, n), NEW k \in Nat, k <= Len(s)
  PROVE  Piece(Drop(s, k), n + k) /\ Len(Drop(s, k)) = Len(s) - k
<1>1. s \in Seq(Int) /\ Len(s) \in Nat
  BY DEF Piece
<1>2. /\ Drop(s, k) \in Seq(Int) /\ Len(Drop(s, k)) = Len(s) - k
      /\ \A i \in 1..(Len(s) - k) : Drop(s, k)[i] = s[k + i]
  BY <1>1 DEF Drop
<1> QED
  BY <1>1, <1>2 DEF Piece

LEMMA PieceBytes ==
  ASSUME NEW n \in Int, NEW m \in Int, NEW k \in Nat, m = n + k
  PROVE  Piece(Bytes(n, m), n) /\ Len(Bytes(n, m)) = k
<1>1. Bytes(n, m) = [i \in 1..k |-> n + i]
  BY DEF Bytes
<1>2. [i \in 1..k |-> n + i] \in Seq(Int) /\ Len([i \in 1..k |-> n + i]) = k
  OBVIOUS
<1> QED
  BY <1>1, <1>2 DEF Piece

LEMMA PieceStream ==
  ASSUME NEW s, Piece(s, 0)
  PROVE  Len(s) \in Nat /\ s = Up!Stream(Len(s)) /\ s = Down!Stream(Len(s))
<1>1. Len(s) \in Nat /\ s = [i \in 1..Len(s) |-> s[i]] /\ \A i \in 1..Len(s) : s[i] = i
  BY DEF Piece
<1>2. s = [i \in 1..Len(s) |-> i]
  BY <1>1
<1> QED
  BY <1>1, <1>2 DEF Up!Stream, Down!Stream

(* The front of a piece goes to the end of what it follows.                *)
LEMMA FrontMoves ==
  ASSUME NEW s, NEW t, Piece(s, 0), Piece(t, Len(s)), NEW n \in Nat, n <= Len(t), NEW most \in Nat,
         Len(t) <= most
  PROVE  LET u == s \o SubSeq(t, 1, n)
             v == Drop(t, n)
         IN /\ Piece(u, 0) /\ Piece(v, Len(u)) /\ Len(u) + Len(v) = Len(s) + Len(t)
            /\ Len(v) <= most
<1> DEFINE x == SubSeq(t, 1, n)
           u == s \o x
           v == Drop(t, n)
<1>1. Len(s) \in Nat /\ Len(t) \in Nat
  BY PieceLen
<1>2. Piece(x, Len(s)) /\ Len(x) = n
  BY <1>1, PieceFront
<1>3. Piece(v, Len(s) + n) /\ Len(v) = Len(t) - n
  BY <1>1, PieceDrop
<1> HIDE DEF x, v
<1>4. Piece(u, 0) /\ Len(u) = Len(s) + n
  <2>1. Piece(x, 0 + Len(s))
    BY <1>1, <1>2
  <2>2. Piece(u, 0) /\ Len(u) = Len(s) + Len(x)
    BY <2>1, PieceConcat
  <2> QED
    BY <1>2, <2>2
<1> HIDE DEF u
<1>5. Len(u) + Len(v) = Len(s) + Len(t) /\ Len(v) <= most
  <2>1. \A a, b, c, d \in Nat : a <= b /\ b <= d => c + a + (b - a) = c + b /\ b - a <= d
    OBVIOUS
  <2> QED
    BY <1>1, <1>3, <1>4, <2>1
<1> QED
  BY <1>3, <1>4, <1>5 DEF u, v, x

-----------------------------------------------------------------------------
(* The stack of jobs.                                                      *)

LEMMA JobsNone == Jobs(<<>>) = {} /\ OneRead(<<>>) /\ NoRead(<<>>)
BY DEF Jobs, OneRead, NoRead

LEMMA JobsMark == Jobs(<<"mark">>) = {"mark"} /\ OneRead(<<"mark">>) /\ NoRead(<<"mark">>)
BY DEF Jobs, OneRead, NoRead, Reading

LEMMA JobsPop ==
  ASSUME NEW j, JobsOK(j), j # <<>>
  PROVE  /\ JobsOK(Tail(j)) /\ Jobs(j) = {Head(j)} \cup Jobs(Tail(j))
         /\ OneRead(j) => OneRead(Tail(j))
         /\ OneRead(j) /\ Head(j) \in Reading => NoRead(Tail(j))
<1>1. j \in Seq(JobNames) /\ Len(j) \in Nat /\ Len(j) # 0 /\ JobsOK(Tail(j))
  BY PopJob DEF JobsOK
<1>2. /\ Tail(j) \in Seq(JobNames) /\ Len(Tail(j)) = Len(j) - 1 /\ Head(j) = j[1]
      /\ \A i \in 1..(Len(j) - 1) : Tail(j)[i] = j[i + 1]
  BY <1>1
<1>3. Jobs(j) = {Head(j)} \cup Jobs(Tail(j))
  <2>1. ASSUME NEW i \in 1..Len(j) PROVE j[i] \in {Head(j)} \cup Jobs(Tail(j))
    <3>1. CASE i = 1
      BY <1>2, <3>1
    <3>2. CASE i # 1
      <4>1. i - 1 \in 1..(Len(j) - 1) /\ Tail(j)[i - 1] = j[i]
        BY <1>1, <1>2, <3>2
      <4> QED
        BY <1>2, <4>1 DEF Jobs
    <3> QED
      BY <3>1, <3>2
  <2>2. Head(j) \in Jobs(j)
    BY <1>1, <1>2 DEF Jobs
  <2>3. ASSUME NEW i \in 1..(Len(j) - 1) PROVE Tail(j)[i] \in Jobs(j)
    <3>1. i + 1 \in 1..Len(j) /\ Tail(j)[i] = j[i + 1]
      BY <1>1, <1>2
    <3> QED
      BY <3>1 DEF Jobs
  <2> QED
    BY <1>2, <2>1, <2>2, <2>3 DEF Jobs
<1>4. ASSUME OneRead(j) PROVE OneRead(Tail(j))
  <2> SUFFICES ASSUME NEW a \in 1..(Len(j) - 1), NEW b \in 1..(Len(j) - 1),
                      Tail(j)[a] \in Reading, Tail(j)[b] \in Reading
               PROVE  a = b
    BY <1>2 DEF OneRead
  <2>1. a + 1 \in 1..Len(j) /\ b + 1 \in 1..Len(j) /\ j[a + 1] \in Reading /\ j[b + 1] \in Reading
    BY <1>1, <1>2
  <2>2. a + 1 = b + 1
    BY <1>4, <2>1 DEF OneRead
  <2> QED
    BY <2>2
<1>5. ASSUME OneRead(j), Head(j) \in Reading PROVE NoRead(Tail(j))
  <2>1. ASSUME NEW i \in 1..(Len(j) - 1), Tail(j)[i] \in Reading PROVE FALSE
    <3>1. i + 1 \in 1..Len(j) /\ 1 \in 1..Len(j) /\ j[i + 1] \in Reading /\ j[1] \in Reading
      BY <1>1, <1>2, <1>5, <2>1
    <3>2. i + 1 = 1
      BY <1>5, <3>1 DEF OneRead
    <3> QED
      BY <3>2
  <2> QED
    BY <1>2, <2>1 DEF NoRead, Jobs
<1> QED
  BY <1>1, <1>3, <1>4, <1>5

LEMMA JobsPush ==
  ASSUME NEW j, JobsOK(j), NEW job
  PROVE  /\ Jobs(<<job>> \o j) = {job} \cup Jobs(j)
         /\ Head(<<job>> \o j) = job /\ Tail(<<job>> \o j) = j /\ <<job>> \o j # <<>>
         /\ NoRead(j) \/ (OneRead(j) /\ job \notin Reading) => OneRead(<<job>> \o j)
<1> DEFINE k == <<job>> \o j
<1>1. j \in Seq(JobNames) /\ Len(j) \in Nat
  BY DEF JobsOK
<1>2. /\ Len(k) = Len(j) + 1 /\ k[1] = job /\ k # <<>> /\ Head(k) = job /\ Tail(k) = j
      /\ \A i \in 2..(Len(j) + 1) : k[i] = j[i - 1]
  BY <1>1
<1> HIDE DEF k
<1>3. Jobs(k) = {job} \cup Jobs(j)
  <2>1. ASSUME NEW i \in 1..(Len(j) + 1) PROVE k[i] \in {job} \cup Jobs(j)
    <3>1. CASE i = 1
      BY <1>2, <3>1
    <3>2. CASE i # 1
      <4>1. i - 1 \in 1..Len(j) /\ k[i] = j[i - 1]
        BY <1>1, <1>2, <3>2
      <4> QED
        BY <4>1 DEF Jobs
    <3> QED
      BY <3>1, <3>2
  <2>2. job \in Jobs(k)
    BY <1>1, <1>2 DEF Jobs
  <2>3. ASSUME NEW i \in 1..Len(j) PROVE j[i] \in Jobs(k)
    <3>1. i + 1 \in 1..Len(k) /\ k[i + 1] = j[i]
      BY <1>1, <1>2
    <3> QED
      BY <3>1 DEF Jobs
  <2> QED
    BY <1>2, <2>1, <2>2, <2>3 DEF Jobs
<1>4. ASSUME NoRead(j) \/ (OneRead(j) /\ job \notin Reading) PROVE OneRead(k)
  <2> SUFFICES ASSUME NEW a \in 1..(Len(j) + 1), NEW b \in 1..(Len(j) + 1),
                      k[a] \in Reading, k[b] \in Reading
               PROVE  a = b
    BY <1>2 DEF OneRead
  <2>1. \A i \in 1..(Len(j) + 1) : i = 1 \/ (i - 1 \in 1..Len(j) /\ k[i] = j[i - 1])
    BY <1>1, <1>2
  <2>2. CASE NoRead(j)
    <3>1. \A i \in 1..Len(j) : j[i] \notin Reading
      BY <2>2 DEF NoRead, Jobs
    <3> QED
      BY <2>1, <3>1
  <2>3. CASE OneRead(j) /\ job \notin Reading
    <3>1. a # 1 /\ b # 1
      BY <1>2, <2>3
    <3>2. a - 1 = b - 1
      BY <2>1, <2>3, <3>1 DEF OneRead
    <3> QED
      BY <1>1, <3>2
  <2> QED
    BY <1>4, <2>2, <2>3
<1> QED
  BY <1>2, <1>3, <1>4 DEF k

-----------------------------------------------------------------------------
(* The end of a client.                                                    *)

(* The structures fit together.                                            *)
Struct(c, p, k, j) ==
  /\ Open(c) <=> LiveState(p)
  /\ ClientFits(c, k) /\ JobsFit(k, j) /\ RestFits(c, k, j)

(* What each way to end a client, or its connection to ss-local, leaves of *)
(* the structures c and p.                                                 *)
Ending(c, p) ==
  /\ Struct(client', pcb', conn', jobs')
  /\ client'.life # "none" /\ "recv" \notin client'.callbacks
  /\ Off(conn') \/ (conn' = conn /\ client'.buf = c.buf)
  /\ pcb'.queue \in {<<>>, p.queue}
  /\ Open(client') => Open(c) /\ Off(conn') /\ pcb' = p /\ client'.rest = c.rest

LEMMA FreeConnFits ==
  ASSUME JobsOK(jobs), FreeConn
  PROVE  /\ conn'.state = "freed" /\ Quiet(conn') /\ JobsFit(conn', jobs')
         /\ Jobs(jobs') \subseteq {"mark"} /\ NoRead(jobs')
<1>1. conn'.state = "freed" /\ Quiet(conn')
  BY DEF FreeConn, NoConn, Quiet
<1>2. jobs' \in {<<>>, <<"mark">>}
  BY DEF FreeConn, If
<1>3. Jobs(jobs') \subseteq {"mark"} /\ OneRead(jobs') /\ NoRead(jobs')
  BY <1>2, JobsNone, JobsMark
<1> QED
  BY <1>1, <1>3 DEF JobsFit, Off, Quiet, Handshaking

LEMMA DeallocFits ==
  ASSUME NEW c, DOMAIN c = ClientFields, Dealloc(c)
  PROVE  /\ client'.callbacks = {} /\ client'.clientClosed /\ client'.socksClosed
         /\ client'.socksUp = c.socksUp /\ client'.buf = c.buf /\ client'.rest = c.rest
         /\ client'.life = "gone"
BY DEF Dealloc, ClientFields

LEMMA HandleFreedClientEnds ==
  ASSUME NEW c, DOMAIN c = ClientFields, c.life # "none", NEW p, pcb'.queue \in {<<>>, p.queue},
         ~LiveState(pcb'), c.socksClosed <=> conn.state = "freed",
         c.socksUp => conn.state \in {"up", "freed"},
         conn.state \in Handshaking => c.rest = <<>>,
         JobsOK(jobs), NEW base, JobsFit(conn, base), HandleFreedClient(c, base)
  PROVE  Ending(c, p)
<1> USE DEF Open
<1>1. CASE c.socksClosed /\ Dealloc(c) /\ UNCHANGED conn /\ jobs' = base
  BY <1>1, DeallocFits DEF Ending, Struct, ClientFits, RestFits, Handshaking
<1>2. CASE /\ client' = [c EXCEPT !.clientClosed = TRUE, !.callbacks = {}]
           /\ UNCHANGED conn /\ jobs' = base
  <2>1. /\ client'.callbacks = {} /\ client'.clientClosed /\ client'.socksClosed = c.socksClosed
        /\ client'.socksUp = c.socksUp /\ client'.buf = c.buf /\ client'.rest = c.rest
        /\ client'.life = c.life
    BY <1>2 DEF ClientFields
  <2> QED
    BY <1>2, <2>1 DEF Ending, Struct, ClientFits, RestFits
<1>3. CASE Dealloc(c) /\ FreeConn
  BY <1>3, DeallocFits, FreeConnFits DEF Ending, Struct, ClientFits, RestFits, Off, Handshaking
<1> QED
  BY <1>1, <1>2, <1>3 DEF HandleFreedClient

(* What the ways to end need of the client.                                *)
Endable(c) ==
  /\ DOMAIN c = ClientFields /\ c.life # "none"
  /\ c.socksClosed <=> conn.state = "freed"
  /\ c.socksUp => conn.state \in {"up", "freed"}
  /\ conn.state \in Handshaking => c.rest = <<>>

LEMMA ClosePcbEnds ==
  ASSUME NEW p, PcbOK(p), ClosePcb(p)
  PROVE  pcb'.queue \in {<<>>, p.queue} /\ ~LiveState(pcb')
BY DEF ClosePcb, PcbOK, LiveState

LEMMA FreeClientEnds ==
  ASSUME NEW c, Endable(c), NEW p, PcbOK(p), JobsOK(jobs), NEW base, JobsFit(conn, base),
         FreeClient(c, p, base)
  PROVE  Ending(c, p)
BY ClosePcbEnds, HandleFreedClientEnds DEF FreeClient, Endable

LEMMA AbortClientEnds ==
  ASSUME NEW c, Endable(c), NEW p, PcbOK(p), JobsOK(jobs), NEW base, JobsFit(conn, base),
         AbortClient(c, p, base)
  PROVE  Ending(c, p)
<1>1. pcb'.queue = <<>> /\ ~LiveState(pcb')
  BY DEF AbortClient, PcbOK, LiveState
<1> QED
  BY <1>1, HandleFreedClientEnds DEF AbortClient, Endable

LEMMA FreeSocksEnds ==
  ASSUME NEW c, DOMAIN c = ClientFields, c.life # "none", Open(c) \/ c.clientClosed,
         ~Open(c) => c.callbacks = {}, c.clientClosed => ~Open(c),
         NEW p, PcbOK(p), Open(c) <=> LiveState(p), p.queue = pcb.queue, p.state = pcb.state,
         JobsOK(jobs), FreeSocks(c, p)
  PROVE  Ending(c, p)
<1>1. /\ conn'.state = "freed" /\ Quiet(conn') /\ JobsFit(conn', jobs')
      /\ Jobs(jobs') \subseteq {"mark"} /\ NoRead(jobs')
  BY FreeConnFits DEF FreeSocks
<1> USE DEF Open
<1>2. CASE c.clientClosed /\ Dealloc(c) /\ UNCHANGED <<pcb, short>>
  BY <1>1, <1>2, DeallocFits DEF Ending, Struct, ClientFits, RestFits, Off, Handshaking, LiveState
<1>3. CASE /\ ~c.clientClosed /\ pcb' = p
           /\ client' = [c EXCEPT !.socksClosed = TRUE, !.callbacks = @ \ {"recv"}]
  <2>1. /\ client'.callbacks = c.callbacks \ {"recv"} /\ client'.clientClosed = c.clientClosed
        /\ client'.socksClosed /\ client'.socksUp = c.socksUp /\ client'.rest = c.rest
        /\ client'.life = c.life
    BY <1>3 DEF ClientFields
  <2> QED
    BY <1>1, <1>3, <2>1 DEF Ending, Struct, ClientFits, RestFits, Off, Handshaking, Quiet
<1>4. CASE Dealloc(c) /\ ClosePcb(p)
  BY <1>1, <1>4, DeallocFits, ClosePcbEnds
     DEF Ending, Struct, ClientFits, RestFits, Off, Handshaking
<1> QED
  BY <1>2, <1>3, <1>4 DEF FreeSocks

LEMMA DownNumbers ==
  ASSUME NEW c, NEW p, NEW k, NEW a, NEW s, DownFits(c, p, k, a, s), ServerOK(s)
  PROVE  /\ Len(a.got) \in Nat /\ Len(p.queue) \in Nat /\ s.read \in Nat /\ s.sent \in Nat
         /\ Len(a.got) + 0 <= s.read /\ Len(<<>>) = 0
<1>1. Len(a.got) \in Nat /\ Len(p.queue) \in Nat
  BY PieceLen DEF DownFits
<1>2. Len(a.got) + Len(p.queue) <= s.read
  BY DEF DownFits
<1>3. s.read \in Nat /\ s.sent \in Nat
  BY DEF ServerOK
<1>4. Len(<<>>) = 0
  OBVIOUS
<1>5. \A x, y, z \in Nat : x + y <= z => x + 0 <= z
  OBVIOUS
<1> QED
  BY <1>1, <1>2, <1>3, <1>4, <1>5

(* An end puts no byte out of its place.                                   *)
LEMMA EndingDown ==
  ASSUME NEW c, NEW p, NEW k, Ending(c, p), UNCHANGED app, ServerOK(server),
         server'.read = server.read, DownFits(c, p, k, app, server)
  PROVE  DownFits(client', pcb', conn', app', server')
<1>1. /\ Piece(app.got, 0) /\ Piece(pcb'.queue, Len(app.got))
      /\ Len(app.got) + Len(pcb'.queue) <= server.read /\ Len(pcb'.queue) <= SndBuf
  <2>1. CASE pcb'.queue = <<>>
    <3>1. Piece(app.got, 0)
      BY DEF DownFits
    <3>2. Len(app.got) + 0 <= server.read /\ Len(<<>>) = 0 /\ 0 <= SndBuf
      BY DownNumbers, SizesAssumption
    <3> QED
      BY <2>1, <3>1, <3>2, PieceEmpty
  <2>2. CASE pcb'.queue = p.queue
    BY <2>2 DEF DownFits
  <2> QED
    BY <2>1, <2>2 DEF Ending
<1>2. CASE Open(client')
  <2>1. Off(conn') /\ pcb' = p /\ client'.rest = c.rest /\ Open(c)
    BY <1>2 DEF Ending
  <2> QED
    BY <1>1, <2>1 DEF DownFits
<1>3. CASE ~Open(client')
  BY <1>1, <1>3 DEF DownFits
<1> QED
  BY <1>2, <1>3

LEMMA EndingInv ==
  ASSUME NEW c, NEW p, NEW k, Ending(c, p), UNCHANGED app, ServerOK(server'), ServerOK(server),
         server'.got = server.got, server'.read = server.read,
         UpFits(c, conn, input, app, server), DownFits(c, p, k, app, server)
  PROVE  PipeInv'
<1>1. UpFits(client', conn', input', app', server')
  BY DEF Ending, UpFits
<1>2. DownFits(client', pcb', conn', app', server')
  BY EndingDown
<1> QED
  BY <1>1, <1>2 DEF Ending, Struct, PipeInv, Untouched, LiveState, PcbLive

(* What the invariants say of a connection that has come.                  *)
LEMMA Facts ==
  ASSUME IInv, PipeInv, client.life # "none"
  PROVE  /\ Struct(client, pcb, conn, jobs) /\ Endable(client) /\ ClientOK(client)
         /\ PcbOK(pcb) /\ ConnOK(conn, client.buf) /\ JobsOK(jobs) /\ InputOK
         /\ client.clientClosed => ~Open(client)
         /\ UpFits(client, conn, input, app, server) /\ DownFits(client, pcb, conn, app, server)
         /\ ServerOK(server)
<1>1. /\ ClientOK(client) /\ PcbOK(pcb) /\ ConnOK(conn, client.buf) /\ JobsOK(jobs) /\ InputOK
      /\ client.clientClosed => ~PcbLive
  BY DEF IInv, Shapes
<1>2. Struct(client, pcb, conn, jobs)
  BY DEF PipeInv, Struct, PcbLive, LiveState
<1>3. DOMAIN client = ClientFields
  BY <1>1 DEF ClientOK
<1>4. Endable(client)
  BY <1>2, <1>3 DEF Struct, ClientFits, RestFits, Endable
<1> QED
  BY <1>1, <1>2, <1>4 DEF PipeInv

(* A connection to ss-local that is there is not that of a client without  *)
(* callbacks, unless it was closed.                                        *)
LEMMA FreeSocksInv ==
  ASSUME IInv, PipeInv, client.life # "none", ~Off(conn), FreeSocks(client, pcb),
         UNCHANGED <<input, app>>, server' = server \/ server' = [server EXCEPT !.reset = TRUE]
  PROVE  PipeInv'
<1>1. Ending(client, pcb)
  BY Facts, FreeSocksEnds DEF Struct, ClientFits, ClientOK, Off
<1>2. ServerOK(server') /\ server'.got = server.got /\ server'.read = server.read
  BY DEF PipeInv, ServerOK
<1> QED
  BY <1>1, <1>2, Facts, EndingInv

-----------------------------------------------------------------------------
(* The actions.                                                            *)

LEMMA NoReadOne == \A j : NoRead(j) => OneRead(j)
BY DEF NoRead, OneRead, Jobs

LEMMA MarksOnly == \A j : Jobs(j) \subseteq {"mark"} => NoRead(j) /\ OneRead(j) /\ "handshake" \notin Jobs(j)
BY NoReadOne DEF NoRead, Reading

LEMMA AcceptPipe == IInv /\ PipeInv /\ Accept => PipeInv'
<1> SUFFICES ASSUME IInv, PipeInv, Accept PROVE PipeInv'
  OBVIOUS
<1>1. /\ client.life = "none" /\ client.buf = <<>> /\ client.rest = <<>> /\ client.callbacks = {}
      /\ ~client.clientClosed /\ ~client.socksClosed /\ ~client.socksUp
      /\ DOMAIN client = ClientFields
      /\ pcb.queue = <<>> /\ DOMAIN pcb = {"state", "rcvWnd", "queue"}
      /\ conn.state = "none" /\ Quiet(conn) /\ DOMAIN conn = ConnFields /\ jobs = <<>>
      /\ UNCHANGED <<app, server>> /\ input.stage = "idle" /\ DOMAIN input = {"stage", "acked", "data", "fin"}
  BY DEF Accept, IInv, Shapes, Fresh, ClientOK, PcbOK, ConnOK, InputOK,
         PipeInv, Untouched, ClientFits, JobsFit, Off
<1>2. app.got = <<>> /\ server.got = <<>> /\ app.sent = 0 /\ server.read = 0 /\ Len(<<>>) = 0
  BY <1>1 DEF PipeInv, Untouched
<1>3. CASE AcceptFails
  <2>1. /\ client'.life = "gone" /\ client'.callbacks = {} /\ client'.rest = <<>>
        /\ client'.buf = <<>> /\ ~client'.clientClosed /\ ~client'.socksClosed /\ ~client'.socksUp
        /\ pcb'.state = "reset" /\ pcb'.queue = <<>> /\ UNCHANGED <<conn, jobs, input>>
    BY <1>1, <1>3 DEF AcceptFails, ClientFields
  <2>2. UpFits(client', conn', input', app', server')
    BY <1>1, <1>2, <2>1, PieceEmpty DEF UpFits, Off
  <2>3. DownFits(client', pcb', conn', app', server')
    BY <1>1, <1>2, <2>1, PieceEmpty, SizesAssumption DEF DownFits, Open
  <2>4. ClientFits(client', conn') /\ JobsFit(conn', jobs') /\ RestFits(client', conn', jobs')
    BY <1>1, <2>1 DEF PipeInv, ClientFits, JobsFit, RestFits, Open
  <2> QED
    BY <1>1, <2>1, <2>2, <2>3, <2>4 DEF PipeInv, Untouched, ServerOK, Open, PcbLive
<1>4. CASE AcceptClient
  <2>1. /\ client'.life = "live" /\ client'.callbacks = {"err", "recv"} /\ client'.rest = <<>>
        /\ client'.buf = <<>> /\ ~client'.clientClosed /\ ~client'.socksClosed /\ ~client'.socksUp
        /\ pcb'.state = "established" /\ pcb'.queue = <<>> /\ input'.stage = "accept"
        /\ conn'.state = "connecting" /\ Quiet(conn')
    BY <1>1, <1>4 DEF AcceptClient, ClientFields, ConnFields, Quiet
  <2>2. UpFits(client', conn', input', app', server')
    <3>1. Due(input') = 0 /\ conn'.done = 0
      BY <2>1 DEF Due, Quiet
    <3> QED
      BY <1>1, <1>2, <2>1, <3>1, PieceEmpty DEF UpFits
  <2>3. DownFits(client', pcb', conn', app', server')
    BY <1>1, <1>2, <2>1, PieceEmpty, SizesAssumption DEF DownFits, Quiet
  <2>4. JobsFit(conn', jobs')
    <3>1. jobs' = <<"mark">> \/ jobs' = <<"handshake">> \o <<"mark">>
      <4>1. <<>> \o <<"mark">> = <<"mark">>
        OBVIOUS
      <4> QED
        BY <1>4, <4>1 DEF AcceptClient, If
    <3>2. CASE jobs' = <<"mark">>
      BY <2>1, <3>2, JobsMark DEF JobsFit, Off, Quiet, Handshaking
    <3>3. CASE jobs' = <<"handshake">> \o <<"mark">>
      <4>1. /\ Head(jobs') = "handshake" /\ jobs' # <<>> /\ Tail(jobs') = <<"mark">> /\ OneRead(jobs')
        BY <3>3, MarkOnly, JobsPush, JobsMark
      <4> QED
        BY <2>1, <4>1, JobsMark DEF JobsFit, Off, Quiet, Handshaking
    <3> QED
      BY <3>1, <3>2, <3>3
  <2>5. ClientFits(client', conn') /\ RestFits(client', conn', jobs')
    BY <2>1 DEF ClientFits, RestFits, Quiet, Open
  <2> QED
    BY <1>1, <2>1, <2>2, <2>3, <2>4, <2>5 DEF PipeInv, Untouched, ServerOK, Open, PcbLive
<1> QED
  BY <1>3, <1>4 DEF Accept

LEMMA AfterStates ==
  /\ DOMAIN After = Handshaking
  /\ \A state \in Handshaking : After[state] \ {"up"} \subseteq Handshaking
BY DEF After, Handshaking

LEMMA HandshakeStepPipe ==
  ASSUME IInv, PipeInv, client.life # "none", conn.state \in Handshaking,
         NEW base, JobsOK(base), Jobs(base) \subseteq {"mark"}, HandshakeStep(base),
         UNCHANGED <<input, app>>
  PROVE  PipeInv'
<1>1. ~Off(conn) /\ Quiet(conn) /\ NoRead(base) /\ OneRead(base)
  BY Facts, MarksOnly DEF Off, Handshaking, Struct, JobsFit
<1>2. ASSUME NEW state \in Handshaking, conn' = [conn EXCEPT !.state = state],
             jobs' = <<"handshake">> \o base, UNCHANGED <<client, pcb, server>>
      PROVE  PipeInv'
  <2>1. conn'.state = state /\ Quiet(conn') /\ conn'.done = conn.done /\ conn'.data = conn.data
    BY <1>1, <1>2, Facts DEF Quiet, ConnOK, ConnFields
  <2>2. Head(jobs') = "handshake" /\ Tail(jobs') = base /\ jobs' # <<>> /\ OneRead(jobs')
    BY <1>1, <1>2, JobsPush
  <2>3. ~Off(conn') /\ state \notin {"up", "none", "freed"}
    BY <2>1 DEF Off, Handshaking
  <2>4. JobsFit(conn', jobs')
    BY <2>1, <2>2, <2>3 DEF JobsFit, Quiet
  <2>5. RestFits(client, conn', jobs') /\ ClientFits(client, conn')
    BY <1>1, <2>1, <2>3, Facts DEF Struct, RestFits, ClientFits, Quiet, Handshaking
  <2>6. UpFits(client, conn', input, app, server) /\ DownFits(client, pcb, conn', app, server)
    BY <1>1, <2>1, <2>3, Facts DEF UpFits, DownFits
  <2> QED
    BY <1>2, <2>4, <2>5, <2>6 DEF PipeInv, Untouched, PcbLive
<1>3. CASE SocksUp(base)
  <2> DEFINE j == If(client.buf # <<>>, "send") \o base
  <2>1. /\ client'.callbacks = client.callbacks \cup (IF ~client.clientClosed THEN {"sent"} ELSE {})
        /\ client'.life = client.life /\ client'.buf = client.buf /\ client'.rest = client.rest
        /\ client'.clientClosed = client.clientClosed /\ client'.socksClosed = client.socksClosed
    BY <1>3, Facts DEF SocksUp, ClientOK, ClientFields
  <2>2. /\ conn'.state = "up" /\ conn'.done = 0 /\ conn'.data = <<>> /\ ~conn'.recvWait
    BY <1>1, <1>3, Facts DEF SocksUp, ConnOK, ConnFields, Quiet
  <2>3. JobsOK(j) /\ NoRead(j) /\ OneRead(j) /\ "handshake" \notin Jobs(j)
    <3>1. CASE client.buf # <<>>
      <4>1. j = <<"send">> \o base
        BY <3>1 DEF If
      <4>2. Jobs(j) = {"send"} \cup Jobs(base)
        BY <4>1, JobsPush
      <4>3. NoRead(j) /\ "handshake" \notin Jobs(j)
        BY <4>2 DEF NoRead, Reading
      <4> HIDE DEF j
      <4> QED
        BY <4>1, <4>3, PushJob, NoReadOne DEF JobNames
    <3>2. CASE ~(client.buf # <<>>)
      <4>1. j = base
        BY <3>2 DEF If, JobsOK
      <4> QED
        BY <1>1, <4>1, MarksOnly
    <3> QED
      BY <3>1, <3>2
  <2>4. /\ OneRead(jobs') /\ "handshake" \notin Jobs(jobs')
    <3> DEFINE open == ~client.clientClosed
    <3>1. jobs' = If(open, "recv") \o j
      BY <1>3 DEF SocksUp
    <3> HIDE DEF j
    <3>2. CASE open
      <4>1. jobs' = <<"recv">> \o j
        BY <3>1, <3>2 DEF If
      <4> QED
        BY <2>3, <4>1, JobsPush
    <3>3. CASE ~open
      <4>1. jobs' = j
        BY <2>3, <3>1, <3>3 DEF If, JobsOK
      <4> QED
        BY <2>3, <4>1
    <3> QED
      BY <3>2, <3>3
  <2>5. JobsFit(conn', jobs')
    BY <2>2, <2>4 DEF JobsFit, Off, Handshaking
  <2>6. RestFits(client', conn', jobs') /\ ClientFits(client', conn') /\ (Open(client') <=> Open(client))
    BY <1>1, <2>1, <2>2, Facts DEF Struct, RestFits, ClientFits, Open, Off, Handshaking
  <2>7. UpFits(client', conn', input', app', server')
    <3>1. conn.done = 0 /\ ("recv" \in client'.callbacks <=> "recv" \in client.callbacks)
      BY <1>1, <2>1 DEF Quiet
    <3> QED
      BY <1>1, <1>3, <2>1, <2>2, <3>1, Facts DEF UpFits, SocksUp, Off
  <2>8. DownFits(client', pcb', conn', app', server')
    <3>1. conn.data = <<>>
      BY <1>1 DEF Quiet
    <3> QED
      BY <1>1, <1>3, <2>1, <2>2, <2>6, <3>1, Facts DEF DownFits, SocksUp, Off
  <2> QED
    BY <1>3, <2>1, <2>5, <2>6, <2>7, <2>8 DEF PipeInv, Untouched, PcbLive, SocksUp
<1>4. CASE HandshakeFails
  BY <1>1, <1>4, FreeSocksInv DEF HandshakeFails
<1> QED
  BY <1>2, <1>3, <1>4, AfterStates DEF HandshakeStep
LEMMA HandshakePipe == IInv /\ PipeInv /\ (HandshakeJob \/ HandshakeEvent) => PipeInv'
<1> SUFFICES ASSUME IInv, PipeInv, HandshakeJob \/ HandshakeEvent PROVE PipeInv'
  OBVIOUS
<1>1. CASE HandshakeJob
  <2>1. /\ client.life # "none" /\ JobsOK(jobs) /\ JobsOK(Tail(jobs)) /\ jobs # <<>>
        /\ Head(jobs) = "handshake" /\ UNCHANGED <<input, app>>
    BY <1>1, TopJob DEF HandshakeJob, Top
  <2>2. Jobs(jobs) = {"handshake"} \cup Jobs(Tail(jobs)) /\ JobsFit(conn, jobs)
    BY <2>1, JobsPop, Facts DEF Struct
  <2>3. conn.state \in Handshaking /\ Jobs(Tail(jobs)) \subseteq {"mark"}
    BY <2>2 DEF JobsFit, Off
  <2>4. CASE HandshakeStep(Tail(jobs))
    BY <2>1, <2>3, <2>4, HandshakeStepPipe
  <2>5. CASE HandshakeWaits
    <3>1. JobsFit(conn, jobs') /\ RestFits(client, conn, jobs')
      <4>1. jobs' = Tail(jobs) /\ OneRead(jobs') /\ NoRead(jobs') /\ "handshake" \notin Jobs(jobs')
        BY <2>3, <2>5, MarksOnly DEF HandshakeWaits
      <4>2. conn.data = <<>>
        BY <2>2, <2>3 DEF JobsFit, Quiet
      <4> QED
        BY <2>2, <2>3, <4>1, <4>2 DEF JobsFit, PipeInv, RestFits
    <3> QED
      BY <2>1, <2>5, <3>1 DEF HandshakeWaits, PipeInv, Untouched, PcbLive
  <2> QED
    BY <1>1, <2>4, <2>5 DEF HandshakeJob
<1>2. CASE HandshakeEvent
  <2>1. client.life # "none" /\ conn.state \in Handshaking
    BY <1>2, AfterStates DEF HandshakeEvent, IInv, Fresh, InHandshake, Handshaking
  <2> QED
    BY <1>2, <2>1, NoJobs, JobsNone, HandshakeStepPipe DEF HandshakeEvent
<1> QED
  BY <1>1, <1>2

(* What a write takes of the buffer reaches ss-local in its place.         *)
LEMMA ConnectionSendPipe ==
  ASSUME IInv, PipeInv, client.life # "none", conn.state = "up",
         NEW c, DOMAIN c = ConnFields, c.state = "up", c.busy = conn.busy, c.done = conn.done,
         c.data = conn.data,
         NEW base, JobsOK(base), JobsFit(c, base), RestFits(client, c, base),
         ConnectionSend(c, base), UNCHANGED <<input, app>>
  PROVE  PipeInv'
<1>0. ~Off(conn)
  BY DEF Off
<1>1. CASE FreeSocks(client, pcb) /\ UNCHANGED server
  BY <1>0, <1>1, FreeSocksInv
<1>2. ASSUME NEW k \in 1..c.busy,
             server' = [server EXCEPT !.got = @ \o SubSeq(client.buf, 1, k)],
             conn' = [c EXCEPT !.busy = 0, !.done = k],
             jobs' = <<"sendDone">> \o base, UNCHANGED <<client, pcb>>
      PROVE  PipeInv'
  <2>1. /\ conn.busy \in Nat /\ conn.busy <= Len(client.buf) /\ conn.done \in Nat
        /\ client.buf \in Seq(Int) /\ Len(client.buf) \in Nat
        /\ DOMAIN server = {"sent", "fin", "reset", "read", "got"}
    BY Facts DEF ConnOK, ClientOK, ServerOK
  <2>2. k \in Nat /\ k <= Len(client.buf) /\ conn.busy > 0 /\ k > 0
    BY <2>1
  <2>3. conn.done = 0
    BY <2>1, <2>2, Facts DEF Struct, JobsFit
  <2>4. /\ conn'.state = "up" /\ conn'.done = k /\ conn'.busy = 0 /\ conn'.data = c.data
        /\ conn'.recvWait = c.recvWait /\ ~Off(conn')
    BY <1>2 DEF ConnFields, Off
  <2>5. server'.got = server.got \o SubSeq(client.buf, 1, k) /\ ServerOK(server')
        /\ server'.read = server.read
    BY <1>2, <2>1, Facts DEF ServerOK
  <2>6. UpFits(client, conn', input, app, server')
    <3>1. /\ Piece(server.got, 0) /\ Len(server.got) \in Nat
          /\ Piece(client.buf, Len(server.got)) /\ Len(server.got) + Len(client.buf) <= app.sent
          /\ "recv" \in client.callbacks => Len(server.got) + Len(client.buf) + Due(input) = app.sent
      <4>1. Piece(server.got, 0) /\ Len(server.got) \in Nat
        BY Facts, PieceLen DEF UpFits
      <4>2. Len(server.got) - conn.done = Len(server.got)
        BY <2>3, <4>1
      <4> QED
        BY <1>0, <4>1, <4>2, Facts DEF UpFits
    <3>2. /\ Piece(SubSeq(client.buf, 1, k), Len(server.got)) /\ Len(SubSeq(client.buf, 1, k)) = k
      BY <2>2, <3>1, PieceFront
    <3>3. Piece(server'.got, 0) /\ Len(server'.got) = Len(server.got) + k
      <4>1. 0 + Len(server.got) = Len(server.got)
        BY <3>1
      <4> QED
        BY <2>5, <3>1, <3>2, <4>1, PieceConcat
    <3>4. Len(server'.got) - conn'.done = Len(server.got)
      BY <2>2, <2>4, <3>1, <3>3
    <3>5. Len(server'.got) <= app.sent
      <4>1. app.sent \in Nat
        BY Facts DEF InputOK
      <4>2. Len(server.got) + k <= Len(server.got) + Len(client.buf)
        BY <2>1, <2>2, <3>1
      <4> QED
        BY <2>1, <2>2, <3>1, <3>3, <4>1, <4>2
    <3>6. Len(server'.got) - conn'.done >= 0
      BY <3>1, <3>4
    <3>7. Piece(client.buf, Len(server'.got) - conn'.done)
      BY <3>1, <3>4, Zenon
    <3> QED
      BY <3>1, <3>3, <3>4, <3>5, <3>6, <3>7 DEF UpFits
  <2>7. DownFits(client, pcb, conn', app, server')
    BY <1>0, <2>4, <2>5, Facts DEF DownFits
  <2>8. JobsFit(conn', jobs') /\ RestFits(client, conn', jobs')
    <3>1. Jobs(jobs') = {"sendDone"} \cup Jobs(base) /\ OneRead(jobs') /\ (NoRead(jobs') <=> NoRead(base))
      BY <1>2, JobsPush DEF Reading, NoRead, JobsFit
    <3> QED
      BY <2>4, <3>1 DEF JobsFit, RestFits, Handshaking
  <2>9. ClientFits(client, conn')
    BY <2>4, Facts DEF Struct, ClientFits
  <2> QED
    BY <1>2, <2>5, <2>6, <2>7, <2>8, <2>9 DEF PipeInv, Untouched, PcbLive
<1> QED
  BY <1>1, <1>2 DEF ConnectionSend

(* What is read of ss-local follows what was read before.                  *)
LEMMA ConnectionRecvPipe ==
  ASSUME IInv, PipeInv, client.life # "none", conn.state = "up",
         NEW c, DOMAIN c = ConnFields, c.state = "up", c.busy = conn.busy, c.done = conn.done,
         ~c.recvWait, NEW base, JobsOK(base), NoRead(base), "handshake" \notin Jobs(base),
         Open(client) => client.rest = <<>> /\ conn.data = <<>>,
         ConnectionRecv(c, base), UNCHANGED <<input, app>>
  PROVE  PipeInv'
<1>0. ~Off(conn)
  BY DEF Off
<1>1. CASE FreeSocks(client, pcb) /\ UNCHANGED server
  BY <1>0, <1>1, FreeSocksInv
<1>2. ASSUME NEW k \in 1..Lesser(Unread, RecvSize),
             conn' = [c EXCEPT !.data = Bytes(server.read, server.read + k)],
             server' = [server EXCEPT !.read = @ + k],
             jobs' = <<"recvDone">> \o base, UNCHANGED <<client, pcb>>
      PROVE  PipeInv'
  <2>1. /\ server.read \in Nat /\ server.sent \in Nat /\ server.read <= server.sent
        /\ DOMAIN server = {"sent", "fin", "reset", "read", "got"}
    BY Facts DEF ServerOK
  <2>2. k \in Nat /\ k > 0 /\ server.read + k <= server.sent
    <3>1. RecvSize \in Nat
      BY SizesAssumption
    <3> QED
      BY <2>1, <3>1 DEF Lesser, Unread
  <2>3. ServerOK(server') /\ server'.got = server.got /\ server'.read = server.read + k
    BY <1>2, <2>1, <2>2 DEF ServerOK
  <2>4. /\ conn'.state = "up" /\ conn'.done = conn.done /\ conn'.busy = conn.busy
        /\ ~conn'.recvWait /\ ~Off(conn') /\ conn'.data = Bytes(server.read, server.read + k)
    BY <1>2 DEF ConnFields, Off
  <2>5. UpFits(client, conn', input, app, server')
    BY <1>0, <2>3, <2>4, Facts DEF UpFits
  <2>6. DownFits(client, pcb, conn', app, server')
    <3> DEFINE queued == Len(app.got) + Len(pcb.queue)
               known == queued + Len(client.rest)
    <3>1. /\ Len(app.got) \in Nat /\ Len(pcb.queue) \in Nat /\ queued <= server.read
          /\ Piece(app.got, 0) /\ Piece(pcb.queue, Len(app.got)) /\ Len(pcb.queue) <= SndBuf
      BY Facts, DownNumbers DEF DownFits
    <3>2. ASSUME Open(client) PROVE known = server.read /\ Piece(client.rest, queued)
      <4>1. conn.data = <<>> /\ client.rest = <<>> /\ Len(<<>>) = 0
        BY <3>2
      <4>2. known + Len(conn.data) = server.read /\ Piece(client.rest, queued)
        BY <1>0, <3>2, Facts DEF DownFits
      <4>3. \A x, y \in Nat : x + y + 0 + 0 = server.read => x + y + 0 = server.read
        OBVIOUS
      <4> QED
        BY <3>1, <4>1, <4>2, <4>3
    <3>3. Piece(conn'.data, server.read) /\ Len(conn'.data) = k
      BY <2>1, <2>2, <2>4, PieceBytes
    <3>4. queued <= server'.read /\ server.read <= server'.read
      <4>1. \A x, y \in Nat : x + y <= server.read => x + y <= server.read + k
        BY <2>1, <2>2
      <4>2. server.read <= server.read + k
        BY <2>1, <2>2
      <4> QED
        BY ONLY <2>3, <3>1, <4>1, <4>2
    <3> HIDE DEF queued
    <3> QED
      BY <2>3, <3>1, <3>2, <3>3, <3>4 DEF DownFits, queued
  <2>7. /\ Jobs(jobs') = {"recvDone"} \cup Jobs(base) /\ OneRead(jobs')
    BY <1>2, JobsPush
  <2>8. JobsFit(conn', jobs') /\ RestFits(client, conn', jobs')
    BY <2>4, <2>7, Facts DEF Struct, JobsFit, RestFits, Handshaking
  <2>9. ClientFits(client, conn')
    BY <2>4, Facts DEF Struct, ClientFits
  <2> QED
    BY <1>2, <2>3, <2>5, <2>6, <2>8, <2>9 DEF PipeInv, Untouched, PcbLive
<1> QED
  BY <1>1, <1>2 DEF ConnectionRecv

LEMMA SendRecvPipe == IInv /\ PipeInv /\ (SendJob \/ RecvJob) => PipeInv'
<1> SUFFICES ASSUME IInv, PipeInv, SendJob \/ RecvJob PROVE PipeInv'
  OBVIOUS
<1>1. /\ client.life # "none" /\ JobsOK(jobs) /\ JobsOK(Tail(jobs)) /\ jobs # <<>>
      /\ Head(jobs) \in {"send", "recv"} /\ UNCHANGED <<input, app>>
  BY TopJob DEF SendJob, RecvJob, Top
<1>2. Jobs(jobs) = {Head(jobs)} \cup Jobs(Tail(jobs)) /\ JobsFit(conn, jobs)
  BY <1>1, JobsPop, Facts DEF Struct
<1>3. conn.state = "up"
  BY <1>1, <1>2 DEF JobsFit, Off
<1>4. DOMAIN conn = ConnFields /\ RestFits(client, conn, jobs)
  BY <1>1, Facts DEF ConnOK, Struct
<1>5. OneRead(Tail(jobs)) /\ (Head(jobs) = "recv" => NoRead(Tail(jobs)))
  BY <1>1, <1>2, JobsPop DEF JobsFit, Reading
<1>6. NoRead(jobs) => NoRead(Tail(jobs))
  BY <1>2 DEF NoRead
<1>7. CASE SendJob
  <2>1. JobsFit(conn, Tail(jobs)) /\ RestFits(client, conn, Tail(jobs))
    BY <1>2, <1>3, <1>4, <1>5, <1>6, <1>7 DEF SendJob, Top, JobsFit, RestFits, Off, Handshaking
  <2>2. CASE ConnectionSend(conn, Tail(jobs))
    BY <1>1, <1>3, <1>4, <2>1, <2>2, ConnectionSendPipe
  <2>3. CASE /\ conn' = [conn EXCEPT !.sendWait = TRUE] /\ jobs' = Tail(jobs)
             /\ UNCHANGED <<client, pcb, server>>
    <3>1. /\ conn'.state = conn.state /\ conn'.busy = conn.busy /\ conn'.done = conn.done
          /\ conn'.recvWait = conn.recvWait /\ conn'.data = conn.data
      BY <1>4, <2>3 DEF ConnFields
    <3>2. /\ JobsFit(conn', jobs') /\ RestFits(client, conn', jobs') /\ ClientFits(client, conn')
          /\ UpFits(client, conn', input, app, server) /\ DownFits(client, pcb, conn', app, server)
      BY <1>1, <2>1, <2>3, <3>1, Facts
         DEF JobsFit, RestFits, Struct, ClientFits, UpFits, DownFits, Off, Quiet
    <3> QED
      BY <1>1, <2>3, <3>2 DEF PipeInv, Untouched, PcbLive
  <2> QED
    BY <1>7, <2>2, <2>3 DEF SendJob
<1>8. CASE RecvJob
  <2>1. Head(jobs) = "recv" /\ NoRead(Tail(jobs)) /\ ~NoRead(jobs)
    BY <1>2, <1>5, <1>8 DEF RecvJob, Top, NoRead, Reading
  <2>2. ~conn.recvWait /\ "handshake" \notin Jobs(Tail(jobs))
    BY <1>2, <1>3, <2>1 DEF JobsFit
  <2>3. Open(client) => client.rest = <<>> /\ conn.data = <<>>
    <3>1. "recvDone" \notin Jobs(jobs)
      BY <1>2, <2>1 DEF NoRead, Reading
    <3> QED
      BY <1>4, <2>1, <3>1 DEF RestFits
  <2>4. CASE ConnectionRecv(conn, Tail(jobs))
    BY <1>1, <1>3, <1>4, <2>1, <2>2, <2>3, <2>4, ConnectionRecvPipe
  <2>5. CASE /\ conn' = [conn EXCEPT !.recvWait = TRUE] /\ jobs' = Tail(jobs)
             /\ UNCHANGED <<client, pcb, server>>
    <3>1. /\ conn'.state = conn.state /\ conn'.busy = conn.busy /\ conn'.done = conn.done
          /\ conn'.data = conn.data
      BY <1>4, <2>5 DEF ConnFields
    <3>2. JobsFit(conn', jobs') /\ RestFits(client, conn', jobs')
      BY <1>2, <1>3, <1>5, <2>1, <2>2, <2>3, <2>5, <3>1 DEF JobsFit, RestFits, Off, Handshaking
    <3>3. ClientFits(client, conn')
          /\ UpFits(client, conn', input, app, server) /\ DownFits(client, pcb, conn', app, server)
      BY <1>1, <2>5, <3>1, Facts DEF Struct, ClientFits, UpFits, DownFits, Off
    <3> QED
      BY <1>1, <2>5, <3>2, <3>3 DEF PipeInv, Untouched, PcbLive
  <2> QED
    BY <1>8, <2>4, <2>5 DEF RecvJob
<1> QED
  BY <1>7, <1>8

LEMMA FdEventPipe == IInv /\ PipeInv /\ FdEvent => PipeInv'
<1> SUFFICES ASSUME IInv, PipeInv, FdEvent PROVE PipeInv'
  OBVIOUS
<1>1. client.life # "none" /\ jobs = <<>> /\ conn.state = "up" /\ UNCHANGED <<input, app>>
  BY DEF FdEvent, IInv, Fresh, Idle
<1>2. /\ DOMAIN conn = ConnFields /\ JobsFit(conn, jobs) /\ RestFits(client, conn, jobs)
  BY <1>1, Facts DEF ConnOK, Struct
<1>3. PICK write, read, hup \in BOOLEAN :
        /\ write => conn.sendWait
        /\ read => conn.recvWait /\ Readable
        /\ hup = server.reset
        /\ LET send == conn.sendWait /\ (write \/ hup)
               recv == conn.recvWait /\ (read \/ hup)
               c == [conn EXCEPT !.hup = hup, !.sendWait = @ /\ ~send, !.recvWait = @ /\ ~recv]
           IN \/ send /\ ConnectionSend(c, If(recv, "recv"))
              \/ recv /\ ~send /\ ConnectionRecv(c, <<>>)
              \/ /\ hup /\ ~send /\ ~recv
                 /\ conn' = c /\ UNCHANGED <<client, pcb, jobs, short, server>>
  BY Zenon DEF FdEvent
<1> DEFINE send == conn.sendWait /\ (write \/ hup)
           recv == conn.recvWait /\ (read \/ hup)
           c == [conn EXCEPT !.hup = hup, !.sendWait = @ /\ ~send, !.recvWait = @ /\ ~recv]
<1>4. /\ DOMAIN c = ConnFields /\ c.state = conn.state /\ c.busy = conn.busy /\ c.done = conn.done
      /\ c.data = conn.data /\ c.recvWait = (conn.recvWait /\ ~recv)
  BY <1>2 DEF ConnFields
<1>5. \/ ConnectionSend(c, If(recv, "recv"))
      \/ recv /\ ConnectionRecv(c, <<>>)
      \/ conn' = c /\ ~recv /\ UNCHANGED <<client, pcb, jobs, server>>
  BY <1>3
<1>6. recv => conn.recvWait
  OBVIOUS
<1> HIDE DEF c, send, recv
<1>7. Open(client) /\ conn.recvWait => client.rest = <<>> /\ conn.data = <<>>
  BY <1>1, <1>2, JobsNone DEF RestFits
<1>8. Open(client) => conn.data = <<>>
  BY <1>1, <1>2, JobsNone DEF RestFits
<1>9. CASE ConnectionSend(c, If(recv, "recv"))
  <2> DEFINE base == If(recv, "recv")
  <2>1. JobsOK(base) /\ Jobs(base) \subseteq {"recv"} /\ OneRead(base) /\ (~recv => NoRead(base))
    <3>1. CASE recv
      <4>1. base = <<"recv">> /\ JobsOK(<<"recv">>)
        BY <3>1 DEF If, JobsOK, JobNames
      <4>2. Jobs(<<"recv">>) = {"recv"} /\ OneRead(<<"recv">>)
        BY DEF Jobs, OneRead
      <4> QED
        BY <3>1, <4>1, <4>2
    <3>2. CASE ~recv
      BY <3>2, NoJobs, JobsNone DEF If
    <3> QED
      BY <3>1, <3>2
  <2> HIDE DEF base
  <2>2. JobsFit(c, base) /\ RestFits(client, c, base)
    BY <1>1, <1>2, <1>4, <1>6, <1>7, <1>8, <2>1 DEF JobsFit, RestFits, Off, Handshaking
  <2>3. ConnectionSend(c, base)
    BY <1>9 DEF base
  <2> QED
    BY <1>1, <1>4, <2>1, <2>2, <2>3, ConnectionSendPipe
<1>10. CASE recv /\ ConnectionRecv(c, <<>>)
  BY <1>1, <1>4, <1>6, <1>7, <1>10, NoJobs, JobsNone, ConnectionRecvPipe
<1>11. CASE conn' = c /\ ~recv /\ UNCHANGED <<client, pcb, jobs, server>>
  <2>1. /\ conn'.state = conn.state /\ conn'.busy = conn.busy /\ conn'.done = conn.done
        /\ conn'.data = conn.data /\ (conn'.recvWait <=> conn.recvWait)
    BY <1>4, <1>11
  <2>2. /\ JobsFit(conn', jobs) /\ RestFits(client, conn', jobs) /\ ClientFits(client, conn')
        /\ UpFits(client, conn', input, app, server) /\ DownFits(client, pcb, conn', app, server)
    BY <1>1, <1>2, <2>1, Facts DEF JobsFit, RestFits, Struct, ClientFits, UpFits, DownFits, Off, Quiet
  <2> QED
    BY <1>1, <1>11, <2>2 DEF PipeInv, Untouched, PcbLive
<1> QED
  BY <1>5, <1>9, <1>10, <1>11

(* A write is done: the buffer begins where ss-local's part ends.          *)
LEMMA SendDonePipe == IInv /\ PipeInv /\ SendDone => PipeInv'
<1> SUFFICES ASSUME IInv, PipeInv, SendDone PROVE PipeInv'
  OBVIOUS
<1> DEFINE c == [client EXCEPT !.buf = Unsent(client)]
           p == Confirm(c, pcb)
<1>1. /\ client.life # "none" /\ JobsOK(jobs) /\ JobsOK(Tail(jobs)) /\ jobs # <<>>
      /\ Head(jobs) = "sendDone" /\ UNCHANGED <<input, app, server>>
  BY TopJob DEF SendDone, Top
<1>2. Jobs(jobs) = {"sendDone"} \cup Jobs(Tail(jobs)) /\ JobsFit(conn, jobs) /\ OneRead(Tail(jobs))
  BY <1>1, JobsPop, Facts DEF Struct, JobsFit
<1>3. conn.state = "up" /\ ~Off(conn)
  BY <1>1, <1>2 DEF JobsFit, Off
<1>4. /\ DOMAIN conn = ConnFields /\ conn.done \in Nat /\ conn.done <= Len(client.buf)
      /\ DOMAIN client = ClientFields
      /\ RestFits(client, conn, jobs) /\ ClientFits(client, conn)
  BY <1>1, Facts DEF ConnOK, Struct, ClientOK
<1>5. /\ DOMAIN c = ClientFields /\ c.buf = Unsent(client) /\ c.rest = client.rest
      /\ c.callbacks = client.callbacks /\ c.life = client.life /\ c.socksUp = client.socksUp
      /\ c.clientClosed = client.clientClosed /\ c.socksClosed = client.socksClosed
  BY <1>4 DEF ClientFields
<1>6. PcbOK(p) /\ p.state = pcb.state /\ p.queue = pcb.queue
  <2>1. PcbOK(pcb)
    BY <1>1, Facts
  <2> HIDE DEF c
  <2> QED
    BY <1>4, <2>1 DEF Confirm, PcbOK
<1> HIDE DEF c, p
<1>7. UpFits(c, [conn EXCEPT !.done = 0, !.busy = Len(c.buf)], input, app, server)
  <2> DEFINE k == [conn EXCEPT !.done = 0, !.busy = Len(c.buf)]
             from == Len(server.got) - conn.done
  <2>1. k.done = 0 /\ k.state = "up"
    BY <1>3, <1>4 DEF ConnFields
  <2>2. /\ Len(server.got) \in Nat /\ Piece(server.got, 0) /\ Len(server.got) <= app.sent
        /\ Piece(client.buf, from) /\ from + Len(client.buf) <= app.sent
        /\ "recv" \in client.callbacks => from + Len(client.buf) + Due(input) = app.sent
    BY <1>1, <1>3, Facts, PieceLen DEF UpFits
  <2>3. from \in Int /\ from + conn.done = Len(server.got) /\ Len(client.buf) \in Nat
    BY <1>4, <2>2, PieceLen
  <2>4. Piece(c.buf, Len(server.got)) /\ Len(c.buf) = Len(client.buf) - conn.done
    BY <1>4, <1>5, <2>2, <2>3, PieceDrop DEF Unsent
  <2>5. Len(server.got) - 0 + Len(c.buf) = from + Len(client.buf) /\ Len(server.got) - 0 = Len(server.got)
    BY <1>4, <2>2, <2>3, <2>4
  <2> HIDE DEF k, from
  <2> QED
    BY <1>1, <1>5, <2>1, <2>2, <2>4, <2>5 DEF UpFits, k
<1>8. DownFits(c, p, conn, app, server)
  BY <1>1, <1>5, <1>6, Facts DEF DownFits, Open
<1>9. CASE FreeSocks(c, p)
  <2>1. Ending(c, p)
    BY <1>1, <1>3, <1>4, <1>5, <1>6, <1>9, Facts, FreeSocksEnds
       DEF Struct, ClientFits, Open, LiveState, Off
  <2>2. UpFits(client', conn', input', app', server')
    <3>1. Off(conn')
      BY <1>1, <1>9, FreeConnFits DEF FreeSocks, Off
    <3> QED
      BY <1>1, <2>1, <3>1, Facts DEF UpFits, Ending
  <2> QED
    BY <1>1, <1>8, <2>1, <2>2, EndingDown, Facts
       DEF Ending, Struct, PipeInv, Untouched, LiveState, PcbLive
<1>10. CASE /\ client' = c /\ pcb' = p
            /\ conn' = [conn EXCEPT !.done = 0, !.busy = Len(c.buf)]
            /\ jobs' = If(c.buf # <<>>, "send") \o Tail(jobs)
  <2>1. /\ conn'.state = "up" /\ conn'.done = 0 /\ conn'.data = conn.data
        /\ conn'.recvWait = conn.recvWait
    BY <1>3, <1>4, <1>10 DEF ConnFields
  <2>2. /\ OneRead(jobs') /\ Jobs(Tail(jobs)) \subseteq Jobs(jobs')
        /\ Jobs(jobs') \subseteq {"send"} \cup Jobs(Tail(jobs))
    <3>1. CASE c.buf # <<>>
      <4>1. jobs' = <<"send">> \o Tail(jobs)
        BY <1>10, <3>1 DEF If
      <4> QED
        BY <1>1, <1>2, <4>1, JobsPush DEF Reading
    <3>2. CASE ~(c.buf # <<>>)
      <4>1. jobs' = Tail(jobs)
        BY <1>1, <1>10, <3>2 DEF If, JobsOK
      <4> QED
        BY <1>2, <4>1
    <3> QED
      BY <3>1, <3>2
  <2>3. /\ NoRead(jobs) => NoRead(jobs')
        /\ "recvDone" \in Jobs(jobs) => "recvDone" \in Jobs(jobs')
    BY <1>2, <2>2 DEF NoRead, Reading
  <2>4. JobsFit(conn', jobs') /\ RestFits(c, conn', jobs')
    BY <1>2, <1>3, <1>4, <1>5, <2>1, <2>2, <2>3 DEF JobsFit, RestFits, Off, Handshaking, Open
  <2>5. ClientFits(c, conn') /\ (Open(c) <=> LiveState(p))
    BY <1>1, <1>3, <1>4, <1>5, <1>6, <2>1, Facts DEF Struct, ClientFits, Open, LiveState
  <2>6. DownFits(c, p, conn', app, server)
    BY <1>3, <1>8, <2>1 DEF DownFits, Off
  <2> QED
    BY <1>1, <1>5, <1>7, <1>10, <2>4, <2>5, <2>6, Facts
       DEF PipeInv, Untouched, LiveState, PcbLive
<1> QED
  BY <1>9, <1>10 DEF SendDone, c, p

-----------------------------------------------------------------------------
(* What client_socks_recv_send_out queues follows what is queued.          *)
LEMMA QueuedFits ==
  ASSUME NEW c, DOMAIN c = ClientFields, NEW p, PcbOK(p), NEW k, ServerOK(server), Open(c),
         DownFits(c, p, k, app, server), NEW n \in {0, Queueable(c, p)}
  PROVE  /\ DownFits(Left(c, n), Queued(c, p, n), k, app, server)
         /\ PcbOK(Queued(c, p, n)) /\ Queued(c, p, n).state = p.state
         /\ DOMAIN Left(c, n) = ClientFields /\ Left(c, n).rest = Drop(c.rest, n)
         /\ Left(c, n).callbacks = c.callbacks /\ Left(c, n).life = c.life
         /\ Left(c, n).clientClosed = c.clientClosed /\ Left(c, n).socksClosed = c.socksClosed
         /\ Left(c, n).socksUp = c.socksUp /\ Left(c, n).buf = c.buf
         /\ c.rest = <<>> => Left(c, n).rest = <<>>
<1> DEFINE left == Left(c, n)
           queued == Queued(c, p, n)
<1>1. /\ DOMAIN left = ClientFields /\ left.rest = Drop(c.rest, n)
      /\ left.callbacks = c.callbacks /\ left.life = c.life
      /\ left.clientClosed = c.clientClosed /\ left.socksClosed = c.socksClosed
      /\ left.socksUp = c.socksUp /\ left.buf = c.buf
  BY DEF Left, ClientFields
<1>2. PcbOK(queued) /\ queued.state = p.state /\ queued.queue = p.queue \o SubSeq(c.rest, 1, n)
  BY DEF Queued, PcbOK
<1> HIDE DEF left, queued
<1> DEFINE got == Len(app.got)
           used == Len(p.queue)
           rest == Len(c.rest)
<1>3. /\ got \in Nat /\ used \in Nat /\ rest \in Nat /\ SndBuf \in Nat /\ server.read \in Nat
      /\ used <= SndBuf
  BY PieceLen, SizesAssumption DEF DownFits, ServerOK
<1>4. n \in {0, Lesser(rest, SndBuf - used)}
  BY DEF Queueable
<1>5. /\ Piece(app.got, 0) /\ Piece(p.queue, got) /\ Piece(c.rest, got + used)
      /\ got + used + rest <= server.read
      /\ ~Off(k) => Piece(k.data, got + used + rest) /\ got + used + rest + Len(k.data) = server.read
  BY DEF DownFits
<1> HIDE DEF got, used, rest
<1>6. n \in Nat /\ n <= rest /\ used + n <= SndBuf
  BY <1>3, <1>4 DEF Lesser
<1>7. Piece(SubSeq(c.rest, 1, n), got + used) /\ Len(SubSeq(c.rest, 1, n)) = n
  BY <1>3, <1>5, <1>6, PieceFront DEF rest
<1>8. Piece(queued.queue, got) /\ Len(queued.queue) = used + n
  <2>1. Piece(p.queue, got) /\ Piece(SubSeq(c.rest, 1, n), got + Len(p.queue)) /\ got \in Int
    BY <1>3, <1>5, <1>7 DEF used
  <2>2. /\ Piece(p.queue \o SubSeq(c.rest, 1, n), got)
        /\ Len(p.queue \o SubSeq(c.rest, 1, n)) = Len(p.queue) + Len(SubSeq(c.rest, 1, n))
    BY <2>1, PieceConcat
  <2> QED
    BY <1>2, <1>7, <2>2 DEF used
<1>9. Piece(left.rest, got + used + n) /\ Len(left.rest) = rest - n
  <2>1. Piece(c.rest, got + used) /\ got + used \in Int /\ n \in Nat /\ n <= Len(c.rest)
    BY <1>3, <1>5, <1>6 DEF rest
  <2>2. Piece(Drop(c.rest, n), got + used + n) /\ Len(Drop(c.rest, n)) = Len(c.rest) - n
    BY <2>1, PieceDrop
  <2> QED
    BY <1>1, <2>2 DEF rest
<1>10. DownFits(left, queued, k, app, server)
  <2>1. /\ got + (used + n) = got + used + n /\ got + used + n + (rest - n) = got + used + rest
        /\ got + used + n <= server.read
    BY <1>3, <1>5, <1>6
  <2>2. Piece(left.rest, got + (used + n))
    BY <1>9, <2>1
  <2> QED
    BY <1>5, <1>6, <1>8, <1>9, <2>1, <2>2 DEF DownFits, got
<1>11. c.rest = <<>> => left.rest = <<>>
  <2>1. left.rest \in Seq(Int)
    BY <1>9, PieceLen
  <2>2. c.rest = <<>> => Len(left.rest) = 0
    <3>1. Len(<<>>) = 0
      OBVIOUS
    <3> QED
      BY <1>3, <1>6, <1>9, <3>1 DEF rest
  <2> QED
    BY <2>1, <2>2
<1> QED
  BY <1>1, <1>2, <1>10, <1>11 DEF left, queued

LEMMA RecvDonePipe == IInv /\ PipeInv /\ RecvDone => PipeInv'
<1> SUFFICES ASSUME IInv, PipeInv, RecvDone PROVE PipeInv'
  OBVIOUS
<1> DEFINE c == [client EXCEPT !.rest = conn.data]
           k == [conn EXCEPT !.data = <<>>]
<1>1. /\ client.life # "none" /\ JobsOK(jobs) /\ JobsOK(Tail(jobs)) /\ jobs # <<>>
      /\ Head(jobs) = "recvDone" /\ UNCHANGED <<input, app, server>>
  BY TopJob DEF RecvDone, Top
<1>2. Jobs(jobs) = {"recvDone"} \cup Jobs(Tail(jobs)) /\ JobsFit(conn, jobs) /\ OneRead(Tail(jobs))
  BY <1>1, JobsPop, Facts DEF Struct, JobsFit
<1>3. conn.state = "up" /\ ~Off(conn) /\ NoRead(Tail(jobs)) /\ ~NoRead(jobs) /\ ~conn.recvWait
  BY <1>1, <1>2, JobsPop DEF JobsFit, Off, NoRead, Reading
<1>4. /\ DOMAIN conn = ConnFields /\ DOMAIN client = ClientFields /\ PcbOK(pcb)
      /\ RestFits(client, conn, jobs) /\ ClientFits(client, conn) /\ (Open(client) <=> LiveState(pcb))
      /\ Endable(client) /\ ServerOK(server) /\ (client.clientClosed => ~Open(client))
      /\ UpFits(client, conn, input, app, server) /\ DownFits(client, pcb, conn, app, server)
  BY <1>1, Facts DEF ConnOK, Struct, ClientOK
<1>5. /\ k.state = "up" /\ k.data = <<>> /\ k.done = conn.done /\ k.busy = conn.busy /\ ~k.recvWait
  BY <1>3, <1>4 DEF ConnFields
<1>6. /\ DOMAIN c = ClientFields /\ c.rest = conn.data /\ c.buf = client.buf
      /\ c.callbacks = client.callbacks /\ c.life = client.life /\ c.socksUp = client.socksUp
      /\ c.clientClosed = client.clientClosed /\ c.socksClosed = client.socksClosed
  BY <1>4 DEF ClientFields
<1> HIDE DEF c, k
<1>7. CASE client.clientClosed
  <2>1. conn' = k /\ jobs' = Tail(jobs) /\ UNCHANGED <<client, pcb>>
    BY <1>7 DEF RecvDone, k
  <2>2. JobsFit(k, jobs') /\ RestFits(client, k, jobs') /\ ClientFits(client, k)
    BY <1>2, <1>3, <1>4, <1>5, <1>7, <2>1 DEF JobsFit, RestFits, ClientFits, Off, Handshaking
  <2>3. UpFits(client, k, input, app, server) /\ DownFits(client, pcb, k, app, server)
    BY <1>3, <1>4, <1>5, <1>7 DEF UpFits, DownFits, Off
  <2> QED
    BY <1>1, <1>4, <2>1, <2>2, <2>3 DEF PipeInv, Untouched, PcbLive, LiveState
<1>8. CASE ~client.clientClosed
  <2>1. Open(client) /\ Open(c) /\ client.rest = <<>>
    BY <1>3, <1>4, <1>6, <1>8 DEF ClientFits, RestFits, Open, Off
  <2>2. DownFits(c, pcb, k, app, server)
    <3> DEFINE q == Len(app.got) + Len(pcb.queue)
    <3>1. /\ Piece(app.got, 0) /\ Piece(pcb.queue, Len(app.got)) /\ q <= server.read
          /\ Len(pcb.queue) <= SndBuf
          /\ Piece(conn.data, q + Len(<<>>)) /\ q + Len(<<>>) + Len(conn.data) = server.read
      BY <1>3, <1>4, <2>1 DEF DownFits
    <3>2. q \in Nat /\ Len(conn.data) \in Nat /\ Len(<<>>) = 0 /\ server.read \in Nat
      <4>1. /\ Len(app.got) \in Nat /\ Len(pcb.queue) \in Nat /\ server.read \in Nat
            /\ Len(<<>>) = 0
        BY <1>4, DownNumbers
      <4>2. Len(conn.data) \in Nat
        BY <3>1, PieceLen
      <4>3. \A x, y \in Nat : x + y \in Nat
        OBVIOUS
      <4> QED
        BY ONLY <4>1, <4>2, <4>3
    <3> HIDE DEF q
    <3>3. /\ Piece(conn.data, q) /\ q + Len(conn.data) = server.read
          /\ q + Len(conn.data) + Len(<<>>) = server.read
      <4>1. q + Len(<<>>) = q
        BY <3>2
      <4> QED
        BY <3>1, <3>2, <4>1
    <3>4. Piece(<<>>, q + Len(conn.data)) /\ q + Len(conn.data) <= server.read
      BY <3>2, <3>3, PieceEmpty
    <3> QED
      BY <1>5, <1>6, <3>1, <3>3, <3>4 DEF DownFits, q
  <2>3. PICK n \in {0, Queueable(c, pcb)} :
          \/ /\ client' = Left(c, n) /\ pcb' = Queued(c, pcb, n) /\ conn' = k
             /\ jobs' = If(Left(c, n).rest = <<>>, "recv") \o Tail(jobs)
          \/ AbortClient(Left(c, n), Queued(c, pcb, n), Tail(jobs))
    BY <1>8 DEF RecvDone, SendOut, Left, Queued, c, k
  <2> DEFINE left == Left(c, n)
             queued == Queued(c, pcb, n)
  <2>4. /\ DownFits(left, queued, k, app, server)
        /\ PcbOK(queued) /\ queued.state = pcb.state
        /\ DOMAIN left = ClientFields /\ left.callbacks = client.callbacks /\ left.life = client.life
        /\ left.clientClosed = client.clientClosed /\ left.socksClosed = client.socksClosed
        /\ left.socksUp = client.socksUp /\ left.buf = client.buf
    BY <1>4, <1>6, <2>1, <2>2, QueuedFits
  <2>5. UpFits(left, k, input, app, server) /\ UpFits(left, conn, input, app, server)
    BY <1>3, <1>4, <1>5, <2>4 DEF UpFits, Off
  <2> HIDE DEF left, queued
  <2>6. CASE AbortClient(left, queued, Tail(jobs))
    <3>1. JobsFit(conn, Tail(jobs))
      BY <1>2, <1>3 DEF JobsFit, Off, Handshaking
    <3>2. Endable(left)
      BY <1>3, <1>4, <2>4 DEF Endable, Handshaking
    <3>3. Ending(left, queued)
      BY <1>1, <2>4, <2>6, <3>1, <3>2, AbortClientEnds
    <3> QED
      BY <1>1, <1>4, <2>4, <2>5, <3>3, EndingInv
  <2>7. CASE /\ client' = left /\ pcb' = queued /\ conn' = k
             /\ jobs' = If(left.rest = <<>>, "recv") \o Tail(jobs)
    <3>1. /\ OneRead(jobs') /\ "handshake" \notin Jobs(jobs')
          /\ left.rest # <<>> => NoRead(jobs')
      <4>1. CASE left.rest = <<>>
        <5>1. jobs' = <<"recv">> \o Tail(jobs)
          BY <2>7, <4>1 DEF If
        <5> QED
          BY <1>1, <1>2, <1>3, <4>1, <5>1, JobsPush DEF JobsFit
      <4>2. CASE left.rest # <<>>
        <5>1. jobs' = Tail(jobs)
          BY <1>1, <2>7, <4>2 DEF If, JobsOK
        <5> QED
          BY <1>2, <1>3, <5>1 DEF JobsFit
      <4> QED
        BY <4>1, <4>2
    <3>2. JobsFit(k, jobs') /\ RestFits(left, k, jobs') /\ ClientFits(left, k)
      BY <1>2, <1>3, <1>4, <1>5, <2>4, <3>1 DEF JobsFit, RestFits, ClientFits, Off, Handshaking, Open
    <3>3. Open(left) <=> LiveState(queued)
      BY <1>4, <2>4 DEF Open, LiveState
    <3> QED
      BY <1>1, <1>4, <2>4, <2>5, <2>7, <3>2, <3>3 DEF PipeInv, Untouched, PcbLive, LiveState
  <2> QED
    BY <2>3, <2>6, <2>7 DEF left, queued
<1> QED
  BY <1>7, <1>8

-----------------------------------------------------------------------------
(* tcp_input.                                                              *)

(* A segment: what it acknowledges is at the application, what it brings   *)
(* is due.                                                                 *)
LEMMA TcpInputPipe ==
  ASSUME IInv, PipeInv, NEW acked \in Nat, acked <= Len(pcb.queue), NEW data \in Nat,
         NEW fin \in BOOLEAN, TcpInput(acked, data, fin)
  PROVE  PipeInv'
<1>1. PcbLive /\ Idle /\ UNCHANGED <<client, conn, jobs, server>> /\ client.life # "none"
  BY DEF TcpInput, IInv, Fresh, PcbLive
<1>2. /\ app'.sent = app.sent + data /\ app'.got = app.got \o SubSeq(pcb.queue, 1, acked)
      /\ pcb'.queue = Drop(pcb.queue, acked) /\ PcbLive'
      /\ Due(input') = data /\ Due(input) = 0
  BY <1>1 DEF TcpInput, PcbLive, Due, Idle
<1>3. /\ UpFits(client, conn, input, app, server) /\ DownFits(client, pcb, conn, app, server)
      /\ Open(client) /\ app.sent \in Nat /\ ServerOK(server)
  BY <1>1, Facts DEF Struct, PcbLive, LiveState, InputOK
<1>4. UpFits(client, conn, input', app', server)
  <2> DEFINE from == Len(server.got) - conn.done
             upTo == from + Len(client.buf)
  <2>1. /\ Piece(server.got, 0) /\ Len(server.got) <= app.sent
        /\ ~Off(conn) => from >= 0 /\ Piece(client.buf, from) /\ upTo <= app.sent
        /\ "recv" \in client.callbacks => upTo + 0 = app.sent
    BY <1>2, <1>3 DEF UpFits
  <2>2. /\ Len(server.got) \in Nat /\ conn.done \in Nat /\ Len(client.buf) \in Nat
    BY <1>1, <2>1, Facts, PieceLen DEF ConnOK, ClientOK
  <2>3. upTo \in Int
    BY <2>2
  <2> HIDE DEF upTo, from
  <2>4. Len(server.got) <= app'.sent /\ (upTo <= app.sent => upTo <= app'.sent)
    BY <1>2, <1>3, <2>1, <2>2, <2>3
  <2>5. upTo + 0 = app.sent => upTo + data = app'.sent
    BY <1>2, <1>3, <2>3
  <2> QED
    BY <1>1, <1>2, <2>1, <2>4, <2>5 DEF UpFits, from, upTo
<1>5. DownFits(client, pcb', conn, app', server)
  <2>1. /\ Piece(app.got, 0) /\ Piece(pcb.queue, Len(app.got))
        /\ Len(app.got) + Len(pcb.queue) <= server.read /\ Len(pcb.queue) <= SndBuf
    BY <1>3 DEF DownFits
  <2>2. /\ Piece(app'.got, 0) /\ Piece(pcb'.queue, Len(app'.got))
        /\ Len(app'.got) + Len(pcb'.queue) = Len(app.got) + Len(pcb.queue)
        /\ Len(pcb'.queue) <= SndBuf
    <3>1. SndBuf \in Nat
      BY SizesAssumption
    <3>2. app'.got = app.got \o SubSeq(pcb.queue, 1, acked) /\ pcb'.queue = Drop(pcb.queue, acked)
      BY <1>2
    <3>3. acked \in Nat /\ acked <= Len(pcb.queue)
      OBVIOUS
    <3> DEFINE u == app.got \o SubSeq(pcb.queue, 1, acked)
               v == Drop(pcb.queue, acked)
    <3>4. /\ Piece(u, 0) /\ Piece(v, Len(u)) /\ Len(u) + Len(v) = Len(app.got) + Len(pcb.queue)
          /\ Len(v) <= SndBuf
      BY <2>1, <3>1, <3>3, FrontMoves
    <3> HIDE DEF u, v
    <3>5. app'.got = u /\ pcb'.queue = v
      BY <3>2 DEF u, v
    <3> QED
      BY <3>4, <3>5
  <2> QED
    BY <1>3, <2>2 DEF DownFits
<1> QED
  BY <1>1, <1>2, <1>3, <1>4, <1>5 DEF PipeInv, Untouched

LEMMA SegmentPipe == IInv /\ PipeInv /\ AppSegment => PipeInv'
<1> SUFFICES ASSUME IInv, PipeInv, AppSegment PROVE PipeInv'
  OBVIOUS
<1>1. PICK acked \in 0..Len(pcb.queue), data \in 0..(MaxUp - app.sent), fin \in BOOLEAN :
        TcpInput(acked, data, fin)
  BY DEF AppSegment
<1>2. acked \in Nat /\ acked <= Len(pcb.queue)
  <2>1. Len(pcb.queue) \in Nat
    BY PieceLen DEF PipeInv, DownFits
  <2> QED
    BY <2>1
<1>3. data \in Nat
  BY BoundsAssumption DEF IInv, Shapes, InputOK
<1> QED
  BY <1>1, <1>2, <1>3, TcpInputPipe

LEMMA TcpSentPipe == IInv /\ PipeInv /\ TcpSent => PipeInv'
<1> SUFFICES ASSUME IInv, PipeInv, TcpSent PROVE PipeInv'
  OBVIOUS
<1> DEFINE c == [client EXCEPT !.pending = @ - input.acked]
<1>1. /\ client.life # "none" /\ input.stage = "sent" /\ jobs = <<>> /\ UNCHANGED <<app, server>>
      /\ DOMAIN input = {"stage", "acked", "data", "fin"}
  BY DEF TcpSent, IInv, Fresh, Shapes, InputOK
<1>2. /\ JobsOK(jobs) /\ JobsFit(conn, jobs) /\ DOMAIN client = ClientFields /\ PcbOK(pcb)
      /\ RestFits(client, conn, jobs) /\ ClientFits(client, conn) /\ (Open(client) <=> LiveState(pcb))
      /\ Endable(client) /\ ServerOK(server) /\ (client.clientClosed => ~Open(client))
      /\ UpFits(client, conn, input, app, server) /\ DownFits(client, pcb, conn, app, server)
  BY <1>1, Facts DEF Struct, ClientOK
<1>3. /\ DOMAIN c = ClientFields /\ c.rest = client.rest /\ c.buf = client.buf
      /\ c.callbacks = client.callbacks /\ c.life = client.life /\ c.socksUp = client.socksUp
      /\ c.clientClosed = client.clientClosed /\ c.socksClosed = client.socksClosed
  BY <1>2 DEF ClientFields
<1> HIDE DEF c
<1>4. \/ client'.clientClosed
      \/ Due(input') = Due(input)
  BY <1>1 DEF TcpSent, Killed, InputAborted, InputGoesOn, Due
<1>5. ASSUME NEW d, UpFits(d, conn, input, app, server), d.clientClosed => "recv" \notin d.callbacks,
             d.life # "none", client' = d
      PROVE  UpFits(d, conn, input', app, server)
  BY <1>4, <1>5 DEF UpFits
<1>6. UpFits(c, conn, input, app, server) /\ DownFits(c, pcb, conn, app, server) /\ Endable(c)
  BY <1>2, <1>3 DEF UpFits, DownFits, Endable, Open
<1>7. client.clientClosed => client.callbacks = {}
  BY <1>2 DEF ClientFits
<1>8. CASE UNCHANGED <<client, pcb, conn, jobs>>
  <2>1. UpFits(client, conn, input', app, server)
    BY <1>1, <1>2, <1>5, <1>7, <1>8
  <2> QED
    BY <1>1, <1>2, <1>8, <2>1 DEF PipeInv, Untouched, PcbLive, LiveState
<1>9. CASE client' = c /\ UNCHANGED <<pcb, conn, jobs>>
  <2>1. UpFits(c, conn, input', app, server)
    BY <1>1, <1>3, <1>5, <1>6, <1>7, <1>9
  <2>2. RestFits(c, conn, jobs) /\ ClientFits(c, conn)
    BY <1>2, <1>3 DEF RestFits, ClientFits, Open
  <2> QED
    BY <1>1, <1>2, <1>3, <1>6, <1>9, <2>1, <2>2 DEF PipeInv, Untouched, PcbLive, LiveState, Open
<1>10. CASE FreeClient(c, pcb, jobs)
  BY <1>1, <1>2, <1>6, <1>10, FreeClientEnds, EndingInv
<1>11. ASSUME NEW n \in {0, Queueable(c, pcb)}, "sent" \in client.callbacks, client.rest # <<>>,
              \/ /\ client' = Left(c, n) /\ pcb' = Queued(c, pcb, n) /\ UNCHANGED conn
                 /\ jobs' = IF Left(c, n).rest = <<>> /\ ~Left(c, n).socksClosed
                              THEN <<"recv", "mark">> ELSE jobs
              \/ AbortClient(Left(c, n), Queued(c, pcb, n), jobs)
       PROVE  PipeInv'
  <2> DEFINE left == Left(c, n)
             queued == Queued(c, pcb, n)
  <2>1. Open(client) /\ Open(c) /\ conn.state \in {"up", "freed"} /\ ~conn.recvWait
    BY <1>2, <1>3, <1>11 DEF ClientFits, RestFits, Open
  <2>2. /\ DownFits(left, queued, conn, app, server)
        /\ PcbOK(queued) /\ queued.state = pcb.state
        /\ DOMAIN left = ClientFields /\ left.callbacks = client.callbacks /\ left.life = client.life
        /\ left.clientClosed = client.clientClosed /\ left.socksClosed = client.socksClosed
        /\ left.socksUp = client.socksUp /\ left.buf = client.buf
    BY <1>2, <1>3, <1>6, <2>1, QueuedFits
  <2>3. UpFits(left, conn, input, app, server)
    BY <1>2, <2>2 DEF UpFits
  <2> HIDE DEF left, queued
  <2>4. CASE AbortClient(left, queued, jobs)
    <3>1. Endable(left)
      BY <1>2, <2>1, <2>2 DEF Endable, Handshaking
    <3>2. Ending(left, queued)
      BY <1>2, <2>2, <2>4, <3>1, AbortClientEnds
    <3> QED
      BY <1>1, <1>2, <2>2, <2>3, <3>2, EndingInv
  <2>5. CASE /\ client' = left /\ pcb' = queued /\ UNCHANGED conn
             /\ jobs' = IF left.rest = <<>> /\ ~left.socksClosed THEN <<"recv", "mark">> ELSE jobs
    <3>1. UpFits(left, conn, input', app, server)
      BY <1>1, <1>5, <1>7, <2>2, <2>3, <2>5
    <3>2. JobsFit(conn, jobs') /\ RestFits(left, conn, jobs')
      <4>1. conn.data = <<>>
        BY <1>1, <1>2, <2>1, JobsNone DEF RestFits
      <4>2. CASE left.rest = <<>> /\ ~left.socksClosed
        <5>1. conn.state = "up"
          BY <1>2, <2>1, <2>2, <4>2 DEF ClientFits
        <5>2. jobs' = <<"recv">> \o <<"mark">>
          BY <2>5, <4>2
        <5>3. OneRead(jobs') /\ "handshake" \notin Jobs(jobs')
          BY <5>2, JobsPush, JobsMark, MarkOnly
        <5> QED
          BY <1>2, <2>1, <4>1, <4>2, <5>1, <5>3 DEF JobsFit, RestFits, Off, Handshaking
      <4>3. CASE ~(left.rest = <<>> /\ ~left.socksClosed)
        BY <1>1, <1>2, <2>1, <2>5, <4>1, <4>3, JobsNone DEF RestFits, Handshaking
      <4> QED
        BY <4>2, <4>3
    <3>3. ClientFits(left, conn) /\ (Open(left) <=> LiveState(queued))
      BY <1>2, <2>2 DEF ClientFits, Open, LiveState
    <3> QED
      BY <1>1, <1>2, <2>2, <2>5, <3>1, <3>2, <3>3 DEF PipeInv, Untouched, PcbLive, LiveState
  <2> QED
    BY <1>11, <2>4, <2>5 DEF left, queued
<1> QED
  <2>1. CASE "sent" \notin client.callbacks
    BY <1>8, <2>1 DEF TcpSent
  <2>2. CASE "sent" \in client.callbacks
    <3>1. ClientSent
      BY <2>2 DEF TcpSent
    <3>2. CASE c.rest # <<>>
      BY <1>3, <1>11, <2>2, <3>1, <3>2 DEF ClientSent, SendOut, Left, Queued, c
    <3>3. CASE c.rest = <<>>
      BY <1>9, <1>10, <3>1, <3>3 DEF ClientSent, c
    <3> QED
      BY <3>2, <3>3
  <2> QED
    BY <2>1, <2>2

(* Data of a segment goes behind what is in the buffer.                    *)
LEMMA TcpRecvPipe == IInv /\ PipeInv /\ TcpRecv => PipeInv'
<1> SUFFICES ASSUME IInv, PipeInv, TcpRecv PROVE PipeInv'
  OBVIOUS
<1>1. /\ client.life # "none" /\ input.stage = "recv" /\ jobs = <<>> /\ UNCHANGED <<app, server>>
      /\ DOMAIN input = {"stage", "acked", "data", "fin"} /\ input.data \in Nat /\ app.sent \in Nat
  BY DEF TcpRecv, IInv, Fresh, Shapes, InputOK
<1>2. /\ JobsFit(conn, jobs) /\ DOMAIN client = ClientFields /\ PcbOK(pcb) /\ ConnOK(conn, client.buf)
      /\ RestFits(client, conn, jobs) /\ ClientFits(client, conn) /\ (Open(client) <=> LiveState(pcb))
      /\ ServerOK(server) /\ client.buf \in Seq(Int)
      /\ UpFits(client, conn, input, app, server) /\ DownFits(client, pcb, conn, app, server)
  BY <1>1, Facts DEF Struct, ClientOK
<1>3. Due(input) = input.data /\ Due(input') = 0
  BY <1>1 DEF TcpRecv, Due
<1>4. CASE input.data > 0 /\ "recv" \in client.callbacks
  <2> DEFINE data == Bytes(app.sent - input.data, app.sent)
             start == StartsSending(client)
  <2>1. /\ client' = [client EXCEPT !.buf = @ \o data] /\ UNCHANGED pcb
        /\ conn' = IF start THEN [conn EXCEPT !.busy = input.data] ELSE conn
        /\ jobs' = IF start THEN <<"send", "mark">> ELSE <<>>
    BY <1>4 DEF TcpRecv
  <2>2. /\ client'.buf = client.buf \o data /\ client'.rest = client.rest
        /\ client'.callbacks = client.callbacks /\ client'.life = client.life
        /\ client'.socksUp = client.socksUp
        /\ client'.clientClosed = client.clientClosed /\ client'.socksClosed = client.socksClosed
    BY <1>2, <2>1 DEF ClientFields
  <2>3. /\ conn'.state = conn.state /\ conn'.done = conn.done /\ conn'.data = conn.data
        /\ conn'.recvWait = conn.recvWait /\ (~start => conn' = conn)
    BY <1>2, <2>1 DEF ConnOK, ConnFields
  <2>4. Open(client) /\ ~Off(conn)
    BY <1>1, <1>2, <1>4 DEF ClientFits, Off, Open
  <2> HIDE DEF data, start
  <2>5. UpFits(client', conn', input', app, server)
    <3> DEFINE from == Len(server.got) - conn.done
               size == Len(client.buf)
    <3>1. /\ Piece(server.got, 0) /\ Len(server.got) <= app.sent
          /\ from >= 0 /\ Piece(client.buf, from) /\ from + size + input.data = app.sent
      BY <1>2, <1>3, <1>4, <2>4 DEF UpFits
    <3>2. from \in Int /\ size \in Nat
      <4>1. Len(server.got) \in Nat /\ conn.done \in Nat
        BY <1>2, <3>1, PieceLen DEF ConnOK
      <4> QED
        BY <1>2, <4>1
    <3> HIDE DEF from
    <3>3. Piece(data, from + size) /\ Len(data) = input.data
      <4>1. app.sent - input.data = from + size
        BY <1>1, <3>1, <3>2
      <4> QED
        BY <1>1, <3>1, <3>2, <4>1, PieceBytes DEF data
    <3>4. Piece(client'.buf, from) /\ Len(client'.buf) = size + input.data
      <4>1. from \in Int /\ Piece(client.buf, from) /\ Piece(data, from + Len(client.buf))
        BY <3>1, <3>2, <3>3
      <4>2. /\ Piece(client.buf \o data, from)
            /\ Len(client.buf \o data) = Len(client.buf) + Len(data)
        BY ONLY <4>1, PieceConcat
      <4> QED
        BY <2>2, <3>3, <4>2
    <3>5. from + (size + input.data) = app.sent
      BY <1>1, <3>1, <3>2
    <3>6. Len(server.got) - conn'.done = from
      BY <2>3 DEF from
    <3>7. from + Len(client'.buf) <= app.sent /\ from + Len(client'.buf) + 0 = app.sent
      BY <1>1, <3>4, <3>5
    <3> QED
      BY <1>1, <1>3, <2>2, <3>1, <3>4, <3>6, <3>7 DEF UpFits
  <2>6. DownFits(client', pcb, conn', app, server)
    BY <1>2, <2>2, <2>3, <2>4 DEF DownFits, Off, Open
  <2>7. ClientFits(client', conn') /\ RestFits(client', conn', jobs') /\ JobsFit(conn', jobs')
    <3>1. ClientFits(client', conn')
      BY <1>2, <2>2, <2>3 DEF ClientFits, Open
    <3>2. conn.data = <<>>
      BY <1>1, <1>2, <2>4, JobsNone DEF RestFits
    <3>3. CASE start
      <4>1. client.buf = <<>> /\ conn.state = "up" /\ conn.done = 0
        <5>1. client.buf = <<>> /\ client.socksUp
          BY <3>3 DEF start, StartsSending
        <5>2. conn.state = "up"
          BY <1>2, <1>4, <5>1 DEF ClientFits
        <5>3. conn.done \in Nat /\ conn.done <= Len(<<>>) /\ Len(<<>>) = 0
          BY <1>2, <5>1 DEF ConnOK
        <5> QED
          BY <5>1, <5>2, <5>3
      <4>2. jobs' = <<"send">> \o <<"mark">>
        BY <2>1, <3>3
      <4>3. Jobs(jobs') = {"send", "mark"} /\ OneRead(jobs')
        BY <4>2, JobsPush, JobsMark, MarkOnly DEF Reading
      <4>4. NoRead(jobs') /\ "handshake" \notin Jobs(jobs')
        BY <4>3 DEF NoRead, Reading
      <4> QED
        BY <1>1, <1>2, <2>2, <2>3, <3>1, <3>2, <4>1, <4>3, <4>4
           DEF RestFits, JobsFit, Off, Handshaking, Open
    <3>4. CASE ~start
      BY <1>1, <1>2, <2>1, <2>2, <2>3, <3>1, <3>4 DEF RestFits, Open
    <3> QED
      BY <3>3, <3>4
  <2> QED
    BY <1>1, <1>2, <2>1, <2>2, <2>5, <2>6, <2>7 DEF PipeInv, Untouched, PcbLive, LiveState, Open
<1>5. CASE ~(input.data > 0 /\ "recv" \in client.callbacks)
  <2>1. UNCHANGED <<client, conn, jobs>> /\ pcb'.queue = pcb.queue /\ pcb'.state = pcb.state
    BY <1>2, <1>5 DEF TcpRecv, PcbOK
  <2>2. "recv" \in client.callbacks => Due(input') = Due(input)
    BY <1>1, <1>3, <1>5
  <2>3. UpFits(client, conn, input', app, server) /\ DownFits(client, pcb', conn, app, server)
    BY <1>1, <1>2, <2>1, <2>2 DEF UpFits, DownFits
  <2> QED
    BY <1>1, <1>2, <2>1, <2>3 DEF PipeInv, Untouched, PcbLive, LiveState
<1> QED
  BY <1>4, <1>5

LEMMA TcpFinPipe == IInv /\ PipeInv /\ TcpFin => PipeInv'
<1> SUFFICES ASSUME IInv, PipeInv, TcpFin PROVE PipeInv'
  OBVIOUS
<1> DEFINE p == [pcb EXCEPT !.rcvWnd = Lesser(@ + 1, Wnd)]
<1>1. /\ client.life # "none" /\ input.stage = "fin" /\ UNCHANGED <<app, server>>
      /\ Due(input) = 0 /\ Due(input') = 0
  BY DEF TcpFin, IInv, Fresh, NoInput, Due
<1>2. /\ JobsOK(jobs) /\ JobsFit(conn, jobs) /\ PcbOK(pcb) /\ ServerOK(server) /\ Endable(client)
      /\ UpFits(client, conn, input, app, server) /\ DownFits(client, pcb, conn, app, server)
  BY <1>1, Facts DEF Struct
<1>3. PcbOK(p) /\ p.queue = pcb.queue /\ p.state = pcb.state
  BY <1>2, SizesAssumption DEF PcbOK, Lesser
<1> HIDE DEF p
<1>4. DownFits(client, p, conn, app, server) /\ UpFits(client, conn, input', app, server)
  BY <1>1, <1>2, <1>3 DEF DownFits, UpFits
<1>5. CASE FreeClient(client, p, jobs)
  BY <1>1, <1>2, <1>3, <1>4, <1>5, FreeClientEnds, EndingInv
<1>6. CASE UNCHANGED <<client, conn, jobs>> /\ pcb' \in {pcb, p}
  <2>1. pcb'.state = pcb.state /\ DownFits(client, pcb', conn, app, server)
    BY <1>2, <1>3, <1>4, <1>6
  <2> QED
    BY <1>1, <1>4, <1>6, <2>1 DEF PipeInv, Untouched, PcbLive
<1> QED
  BY <1>5, <1>6 DEF TcpFin, p

LEMMA CommitPipe == IInv /\ PipeInv /\ CommitReturns => PipeInv'
<1> SUFFICES ASSUME IInv, PipeInv, CommitReturns PROVE PipeInv'
  OBVIOUS
<1>1. /\ client.life # "none" /\ Top("mark") /\ jobs' = Tail(jobs) /\ JobsOK(jobs)
      /\ UNCHANGED <<client, pcb, conn, app, server>>
  BY TopJob DEF CommitReturns
<1>2. /\ JobsFit(conn, jobs) /\ RestFits(client, conn, jobs) /\ ClientFits(client, conn)
      /\ UpFits(client, conn, input, app, server) /\ ClientOK(client) /\ InputOK
  BY <1>1, Facts DEF Struct
<1>3. Jobs(jobs) = {"mark"} \cup Jobs(jobs') /\ OneRead(jobs') /\ Head(jobs) = "mark"
  BY <1>1, <1>2, JobsPop DEF Top, JobsFit
<1>4. JobsFit(conn, jobs') /\ RestFits(client, conn, jobs')
  BY <1>2, <1>3 DEF JobsFit, RestFits, NoRead
<1>5. input.stage \in {"accept", "sentSync", "recvSync"}
  <2>1. jobs \in Seq(JobNames) /\ jobs # <<>> /\ jobs[1] = "mark"
    BY <1>1 DEF Top, JobsOK
  <2>2. 1 \in 1..Len(jobs)
    BY <2>1
  <2> QED
    BY <1>2, <2>1, <2>2 DEF HasMark, InputOK
<1>6. "recv" \in client.callbacks => Due(input') = Due(input)
  <2>1. client.clientClosed => client.callbacks = {}
    BY <1>2 DEF ClientOK
  <2>2. CASE client.clientClosed
    BY <2>1, <2>2
  <2>3. CASE ~client.clientClosed /\ input.stage = "accept"
    BY <2>3 DEF CommitReturns, InputAborted, NoInput, Due
  <2>4. CASE ~client.clientClosed /\ input.stage = "sentSync"
    BY <1>2, <2>4 DEF CommitReturns, Killed, InputGoesOn, Due, InputOK
  <2>5. CASE ~client.clientClosed /\ input.stage = "recvSync"
    BY <1>2, <2>5 DEF CommitReturns, Killed, Due, InputOK
  <2> QED
    BY <1>5, <2>2, <2>3, <2>4, <2>5
<1>7. UpFits(client, conn, input', app, server)
  BY <1>1, <1>2, <1>6 DEF UpFits
<1> QED
  BY <1>1, <1>4, <1>7 DEF PipeInv, Untouched, PcbLive

LEMMA PcbLostPipe == IInv /\ PipeInv /\ PcbLost => PipeInv'
<1> SUFFICES ASSUME IInv, PipeInv, PcbLost PROVE PipeInv'
  OBVIOUS
<1>1. PcbLive /\ client.life # "none" /\ UNCHANGED <<input, app, server>>
  BY DEF PcbLost, IInv, Fresh, PcbLive
<1>2. HandleFreedClient(client, jobs) /\ pcb'.queue = <<>> /\ ~LiveState(pcb')
  BY <1>1, Facts DEF PcbLost, Struct, Open, PcbLive, LiveState, PcbOK
<1>3. Ending(client, pcb)
  BY <1>1, <1>2, Facts, HandleFreedClientEnds DEF Endable, Struct
<1> QED
  BY <1>1, <1>3, Facts, EndingInv

LEMMA ClosingInputPipe == IInv /\ PipeInv /\ ClosingInput => PipeInv'
<1> SUFFICES ASSUME IInv, PipeInv, ClosingInput PROVE PipeInv'
  OBVIOUS
<1>1. /\ client.life # "none" /\ pcb.state = "closing" /\ UNCHANGED <<client, conn, jobs, input, server>>
  BY DEF ClosingInput, IInv, Fresh
<1>2. /\ ~Open(client) /\ PcbOK(pcb) /\ InputOK
      /\ UpFits(client, conn, input, app, server) /\ DownFits(client, pcb, conn, app, server)
      /\ ServerOK(server)
  BY <1>1, Facts DEF Struct, LiveState
<1>3. app'.sent = app.sent /\ ~PcbLive'
  BY <1>1, <1>2 DEF ClosingInput, PcbOK, InputOK, PcbLive
<1>4. UpFits(client, conn, input, app', server)
  BY <1>2, <1>3 DEF UpFits
<1>5. /\ Piece(app.got, 0) /\ Piece(pcb.queue, Len(app.got))
      /\ Len(app.got) + Len(pcb.queue) <= server.read /\ Len(pcb.queue) <= SndBuf
  BY <1>2 DEF DownFits
<1>6. DownFits(client, pcb', conn, app', server)
  <2>1. ASSUME NEW n \in 1..Len(pcb.queue), app' = [app EXCEPT !.got = @ \o SubSeq(pcb.queue, 1, n)],
               pcb' = [pcb EXCEPT !.queue = Drop(@, n)]
        PROVE  DownFits(client, pcb', conn, app', server)
    <3>1. app'.got = app.got \o SubSeq(pcb.queue, 1, n) /\ pcb'.queue = Drop(pcb.queue, n)
      BY <1>2, <2>1 DEF PcbOK, InputOK
    <3>2. n \in Nat /\ n <= Len(pcb.queue) /\ SndBuf \in Nat
      BY <1>5, PieceLen, SizesAssumption
    <3>3. /\ Piece(app'.got, 0) /\ Piece(pcb'.queue, Len(app'.got))
          /\ Len(app'.got) + Len(pcb'.queue) = Len(app.got) + Len(pcb.queue)
          /\ Len(pcb'.queue) <= SndBuf
      BY <1>5, <3>1, <3>2, FrontMoves
    <3> QED
      BY <1>2, <1>5, <3>3 DEF DownFits
  <2>2. CASE pcb' = [pcb EXCEPT !.state = "lost", !.queue = <<>>] /\ UNCHANGED app
    <3>1. pcb'.queue = <<>>
      BY <1>2, <2>2 DEF PcbOK
    <3>2. Len(app.got) + 0 <= server.read /\ Len(<<>>) = 0
      BY <1>2, DownNumbers
    <3>3. 0 <= SndBuf
      BY SizesAssumption
    <3>4. Piece(app'.got, 0) /\ Piece(<<>>, Len(app'.got)) /\ app'.got = app.got
      BY <1>5, <2>2, PieceEmpty
    <3> QED
      BY <1>2, <3>1, <3>2, <3>3, <3>4 DEF DownFits
  <2> QED
    BY <2>1, <2>2 DEF ClosingInput
<1> QED
  BY <1>1, <1>2, <1>3, <1>4, <1>6 DEF PipeInv, Untouched, PcbLive

LEMMA ServerPipe == IInv /\ PipeInv /\ (ServerSends \/ ServerEnds \/ UNCHANGED vars) => PipeInv'
<1> SUFFICES ASSUME IInv, PipeInv, ServerSends \/ ServerEnds \/ UNCHANGED vars PROVE PipeInv'
  OBVIOUS
<1>1. UNCHANGED <<client, pcb, conn, jobs, input, app>>
  BY DEF ServerSends, ServerEnds, vars
<1>2. /\ server'.got = server.got /\ server'.read = server.read
      /\ ServerOK(server')
  BY DEF PipeInv, ServerOK, ServerSends, ServerEnds, vars
<1> QED
  BY <1>1, <1>2 DEF PipeInv, Untouched, PcbLive, UpFits, DownFits

LEMMA InitPipe == Init => PipeInv
<1> SUFFICES ASSUME Init PROVE PipeInv
  OBVIOUS
<1>1. /\ client.life = "none" /\ client.callbacks = {} /\ ~Open(client) /\ ~PcbLive
      /\ Off(conn) /\ Quiet(conn) /\ conn.state = "none" /\ jobs = <<>> /\ Due(input) = 0
      /\ client.buf = <<>> /\ client.rest = <<>> /\ pcb.queue = <<>> /\ app.got = <<>>
      /\ server.got = <<>> /\ app.sent = 0 /\ server.read = 0 /\ server.sent = 0
      /\ ~client.socksClosed /\ ~client.socksUp
  BY DEF Init, NoConn, NoInput, Open, PcbLive, Off, Quiet, Due
<1>2. ServerOK(server) /\ Untouched /\ Len(<<>>) = 0
  BY <1>1 DEF Init, ServerOK, Untouched
<1>3. ClientFits(client, conn) /\ JobsFit(conn, jobs) /\ RestFits(client, conn, jobs)
  BY <1>1, JobsNone DEF ClientFits, JobsFit, RestFits, Handshaking, Quiet
<1>4. UpFits(client, conn, input, app, server)
  BY <1>1, <1>2, PieceEmpty DEF UpFits, Quiet
<1>5. DownFits(client, pcb, conn, app, server)
  BY <1>1, <1>2, PieceEmpty, SizesAssumption DEF DownFits
<1> QED
  BY <1>1, <1>2, <1>3, <1>4, <1>5 DEF PipeInv

LEMMA NextPipe == IInv /\ PipeInv /\ [Next]_vars => PipeInv'
<1> SUFFICES ASSUME IInv, PipeInv, [Next]_vars PROVE PipeInv'
  OBVIOUS
<1>1. CASE Accept
  BY <1>1, AcceptPipe
<1>2. CASE HandshakeEvent \/ HandshakeJob
  BY <1>2, HandshakePipe
<1>3. CASE FdEvent
  BY <1>3, FdEventPipe
<1>4. CASE SendJob \/ RecvJob
  BY <1>4, SendRecvPipe
<1>5. CASE SendDone
  BY <1>5, SendDonePipe
<1>6. CASE RecvDone
  BY <1>6, RecvDonePipe
<1>7. CASE CommitReturns
  BY <1>7, CommitPipe
<1>8. CASE AppSegment
  BY <1>8, SegmentPipe
<1>9. CASE TcpSent
  BY <1>9, TcpSentPipe
<1>10. CASE TcpRecv
  BY <1>10, TcpRecvPipe
<1>11. CASE TcpFin
  BY <1>11, TcpFinPipe
<1>12. CASE PcbLost
  BY <1>12, PcbLostPipe
<1>13. CASE ClosingInput
  BY <1>13, ClosingInputPipe
<1>14. CASE ServerSends \/ ServerEnds \/ UNCHANGED vars
  BY <1>14, ServerPipe
<1> QED
  BY <1>1, <1>2, <1>3, <1>4, <1>5, <1>6, <1>7, <1>8, <1>9, <1>10, <1>11, <1>12, <1>13, <1>14
     DEF Next, RunJob, RunInput

-----------------------------------------------------------------------------
(* The refinement.                                                         *)

(* One side of each pipe moves at a time, and only forward.                *)
UpMoves ==
  \/ server'.got = server.got /\ app'.sent >= app.sent
  \/ app'.sent = app.sent /\ Len(server'.got) >= Len(server.got)
DownMoves ==
  \/ app'.got = app.got /\ server'.sent >= server.sent
  \/ server'.sent = server.sent /\ Len(app'.got) >= Len(app.got)

(* What the invariants say of both streams.                                *)
LEMMA Streams ==
  ASSUME IInv, PipeInv
  PROVE  /\ app.sent \in Nat /\ server.sent \in Nat /\ DOMAIN app = {"sent", "fin", "got"}
         /\ DOMAIN server = {"sent", "fin", "reset", "read", "got"}
         /\ Piece(server.got, 0) /\ Len(server.got) \in Nat /\ Len(server.got) <= app.sent
         /\ Piece(app.got, 0) /\ Len(app.got) \in Nat /\ Len(app.got) <= server.sent
         /\ server.got \in Seq(Int) /\ app.got \in Seq(Int)
<1>1. /\ app.sent \in Nat /\ server.sent \in Nat /\ server.read \in Nat /\ server.read <= server.sent
      /\ DOMAIN app = {"sent", "fin", "got"} /\ DOMAIN server = {"sent", "fin", "reset", "read", "got"}
  BY DEF IInv, Shapes, InputOK, PipeInv, ServerOK
<1>2. Piece(server.got, 0) /\ Len(server.got) <= app.sent /\ Piece(app.got, 0)
  BY DEF PipeInv, UpFits, DownFits
<1>3. Len(app.got) + 0 <= server.read /\ Len(app.got) \in Nat
  BY DownNumbers DEF PipeInv
<1> QED
  BY <1>1, <1>2, <1>3, PieceLen

(* A step in which nobody writes or reads.                                 *)
LEMMA UnmovedMoves ==
  ASSUME IInv, PipeInv, UNCHANGED app, server'.got = server.got, server'.sent = server.sent
  PROVE  UpMoves /\ DownMoves
BY Streams DEF UpMoves, DownMoves

LEMMA ConnectionSendMoves ==
  ASSUME IInv, PipeInv, NEW c, NEW base, ConnectionSend(c, base), UNCHANGED app,
         c.busy \in Nat, c.busy <= Len(client.buf)
  PROVE  UpMoves /\ DownMoves
<1>1. CASE UNCHANGED server
  BY <1>1, UnmovedMoves
<1>2. ASSUME NEW k \in 1..c.busy, server' = [server EXCEPT !.got = @ \o SubSeq(client.buf, 1, k)]
      PROVE  UpMoves /\ DownMoves
  <2>1. /\ server'.got = server.got \o SubSeq(client.buf, 1, k) /\ server'.sent = server.sent
        /\ app.sent \in Nat /\ server.sent \in Nat
    BY <1>2, Streams
  <2>2. SubSeq(client.buf, 1, k) \in Seq(Int) /\ server.got \in Seq(Int)
    <3>1. client.buf \in Seq(Int) /\ Len(client.buf) \in Nat
      BY DEF IInv, Shapes, ClientOK
    <3>2. k \in Nat /\ k <= Len(client.buf)
      BY <1>2, <3>1
    <3> QED
      BY <3>1, <3>2, Streams
  <2> DEFINE x == SubSeq(client.buf, 1, k)
  <2> HIDE DEF x
  <2>3. Len(server.got \o x) >= Len(server.got)
    BY <2>2 DEF x
  <2> QED
    BY <2>1, <2>3 DEF UpMoves, DownMoves, x
<1> QED
  BY <1>1, <1>2 DEF ConnectionSend

LEMMA ConnectionRecvMoves ==
  ASSUME IInv, PipeInv, NEW c, NEW base, ConnectionRecv(c, base), UNCHANGED app
  PROVE  UpMoves /\ DownMoves
<1>1. server'.got = server.got /\ server'.sent = server.sent
  BY Streams DEF ConnectionRecv
<1> QED
  BY <1>1, UnmovedMoves

(* What ss-local reads is in SendJob and in FdEvent, what the application  *)
(* writes and reads in tcp_input.                                          *)
LEMMA SocketMoves == IInv /\ PipeInv /\ (SendJob \/ RecvJob \/ FdEvent) => UpMoves /\ DownMoves
<1> SUFFICES ASSUME IInv, PipeInv, SendJob \/ RecvJob \/ FdEvent PROVE UpMoves /\ DownMoves
  OBVIOUS
<1>1. UNCHANGED app
  BY DEF SendJob, RecvJob, FdEvent
<1>2. DOMAIN conn = ConnFields /\ conn.busy \in Nat /\ conn.busy <= Len(client.buf)
  BY DEF IInv, Shapes, ConnOK
<1>3. CASE UNCHANGED server
  BY <1>1, <1>3, UnmovedMoves
<1>4. CASE SendJob \/ RecvJob
  BY <1>1, <1>2, <1>3, <1>4, ConnectionSendMoves, ConnectionRecvMoves DEF SendJob, RecvJob
<1>5. CASE FdEvent
  <2>1. PICK write, read, hup \in BOOLEAN :
          /\ write => conn.sendWait
          /\ read => conn.recvWait /\ Readable
          /\ hup = server.reset
          /\ LET send == conn.sendWait /\ (write \/ hup)
                 recv == conn.recvWait /\ (read \/ hup)
                 c == [conn EXCEPT !.hup = hup, !.sendWait = @ /\ ~send, !.recvWait = @ /\ ~recv]
             IN \/ send /\ ConnectionSend(c, If(recv, "recv"))
                \/ recv /\ ~send /\ ConnectionRecv(c, <<>>)
                \/ /\ hup /\ ~send /\ ~recv
                   /\ conn' = c /\ UNCHANGED <<client, pcb, jobs, short, server>>
    BY <1>5, Zenon DEF FdEvent
  <2> DEFINE send == conn.sendWait /\ (write \/ hup)
             recv == conn.recvWait /\ (read \/ hup)
             c == [conn EXCEPT !.hup = hup, !.sendWait = @ /\ ~send, !.recvWait = @ /\ ~recv]
  <2>2. c.busy \in Nat /\ c.busy <= Len(client.buf)
    BY <1>2 DEF ConnFields
  <2>3. ConnectionSend(c, If(recv, "recv")) \/ ConnectionRecv(c, <<>>) \/ UNCHANGED server
    BY <2>1
  <2> HIDE DEF c, send, recv
  <2>4. CASE ConnectionSend(c, If(recv, "recv"))
    BY <1>1, <2>2, <2>4, ConnectionSendMoves
  <2>5. CASE ConnectionRecv(c, <<>>)
    BY <1>1, <2>5, ConnectionRecvMoves
  <2> QED
    BY <1>3, <2>3, <2>4, <2>5
<1> QED
  BY <1>4, <1>5

LEMMA NetworkMoves == IInv /\ PipeInv /\ (AppSegment \/ ClosingInput) => UpMoves /\ DownMoves
<1> SUFFICES ASSUME IInv, PipeInv, AppSegment \/ ClosingInput PROVE UpMoves /\ DownMoves
  OBVIOUS
<1>1. UNCHANGED server /\ app.sent \in Nat /\ server.sent \in Nat
  BY Streams DEF AppSegment, TcpInput, ClosingInput
<1>2. ASSUME NEW n \in Nat, n <= Len(pcb.queue), app'.got = app.got \o SubSeq(pcb.queue, 1, n)
      PROVE  Len(app'.got) >= Len(app.got)
  <2> DEFINE x == SubSeq(pcb.queue, 1, n)
  <2>1. Piece(pcb.queue, Len(app.got))
    BY DEF PipeInv, DownFits
  <2>2. x \in Seq(Int) /\ app.got \in Seq(Int)
    <3>1. Len(app.got) \in Int /\ app.got \in Seq(Int)
      BY Streams
    <3>2. Piece(x, Len(app.got))
      BY <1>2, <2>1, <3>1, PieceFront
    <3> QED
      BY <3>1, <3>2, PieceLen
  <2> HIDE DEF x
  <2>3. Len(app.got \o x) >= Len(app.got)
    BY <2>2
  <2> QED
    BY <1>2, <2>3 DEF x
<1>3. Len(pcb.queue) \in Nat
  BY PieceLen DEF PipeInv, DownFits
<1>4. CASE AppSegment
  <2>1. PICK acked \in 0..Len(pcb.queue), data \in 0..(MaxUp - app.sent), fin \in BOOLEAN :
          TcpInput(acked, data, fin)
    BY <1>4 DEF AppSegment
  <2>2. /\ app'.sent = app.sent + data /\ app'.got = app.got \o SubSeq(pcb.queue, 1, acked)
        /\ acked \in Nat /\ acked <= Len(pcb.queue)
    <3>1. app'.sent = app.sent + data /\ app'.got = app.got \o SubSeq(pcb.queue, 1, acked)
      BY <2>1 DEF TcpInput
    <3>2. \A n \in Nat : acked \in 0..n => acked \in Nat /\ acked <= n
      OBVIOUS
    <3> QED
      BY <1>3, <2>1, <3>1, <3>2
  <2>3. app'.sent >= app.sent
    BY <1>1, <2>2, BoundsAssumption
  <2> QED
    BY <1>1, <1>2, <2>2, <2>3 DEF UpMoves, DownMoves
<1>5. CASE ClosingInput
  <2>1. CASE UNCHANGED app
    BY <1>1, <2>1, UnmovedMoves
  <2>2. ASSUME NEW n \in 1..Len(pcb.queue), app' = [app EXCEPT !.got = @ \o SubSeq(pcb.queue, 1, n)]
        PROVE  UpMoves /\ DownMoves
    <3>1. app'.got = app.got \o SubSeq(pcb.queue, 1, n) /\ app'.sent = app.sent
      BY <2>2, Streams
    <3>2. n \in Nat /\ n <= Len(pcb.queue)
      BY <1>3
    <3> QED
      BY <1>1, <1>2, <3>1, <3>2 DEF UpMoves, DownMoves
  <2> QED
    BY <1>5, <2>1, <2>2 DEF ClosingInput
<1> QED
  BY <1>4, <1>5

LEMMA NextMoves == IInv /\ PipeInv /\ [Next]_vars => UpMoves /\ DownMoves
<1> SUFFICES ASSUME IInv, PipeInv, [Next]_vars PROVE UpMoves /\ DownMoves
  OBVIOUS
<1>1. CASE SendJob \/ RecvJob \/ FdEvent
  BY <1>1, SocketMoves
<1>2. CASE AppSegment \/ ClosingInput
  BY <1>2, NetworkMoves
<1>3. CASE HandshakeEvent \/ HandshakeJob
  <2>1. UNCHANGED app /\ (UNCHANGED server \/ server' = [server EXCEPT !.reset = TRUE])
    BY <1>3 DEF HandshakeEvent, HandshakeJob, HandshakeStep, HandshakeWaits, SocksUp, HandshakeFails
  <2> QED
    BY <2>1, UnmovedMoves, Streams
<1>4. CASE ServerSends \/ ServerEnds
  BY <1>4, Streams DEF ServerSends, ServerEnds, UpMoves, DownMoves
<1>5. CASE \/ Accept \/ SendDone \/ RecvDone \/ CommitReturns \/ TcpSent \/ TcpRecv \/ TcpFin
           \/ PcbLost \/ UNCHANGED vars
  <2>1. UNCHANGED <<app, server>>
    BY <1>5 DEF Accept, SendDone, RecvDone, CommitReturns, TcpSent, TcpRecv, TcpFin, PcbLost, vars
  <2> QED
    BY <2>1, UnmovedMoves
<1> QED
  BY <1>1, <1>2, <1>3, <1>4, <1>5 DEF Next, RunJob, RunInput

(* Each side has got the first bytes of what the other has sent.           *)
Ordered ==
  /\ {app.sent, server.sent} \subseteq Nat
  /\ Piece(server.got, 0) /\ Len(server.got) <= app.sent
  /\ Piece(app.got, 0) /\ Len(app.got) <= server.sent

LEMMA InitRefines == Init => Up!Init /\ Down!Init
BY DEF Init, Up!Init, Down!Init

LEMMA OrderedHolds == IInv /\ PipeInv => Ordered
BY Streams DEF Ordered

LEMMA NextRefines ==
  IInv /\ PipeInv /\ Ordered' /\ [Next]_vars => [Up!Next]_(Up!vars) /\ [Down!Next]_(Down!vars)
<1> SUFFICES ASSUME IInv, PipeInv, Ordered', [Next]_vars
             PROVE  [Up!Next]_(Up!vars) /\ [Down!Next]_(Down!vars)
  OBVIOUS
<1>1. /\ app.sent \in Nat /\ server.sent \in Nat /\ Len(server.got) \in Nat /\ Len(app.got) \in Nat
  BY Streams
<1>2. /\ app'.sent \in Nat /\ server'.sent \in Nat
      /\ Piece(server'.got, 0) /\ Len(server'.got) <= app'.sent
      /\ Piece(app'.got, 0) /\ Len(app'.got) <= server'.sent
  BY DEF Ordered, Piece
<1>3. /\ Len(server'.got) \in Nat /\ server'.got = Up!Stream(Len(server'.got))
      /\ Len(app'.got) \in Nat /\ app'.got = Down!Stream(Len(app'.got))
  BY <1>2, PieceStream
<1>4. UpMoves /\ DownMoves
  BY NextMoves
<1>5. Up!Next
  <2>1. CASE server'.got = server.got /\ app'.sent >= app.sent
    BY <1>2, <2>1 DEF Up!Next, Up!Write
  <2>2. CASE app'.sent = app.sent /\ Len(server'.got) >= Len(server.got)
    <3>1. Len(server'.got) \in Len(server.got)..app'.sent
      BY <1>1, <1>2, <1>3, <2>2
    <3> QED
      BY <1>3, <2>2, <3>1 DEF Up!Next, Up!Deliver
  <2> QED
    BY <1>4, <2>1, <2>2 DEF UpMoves
<1>6. Down!Next
  <2>1. CASE app'.got = app.got /\ server'.sent >= server.sent
    BY <1>2, <2>1 DEF Down!Next, Down!Write
  <2>2. CASE server'.sent = server.sent /\ Len(app'.got) >= Len(app.got)
    <3>1. Len(app'.got) \in Len(app.got)..server'.sent
      BY <1>1, <1>2, <1>3, <2>2
    <3> QED
      BY <1>3, <2>2, <3>1 DEF Down!Next, Down!Deliver
  <2> QED
    BY <1>4, <2>1, <2>2 DEF DownMoves
<1> QED
  BY <1>5, <1>6

(* Each direction of a connection is a pipe that keeps the order: what     *)
(* client_recv_func copies into buf and client_socks_send_handler_done     *)
(* takes out of it, and what client_socks_recv_handler_done and            *)
(* client_socks_recv_send_out queue to lwIP, comes out as it went in,      *)
(* whoever ends when, for any sizes of the buffers and any number of       *)
(* bytes.                                                                  *)
THEOREM SpecImplements == Spec => Implements
<1>1. Init => IInv /\ PipeInv
  BY InitIInv, InitPipe
<1>2. IInv /\ PipeInv /\ [Next]_vars => IInv' /\ PipeInv'
  BY NextIInv, NextPipe
<1> QED
  BY <1>1, <1>2, OrderedHolds, InitRefines, NextRefines, PTL DEF Spec, Implements, Up!Spec, Down!Spec

-----------------------------------------------------------------------------
(***************************************************************************)
(* Nothing freed is used, what is asserted holds, nothing is cut off.      *)
(***************************************************************************)

(* tcp_input goes on only with a PCB that lives, and with no job left.     *)
StageFits ==
  /\ input.stage \in {"sent", "recv", "fin"} => PcbLive /\ jobs = <<>>
  /\ input.stage # "idle" => conn.state # "none"

(* Nothing refers to a client that is gone.                                *)
GoneFits == client.life = "gone" => ~Open(client) /\ Off(conn)

UseInv == StageFits /\ GoneFits

-----------------------------------------------------------------------------
(* The end of a client: nothing ends it but what leaves nothing behind.    *)

Dead(c) == c.callbacks = {} /\ c.socksClosed
Lives(c) == client'.life = c.life \/ Dead(client')

LEMMA FreeSocksLives ==
  ASSUME NEW c, DOMAIN c = ClientFields, NEW p, FreeSocks(c, p)
  PROVE  Lives(c)
<1>1. CASE Dealloc(c)
  BY <1>1, DeallocFits DEF Lives, Dead
<1>2. CASE client' = [c EXCEPT !.socksClosed = TRUE, !.callbacks = @ \ {"recv"}]
  BY <1>2 DEF Lives, ClientFields
<1> QED
  BY <1>1, <1>2 DEF FreeSocks

LEMMA HandleFreedClientLives ==
  ASSUME NEW c, DOMAIN c = ClientFields, NEW base, HandleFreedClient(c, base)
  PROVE  Lives(c)
<1>1. CASE Dealloc(c)
  BY <1>1, DeallocFits DEF Lives, Dead
<1>2. CASE client' = [c EXCEPT !.clientClosed = TRUE, !.callbacks = {}]
  BY <1>2 DEF Lives, ClientFields
<1> QED
  BY <1>1, <1>2 DEF HandleFreedClient

LEMMA AcceptLives == IInv /\ PipeInv /\ Accept => GoneFits'
<1> SUFFICES ASSUME IInv, PipeInv, Accept PROVE GoneFits'
  OBVIOUS
<1>1. /\ client.callbacks = {} /\ conn.state = "none" /\ DOMAIN client = ClientFields
  BY DEF Accept, IInv, Shapes, ClientOK, Fresh, PipeInv, Untouched
<1>2. CASE AcceptFails
  BY <1>1, <1>2 DEF AcceptFails, GoneFits, Open, Off, ClientFields
<1>3. CASE AcceptClient
  BY <1>1, <1>3 DEF AcceptClient, GoneFits, ClientFields
<1> QED
  BY <1>2, <1>3 DEF Accept

(* Every other step of a client that is there lets it live, or leaves      *)
(* nothing behind.                                                         *)
LEMMA SocketLives ==
  ASSUME IInv, DOMAIN client = ClientFields,
         HandshakeEvent \/ HandshakeJob \/ SendJob \/ RecvJob \/ FdEvent
  PROVE  Lives(client)
<1>1. CASE UNCHANGED client
  BY <1>1 DEF Lives
<1>2. CASE FreeSocks(client, pcb)
  BY <1>2, FreeSocksLives
<1>3. CASE \E base : SocksUp(base)
  BY <1>3 DEF SocksUp, Lives, ClientFields
<1>4. ASSUME NEW c, NEW base, ConnectionSend(c, base) PROVE Lives(client)
  BY <1>1, <1>2, <1>4 DEF ConnectionSend
<1>5. ASSUME NEW c, NEW base, ConnectionRecv(c, base) PROVE Lives(client)
  BY <1>1, <1>2, <1>5 DEF ConnectionRecv
<1>6. CASE HandshakeEvent \/ HandshakeJob
  <2>1. ASSUME NEW base, HandshakeStep(base) PROVE Lives(client)
    BY <1>1, <1>2, <1>3, <2>1 DEF HandshakeStep, HandshakeFails
  <2> QED
    BY <1>1, <1>6, <2>1 DEF HandshakeEvent, HandshakeJob, HandshakeWaits
<1>7. CASE SendJob \/ RecvJob
  BY <1>1, <1>4, <1>5, <1>7 DEF SendJob, RecvJob
<1>8. CASE FdEvent
  <2>1. \/ \E c, base : ConnectionSend(c, base)
        \/ \E c, base : ConnectionRecv(c, base)
        \/ UNCHANGED client
    BY <1>8, Zenon DEF FdEvent
  <2> QED
    BY <1>1, <1>4, <1>5, <2>1
<1> QED
  BY <1>6, <1>7, <1>8

LEMMA LeftLives ==
  ASSUME NEW c, DOMAIN c = ClientFields, NEW n, NEW p, NEW base,
         client' = Left(c, n) \/ AbortClient(Left(c, n), Queued(c, p, n), base)
  PROVE  Lives(c)
<1>1. DOMAIN Left(c, n) = ClientFields /\ Left(c, n).life = c.life
  BY DEF Left, ClientFields
<1>2. CASE client' = Left(c, n)
  BY <1>1, <1>2 DEF Lives
<1>3. CASE AbortClient(Left(c, n), Queued(c, p, n), base)
  <2>1. Lives(Left(c, n))
    BY <1>1, <1>3, HandleFreedClientLives DEF AbortClient
  <2> QED
    BY <1>1, <2>1 DEF Lives
<1> QED
  BY <1>2, <1>3

LEMMA ClientLives ==
  ASSUME IInv, DOMAIN client = ClientFields,
         SendDone \/ RecvDone \/ TcpSent \/ TcpRecv \/ TcpFin \/ PcbLost
  PROVE  Lives(client)
<1>1. CASE UNCHANGED client
  BY <1>1 DEF Lives
<1>2. CASE SendDone
  <2> DEFINE c == [client EXCEPT !.buf = Unsent(client)]
             p == Confirm(c, pcb)
  <2>1. DOMAIN c = ClientFields /\ c.life = client.life
    BY DEF ClientFields
  <2>2. FreeSocks(c, p) \/ client' = c
    BY <1>2 DEF SendDone
  <2> HIDE DEF c, p
  <2>3. CASE FreeSocks(c, p)
    BY <2>1, <2>3, FreeSocksLives DEF Lives
  <2> QED
    BY <2>1, <2>2, <2>3 DEF Lives
<1>3. CASE RecvDone /\ ~client.clientClosed
  <2> DEFINE c == [client EXCEPT !.rest = conn.data]
  <2>1. DOMAIN c = ClientFields /\ c.life = client.life
    BY DEF ClientFields
  <2>2. \E n : client' = Left(c, n) \/ AbortClient(Left(c, n), Queued(c, pcb, n), Tail(jobs))
    BY <1>3 DEF RecvDone, SendOut, Left, Queued
  <2> HIDE DEF c
  <2>3. Lives(c)
    BY <2>1, <2>2, LeftLives
  <2> QED
    BY <2>1, <2>3 DEF Lives
<1>4. CASE TcpSent /\ ClientSent
  <2> DEFINE c == [client EXCEPT !.pending = @ - input.acked]
  <2>1. DOMAIN c = ClientFields /\ c.life = client.life
    BY DEF ClientFields
  <2>2. \/ \E n : client' = Left(c, n) \/ AbortClient(Left(c, n), Queued(c, pcb, n), jobs)
        \/ HandleFreedClient(c, jobs)
        \/ client' = c
    BY <1>4 DEF ClientSent, SendOut, FreeClient, Left, Queued
  <2> HIDE DEF c
  <2>3. Lives(c)
    <3>1. CASE client' = c
      BY <3>1 DEF Lives
    <3> QED
      BY <2>1, <2>2, <3>1, LeftLives, HandleFreedClientLives
  <2> QED
    BY <2>1, <2>3 DEF Lives
<1>5. CASE TcpRecv
  BY <1>5 DEF TcpRecv, Lives, ClientFields
<1>6. CASE TcpFin \/ PcbLost
  <2>1. HandleFreedClient(client, jobs) \/ UNCHANGED client
    BY <1>6 DEF TcpFin, PcbLost, FreeClient
  <2> QED
    BY <1>1, <2>1, HandleFreedClientLives
<1> QED
  BY <1>1, <1>2, <1>3, <1>4, <1>5, <1>6 DEF RecvDone, TcpSent

(* A client that is gone has no part in any step.                          *)
LEMMA GoneRests ==
  ASSUME IInv, PipeInv, UseInv, client.life = "gone", [Next]_vars
  PROVE  UNCHANGED <<client, conn>>
<1>1. ~PcbLive /\ Off(conn) /\ input.stage \notin {"sent", "recv", "fin"}
  BY DEF UseInv, StageFits, GoneFits, PipeInv
<1>2. Jobs(jobs) \subseteq {"mark"} /\ JobsOK(jobs)
  BY <1>1 DEF PipeInv, JobsFit, IInv, Shapes
<1>3. \A job : Top(job) => job = "mark"
  BY <1>2, JobsPop DEF Top
<1>4. ~InHandshake /\ conn.state # "up"
  BY <1>1, AfterStates DEF InHandshake, Off, Handshaking
<1>5. /\ ~HandshakeJob /\ ~SendJob /\ ~RecvJob /\ ~SendDone /\ ~RecvDone
      /\ ~HandshakeEvent /\ ~FdEvent /\ ~Accept
  BY <1>3, <1>4 DEF HandshakeJob, SendJob, RecvJob, SendDone, RecvDone, HandshakeEvent, FdEvent, Accept
<1>6. ~TcpSent /\ ~TcpRecv /\ ~TcpFin /\ ~AppSegment /\ ~PcbLost
  BY <1>1 DEF TcpSent, TcpRecv, TcpFin, AppSegment, TcpInput, PcbLost
<1> QED
  BY <1>5, <1>6 DEF Next, RunJob, RunInput, CommitReturns, ClosingInput, ServerSends, ServerEnds, vars

LEMMA NextGone == IInv /\ PipeInv /\ UseInv /\ [Next]_vars => GoneFits'
<1> SUFFICES ASSUME IInv, PipeInv, UseInv, [Next]_vars, client'.life = "gone"
             PROVE  ~Open(client') /\ Off(conn')
  BY DEF GoneFits
<1>1. DOMAIN client = ClientFields
  BY DEF IInv, Shapes, ClientOK
<1>2. ClientFits(client', conn')
  BY NextPipe DEF PipeInv
<1>3. CASE client.life = "gone"
  BY <1>3, GoneRests DEF UseInv, GoneFits
<1>4. CASE Accept
  BY <1>4, AcceptLives DEF GoneFits
<1>5. CASE client.life # "gone" /\ ~Accept
  <2>1. \/ HandshakeEvent \/ HandshakeJob \/ SendJob \/ RecvJob \/ FdEvent
        \/ SendDone \/ RecvDone \/ TcpSent \/ TcpRecv \/ TcpFin \/ PcbLost
    BY <1>5 DEF Next, RunJob, RunInput, CommitReturns, AppSegment, TcpInput, ClosingInput,
                ServerSends, ServerEnds, vars
  <2>2. Lives(client)
    BY <1>1, <2>1, SocketLives, ClientLives
  <2>3. Dead(client')
    BY <1>5, <2>2 DEF Lives
  <2> QED
    BY <1>2, <2>3 DEF Dead, ClientFits, Open, Off
<1> QED
  BY <1>3, <1>4, <1>5

-----------------------------------------------------------------------------
(* tcp_input and the jobs its callbacks run.                               *)

(* A connection to ss-local is not forgotten.                              *)
ConnStays == conn.state # "none" => conn'.state # "none"

LEMMA EndsConnStays ==
  ASSUME NEW c, NEW p, NEW base,
         FreeConn \/ FreeSocks(c, p) \/ HandleFreedClient(c, base)
  PROVE  ConnStays
<1>1. CASE FreeConn
  BY <1>1 DEF FreeConn, NoConn, ConnStays
<1> QED
  BY <1>1 DEF FreeSocks, HandleFreedClient, ConnStays

(* The connection is in its handshake in every step of it.                 *)
LEMMA HandshakeState ==
  ASSUME IInv, PipeInv, HandshakeEvent \/ HandshakeJob
  PROVE  conn.state \in Handshaking /\ client.life # "none"
<1>1. CASE HandshakeEvent
  BY <1>1, AfterStates DEF HandshakeEvent, InHandshake, IInv, Fresh, Handshaking
<1>2. CASE HandshakeJob
  <2>1. client.life # "none" /\ JobsOK(jobs) /\ jobs # <<>> /\ Head(jobs) = "handshake"
    BY <1>2, TopJob DEF HandshakeJob, Top
  <2>2. "handshake" \in Jobs(jobs)
    BY <2>1, JobsPop
  <2> QED
    BY <2>1, <2>2 DEF PipeInv, JobsFit, Off
<1> QED
  BY <1>1, <1>2

LEMMA NextConnStays == IInv /\ PipeInv /\ [Next]_vars => ConnStays
<1> SUFFICES ASSUME IInv, PipeInv, [Next]_vars PROVE ConnStays
  OBVIOUS
<1>1. DOMAIN conn = ConnFields
  BY DEF IInv, Shapes, ConnOK
<1>2. CASE UNCHANGED conn
  BY <1>2 DEF ConnStays
<1>3. ASSUME NEW c, DOMAIN c = ConnFields, c.state = conn.state, NEW base,
             ConnectionSend(c, base) \/ ConnectionRecv(c, base)
      PROVE  ConnStays
  BY <1>3, EndsConnStays DEF ConnectionSend, ConnectionRecv, ConnStays, ConnFields
<1>4. CASE HandshakeEvent \/ HandshakeJob
  <2>1. ASSUME NEW base, HandshakeStep(base) PROVE ConnStays
    <3>1. CASE FreeSocks(client, pcb)
      BY <3>1, EndsConnStays
    <3>2. CASE SocksUp(base)
      BY <1>1, <3>2 DEF SocksUp, ConnStays, ConnFields
    <3>3. ASSUME NEW state \in After[conn.state] \ {"up"}, conn' = [conn EXCEPT !.state = state]
          PROVE  ConnStays
      <4>1. state \in Handshaking
        BY <1>4, <3>3, HandshakeState, AfterStates
      <4> QED
        BY <1>1, <3>3, <4>1 DEF ConnStays, ConnFields, Handshaking
    <3> QED
      BY <2>1, <3>1, <3>2, <3>3 DEF HandshakeStep, HandshakeFails
  <2> QED
    BY <1>2, <1>4, <2>1 DEF HandshakeEvent, HandshakeJob, HandshakeWaits
<1>5. CASE SendJob \/ RecvJob
  BY <1>1, <1>3, <1>5 DEF SendJob, RecvJob, ConnStays, ConnFields
<1>6. CASE FdEvent
  <2>1. PICK c : /\ DOMAIN c = ConnFields /\ c.state = conn.state
                 /\ \/ \E base : ConnectionSend(c, base) \/ ConnectionRecv(c, base)
                    \/ conn' = c
    <3>1. PICK write, read, hup \in BOOLEAN :
            /\ write => conn.sendWait
            /\ read => conn.recvWait /\ Readable
            /\ hup = server.reset
            /\ LET send == conn.sendWait /\ (write \/ hup)
                   recv == conn.recvWait /\ (read \/ hup)
                   c == [conn EXCEPT !.hup = hup, !.sendWait = @ /\ ~send, !.recvWait = @ /\ ~recv]
               IN \/ send /\ ConnectionSend(c, If(recv, "recv"))
                  \/ recv /\ ~send /\ ConnectionRecv(c, <<>>)
                  \/ /\ hup /\ ~send /\ ~recv
                     /\ conn' = c /\ UNCHANGED <<client, pcb, jobs, short, server>>
      BY <1>6, Zenon DEF FdEvent
    <3> DEFINE send == conn.sendWait /\ (write \/ hup)
               recv == conn.recvWait /\ (read \/ hup)
               c == [conn EXCEPT !.hup = hup, !.sendWait = @ /\ ~send, !.recvWait = @ /\ ~recv]
    <3>2. DOMAIN c = ConnFields /\ c.state = conn.state
      BY <1>1 DEF ConnFields
    <3>3. (\E base : ConnectionSend(c, base) \/ ConnectionRecv(c, base)) \/ conn' = c
      BY <3>1
    <3> HIDE DEF c
    <3> QED
      BY <3>2, <3>3
  <2> QED
    BY <1>3, <2>1 DEF ConnStays
<1>7. CASE SendDone \/ RecvDone
  <2>1. \/ \E c, p, base : FreeSocks(c, p) \/ HandleFreedClient(c, base)
        \/ conn' = [conn EXCEPT !.done = 0, !.busy = Len(Unsent(client))]
        \/ conn' = [conn EXCEPT !.data = <<>>]
    <3>1. CASE SendDone
      <4> DEFINE c == [client EXCEPT !.buf = Unsent(client)]
                 p == Confirm(c, pcb)
      <4>1. c.buf = Unsent(client)
        BY DEF IInv, Shapes, ClientOK, ClientFields
      <4>2. FreeSocks(c, p) \/ conn' = [conn EXCEPT !.done = 0, !.busy = Len(c.buf)]
        BY <3>1 DEF SendDone
      <4> HIDE DEF c, p
      <4> QED
        BY <4>1, <4>2
    <3>2. CASE RecvDone
      BY <3>2 DEF RecvDone, SendOut, AbortClient
    <3> QED
      BY <1>7, <3>1, <3>2
  <2> QED
    BY <1>1, <2>1, EndsConnStays DEF ConnStays, ConnFields
<1>8. CASE TcpSent \/ TcpFin \/ PcbLost
  <2>1. (\E c, base : HandleFreedClient(c, base)) \/ UNCHANGED conn
    BY <1>8 DEF TcpSent, ClientSent, SendOut, TcpFin, PcbLost, AbortClient, FreeClient
  <2> QED
    BY <1>2, <2>1, EndsConnStays
<1>9. CASE Accept \/ TcpRecv
  BY <1>1, <1>2, <1>9 DEF Accept, AcceptFails, AcceptClient, TcpRecv, ConnStays, ConnFields
<1> QED
  BY <1>2, <1>4, <1>5, <1>6, <1>7, <1>8, <1>9
     DEF Next, RunJob, RunInput, CommitReturns, AppSegment, TcpInput, ClosingInput,
         ServerSends, ServerEnds, vars

(* The mark of SYNC_COMMIT is the only job left when it returns.           *)
LEMMA LastJob ==
  ASSUME IInv, Top("mark")
  PROVE  Tail(jobs) = <<>> /\ HasMark(jobs)
<1>1. jobs \in Seq(JobNames) /\ Len(jobs) \in Nat \ {0} /\ jobs[1] = "mark"
  BY DEF Top, IInv, Shapes, JobsOK
<1>2. 1 \in 1..(Len(jobs) - 1) => jobs[1] # "mark"
  BY DEF IInv, Shapes, JobsOK
<1>3. \A n \in Nat \ {0} : 1 \in 1..(n - 1) \/ n = 1
  OBVIOUS
<1>4. Len(jobs) = 1
  BY <1>1, <1>2, <1>3, Zenon
<1> DEFINE rest == Tail(jobs)
<1>5. rest \in Seq(JobNames) /\ Len(rest) = 0
  BY <1>1, <1>4
<1> HIDE DEF rest
<1>6. HasMark(jobs)
  BY <1>1, <1>4 DEF HasMark
<1>7. rest = <<>>
  BY <1>5
<1> QED
  BY <1>6, <1>7 DEF rest

(* A client that is neither closed by the application nor without a        *)
(* connection still has its PCB.                                           *)
LEMMA StillOpen ==
  ASSUME PipeInv, ~client.clientClosed, conn.state # "none"
  PROVE  PcbLive
BY DEF PipeInv, ClientFits

LEMMA NextStage == IInv /\ PipeInv /\ UseInv /\ [Next]_vars => StageFits'
<1> SUFFICES ASSUME IInv, PipeInv, UseInv, [Next]_vars PROVE StageFits'
  OBVIOUS
<1>1. /\ ConnStays /\ PipeInv' /\ StageFits
      /\ DOMAIN input = {"stage", "acked", "data", "fin"}
  BY NextConnStays, NextPipe DEF UseInv, IInv, Shapes, InputOK
<1>2. (~client.clientClosed /\ conn.state # "none" => PcbLive)'
  BY <1>1 DEF PipeInv, ClientFits
<1>3. PcbLive => conn.state # "none"
  BY DEF PipeInv, ClientFits, IInv, Fresh, PcbLive
<1>4. CASE Idle /\ UNCHANGED input
  BY <1>4 DEF Idle, StageFits
<1>5. CASE jobs # <<>> /\ UNCHANGED input
  BY <1>1, <1>5 DEF ConnStays, StageFits
<1>6. CASE UNCHANGED <<input, jobs, pcb, conn>>
  BY <1>1, <1>6 DEF StageFits, PcbLive
<1>7. CASE AcceptClient
  BY <1>1, <1>7 DEF AcceptClient, StageFits, IInv, Shapes, ConnOK, ConnFields
<1>8. CASE AppSegment
  <2>1. UNCHANGED <<conn, jobs>> /\ PcbLive /\ jobs = <<>> /\ PcbLive'
    BY <1>8 DEF AppSegment, TcpInput, Idle, PcbLive
  <2> QED
    BY <1>3, <2>1 DEF StageFits
<1>9. CASE TcpSent
  <2>1. conn'.state # "none"
    BY <1>1, <1>9 DEF TcpSent, StageFits, ConnStays
  <2>2. \/ input' = NoInput
        \/ input' = [input EXCEPT !.stage = "sentSync", !.acked = 0]
        \/ /\ ~client'.clientClosed /\ jobs' = <<>>
           /\ input' = [input EXCEPT !.stage = "recv", !.acked = 0]
    BY <1>9 DEF TcpSent, Killed, InputAborted, InputGoesOn
  <2>3. \/ input'.stage \in {"idle", "sentSync"}
        \/ input'.stage = "recv" /\ ~client'.clientClosed /\ jobs' = <<>>
    <3>1. DOMAIN input = {"stage", "acked", "data", "fin"}
      BY <1>1
    <3>2. CASE input' = NoInput
      BY <3>2 DEF NoInput
    <3>3. CASE input' = [input EXCEPT !.stage = "sentSync", !.acked = 0]
      BY <3>1, <3>3
    <3>4. CASE input' = [input EXCEPT !.stage = "recv", !.acked = 0]
      BY <2>2, <3>1, <3>4 DEF NoInput
    <3> QED
      BY <2>2, <3>2, <3>3, <3>4
  <2> QED
    BY <1>2, <2>1, <2>3 DEF StageFits
<1>10. CASE TcpRecv
  <2>1. conn'.state # "none" /\ PcbLive
    BY <1>1, <1>10 DEF TcpRecv, StageFits, ConnStays
  <2>2. PcbLive'
    BY <1>10, <2>1 DEF TcpRecv, PcbLive, IInv, Shapes, PcbOK
  <2>3. input'.stage = "recvSync" \/ jobs' = <<>>
    BY <1>1, <1>10 DEF TcpRecv
  <2>4. input'.stage \in {"recvSync", "fin"}
    BY <1>1, <1>10 DEF TcpRecv
  <2> QED
    BY <2>1, <2>2, <2>3, <2>4 DEF StageFits
<1>11. CASE TcpFin
  BY <1>11 DEF TcpFin, StageFits, NoInput
<1>12. CASE CommitReturns
  <2>1. /\ UNCHANGED <<client, pcb, conn>> /\ jobs' = <<>>
        /\ input.stage \in {"accept", "sentSync", "recvSync"}
    BY <1>12, LastJob DEF CommitReturns, IInv, Shapes, InputOK
  <2>2. conn.state # "none"
    BY <1>1, <2>1 DEF StageFits
  <2>3. input' = NoInput \/ ~client.clientClosed
    BY <1>12, <2>1 DEF CommitReturns, Killed, InputAborted
  <2>4. ~client.clientClosed => PcbLive'
    BY <2>1, <2>2, StillOpen DEF PcbLive
  <2> QED
    BY <2>1, <2>2, <2>3, <2>4 DEF StageFits, NoInput
<1> QED
  <2>1. CASE Accept
    BY <1>4, <1>7, <2>1 DEF Accept, AcceptFails
  <2>2. CASE HandshakeEvent \/ FdEvent \/ PcbLost \/ ClosingInput
    BY <1>4, <2>2 DEF HandshakeEvent, FdEvent, PcbLost, ClosingInput
  <2>3. CASE HandshakeJob \/ SendJob \/ RecvJob \/ SendDone \/ RecvDone
    BY <1>5, <2>3 DEF HandshakeJob, SendJob, RecvJob, SendDone, RecvDone, Top
  <2>4. CASE ServerSends \/ ServerEnds \/ UNCHANGED vars
    BY <1>6, <2>4 DEF ServerSends, ServerEnds, vars
  <2> QED
    BY <1>8, <1>9, <1>10, <1>11, <1>12, <2>1, <2>2, <2>3, <2>4 DEF Next, RunJob, RunInput

-----------------------------------------------------------------------------
LEMMA InitUse == Init => UseInv
BY DEF Init, UseInv, StageFits, GoneFits, NoInput

LEMMA UseHolds == PipeInv /\ IInv /\ UseInv => NoUseAfterFree
<1> SUFFICES ASSUME PipeInv, IInv, UseInv PROVE NoUseAfterFree
  OBVIOUS
<1>1. input.stage \in {"sent", "recv", "fin"} => PcbLive
  BY DEF UseInv, StageFits
<1>2. ASSUME client.life = "gone"
      PROVE  Positions(JobNames \ {"mark"}) = {} /\ conn.state \in {"none", "freed"} /\ ~PcbLive
  <2>1. ~PcbLive /\ Off(conn)
    BY <1>2 DEF UseInv, GoneFits, PipeInv
  <2>2. Jobs(jobs) \subseteq {"mark"}
    BY <2>1 DEF PipeInv, JobsFit
  <2>3. DOMAIN jobs = 1..Len(jobs)
    BY DEF IInv, Shapes, JobsOK
  <2> QED
    BY <2>1, <2>2, <2>3 DEF Positions, Jobs, Off
<1> QED
  BY <1>1, <1>2 DEF NoUseAfterFree

(* The invariants hold together.                                           *)
LEMMA InitAll == Init => IInv /\ PipeInv /\ UseInv
BY InitIInv, InitPipe, InitUse

LEMMA NextAll == IInv /\ PipeInv /\ UseInv /\ [Next]_vars => (IInv /\ PipeInv /\ UseInv)'
<1> SUFFICES ASSUME IInv, PipeInv, UseInv, [Next]_vars PROVE IInv' /\ PipeInv' /\ UseInv'
  OBVIOUS
<1>1. IInv' /\ PipeInv'
  BY NextIInv, NextPipe
<1>2. StageFits' /\ GoneFits'
  BY NextStage, NextGone
<1> QED
  BY <1>1, <1>2 DEF UseInv

(* tcp_input never works on with a PCB that a callback, or a job that ran  *)
(* before the callback returned, has closed or aborted, and a client that  *)
(* is deallocated leaves no job, no open socket and no PCB with callbacks  *)
(* behind.                                                                 *)
THEOREM SpecNoUseAfterFree == Spec => []NoUseAfterFree
BY InitAll, NextAll, UseHolds, PTL DEF Spec

-----------------------------------------------------------------------------
(* What the handlers assert.                                               *)

(* client->socks_recv_tcp_pending is what lwIP still has to get            *)
(* acknowledged, and what is still to be queued waits for that.            *)
Bounded(c) == c.pending \in 0..SndBuf /\ (~c.socksUp => c.pending = 0)
PendingFits(c, p, acked) ==
  /\ Bounded(c)
  /\ Open(c) =>
       /\ c.pending = Len(p.queue) + acked
       /\ "sent" \in c.callbacks <=> c.socksUp
       /\ c.rest # <<>> => c.pending > 0
AckedFits == input.acked \in Nat /\ (input.stage # "sent" => input.acked = 0)
SocksFits(c, k) == k.state = "up" => c.socksUp

(* The socket is written to once at a time, as long as there is something  *)
(* to write.                                                               *)
OneOf(j, names) == \A a, b \in 1..Len(j) : j[a] \in names /\ j[b] \in names => a = b
NoneOf(j, names) == Jobs(j) \cap names = {}
WriteFits(k, j, buf) ==
  /\ OneOf(j, Writes)
  /\ k.sendWait => NoneOf(j, Writes)
  /\ k.sendWait \/ ~NoneOf(j, Writes) <=> k.state = "up" /\ buf # <<>>

(* Half a client has something to wait for.                                *)
Halves(c) ==
  c.life = "live" =>
    /\ ~(c.clientClosed /\ c.socksClosed)
    /\ c.clientClosed => c.buf # <<>>
    /\ c.socksClosed => c.rest # <<>> \/ c.pending > 0

Handled(c, p, acked, k, j) ==
  PendingFits(c, p, acked) /\ SocksFits(c, k) /\ WriteFits(k, j, c.buf) /\ Halves(c)
HandlersInv == AckedFits /\ Handled(client, pcb, input.acked, conn, jobs)

-----------------------------------------------------------------------------
(* The jobs of one kind.                                                   *)

LEMMA OneOfPop ==
  ASSUME NEW j, JobsOK(j), j # <<>>, NEW names, OneOf(j, names)
  PROVE  /\ OneOf(Tail(j), names)
         /\ Head(j) \in names => NoneOf(Tail(j), names)
         /\ Head(j) \notin names => (NoneOf(Tail(j), names) <=> NoneOf(j, names))
<1>1. j \in Seq(JobNames) /\ Len(j) \in Nat /\ Len(j) # 0
  BY DEF JobsOK
<1>2. /\ Len(Tail(j)) = Len(j) - 1 /\ Head(j) = j[1]
      /\ \A i \in 1..(Len(j) - 1) : Tail(j)[i] = j[i + 1]
  BY <1>1
<1>3. OneOf(Tail(j), names)
  <2> SUFFICES ASSUME NEW a \in 1..(Len(j) - 1), NEW b \in 1..(Len(j) - 1),
                      Tail(j)[a] \in names, Tail(j)[b] \in names
               PROVE  a = b
    BY <1>2 DEF OneOf
  <2>1. a + 1 \in 1..Len(j) /\ b + 1 \in 1..Len(j) /\ j[a + 1] \in names /\ j[b + 1] \in names
    BY <1>1, <1>2
  <2>2. a + 1 = b + 1
    BY <2>1 DEF OneOf
  <2> QED
    BY <2>2
<1>4. ASSUME Head(j) \in names PROVE NoneOf(Tail(j), names)
  <2>1. ASSUME NEW i \in 1..(Len(j) - 1), Tail(j)[i] \in names PROVE FALSE
    <3>1. i + 1 \in 1..Len(j) /\ 1 \in 1..Len(j) /\ j[i + 1] \in names /\ j[1] \in names
      BY <1>1, <1>2, <1>4, <2>1
    <3>2. i + 1 = 1
      BY <3>1 DEF OneOf
    <3> QED
      BY <3>2
  <2> QED
    BY <1>2, <2>1 DEF NoneOf, Jobs
<1>5. Jobs(j) = {Head(j)} \cup Jobs(Tail(j))
  BY JobsPop
<1> QED
  BY <1>3, <1>4, <1>5 DEF NoneOf

LEMMA OneOfPush ==
  ASSUME NEW j, JobsOK(j), NEW job, NEW names, OneOf(j, names),
         job \in names => NoneOf(j, names)
  PROVE  /\ OneOf(<<job>> \o j, names)
         /\ NoneOf(<<job>> \o j, names) <=> job \notin names /\ NoneOf(j, names)
<1> DEFINE k == <<job>> \o j
<1>1. j \in Seq(JobNames) /\ Len(j) \in Nat
  BY DEF JobsOK
<1>2. /\ Len(k) = Len(j) + 1 /\ k[1] = job
      /\ \A i \in 2..(Len(j) + 1) : k[i] = j[i - 1]
  BY <1>1
<1>3. Jobs(k) = {job} \cup Jobs(j)
  BY JobsPush
<1> HIDE DEF k
<1>4. OneOf(k, names)
  <2> SUFFICES ASSUME NEW a \in 1..(Len(j) + 1), NEW b \in 1..(Len(j) + 1),
                      k[a] \in names, k[b] \in names
               PROVE  a = b
    BY <1>2 DEF OneOf
  <2>1. \A i \in 1..(Len(j) + 1) : i = 1 \/ (i - 1 \in 1..Len(j) /\ k[i] = j[i - 1])
    BY <1>1, <1>2
  <2>2. CASE job \in names
    <3>1. \A i \in 1..Len(j) : j[i] \notin names
      BY <2>2 DEF NoneOf, Jobs
    <3> QED
      BY <2>1, <3>1
  <2>3. CASE job \notin names
    <3>1. a # 1 /\ b # 1
      BY <1>2, <2>3
    <3>2. a - 1 = b - 1
      BY <2>1, <3>1 DEF OneOf
    <3> QED
      BY <1>1, <3>2
  <2> QED
    BY <2>2, <2>3
<1> QED
  BY <1>3, <1>4 DEF NoneOf, k

LEMMA OneOfMark ==
  /\ \A names : OneOf(<<>>, names) /\ NoneOf(<<>>, names)
  /\ OneOf(<<"mark">>, Writes) /\ NoneOf(<<"mark">>, Writes)
BY DEF OneOf, NoneOf, Jobs, Writes

(* Where there is no job but a mark nothing is written.                    *)
LEMMA MarksWrite ==
  ASSUME NEW j, Jobs(j) \subseteq {"mark"}
  PROVE  OneOf(j, Writes) /\ NoneOf(j, Writes)
BY DEF OneOf, NoneOf, Jobs, Writes

-----------------------------------------------------------------------------
(* The end of a client, again.                                             *)

LEMMA FreeConnWrites ==
  ASSUME JobsOK(jobs), FreeConn, NEW buf
  PROVE  WriteFits(conn', jobs', buf) /\ conn'.state = "freed"
<1>1. conn'.state = "freed" /\ ~conn'.sendWait
  BY DEF FreeConn, NoConn
<1>2. Jobs(jobs') \subseteq {"mark"}
  BY FreeConnFits
<1> QED
  BY <1>1, <1>2, MarksWrite DEF WriteFits

LEMMA FreeSocksHandled ==
  ASSUME NEW c, DOMAIN c = ClientFields, NEW p, NEW acked, PendingFits(c, p, acked),
         JobsOK(jobs), FreeSocks(c, p)
  PROVE  Handled(client', pcb', acked, conn', jobs')
<1>1. WriteFits(conn', jobs', client'.buf) /\ SocksFits(client', conn')
  BY FreeConnWrites DEF FreeSocks, SocksFits
<1>2. CASE Dealloc(c)
  <2>1. client'.pending = c.pending /\ client'.socksUp = c.socksUp /\ ~Open(client') /\ client'.life = "gone"
    BY <1>2 DEF Dealloc, ClientFields, Open
  <2> QED
    BY <1>1, <2>1 DEF Handled, PendingFits, Bounded, Halves
<1>3. CASE /\ ~c.clientClosed /\ OwesClient(c) /\ pcb' = p
           /\ client' = [c EXCEPT !.socksClosed = TRUE, !.callbacks = @ \ {"recv"}]
  <2>1. /\ client'.pending = c.pending /\ client'.socksUp = c.socksUp /\ client'.rest = c.rest
        /\ client'.callbacks = c.callbacks \ {"recv"} /\ ~client'.clientClosed
    BY <1>3 DEF ClientFields
  <2> QED
    BY <1>1, <1>3, <2>1 DEF Handled, PendingFits, Bounded, Halves, OwesClient, Open
<1> QED
  BY <1>2, <1>3 DEF FreeSocks

LEMMA HandleFreedClientHandled ==
  ASSUME NEW c, DOMAIN c = ClientFields, Bounded(c), SocksFits(c, conn), NEW base, WriteFits(conn, base, c.buf),
         JobsOK(jobs), HandleFreedClient(c, base), NEW q, NEW a
  PROVE  Handled(client', q, a, conn', jobs')
<1>1. CASE Dealloc(c)
  <2>1. /\ client'.pending = c.pending /\ client'.socksUp = c.socksUp /\ ~Open(client')
        /\ client'.life = "gone" /\ client'.buf = c.buf
    BY <1>1 DEF Dealloc, ClientFields, Open
  <2>2. FreeConn \/ (UNCHANGED conn /\ jobs' = base)
    BY DEF HandleFreedClient
  <2>3. WriteFits(conn', jobs', client'.buf) /\ SocksFits(client', conn')
    BY <2>1, <2>2, FreeConnWrites DEF SocksFits
  <2> QED
    BY <2>1, <2>3 DEF Handled, PendingFits, Bounded, Halves
<1>2. CASE /\ ~c.socksClosed /\ c.buf # <<>>
           /\ client' = [c EXCEPT !.clientClosed = TRUE, !.callbacks = {}]
           /\ UNCHANGED conn /\ jobs' = base
  <2>1. /\ client'.pending = c.pending /\ client'.socksUp = c.socksUp /\ ~Open(client')
        /\ client'.buf = c.buf /\ ~client'.socksClosed
    BY <1>2 DEF ClientFields, Open
  <2> QED
    BY <1>2, <2>1 DEF Handled, PendingFits, Bounded, Halves, SocksFits
<1> QED
  BY <1>1, <1>2 DEF HandleFreedClient

-----------------------------------------------------------------------------
(* The actions, again.                                                     *)

(* What the invariants say of the structures.                              *)
LEMMA Known ==
  ASSUME IInv, PipeInv, HandlersInv
  PROVE  /\ DOMAIN client = ClientFields /\ PcbOK(pcb) /\ DOMAIN conn = ConnFields /\ JobsOK(jobs)
         /\ DOMAIN input = {"stage", "acked", "data", "fin"}
         /\ client.buf \in Seq(Int) /\ (client.clientClosed => ~Open(client))
         /\ client.clientClosed => client.callbacks = {}
         /\ Handled(client, pcb, input.acked, conn, jobs) /\ SndBuf \in Nat
BY SizesAssumption DEF IInv, Shapes, ClientOK, ConnOK, InputOK, HandlersInv, PipeInv

LEMMA AcceptHandled == IInv /\ PipeInv /\ HandlersInv /\ Accept => HandlersInv'
<1> SUFFICES ASSUME IInv, PipeInv, HandlersInv, Accept PROVE HandlersInv'
  OBVIOUS
<1>1. /\ client.life = "none" /\ ~client.clientClosed /\ client.buf = <<>> /\ client.rest = <<>>
      /\ conn.state = "none" /\ jobs = <<>> /\ input.stage = "idle" /\ client.callbacks = {}
      /\ pcb.queue = <<>> /\ ~client.socksClosed /\ ~client.socksUp /\ Len(<<>>) = 0
  BY DEF Accept, IInv, Fresh, PipeInv, Untouched, ClientFits
<1>2. input.acked = 0 /\ client.pending = 0 /\ ~conn.sendWait
  BY <1>1 DEF HandlersInv, AckedFits, Handled, PendingFits, Bounded, WriteFits
<1>3. CASE AcceptFails
  <2>1. /\ client'.life = "gone" /\ client'.buf = client.buf /\ client'.pending = 0
        /\ client'.callbacks = {} /\ ~client'.socksUp /\ UNCHANGED <<conn, jobs, input>>
    BY <1>1, <1>2, <1>3, Known DEF AcceptFails, ClientFields
  <2> QED
    BY <1>1, <1>2, <2>1, Known DEF HandlersInv, AckedFits, Handled, PendingFits, Bounded, SocksFits, Halves, Open
<1>4. CASE AcceptClient
  <2>1. /\ client'.callbacks = {"err", "recv"} /\ client'.rest = <<>> /\ client'.pending = 0
        /\ ~client'.clientClosed /\ ~client'.socksClosed /\ ~client'.socksUp
        /\ pcb'.queue = <<>> /\ conn'.state = "connecting" /\ ~conn'.sendWait
    BY <1>1, <1>2, <1>4, Known DEF AcceptClient, ClientFields, ConnFields, PcbOK
  <2>2. input'.acked = 0 /\ AckedFits'
    BY <1>2, <1>4, Known DEF AcceptClient, AckedFits
  <2>3. OneOf(jobs', Writes) /\ NoneOf(jobs', Writes)
    <3>1. jobs' = <<"mark">> \/ jobs' = <<"handshake">> \o <<"mark">>
      <4>1. <<>> \o <<"mark">> = <<"mark">>
        OBVIOUS
      <4> QED
        BY <1>4, <4>1 DEF AcceptClient, If
    <3>2. "handshake" \notin Writes /\ JobsOK(<<"mark">>)
      BY MarkOnly DEF Writes
    <3>3. /\ OneOf(<<"handshake">> \o <<"mark">>, Writes)
          /\ NoneOf(<<"handshake">> \o <<"mark">>, Writes)
      BY <3>2, OneOfMark, OneOfPush
    <3> QED
      BY <3>1, <3>3, OneOfMark
  <2> QED
    BY <1>1, <2>1, <2>2, <2>3, Known
       DEF HandlersInv, Handled, PendingFits, Bounded, SocksFits, WriteFits, Halves, Open
<1> QED
  BY <1>3, <1>4 DEF Accept

LEMMA HandshakeStepHandled ==
  ASSUME IInv, PipeInv, HandlersInv, conn.state \in Handshaking,
         NEW base, JobsOK(base), Jobs(base) \subseteq {"mark"}, HandshakeStep(base),
         UNCHANGED input
  PROVE  HandlersInv'
<1>1. /\ Handled(client, pcb, input.acked, conn, jobs) /\ AckedFits'
      /\ OneOf(base, Writes) /\ NoneOf(base, Writes) /\ ~conn.sendWait
  BY Known, MarksWrite DEF HandlersInv, AckedFits, Handled, WriteFits, Handshaking
<1>2. ASSUME NEW state \in Handshaking, conn' = [conn EXCEPT !.state = state],
             jobs' = <<"handshake">> \o base, UNCHANGED <<client, pcb>>
      PROVE  HandlersInv'
  <2>1. conn'.state = state /\ state # "up" /\ ~conn'.sendWait
    BY <1>1, <1>2, Known DEF ConnFields, Handshaking
  <2>2. OneOf(jobs', Writes) /\ NoneOf(jobs', Writes)
    BY <1>1, <1>2, OneOfPush DEF Writes
  <2> QED
    BY <1>1, <1>2, <2>1, <2>2 DEF HandlersInv, Handled, SocksFits, WriteFits
<1>3. CASE SocksUp(base)
  <2> DEFINE j == If(client.buf # <<>>, "send") \o base
             open == ~client.clientClosed
  <2>1. /\ client'.callbacks = client.callbacks \cup (IF open THEN {"sent"} ELSE {})
        /\ client'.life = client.life /\ client'.buf = client.buf /\ client'.rest = client.rest
        /\ client'.clientClosed = client.clientClosed /\ client'.socksClosed = client.socksClosed
        /\ client'.pending = client.pending /\ client'.socksUp
    BY <1>3, Known DEF SocksUp, ClientFields
  <2>2. conn'.state = "up" /\ ~conn'.sendWait
    BY <1>1, <1>3, Known DEF SocksUp, ConnFields
  <2>3. JobsOK(j) /\ OneOf(j, Writes) /\ (NoneOf(j, Writes) <=> client.buf = <<>>)
    <3>1. CASE client.buf # <<>>
      <4>1. j = <<"send">> \o base
        BY <3>1 DEF If
      <4> HIDE DEF j
      <4> QED
        BY <1>1, <3>1, <4>1, PushJob, OneOfPush DEF JobNames, Writes
    <3>2. CASE ~(client.buf # <<>>)
      <4>1. j = base
        BY <3>2 DEF If, JobsOK
      <4> QED
        BY <1>1, <3>2, <4>1
    <3> QED
      BY <3>1, <3>2
  <2>4. OneOf(jobs', Writes) /\ (NoneOf(jobs', Writes) <=> client.buf = <<>>)
    <3>1. jobs' = If(open, "recv") \o j
      BY <1>3 DEF SocksUp
    <3> HIDE DEF j
    <3>2. CASE open
      <4>1. jobs' = <<"recv">> \o j
        BY <3>1, <3>2 DEF If
      <4> QED
        BY <2>3, <4>1, OneOfPush DEF Writes
    <3>3. CASE ~open
      <4>1. jobs' = j
        BY <2>3, <3>1, <3>3 DEF If, JobsOK
      <4> QED
        BY <2>3, <4>1
    <3> QED
      BY <3>2, <3>3
  <2>5. WriteFits(conn', jobs', client'.buf) /\ SocksFits(client', conn') /\ Halves(client')
    BY <1>1, <2>1, <2>2, <2>4 DEF Handled, WriteFits, SocksFits, Halves
  <2>6. PendingFits(client', pcb', input'.acked)
    BY <1>1, <1>3, <2>1, Known DEF SocksUp, Handled, PendingFits, Bounded, Open
  <2> QED
    BY <1>1, <2>5, <2>6 DEF HandlersInv, Handled
<1>4. CASE HandshakeFails
  BY <1>1, <1>4, Known, FreeSocksHandled DEF HandshakeFails, HandlersInv, Handled
<1> QED
  BY <1>2, <1>3, <1>4, AfterStates DEF HandshakeStep

LEMMA HandshakeHandled ==
  IInv /\ PipeInv /\ HandlersInv /\ (HandshakeJob \/ HandshakeEvent) => HandlersInv'
<1> SUFFICES ASSUME IInv, PipeInv, HandlersInv, HandshakeJob \/ HandshakeEvent PROVE HandlersInv'
  OBVIOUS
<1>1. conn.state \in Handshaking /\ UNCHANGED input
  BY HandshakeState DEF HandshakeJob, HandshakeEvent
<1>2. CASE HandshakeJob
  <2>1. JobsOK(jobs) /\ JobsOK(Tail(jobs)) /\ jobs # <<>> /\ Head(jobs) = "handshake"
    BY <1>2, TopJob DEF HandshakeJob, Top
  <2>2. Jobs(jobs) = {"handshake"} \cup Jobs(Tail(jobs)) /\ JobsFit(conn, jobs)
    BY <2>1, JobsPop DEF PipeInv
  <2>3. Jobs(Tail(jobs)) \subseteq {"mark"}
    BY <1>1, <2>2 DEF JobsFit
  <2>4. CASE HandshakeStep(Tail(jobs))
    BY <1>1, <2>1, <2>3, <2>4, HandshakeStepHandled
  <2>5. CASE HandshakeWaits
    <3>1. OneOf(jobs', Writes) /\ NoneOf(jobs', Writes) /\ NoneOf(jobs, Writes) /\ UNCHANGED <<client, pcb, conn>>
      BY <2>2, <2>3, <2>5, MarksWrite DEF HandshakeWaits, NoneOf, Writes
    <3> QED
      BY <1>1, <3>1 DEF HandlersInv, AckedFits, Handled, WriteFits
  <2> QED
    BY <1>2, <2>4, <2>5 DEF HandshakeJob
<1>3. CASE HandshakeEvent
  BY <1>1, <1>3, NoJobs, JobsNone, HandshakeStepHandled DEF HandshakeEvent
<1> QED
  BY <1>2, <1>3

LEMMA ConnectionSendHandled ==
  ASSUME IInv, PipeInv, HandlersInv, conn.state = "up", client.buf # <<>>,
         NEW c, DOMAIN c = ConnFields, c.state = "up", ~c.sendWait,
         NEW base, JobsOK(base), OneOf(base, Writes), NoneOf(base, Writes),
         ConnectionSend(c, base), UNCHANGED input
  PROVE  HandlersInv'
<1>1. Handled(client, pcb, input.acked, conn, jobs) /\ AckedFits'
  BY DEF HandlersInv, AckedFits
<1>2. CASE FreeSocks(client, pcb)
  BY <1>1, <1>2, Known, FreeSocksHandled DEF HandlersInv, Handled
<1>3. ASSUME NEW k, conn' = [c EXCEPT !.busy = 0, !.done = k],
             jobs' = <<"sendDone">> \o base, UNCHANGED <<client, pcb>>
      PROVE  HandlersInv'
  <2>1. conn'.state = "up" /\ ~conn'.sendWait
    BY <1>3 DEF ConnFields
  <2>2. OneOf(jobs', Writes) /\ ~NoneOf(jobs', Writes)
    BY <1>3, OneOfPush DEF Writes
  <2> QED
    BY <1>1, <1>3, <2>1, <2>2 DEF HandlersInv, Handled, SocksFits, WriteFits
<1> QED
  BY <1>2, <1>3 DEF ConnectionSend

LEMMA ConnectionRecvHandled ==
  ASSUME IInv, PipeInv, HandlersInv, conn.state = "up",
         NEW c, DOMAIN c = ConnFields, c.state = "up",
         NEW base, JobsOK(base), WriteFits(c, base, client.buf),
         ConnectionRecv(c, base), UNCHANGED input
  PROVE  HandlersInv'
<1>1. Handled(client, pcb, input.acked, conn, jobs) /\ AckedFits'
  BY DEF HandlersInv, AckedFits
<1>2. CASE FreeSocks(client, pcb)
  BY <1>1, <1>2, Known, FreeSocksHandled DEF HandlersInv, Handled
<1>3. ASSUME NEW data, conn' = [c EXCEPT !.data = data],
             jobs' = <<"recvDone">> \o base, UNCHANGED <<client, pcb>>
      PROVE  HandlersInv'
  <2>1. conn'.state = "up" /\ conn'.sendWait = c.sendWait
    BY <1>3 DEF ConnFields
  <2>2. OneOf(jobs', Writes) /\ (NoneOf(jobs', Writes) <=> NoneOf(base, Writes))
    BY <1>3, OneOfPush DEF Writes, WriteFits
  <2> QED
    BY <1>1, <1>3, <2>1, <2>2 DEF HandlersInv, Handled, SocksFits, WriteFits
<1> QED
  BY <1>2, <1>3 DEF ConnectionRecv

LEMMA SendRecvHandled == IInv /\ PipeInv /\ HandlersInv /\ (SendJob \/ RecvJob) => HandlersInv'
<1> SUFFICES ASSUME IInv, PipeInv, HandlersInv, SendJob \/ RecvJob PROVE HandlersInv'
  OBVIOUS
<1>1. /\ JobsOK(jobs) /\ JobsOK(Tail(jobs)) /\ jobs # <<>> /\ Head(jobs) \in {"send", "recv"}
      /\ UNCHANGED input /\ DOMAIN conn = ConnFields
      /\ Handled(client, pcb, input.acked, conn, jobs) /\ AckedFits'
  BY TopJob, Known DEF SendJob, RecvJob, Top, HandlersInv, AckedFits
<1>2. conn.state = "up"
  <2>1. Head(jobs) \in Jobs(jobs)
    BY <1>1, JobsPop
  <2> QED
    BY <1>1, <2>1 DEF PipeInv, JobsFit, Off
<1>3. OneOf(jobs, Writes) /\ WriteFits(conn, jobs, client.buf)
  BY <1>1 DEF Handled, WriteFits
<1>4. OneOf(Tail(jobs), Writes)
  BY <1>1, <1>3, OneOfPop
<1>5. CASE SendJob
  <2>1. Head(jobs) = "send" /\ NoneOf(Tail(jobs), Writes) /\ ~NoneOf(jobs, Writes)
    <3>1. Head(jobs) = "send" /\ Head(jobs) \in Writes
      BY <1>5 DEF SendJob, Top, Writes
    <3>2. NoneOf(Tail(jobs), Writes)
      BY <1>1, <1>3, <3>1, OneOfPop
    <3>3. Head(jobs) \in Jobs(jobs)
      BY <1>1, JobsPop
    <3> QED
      BY <3>1, <3>2, <3>3 DEF NoneOf
  <2>2. ~conn.sendWait /\ client.buf # <<>>
    BY <1>3, <2>1 DEF WriteFits
  <2>3. CASE ConnectionSend(conn, Tail(jobs))
    BY <1>1, <1>2, <1>4, <2>1, <2>2, <2>3, ConnectionSendHandled
  <2>4. CASE conn' = [conn EXCEPT !.sendWait = TRUE] /\ jobs' = Tail(jobs) /\ UNCHANGED <<client, pcb>>
    <3>1. conn'.state = "up" /\ conn'.sendWait
      BY <1>1, <1>2, <2>4 DEF ConnFields
    <3> QED
      BY <1>1, <1>4, <2>1, <2>2, <2>4, <3>1 DEF HandlersInv, Handled, SocksFits, WriteFits
  <2> QED
    BY <1>5, <2>3, <2>4 DEF SendJob
<1>6. CASE RecvJob
  <2>1. NoneOf(Tail(jobs), Writes) <=> NoneOf(jobs, Writes)
    <3>1. Head(jobs) \notin Writes
      BY <1>6 DEF RecvJob, Top, Writes
    <3> QED
      BY <1>1, <1>3, <3>1, OneOfPop
  <2>2. WriteFits(conn, Tail(jobs), client.buf)
    BY <1>3, <1>4, <2>1 DEF WriteFits
  <2>3. CASE ConnectionRecv(conn, Tail(jobs))
    BY <1>1, <1>2, <2>2, <2>3, ConnectionRecvHandled
  <2>4. CASE conn' = [conn EXCEPT !.recvWait = TRUE] /\ jobs' = Tail(jobs) /\ UNCHANGED <<client, pcb>>
    <3>1. conn'.state = "up" /\ conn'.sendWait = conn.sendWait
      BY <1>1, <1>2, <2>4 DEF ConnFields
    <3> QED
      BY <1>1, <1>2, <2>2, <2>4, <3>1 DEF HandlersInv, Handled, SocksFits, WriteFits
  <2> QED
    BY <1>6, <2>3, <2>4 DEF RecvJob
<1> QED
  BY <1>5, <1>6

LEMMA FdEventHandled == IInv /\ PipeInv /\ HandlersInv /\ FdEvent => HandlersInv'
<1> SUFFICES ASSUME IInv, PipeInv, HandlersInv, FdEvent PROVE HandlersInv'
  OBVIOUS
<1>1. /\ jobs = <<>> /\ conn.state = "up" /\ UNCHANGED input /\ DOMAIN conn = ConnFields
      /\ Handled(client, pcb, input.acked, conn, jobs) /\ AckedFits'
  BY Known DEF FdEvent, Idle, HandlersInv, AckedFits
<1>2. PICK write, read, hup \in BOOLEAN :
        /\ write => conn.sendWait
        /\ read => conn.recvWait /\ Readable
        /\ hup = server.reset
        /\ LET send == conn.sendWait /\ (write \/ hup)
               recv == conn.recvWait /\ (read \/ hup)
               c == [conn EXCEPT !.hup = hup, !.sendWait = @ /\ ~send, !.recvWait = @ /\ ~recv]
           IN \/ send /\ ConnectionSend(c, If(recv, "recv"))
              \/ recv /\ ~send /\ ConnectionRecv(c, <<>>)
              \/ /\ hup /\ ~send /\ ~recv
                 /\ conn' = c /\ UNCHANGED <<client, pcb, jobs, short, server>>
  BY Zenon DEF FdEvent
<1> DEFINE send == conn.sendWait /\ (write \/ hup)
           recv == conn.recvWait /\ (read \/ hup)
           c == [conn EXCEPT !.hup = hup, !.sendWait = @ /\ ~send, !.recvWait = @ /\ ~recv]
<1>3. DOMAIN c = ConnFields /\ c.state = "up" /\ c.sendWait = (conn.sendWait /\ ~send)
  BY <1>1 DEF ConnFields
<1>4. \/ send /\ ConnectionSend(c, If(recv, "recv"))
      \/ ~send /\ ConnectionRecv(c, <<>>)
      \/ ~send /\ conn' = c /\ UNCHANGED <<client, pcb, jobs>>
  BY <1>2
<1>5. send => conn.sendWait
  OBVIOUS
<1> HIDE DEF c, send
<1>6. OneOf(<<>>, Writes) /\ NoneOf(<<>>, Writes) /\ JobsOK(<<>>)
  BY OneOfMark, NoJobs
<1>7. WriteFits(conn, <<>>, client.buf)
  BY <1>1 DEF Handled
<1>8. CASE send /\ ConnectionSend(c, If(recv, "recv"))
  <2> DEFINE base == If(recv, "recv")
  <2> HIDE DEF recv
  <2>1. JobsOK(base) /\ OneOf(base, Writes) /\ NoneOf(base, Writes)
    <3>1. CASE recv
      <4>1. base = <<"recv">> /\ JobsOK(<<"recv">>)
        BY <3>1 DEF If, JobsOK, JobNames
      <4>2. OneOf(<<"recv">>, Writes) /\ NoneOf(<<"recv">>, Writes)
        BY DEF OneOf, NoneOf, Jobs, Writes
      <4> QED
        BY <4>1, <4>2
    <3>2. CASE ~recv
      BY <1>6, <3>2 DEF If
    <3> QED
      BY <3>1, <3>2
  <2>2. client.buf # <<>> /\ ~c.sendWait
    BY <1>3, <1>5, <1>7, <1>8 DEF WriteFits
  <2>3. ConnectionSend(c, base)
    BY <1>8
  <2> HIDE DEF base
  <2> QED
    BY <1>1, <1>3, <2>1, <2>2, <2>3, ConnectionSendHandled
<1>9. CASE ~send /\ ConnectionRecv(c, <<>>)
  <2>1. WriteFits(c, <<>>, client.buf)
    BY <1>1, <1>3, <1>7, <1>9 DEF WriteFits
  <2> QED
    BY <1>1, <1>3, <1>6, <1>9, <2>1, ConnectionRecvHandled
<1>10. CASE ~send /\ conn' = c /\ UNCHANGED <<client, pcb, jobs>>
  BY <1>1, <1>3, <1>10 DEF HandlersInv, Handled, SocksFits, WriteFits
<1> QED
  BY <1>4, <1>8, <1>9, <1>10

LEMMA SendDoneHandled == IInv /\ PipeInv /\ HandlersInv /\ SendDone => HandlersInv'
<1> SUFFICES ASSUME IInv, PipeInv, HandlersInv, SendDone PROVE HandlersInv'
  OBVIOUS
<1> DEFINE c == [client EXCEPT !.buf = Unsent(client)]
           p == Confirm(c, pcb)
<1>1. /\ JobsOK(jobs) /\ JobsOK(Tail(jobs)) /\ jobs # <<>> /\ Head(jobs) = "sendDone"
      /\ UNCHANGED input /\ DOMAIN conn = ConnFields
      /\ Handled(client, pcb, input.acked, conn, jobs) /\ AckedFits'
  BY TopJob, Known DEF SendDone, Top, HandlersInv, AckedFits
<1>2. conn.state = "up"
  <2>1. Head(jobs) \in Jobs(jobs)
    BY <1>1, JobsPop
  <2> QED
    BY <1>1, <2>1 DEF PipeInv, JobsFit, Off
<1>3. OneOf(jobs, Writes) /\ WriteFits(conn, jobs, client.buf)
  BY <1>1 DEF Handled, WriteFits
<1>4. OneOf(Tail(jobs), Writes) /\ NoneOf(Tail(jobs), Writes) /\ ~NoneOf(jobs, Writes)
  <2>1. Head(jobs) \in Writes /\ Head(jobs) \in Jobs(jobs)
    BY <1>1, JobsPop DEF Writes
  <2>2. OneOf(Tail(jobs), Writes) /\ NoneOf(Tail(jobs), Writes)
    BY <1>1, <1>3, <2>1, OneOfPop
  <2> QED
    BY <2>1, <2>2 DEF NoneOf
<1>5. ~conn.sendWait
  BY <1>3, <1>4 DEF WriteFits
<1>6. /\ DOMAIN c = ClientFields /\ c.rest = client.rest /\ c.pending = client.pending
      /\ c.callbacks = client.callbacks /\ c.life = client.life /\ c.socksUp = client.socksUp
      /\ c.clientClosed = client.clientClosed /\ c.socksClosed = client.socksClosed
      /\ c.buf = Unsent(client)
  BY Known DEF ClientFields
<1>7. p.queue = pcb.queue
  <2> HIDE DEF c
  <2> QED
    BY Known DEF Confirm, PcbOK
<1>8. FreeSocks(c, p) \/ (/\ client' = c /\ pcb' = p /\ (c.buf # <<>> \/ ~c.clientClosed)
                          /\ conn' = [conn EXCEPT !.done = 0, !.busy = Len(c.buf)]
                          /\ jobs' = If(c.buf # <<>>, "send") \o Tail(jobs))
  BY DEF SendDone
<1> HIDE DEF c, p
<1>9. PendingFits(c, p, input.acked)
  BY <1>1, <1>6, <1>7 DEF Handled, PendingFits, Bounded, Open
<1>10. CASE FreeSocks(c, p)
  BY <1>1, <1>6, <1>9, <1>10, FreeSocksHandled DEF HandlersInv
<1>11. CASE /\ client' = c /\ pcb' = p /\ (c.buf # <<>> \/ ~c.clientClosed)
            /\ conn' = [conn EXCEPT !.done = 0, !.busy = Len(c.buf)]
            /\ jobs' = If(c.buf # <<>>, "send") \o Tail(jobs)
  <2>1. conn'.state = "up" /\ ~conn'.sendWait
    BY <1>1, <1>2, <1>5, <1>11 DEF ConnFields
  <2>2. OneOf(jobs', Writes) /\ (NoneOf(jobs', Writes) <=> c.buf = <<>>)
    <3>1. CASE c.buf # <<>>
      <4>1. jobs' = <<"send">> \o Tail(jobs)
        BY <1>11, <3>1 DEF If
      <4> QED
        BY <1>1, <1>4, <3>1, <4>1, OneOfPush DEF Writes
    <3>2. CASE ~(c.buf # <<>>)
      <4>1. jobs' = Tail(jobs)
        BY <1>1, <1>11, <3>2 DEF If, JobsOK
      <4> QED
        BY <1>4, <3>2, <4>1
    <3> QED
      BY <3>1, <3>2
  <2>3. WriteFits(conn', jobs', client'.buf) /\ SocksFits(client', conn') /\ Halves(client')
    BY <1>1, <1>2, <1>6, <1>11, <2>1, <2>2 DEF Handled, WriteFits, SocksFits, Halves
  <2>4. PendingFits(client', pcb', input'.acked)
    BY <1>1, <1>9, <1>11
  <2> QED
    BY <1>1, <2>3, <2>4 DEF HandlersInv, Handled
<1> QED
  BY <1>8, <1>10, <1>11

(* What client_socks_recv_send_out queues has to be acknowledged.          *)
LEMMA SendOutHandled ==
  ASSUME NEW c, DOMAIN c = ClientFields, NEW p, PcbOK(p), p.queue \in Seq(Int), c.rest \in Seq(Int),
         c.pending = Len(p.queue), Len(p.queue) <= SndBuf, c.socksUp,
         NEW n \in {0, Queueable(c, p)}
  PROVE  /\ DOMAIN Left(c, n) = ClientFields /\ Bounded(Left(c, n))
         /\ Left(c, n).pending = Len(Queued(c, p, n).queue)
         /\ Left(c, n).callbacks = c.callbacks /\ Left(c, n).life = c.life
         /\ Left(c, n).clientClosed = c.clientClosed /\ Left(c, n).socksClosed = c.socksClosed
         /\ Left(c, n).socksUp = c.socksUp /\ Left(c, n).buf = c.buf
         /\ c.rest # <<>> => Left(c, n).rest # <<>> \/ Left(c, n).pending > 0
<1>1. /\ DOMAIN Left(c, n) = ClientFields /\ Left(c, n).rest = Drop(c.rest, n)
      /\ Left(c, n).pending = c.pending + n
      /\ Left(c, n).callbacks = c.callbacks /\ Left(c, n).life = c.life
      /\ Left(c, n).clientClosed = c.clientClosed /\ Left(c, n).socksClosed = c.socksClosed
      /\ Left(c, n).socksUp = c.socksUp /\ Left(c, n).buf = c.buf
      /\ Queued(c, p, n).queue = p.queue \o SubSeq(c.rest, 1, n)
  BY DEF Left, Queued, ClientFields, PcbOK
<1> DEFINE used == Len(p.queue)
           rest == Len(c.rest)
           x == SubSeq(c.rest, 1, n)
<1>2. used \in Nat /\ rest \in Nat /\ SndBuf \in Nat /\ n \in {0, Lesser(rest, SndBuf - used)}
  BY SizesAssumption DEF Queueable
<1>3. n \in Nat /\ n <= rest /\ used + n <= SndBuf
  <2> HIDE DEF used, rest
  <2> QED
    BY <1>2 DEF Lesser, used
<1>4. x \in Seq(Int) /\ Len(x) = n
  BY <1>2, <1>3
<1>5. Len(p.queue \o x) = used + n
  <2> DEFINE q == p.queue
  <2>1. q \in Seq(Int)
    OBVIOUS
  <2> HIDE DEF x, q
  <2>2. Len(q \o x) = Len(q) + n
    BY <1>4, <2>1, ConcatInts
  <2> QED
    BY <2>2 DEF q
<1>6. c.rest # <<>> => Drop(c.rest, n) # <<>> \/ used + n > 0
  <2>1. CASE n = 0
    <3>1. Drop(c.rest, 0) = c.rest
      BY DEF Drop
    <3> QED
      BY <2>1, <3>1
  <2>2. CASE n # 0
    BY <1>2, <1>3, <2>2
  <2> QED
    BY <2>1, <2>2
<1>7. used + n \in 0..SndBuf
  BY <1>2, <1>3
<1> QED
  BY <1>1, <1>5, <1>6, <1>7 DEF Bounded

(* The sequences of a client with callbacks.                               *)
LEMMA OpenSequences ==
  ASSUME PipeInv, Open(client)
  PROVE  /\ pcb.queue \in Seq(Int) /\ Len(pcb.queue) \in Nat /\ Len(pcb.queue) <= SndBuf
         /\ client.rest \in Seq(Int)
         /\ ~Off(conn) => conn.data \in Seq(Int)
BY PieceLen DEF PipeInv, DownFits

LEMMA RecvDoneHandled ==
  IInv /\ PipeInv /\ UseInv /\ HandlersInv /\ RecvDone => HandlersInv'
<1> SUFFICES ASSUME IInv, PipeInv, UseInv, HandlersInv, RecvDone PROVE HandlersInv'
  OBVIOUS
<1> DEFINE c == [client EXCEPT !.rest = conn.data]
<1>1. /\ JobsOK(jobs) /\ JobsOK(Tail(jobs)) /\ jobs # <<>> /\ Head(jobs) = "recvDone"
      /\ UNCHANGED input /\ DOMAIN conn = ConnFields
      /\ Handled(client, pcb, input.acked, conn, jobs) /\ AckedFits'
  BY TopJob, Known DEF RecvDone, Top, HandlersInv, AckedFits
<1>2. conn.state = "up" /\ ~Off(conn) /\ input.acked = 0
  <2>1. Head(jobs) \in Jobs(jobs)
    BY <1>1, JobsPop
  <2>2. conn.state = "up"
    BY <1>1, <2>1 DEF PipeInv, JobsFit, Off
  <2> QED
    BY <1>1, <2>2 DEF Off, UseInv, StageFits, HandlersInv, AckedFits
<1>3. OneOf(Tail(jobs), Writes) /\ (NoneOf(Tail(jobs), Writes) <=> NoneOf(jobs, Writes))
  BY <1>1, OneOfPop DEF Handled, WriteFits, Writes
<1>4. WriteFits(conn, Tail(jobs), client.buf)
  BY <1>1, <1>3 DEF Handled, WriteFits
<1>5. CASE client.clientClosed
  <2>1. conn' = [conn EXCEPT !.data = <<>>] /\ jobs' = Tail(jobs) /\ UNCHANGED <<client, pcb>>
    BY <1>5 DEF RecvDone
  <2>2. conn'.state = conn.state /\ conn'.sendWait = conn.sendWait
    BY <1>1, <2>1 DEF ConnFields
  <2> QED
    BY <1>1, <1>4, <2>1, <2>2 DEF HandlersInv, Handled, WriteFits, SocksFits
<1>6. CASE ~client.clientClosed
  <2>1. Open(client) /\ client.socksUp /\ ~client.socksClosed /\ "sent" \in client.callbacks
    BY <1>1, <1>2, <1>6 DEF PipeInv, ClientFits, Off, Handled, SocksFits, PendingFits
  <2>2. /\ DOMAIN c = ClientFields /\ c.rest = conn.data /\ c.pending = client.pending
        /\ c.callbacks = client.callbacks /\ c.life = client.life /\ c.socksUp
        /\ c.clientClosed = client.clientClosed /\ c.socksClosed = client.socksClosed
        /\ c.buf = client.buf
    BY <2>1, Known DEF ClientFields
  <2>3. /\ c.pending = Len(pcb.queue) /\ c.rest \in Seq(Int) /\ pcb.queue \in Seq(Int)
        /\ Len(pcb.queue) <= SndBuf /\ PcbOK(pcb)
    BY <1>1, <1>2, <2>1, <2>2, OpenSequences, Known DEF Handled, PendingFits
  <2>4. PICK n \in {0, Queueable(c, pcb)} :
          \/ /\ Left(c, n).rest = <<>> \/ Left(c, n).pending # 0
             /\ client' = Left(c, n) /\ pcb' = Queued(c, pcb, n)
             /\ conn' = [conn EXCEPT !.data = <<>>]
             /\ jobs' = If(Left(c, n).rest = <<>>, "recv") \o Tail(jobs)
          \/ AbortClient(Left(c, n), Queued(c, pcb, n), Tail(jobs))
    BY <1>6 DEF RecvDone, SendOut, Left, Queued
  <2> HIDE DEF c
  <2> DEFINE left == Left(c, n)
             queued == Queued(c, pcb, n)
  <2>5. /\ DOMAIN left = ClientFields /\ Bounded(left) /\ left.pending = Len(queued.queue)
        /\ left.callbacks = c.callbacks /\ left.life = c.life
        /\ left.clientClosed = c.clientClosed /\ left.socksClosed = c.socksClosed
        /\ left.socksUp = c.socksUp /\ left.buf = c.buf
    <3>1. n \in {0, Queueable(c, pcb)} /\ c.socksUp
      BY <2>2, <2>4
    <3>2. /\ DOMAIN c = ClientFields /\ PcbOK(pcb) /\ pcb.queue \in Seq(Int) /\ c.rest \in Seq(Int)
          /\ c.pending = Len(pcb.queue) /\ Len(pcb.queue) <= SndBuf
      BY <2>2, <2>3
    <3> HIDE DEF left, queued
    <3> QED
      BY <3>1, <3>2, SendOutHandled, ZenonT(30) DEF left, queued
  <2>6. CASE AbortClient(left, queued, Tail(jobs))
    <3>1. HandleFreedClient(left, Tail(jobs))
      BY <2>6 DEF AbortClient
    <3>2. SocksFits(left, conn) /\ WriteFits(conn, Tail(jobs), left.buf)
      BY <1>4, <2>2, <2>5 DEF SocksFits
    <3> HIDE DEF left, queued
    <3>3. Handled(client', pcb', input'.acked, conn', jobs')
      BY <1>1, <2>5, <3>1, <3>2, HandleFreedClientHandled
    <3> QED
      BY <1>1, <3>3 DEF HandlersInv
  <2>7. CASE /\ left.rest = <<>> \/ left.pending # 0
             /\ client' = left /\ pcb' = queued
             /\ conn' = [conn EXCEPT !.data = <<>>]
             /\ jobs' = If(left.rest = <<>>, "recv") \o Tail(jobs)
    <3> HIDE DEF left, queued
    <3>1. conn'.state = conn.state /\ conn'.sendWait = conn.sendWait
      BY <1>1, <2>7 DEF ConnFields
    <3>2. OneOf(jobs', Writes) /\ (NoneOf(jobs', Writes) <=> NoneOf(jobs, Writes))
      <4>1. CASE left.rest = <<>>
        <5>1. jobs' = <<"recv">> \o Tail(jobs)
          BY <2>7, <4>1 DEF If
        <5> QED
          BY <1>1, <1>3, <5>1, OneOfPush DEF Writes
      <4>2. CASE ~(left.rest = <<>>)
        <5>1. jobs' = Tail(jobs)
          BY <1>1, <2>7, <4>2 DEF If, JobsOK
        <5> QED
          BY <1>3, <5>1
      <4> QED
        BY <4>1, <4>2
    <3>3. WriteFits(conn', jobs', client'.buf) /\ SocksFits(client', conn') /\ Halves(client')
      BY <1>1, <1>6, <2>1, <2>2, <2>5, <2>7, <3>1, <3>2 DEF Handled, WriteFits, SocksFits, Halves
    <3>4. PendingFits(client', pcb', input'.acked)
      <4>1. left.pending + 0 = left.pending /\ (left.pending # 0 => left.pending > 0)
        <5>1. left.pending \in 0..SndBuf /\ SndBuf \in Nat
          BY <2>5, Known DEF Bounded
        <5> QED
          BY <5>1
      <4>2. "sent" \in left.callbacks /\ left.socksUp
        BY <2>1, <2>2, <2>5
      <4> QED
        BY <1>1, <1>2, <2>5, <2>7, <4>1, <4>2 DEF PendingFits
    <3> QED
      BY <1>1, <3>3, <3>4 DEF HandlersInv, Handled
  <2> QED
    BY <2>4, <2>6, <2>7
<1> QED
  BY <1>5, <1>6

LEMMA SegmentHandled == IInv /\ PipeInv /\ HandlersInv /\ AppSegment => HandlersInv'
<1> SUFFICES ASSUME IInv, PipeInv, HandlersInv, AppSegment PROVE HandlersInv'
  OBVIOUS
<1>1. PICK acked \in 0..Len(pcb.queue), data \in 0..(MaxUp - app.sent), fin \in BOOLEAN :
        TcpInput(acked, data, fin)
  BY DEF AppSegment
<1>2. /\ input.stage = "idle" /\ PcbLive /\ UNCHANGED <<client, conn, jobs>> /\ Open(client)
      /\ Handled(client, pcb, input.acked, conn, jobs) /\ input.acked = 0
  BY <1>1 DEF TcpInput, Idle, PipeInv, HandlersInv, AckedFits
<1>3. pcb.queue \in Seq(Int) /\ Len(pcb.queue) \in Nat
  BY <1>2, OpenSequences
<1>4. acked \in Nat /\ acked <= Len(pcb.queue)
  BY <1>1, <1>3
<1>5. pcb'.queue = Drop(pcb.queue, acked) /\ Len(pcb'.queue) = Len(pcb.queue) - acked
  BY <1>1, <1>3, <1>4, DropInts DEF TcpInput
<1>6. input'.acked = acked /\ AckedFits'
  BY <1>1, <1>4 DEF TcpInput, AckedFits
<1>7. client.pending = Len(pcb'.queue) + acked
  BY <1>2, <1>3, <1>4, <1>5 DEF Handled, PendingFits
<1>8. PendingFits(client', pcb', input'.acked)
  BY <1>2, <1>6, <1>7 DEF Handled, PendingFits
<1> QED
  BY <1>2, <1>6, <1>8 DEF HandlersInv, Handled

LEMMA TcpSentHandled ==
  IInv /\ PipeInv /\ UseInv /\ HandlersInv /\ TcpSent => HandlersInv'
<1> SUFFICES ASSUME IInv, PipeInv, UseInv, HandlersInv, TcpSent PROVE HandlersInv'
  OBVIOUS
<1> DEFINE c == [client EXCEPT !.pending = @ - input.acked]
<1>1. /\ jobs = <<>> /\ input.stage = "sent" /\ DOMAIN input = {"stage", "acked", "data", "fin"}
      /\ Handled(client, pcb, input.acked, conn, jobs) /\ input.acked \in Nat /\ JobsOK(jobs)
      /\ Open(client) /\ (client.clientClosed => client.callbacks = {})
  BY Known DEF TcpSent, HandlersInv, AckedFits, UseInv, StageFits, PipeInv
<1>2. /\ pcb.queue \in Seq(Int) /\ Len(pcb.queue) \in Nat /\ Len(pcb.queue) <= SndBuf
      /\ client.rest \in Seq(Int) /\ PcbOK(pcb) /\ SndBuf \in Nat
      /\ client.pending = Len(pcb.queue) + input.acked
  BY <1>1, OpenSequences, Known DEF Handled, PendingFits
<1>3. input'.acked = 0 /\ AckedFits'
  <2>1. \/ input' = NoInput
        \/ input' = [input EXCEPT !.stage = "sentSync", !.acked = 0]
        \/ input' = [input EXCEPT !.stage = "recv", !.acked = 0]
    BY DEF TcpSent, InputAborted, InputGoesOn
  <2>2. CASE input' = NoInput
    BY <2>2 DEF NoInput, AckedFits
  <2>3. CASE input' = [input EXCEPT !.stage = "sentSync", !.acked = 0]
    BY <1>1, <2>3 DEF AckedFits
  <2>4. CASE input' = [input EXCEPT !.stage = "recv", !.acked = 0]
    BY <1>1, <2>4 DEF AckedFits
  <2> QED
    BY <2>1, <2>2, <2>3, <2>4
<1>4. CASE "sent" \notin client.callbacks
  <2>1. UNCHANGED <<client, pcb, conn, jobs>>
    BY <1>4 DEF TcpSent
  <2>2. ~client.socksUp /\ client.pending = 0
    BY <1>1, <1>4 DEF Handled, PendingFits, Bounded
  <2>3. Len(pcb.queue) = 0 /\ input.acked = 0
    BY <1>1, <1>2, <2>2
  <2> QED
    BY <1>1, <1>3, <2>1, <2>3 DEF HandlersInv, Handled
<1>5. CASE "sent" \in client.callbacks
  <2>1. /\ DOMAIN c = ClientFields /\ c.rest = client.rest
        /\ c.callbacks = client.callbacks /\ c.life = client.life /\ c.socksUp = client.socksUp
        /\ c.clientClosed = client.clientClosed /\ c.socksClosed = client.socksClosed
        /\ c.buf = client.buf /\ c.pending = client.pending - input.acked
    BY Known DEF ClientFields
  <2>2. c.pending = Len(pcb.queue) /\ c.socksUp
    <3> DEFINE was == client.pending
    <3>1. /\ c.pending = was - input.acked /\ was = Len(pcb.queue) + input.acked /\ was \in Nat
          /\ "sent" \in c.callbacks /\ Open(c)
      BY <1>1, <1>2, <1>5, <2>1 DEF Open
    <3>2. \A n, a, b \in Nat : n = b + a => n - a = b
      OBVIOUS
    <3>3. input.acked \in Nat /\ Len(pcb.queue) \in Nat
      BY <1>1, <1>2
    <3> HIDE DEF c, was
    <3>4. was - input.acked = Len(pcb.queue)
      BY <3>1, <3>2, <3>3
    <3> QED
      BY <1>1, <1>5, <2>1, <3>1, <3>4 DEF Handled, PendingFits
  <2>3. ClientSent
    BY <1>5 DEF TcpSent
  <2>4. Bounded(c) /\ SocksFits(c, conn) /\ WriteFits(conn, jobs, c.buf)
    BY <1>1, <1>2, <2>1, <2>2 DEF Handled, Bounded, SocksFits
  <2>5. CASE c.rest # <<>>
    <3>1. PICK n \in {0, Queueable(c, pcb)} :
            \/ /\ Left(c, n).rest = <<>> \/ Left(c, n).pending # 0
               /\ client' = Left(c, n) /\ pcb' = Queued(c, pcb, n) /\ UNCHANGED conn
               /\ jobs' = IF Left(c, n).rest = <<>> /\ ~Left(c, n).socksClosed
                            THEN <<"recv", "mark">> ELSE jobs
            \/ AbortClient(Left(c, n), Queued(c, pcb, n), jobs)
      BY <2>3, <2>5 DEF ClientSent, SendOut, Left, Queued
    <3> HIDE DEF c
    <3> DEFINE left == Left(c, n)
               queued == Queued(c, pcb, n)
    <3>2. /\ DOMAIN left = ClientFields /\ Bounded(left) /\ left.pending = Len(queued.queue)
          /\ left.callbacks = c.callbacks /\ left.life = c.life
          /\ left.clientClosed = c.clientClosed /\ left.socksClosed = c.socksClosed
          /\ left.socksUp = c.socksUp /\ left.buf = c.buf
          /\ left.rest # <<>> \/ left.pending > 0
      <4>1. n \in {0, Queueable(c, pcb)}
        BY <3>1
      <4>2. /\ DOMAIN c = ClientFields /\ PcbOK(pcb) /\ pcb.queue \in Seq(Int) /\ c.rest \in Seq(Int)
            /\ c.pending = Len(pcb.queue) /\ Len(pcb.queue) <= SndBuf /\ c.socksUp
        BY <1>2, <2>1, <2>2
      <4> HIDE DEF left, queued
      <4> QED
        BY <2>5, <4>1, <4>2, SendOutHandled, ZenonT(30) DEF left, queued
    <3>3. CASE AbortClient(left, queued, jobs)
      <4>1. HandleFreedClient(left, jobs)
        BY <3>3 DEF AbortClient
      <4>2. SocksFits(left, conn) /\ WriteFits(conn, jobs, left.buf)
        BY <2>4, <3>2 DEF SocksFits
      <4> HIDE DEF left, queued
      <4>3. Handled(client', pcb', input'.acked, conn', jobs')
        BY <1>1, <3>2, <4>1, <4>2, HandleFreedClientHandled
      <4> QED
        BY <1>3, <4>3 DEF HandlersInv
    <3>4. CASE /\ left.rest = <<>> \/ left.pending # 0
               /\ client' = left /\ pcb' = queued /\ UNCHANGED conn
               /\ jobs' = IF left.rest = <<>> /\ ~left.socksClosed THEN <<"recv", "mark">> ELSE jobs
      <4> HIDE DEF left, queued
      <4>1. OneOf(jobs', Writes) /\ NoneOf(jobs', Writes)
        <5>1. OneOf(<<"recv", "mark">>, Writes) /\ NoneOf(<<"recv", "mark">>, Writes)
          BY DEF OneOf, NoneOf, Jobs, Writes
        <5> QED
          BY <1>1, <3>4, <5>1, OneOfMark
      <4>2. NoneOf(jobs, Writes)
        BY <1>1, OneOfMark
      <4>3. WriteFits(conn', jobs', client'.buf) /\ SocksFits(client', conn')
        BY <2>4, <3>2, <3>4, <4>1, <4>2 DEF WriteFits, SocksFits
      <4>4. left.pending \in Nat /\ (left.pending # 0 => left.pending > 0)
        <5>1. left.pending \in 0..SndBuf
          BY <3>2 DEF Bounded
        <5> QED
          BY <1>2, <5>1
      <4>5. Halves(client')
        BY <1>1, <1>5, <2>1, <3>2, <3>4 DEF Halves
      <4>6. PendingFits(client', pcb', 0)
        <5>1. left.pending + 0 = left.pending
          BY <4>4
        <5> QED
          BY <1>5, <2>1, <2>2, <3>2, <3>4, <4>4, <5>1 DEF PendingFits
      <4> QED
        BY <1>3, <4>3, <4>5, <4>6 DEF HandlersInv, Handled
    <3> QED
      BY <3>1, <3>3, <3>4
  <2>6. CASE c.rest = <<>> /\ OwesNothing(c)
    <3>1. HandleFreedClient(c, jobs)
      BY <2>3, <2>6 DEF ClientSent, FreeClient
    <3> HIDE DEF c
    <3>2. Handled(client', pcb', input'.acked, conn', jobs')
      BY <1>1, <2>1, <2>4, <3>1, HandleFreedClientHandled
    <3> QED
      BY <1>3, <3>2 DEF HandlersInv
  <2>7. CASE c.rest = <<>> /\ ~OwesNothing(c)
    <3>1. client' = c /\ UNCHANGED <<pcb, conn, jobs>>
      BY <2>3, <2>7 DEF ClientSent
    <3> HIDE DEF c
    <3>2. Halves(client')
      <4>1. c.pending # 0 => c.pending > 0
        BY <1>2, <2>2
      <4> QED
        BY <1>1, <1>5, <2>1, <2>7, <3>1, <4>1 DEF Halves, OwesNothing
    <3>3. PendingFits(client', pcb', 0)
      <4>1. c.pending + 0 = c.pending
        BY <1>2, <2>2
      <4> QED
        BY <1>5, <2>1, <2>2, <2>4, <2>7, <3>1, <4>1 DEF PendingFits
    <3>4. WriteFits(conn', jobs', client'.buf) /\ SocksFits(client', conn')
      BY <2>4, <3>1
    <3> QED
      BY <1>3, <3>2, <3>3, <3>4 DEF HandlersInv, Handled
  <2> QED
    BY <2>5, <2>6, <2>7
<1> QED
  BY <1>4, <1>5

LEMMA TcpRecvHandled ==
  IInv /\ PipeInv /\ UseInv /\ HandlersInv /\ TcpRecv => HandlersInv'
<1> SUFFICES ASSUME IInv, PipeInv, UseInv, HandlersInv, TcpRecv PROVE HandlersInv'
  OBVIOUS
<1> DEFINE data == Bytes(app.sent - input.data, app.sent)
<1>1. /\ jobs = <<>> /\ input.stage = "recv" /\ DOMAIN input = {"stage", "acked", "data", "fin"}
      /\ Handled(client, pcb, input.acked, conn, jobs) /\ input.acked = 0
      /\ DOMAIN client = ClientFields /\ DOMAIN conn = ConnFields /\ PcbOK(pcb)
      /\ (client.clientClosed => client.callbacks = {}) /\ client.buf \in Seq(Int)
      /\ client.life # "none"
  BY Known DEF TcpRecv, HandlersInv, AckedFits, IInv, Fresh
<1>2. input'.acked = 0 /\ AckedFits'
  <2>1. \/ input' = [input EXCEPT !.stage = "recvSync"]
        \/ input' = [input EXCEPT !.stage = "fin", !.data = 0]
    BY DEF TcpRecv
  <2>2. CASE input' = [input EXCEPT !.stage = "recvSync"]
    BY <1>1, <2>2 DEF AckedFits
  <2>3. CASE input' = [input EXCEPT !.stage = "fin", !.data = 0]
    BY <1>1, <2>3 DEF AckedFits
  <2> QED
    BY <2>1, <2>2, <2>3
<1>3. WriteFits(conn, jobs, client.buf) /\ OneOf(jobs, Writes) /\ NoneOf(jobs, Writes)
  BY <1>1, OneOfMark DEF Handled
<1>4. CASE input.data > 0 /\ "recv" \in client.callbacks
  <2> DEFINE start == StartsSending(client)
  <2>1. /\ client' = [client EXCEPT !.buf = @ \o data] /\ UNCHANGED pcb
        /\ conn' = IF start THEN [conn EXCEPT !.busy = input.data] ELSE conn
        /\ jobs' = IF start THEN <<"send", "mark">> ELSE <<>>
    BY <1>4 DEF TcpRecv
  <2>2. client'.buf # <<>>
    <3>1. data \in Seq(Int) /\ Len(data) = input.data
      BY BytesInts DEF IInv, Shapes, InputOK
    <3>2. client'.buf = client.buf \o data
      BY <1>1, <2>1 DEF ClientFields
    <3>3. input.data \in Nat
      BY DEF IInv, Shapes, InputOK
    <3> DEFINE b == client.buf
    <3>4. b \in Seq(Int)
      BY <1>1
    <3> HIDE DEF data, b
    <3>5. Len(b \o data) = Len(b) + Len(data)
      BY <3>1, <3>4, ConcatInts
    <3>6. Len(b) \in Nat /\ Len(<<>>) = 0
      BY <3>4
    <3>7. client'.buf = b \o data
      BY <3>2 DEF b
    <3>8. \A x, y \in Nat : y > 0 => x + y # 0
      OBVIOUS
    <3>9. Len(b \o data) # 0
      BY <1>4, <3>1, <3>3, <3>5, <3>6, <3>8
    <3> QED
      BY <3>6, <3>7, <3>9
  <2>3. /\ client'.rest = client.rest /\ client'.pending = client.pending
        /\ client'.callbacks = client.callbacks /\ client'.life = client.life
        /\ client'.socksUp = client.socksUp
        /\ client'.clientClosed = client.clientClosed /\ client'.socksClosed = client.socksClosed
    BY <1>1, <2>1 DEF ClientFields
  <2>4. ~client.socksClosed /\ ~client.clientClosed /\ conn.state # "freed"
    BY <1>1, <1>4 DEF PipeInv, ClientFits
  <2>5. PendingFits(client', pcb', 0) /\ Halves(client')
    BY <1>1, <2>1, <2>3, <2>4 DEF Handled, PendingFits, Bounded, Halves, Open
  <2>6. WriteFits(conn', jobs', client'.buf) /\ SocksFits(client', conn')
    <3>1. CASE start
      <4>1. client.buf = <<>> /\ client.socksUp /\ conn.state = "up" /\ ~conn.sendWait
        BY <1>3, <2>4, <3>1 DEF StartsSending, WriteFits, PipeInv, ClientFits
      <4>2. conn'.state = "up" /\ ~conn'.sendWait /\ jobs' = <<"send", "mark">>
        BY <1>1, <2>1, <3>1, <4>1 DEF ConnFields
      <4>3. OneOf(<<"send", "mark">>, Writes) /\ ~NoneOf(<<"send", "mark">>, Writes)
        <5>1. Len(<<"send", "mark">>) = 2 /\ <<"send", "mark">>[1] = "send" /\ <<"send", "mark">>[2] = "mark"
          OBVIOUS
        <5> QED
          BY <5>1 DEF OneOf, NoneOf, Jobs, Writes
      <4> QED
        BY <2>2, <2>3, <4>1, <4>2, <4>3 DEF WriteFits, SocksFits
    <3>2. CASE ~start
      <4>1. conn' = conn /\ jobs' = <<>>
        BY <2>1, <3>2
      <4>2. conn.sendWait <=> conn.state = "up"
        BY <1>1, <1>3, <3>2 DEF StartsSending, Handled, SocksFits, WriteFits
      <4> QED
        BY <1>1, <1>3, <2>2, <2>3, <4>1, <4>2 DEF Handled, WriteFits, SocksFits
    <3> QED
      BY <3>1, <3>2
  <2> QED
    BY <1>2, <2>5, <2>6 DEF HandlersInv, Handled
<1>5. CASE ~(input.data > 0 /\ "recv" \in client.callbacks)
  <2>1. UNCHANGED <<client, conn, jobs>> /\ pcb'.queue = pcb.queue
    BY <1>1, <1>5 DEF TcpRecv, PcbOK
  <2> QED
    BY <1>1, <1>2, <2>1 DEF HandlersInv, Handled, PendingFits
<1> QED
  BY <1>4, <1>5

LEMMA TcpFinHandled == IInv /\ PipeInv /\ HandlersInv /\ TcpFin => HandlersInv'
<1> SUFFICES ASSUME IInv, PipeInv, HandlersInv, TcpFin PROVE HandlersInv'
  OBVIOUS
<1> DEFINE p == [pcb EXCEPT !.rcvWnd = Lesser(@ + 1, Wnd)]
<1>1. /\ input.acked = 0 /\ input'.acked = 0 /\ AckedFits' /\ DOMAIN client = ClientFields
      /\ Handled(client, pcb, 0, conn, jobs) /\ PcbOK(pcb) /\ JobsOK(jobs)
  BY Known DEF TcpFin, NoInput, HandlersInv, AckedFits
<1>2. p.queue = pcb.queue
  BY <1>1 DEF PcbOK
<1>3. CASE HandleFreedClient(client, jobs)
  <2>1. Handled(client', pcb', input'.acked, conn', jobs')
    BY <1>1, <1>3, HandleFreedClientHandled DEF Handled, PendingFits
  <2> QED
    BY <1>1, <2>1 DEF HandlersInv
<1>4. CASE UNCHANGED <<client, conn, jobs>> /\ pcb' \in {p, pcb}
  BY <1>1, <1>2, <1>4 DEF HandlersInv, Handled, PendingFits
<1> QED
  BY <1>3, <1>4 DEF TcpFin, FreeClient

LEMMA RestHandled ==
  /\ IInv /\ PipeInv /\ UseInv /\ HandlersInv
  /\ CommitReturns \/ PcbLost \/ ClosingInput \/ ServerSends \/ ServerEnds \/ UNCHANGED vars
  => HandlersInv'
<1> SUFFICES ASSUME IInv, PipeInv, UseInv, HandlersInv,
                    \/ CommitReturns \/ PcbLost \/ ClosingInput
                    \/ ServerSends \/ ServerEnds \/ UNCHANGED vars
             PROVE  HandlersInv'
  OBVIOUS
<1>1. /\ Handled(client, pcb, input.acked, conn, jobs) /\ AckedFits /\ JobsOK(jobs)
      /\ DOMAIN client = ClientFields /\ DOMAIN input = {"stage", "acked", "data", "fin"}
      /\ (PcbLive <=> Open(client))
  BY Known DEF HandlersInv, PipeInv
<1>2. CASE CommitReturns
  <2>1. Top("mark") /\ jobs' = Tail(jobs) /\ UNCHANGED <<client, pcb, conn>>
    BY <1>2 DEF CommitReturns
  <2>2. input.acked = 0 /\ input.stage \in {"accept", "sentSync", "recvSync"} /\ jobs' = <<>>
    BY <1>1, <2>1, LastJob DEF AckedFits, IInv, Shapes, InputOK
  <2>3. input'.acked = 0 /\ AckedFits'
    <3>1. \/ input' = NoInput
          \/ input' = [input EXCEPT !.stage = "recv", !.acked = 0]
          \/ input' = [input EXCEPT !.stage = "fin", !.data = 0]
      <4>1. CASE client.clientClosed \/ input.stage = "accept"
        BY <1>2, <4>1 DEF CommitReturns, Killed, InputAborted
      <4>2. CASE ~client.clientClosed /\ input.stage = "sentSync"
        BY <1>2, <4>2 DEF CommitReturns, Killed, InputGoesOn
      <4>3. CASE ~client.clientClosed /\ input.stage = "recvSync"
        BY <1>2, <4>3 DEF CommitReturns, Killed
      <4> QED
        BY <2>2, <4>1, <4>2, <4>3
    <3>2. CASE input' = NoInput
      BY <3>2 DEF NoInput, AckedFits
    <3>3. CASE input' = [input EXCEPT !.stage = "recv", !.acked = 0]
      BY <1>1, <3>3 DEF AckedFits
    <3>4. CASE input' = [input EXCEPT !.stage = "fin", !.data = 0]
      BY <1>1, <2>2, <3>4 DEF AckedFits
    <3> QED
      BY <3>1, <3>2, <3>3, <3>4
  <2>4. OneOf(jobs', Writes) /\ NoneOf(jobs', Writes) /\ NoneOf(jobs, Writes)
    <3>1. jobs # <<>> /\ Head(jobs) \notin Writes /\ OneOf(jobs, Writes)
      BY <1>1, <2>1 DEF Top, Writes, Handled, WriteFits
    <3>2. NoneOf(Tail(jobs), Writes) <=> NoneOf(jobs, Writes)
      BY <1>1, <3>1, OneOfPop
    <3> QED
      BY <2>1, <2>2, <3>2, OneOfMark
  <2> QED
    BY <1>1, <2>1, <2>2, <2>3, <2>4 DEF HandlersInv, Handled, WriteFits
<1>3. CASE PcbLost
  <2>1. UNCHANGED input /\ (HandleFreedClient(client, jobs) \/ (~Open(client) /\ UNCHANGED <<client, conn, jobs>>))
    BY <1>3 DEF PcbLost, Open
  <2>2. CASE HandleFreedClient(client, jobs)
    <3>1. Handled(client', pcb', input'.acked, conn', jobs')
      BY <1>1, <2>2, HandleFreedClientHandled DEF Handled, PendingFits
    <3> QED
      BY <1>1, <2>1, <3>1 DEF HandlersInv, AckedFits
  <2>3. CASE ~Open(client) /\ UNCHANGED <<client, conn, jobs>>
    BY <1>1, <2>1, <2>3 DEF HandlersInv, AckedFits, Handled, PendingFits
  <2> QED
    BY <2>1, <2>2, <2>3
<1>4. CASE ClosingInput
  <2>1. UNCHANGED <<client, conn, jobs, input>> /\ ~Open(client)
    BY <1>1, <1>4 DEF ClosingInput, PcbLive
  <2> QED
    BY <1>1, <2>1 DEF HandlersInv, AckedFits, Handled, PendingFits
<1>5. CASE ServerSends \/ ServerEnds \/ UNCHANGED vars
  BY <1>1, <1>5 DEF ServerSends, ServerEnds, vars, HandlersInv, AckedFits
<1> QED
  BY <1>2, <1>3, <1>4, <1>5

LEMMA InitHandled == Init => HandlersInv
<1> SUFFICES ASSUME Init PROVE HandlersInv
  OBVIOUS
<1>1. /\ client.pending = 0 /\ ~client.socksUp /\ ~Open(client) /\ client.buf = <<>>
      /\ client.life = "none" /\ conn.state = "none" /\ ~conn.sendWait /\ jobs = <<>>
      /\ input.acked = 0 /\ SndBuf \in Nat
  BY SizesAssumption DEF Init, NoConn, NoInput, Open
<1> QED
  BY <1>1, OneOfMark
     DEF HandlersInv, AckedFits, Handled, PendingFits, Bounded, SocksFits, WriteFits, Halves

LEMMA NextHandled == IInv /\ PipeInv /\ UseInv /\ HandlersInv /\ [Next]_vars => HandlersInv'
BY AcceptHandled, HandshakeHandled, FdEventHandled, SendRecvHandled, SendDoneHandled,
   RecvDoneHandled, SegmentHandled, TcpSentHandled, TcpRecvHandled, TcpFinHandled, RestHandled
   DEF Next, RunJob, RunInput

-----------------------------------------------------------------------------
(* The types, as far as the other invariants do not give them already.     *)
LifeStates == {"none", "live", "gone"}
ClientType(c) ==
  /\ c \in [life : LifeStates, clientClosed : BOOLEAN, socksClosed : BOOLEAN, socksUp : BOOLEAN,
            buf : Seq(1..MaxUp), rest : Seq(1..MaxDown), pending : Int,
            callbacks : SUBSET {"err", "recv", "sent"}]
  /\ Len(c.buf) <= Wnd
PcbType(p) ==
  p \in [state : {"none", "established", "closeWait", "closing", "reset", "lost"},
         rcvWnd : 0..Wnd, queue : Seq(1..MaxDown)]
ConnType(k) ==
  k \in [state : DOMAIN After \cup {"none", "up", "freed"}, busy : Nat, done : Nat,
         sendWait : BOOLEAN, recvWait : BOOLEAN, data : Seq(1..MaxDown), hup : BOOLEAN]
InputType(i) == i \in [stage : Stages, acked : 0..SndBuf, data : 0..Wnd, fin : BOOLEAN]
AppType(a) == a \in [sent : 0..MaxUp, fin : BOOLEAN, got : Seq(1..MaxDown)]
ServerType(s) ==
  s \in [sent : 0..MaxDown, fin : BOOLEAN, reset : BOOLEAN, read : Nat, got : Seq(1..MaxUp)]
Structures == ClientType(client) /\ PcbType(pcb) /\ ConnType(conn) /\ short \in BOOLEAN
TypeInv == Structures /\ InputType(input) /\ AppType(app) /\ ServerType(server)

LEMMA Sizes ==
  /\ Wnd \in Nat /\ Wnd > 0 /\ SndBuf \in Nat /\ MaxUp \in Nat /\ MaxDown \in Nat /\ RecvSize \in Nat
BY SizesAssumption, BoundsAssumption

LEMMA DropType ==
  ASSUME NEW S, NEW s \in Seq(S), NEW n \in Nat
  PROVE  Drop(s, n) \in Seq(S) /\ (n <= Len(s) => Len(Drop(s, n)) <= Len(s))
BY DEF Drop

LEMMA FrontType ==
  ASSUME NEW S, NEW s \in Seq(S), NEW n \in Nat, n <= Len(s)
  PROVE  SubSeq(s, 1, n) \in Seq(S) /\ Len(SubSeq(s, 1, n)) = n
OBVIOUS

LEMMA BytesType ==
  ASSUME NEW from \in Nat, NEW upTo \in Nat, NEW max \in Nat, upTo <= max
  PROVE  Bytes(from, upTo) \in Seq(1..max)
<1> DEFINE n == IF from <= upTo THEN upTo - from ELSE 0
           b == [i \in 1..n |-> from + i]
<1>1. n \in Nat /\ 1..(upTo - from) = 1..n
  OBVIOUS
<1>2. Bytes(from, upTo) = b
  BY <1>1 DEF Bytes
<1>3. \A i \in 1..n : from + i \in 1..max
  OBVIOUS
<1> HIDE DEF n
<1>4. b \in Seq(1..max)
  BY <1>1, <1>3
<1> QED
  BY <1>2, <1>4

(* The ways to end.                                                        *)
LEMMA NoBytes == \A S : <<>> \in Seq(S)
OBVIOUS

LEMMA FreeConnType == FreeConn => ConnType(conn')
<1> SUFFICES ASSUME FreeConn PROVE ConnType(conn')
  OBVIOUS
<1> DEFINE none == <<>>
           states == DOMAIN After \cup {"none", "up", "freed"}
<1>1. none \in Seq(1..MaxDown) /\ "freed" \in states
  BY NoBytes
<1>2. conn' = [state |-> "freed", busy |-> 0, sendWait |-> FALSE, done |-> 0,
               recvWait |-> FALSE, data |-> none, hup |-> FALSE]
  BY DEF FreeConn, NoConn
<1> HIDE DEF none
<1>3. conn' \in [state : states, busy : Nat, done : Nat,
                 sendWait : BOOLEAN, recvWait : BOOLEAN, data : Seq(1..MaxDown), hup : BOOLEAN]
  <2> HIDE DEF states
  <2> QED
    BY <1>1, <1>2
<1> QED
  BY <1>3 DEF ConnType

LEMMA ClosePcbType ==
  ASSUME NEW p, PcbType(p), short \in BOOLEAN, ClosePcb(p)
  PROVE  PcbType(pcb') /\ short' \in BOOLEAN
<1>1. <<>> \in Seq(1..MaxDown)
  BY NoBytes
<1> QED
  BY <1>1 DEF ClosePcb, PcbType

LEMMA DeallocType ==
  ASSUME NEW c, ClientType(c), Dealloc(c)
  PROVE  ClientType(client')
<1>1. client'.buf = c.buf
  BY DEF Dealloc, ClientType
<1> QED
  BY <1>1 DEF Dealloc, ClientType, LifeStates

LEMMA HandleFreedClientType ==
  ASSUME NEW c, ClientType(c), ConnType(conn), NEW base, HandleFreedClient(c, base)
  PROVE  ClientType(client') /\ ConnType(conn')
<1>1. CASE Dealloc(c)
  BY <1>1, DeallocType, FreeConnType DEF HandleFreedClient
<1>2. CASE client' = [c EXCEPT !.clientClosed = TRUE, !.callbacks = {}] /\ UNCHANGED conn
  <2>1. client'.buf = c.buf
    BY <1>2 DEF ClientType
  <2> QED
    BY <1>2, <2>1 DEF ClientType
<1> QED
  BY <1>1, <1>2 DEF HandleFreedClient

LEMMA FreeClientType ==
  ASSUME Structures, NEW c, ClientType(c), NEW p, PcbType(p), NEW base, FreeClient(c, p, base)
  PROVE  Structures'
BY ClosePcbType, HandleFreedClientType DEF FreeClient, Structures

LEMMA AbortClientType ==
  ASSUME Structures, NEW c, ClientType(c), NEW p, PcbType(p), NEW base, AbortClient(c, p, base)
  PROVE  Structures'
<1>1. <<>> \in Seq(1..MaxDown)
  BY NoBytes
<1>2. PcbType(pcb') /\ short' \in BOOLEAN
  BY <1>1 DEF AbortClient, PcbType
<1> QED
  BY <1>2, HandleFreedClientType DEF AbortClient, Structures

LEMMA FreeSocksType ==
  ASSUME Structures, NEW c, ClientType(c), NEW p, PcbType(p), FreeSocks(c, p)
  PROVE  Structures'
<1>1. ConnType(conn')
  BY FreeConnType DEF FreeSocks
<1>2. CASE Dealloc(c) /\ (UNCHANGED <<pcb, short>> \/ ClosePcb(p))
  BY <1>1, <1>2, DeallocType, ClosePcbType DEF Structures
<1>3. CASE /\ client' = [c EXCEPT !.socksClosed = TRUE, !.callbacks = @ \ {"recv"}]
           /\ pcb' = p /\ UNCHANGED short
  <2>1. client'.buf = c.buf
    BY <1>3 DEF ClientType
  <2>2. ClientType(client')
    BY <1>3, <2>1 DEF ClientType
  <2> QED
    BY <1>1, <1>3, <2>2 DEF Structures
<1> QED
  BY <1>2, <1>3 DEF FreeSocks

LEMMA QueuedType ==
  ASSUME NEW c, ClientType(c), NEW p, PcbType(p), Len(p.queue) <= SndBuf,
         NEW n \in {0, Queueable(c, p)}
  PROVE  ClientType(Left(c, n)) /\ PcbType(Queued(c, p, n))
<1> DEFINE rest == c.rest
           queue == p.queue
<1>1. rest \in Seq(1..MaxDown) /\ queue \in Seq(1..MaxDown) /\ c.pending \in Int
  BY DEF ClientType, PcbType
<1>2. Len(rest) \in Nat /\ Len(queue) \in Nat
  BY <1>1
<1>3. n \in Nat /\ n <= Len(rest)
  <2>1. n \in {0, Lesser(Len(rest), SndBuf - Len(queue))}
    BY DEF Queueable
  <2>2. Len(queue) <= SndBuf
    OBVIOUS
  <2> HIDE DEF rest, queue
  <2> QED
    BY <1>2, <2>1, <2>2, Sizes DEF Lesser
<1> HIDE DEF rest, queue
<1>4. Drop(rest, n) \in Seq(1..MaxDown) /\ SubSeq(rest, 1, n) \in Seq(1..MaxDown)
  BY <1>1, <1>3, DropType, FrontType
<1>5. queue \o SubSeq(rest, 1, n) \in Seq(1..MaxDown)
  BY <1>1, <1>4
<1>6. ClientType(Left(c, n))
  <2>1. Left(c, n) = [c EXCEPT !.rest = Drop(rest, n), !.pending = c.pending + n]
    BY DEF Left, rest
  <2>2. c.pending + n \in Int
    BY <1>1, <1>3
  <2>3. Left(c, n).buf = c.buf
    BY <2>1 DEF ClientType
  <2> QED
    BY <1>4, <2>1, <2>2, <2>3 DEF ClientType
<1>7. PcbType(Queued(c, p, n))
  <2>1. Queued(c, p, n) = [p EXCEPT !.queue = queue \o SubSeq(rest, 1, n)]
    BY DEF Queued, rest, queue
  <2> QED
    BY <1>5, <2>1 DEF PcbType
<1> QED
  BY <1>6, <1>7

-----------------------------------------------------------------------------
(* The actions, for the types.                                             *)
All == IInv /\ PipeInv /\ UseInv /\ HandlersInv

LEMMA AcceptTyped == TypeInv /\ Accept => TypeInv'
<1> SUFFICES ASSUME TypeInv, Accept PROVE TypeInv'
  OBVIOUS
<1>1. CASE AcceptFails
  <2>1. client'.buf = client.buf
    BY <1>1 DEF AcceptFails, TypeInv, Structures, ClientType
  <2>2. ClientType(client')
    BY <1>1, <2>1 DEF AcceptFails, TypeInv, Structures, ClientType, LifeStates
  <2>3. PcbType(pcb')
    BY <1>1 DEF AcceptFails, TypeInv, Structures, PcbType
  <2> QED
    BY <1>1, <2>2, <2>3 DEF Accept, AcceptFails, TypeInv, Structures
<1>2. CASE AcceptClient
  <2>1. client'.buf = client.buf
    BY <1>2 DEF AcceptClient, TypeInv, Structures, ClientType
  <2>2. ClientType(client')
    BY <1>2, <2>1 DEF AcceptClient, TypeInv, Structures, ClientType, LifeStates
  <2>3. PcbType(pcb')
    BY <1>2 DEF AcceptClient, TypeInv, Structures, PcbType
  <2>4. ConnType(conn')
    <3>1. "connecting" \in DOMAIN After
      BY DEF After
    <3> QED
      BY <1>2, <3>1 DEF AcceptClient, TypeInv, Structures, ConnType
  <2>5. InputType(input')
    BY <1>2 DEF AcceptClient, TypeInv, InputType, Stages
  <2> QED
    BY <1>2, <2>2, <2>3, <2>4, <2>5 DEF Accept, AcceptClient, TypeInv, Structures
<1> QED
  BY <1>1, <1>2 DEF Accept

LEMMA HandshakeTyped ==
  All /\ TypeInv /\ (HandshakeJob \/ HandshakeEvent) => TypeInv'
<1> SUFFICES ASSUME All, TypeInv, HandshakeJob \/ HandshakeEvent PROVE TypeInv'
  OBVIOUS
<1>1. UNCHANGED <<input, app>> /\ conn.state \in Handshaking
  BY HandshakeState DEF HandshakeJob, HandshakeEvent, All
<1>2. CASE UNCHANGED <<client, pcb, conn, short, server>>
  BY <1>1, <1>2 DEF TypeInv, Structures
<1>3. ASSUME NEW base, HandshakeStep(base) PROVE TypeInv'
  <2>1. CASE \E state \in After[conn.state] \ {"up"} :
               conn' = [conn EXCEPT !.state = state] /\ UNCHANGED <<client, pcb, short, server>>
    <3>1. PICK state \in After[conn.state] \ {"up"} :
            conn' = [conn EXCEPT !.state = state] /\ UNCHANGED <<client, pcb, short, server>>
      BY <2>1
    <3>2. state \in Handshaking /\ Handshaking \subseteq DOMAIN After
      BY <1>1, AfterStates DEF After, Handshaking
    <3>3. ConnType(conn')
      BY <3>1, <3>2 DEF TypeInv, Structures, ConnType
    <3> QED
      BY <1>1, <3>1, <3>3 DEF TypeInv, Structures
  <2>2. CASE SocksUp(base)
    <3>1. client'.buf = client.buf
      BY <2>2 DEF SocksUp, TypeInv, Structures, ClientType
    <3>2. ClientType(client')
      BY <2>2, <3>1 DEF SocksUp, TypeInv, Structures, ClientType
    <3>3. Len(client.buf) \in Nat
      BY DEF TypeInv, Structures, ClientType
    <3>4. ConnType(conn')
      <4>1. conn' = [conn EXCEPT !.state = "up", !.busy = Len(client.buf)]
        BY <2>2 DEF SocksUp
      <4> QED
        BY <3>3, <4>1 DEF TypeInv, Structures, ConnType
    <3> QED
      BY <1>1, <2>2, <3>2, <3>4 DEF SocksUp, TypeInv, Structures
  <2>3. CASE HandshakeFails
    <3>1. Structures'
      BY <2>3, FreeSocksType DEF HandshakeFails, TypeInv, Structures
    <3>2. ServerType(server')
      BY <2>3 DEF HandshakeFails, TypeInv, ServerType
    <3> QED
      BY <1>1, <3>1, <3>2 DEF TypeInv
  <2> QED
    BY <1>3, <2>1, <2>2, <2>3 DEF HandshakeStep
<1> QED
  BY <1>2, <1>3 DEF HandshakeJob, HandshakeEvent, HandshakeWaits

LEMMA ConnectionSendTyped ==
  ASSUME All, TypeInv, NEW c, ConnType(c), c.busy = conn.busy, NEW base, ConnectionSend(c, base),
         UNCHANGED <<input, app>>
  PROVE  TypeInv'
<1>1. CASE FreeSocks(client, pcb) /\ UNCHANGED server
  BY <1>1, FreeSocksType DEF TypeInv, Structures
<1>2. ASSUME NEW k \in 1..c.busy,
             server' = [server EXCEPT !.got = @ \o SubSeq(client.buf, 1, k)],
             conn' = [c EXCEPT !.busy = 0, !.done = k], UNCHANGED <<client, pcb, short>>
      PROVE  TypeInv'
  <2> DEFINE buf == client.buf
             got == server.got
  <2>1. buf \in Seq(1..MaxUp) /\ got \in Seq(1..MaxUp) /\ c.busy \in Nat /\ c.busy <= Len(buf)
    BY DEF TypeInv, Structures, ClientType, ServerType, All, IInv, Shapes, ConnOK
  <2>2. Len(buf) \in Nat /\ k \in Nat
    BY <2>1
  <2>3. k <= Len(buf)
    BY <2>1, <2>2
  <2>4. server' = [server EXCEPT !.got = got \o SubSeq(buf, 1, k)]
    BY <1>2
  <2> HIDE DEF buf, got
  <2>5. SubSeq(buf, 1, k) \in Seq(1..MaxUp)
    <3> DEFINE bytes == 1..MaxUp
    <3>1. buf \in Seq(bytes)
      BY <2>1
    <3> HIDE DEF bytes
    <3>2. SubSeq(buf, 1, k) \in Seq(bytes) /\ Len(SubSeq(buf, 1, k)) = k
      BY <2>2, <2>3, <3>1, FrontType
    <3> QED
      BY <3>2 DEF bytes
  <2>6. got \o SubSeq(buf, 1, k) \in Seq(1..MaxUp)
    BY <2>1, <2>5
  <2>7. ServerType(server')
    BY <2>4, <2>6 DEF TypeInv, ServerType
  <2>8. ConnType(conn')
    BY <1>2, <2>2 DEF ConnType
  <2> QED
    BY <1>2, <2>7, <2>8 DEF TypeInv, Structures
<1> QED
  BY <1>1, <1>2 DEF ConnectionSend

LEMMA ConnectionRecvTyped ==
  ASSUME All, TypeInv, NEW c, ConnType(c), NEW base, ConnectionRecv(c, base),
         UNCHANGED <<input, app>>
  PROVE  TypeInv'
<1>1. CASE FreeSocks(client, pcb) /\ UNCHANGED server
  BY <1>1, FreeSocksType DEF TypeInv, Structures
<1>2. ASSUME NEW k \in 1..Lesser(Unread, RecvSize),
             conn' = [c EXCEPT !.data = Bytes(server.read, server.read + k)],
             server' = [server EXCEPT !.read = @ + k], UNCHANGED <<client, pcb, short>>
      PROVE  TypeInv'
  <2> DEFINE read == server.read
             sent == server.sent
  <2>1. read \in Nat /\ sent \in Nat /\ sent <= MaxDown /\ read <= sent
    BY Sizes DEF TypeInv, ServerType, All, PipeInv, ServerOK
  <2>2. k \in 1..Lesser(sent - read, RecvSize)
    BY DEF Unread
  <2> HIDE DEF read, sent
  <2>3. k \in Nat /\ read + k \in Nat /\ read + k <= MaxDown
    BY <2>1, <2>2, Sizes DEF Lesser
  <2>4. Bytes(read, read + k) \in Seq(1..MaxDown)
    BY <2>1, <2>3, Sizes, BytesType
  <2>5. ConnType(conn')
    <3>1. conn' = [c EXCEPT !.data = Bytes(read, read + k)]
      BY <1>2 DEF read
    <3> QED
      BY <2>4, <3>1 DEF ConnType
  <2>6. ServerType(server')
    <3>1. server' = [server EXCEPT !.read = read + k]
      BY <1>2 DEF read
    <3> QED
      BY <2>3, <3>1 DEF TypeInv, ServerType
  <2> QED
    BY <1>2, <2>5, <2>6 DEF TypeInv, Structures
<1> QED
  BY <1>1, <1>2 DEF ConnectionRecv

LEMMA SocketTyped == All /\ TypeInv /\ (SendJob \/ RecvJob \/ FdEvent) => TypeInv'
<1> SUFFICES ASSUME All, TypeInv, SendJob \/ RecvJob \/ FdEvent PROVE TypeInv'
  OBVIOUS
<1>1. UNCHANGED <<input, app>> /\ ConnType(conn)
  BY DEF SendJob, RecvJob, FdEvent, TypeInv, Structures
<1>2. ASSUME NEW k, ConnType(k), conn' = k, UNCHANGED <<client, pcb, short, server>>
      PROVE  TypeInv'
  BY <1>1, <1>2 DEF TypeInv, Structures
<1>3. CASE SendJob
  <2>1. ConnType([conn EXCEPT !.sendWait = TRUE])
    BY <1>1 DEF ConnType
  <2> QED
    BY <1>1, <1>2, <1>3, <2>1, ConnectionSendTyped DEF SendJob
<1>4. CASE RecvJob
  <2>1. ConnType([conn EXCEPT !.recvWait = TRUE])
    BY <1>1 DEF ConnType
  <2> QED
    BY <1>1, <1>2, <1>4, <2>1, ConnectionRecvTyped DEF RecvJob
<1>5. CASE FdEvent
  <2>1. PICK write, read, hup \in BOOLEAN :
          /\ write => conn.sendWait
          /\ read => conn.recvWait /\ Readable
          /\ hup = server.reset
          /\ LET send == conn.sendWait /\ (write \/ hup)
                 recv == conn.recvWait /\ (read \/ hup)
                 c == [conn EXCEPT !.hup = hup, !.sendWait = @ /\ ~send, !.recvWait = @ /\ ~recv]
             IN \/ send /\ ConnectionSend(c, If(recv, "recv"))
                \/ recv /\ ~send /\ ConnectionRecv(c, <<>>)
                \/ /\ hup /\ ~send /\ ~recv
                   /\ conn' = c /\ UNCHANGED <<client, pcb, jobs, short, server>>
    BY <1>5, Zenon DEF FdEvent
  <2> DEFINE send == conn.sendWait /\ (write \/ hup)
             recv == conn.recvWait /\ (read \/ hup)
             c == [conn EXCEPT !.hup = hup, !.sendWait = @ /\ ~send, !.recvWait = @ /\ ~recv]
  <2>2. ConnType(c) /\ c.busy = conn.busy
    BY <1>1 DEF ConnType
  <2>3. \/ \E base : ConnectionSend(c, base)
        \/ \E base : ConnectionRecv(c, base)
        \/ conn' = c /\ UNCHANGED <<client, pcb, short, server>>
    BY <2>1
  <2> HIDE DEF c
  <2> QED
    BY <1>1, <1>2, <2>2, <2>3, ConnectionSendTyped, ConnectionRecvTyped
<1> QED
  BY <1>3, <1>4, <1>5

(* The window of a PCB that lives, in numbers.                              *)
LEMMA Window ==
  ASSUME All, TypeInv, PcbLive
  PROVE  /\ pcb.rcvWnd \in Nat /\ Len(client.buf) \in Nat /\ Unhandled \in Nat
         /\ pcb.rcvWnd + Len(client.buf) + Unhandled = Wnd
<1>1. pcb.rcvWnd \in Nat /\ Len(client.buf) \in Nat
  BY Sizes DEF TypeInv, Structures, PcbType, ClientType
<1>2. Unhandled \in Nat
  BY DEF All, IInv, Shapes, InputOK, Unhandled
<1> QED
  BY <1>1, <1>2 DEF All, IInv, WindowCoversBuffer

LEMMA SendDoneTyped == All /\ TypeInv /\ SendDone => TypeInv'
<1> SUFFICES ASSUME All, TypeInv, SendDone PROVE TypeInv'
  OBVIOUS
<1> DEFINE c == [client EXCEPT !.buf = Unsent(client)]
           p == Confirm(c, pcb)
           buf == client.buf
           done == conn.done
<1>1. buf \in Seq(1..MaxUp) /\ done \in Nat /\ done <= Len(buf) /\ Len(buf) <= Wnd
  BY DEF All, IInv, Shapes, ConnOK, TypeInv, Structures, ClientType
<1>2. \/ FreeSocks(c, p)
      \/ /\ client' = c /\ pcb' = p /\ UNCHANGED short
         /\ conn' = [conn EXCEPT !.done = 0, !.busy = Len(c.buf)]
  BY DEF SendDone
<1>3. UNCHANGED <<input, app, server>>
  BY DEF SendDone
<1>4. c = [client EXCEPT !.buf = Drop(buf, done)] /\ c.buf = Drop(buf, done)
  BY DEF Unsent, TypeInv, Structures, ClientType
<1>5. Open(client) \/ client.clientClosed
  <2>1. Head(jobs) \in Jobs(jobs) /\ Head(jobs) = "sendDone"
    BY TopJob, JobsPop DEF SendDone, Top, All
  <2> QED
    BY <2>1 DEF All, PipeInv, JobsFit, ClientFits, Off
<1>6. PcbType(p)
  <2>1. CASE client.clientClosed
    <3>1. c.clientClosed
      BY <2>1 DEF TypeInv, Structures, ClientType
    <3> HIDE DEF c
    <3> QED
      BY <3>1 DEF Confirm, TypeInv, Structures
  <2>2. CASE Open(client)
    <3>1. PcbLive
      BY <2>2 DEF All, PipeInv
    <3> DEFINE r == pcb.rcvWnd
    <3>2. r \in Nat /\ Len(buf) \in Nat /\ Unhandled \in Nat /\ r + Len(buf) + Unhandled = Wnd
      BY <3>1, Window
    <3> HIDE DEF r, buf, done, c
    <3>3. r + done \in 0..Wnd
      BY <1>1, <3>2, Sizes
    <3>4. p = pcb \/ p = [pcb EXCEPT !.rcvWnd = r + done]
      BY DEF Confirm, r, done
    <3> QED
      BY <3>3, <3>4 DEF TypeInv, Structures, PcbType
  <2> QED
    BY <1>5, <2>1, <2>2
<1>7. ClientType(c) /\ Len(c.buf) \in Nat
  <2> DEFINE left == Drop(buf, done)
  <2> HIDE DEF buf, done, c
  <2>1. left \in Seq(1..MaxUp) /\ Len(left) <= Len(buf) /\ Len(buf) \in Nat /\ Len(left) \in Nat
    BY <1>1, DropType
  <2>2. Len(left) <= Wnd
    BY <1>1, <2>1, Sizes
  <2> HIDE DEF left
  <2>3. c = [client EXCEPT !.buf = left] /\ c.buf = left
    BY <1>4 DEF left
  <2> QED
    BY <2>1, <2>2, <2>3 DEF TypeInv, Structures, ClientType
<1> HIDE DEF c, p
<1>8. CASE FreeSocks(c, p)
  BY <1>3, <1>6, <1>7, <1>8, FreeSocksType DEF TypeInv
<1>9. CASE /\ client' = c /\ pcb' = p /\ UNCHANGED short
           /\ conn' = [conn EXCEPT !.done = 0, !.busy = Len(c.buf)]
  <2>1. ConnType(conn')
    BY <1>7, <1>9 DEF TypeInv, Structures, ConnType
  <2> QED
    BY <1>3, <1>6, <1>7, <1>9, <2>1 DEF TypeInv, Structures
<1> QED
  BY <1>2, <1>8, <1>9

LEMMA RecvDoneTyped == All /\ TypeInv /\ RecvDone => TypeInv'
<1> SUFFICES ASSUME All, TypeInv, RecvDone PROVE TypeInv'
  OBVIOUS
<1> DEFINE c == [client EXCEPT !.rest = conn.data]
<1>1. UNCHANGED <<input, app, server>>
  BY DEF RecvDone
<1>2. ConnType([conn EXCEPT !.data = <<>>])
  BY NoBytes DEF TypeInv, Structures, ConnType
<1>3. CASE client.clientClosed
  BY <1>1, <1>2, <1>3 DEF RecvDone, TypeInv, Structures
<1>4. CASE ~client.clientClosed
  <2>1. PICK n \in {0, Queueable(c, pcb)} :
          \/ /\ client' = Left(c, n) /\ pcb' = Queued(c, pcb, n) /\ UNCHANGED short
             /\ conn' = [conn EXCEPT !.data = <<>>]
          \/ AbortClient(Left(c, n), Queued(c, pcb, n), Tail(jobs))
    BY <1>4 DEF RecvDone, SendOut, Left, Queued
  <2>2. ClientType(c)
    <3>1. conn.data \in Seq(1..MaxDown)
      BY DEF TypeInv, Structures, ConnType
    <3>2. c.buf = client.buf
      BY DEF TypeInv, Structures, ClientType
    <3> QED
      BY <3>1, <3>2 DEF TypeInv, Structures, ClientType
  <2>3. PcbType(pcb) /\ Len(pcb.queue) <= SndBuf
    BY DEF TypeInv, Structures, All, PipeInv, DownFits
  <2> HIDE DEF c
  <2>4. ClientType(Left(c, n)) /\ PcbType(Queued(c, pcb, n))
    BY <2>1, <2>2, <2>3, QueuedType
  <2>5. Structures'
    BY <1>2, <2>1, <2>4, AbortClientType DEF TypeInv, Structures
  <2> QED
    BY <1>1, <2>5 DEF TypeInv
<1> QED
  BY <1>3, <1>4

LEMMA SegmentTyped == All /\ TypeInv /\ AppSegment => TypeInv'
<1> SUFFICES ASSUME All, TypeInv, AppSegment PROVE TypeInv'
  OBVIOUS
<1>1. PICK acked \in 0..Len(pcb.queue), data \in 0..(MaxUp - app.sent), fin \in BOOLEAN :
        TcpInput(acked, data, fin)
  BY DEF AppSegment
<1> DEFINE queue == pcb.queue
           got == app.got
           sent == app.sent
           r == pcb.rcvWnd
           taken == data + (IF fin THEN 1 ELSE 0)
<1>2. /\ queue \in Seq(1..MaxDown) /\ got \in Seq(1..MaxDown) /\ sent \in 0..MaxUp
      /\ r \in 0..Wnd /\ Len(queue) <= SndBuf
  BY DEF TypeInv, Structures, PcbType, AppType, All, PipeInv, DownFits
<1>3. /\ app' = [sent |-> sent + data, fin |-> app.fin \/ fin, got |-> got \o SubSeq(queue, 1, acked)]
      /\ pcb' = [state |-> IF fin THEN "closeWait" ELSE pcb.state,
                 rcvWnd |-> r - taken, queue |-> Drop(queue, acked)]
      /\ input' = [stage |-> IF acked > 0 THEN "sent" ELSE "recv",
                   acked |-> acked, data |-> data, fin |-> fin]
      /\ UNCHANGED <<client, conn, server, short>> /\ taken <= r
  BY <1>1 DEF TcpInput
<1>4. Len(queue) \in Nat /\ data \in 0..(MaxUp - sent) /\ acked \in 0..Len(queue)
  BY <1>1, <1>2
<1> HIDE DEF queue, got, sent, r
<1>5. sent + data \in 0..MaxUp /\ data \in Nat /\ acked \in Nat /\ acked <= Len(queue)
  BY <1>2, <1>4, Sizes
<1>6. acked \in 0..SndBuf
  BY <1>2, <1>4, <1>5, Sizes
<1>7. taken \in Nat /\ data <= taken
  BY <1>5
<1> HIDE DEF taken
<1>8. r - taken \in 0..Wnd /\ data \in 0..Wnd
  BY <1>2, <1>3, <1>5, <1>7, Sizes
<1>9. SubSeq(queue, 1, acked) \in Seq(1..MaxDown) /\ Drop(queue, acked) \in Seq(1..MaxDown)
  BY <1>2, <1>5, FrontType, DropType
<1>10. got \o SubSeq(queue, 1, acked) \in Seq(1..MaxDown)
  BY <1>2, <1>9
<1>11. AppType(app')
  <2>1. app.fin \/ fin \in BOOLEAN
    BY DEF TypeInv, AppType
  <2> QED
    BY <1>3, <1>5, <1>10, <2>1 DEF AppType, TypeInv
<1>12. PcbType(pcb')
  <2> DEFINE state == IF fin THEN "closeWait" ELSE pcb.state
  <2>1. state \in {"none", "established", "closeWait", "closing", "reset", "lost"}
    BY DEF TypeInv, Structures, PcbType
  <2> HIDE DEF state
  <2>2. pcb' = [state |-> state, rcvWnd |-> r - taken, queue |-> Drop(queue, acked)]
    BY <1>3 DEF state
  <2> QED
    BY <1>8, <1>9, <2>1, <2>2 DEF PcbType
<1>13. InputType(input')
  <2> DEFINE stage == IF acked > 0 THEN "sent" ELSE "recv"
  <2>1. stage \in Stages
    BY DEF Stages
  <2> HIDE DEF stage
  <2>2. input' = [stage |-> stage, acked |-> acked, data |-> data, fin |-> fin]
    BY <1>3 DEF stage
  <2> QED
    BY <1>6, <1>8, <2>1, <2>2 DEF InputType
<1> QED
  BY <1>3, <1>11, <1>12, <1>13 DEF TypeInv, Structures

LEMMA InputTyped ==
  ASSUME InputType(input)
  PROVE  /\ InputType(NoInput)
         /\ \A stage \in Stages : /\ InputType([input EXCEPT !.stage = stage])
                                  /\ InputType([input EXCEPT !.stage = stage, !.acked = 0])
                                  /\ InputType([input EXCEPT !.stage = stage, !.data = 0])
<1>1. 0 \in 0..Wnd /\ 0 \in 0..SndBuf
  BY Sizes
<1> QED
  BY <1>1 DEF InputType, NoInput, Stages

LEMMA TcpSentTyped == All /\ TypeInv /\ TcpSent => TypeInv'
<1> SUFFICES ASSUME All, TypeInv, TcpSent PROVE TypeInv'
  OBVIOUS
<1> DEFINE c == [client EXCEPT !.pending = @ - input.acked]
<1>1. UNCHANGED <<app, server>> /\ InputType(input')
  <2>1. \/ input' = NoInput
        \/ input' = [input EXCEPT !.stage = "sentSync", !.acked = 0]
        \/ input' = [input EXCEPT !.stage = "recv", !.acked = 0]
    BY DEF TcpSent, InputAborted, InputGoesOn
  <2>2. "sentSync" \in Stages /\ "recv" \in Stages
    BY DEF Stages
  <2> QED
    BY <2>1, <2>2, InputTyped DEF TcpSent, TypeInv
<1>2. ClientType(c)
  <2>1. client.pending \in Int /\ input.acked \in Int
    BY Sizes DEF TypeInv, Structures, ClientType, InputType
  <2>2. client.pending - input.acked \in Int
    BY <2>1
  <2>3. c = [client EXCEPT !.pending = client.pending - input.acked] /\ c.buf = client.buf
    BY DEF TypeInv, Structures, ClientType
  <2> HIDE DEF c
  <2> QED
    BY <2>2, <2>3 DEF TypeInv, Structures, ClientType
<1>3. PcbType(pcb) /\ Len(pcb.queue) <= SndBuf
  BY DEF TypeInv, Structures, All, PipeInv, DownFits
<1>4. CASE UNCHANGED <<client, pcb, conn, short>>
  BY <1>1, <1>4 DEF TypeInv, Structures
<1>5. CASE ClientSent
  <2>1. \/ \E n \in {0, Queueable(c, pcb)} :
             \/ client' = Left(c, n) /\ pcb' = Queued(c, pcb, n) /\ UNCHANGED <<conn, short>>
             \/ AbortClient(Left(c, n), Queued(c, pcb, n), jobs)
        \/ FreeClient(c, pcb, jobs)
        \/ client' = c /\ UNCHANGED <<pcb, conn, short>>
    BY <1>5 DEF ClientSent, SendOut, Left, Queued
  <2> HIDE DEF c
  <2>2. CASE FreeClient(c, pcb, jobs)
    BY <1>1, <1>2, <1>3, <2>2, FreeClientType DEF TypeInv
  <2>3. CASE client' = c /\ UNCHANGED <<pcb, conn, short>>
    BY <1>1, <1>2, <2>3 DEF TypeInv, Structures
  <2>4. ASSUME NEW n \in {0, Queueable(c, pcb)},
               \/ client' = Left(c, n) /\ pcb' = Queued(c, pcb, n) /\ UNCHANGED <<conn, short>>
               \/ AbortClient(Left(c, n), Queued(c, pcb, n), jobs)
        PROVE  TypeInv'
    <3>1. ClientType(Left(c, n)) /\ PcbType(Queued(c, pcb, n))
      BY <1>2, <1>3, <2>4, QueuedType
    <3>2. Structures'
      BY <2>4, <3>1, AbortClientType DEF TypeInv, Structures
    <3> QED
      BY <1>1, <3>2 DEF TypeInv
  <2> QED
    BY <2>1, <2>2, <2>3, <2>4
<1> QED
  BY <1>4, <1>5 DEF TcpSent

LEMMA TcpRecvTyped == All /\ TypeInv /\ TcpRecv => TypeInv'
<1> SUFFICES ASSUME All, TypeInv, TcpRecv PROVE TypeInv'
  OBVIOUS
<1>1. UNCHANGED <<app, server, short>> /\ InputType(input')
  <2>1. \/ input' = [input EXCEPT !.stage = "recvSync"]
        \/ input' = [input EXCEPT !.stage = "fin", !.data = 0]
    BY DEF TcpRecv
  <2>2. "recvSync" \in Stages /\ "fin" \in Stages
    BY DEF Stages
  <2> QED
    BY <2>1, <2>2, InputTyped DEF TcpRecv, TypeInv
<1>2. input.stage = "recv" /\ PcbLive /\ Unhandled \in {input.data, input.data + 1}
      /\ input.data \in Nat
  BY Sizes DEF TcpRecv, All, UseInv, StageFits, Unhandled, TypeInv, InputType
<1>3. CASE input.data > 0 /\ "recv" \in client.callbacks
  <2> DEFINE buf == client.buf
             data == Bytes(app.sent - input.data, app.sent)
             n == input.data
             sent == app.sent
  <2>1. /\ client' = [client EXCEPT !.buf = buf \o data] /\ UNCHANGED pcb /\ n <= Wnd - Len(buf)
        /\ conn' = IF StartsSending(client) THEN [conn EXCEPT !.busy = n] ELSE conn
    BY <1>3 DEF TcpRecv
  <2>2. buf \in Seq(1..MaxUp) /\ sent \in Nat /\ sent <= MaxUp /\ n \in Nat
    BY <1>2, Sizes DEF TypeInv, Structures, ClientType, AppType
  <2>3. n <= sent
    <3> DEFINE from == Len(server.got) - conn.done
    <3>1. from >= 0 /\ from + Len(buf) + n = sent
      <4>1. conn.state # "none" /\ ~Off(conn)
        BY <1>2, <1>3 DEF All, UseInv, StageFits, PipeInv, ClientFits, Off
      <4>2. Due(input) = n
        BY <1>2 DEF Due
      <4> QED
        BY <1>3, <4>1, <4>2 DEF All, PipeInv, UpFits
    <3>2. from \in Int /\ Len(buf) \in Nat
      <4>1. Len(server.got) \in Nat /\ conn.done \in Nat
        BY DEF TypeInv, ServerType, Structures, ConnType
      <4> QED
        BY <2>2, <4>1
    <3> HIDE DEF from, n, sent, buf
    <3> QED
      BY <2>2, <3>1, <3>2
  <2>4. sent - n \in Nat /\ data = Bytes(sent - n, sent)
    BY <2>2, <2>3
  <2>5. data \in Seq(1..MaxUp) /\ Len(data) = n
    <3> HIDE DEF n, sent, data
    <3>1. Len(Bytes(sent - n, sent)) = n
      BY <2>2, BytesInts
    <3>2. Bytes(sent - n, sent) \in Seq(1..MaxUp)
      BY <2>2, <2>4, Sizes, BytesType
    <3> QED
      BY <2>4, <3>1, <3>2
  <2> HIDE DEF buf, data, n, sent
  <2>6. buf \o data \in Seq(1..MaxUp) /\ Len(buf \o data) = Len(buf) + Len(data) /\ Len(buf) \in Nat
    BY <2>2, <2>5
  <2>7. Len(buf \o data) <= Wnd
    BY <2>1, <2>2, <2>5, <2>6, Sizes
  <2>8. ClientType(client')
    <3> DEFINE new == buf \o data
    <3>1. new \in Seq(1..MaxUp) /\ Len(new) <= Wnd /\ client' = [client EXCEPT !.buf = new]
      BY <2>1, <2>6, <2>7
    <3> HIDE DEF new
    <3>2. client'.buf = new
      BY <3>1 DEF TypeInv, Structures, ClientType
    <3> QED
      BY <3>1, <3>2 DEF TypeInv, Structures, ClientType
  <2>9. ConnType(conn')
    BY <2>1, <2>2 DEF TypeInv, Structures, ConnType
  <2> QED
    BY <1>1, <2>1, <2>8, <2>9 DEF TypeInv, Structures
<1>4. CASE ~(input.data > 0 /\ "recv" \in client.callbacks)
  <2> DEFINE r == pcb.rcvWnd
             n == input.data
             size == Len(client.buf)
  <2>1. pcb' = [pcb EXCEPT !.rcvWnd = r + n] /\ UNCHANGED <<client, conn>>
    BY <1>4 DEF TcpRecv
  <2>2. r \in Nat /\ size \in Nat /\ Unhandled \in Nat /\ r + size + Unhandled = Wnd
    BY <1>2, Window
  <2> HIDE DEF r, size
  <2>3. r + n \in 0..Wnd
    BY <1>2, <2>2, Sizes
  <2>4. PcbType(pcb')
    BY <2>1, <2>3 DEF TypeInv, Structures, PcbType
  <2> QED
    BY <1>1, <2>1, <2>4 DEF TypeInv, Structures
<1> QED
  BY <1>3, <1>4

LEMMA TcpFinTyped == All /\ TypeInv /\ TcpFin => TypeInv'
<1> SUFFICES ASSUME All, TypeInv, TcpFin PROVE TypeInv'
  OBVIOUS
<1> DEFINE p == [pcb EXCEPT !.rcvWnd = Lesser(@ + 1, Wnd)]
<1>1. UNCHANGED <<app, server>> /\ InputType(input')
  BY InputTyped DEF TcpFin, TypeInv
<1>2. PcbType(p)
  <2> DEFINE r == pcb.rcvWnd
  <2>1. r \in 0..Wnd
    BY DEF TypeInv, Structures, PcbType
  <2> HIDE DEF r
  <2>2. Lesser(r + 1, Wnd) \in 0..Wnd
    BY <2>1, Sizes DEF Lesser
  <2>3. p = [pcb EXCEPT !.rcvWnd = Lesser(r + 1, Wnd)]
    BY DEF r
  <2> HIDE DEF p
  <2> QED
    BY <2>2, <2>3 DEF TypeInv, Structures, PcbType
<1>3. \/ UNCHANGED <<client, pcb, conn, short>>
      \/ FreeClient(client, p, jobs)
      \/ pcb' = p /\ UNCHANGED <<client, conn, short>>
  BY DEF TcpFin
<1> HIDE DEF p
<1>4. Structures'
  BY <1>2, <1>3, FreeClientType DEF TypeInv, Structures
<1> QED
  BY <1>1, <1>4 DEF TypeInv

LEMMA RestTyped ==
  /\ All /\ TypeInv
  /\ CommitReturns \/ PcbLost \/ ClosingInput \/ ServerSends \/ ServerEnds \/ UNCHANGED vars
  => TypeInv'
<1> SUFFICES ASSUME All, TypeInv, \/ CommitReturns \/ PcbLost \/ ClosingInput
                                  \/ ServerSends \/ ServerEnds \/ UNCHANGED vars
             PROVE  TypeInv'
  OBVIOUS
<1>1. ASSUME NEW p, p = [pcb EXCEPT !.state = "lost", !.queue = <<>>] PROVE PcbType(p)
  <2>1. <<>> \in Seq(1..MaxDown)
    BY NoBytes
  <2> QED
    BY <1>1, <2>1 DEF TypeInv, Structures, PcbType
<1>2. CASE CommitReturns
  <2>1. Top("mark") /\ UNCHANGED <<client, pcb, conn, app, server, short>> /\ JobsOK(jobs)
        /\ jobs # <<>> /\ Head(jobs) = "mark"
    BY <1>2, TopJob DEF CommitReturns, Top, All
  <2>2. input.stage \in {"accept", "sentSync", "recvSync"}
    <3>1. HasMark(jobs)
      BY <2>1 DEF JobsOK, HasMark
    <3> QED
      BY <3>1 DEF All, IInv, Shapes, InputOK
  <2>3. \/ input' = NoInput
        \/ input' = [input EXCEPT !.stage = "recv", !.acked = 0]
        \/ input' = [input EXCEPT !.stage = "fin", !.data = 0]
    <3>1. CASE client.clientClosed \/ input.stage = "accept"
      BY <1>2, <3>1 DEF CommitReturns, Killed, InputAborted
    <3>2. CASE ~client.clientClosed /\ input.stage = "sentSync"
      BY <1>2, <3>2 DEF CommitReturns, Killed, InputGoesOn
    <3>3. CASE ~client.clientClosed /\ input.stage = "recvSync"
      BY <1>2, <3>3 DEF CommitReturns, Killed
    <3> QED
      BY <2>2, <3>1, <3>2, <3>3
  <2>4. "recv" \in Stages /\ "fin" \in Stages
    BY DEF Stages
  <2>5. InputType(input')
    BY <2>3, <2>4, InputTyped DEF TypeInv
  <2> QED
    BY <2>1, <2>5 DEF TypeInv, Structures
<1>3. CASE PcbLost
  <2>1. PcbType(pcb') /\ UNCHANGED <<input, app, server, short>>
    BY <1>1, <1>3 DEF PcbLost
  <2>2. HandleFreedClient(client, jobs) \/ UNCHANGED <<client, conn>>
    BY <1>3 DEF PcbLost
  <2>3. ClientType(client') /\ ConnType(conn')
    BY <2>2, HandleFreedClientType DEF TypeInv, Structures
  <2> QED
    BY <2>1, <2>3 DEF TypeInv, Structures
<1>4. CASE ClosingInput
  <2>1. UNCHANGED <<client, conn, input, server, short>>
    BY <1>4 DEF ClosingInput
  <2>2. CASE pcb' = [pcb EXCEPT !.state = "lost", !.queue = <<>>] /\ UNCHANGED app
    BY <1>1, <2>1, <2>2 DEF TypeInv, Structures
  <2>3. ASSUME NEW n \in 1..Len(pcb.queue), app' = [app EXCEPT !.got = @ \o SubSeq(pcb.queue, 1, n)],
               pcb' = [pcb EXCEPT !.queue = Drop(@, n)]
        PROVE  TypeInv'
    <3> DEFINE queue == pcb.queue
               got == app.got
    <3>1. queue \in Seq(1..MaxDown) /\ got \in Seq(1..MaxDown) /\ n \in 1..Len(queue)
      BY DEF TypeInv, Structures, PcbType, AppType
    <3>2. app' = [app EXCEPT !.got = got \o SubSeq(queue, 1, n)] /\ pcb' = [pcb EXCEPT !.queue = Drop(queue, n)]
      BY <2>3
    <3> HIDE DEF queue, got
    <3>3. n \in Nat /\ n <= Len(queue)
      BY <3>1
    <3>4. SubSeq(queue, 1, n) \in Seq(1..MaxDown) /\ Drop(queue, n) \in Seq(1..MaxDown)
      BY <3>1, <3>3, FrontType, DropType
    <3>5. got \o SubSeq(queue, 1, n) \in Seq(1..MaxDown)
      BY <3>1, <3>4
    <3>6. AppType(app')
      BY <3>2, <3>5 DEF TypeInv, AppType
    <3>7. PcbType(pcb')
      BY <3>2, <3>4 DEF TypeInv, Structures, PcbType
    <3> QED
      BY <2>1, <3>6, <3>7 DEF TypeInv, Structures
  <2> QED
    BY <1>4, <2>2, <2>3 DEF ClosingInput
<1>5. CASE ServerSends \/ ServerEnds \/ UNCHANGED vars
  <2>1. UNCHANGED <<client, pcb, conn, input, app, short>>
    BY <1>5 DEF ServerSends, ServerEnds, vars
  <2>2. ServerType(server')
    <3>1. CASE ServerSends
      <4> DEFINE n == server.sent + 1
      <4>1. n \in 0..MaxDown /\ server' = [server EXCEPT !.sent = n]
        BY <3>1, Sizes DEF ServerSends, TypeInv, ServerType
      <4> HIDE DEF n
      <4> QED
        BY <4>1 DEF TypeInv, ServerType
    <3>2. CASE ServerEnds
      BY <3>2 DEF ServerEnds, TypeInv, ServerType
    <3>3. CASE UNCHANGED vars
      BY <3>3 DEF vars, TypeInv
    <3> QED
      BY <1>5, <3>1, <3>2, <3>3
  <2> QED
    BY <2>1, <2>2 DEF TypeInv, Structures
<1> QED
  BY <1>2, <1>3, <1>4, <1>5

LEMMA InitTyped == Init => TypeInv
<1> SUFFICES ASSUME Init PROVE TypeInv
  OBVIOUS
<1> DEFINE none == <<>>
<1>1. /\ none \in Seq(1..MaxDown) /\ none \in Seq(1..MaxUp) /\ Len(none) <= Wnd
      /\ 0 \in 0..Wnd /\ Wnd \in 0..Wnd /\ 0 \in 0..SndBuf /\ 0 \in 0..MaxUp /\ 0 \in 0..MaxDown
  BY Sizes, NoBytes
<1>2. /\ client = [life |-> "none", clientClosed |-> FALSE, socksClosed |-> FALSE, socksUp |-> FALSE,
                   buf |-> none, rest |-> none, pending |-> 0, callbacks |-> {}]
      /\ pcb = [state |-> "none", rcvWnd |-> Wnd, queue |-> none]
      /\ conn = [state |-> "none", busy |-> 0, sendWait |-> FALSE, done |-> 0,
                 recvWait |-> FALSE, data |-> none, hup |-> FALSE]
      /\ input = [stage |-> "idle", acked |-> 0, data |-> 0, fin |-> FALSE]
      /\ app = [sent |-> 0, fin |-> FALSE, got |-> none]
      /\ server = [sent |-> 0, fin |-> FALSE, reset |-> FALSE, read |-> 0, got |-> none]
      /\ short = FALSE
  BY DEF Init, NoConn, NoInput
<1> HIDE DEF none
<1>3. ClientType(client) /\ PcbType(pcb)
  BY <1>1, <1>2 DEF ClientType, PcbType, LifeStates
<1>4. ConnType(conn)
  <2> DEFINE states == DOMAIN After \cup {"none", "up", "freed"}
  <2>1. "none" \in states
    OBVIOUS
  <2> HIDE DEF states
  <2>2. conn \in [state : states, busy : Nat, done : Nat, sendWait : BOOLEAN, recvWait : BOOLEAN,
                  data : Seq(1..MaxDown), hup : BOOLEAN]
    BY <1>1, <1>2, <2>1
  <2> QED
    BY <2>2 DEF ConnType, states
<1>5. InputType(input)
  BY <1>1, <1>2 DEF InputType, Stages
<1>6. AppType(app) /\ ServerType(server)
  BY <1>1, <1>2 DEF AppType, ServerType
<1> QED
  BY <1>2, <1>3, <1>4, <1>5, <1>6 DEF TypeInv, Structures

LEMMA NextTyped == All /\ TypeInv /\ [Next]_vars => TypeInv'
<1> SUFFICES ASSUME All, TypeInv, [Next]_vars PROVE TypeInv'
  OBVIOUS
<1> QED
  BY AcceptTyped, HandshakeTyped, SocketTyped, SendDoneTyped, RecvDoneTyped, SegmentTyped,
     TcpSentTyped, TcpRecvTyped, TcpFinTyped, RestTyped
     DEF Next, RunJob, RunInput

-----------------------------------------------------------------------------
(* A client that never had a connection has nothing to be queued.          *)
NoneFits == conn.state = "none" => client.rest = <<>>

LEMMA NextNone == All /\ NoneFits /\ [Next]_vars => NoneFits'
<1> SUFFICES ASSUME All, NoneFits, [Next]_vars, conn'.state = "none" PROVE client'.rest = <<>>
  BY DEF NoneFits
<1>1. conn.state = "none" /\ client.rest = <<>>
  BY NextConnStays DEF ConnStays, NoneFits, All
<1>2. Jobs(jobs) \subseteq {"mark"} /\ JobsOK(jobs) /\ input.stage = "idle"
  BY <1>1 DEF All, PipeInv, JobsFit, Off, IInv, Shapes, UseInv, StageFits
<1>3. ~PcbLive
  <2>1. client.life = "none" => pcb.state = "none"
    BY DEF All, IInv, Fresh
  <2>2. PcbLive => client.life = "none"
    BY <1>1 DEF All, PipeInv, ClientFits
  <2> QED
    BY <2>1, <2>2 DEF PcbLive
<1>4. \A job : Top(job) => job = "mark"
  BY <1>2, JobsPop DEF Top
<1>5. ~InHandshake /\ conn.state # "up"
  BY <1>1 DEF InHandshake, After
<1>6. client'.rest = client.rest
  <2>1. CASE Accept
    <3>1. DOMAIN client = ClientFields
      BY DEF All, IInv, Shapes, ClientOK
    <3> QED
      BY <2>1, <3>1 DEF Accept, AcceptFails, AcceptClient, ClientFields
  <2>2. ~HandshakeEvent /\ ~FdEvent /\ ~AppSegment /\ ~PcbLost /\ ~TcpSent /\ ~TcpRecv /\ ~TcpFin
    BY <1>2, <1>3, <1>5
       DEF HandshakeEvent, FdEvent, AppSegment, TcpInput, PcbLost, TcpSent, TcpRecv, TcpFin
  <2>3. ~HandshakeJob /\ ~SendJob /\ ~RecvJob /\ ~SendDone /\ ~RecvDone
    BY <1>4 DEF HandshakeJob, SendJob, RecvJob, SendDone, RecvDone
  <2>4. CASE CommitReturns \/ ClosingInput \/ ServerSends \/ ServerEnds \/ UNCHANGED vars
    BY <2>4 DEF CommitReturns, ClosingInput, ServerSends, ServerEnds, vars
  <2> QED
    BY <2>1, <2>2, <2>3, <2>4 DEF Next, RunJob, RunInput
<1> QED
  BY <1>1, <1>6

-----------------------------------------------------------------------------
(* The assertions follow.                                                  *)
HeldInv == All /\ TypeInv /\ NoneFits

LEMMA InitHeld == Init => HeldInv
BY InitAll, InitHandled, InitTyped DEF HeldInv, All, NoneFits, Init

LEMMA NextHeld == HeldInv /\ [Next]_vars => HeldInv'
<1> SUFFICES ASSUME HeldInv, [Next]_vars PROVE HeldInv'
  OBVIOUS
<1>1. (IInv /\ PipeInv /\ UseInv)'
  BY NextAll DEF HeldInv, All
<1>2. HandlersInv'
  BY NextHandled DEF HeldInv, All
<1>3. TypeInv' /\ NoneFits'
  BY NextTyped, NextNone DEF HeldInv
<1> QED
  BY <1>1, <1>2, <1>3 DEF HeldInv, All

LEMMA HeldTypes == HeldInv => TypeOK
<1> SUFFICES ASSUME HeldInv PROVE TypeOK
  OBVIOUS
<1>1. client.pending \in 0..SndBuf
  BY DEF HeldInv, All, HandlersInv, Handled, PendingFits, Bounded
<1>2. client \in [life : {"none", "live", "gone"}, clientClosed : BOOLEAN, socksClosed : BOOLEAN,
                  socksUp : BOOLEAN, buf : Seq(1..MaxUp), rest : Seq(1..MaxDown),
                  pending : 0..SndBuf, callbacks : SUBSET {"err", "recv", "sent"}]
  BY <1>1 DEF HeldInv, TypeInv, Structures, ClientType, LifeStates
<1>3. conn.busy \in 0..Wnd /\ conn.done \in 0..Wnd
  <2> DEFINE size == Len(client.buf)
  <2>1. /\ conn.busy \in Nat /\ conn.done \in Nat /\ conn.busy <= size /\ conn.done <= size
        /\ size \in Nat /\ size <= Wnd
    BY DEF HeldInv, TypeInv, Structures, ClientType, ConnType, All, IInv, Shapes, ConnOK
  <2> HIDE DEF size
  <2> QED
    BY <2>1, Sizes
<1>4. conn \in [state : DOMAIN After \cup {"none", "up", "freed"}, busy : 0..Wnd, done : 0..Wnd,
                sendWait : BOOLEAN, recvWait : BOOLEAN, data : Seq(1..MaxDown), hup : BOOLEAN]
  BY <1>3 DEF HeldInv, TypeInv, Structures, ConnType
<1>5. server.read \in 0..MaxDown
  <2>1. server.read \in Nat /\ server.sent \in 0..MaxDown /\ server.read <= server.sent
    BY DEF HeldInv, TypeInv, ServerType, All, PipeInv, ServerOK
  <2> QED
    BY <2>1, Sizes
<1>6. server \in [sent : 0..MaxDown, fin : BOOLEAN, reset : BOOLEAN, read : 0..MaxDown,
                  got : Seq(1..MaxUp)]
  BY <1>5 DEF HeldInv, TypeInv, ServerType
<1>7. jobs \in Seq(JobNames)
  BY DEF HeldInv, All, IInv, Shapes, JobsOK
<1> QED
  BY <1>2, <1>4, <1>6, <1>7
     DEF TypeOK, HeldInv, TypeInv, Structures, PcbType, InputType, AppType

LEMMA HeldTransfers == HeldInv => OneTransferEach
<1> SUFFICES ASSUME HeldInv PROVE OneTransferEach
  OBVIOUS
<1>1. /\ DOMAIN jobs = 1..Len(jobs) /\ WriteFits(conn, jobs, client.buf)
      /\ JobsFit(conn, jobs) /\ RestFits(client, conn, jobs) /\ ClientFits(client, conn)
      /\ ConnOK(conn, client.buf) /\ PendingFits(client, pcb, input.acked)
  BY DEF HeldInv, All, IInv, Shapes, JobsOK, PipeInv, HandlersInv, Handled
<1>2. /\ \A i, j \in Positions(Writes) : i = j
      /\ Positions(Writes) = {} <=> NoneOf(jobs, Writes)
  BY <1>1 DEF Positions, WriteFits, OneOf, NoneOf, Jobs
<1>3. /\ \A i, j \in Positions(Reads) : i = j
      /\ Positions(Reads) = {} <=> NoRead(jobs)
  BY <1>1 DEF Positions, JobsFit, OneRead, NoRead, Jobs, Reads, Reading
<1>4. conn.sendWait \in BOOLEAN /\ conn.recvWait \in BOOLEAN
  BY DEF HeldInv, TypeInv, Structures, ConnType
<1>5. /\ AtMostOnce(Writes, conn.sendWait)
      /\ Asked(Writes, conn.sendWait) <=> (conn.state = "up" /\ client.buf # <<>>)
      /\ AtMostOnce(Reads, conn.recvWait)
  BY <1>1, <1>2, <1>3, <1>4 DEF AtMostOnce, Asked, WriteFits, JobsFit
<1>6. conn.busy + conn.done <= Len(client.buf)
  <2> DEFINE size == Len(client.buf)
  <2>1. /\ conn.busy \in Nat /\ conn.done \in Nat /\ conn.busy <= size /\ conn.done <= size
        /\ size \in Nat /\ (conn.done > 0 => conn.busy = 0)
    BY <1>1 DEF HeldInv, TypeInv, Structures, ClientType, ConnOK, JobsFit
  <2> HIDE DEF size
  <2>2. \A x, y, z \in Nat : x <= z /\ y <= z /\ (y > 0 => x = 0) => x + y <= z
    OBVIOUS
  <2>3. conn.busy + conn.done <= size
    BY <2>1, <2>2
  <2> QED
    BY <2>3 DEF size
<1>7. ASSUME client.rest # <<>>, ~client.clientClosed
      PROVE  /\ ~Asked(Reads, conn.recvWait) /\ conn.data = <<>>
             /\ Idle => client.pending > 0
  <2>1. Open(client)
    BY <1>1, <1>7 DEF ClientFits, HeldInv, NoneFits
  <2>2. NoRead(jobs) /\ ~conn.recvWait /\ "recvDone" \notin Jobs(jobs)
    BY <1>1, <1>7, <2>1 DEF RestFits, NoRead, Reading
  <2> QED
    BY <1>1, <1>3, <1>7, <2>1, <2>2 DEF RestFits, Asked, PendingFits
<1> QED
  BY <1>5, <1>6, <1>7 DEF OneTransferEach

LEMMA HeldAssertions == HeldInv => AssertionsHold
<1> SUFFICES ASSUME HeldInv PROVE AssertionsHold
  OBVIOUS
<1>1. CallbacksFit
  <2>1. client.clientClosed => client.callbacks = {}
    BY DEF HeldInv, All, IInv, Shapes, ClientOK
  <2> QED
    BY <2>1 DEF CallbacksFit, HeldInv, All, PipeInv, ClientFits, HandlersInv, Handled, PendingFits, Open
<1>2. HalfClientWaits
  BY DEF HalfClientWaits, HeldInv, All, HandlersInv, Handled, Halves
<1> QED
  BY <1>1, <1>2, HeldTypes, HeldTransfers DEF AssertionsHold

(* What the handlers of tun2socks.c, BSocksClient.c and BConnection.c      *)
(* assert of each other's state when they run holds: the callbacks that    *)
(* are registered, the count of what lwIP has to get acknowledged, that a  *)
(* half closed client has something to wait for, and that the socket is    *)
(* asked for one read and one write at a time.                             *)
THEOREM SpecAssertionsHold == Spec => []AssertionsHold
BY InitHeld, NextHeld, HeldAssertions, PTL DEF Spec

-----------------------------------------------------------------------------
(* What is delivered.  While nothing broke, the server has what the        *)
(* application sent, or it is in buf and the connection to it is there;    *)
(* and the application has, or lwIP still delivers, what the server sent   *)
(* before its end, which must have come when half a client is left.        *)
UpLeft(c, k, s) == Len(s.got) - k.done + Len(c.buf)
UpCalm == ~server.reset /\ ~short /\ ~server.fin /\ client.life # "none"
UpWhole ==
  UpCalm =>
    /\ Open(client) => "recv" \in client.callbacks /\ ~Off(conn)
    /\ ~Open(client) => Due(input) = 0
    /\ ~Open(client) /\ ~Off(conn) => UpLeft(client, conn, server) = app.sent
    /\ Off(conn) => Len(server.got) = app.sent

InQueue(a, p) == Len(a.got) + Len(p.queue)
DownCalm == ~server.reset /\ ~short /\ ~app.fin /\ pcb.state # "lost" /\ client.life # "none"
DownWhole ==
  DownCalm =>
    /\ Open(client) /\ Off(conn) => server.fin /\ InQueue(app, pcb) + Len(client.rest) = server.sent
    /\ ~Open(client) => server.fin /\ InQueue(app, pcb) = server.sent

FinFits == input.fin => app.fin
WholeInv == UpWhole /\ DownWhole /\ FinFits

(* A client is there for every job, every stage of tcp_input and every     *)
(* PCB.                                                                    *)
LEMMA ClientThere ==
  ASSUME All, jobs # <<>> \/ input.stage # "idle" \/ PcbLive \/ conn.state # "none"
  PROVE  client.life # "none"
BY DEF All, IInv, Fresh, PcbLive

LEMMA Numbers ==
  ASSUME All, TypeInv
  PROVE  /\ Len(app.got) \in Nat /\ Len(pcb.queue) \in Nat /\ Len(client.rest) \in Nat
         /\ Len(server.got) \in Nat /\ Len(client.buf) \in Nat /\ app.sent \in Nat
         /\ server.sent \in Nat /\ server.read \in Nat /\ conn.done \in Nat /\ conn.busy \in Nat
         /\ client.pending \in Nat /\ input.acked \in Nat
<1>1. client.pending \in Nat
  BY Sizes DEF All, HandlersInv, Handled, PendingFits, Bounded
<1>2. /\ app.got \in Seq(1..MaxDown) /\ pcb.queue \in Seq(1..MaxDown)
      /\ client.rest \in Seq(1..MaxDown) /\ server.got \in Seq(1..MaxUp) /\ client.buf \in Seq(1..MaxUp)
  BY DEF TypeInv, Structures, AppType, PcbType, ClientType, ServerType
<1>3. /\ app.sent \in 0..MaxUp /\ server.sent \in 0..MaxDown /\ server.read \in Nat
      /\ conn.done \in Nat /\ conn.busy \in Nat /\ input.acked \in 0..SndBuf
  BY DEF TypeInv, Structures, AppType, ConnType, ServerType, InputType
<1>4. \A S : \A s \in Seq(S) : Len(s) \in Nat
  OBVIOUS
<1>5. /\ Len(app.got) \in Nat /\ Len(pcb.queue) \in Nat /\ Len(client.rest) \in Nat
      /\ Len(server.got) \in Nat /\ Len(client.buf) \in Nat
  BY <1>2, <1>4
<1>6. app.sent \in Nat /\ server.sent \in Nat /\ input.acked \in Nat
  BY <1>3, Sizes
<1> QED
  BY <1>1, <1>3, <1>5, <1>6

LEMMA FinNext == All /\ FinFits /\ [Next]_vars => FinFits'
<1> SUFFICES ASSUME All, FinFits, [Next]_vars PROVE FinFits'
  OBVIOUS
<1>1. DOMAIN input = {"stage", "acked", "data", "fin"} /\ DOMAIN app = {"sent", "fin", "got"}
  BY DEF All, IInv, Shapes, InputOK
<1>10. NoInput.fin = FALSE
  BY DEF NoInput
<1>2. CASE UNCHANGED <<input, app>>
  BY <1>2 DEF FinFits
<1>3. CASE Accept
  BY <1>1, <1>3 DEF Accept, AcceptFails, AcceptClient, FinFits
<1>4. CASE AppSegment
  <2>1. PICK acked, data, fin : TcpInput(acked, data, fin)
    BY <1>4 DEF AppSegment
  <2>2. input'.fin = fin /\ app'.fin = (app.fin \/ fin)
    BY <2>1 DEF TcpInput
  <2> QED
    BY <2>2, Zenon DEF FinFits
<1>5. CASE TcpSent
  <2>1. \/ input' = NoInput
        \/ input' = [input EXCEPT !.stage = "sentSync", !.acked = 0]
        \/ input' = [input EXCEPT !.stage = "recv", !.acked = 0]
    BY <1>5 DEF TcpSent, InputAborted, InputGoesOn
  <2>2. UNCHANGED app
    BY <1>5 DEF TcpSent
  <2>3. input'.fin = input.fin \/ input'.fin = FALSE
    BY <1>1, <2>1, <1>10
  <2> QED
    BY <2>2, <2>3, Zenon DEF FinFits
<1>6. CASE TcpRecv
  BY <1>1, <1>6 DEF TcpRecv, FinFits
<1>7. CASE TcpFin
  BY <1>7 DEF TcpFin, FinFits, NoInput
<1>8. CASE CommitReturns
  <2>1. input.stage \in {"accept", "sentSync", "recvSync"} /\ UNCHANGED app
    <3>1. JobsOK(jobs) /\ jobs # <<>> /\ Head(jobs) = "mark"
      BY <1>8, TopJob DEF CommitReturns, Top, All
    <3>2. HasMark(jobs)
      BY <3>1 DEF JobsOK, HasMark
    <3> QED
      BY <1>8, <3>2 DEF All, IInv, Shapes, InputOK, CommitReturns
  <2>2. CASE client.clientClosed \/ input.stage = "accept"
    <3>1. input' = NoInput
      BY <1>8, <2>2 DEF CommitReturns, Killed, InputAborted
    <3>2. input'.fin = FALSE
      BY <1>10, <3>1
    <3> QED
      BY <3>2, Zenon DEF FinFits
  <2>3. CASE ~client.clientClosed /\ input.stage = "sentSync"
    BY <1>1, <1>8, <2>1, <2>3 DEF CommitReturns, Killed, InputGoesOn, FinFits
  <2>4. CASE ~client.clientClosed /\ input.stage = "recvSync"
    BY <1>1, <1>8, <2>1, <2>4 DEF CommitReturns, Killed, FinFits
  <2> QED
    BY <2>1, <2>2, <2>3, <2>4
<1>9. CASE ClosingInput
  BY <1>1, <1>9 DEF ClosingInput, FinFits
<1> QED
  BY <1>2, <1>3, <1>4, <1>5, <1>6, <1>7, <1>8, <1>9
     DEF Next, RunJob, RunInput, HandshakeEvent, HandshakeJob, FdEvent, SendJob, RecvJob,
         SendDone, RecvDone, PcbLost, ServerSends, ServerEnds, vars

(* A step that moves bytes between buf and the socket, or nothing.         *)
LEMMA SameWhole ==
  ASSUME All, TypeInv, UpWhole, DownWhole, client.life # "none", UNCHANGED <<app, input, short>>,
         "recv" \in client.callbacks => "recv" \in client'.callbacks,
         Open(client') <=> Open(client), Off(conn') <=> Off(conn), client'.rest = client.rest,
         pcb'.queue = pcb.queue, pcb'.state = pcb.state,
         server'.reset = server.reset, server'.fin = server.fin, server'.sent = server.sent,
         UpLeft(client', conn', server') = UpLeft(client, conn, server),
         Off(conn) => server'.got = server.got
  PROVE  UpWhole' /\ DownWhole'
<1>1. UpWhole'
  BY DEF UpWhole, UpCalm
<1>2. DownWhole'
  BY DEF DownWhole, DownCalm, InQueue
<1> QED
  BY <1>1, <1>2

LEMMA AcceptWhole == All /\ TypeInv /\ Accept => UpWhole' /\ DownWhole'
<1> SUFFICES ASSUME All, TypeInv, Accept PROVE UpWhole' /\ DownWhole'
  OBVIOUS
<1>1. CASE AcceptFails
  BY <1>1 DEF AcceptFails, UpWhole, UpCalm, DownWhole, DownCalm
<1>2. CASE AcceptClient
  <2>1. client'.callbacks = {"err", "recv"} /\ conn'.state = "connecting"
    BY <1>2 DEF AcceptClient, TypeInv, Structures, ClientType, ConnType
  <2> QED
    BY <2>1 DEF UpWhole, DownWhole, Open, Off
<1> QED
  BY <1>1, <1>2 DEF Accept

LEMMA HandshakeWhole ==
  All /\ TypeInv /\ UpWhole /\ DownWhole /\ (HandshakeJob \/ HandshakeEvent) => UpWhole' /\ DownWhole'
<1> SUFFICES ASSUME All, TypeInv, UpWhole, DownWhole, HandshakeJob \/ HandshakeEvent
             PROVE  UpWhole' /\ DownWhole'
  OBVIOUS
<1>1. UNCHANGED <<input, app>> /\ conn.state \in Handshaking /\ client.life # "none"
  BY HandshakeState DEF HandshakeJob, HandshakeEvent, All
<1>2. CASE UNCHANGED <<client, pcb, conn, short, server>>
  BY <1>1, <1>2, SameWhole
<1>3. ASSUME NEW base, HandshakeStep(base) PROVE UpWhole' /\ DownWhole'
  <2>1. ASSUME NEW state \in Handshaking, conn' = [conn EXCEPT !.state = state],
               UNCHANGED <<client, pcb, short, server>>
        PROVE  UpWhole' /\ DownWhole'
    <3>1. conn'.state = state /\ conn'.done = conn.done
      BY <2>1 DEF TypeInv, Structures, ConnType
    <3>2. ~Off(conn) /\ ~Off(conn')
      BY <1>1, <3>1 DEF Off, Handshaking
    <3>3. UpLeft(client', conn', server') = UpLeft(client, conn, server)
      BY <2>1, <3>1 DEF UpLeft
    <3> QED
      BY <1>1, <2>1, <3>2, <3>3, SameWhole
  <2>2. CASE SocksUp(base)
    <3>1. /\ client'.buf = client.buf /\ client'.rest = client.rest
          /\ client'.callbacks = client.callbacks \cup (IF ~client.clientClosed THEN {"sent"} ELSE {})
          /\ conn'.state = "up" /\ conn'.done = conn.done /\ UNCHANGED <<pcb, short, server>>
      BY <2>2 DEF SocksUp, TypeInv, Structures, ClientType, ConnType
    <3>2. ~Off(conn) /\ ~Off(conn') /\ (Open(client') <=> Open(client))
          /\ ("recv" \in client.callbacks => "recv" \in client'.callbacks)
      BY <1>1, <3>1 DEF Off, Handshaking, Open
    <3>3. UpLeft(client', conn', server') = UpLeft(client, conn, server)
      BY <3>1 DEF UpLeft
    <3> QED
      BY <1>1, <3>1, <3>2, <3>3, SameWhole
  <2>3. CASE HandshakeFails
    <3>1. server'.reset
      BY <2>3 DEF HandshakeFails, TypeInv, ServerType
    <3> QED
      BY <3>1 DEF UpWhole, UpCalm, DownWhole, DownCalm
  <2> QED
    BY <1>1, <1>3, <2>1, <2>2, <2>3, AfterStates DEF HandshakeStep
<1> QED
  BY <1>2, <1>3 DEF HandshakeJob, HandshakeEvent, HandshakeWaits

LEMMA ConnectionSendWhole ==
  ASSUME All, TypeInv, UpWhole, DownWhole, conn.state = "up",
         NEW c, ConnType(c), c.state = "up", c.busy = conn.busy, c.done = conn.done,
         NEW base, ConnectionSend(c, base), UNCHANGED <<input, app>>
  PROVE  UpWhole' /\ DownWhole'
<1>1. CASE server.reset /\ UNCHANGED server
  BY <1>1 DEF UpWhole, UpCalm, DownWhole, DownCalm
<1>2. ASSUME NEW k \in 1..c.busy,
             server' = [server EXCEPT !.got = @ \o SubSeq(client.buf, 1, k)],
             conn' = [c EXCEPT !.busy = 0, !.done = k], UNCHANGED <<client, pcb, short>>
      PROVE  UpWhole' /\ DownWhole'
  <2> DEFINE buf == client.buf
             got == server.got
             front == SubSeq(buf, 1, k)
  <2>1. buf \in Seq(1..MaxUp) /\ got \in Seq(1..MaxUp) /\ c.busy \in Nat /\ c.busy <= Len(buf)
    BY DEF TypeInv, Structures, ClientType, ServerType, All, IInv, Shapes, ConnOK
  <2>2. k \in Nat /\ Len(buf) \in Nat /\ Len(got) \in Nat /\ conn.done = 0
    <3>1. k \in Nat /\ c.busy > 0 /\ Len(buf) \in Nat /\ Len(got) \in Nat
      BY <2>1
    <3>2. conn.done \in Nat /\ (conn.done > 0 => conn.busy = 0)
      BY Numbers DEF All, PipeInv, JobsFit
    <3> QED
      BY <3>1, <3>2
  <2>3. k <= Len(buf)
    BY <2>1, <2>2
  <2>4. /\ conn'.state = "up" /\ conn'.done = k /\ server'.got = got \o front
        /\ server'.reset = server.reset /\ server'.fin = server.fin /\ server'.sent = server.sent
    BY <1>2 DEF ConnType, TypeInv, ServerType
  <2> HIDE DEF buf, got
  <2>5. front \in Seq(1..MaxUp) /\ Len(front) = k
    <3> DEFINE bytes == 1..MaxUp
    <3>1. buf \in Seq(bytes)
      BY <2>1
    <3> HIDE DEF bytes
    <3>2. SubSeq(buf, 1, k) \in Seq(bytes) /\ Len(SubSeq(buf, 1, k)) = k
      BY <2>2, <2>3, <3>1, FrontType
    <3> QED
      BY <3>2 DEF bytes
  <2> HIDE DEF front
  <2>6. Len(got \o front) = Len(got) + k
    BY <2>1, <2>5
  <2>7. \A x, y, z \in Nat : (x + y) - y + z = x - 0 + z
    OBVIOUS
  <2>8. UpLeft(client', conn', server') = UpLeft(client, conn, server)
    <3>1. UpLeft(client', conn', server') = (Len(got) + k) - k + Len(buf)
      BY <1>2, <2>4, <2>6 DEF UpLeft, buf
    <3>2. UpLeft(client, conn, server) = Len(got) - 0 + Len(buf)
      BY <2>2 DEF UpLeft, buf, got
    <3> QED
      BY <2>2, <2>7, <3>1, <3>2
  <2>9. ~Off(conn) /\ ~Off(conn') /\ client.life # "none"
    BY <2>4, ClientThere DEF Off
  <2> QED
    BY <1>2, <2>4, <2>8, <2>9, SameWhole
<1> QED
  BY <1>1, <1>2 DEF ConnectionSend

(* The server ended and everything it sent was read: the application has   *)
(* it all, or lwIP, or half a client waits for it.                         *)
LEMMA EndOfStream ==
  ASSUME All, TypeInv, UpWhole, DownWhole, conn.state = "up", Open(client) => conn.data = <<>>,
         server.fin, Unread = 0, FreeSocks(client, pcb), UNCHANGED <<app, server>>
  PROVE  UpWhole' /\ DownWhole'
<1>1. UpWhole'
  BY DEF UpWhole, UpCalm
<1>2. client.life # "none" /\ DOMAIN client = ClientFields
  BY ClientThere DEF All, IInv, Shapes, ClientOK
<1>3. CASE client.clientClosed /\ Dealloc(client) /\ UNCHANGED <<pcb, short>>
  <2>1. ~Open(client) /\ ~Open(client')
    BY <1>2, <1>3, DeallocFits DEF All, IInv, Shapes, ClientOK, Open
  <2>2. DownWhole'
    BY <1>2, <1>3, <2>1 DEF DownWhole, DownCalm, InQueue
  <2> QED
    BY <1>1, <2>2
<1>4. ASSUME ~client.clientClosed
      PROVE  /\ Open(client) /\ client.socksUp /\ ~Off(conn)
             /\ InQueue(app, pcb) + Len(client.rest) = server.sent
  <2>1. Open(client) /\ client.socksUp /\ ~Off(conn)
    BY <1>4 DEF All, PipeInv, ClientFits, HandlersInv, Handled, SocksFits, Off
  <2> DEFINE n == Len(app.got) + Len(pcb.queue) + Len(client.rest)
  <2>2. n + Len(conn.data) = server.read
    BY <2>1 DEF All, PipeInv, DownFits
  <2>3. n \in Nat /\ server.read = server.sent
    <3>1. server.sent - server.read = 0
      BY DEF Unread
    <3>2. \A x, y \in Nat : x - y = 0 => y = x
      OBVIOUS
    <3>3. n \in Nat
      <4>1. Len(app.got) \in Nat /\ Len(pcb.queue) \in Nat /\ Len(client.rest) \in Nat
        BY Numbers
      <4>2. \A x, y, z \in Nat : x + y + z \in Nat
        OBVIOUS
      <4> QED
        BY <4>1, <4>2
    <3>4. server.sent \in Nat /\ server.read \in Nat
      BY Numbers
    <3> QED
      BY <3>1, <3>2, <3>3, <3>4
  <2>4. Len(conn.data) = 0
    BY <2>1
  <2> HIDE DEF n
  <2>5. n = server.sent
    BY <2>2, <2>3, <2>4
  <2> QED
    BY <2>1, <2>5 DEF n, InQueue
<1>5. CASE /\ ~client.clientClosed /\ pcb' = pcb
           /\ client' = [client EXCEPT !.socksClosed = TRUE, !.callbacks = @ \ {"recv"}]
  <2>1. client'.rest = client.rest /\ client'.callbacks = client.callbacks \ {"recv"}
    BY <1>2, <1>5 DEF ClientFields
  <2>2. Open(client')
    BY <1>4, <1>5, <2>1 DEF Open
  <2> QED
    BY <1>1, <1>4, <1>5, <2>1, <2>2 DEF DownWhole, InQueue
<1>6. CASE ~client.clientClosed /\ ~OwesClient(client) /\ Dealloc(client) /\ ClosePcb(pcb)
  <2>1. client.rest = <<>> /\ client.pending = 0
    BY <1>4, <1>6, Numbers DEF OwesClient
  <2>2. Len(pcb.queue) = 0
    <3>1. Len(pcb.queue) + input.acked = 0
      BY <1>4, <1>6, <2>1 DEF All, HandlersInv, Handled, PendingFits
    <3> QED
      BY <3>1, Numbers
  <2>3. Len(pcb'.queue) = 0
    <3>1. pcb'.queue \in {<<>>, pcb.queue}
      BY <1>6, ClosePcbEnds DEF All, IInv, Shapes
    <3> QED
      BY <2>2, <3>1
  <2>4. Len(app.got) = server.sent
    <3>1. Len(client.rest) = 0
      BY <2>1
    <3> QED
      BY <1>4, <1>6, <2>2, <3>1, Numbers DEF InQueue
  <2>5. InQueue(app', pcb') = server'.sent
    BY <2>3, <2>4, Numbers DEF InQueue
  <2>6. ~Open(client')
    BY <1>2, <1>6, DeallocFits DEF Open
  <2> QED
    BY <1>1, <2>5, <2>6 DEF DownWhole
<1> QED
  BY <1>3, <1>5, <1>6 DEF FreeSocks

LEMMA ConnectionRecvWhole ==
  ASSUME All, TypeInv, UpWhole, DownWhole, conn.state = "up", Open(client) => conn.data = <<>>,
         NEW c, ConnType(c), c.state = "up", c.done = conn.done,
         NEW base, ConnectionRecv(c, base), UNCHANGED <<input, app>>
  PROVE  UpWhole' /\ DownWhole'
<1>1. CASE server.reset /\ UNCHANGED server
  BY <1>1 DEF UpWhole, UpCalm, DownWhole, DownCalm
<1>2. CASE server.fin /\ Unread = 0 /\ FreeSocks(client, pcb) /\ UNCHANGED server
  BY <1>2, EndOfStream
<1>3. ASSUME NEW data, NEW read, conn' = [c EXCEPT !.data = data],
             server' = [server EXCEPT !.read = read], UNCHANGED <<client, pcb, short>>
      PROVE  UpWhole' /\ DownWhole'
  <2>1. /\ conn'.state = "up" /\ conn'.done = conn.done /\ server'.got = server.got
        /\ server'.reset = server.reset /\ server'.fin = server.fin /\ server'.sent = server.sent
    BY <1>3 DEF ConnType, TypeInv, ServerType
  <2>2. UpLeft(client', conn', server') = UpLeft(client, conn, server)
    BY <1>3, <2>1 DEF UpLeft
  <2>3. ~Off(conn) /\ ~Off(conn') /\ client.life # "none"
    BY <2>1, ClientThere DEF Off
  <2> QED
    BY <1>3, <2>1, <2>2, <2>3, SameWhole
<1> QED
  BY <1>1, <1>2, <1>3 DEF ConnectionRecv

LEMMA SocketWhole ==
  All /\ TypeInv /\ UpWhole /\ DownWhole /\ (SendJob \/ RecvJob \/ FdEvent) => UpWhole' /\ DownWhole'
<1> SUFFICES ASSUME All, TypeInv, UpWhole, DownWhole, SendJob \/ RecvJob \/ FdEvent
             PROVE  UpWhole' /\ DownWhole'
  OBVIOUS
<1>1. UNCHANGED <<input, app>> /\ ConnType(conn)
  BY DEF SendJob, RecvJob, FdEvent, TypeInv, Structures
<1>2. conn.state = "up" /\ client.life # "none"
  <2>1. CASE SendJob \/ RecvJob
    <3>1. JobsOK(jobs) /\ jobs # <<>> /\ Head(jobs) \in {"send", "recv"} /\ Head(jobs) \in Jobs(jobs)
      BY <2>1, TopJob, JobsPop DEF SendJob, RecvJob, Top, All
    <3> QED
      BY <3>1, ClientThere DEF All, PipeInv, JobsFit, Off
  <2>2. CASE FdEvent
    BY <2>2, ClientThere DEF FdEvent
  <2> QED
    BY <2>1, <2>2
<1>3. ASSUME NEW k, ConnType(k), k.state = "up", k.done = conn.done, conn' = k,
             UNCHANGED <<client, pcb, short, server>>
      PROVE  UpWhole' /\ DownWhole'
  BY <1>1, <1>2, <1>3, SameWhole DEF UpLeft, Off
<1>4. CASE SendJob
  <2>1. /\ ConnType([conn EXCEPT !.sendWait = TRUE]) /\ [conn EXCEPT !.sendWait = TRUE].state = "up"
        /\ [conn EXCEPT !.sendWait = TRUE].done = conn.done
    BY <1>1, <1>2 DEF ConnType
  <2> QED
    BY <1>1, <1>2, <1>3, <1>4, <2>1, ConnectionSendWhole DEF SendJob
<1>5. CASE RecvJob
  <2>1. /\ ConnType([conn EXCEPT !.recvWait = TRUE]) /\ [conn EXCEPT !.recvWait = TRUE].state = "up"
        /\ [conn EXCEPT !.recvWait = TRUE].done = conn.done
    BY <1>1, <1>2 DEF ConnType
  <2>2. Open(client) => conn.data = <<>>
    <3>1. "recvDone" \notin Jobs(jobs)
      <4>1. /\ JobsOK(jobs) /\ jobs # <<>> /\ Head(jobs) = "recv"
            /\ Jobs(jobs) = {Head(jobs)} \cup Jobs(Tail(jobs)) /\ OneRead(jobs)
        BY <1>5, TopJob, JobsPop DEF RecvJob, Top, All, PipeInv, JobsFit
      <4>2. OneOf(jobs, Reading)
        BY <4>1 DEF OneRead, OneOf
      <4>3. NoneOf(Tail(jobs), Reading)
        BY <4>1, <4>2, OneOfPop DEF Reading
      <4> QED
        BY <4>1, <4>3 DEF NoneOf, Reading
    <3> QED
      BY <3>1 DEF All, PipeInv, RestFits
  <2> QED
    BY <1>1, <1>2, <1>3, <1>5, <2>1, <2>2, ConnectionRecvWhole DEF RecvJob
<1>6. CASE FdEvent
  <2>1. PICK write, read, hup \in BOOLEAN :
          /\ write => conn.sendWait
          /\ read => conn.recvWait /\ Readable
          /\ hup = server.reset
          /\ LET send == conn.sendWait /\ (write \/ hup)
                 recv == conn.recvWait /\ (read \/ hup)
                 c == [conn EXCEPT !.hup = hup, !.sendWait = @ /\ ~send, !.recvWait = @ /\ ~recv]
             IN \/ send /\ ConnectionSend(c, If(recv, "recv"))
                \/ recv /\ ~send /\ ConnectionRecv(c, <<>>)
                \/ /\ hup /\ ~send /\ ~recv
                   /\ conn' = c /\ UNCHANGED <<client, pcb, jobs, short, server>>
    BY <1>6, Zenon DEF FdEvent
  <2> DEFINE send == conn.sendWait /\ (write \/ hup)
             recv == conn.recvWait /\ (read \/ hup)
             c == [conn EXCEPT !.hup = hup, !.sendWait = @ /\ ~send, !.recvWait = @ /\ ~recv]
  <2>2. ConnType(c) /\ c.busy = conn.busy /\ c.done = conn.done /\ c.state = "up"
    BY <1>1, <1>2 DEF ConnType
  <2>3. \/ \E base : ConnectionSend(c, base)
        \/ \E base : ConnectionRecv(c, base)
        \/ conn' = c /\ UNCHANGED <<client, pcb, short, server>>
    BY <2>1
  <2>4. Open(client) => conn.data = <<>>
    <3>1. jobs = <<>>
      BY <1>6 DEF FdEvent, Idle
    <3>2. "recvDone" \notin Jobs(jobs)
      BY <3>1, JobsNone
    <3> QED
      BY <3>2 DEF All, PipeInv, RestFits
  <2> HIDE DEF c
  <2> QED
    BY <1>1, <1>2, <1>3, <2>2, <2>3, <2>4, ConnectionSendWhole, ConnectionRecvWhole
<1> QED
  BY <1>4, <1>5, <1>6

LEMMA SendDoneWhole ==
  All /\ TypeInv /\ UpWhole /\ DownWhole /\ SendDone => UpWhole' /\ DownWhole'
<1> SUFFICES ASSUME All, TypeInv, UpWhole, DownWhole, SendDone PROVE UpWhole' /\ DownWhole'
  OBVIOUS
<1> DEFINE c == [client EXCEPT !.buf = Unsent(client)]
           p == Confirm(c, pcb)
           buf == client.buf
           left == Drop(buf, conn.done)
<1>1. /\ buf \in Seq(1..MaxUp) /\ conn.done \in Nat /\ conn.done <= Len(buf)
      /\ DOMAIN client = ClientFields /\ UNCHANGED <<input, app, server>>
  BY DEF All, IInv, Shapes, ConnOK, ClientOK, TypeInv, Structures, ClientType, SendDone
<1>2. conn.state = "up" /\ client.life # "none"
  <2>1. JobsOK(jobs) /\ jobs # <<>> /\ Head(jobs) = "sendDone" /\ Head(jobs) \in Jobs(jobs)
    BY TopJob, JobsPop DEF SendDone, Top, All
  <2> QED
    BY <2>1, ClientThere DEF All, PipeInv, JobsFit, Off
<1>3. Len(left) = Len(buf) - conn.done /\ Len(buf) \in Nat /\ Len(server.got) \in Nat
  <2>1. \A S : \A s \in Seq(S) : \A n \in Nat : n <= Len(s) => Len(Drop(s, n)) = Len(s) - n
    BY DEF Drop
  <2> HIDE DEF buf
  <2> QED
    BY <1>1, <2>1, Numbers
<1>4. /\ c.buf = left /\ c.rest = client.rest /\ c.callbacks = client.callbacks
      /\ c.clientClosed = client.clientClosed /\ c.life = client.life /\ DOMAIN c = ClientFields
  BY <1>1 DEF Unsent, ClientFields
<1>5. p.queue = pcb.queue /\ p.state = pcb.state
  <2> HIDE DEF c
  <2> QED
    BY DEF Confirm, TypeInv, Structures, PcbType
<1>6. \/ c.buf = <<>> /\ c.clientClosed /\ FreeSocks(c, p)
      \/ /\ client' = c /\ pcb' = p /\ UNCHANGED short
         /\ conn' = [conn EXCEPT !.done = 0, !.busy = Len(c.buf)]
  BY DEF SendDone
<1> HIDE DEF c, p, left, buf
<1>7. CASE c.buf = <<>> /\ c.clientClosed /\ FreeSocks(c, p)
  <2>1. Dealloc(c) /\ FreeConn /\ UNCHANGED <<pcb, short>>
    BY <1>7 DEF FreeSocks
  <2>2. ~Open(client') /\ ~Open(client) /\ client'.life = "gone" /\ ~Off(conn) /\ Off(conn')
    BY <1>1, <1>2, <1>4, <1>7, <2>1, DeallocFits
       DEF All, IInv, Shapes, ClientOK, Open, FreeConn, NoConn, Off
  <2>3. UpWhole'
    <3> SUFFICES ASSUME UpCalm' PROVE Due(input) = 0 /\ Len(server.got) = app.sent
      BY <1>1, <2>2 DEF UpWhole
    <3>1. UpCalm
      BY <1>1, <1>2, <2>1 DEF UpCalm
    <3>2. Due(input) = 0 /\ UpLeft(client, conn, server) = app.sent
      BY <2>2, <3>1 DEF UpWhole
    <3>3. Len(buf) - conn.done = 0
      <4>1. Len(left) = 0
        BY <1>4, <1>7
      <4> QED
        BY <1>3, <4>1
    <3>4. Len(server.got) - conn.done + Len(buf) = app.sent
      BY <3>2 DEF UpLeft, buf
    <3> QED
      BY <1>1, <1>3, <3>2, <3>3, <3>4, Numbers
  <2>4. DownWhole'
    BY <1>1, <1>2, <2>1, <2>2 DEF DownWhole, DownCalm, InQueue
  <2> QED
    BY <2>3, <2>4
<1>8. CASE /\ client' = c /\ pcb' = p /\ UNCHANGED short
           /\ conn' = [conn EXCEPT !.done = 0, !.busy = Len(c.buf)]
  <2>1. conn'.state = "up" /\ conn'.done = 0
    BY <1>2, <1>8 DEF TypeInv, Structures, ConnType
  <2>2. UpLeft(client', conn', server') = UpLeft(client, conn, server)
    <3>1. UpLeft(client', conn', server') = Len(server.got) - 0 + (Len(buf) - conn.done)
      BY <1>1, <1>3, <1>4, <1>8, <2>1 DEF UpLeft
    <3>2. UpLeft(client, conn, server) = Len(server.got) - conn.done + Len(buf)
      BY DEF UpLeft, buf
    <3>3. \A x, y, z \in Nat : x - 0 + (z - y) = x - y + z
      OBVIOUS
    <3> QED
      BY <1>1, <1>3, <3>1, <3>2, <3>3
  <2> QED
    BY <1>1, <1>2, <1>4, <1>5, <1>8, <2>1, <2>2, SameWhole DEF Open, Off
<1> QED
  BY <1>6, <1>7, <1>8

LEMMA RecvDoneWhole ==
  All /\ TypeInv /\ UpWhole /\ DownWhole /\ RecvDone => UpWhole' /\ DownWhole'
<1> SUFFICES ASSUME All, TypeInv, UpWhole, DownWhole, RecvDone PROVE UpWhole' /\ DownWhole'
  OBVIOUS
<1> DEFINE c == [client EXCEPT !.rest = conn.data]
<1>1. /\ DOMAIN client = ClientFields /\ UNCHANGED <<input, app, server>>
  BY DEF All, IInv, Shapes, ClientOK, RecvDone
<1>2. conn.state = "up" /\ client.life # "none"
  <2>1. JobsOK(jobs) /\ jobs # <<>> /\ Head(jobs) = "recvDone" /\ Head(jobs) \in Jobs(jobs)
    BY TopJob, JobsPop DEF RecvDone, Top, All
  <2> QED
    BY <2>1, ClientThere DEF All, PipeInv, JobsFit, Off
<1>3. ASSUME conn' = [conn EXCEPT !.data = <<>>]
      PROVE  conn'.state = "up" /\ conn'.done = conn.done
  BY <1>2, <1>3 DEF TypeInv, Structures, ConnType
<1>4. CASE client.clientClosed
  <2>1. UNCHANGED <<client, pcb, short>> /\ conn' = [conn EXCEPT !.data = <<>>]
    BY <1>4 DEF RecvDone
  <2> QED
    BY <1>1, <1>2, <1>3, <2>1, SameWhole DEF UpLeft, Off
<1>5. CASE ~client.clientClosed
  <2>1. PICK n \in {0, Queueable(c, pcb)} :
          \/ /\ client' = Left(c, n) /\ pcb' = Queued(c, pcb, n) /\ UNCHANGED short
             /\ conn' = [conn EXCEPT !.data = <<>>]
          \/ AbortClient(Left(c, n), Queued(c, pcb, n), Tail(jobs))
    BY <1>5 DEF RecvDone, SendOut, Left, Queued
  <2>2. CASE AbortClient(Left(c, n), Queued(c, pcb, n), Tail(jobs))
    BY <2>2 DEF AbortClient, UpWhole, UpCalm, DownWhole, DownCalm
  <2>3. CASE /\ client' = Left(c, n) /\ UNCHANGED short
             /\ conn' = [conn EXCEPT !.data = <<>>]
    <3>1. client'.callbacks = client.callbacks /\ client'.life = client.life
      BY <1>1, <2>3 DEF Left, ClientFields
    <3>2. Open(client) /\ Open(client')
      BY <1>2, <1>5, <3>1 DEF All, PipeInv, ClientFits, Open
    <3>3. ~Off(conn')
      BY <1>3, <2>3 DEF Off
    <3>4. UpWhole'
      BY <1>1, <1>2, <2>3, <3>1, <3>2, <3>3 DEF UpWhole, UpCalm
    <3>5. DownWhole'
      BY <3>2, <3>3 DEF DownWhole
    <3> QED
      BY <3>4, <3>5
  <2> QED
    BY <2>1, <2>2, <2>3
<1> QED
  BY <1>4, <1>5

(* Bytes of the queue of lwIP that the application gets.                   *)
LEMMA QueueMoves ==
  ASSUME All, TypeInv, NEW n \in Nat, n <= Len(pcb.queue),
         app'.got = app.got \o SubSeq(pcb.queue, 1, n), pcb'.queue = Drop(pcb.queue, n)
  PROVE  InQueue(app', pcb') = InQueue(app, pcb)
<1> DEFINE got == app.got
           queue == pcb.queue
<1>1. Piece(got, 0) /\ Piece(queue, Len(got)) /\ Len(queue) \in Nat
  BY Numbers DEF All, PipeInv, DownFits
<1>2. app'.got = got \o SubSeq(queue, 1, n) /\ pcb'.queue = Drop(queue, n) /\ n <= Len(queue)
  OBVIOUS
<1> HIDE DEF got, queue
<1>3. Len(got \o SubSeq(queue, 1, n)) + Len(Drop(queue, n)) = Len(got) + Len(queue)
  <2>1. Len(queue) <= Len(queue)
    BY <1>1
  <2> QED
    BY <1>1, <1>2, <2>1, FrontMoves, ZenonT(30)
<1>4. InQueue(app', pcb') = Len(got \o SubSeq(queue, 1, n)) + Len(Drop(queue, n))
  BY <1>2 DEF InQueue
<1> QED
  BY <1>3, <1>4 DEF InQueue, got, queue

LEMMA SegmentWhole ==
  All /\ TypeInv /\ UpWhole /\ DownWhole /\ AppSegment => UpWhole' /\ DownWhole'
<1> SUFFICES ASSUME All, TypeInv, UpWhole, DownWhole, AppSegment PROVE UpWhole' /\ DownWhole'
  OBVIOUS
<1>1. PICK acked \in 0..Len(pcb.queue), data \in 0..(MaxUp - app.sent), fin \in BOOLEAN :
        TcpInput(acked, data, fin)
  BY DEF AppSegment
<1>2. /\ UNCHANGED <<client, conn, server, short>> /\ PcbLive
      /\ app'.got = app.got \o SubSeq(pcb.queue, 1, acked)
      /\ pcb'.queue = Drop(pcb.queue, acked) /\ app'.fin = (app.fin \/ fin)
  BY <1>1 DEF TcpInput
<1>3. Open(client) /\ client.life # "none" /\ pcb.state # "lost"
  BY <1>2, ClientThere DEF All, PipeInv, PcbLive
<1>4. acked \in Nat /\ acked <= Len(pcb.queue)
  BY <1>1, Numbers
<1>5. InQueue(app', pcb') = InQueue(app, pcb)
  BY <1>2, <1>4, QueueMoves
<1>6. UpWhole'
  BY <1>2, <1>3 DEF UpWhole, UpCalm
<1>7. app.fin => app'.fin
  BY <1>2
<1>8. DownWhole'
  BY <1>2, <1>3, <1>5, <1>7 DEF DownWhole, DownCalm
<1> QED
  BY <1>6, <1>8

(* The application is gone, while nothing waits in tcp_input.              *)
LEMMA ClientEnds ==
  ASSUME All, TypeInv, UpWhole, Open(client), Due(input) = 0, Due(input') = 0,
         HandleFreedClient(client, jobs), short => short', app'.sent = app.sent, UNCHANGED server
  PROVE  UpWhole'
<1>1. /\ client.life # "none" /\ DOMAIN client = ClientFields
  <2>1. PcbLive
    BY DEF All, PipeInv
  <2> QED
    BY <2>1, ClientThere DEF All, IInv, Shapes, ClientOK
<1> SUFFICES ASSUME UpCalm' PROVE UpWhole'
  BY DEF UpWhole
<1>2. UpCalm
  BY <1>1 DEF UpCalm
<1>3. "recv" \in client.callbacks /\ ~Off(conn) /\ ~client.socksClosed
  BY <1>2 DEF UpWhole, All, PipeInv, ClientFits, Off
<1>4. UpLeft(client, conn, server) = app.sent
  <2> DEFINE n == Len(server.got) - conn.done + Len(client.buf)
  <2>1. n + Due(input) = app.sent
    BY <1>3 DEF All, PipeInv, UpFits
  <2>2. n \in Int
    BY Numbers
  <2> HIDE DEF n
  <2>3. n = app.sent
    BY <2>1, <2>2
  <2> QED
    BY <2>3 DEF n, UpLeft
<1>5. CASE /\ client' = [client EXCEPT !.clientClosed = TRUE, !.callbacks = {}] /\ UNCHANGED conn
  <2>1. client'.callbacks = {} /\ client'.buf = client.buf
    BY <1>1, <1>5 DEF ClientFields
  <2>2. UpLeft(client', conn', server') = app'.sent
    BY <1>4, <1>5, <2>1 DEF UpLeft
  <2> QED
    BY <1>3, <1>5, <2>1, <2>2 DEF UpWhole, Open
<1>6. CASE client.buf = <<>> /\ Dealloc(client) /\ FreeConn
  <2>1. ~Open(client') /\ Off(conn')
    BY <1>1, <1>6, DeallocFits DEF Open, FreeConn, NoConn, Off
  <2>2. Len(server.got) = app.sent
    <3>1. conn.done = 0 /\ Len(client.buf) = 0
      <4>1. conn.done <= Len(client.buf) /\ Len(client.buf) = 0
        BY <1>6 DEF All, IInv, Shapes, ConnOK
      <4> QED
        BY <4>1, Numbers
    <3> QED
      BY <1>4, <3>1, Numbers DEF UpLeft
  <2> QED
    BY <2>1, <2>2 DEF UpWhole
<1> QED
  BY <1>3, <1>5, <1>6 DEF HandleFreedClient

LEMMA TcpSentWhole ==
  All /\ TypeInv /\ UpWhole /\ DownWhole /\ TcpSent => UpWhole' /\ DownWhole'
<1> SUFFICES ASSUME All, TypeInv, UpWhole, DownWhole, TcpSent PROVE UpWhole' /\ DownWhole'
  OBVIOUS
<1> DEFINE c == [client EXCEPT !.pending = @ - input.acked]
<1>1. /\ Open(client) /\ client.life # "none" /\ DOMAIN client = ClientFields /\ PcbOK(pcb)
      /\ UNCHANGED <<app, server>> /\ jobs = <<>>
  BY ClientThere DEF All, UseInv, StageFits, PipeInv, IInv, Shapes, ClientOK, TcpSent
<1>2. /\ c.callbacks = client.callbacks /\ c.life = client.life /\ c.rest = client.rest
      /\ c.buf = client.buf /\ c.socksClosed = client.socksClosed /\ DOMAIN c = ClientFields
      /\ c.pending = client.pending - input.acked
  BY <1>1 DEF ClientFields
<1>3. CASE UNCHANGED <<client, pcb, conn, short>>
  BY <1>1, <1>3 DEF UpWhole, UpCalm, DownWhole, DownCalm
<1>4. CASE ClientSent
  <2>1. \/ \E n \in {0, Queueable(c, pcb)} :
             \/ client' = Left(c, n) /\ pcb' = Queued(c, pcb, n) /\ UNCHANGED <<conn, short>>
             \/ AbortClient(Left(c, n), Queued(c, pcb, n), jobs)
        \/ OwesNothing(c) /\ FreeClient(c, pcb, jobs)
        \/ client' = c /\ UNCHANGED <<pcb, conn, short>>
    BY <1>4 DEF ClientSent, SendOut, Left, Queued
  <2> HIDE DEF c
  <2>2. CASE OwesNothing(c) /\ FreeClient(c, pcb, jobs)
    <3>1. client.socksClosed /\ Off(conn) /\ c.rest = <<>> /\ c.pending = 0
      BY <1>2, <2>2 DEF OwesNothing, All, PipeInv, ClientFits, Off
    <3>2. short => short'
      BY <2>2 DEF FreeClient, ClosePcb
    <3>3. UpWhole'
      BY <1>1, <3>1, <3>2 DEF UpWhole, UpCalm
    <3>4. Len(pcb.queue) = 0 /\ Len(pcb'.queue) = 0
      <4>1. client.pending - input.acked = 0 /\ client.pending = Len(pcb.queue) + input.acked
        BY <1>1, <1>2, <3>1 DEF All, HandlersInv, Handled, PendingFits
      <4>2. \A x, y \in Nat : x + y - y = 0 => x = 0
        OBVIOUS
      <4>3. Len(pcb.queue) = 0
        BY <4>1, <4>2, Numbers
      <4>4. pcb'.queue \in {<<>>, pcb.queue}
        BY <1>1, <2>2, ClosePcbEnds DEF FreeClient
      <4> QED
        BY <4>3, <4>4
    <3>5. ~Open(client')
      <4>1. Dealloc(c)
        BY <1>2, <2>2, <3>1 DEF FreeClient, HandleFreedClient
      <4> QED
        BY <1>2, <4>1, DeallocFits DEF Open
    <3>6. DownWhole'
      <4> SUFFICES ASSUME DownCalm' PROVE server.fin /\ InQueue(app, pcb') = server.sent
        BY <1>1, <3>5 DEF DownWhole
      <4>1. DownCalm
        BY <1>1, <3>2 DEF DownCalm, All, UseInv, StageFits, PcbLive, TcpSent
      <4>2. server.fin /\ InQueue(app, pcb) + Len(client.rest) = server.sent /\ Len(client.rest) = 0
        BY <1>1, <1>2, <3>1, <4>1 DEF DownWhole
      <4> QED
        BY <3>4, <4>2, Numbers DEF InQueue
    <3> QED
      BY <3>3, <3>6
  <2>3. CASE client' = c /\ UNCHANGED <<pcb, conn, short>>
    BY <1>1, <1>2, <2>3 DEF UpWhole, UpCalm, DownWhole, DownCalm, Open
  <2>4. ASSUME NEW n \in {0, Queueable(c, pcb)}, client' = Left(c, n), pcb' = Queued(c, pcb, n),
               UNCHANGED <<conn, short>>
        PROVE  UpWhole' /\ DownWhole'
    <3>1. /\ client'.callbacks = client.callbacks /\ client'.life = client.life
          /\ client'.rest = Drop(client.rest, n) /\ pcb'.state = pcb.state
          /\ pcb'.queue = pcb.queue \o SubSeq(client.rest, 1, n)
      BY <1>1, <1>2, <2>4 DEF Left, Queued, ClientFields, PcbOK
    <3>2. UpWhole'
      BY <1>1, <2>4, <3>1 DEF UpWhole, UpCalm, Open
    <3>3. InQueue(app', pcb') + Len(client'.rest) = InQueue(app, pcb) + Len(client.rest)
      <4> DEFINE rest == client.rest
                 queue == pcb.queue
                 front == SubSeq(rest, 1, n)
                 bytes == 1..MaxDown
      <4>1. rest \in Seq(bytes) /\ queue \in Seq(bytes) /\ Len(queue) <= SndBuf
        BY DEF TypeInv, Structures, ClientType, PcbType, All, PipeInv, DownFits
      <4>2. n \in {0, Lesser(Len(rest), SndBuf - Len(queue))}
        BY <1>2, <2>4 DEF Queueable
      <4>3. Len(rest) \in Nat /\ Len(queue) \in Nat /\ Len(app.got) \in Nat
        BY Numbers
      <4> HIDE DEF rest, queue, bytes
      <4>4. n \in Nat /\ n <= Len(rest)
        BY <4>1, <4>2, <4>3, Sizes DEF Lesser
      <4>5. front \in Seq(bytes) /\ Len(front) = n
        BY <4>1, <4>4, FrontType
      <4>6. Len(Drop(rest, n)) = Len(rest) - n
        BY <4>1, <4>4 DEF Drop
      <4> HIDE DEF front
      <4>7. Len(queue \o front) = Len(queue) + n
        BY <4>1, <4>5
      <4>8. InQueue(app', pcb') + Len(client'.rest) = Len(app.got) + (Len(queue) + n) + (Len(rest) - n)
        BY <1>1, <3>1, <4>6, <4>7 DEF InQueue, rest, queue, front
      <4>9. \A x, y, z, m \in Nat : x + (y + m) + (z - m) = x + y + z
        OBVIOUS
      <4>10. InQueue(app, pcb) + Len(client.rest) = Len(app.got) + Len(queue) + Len(rest)
        BY DEF InQueue, rest, queue
      <4> DEFINE x == Len(app.got)
                 y == Len(queue)
                 z == Len(rest)
      <4>11. x \in Nat /\ y \in Nat /\ z \in Nat
        BY <4>3
      <4> HIDE DEF x, y, z
      <4>12. x + (y + n) + (z - n) = x + y + z
        BY ONLY <4>4, <4>9, <4>11
      <4> QED
        BY <4>8, <4>10, <4>12 DEF x, y, z
    <3>4. DownWhole'
      BY <1>1, <2>4, <3>1, <3>3 DEF DownWhole, DownCalm, Open
    <3> QED
      BY <3>2, <3>4
  <2>5. ASSUME NEW n \in {0, Queueable(c, pcb)}, AbortClient(Left(c, n), Queued(c, pcb, n), jobs)
        PROVE  UpWhole' /\ DownWhole'
    BY <2>5 DEF AbortClient, UpWhole, UpCalm, DownWhole, DownCalm
  <2> QED
    BY <2>1, <2>2, <2>3, <2>4, <2>5
<1> QED
  BY <1>3, <1>4 DEF TcpSent

LEMMA TcpRecvWhole ==
  All /\ TypeInv /\ UpWhole /\ DownWhole /\ TcpRecv => UpWhole' /\ DownWhole'
<1> SUFFICES ASSUME All, TypeInv, UpWhole, DownWhole, TcpRecv PROVE UpWhole' /\ DownWhole'
  OBVIOUS
<1>1. /\ Open(client) /\ client.life # "none" /\ DOMAIN client = ClientFields
      /\ DOMAIN conn = ConnFields /\ UNCHANGED <<app, server, short>>
  BY ClientThere DEF All, UseInv, StageFits, PipeInv, IInv, Shapes, ClientOK, ConnOK, TcpRecv
<1>2. /\ client'.callbacks = client.callbacks /\ client'.life = client.life
      /\ client'.rest = client.rest /\ conn'.state = conn.state
  BY <1>1 DEF TcpRecv, ClientFields, ConnFields
<1>3. pcb'.queue = pcb.queue /\ pcb'.state = pcb.state
  BY DEF TcpRecv, TypeInv, Structures, PcbType
<1>4. UpWhole'
  BY <1>1, <1>2 DEF UpWhole, UpCalm, Open, Off
<1>5. DownWhole'
  BY <1>1, <1>2, <1>3 DEF DownWhole, DownCalm, InQueue, Open, Off
<1> QED
  BY <1>4, <1>5

LEMMA TcpFinWhole ==
  All /\ TypeInv /\ WholeInv /\ TcpFin => UpWhole' /\ DownWhole'
<1> SUFFICES ASSUME All, TypeInv, WholeInv, TcpFin PROVE UpWhole' /\ DownWhole'
  OBVIOUS
<1> DEFINE p == [pcb EXCEPT !.rcvWnd = Lesser(@ + 1, Wnd)]
<1>1. /\ Open(client) /\ client.life # "none" /\ UNCHANGED <<app, server>>
      /\ Due(input) = 0 /\ Due(input') = 0
  BY ClientThere DEF All, UseInv, StageFits, PipeInv, TcpFin, Due, NoInput
<1>2. p.queue = pcb.queue /\ p.state = pcb.state
  BY DEF TypeInv, Structures, PcbType
<1>3. \/ input.fin /\ FreeClient(client, p, jobs)
      \/ pcb' \in {pcb, p} /\ UNCHANGED <<client, conn, short>>
  BY DEF TcpFin
<1> HIDE DEF p
<1>4. CASE input.fin /\ FreeClient(client, p, jobs)
  <2>1. short => short'
    BY <1>4 DEF FreeClient, ClosePcb
  <2>2. UpWhole'
    BY <1>1, <1>4, <2>1, ClientEnds DEF FreeClient, WholeInv
  <2>3. app'.fin
    BY <1>1, <1>4 DEF WholeInv, FinFits
  <2> QED
    BY <2>2, <2>3 DEF DownWhole, DownCalm
<1>5. CASE pcb' \in {pcb, p} /\ UNCHANGED <<client, conn, short>>
  <2>1. UpWhole'
    BY <1>1, <1>5 DEF WholeInv, UpWhole, UpCalm
  <2>2. DownWhole'
    BY <1>1, <1>2, <1>5 DEF WholeInv, DownWhole, DownCalm, InQueue
  <2> QED
    BY <2>1, <2>2
<1> QED
  BY <1>3, <1>4, <1>5

LEMMA RestWhole ==
  /\ All /\ TypeInv /\ UpWhole /\ DownWhole
  /\ CommitReturns \/ PcbLost \/ ClosingInput \/ ServerSends \/ ServerEnds \/ UNCHANGED vars
  => UpWhole' /\ DownWhole'
<1> SUFFICES ASSUME All, TypeInv, UpWhole, DownWhole,
                    \/ CommitReturns \/ PcbLost \/ ClosingInput
                    \/ ServerSends \/ ServerEnds \/ UNCHANGED vars
             PROVE  UpWhole' /\ DownWhole'
  OBVIOUS
<1>1. CASE CommitReturns
  <2>1. UNCHANGED <<client, pcb, conn, app, server, short>> /\ client.life # "none"
    BY <1>1, ClientThere DEF CommitReturns, Top
  <2>2. Due(input) = 0 => Due(input') = 0
    <3>1. JobsOK(jobs) /\ jobs # <<>> /\ Head(jobs) = "mark"
          /\ DOMAIN input = {"stage", "acked", "data", "fin"}
      BY <1>1, TopJob DEF CommitReturns, Top, All, IInv, Shapes, InputOK
    <3>2. HasMark(jobs)
      BY <3>1 DEF JobsOK, HasMark
    <3>3. input.stage \in {"accept", "sentSync", "recvSync"}
      BY <3>2 DEF All, IInv, Shapes, InputOK
    <3>4. CASE client.clientClosed \/ input.stage = "accept"
      <4>1. input' = NoInput
        BY <1>1, <3>4 DEF CommitReturns, Killed, InputAborted
      <4> QED
        BY <4>1 DEF NoInput, Due
    <3>5. CASE ~client.clientClosed /\ input.stage = "sentSync"
      BY <1>1, <3>1, <3>5 DEF CommitReturns, Killed, InputGoesOn, Due
    <3>6. CASE ~client.clientClosed /\ input.stage = "recvSync"
      BY <1>1, <3>1, <3>6 DEF CommitReturns, Killed, Due
    <3> QED
      BY <3>3, <3>4, <3>5, <3>6
  <2>3. UpWhole'
    BY <2>1, <2>2 DEF UpWhole, UpCalm
  <2>4. DownWhole'
    BY <2>1 DEF DownWhole, DownCalm
  <2> QED
    BY <2>3, <2>4
<1>2. CASE PcbLost
  <2>1. /\ PcbLive /\ input.stage = "idle" /\ UNCHANGED <<input, app, server, short>>
        /\ Open(client) /\ Due(input) = 0 /\ HandleFreedClient(client, jobs)
    BY <1>2 DEF PcbLost, Idle, All, PipeInv, Open, Due
  <2>2. UpWhole'
    BY <2>1, ClientEnds
  <2>3. pcb'.state = "lost"
    BY <1>2 DEF PcbLost, TypeInv, Structures, PcbType
  <2> QED
    BY <2>2, <2>3 DEF DownWhole, DownCalm
<1>3. CASE ClosingInput
  <2>1. UNCHANGED <<client, conn, input, server, short>> /\ pcb.state = "closing"
    BY <1>3 DEF ClosingInput
  <2>2. ~Open(client) /\ client.life # "none"
    BY <2>1 DEF All, PipeInv, PcbLive, IInv, Fresh
  <2>3. CASE pcb' = [pcb EXCEPT !.state = "lost", !.queue = <<>>] /\ UNCHANGED app
    <3>1. pcb'.state = "lost"
      BY <2>3 DEF TypeInv, Structures, PcbType
    <3> QED
      BY <2>1, <2>3, <3>1 DEF UpWhole, UpCalm, DownWhole, DownCalm
  <2>4. ASSUME NEW n \in 1..Len(pcb.queue), app' = [app EXCEPT !.got = @ \o SubSeq(pcb.queue, 1, n)],
               pcb' = [pcb EXCEPT !.queue = Drop(@, n)]
        PROVE  UpWhole' /\ DownWhole'
    <3>1. /\ app'.got = app.got \o SubSeq(pcb.queue, 1, n) /\ app'.sent = app.sent
          /\ app'.fin = app.fin /\ pcb'.queue = Drop(pcb.queue, n) /\ pcb'.state = pcb.state
      BY <2>4 DEF TypeInv, AppType, Structures, PcbType
    <3>2. n \in Nat /\ n <= Len(pcb.queue)
      BY Numbers
    <3>3. InQueue(app', pcb') = InQueue(app, pcb)
      BY <3>1, <3>2, QueueMoves
    <3>4. UpWhole'
      BY <2>1, <3>1 DEF UpWhole, UpCalm
    <3>5. DownWhole'
      BY <2>1, <2>2, <3>1, <3>3 DEF DownWhole, DownCalm
    <3> QED
      BY <3>4, <3>5
  <2> QED
    BY <1>3, <2>3, <2>4 DEF ClosingInput
<1>4. CASE ServerSends
  <2>1. UNCHANGED <<client, pcb, conn, input, app, short>> /\ conn.state = "up" /\ ~server.fin
    BY <1>4 DEF ServerSends
  <2>2. server'.got = server.got /\ server'.fin = server.fin /\ server'.reset = server.reset
    BY <1>4 DEF ServerSends, TypeInv, ServerType
  <2>3. UpWhole'
    BY <2>1, <2>2 DEF UpWhole, UpCalm, UpLeft
  <2>4. DownWhole'
    BY <2>1, <2>2 DEF DownWhole, DownCalm, Off
  <2> QED
    BY <2>3, <2>4
<1>5. CASE ServerEnds
  <2>1. UNCHANGED <<client, pcb, conn, input, app, short>>
    BY <1>5 DEF ServerEnds
  <2>2. CASE server' = [server EXCEPT !.reset = TRUE]
    <3>1. server'.reset
      BY <2>2 DEF TypeInv, ServerType
    <3> QED
      BY <3>1 DEF UpWhole, UpCalm, DownWhole, DownCalm
  <2>3. CASE server' = [server EXCEPT !.fin = TRUE]
    <3>1. server'.fin /\ server'.sent = server.sent /\ server'.reset = server.reset
      BY <2>3 DEF TypeInv, ServerType
    <3>2. UpWhole'
      BY <3>1 DEF UpWhole, UpCalm
    <3>3. DownWhole'
      BY <2>1, <3>1 DEF DownWhole, DownCalm
    <3> QED
      BY <3>2, <3>3
  <2> QED
    BY <1>5, <2>2, <2>3 DEF ServerEnds
<1>6. CASE UNCHANGED vars
  BY <1>6 DEF vars, UpWhole, UpCalm, DownWhole, DownCalm
<1> QED
  BY <1>1, <1>2, <1>3, <1>4, <1>5, <1>6

LEMMA NextWhole == HeldInv /\ WholeInv /\ [Next]_vars => WholeInv'
<1> SUFFICES ASSUME HeldInv, WholeInv, [Next]_vars PROVE WholeInv'
  OBVIOUS
<1>1. All /\ TypeInv /\ UpWhole /\ DownWhole /\ FinFits
  BY DEF HeldInv, WholeInv
<1>2. UpWhole' /\ DownWhole'
  BY <1>1, AcceptWhole, HandshakeWhole, SocketWhole, SendDoneWhole, RecvDoneWhole, SegmentWhole,
     TcpSentWhole, TcpRecvWhole, TcpFinWhole, RestWhole
     DEF Next, RunJob, RunInput
<1>3. FinFits'
  BY <1>1, FinNext
<1> QED
  BY <1>2, <1>3 DEF WholeInv

(* What was delivered in full is the stream that was sent.                 *)
LEMMA WholeStream ==
  ASSUME NEW s, Piece(s, 0), NEW n, Len(s) = n
  PROVE  s = Bytes(0, n)
<1>1. Len(s) \in Nat /\ n \in Nat /\ s \in Seq(Int)
  BY PieceLen
<1>2. s = [i \in 1..n |-> s[i]] /\ \A i \in 1..n : s[i] = 0 + i
  BY <1>1 DEF Piece
<1>3. Bytes(0, n) = [i \in 1..n |-> 0 + i]
  <2>1. n - 0 = n
    BY <1>1
  <2> QED
    BY <2>1 DEF Bytes
<1> QED
  BY <1>2, <1>3

LEMMA WholeHolds == HeldInv /\ WholeInv => NothingCutOff
<1> SUFFICES ASSUME HeldInv, WholeInv, client.life = "gone", ~server.reset, ~short
             PROVE  /\ server.fin /\ ~app.fin /\ pcb.state # "lost" =>
                         app.got \o pcb.queue = Bytes(0, server.sent)
                    /\ ~server.fin => server.got = Bytes(0, app.sent)
  BY DEF NothingCutOff
<1>1. ~Open(client) /\ Off(conn)
  BY DEF HeldInv, All, UseInv, GoneFits
<1>2. ASSUME ~app.fin, pcb.state # "lost" PROVE app.got \o pcb.queue = Bytes(0, server.sent)
  <2> DEFINE got == app.got
             queue == pcb.queue
  <2>1. Len(got) + Len(queue) = server.sent
    BY <1>1, <1>2 DEF WholeInv, DownWhole, DownCalm, InQueue
  <2>2. Piece(got, 0) /\ Piece(queue, 0 + Len(got)) /\ 0 \in Int
    <3>1. Piece(got, 0) /\ Piece(queue, Len(got)) /\ Len(got) \in Nat
      BY Numbers DEF HeldInv, All, PipeInv, DownFits
    <3> QED
      BY <3>1
  <2> HIDE DEF got, queue
  <2>3. Piece(got \o queue, 0) /\ Len(got \o queue) = Len(got) + Len(queue)
    BY <2>2, PieceConcat
  <2>4. got \o queue = Bytes(0, server.sent)
    BY <2>1, <2>3, WholeStream
  <2> QED
    BY <2>4 DEF got, queue
<1>3. ASSUME ~server.fin PROVE server.got = Bytes(0, app.sent)
  <2>1. Len(server.got) = app.sent
    BY <1>1, <1>3 DEF WholeInv, UpWhole, UpCalm
  <2>2. Piece(server.got, 0)
    BY DEF HeldInv, All, PipeInv, UpFits
  <2> QED
    BY <2>1, <2>2, WholeStream
<1> QED
  BY <1>2, <1>3

LEMMA InitWhole == Init => WholeInv
BY DEF Init, NoInput, WholeInv, UpWhole, UpCalm, DownWhole, DownCalm, FinFits

(* When a connection is over that no side broke and memory did not run     *)
(* out, each side has got all the other sent: what client_handle_freed_    *)
(* client and client_free_socks keep half a client for, what               *)
(* client_sent_func, client_socks_send_handler_done and the end of the     *)
(* stream in connection_recv wait for.                                     *)
THEOREM SpecNothingCutOff == Spec => []NothingCutOff
BY InitHeld, NextHeld, InitWhole, NextWhole, WholeHolds, PTL DEF Spec

=============================================================================
