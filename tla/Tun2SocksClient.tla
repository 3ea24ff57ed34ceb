--------------------------- MODULE Tun2SocksClient ---------------------------
(***************************************************************************)
(* One TCP connection through tun2socks: the client structure of           *)
(* tun2socks.c between the TCP stack of lwIP, which serves an application  *)
(* behind the tunnel, and a BSocksClient, which is connected to ss-local.  *)
(*                                                                         *)
(* There is one thread.  Its reactor works off the jobs on its stack, the  *)
(* last one pushed first, and takes the next event (a packet from the      *)
(* tunnel, a timer, a file descriptor) when there is none.  A packet is    *)
(* one call of tcp_input, which calls client_sent_func and                 *)
(* client_recv_func; where these start something they push a mark and run  *)
(* the jobs above it (SYNC_COMMIT) before they return to lwIP, and those   *)
(* jobs can free the client, or the PCB that tcp_input is working on.      *)
(*                                                                         *)
(* The bytes of a stream are their numbers.  socks_recv_buf_used and       *)
(* _buf_sent are one sequence, rest, of what is not yet queued to lwIP;    *)
(* used = -1 is rest = <<>>.  socks_recv_waiting, which only assertions    *)
(* read, is rest # <<>>.                                                   *)
(***************************************************************************)
EXTENDS Integers, Sequences

CONSTANTS
  Wnd,      (* TCP_WND, the receive window of lwIP and the size of buf     *)
  SndBuf,   (* TCP_SND_BUF                                                 *)
  RecvSize, (* CLIENT_SOCKS_RECV_BUF_SIZE                                  *)
  MaxUp,    (* bound: bytes the application sends                          *)
  MaxDown   (* bound: bytes the server sends                               *)

ASSUME SizesAssumption == {Wnd, SndBuf, RecvSize} \subseteq Nat \ {0}
ASSUME BoundsAssumption == {MaxUp, MaxDown} \subseteq Nat

VARIABLES
  client,   (* struct tcp_client                                           *)
  pcb,      (* its struct tcp_pcb                                          *)
  conn,     (* its BSocksClient with the BConnection in it                 *)
  jobs,     (* the stack of BPendingGroup, its top first                   *)
  input,    (* how far tcp_input is with the segment it works on           *)
  app,      (* the application at the other end of the PCB                 *)
  server,   (* ss-local, at the other end of the socket                    *)
  short     (* history: memory ran out                                     *)

vars == <<client, pcb, conn, jobs, input, app, server, short>>

Lesser(a, b) == IF a < b THEN a ELSE b
Drop(s, n) == SubSeq(s, n + 1, Len(s))
Bytes(from, to) == [i \in 1..(to - from) |-> from + i]
If(condition, job) == IF condition THEN <<job>> ELSE <<>>

(* The states of BSocksClient and the ones each can be followed by.        *)
After ==
  [connecting     |-> {"sendingHello"},    sendingHello    |-> {"sentHello"},
   sentHello      |-> {"sendingPassword", "sendingRequest"},
   sendingPassword |-> {"sentPassword"},   sentPassword    |-> {"sendingRequest"},
   sendingRequest |-> {"sentRequest"},     sentRequest     |-> {"receivedHeader"},
   receivedHeader |-> {"up"}]

InHandshake == conn.state \in DOMAIN After
PcbLive == pcb.state \in {"established", "closeWait"}
Idle == jobs = <<>> /\ input.stage = "idle"
Top(job) == jobs # <<>> /\ Head(jobs) = job

NoInput == [stage |-> "idle", acked |-> 0, data |-> 0, fin |-> FALSE]
NoConn == [state |-> "none", busy |-> 0, sendWait |-> FALSE, done |-> 0,
           recvWait |-> FALSE, data |-> <<>>, hup |-> FALSE]

Init ==
  /\ client = [life |-> "none", clientClosed |-> FALSE, socksClosed |-> FALSE, socksUp |-> FALSE,
               buf |-> <<>>, rest |-> <<>>, pending |-> 0, callbacks |-> {}]
  /\ pcb = [state |-> "none", rcvWnd |-> Wnd, queue |-> <<>>]
  /\ conn = NoConn
  /\ jobs = <<>> /\ input = NoInput
  /\ app = [sent |-> 0, fin |-> FALSE, got |-> <<>>]
  /\ server = [sent |-> 0, fin |-> FALSE, reset |-> FALSE, read |-> 0, got |-> <<>>]
  /\ short = FALSE

-----------------------------------------------------------------------------
(* The end of a client.  The operators take the structures as the caller   *)
(* has left them.                                                          *)

(* client_dealloc: nothing refers to the structure any more.               *)
Dealloc(c) ==
  client' = [c EXCEPT !.life = "gone", !.clientClosed = TRUE, !.socksClosed = TRUE,
                      !.callbacks = {}]

(* BSocksClient_Free closes the socket and removes the jobs of its         *)
(* interfaces, which leaves the mark, if there is one.                     *)
FreeConn ==
  /\ conn' = [NoConn EXCEPT !.state = "freed"]
  /\ jobs' = If(\E i \in DOMAIN jobs : jobs[i] = "mark", "mark")

(* tcp_close: a PCB with data that tcp_recved() was not told of is reset   *)
(* and what is queued is dropped; otherwise a FIN is queued.  Without      *)
(* memory for it the caller aborts.                                        *)
ClosePcb(p) ==
  IF p.rcvWnd # Wnd
    THEN pcb' = [p EXCEPT !.state = "reset", !.queue = <<>>] /\ UNCHANGED short
    ELSE \/ pcb' = [p EXCEPT !.state = "closing"] /\ UNCHANGED short
         \/ pcb' = [p EXCEPT !.state = "reset", !.queue = <<>>] /\ short' = TRUE

(* client_handle_freed_client: what is buffered for SOCKS is still sent.   *)
(* The jobs of SOCKS are left on the stack, base.                          *)
HandleFreedClient(c, base) ==
  CASE c.socksClosed -> Dealloc(c) /\ UNCHANGED conn /\ jobs' = base
    [] ~c.socksClosed /\ c.buf # <<>> ->
         /\ client' = [c EXCEPT !.clientClosed = TRUE, !.callbacks = {}]
         /\ UNCHANGED conn /\ jobs' = base
    [] OTHER -> Dealloc(c) /\ FreeConn

(* client_free_client and client_abort_client.                             *)
FreeClient(c, p, base) == ClosePcb(p) /\ HandleFreedClient(c, base)
AbortClient(c, p, base) ==
  /\ pcb' = [p EXCEPT !.state = "reset", !.queue = <<>>]
  /\ short' = TRUE
  /\ HandleFreedClient(c, base)

(* Mutation: what lwIP has not yet got acknowledged is not waited for.     *)
OwesClientQueuedOnly(c) == c.socksUp /\ c.rest # <<>>

(* What client_free_socks waits for: data to be queued or acknowledged.    *)
OwesClient(c) == c.socksUp /\ (c.rest # <<>> \/ c.pending > 0)

(* client_free_socks: what is buffered for the application is still sent.  *)
FreeSocks(c, p) ==
  /\ FreeConn
  /\ CASE c.clientClosed -> Dealloc(c) /\ UNCHANGED <<pcb, short>>
       [] ~c.clientClosed /\ OwesClient(c) ->
            /\ client' = [c EXCEPT !.socksClosed = TRUE, !.callbacks = @ \ {"recv"}]
            /\ pcb' = p /\ UNCHANGED short
       [] OTHER -> Dealloc(c) /\ ClosePcb(p)

-----------------------------------------------------------------------------
(* A new connection of the tunnel.                                         *)

(* listener_accept_func without memory: lwIP aborts the connection.        *)
AcceptFails ==
  /\ client' = [client EXCEPT !.life = "gone"]
  /\ pcb' = [pcb EXCEPT !.state = "reset"]
  /\ short' = TRUE
  /\ UNCHANGED <<conn, jobs, input>>

(* listener_accept_func: connecting to ss-local may end at once, in a job  *)
(* that runs before it returns.                                            *)
AcceptClient ==
  /\ client' = [client EXCEPT !.life = "live", !.callbacks = {"err", "recv"}]
  /\ pcb' = [pcb EXCEPT !.state = "established"]
  /\ conn' = [conn EXCEPT !.state = "connecting"]
  /\ \E atOnce \in BOOLEAN : jobs' = If(atOnce, "handshake") \o <<"mark">>
  /\ input' = [input EXCEPT !.stage = "accept"]
  /\ UNCHANGED short

Accept ==
  /\ Idle /\ client.life = "none"
  /\ AcceptFails \/ AcceptClient
  /\ UNCHANGED <<app, server>>

-----------------------------------------------------------------------------
(* BSocksClient until the server has granted the connection.               *)

(* client_socks_handler, BSOCKSCLIENT_EVENT_UP: receiving is started last  *)
(* and runs first.                                                         *)
SocksUp(base) ==
  LET open == ~client.clientClosed IN
  /\ client' = [client EXCEPT !.socksUp = TRUE, !.callbacks = @ \cup (IF open THEN {"sent"} ELSE {})]
  /\ conn' = [conn EXCEPT !.state = "up", !.busy = Len(client.buf)]
  /\ jobs' = If(open, "recv") \o (If(client.buf # <<>>, "send") \o base)
  /\ UNCHANGED <<pcb, short, server>>

(* What ss-local answered wrongly counts as a connection it broke.         *)
HandshakeFails ==
  /\ FreeSocks(client, pcb)
  /\ server' = [server EXCEPT !.reset = TRUE]

HandshakeStep(base) ==
  \/ \E state \in After[conn.state] \ {"up"} :
       /\ conn' = [conn EXCEPT !.state = state]
       /\ jobs' = <<"handshake">> \o base
       /\ UNCHANGED <<client, pcb, short, server>>
  \/ "up" \in After[conn.state] /\ SocksUp(base)
  \/ HandshakeFails

HandshakeWaits ==
  /\ jobs' = Tail(jobs)
  /\ UNCHANGED <<client, pcb, conn, short, server>>

HandshakeJob ==
  /\ Top("handshake")
  /\ HandshakeStep(Tail(jobs)) \/ HandshakeWaits
  /\ UNCHANGED <<input, app>>

HandshakeEvent ==
  /\ Idle /\ InHandshake
  /\ HandshakeStep(<<>>)
  /\ UNCHANGED <<input, app>>

-----------------------------------------------------------------------------
(* BConnection.  c is the connection after the events were taken off it.   *)

(* connection_send, when write() does not ask to wait.                     *)
ConnectionSend(c, base) ==
  \/ /\ ~server.reset
     /\ \E k \in 1..c.busy :
          /\ server' = [server EXCEPT !.got = @ \o SubSeq(client.buf, 1, k)]
          /\ conn' = [c EXCEPT !.busy = 0, !.done = k]
     /\ jobs' = <<"sendDone">> \o base
     /\ UNCHANGED <<client, pcb, short>>
  \/ server.reset /\ FreeSocks(client, pcb) /\ UNCHANGED server

Unread == server.sent - server.read
Readable == Unread > 0 \/ server.fin \/ server.reset

(* connection_recv, when read() does not ask to wait: data, the end of the *)
(* stream or an error.                                                     *)
ConnectionRecv(c, base) ==
  \/ \E k \in 1..Lesser(Unread, RecvSize) :
       /\ conn' = [c EXCEPT !.data = Bytes(server.read, server.read + k)]
       /\ server' = [server EXCEPT !.read = @ + k]
       /\ jobs' = <<"recvDone">> \o base
       /\ UNCHANGED <<client, pcb, short>>
  \/ /\ server.reset \/ (server.fin /\ Unread = 0)
     /\ FreeSocks(client, pcb) /\ UNCHANGED server

(* The socket is asked at once; it is waited for when it is not ready or   *)
(* when the limit of the reactor is reached, unless it was hung up.        *)
SendJob ==
  /\ Top("send")
  /\ \/ ConnectionSend(conn, Tail(jobs))
     \/ /\ ~conn.hup /\ conn' = [conn EXCEPT !.sendWait = TRUE] /\ jobs' = Tail(jobs)
        /\ UNCHANGED <<client, pcb, short, server>>
  /\ UNCHANGED <<input, app>>

RecvJob ==
  /\ Top("recv")
  /\ \/ ConnectionRecv(conn, Tail(jobs))
     \/ /\ ~conn.hup /\ conn' = [conn EXCEPT !.recvWait = TRUE] /\ jobs' = Tail(jobs)
        /\ UNCHANGED <<client, pcb, short, server>>
  /\ UNCHANGED <<input, app>>

(* connection_fd_handler: sending comes first and leaves receiving to a    *)
(* job.  A reset wakes both and is not reported again.                     *)
FdEvent ==
  /\ Idle /\ conn.state = "up" /\ ~conn.hup
  /\ \E write, read, hup \in BOOLEAN :
       /\ write => conn.sendWait
       /\ read => conn.recvWait /\ Readable
       /\ hup = server.reset
       /\ LET send == conn.sendWait /\ (write \/ hup)
              recv == conn.recvWait /\ (read \/ hup)
              c == [conn EXCEPT !.hup = hup, !.sendWait = @ /\ ~send, !.recvWait = @ /\ ~recv]
          IN \/ send /\ ConnectionSend(c, If(recv, "recv"))
             \/ recv /\ ~send /\ ConnectionRecv(c, <<>>)
             \/ /\ hup /\ ~send /\ ~recv
                /\ conn' = c /\ UNCHANGED <<client, pcb, jobs, short, server>>
  /\ UNCHANGED <<input, app>>

(* Mutation: a short write counts as a whole one.                          *)
UnsentNone(c) == <<>>

(* What is left of buf when a write is done.                               *)
Unsent(c) == Drop(c.buf, conn.done)

(* Mutation: tcp_recved is called when the whole buffer has been sent.     *)
ConfirmWhenEmpty(c, p) ==
  IF c.clientClosed \/ c.buf # <<>> THEN p ELSE [p EXCEPT !.rcvWnd = @ + conn.done]

(* tcp_recved opens the window by what was sent on.                        *)
Confirm(c, p) == IF c.clientClosed THEN p ELSE [p EXCEPT !.rcvWnd = @ + conn.done]

(* client_socks_send_handler_done                                          *)
SendDone ==
  /\ Top("sendDone")
  /\ LET c == [client EXCEPT !.buf = Unsent(client)]
         p == Confirm(c, pcb)
     IN IF c.buf = <<>> /\ c.clientClosed
          THEN FreeSocks(c, p)
          ELSE /\ client' = c /\ pcb' = p /\ UNCHANGED short
               /\ conn' = [conn EXCEPT !.done = 0, !.busy = Len(c.buf)]
               /\ jobs' = If(c.buf # <<>>, "send") \o Tail(jobs)
  /\ UNCHANGED <<input, app, server>>

-----------------------------------------------------------------------------
(* From SOCKS to the application.                                          *)

(* Mutation: tcp_sndbuf is not asked.                                      *)
QueueableAll(c, p) == Len(c.rest)

(* What one tcp_write can take.                                            *)
Queueable(c, p) == Lesser(Len(c.rest), SndBuf - Len(p.queue))

(* client_socks_recv_send_out, then Continue if the PCB is not aborted.    *)
(* tcp_write takes what fits or, without memory or with too many segments  *)
(* queued, nothing.  tcp_output is put off while the PCB is in tcp_input.  *)
SendOut(c, p, base, Continue(_, _)) ==
  \E n \in {0, Queueable(c, p)} :
    LET queued == [p EXCEPT !.queue = @ \o SubSeq(c.rest, 1, n)]
        left == [c EXCEPT !.rest = Drop(@, n), !.pending = @ + n]
        stuck == left.rest # <<>> /\ left.pending = 0
    IN \/ ~stuck /\ Continue(left, queued)
       \/ /\ stuck \/ input.stage = "idle"
          /\ AbortClient(left, queued, base)

(* client_socks_recv_handler_done                                          *)
RecvDone ==
  LET c == [client EXCEPT !.rest = conn.data]
      Continue(left, queued) ==
        /\ client' = left /\ pcb' = queued /\ UNCHANGED short
        /\ conn' = [conn EXCEPT !.data = <<>>]
        /\ jobs' = If(left.rest = <<>>, "recv") \o Tail(jobs)
  IN
  /\ Top("recvDone")
  /\ IF client.clientClosed
       THEN /\ conn' = [conn EXCEPT !.data = <<>>] /\ jobs' = Tail(jobs)
            /\ UNCHANGED <<client, pcb, short>>
       ELSE SendOut(c, pcb, Tail(jobs), Continue)
  /\ UNCHANGED <<input, app, server>>

-----------------------------------------------------------------------------
(* tcp_input with one segment of the application.                          *)

(* tcp_process: what is acknowledged leaves the queue, data and FIN take   *)
(* their share of the window.                                              *)
TcpInput(acked, data, fin) ==
  LET taken == data + (IF fin THEN 1 ELSE 0) IN
  /\ Idle /\ PcbLive
  /\ acked + taken > 0 /\ taken <= pcb.rcvWnd
  /\ app.fin => taken = 0
  /\ app' = [sent |-> app.sent + data, fin |-> app.fin \/ fin,
             got |-> app.got \o SubSeq(pcb.queue, 1, acked)]
  /\ pcb' = [state |-> IF fin THEN "closeWait" ELSE pcb.state,
             rcvWnd |-> pcb.rcvWnd - taken, queue |-> Drop(pcb.queue, acked)]
  /\ input' = [stage |-> IF acked > 0 THEN "sent" ELSE "recv",
               acked |-> acked, data |-> data, fin |-> fin]
  /\ UNCHANGED <<client, conn, jobs, server, short>>

(* Mutation: the dead variable is not looked at.                           *)
KilledUnseen(c) == FALSE

(* DEAD_KILLED after SYNC_COMMIT, and the -1 of client_socks_recv_send_out *)
Killed(c) == c.clientClosed

(* tcp_input after a callback returned ERR_ABRT.  Nobody frees the pbuf of *)
(* the data: neither client_recv_func nor tcp_input, which forgets it.     *)
InputAborted == input' = NoInput

InputGoesOn(stage) == input' = [input EXCEPT !.stage = stage, !.acked = 0]

(* Mutation: client_sent_func only continues queuing.                      *)
OwesNothingNever(c) == FALSE

(* "have we sent everything after SOCKS was closed?"                       *)
OwesNothing(c) == c.rest = <<>> /\ c.socksClosed /\ c.pending = 0

(* client_sent_func                                                        *)
ClientSent ==
  LET c == [client EXCEPT !.pending = @ - input.acked]
      Continue(left, queued) ==
        /\ client' = left /\ pcb' = queued /\ UNCHANGED <<conn, short>>
        /\ jobs' = IF left.rest = <<>> /\ ~left.socksClosed THEN <<"recv", "mark">> ELSE jobs
  IN \/ c.rest # <<>> /\ SendOut(c, pcb, jobs, Continue)
     \/ c.rest = <<>> /\ OwesNothing(c) /\ FreeClient(c, pcb, jobs)
     \/ /\ c.rest = <<>> /\ ~OwesNothing(c)
        /\ client' = c /\ UNCHANGED <<pcb, conn, jobs, short>>

TcpSent ==
  /\ input.stage = "sent" /\ jobs = <<>>
  /\ IF "sent" \in client.callbacks THEN ClientSent ELSE UNCHANGED <<client, pcb, conn, jobs, short>>
  /\ CASE Killed(client') -> InputAborted
       [] ~Killed(client') /\ jobs' # <<>> -> InputGoesOn("sentSync")
       [] OTHER -> InputGoesOn("recv")
  /\ UNCHANGED <<app, server>>

(* Mutation: every segment starts a write.                                 *)
StartsSendingAlways(c) == c.socksUp

(* Only a buffer that was empty has no write under way.                    *)
StartsSending(c) == c.buf = <<>> /\ c.socksUp

(* client_recv_func with data; without it lwIP discards the data.  There   *)
(* is room in buf: WindowCoversBuffer.                                     *)
TcpRecv ==
  /\ input.stage = "recv" /\ jobs = <<>>
  /\ IF input.data > 0 /\ "recv" \in client.callbacks
       THEN LET data == Bytes(app.sent - input.data, app.sent)
                start == StartsSending(client)
            IN /\ input.data <= Wnd - Len(client.buf)
               /\ client' = [client EXCEPT !.buf = @ \o data]
               /\ conn' = IF start THEN [conn EXCEPT !.busy = input.data] ELSE conn
               /\ jobs' = IF start THEN <<"send", "mark">> ELSE <<>>
               /\ input' = IF start THEN [input EXCEPT !.stage = "recvSync"]
                                    ELSE [input EXCEPT !.stage = "fin", !.data = 0]
               /\ UNCHANGED pcb
       ELSE /\ pcb' = [pcb EXCEPT !.rcvWnd = @ + input.data]
            /\ input' = [input EXCEPT !.stage = "fin", !.data = 0]
            /\ UNCHANGED <<client, conn, jobs>>
  /\ UNCHANGED <<app, server, short>>

(* client_recv_func without data: the FIN's unit of the window is given    *)
(* back and the client is closed.                                          *)
TcpFin ==
  LET p == [pcb EXCEPT !.rcvWnd = Lesser(@ + 1, Wnd)] IN
  /\ input.stage = "fin" /\ jobs = <<>>
  /\ input' = NoInput
  /\ CASE ~input.fin -> UNCHANGED <<client, pcb, conn, jobs, short>>
       [] input.fin /\ "recv" \in client.callbacks -> FreeClient(client, p, jobs)
       [] OTHER -> pcb' = p /\ UNCHANGED <<client, conn, jobs, short>>
  /\ UNCHANGED <<app, server>>

(* SYNC_COMMIT returns: the jobs above the mark are done, and ERR_ABRT is  *)
(* returned if they freed the client.                                      *)
CommitReturns ==
  /\ Top("mark") /\ jobs' = Tail(jobs)
  /\ CASE Killed(client) \/ input.stage = "accept" -> InputAborted
       [] ~Killed(client) /\ input.stage = "sentSync" -> InputGoesOn("recv")
       [] ~Killed(client) /\ input.stage = "recvSync" ->
            input' = [input EXCEPT !.stage = "fin", !.data = 0]
  /\ UNCHANGED <<client, pcb, conn, app, server, short>>

(* client_err_func: the application reset the connection, or lwIP gave it  *)
(* up.                                                                     *)
PcbLost ==
  /\ Idle /\ PcbLive
  /\ pcb' = [pcb EXCEPT !.state = "lost", !.queue = <<>>]
  /\ IF "err" \in client.callbacks THEN HandleFreedClient(client, jobs) ELSE UNCHANGED <<client, conn, jobs>>
  /\ UNCHANGED <<input, app, server, short>>

(* After tcp_close lwIP goes on with what is queued, without callbacks.    *)
ClosingInput ==
  /\ Idle /\ pcb.state = "closing" /\ pcb.queue # <<>>
  /\ \/ \E n \in 1..Len(pcb.queue) :
          /\ app' = [app EXCEPT !.got = @ \o SubSeq(pcb.queue, 1, n)]
          /\ pcb' = [pcb EXCEPT !.queue = Drop(@, n)]
     \/ pcb' = [pcb EXCEPT !.state = "lost", !.queue = <<>>] /\ UNCHANGED app
  /\ UNCHANGED <<client, conn, jobs, input, server, short>>

-----------------------------------------------------------------------------
(* ss-local, at any time.                                                  *)

ServerSends ==
  /\ conn.state = "up" /\ ~server.fin /\ ~server.reset /\ server.sent < MaxDown
  /\ server' = [server EXCEPT !.sent = @ + 1]
  /\ UNCHANGED <<client, pcb, conn, jobs, input, app, short>>

ServerEnds ==
  /\ conn.state = "up" /\ ~server.fin /\ ~server.reset
  /\ \/ server' = [server EXCEPT !.fin = TRUE]
     \/ server' = [server EXCEPT !.reset = TRUE]
  /\ UNCHANGED <<client, pcb, conn, jobs, input, app, short>>

-----------------------------------------------------------------------------
AppSegment ==
  \E acked \in 0..Len(pcb.queue), data \in 0..(MaxUp - app.sent), fin \in BOOLEAN :
    TcpInput(acked, data, fin)

AppAnswers ==
  /\ pcb.queue # <<>>
  /\ PcbLost \/ \E acked \in 1..Len(pcb.queue) : TcpInput(acked, 0, FALSE)

RunJob == HandshakeJob \/ SendJob \/ RecvJob \/ SendDone \/ RecvDone \/ CommitReturns
RunInput == TcpSent \/ TcpRecv \/ TcpFin

Next ==
  \/ Accept \/ HandshakeEvent \/ FdEvent \/ RunJob
  \/ AppSegment \/ RunInput \/ PcbLost \/ ClosingInput
  \/ ServerSends \/ ServerEnds

Spec == Init /\ [][Next]_vars

-----------------------------------------------------------------------------
(* Properties.                                                             *)

JobNames == {"handshake", "send", "sendDone", "recv", "recvDone", "mark"}
Stages == {"idle", "accept", "sent", "sentSync", "recv", "recvSync", "fin"}

TypeOK ==
  /\ client \in [life : {"none", "live", "gone"}, clientClosed : BOOLEAN, socksClosed : BOOLEAN,
                 socksUp : BOOLEAN, buf : Seq(1..MaxUp), rest : Seq(1..MaxDown),
                 pending : 0..SndBuf, callbacks : SUBSET {"err", "recv", "sent"}]
  /\ pcb \in [state : {"none", "established", "closeWait", "closing", "reset", "lost"},
              rcvWnd : 0..Wnd, queue : Seq(1..MaxDown)]
  /\ conn \in [state : DOMAIN After \cup {"none", "up", "freed"}, busy : 0..Wnd, done : 0..Wnd,
               sendWait : BOOLEAN, recvWait : BOOLEAN, data : Seq(1..MaxDown), hup : BOOLEAN]
  /\ jobs \in Seq(JobNames)
  /\ input \in [stage : Stages, acked : 0..SndBuf, data : 0..Wnd, fin : BOOLEAN]
  /\ app \in [sent : 0..MaxUp, fin : BOOLEAN, got : Seq(1..MaxDown)]
  /\ server \in [sent : 0..MaxDown, fin : BOOLEAN, reset : BOOLEAN, read : 0..MaxDown,
                 got : Seq(1..MaxUp)]
  /\ short \in BOOLEAN

(* What the callbacks and the handlers assert of each other: a callback of *)
(* the PCB is registered only while its assertions hold, the client counts *)
(* as pending what lwIP still has to get acknowledged, and half a client   *)
(* is kept only while it has something to wait for.                        *)
CallbacksFit ==
  /\ "recv" \in client.callbacks => ~client.clientClosed /\ ~client.socksClosed
  /\ "sent" \in client.callbacks =>
       /\ ~client.clientClosed /\ client.socksUp
       /\ client.pending = Len(pcb.queue) + input.acked
HalfClientWaits ==
  client.life = "live" =>
    /\ ~(client.clientClosed /\ client.socksClosed)
    /\ client.clientClosed => client.buf # <<>>
    /\ client.socksClosed => client.rest # <<>> \/ client.pending > 0

(* At most one read and one write of the socket are asked for at a time,   *)
(* what is being written is the front of the buffer, and what was read is  *)
(* not put over bytes that still have to be queued.                        *)
Positions(names) == {i \in DOMAIN jobs : jobs[i] \in names}
Asked(names, waits) == waits \/ Positions(names) # {}
AtMostOnce(names, waits) ==
  /\ \A i, j \in Positions(names) : i = j
  /\ waits => Positions(names) = {}
Writes == {"send", "sendDone"}
Reads == {"recv", "recvDone"}
OneTransferEach ==
  /\ AtMostOnce(Writes, conn.sendWait)
  /\ Asked(Writes, conn.sendWait) <=> (conn.state = "up" /\ client.buf # <<>>)
  /\ AtMostOnce(Reads, conn.recvWait)
  /\ conn.busy + conn.done <= Len(client.buf)
  /\ client.rest # <<>> /\ ~client.clientClosed =>
       /\ ~Asked(Reads, conn.recvWait) /\ conn.data = <<>>
       /\ Idle => client.pending > 0

(* The assertions of the client's and the connection's handlers hold.      *)
AssertionsHold == TypeOK /\ CallbacksFit /\ HalfClientWaits /\ OneTransferEach

(* "no buffer for data !?!" cannot come: what lwIP may still take from the *)
(* application is the room in the buffer, because tcp_recved is told of    *)
(* every byte when it leaves the buffer and not before.                    *)
Unhandled ==
  (IF input.stage \in {"sent", "sentSync", "recv"} THEN input.data ELSE 0)
    + (IF input.fin THEN 1 ELSE 0)
WindowCoversBuffer == PcbLive => pcb.rcvWnd + Len(client.buf) + Unhandled = Wnd

(* tcp_input never works on with a PCB that a job in its callbacks has     *)
(* closed, and a client that is gone leaves no job, no open socket and no  *)
(* PCB with callbacks behind.                                              *)
NoUseAfterFree ==
  /\ input.stage \in {"sent", "recv", "fin"} => PcbLive
  /\ client.life = "gone" =>
       Positions(JobNames \ {"mark"}) = {} /\ conn.state \in {"none", "freed"} /\ ~PcbLive

(* When a connection is over that no side broke and memory did not run     *)
(* out, each side has got all the other sent: the application what the     *)
(* server sent before its end, unless the application closed first, which  *)
(* gives up the other direction; the server all that was sent to it, even  *)
(* if the application is long gone.                                        *)
NothingCutOff ==
  client.life = "gone" /\ ~server.reset /\ ~short =>
    /\ server.fin /\ ~app.fin /\ pcb.state # "lost" => app.got \o pcb.queue = Bytes(0, server.sent)
    /\ ~server.fin => server.got = Bytes(0, app.sent)

(* Each direction is a pipe that keeps the order.                          *)
Up == INSTANCE OrderedPipe WITH sent <- app.sent, got <- server.got
Down == INSTANCE OrderedPipe WITH sent <- server.sent, got <- app.got
Implements == Up!Spec /\ Down!Spec

(* The reactor runs what is due; ss-local answers, reads and writes or     *)
(* ends; the application acknowledges what is queued, or lwIP gives it up. *)
Fairness ==
  /\ WF_vars(RunJob) /\ WF_vars(RunInput)
  /\ WF_vars(HandshakeEvent) /\ WF_vars(FdEvent) /\ WF_vars(AppAnswers)
FairSpec == Spec /\ Fairness

(* Whichever side ends first, the client is freed in the end; until then   *)
(* what is sent is delivered, in both directions.                          *)
OneEnded == app.fin \/ pcb.state = "lost" \/ server.fin \/ server.reset
Gone == client.life = "gone"
Progress ==
  /\ (client.life = "live" /\ OneEnded) ~> Gone
  /\ (Len(server.got) < app.sent) ~> (Len(server.got) = app.sent \/ Gone)
  /\ (Len(app.got) < server.sent) ~> (Len(app.got) = server.sent \/ client.clientClosed)

=============================================================================
