----------------------------- MODULE LocalRelay -----------------------------
(***************************************************************************)
(* One connection through ss-local: local.c between a SOCKS client, at     *)
(* server->fd, and the far end, at remote->fd: a Shadowsocks server or,    *)
(* when the ACL says so, the destination itself.                           *)
(*                                                                         *)
(* libev calls one callback at a time, for a descriptor whose watcher is   *)
(* started.  Each direction has one buffer; while it is full the watcher   *)
(* that would fill it is stopped and the one that empties it is started,   *)
(* by the four functions ev_io_*.                                          *)
(*                                                                         *)
(* The bytes of a stream are their numbers; 0 stands for what ss-local and *)
(* the server say to each other: the header with the address, the headers  *)
(* of the obfuscations http_simple and http_post, and the handshake of     *)
(* tls1.2_ticket_auth.  Encryption and framing keep one unit for one unit. *)
(* idx and len are the sequence buf: what of it was sent is taken off.     *)
(***************************************************************************)
EXTENDS Naturals, Sequences, FiniteSets

CONSTANTS
  BufSize,   (* BUF_SIZE                                                   *)
  MaxUp,     (* bound: bytes the client sends                              *)
  MaxDown    (* bound: bytes the far end sends                             *)

ASSUME SizesAssumption == BufSize \in Nat \ {0} /\ {MaxUp, MaxDown} \subseteq Nat

VARIABLES
  server,   (* server_t: the side of the client                            *)
  remote,   (* remote_t: the side of the far end                           *)
  obfs,     (* the local data of the obfuscation                           *)
  client,   (* the SOCKS client, with what ss-local has not read of it     *)
  far,      (* the far end, with what ss-local has not read of it          *)
  ended,    (* history: who or what made ss-local close the connection     *)
  shortReply (* history: the end of the handshake was not sent whole       *)

vars == <<server, remote, obfs, client, far, ended, shortReply>>

Lesser(a, b) == IF a < b THEN a ELSE b
Front(s, n) == SubSeq(s, 1, n)
Drop(s, n) == SubSeq(s, n + 1, Len(s))
Bytes(from, to) == [i \in 1..(to - from) |-> from + i]

(* The units of s that are bytes of a stream, in their order.              *)
Payload(s) ==
  LET data == {i \in DOMAIN s : s[i] > 0} IN
  [k \in 1..Cardinality(data) |-> s[CHOOSE i \in data : Cardinality({j \in data : j <= i}) = k]]

Live == ended = "no"

Init ==
  /\ server = [stage |-> "init", buf |-> <<>>, recvIo |-> TRUE, sendIo |-> FALSE]
  /\ remote = [state |-> "none", direct |-> FALSE, buf |-> <<>>, recvIo |-> FALSE, sendIo |-> FALSE,
               connectTimer |-> FALSE, idleTimer |-> FALSE]
  /\ \E kind \in {"plain", "http", "tls"} :
       obfs = [kind |-> kind, status |-> 0, saved |-> <<>>, heard |-> FALSE]
  /\ client = [sent |-> 0, read |-> 0, fin |-> FALSE, got |-> <<>>]
  /\ far = [sent |-> 0, unread |-> <<>>, fin |-> FALSE, greeted |-> FALSE, told |-> 0, got |-> <<>>]
  /\ ended = "no" /\ shortReply = FALSE

(* close_and_free_remote, close_and_free_server: every watcher and timer   *)
(* is stopped.                                                             *)
CloseBoth(why) ==
  /\ ended' = why
  /\ server' = [server EXCEPT !.recvIo = FALSE, !.sendIo = FALSE]
  /\ remote' = [remote EXCEPT !.recvIo = FALSE, !.sendIo = FALSE,
                              !.connectTimer = FALSE, !.idleTimer = FALSE]

(* What the kernel takes is at the far end; told counts the units 0.       *)
Zeros(s) == Cardinality({i \in DOMAIN s : s[i] = 0})
Got(f, units) == [f EXCEPT !.got = @ \o Payload(units), !.told = @ + Zeros(units)]
FarGets(units) == far' = Got(far, units)

-----------------------------------------------------------------------------
(* From the client to the far end.                                         *)

(* handshake_status = 8: what was kept back is on its way.                 *)
Handshaken(o) == [o EXCEPT !.status = 8, !.saved = <<>>]

(* client_encode.  The http ones put a header before the first data.       *)
(* tls1.2_ticket_auth sends its hello instead of the first data and keeps  *)
(* data back until the far end has answered; a call without data then ends *)
(* the handshake.                                                          *)
Http(r) == obfs.kind = "http" /\ ~r.direct
Tls(r) == obfs.kind = "tls" /\ ~r.direct
Encode(r, units, Send(_)) ==
  CASE ~(Http(r) \/ Tls(r)) \/ obfs.status = 8 -> UNCHANGED obfs /\ Send(units)
    [] Http(r) /\ obfs.status # 8 -> obfs' = Handshaken(obfs) /\ Send(<<0>> \o units)
    [] Tls(r) /\ obfs.status # 8 /\ units = <<>> ->
         obfs' = Handshaken(obfs) /\ Send(<<0>> \o obfs.saved)
    [] OTHER -> /\ obfs' = [obfs EXCEPT !.status = 1, !.saved = @ \o units]
                /\ Send(IF obfs.status = 0 THEN <<0>> ELSE <<>>)

(* ev_io_server_recv: from now on the far end is waited for.               *)
WaitForRemote(s, r, units) ==
  /\ server' = [s EXCEPT !.recvIo = FALSE]
  /\ remote' = [r EXCEPT !.sendIo = TRUE, !.buf = units]
  /\ UNCHANGED ended

(* The first data opens the connection, with TCP Fast Open if it is on,    *)
(* which is not used for a direct one.  The timer is not started when Fast *)
(* Open has to wait.                                                       *)
Connect(s, r, units) ==
  LET waiting == [r EXCEPT !.state = "connecting"] IN
  \/ CloseBoth("error") /\ UNCHANGED far
  \/ \E timer \in BOOLEAN :
       /\ r.direct => timer
       /\ WaitForRemote(s, [waiting EXCEPT !.connectTimer = timer], units) /\ UNCHANGED far
  \/ \E n \in 1..(Len(units) - 1) :
       /\ ~r.direct /\ FarGets(Front(units, n))
       /\ WaitForRemote(s, [waiting EXCEPT !.connectTimer = TRUE], Drop(units, n))
  \/ /\ ~r.direct /\ FarGets(units)
     /\ remote' = [r EXCEPT !.state = "connected", !.recvIo = TRUE, !.idleTimer = TRUE]
     /\ server' = s /\ UNCHANGED ended

(* Mutation: what is left of a short send is not waited for.               *)
ForgetRest(s, r, units) ==
  remote' = [r EXCEPT !.buf = units] /\ server' = s /\ UNCHANGED ended

(* A short or refused send leaves the rest in the buffer.                  *)
KeepRest(s, r, units) == WaitForRemote(s, r, units)

(* On an open connection the data is sent at once, as far as it goes; when *)
(* there is none to send because it was kept back, the client has to wait. *)
SendNow(s, r, units) ==
  IF units = <<>>
    THEN server' = [s EXCEPT !.recvIo = FALSE] /\ remote' = r /\ UNCHANGED <<far, ended>>
    ELSE \/ CloseBoth("error") /\ UNCHANGED far
         \/ \E n \in 0..(Len(units) - 1) :
              FarGets(Front(units, n)) /\ KeepRest(s, r, Drop(units, n))
         \/ FarGets(units) /\ server' = s /\ remote' = r /\ UNCHANGED ended

(* server_recv_cb in STAGE_STREAM.                                         *)
Relay(s, r, units) ==
  LET Send(wire) == IF r.state = "connected" THEN SendNow(s, r, wire) ELSE Connect(s, r, wire)
  IN Encode(r, units, Send)

(* The destination is known: the ACL refuses it, sends the data there or   *)
(* to a server.                                                            *)
Dispatch(units) ==
  \/ CloseBoth("error") /\ UNCHANGED <<obfs, far>>
  \/ \E direct \in BOOLEAN :
       Relay([server EXCEPT !.stage = "stream", !.buf = <<>>], [remote EXCEPT !.direct = direct],
             (IF direct THEN <<>> ELSE <<0>>) \o units)

(* The request is complete; where the name of the host is looked for in    *)
(* the first data, that is waited for.                                     *)
OpenRemote(units) ==
  \/ /\ Len(units) < BufSize
     /\ server' = [server EXCEPT !.stage = "parse", !.buf = units]
     /\ UNCHANGED <<remote, obfs, far, ended>>
  \/ Dispatch(units)

Reads(n) == client' = [client EXCEPT !.read = @ + n]
Read(n) == Bytes(client.read, client.read + n)
Unread == client.sent - client.read

(* server_recv_cb in STAGE_INIT and STAGE_HANDSHAKE: the greeting, then    *)
(* the request, after which data may have come with it.  A UDP association *)
(* is kept until the client ends it.                                       *)
RecvGreeting ==
  /\ server.recvIo /\ server.stage = "init"
  /\ server' = [server EXCEPT !.stage = "handshake"]
  /\ UNCHANGED <<remote, obfs, client, far, ended, shortReply>>

RecvRequest ==
  /\ server.recvIo /\ server.stage = "handshake"
  /\ \E n \in 0..Lesser(Unread, BufSize) : Reads(n) /\ OpenRemote(Read(n))
  /\ UNCHANGED shortReply

RecvAssociate ==
  /\ server.recvIo /\ server.stage = "handshake"
  /\ server' = [server EXCEPT !.stage = "associated"]
  /\ UNCHANGED <<remote, obfs, client, far, ended, shortReply>>

(* server_recv_cb in STAGE_INIT with a tunnel_addr, as the tunnel for DNS  *)
(* is launched: the first data goes there, without a request.              *)
RecvTunnelled ==
  /\ server.recvIo /\ server.stage = "init"
  /\ \E n \in 1..Lesser(Unread, BufSize) : Reads(n) /\ Dispatch(Read(n))
  /\ UNCHANGED shortReply

(* server_recv_cb in STAGE_PARSE: more of the first data.                  *)
RecvFirstData ==
  /\ server.recvIo /\ server.stage = "parse"
  /\ \E n \in 1..Lesser(Unread, BufSize - Len(server.buf)) :
       Reads(n) /\ OpenRemote(server.buf \o Read(n))
  /\ UNCHANGED shortReply

(* server_recv_cb in STAGE_STREAM.  If something is left in the buffer, it *)
(* is encoded a second time with the new data behind it: no far end can    *)
(* make sense of it, and the connection is over.                           *)
RecvData ==
  /\ server.recvIo /\ server.stage = "stream"
  /\ \E n \in 1..Lesser(Unread, BufSize) :
       /\ Reads(n)
       /\ IF remote.buf # <<>>
            THEN CloseBoth("garbled") /\ UNCHANGED <<obfs, far>>
            ELSE Relay(server, remote, Read(n))
  /\ UNCHANGED shortReply

(* The client has ended its stream: both sides are closed.                 *)
RecvEnd ==
  /\ server.recvIo /\ client.fin /\ Unread = 0
  /\ CloseBoth("client")
  /\ UNCHANGED <<obfs, client, far, shortReply>>

(* Mutation: the client is not listened to again.                          *)
StopSending(r) ==
  /\ remote' = [r EXCEPT !.sendIo = FALSE, !.buf = <<>>]
  /\ UNCHANGED <<server, ended>>

(* ev_io_remote_send: the client is listened to again.                     *)
ListenToClient(r) ==
  /\ remote' = [r EXCEPT !.sendIo = FALSE, !.buf = <<>>]
  /\ server' = [server EXCEPT !.recvIo = TRUE]
  /\ UNCHANGED ended

(* remote_send_cb on an open connection.                                   *)
Flush(r) ==
  IF r.buf = <<>>
    THEN CloseBoth("empty") /\ UNCHANGED far
    ELSE \/ CloseBoth("error") /\ UNCHANGED far
         \/ \E n \in 0..(Len(r.buf) - 1) :
              /\ FarGets(Front(r.buf, n)) /\ remote' = [r EXCEPT !.buf = Drop(@, n)]
              /\ UNCHANGED <<server, ended>>
         \/ FarGets(r.buf) /\ ListenToClient(r)

(* remote_send_cb: the connection is open or has failed, or takes data.    *)
RemoteSend ==
  LET open == [remote EXCEPT !.state = "connected", !.connectTimer = FALSE,
                             !.recvIo = TRUE, !.idleTimer = TRUE] IN
  /\ remote.sendIo
  /\ CASE remote.state = "connected" -> Flush(remote)
       [] remote.state = "connecting" /\ remote.buf # <<>> -> Flush(open)
       [] OTHER -> \/ CloseBoth("error") /\ UNCHANGED far
                   \/ ListenToClient(open) /\ UNCHANGED far
  /\ UNCHANGED <<obfs, client, shortReply>>

-----------------------------------------------------------------------------
(* From the far end to the client.                                         *)

(* The part of remote_recv_cb that ends the handshake: needsendback.  What *)
(* a short send leaves stays in the buffer, but no watcher is started.     *)
SendBack ==
  LET read == [far EXCEPT !.unread = Drop(@, 1)]
      Send(units) ==
        \/ CloseBoth("error") /\ UNCHANGED <<far, shortReply>>
        \/ \E n \in 0..(Len(units) - 1) :
             /\ far' = Got(read, Front(units, n))
             /\ remote' = [remote EXCEPT !.buf = Drop(units, n)]
             /\ shortReply' = TRUE
             /\ UNCHANGED <<server, ended>>
        \/ /\ far' = Got(read, units)
           /\ ListenToClient(remote)
           /\ UNCHANGED shortReply
  IN Encode(remote, <<>>, Send) /\ UNCHANGED client

(* Mutation: the far end is read on while the client does not take data.   *)
ReadOn(units) ==
  /\ server' = [server EXCEPT !.sendIo = TRUE, !.buf = units]
  /\ UNCHANGED <<remote, ended>>

(* ev_io_remote_recv                                                       *)
WaitForClient(units) ==
  /\ server' = [server EXCEPT !.sendIo = TRUE, !.buf = units]
  /\ remote' = [remote EXCEPT !.recvIo = FALSE]
  /\ UNCHANGED ended

(* The rest of remote_recv_cb: what the client does not take is kept.      *)
ToClient(units) ==
  \/ CloseBoth("error") /\ UNCHANGED client
  \/ \E n \in 0..(Len(units) - 1) :
       /\ client' = [client EXCEPT !.got = @ \o Front(units, n)]
       /\ WaitForClient(Drop(units, n))
  \/ client' = [client EXCEPT !.got = @ \o units] /\ UNCHANGED <<server, remote, ended>>

(* client_decode.  The http ones look for the end of the header of the far *)
(* end in what was read at once, and throw away what comes without.        *)
Unheard == Http(remote) /\ ~obfs.heard
Heard(units) == Zeros(units) = 2
Decode(units) ==
  CASE ~Unheard -> units
    [] Unheard /\ Heard(units) -> Drop(units, 2)
    [] OTHER -> <<>>

(* remote_recv_cb                                                          *)
RemoteRecv ==
  /\ remote.recvIo
  /\ \/ far.unread # <<>> /\ Tls(remote) /\ obfs.status # 8 /\ SendBack
     \/ /\ ~(Tls(remote) /\ obfs.status # 8)
        /\ \E n \in 1..Lesser(Len(far.unread), BufSize) :
             /\ far' = [far EXCEPT !.unread = Drop(@, n)]
             /\ obfs' = [obfs EXCEPT !.heard = @ \/ (Unheard /\ Heard(Front(far.unread, n)))]
             /\ ToClient(Decode(Front(far.unread, n)))
        /\ UNCHANGED shortReply
     \/ /\ far.fin /\ far.unread = <<>>
        /\ CloseBoth("far")
        /\ UNCHANGED <<obfs, client, far, shortReply>>

(* server_send_cb                                                          *)
ServerSend ==
  /\ server.sendIo
  /\ IF server.buf = <<>>
       THEN CloseBoth("empty") /\ UNCHANGED client
       ELSE \/ CloseBoth("error") /\ UNCHANGED client
            \/ \E n \in 0..(Len(server.buf) - 1) :
                 /\ client' = [client EXCEPT !.got = @ \o Front(server.buf, n)]
                 /\ server' = [server EXCEPT !.buf = Drop(@, n)]
                 /\ UNCHANGED <<remote, ended>>
            \/ /\ client' = [client EXCEPT !.got = @ \o server.buf]
               /\ server' = [server EXCEPT !.buf = <<>>, !.sendIo = FALSE]
               /\ remote' = [remote EXCEPT !.recvIo = TRUE]
               /\ UNCHANGED ended
  /\ UNCHANGED <<obfs, far, shortReply>>

(* remote_timeout_cb: the idle timer is only set back by data of the far   *)
(* end.                                                                    *)
RemoteTimeout ==
  /\ remote.connectTimer \/ remote.idleTimer
  /\ CloseBoth("timeout")
  /\ UNCHANGED <<obfs, client, far, shortReply>>

-----------------------------------------------------------------------------
(* The two peers.                                                          *)

ClientSends ==
  /\ Live /\ ~client.fin
  /\ \/ client.sent < MaxUp /\ client' = [client EXCEPT !.sent = @ + 1]
     \/ client' = [client EXCEPT !.fin = TRUE]
  /\ UNCHANGED <<server, remote, obfs, far, ended, shortReply>>

(* A server answers the hello, and sends data of the destination when it   *)
(* was told the address, the first with a header if the client sent one.   *)
(* Two units stand for that header, since it may be read in two parts.     *)
FarGreets ==
  /\ Live /\ Tls(remote) /\ far.told = 1 /\ ~far.greeted
  /\ far' = [far EXCEPT !.greeted = TRUE, !.unread = @ \o <<0>>]
  /\ UNCHANGED <<server, remote, obfs, client, ended, shortReply>>

FarSends ==
  /\ Live /\ remote.state = "connected" /\ ~far.fin
  /\ \/ /\ far.sent < MaxDown
        /\ far.told = (IF remote.direct THEN 0
                       ELSE CASE obfs.kind = "plain" -> 1 [] obfs.kind = "http" -> 2 [] OTHER -> 3)
        /\ far' = [far EXCEPT !.sent = @ + 1, !.greeted = @ \/ Http(remote),
                   !.unread = @ \o (IF Http(remote) /\ ~far.greeted THEN <<0, 0>> ELSE <<>>)
                                \o <<far.sent + 1>>]
     \/ far' = [far EXCEPT !.fin = TRUE]
  /\ UNCHANGED <<server, remote, obfs, client, ended, shortReply>>

Next ==
  \/ RecvGreeting \/ RecvRequest \/ RecvAssociate \/ RecvTunnelled \/ RecvFirstData
  \/ RecvData \/ RecvEnd
  \/ RemoteSend \/ RemoteRecv \/ ServerSend \/ RemoteTimeout
  \/ ClientSends \/ FarGreets \/ FarSends

Spec == Init /\ [][Next]_vars

-----------------------------------------------------------------------------
(* Properties.                                                             *)

(* Every part has its type, no more is read than the buffer of the client  *)
(* takes, and the far end is told the address and the two messages of the  *)
(* handshake once at most.                                                 *)
TypeOK ==
  /\ server \in [stage : {"init", "handshake", "associated", "parse", "stream"},
                 buf : Seq(Nat), recvIo : BOOLEAN, sendIo : BOOLEAN]
  /\ remote \in [state : {"none", "connecting", "connected"}, direct : BOOLEAN, buf : Seq(0..MaxUp),
                 recvIo : BOOLEAN, sendIo : BOOLEAN, connectTimer : BOOLEAN, idleTimer : BOOLEAN]
  /\ obfs \in [kind : {"plain", "http", "tls"}, status : {0, 1, 8}, saved : Seq(0..MaxUp),
              heard : BOOLEAN]
  /\ client \in [sent : 0..MaxUp, read : 0..MaxUp, fin : BOOLEAN, got : Seq(1..MaxDown)]
  /\ far \in [sent : 0..MaxDown, unread : Seq(0..MaxDown), fin : BOOLEAN, greeted : BOOLEAN,
              told : 0..3, got : Seq(1..MaxUp)]
  /\ ended \in {"no", "client", "far", "error", "timeout", "empty", "garbled"}
  /\ Len(server.buf) <= BufSize

(* The watchers follow the buffers: a buffer with something in it has its  *)
(* sender started and its reader stopped, so that it is neither closed for *)
(* being empty nor written over, and a reader that is stopped has somebody *)
(* who will start it again: the sender, or the far end that must answer    *)
(* the hello.  A reply that was not sent whole breaks this for the         *)
(* direction of the client.                                                *)
Held == Tls(remote) /\ obfs.status = 1
WatchersFit ==
  /\ ended # "empty"
  /\ Live /\ server.stage = "stream" =>
       /\ server.sendIo <=> server.buf # <<>>
       /\ remote.state = "connected" => (remote.recvIo <=> ~server.sendIo)
       /\ remote.state = "connecting" => remote.sendIo
       /\ shortReply \/ (remote.state = "connected" => (remote.sendIo <=> remote.buf # <<>>))
       /\ shortReply \/ (server.recvIo <=> ~remote.sendIo) \/ Held
       /\ obfs.saved # <<>> => Held

(* "partly sent, move memory, wait for the next time to send": what an     *)
(* open connection did not take is waited for.                             *)
RestIsWaitedFor == Live /\ remote.state = "connected" /\ remote.buf # <<>> => remote.sendIo

(* Each direction is a pipe that keeps the order.                          *)
Up == INSTANCE OrderedPipe WITH sent <- client.sent, got <- far.got
Down == INSTANCE OrderedPipe WITH sent <- far.sent, got <- client.got
Implements == Up!Spec /\ Down!Spec

(* The end of one stream is acted on only after everything before it was   *)
(* passed on: all that the far end has sent, unless its header was read in *)
(* two parts, after which nothing is recognised any more; all that the     *)
(* client has sent, unless it was kept back for the handshake.  The state  *)
(* has its type.                                                           *)
HeaderLost == Unheard /\ far.greeted /\ ~Heard(far.unread)
NothingCutOff ==
  /\ TypeOK
  /\ ended = "far" => client.got = Bytes(0, far.sent) \/ HeaderLost
  /\ ended = "client" /\ server.stage = "stream" /\ obfs.saved = <<>> /\ ~shortReply =>
       far.got = Bytes(0, client.sent)

(* libev calls what is ready, and both peers take and answer what they get *)
Fairness ==
  /\ WF_vars(RecvData) /\ WF_vars(RecvEnd) /\ WF_vars(RemoteSend) /\ WF_vars(RemoteRecv)
  /\ WF_vars(ServerSend) /\ WF_vars(FarGreets)
FairSpec == Spec /\ Fairness

(* What is sent is delivered or the connection ends, in both directions,   *)
(* but for a reply that was not sent whole and a header that was not read  *)
(* whole; an end of the client's stream closes the connection.             *)
Stalled == shortReply /\ remote.buf # <<>>
Progress ==
  /\ (server.stage = "stream" /\ Len(far.got) < client.sent)
       ~> (Len(far.got) = client.sent \/ ~Live \/ Stalled)
  /\ (Len(client.got) < far.sent) ~> (Len(client.got) = far.sent \/ ~Live \/ HeaderLost)
  /\ (server.stage = "stream" /\ client.fin) ~> (~Live \/ Stalled)

=============================================================================
