--------------------------- MODULE RedsocksRelay ---------------------------
(***************************************************************************)
(* One connection through redsocks: redsocks.c and socks5.c between an     *)
(* application, whose connection the rules of iptables have turned here,   *)
(* and the SOCKS server of ss-local.                                       *)
(*                                                                         *)
(* Each side is a bufferevent of libevent 2.0: two buffers and two events. *)
(* A read event fills input and calls readcb, a write event empties output *)
(* and calls writecb, an end or an error calls redsocks_event_error.       *)
(* redsocks moves whole buffers across, closes each direction by itself    *)
(* (client_evshut, relay_evshut), and drops the client when all four are   *)
(* closed.  libevent runs one callback at a time.                          *)
(*                                                                         *)
(* The bytes of a stream are their numbers; 0 stands for one message of    *)
(* the SOCKS handshake, or one part of an answer that is read by itself.   *)
(***************************************************************************)
EXTENDS Naturals, Sequences, FiniteSets

CONSTANTS
  HalfBuff,  (* REDSOCKS_RELAY_HALFBUFF                                    *)
  MaxUp,     (* bound: bytes the application sends                         *)
  MaxDown    (* bound: bytes the server sends                              *)

ASSUME SizesAssumption == HalfBuff \in Nat \ {0} /\ {MaxUp, MaxDown} \subseteq Nat

VARIABLES
  state,   (* client->state, or connecting, relaying, done, failed         *)
  be,      (* client->client and client->relay                             *)
  peer,    (* the application and the server, and what was not read of them*)
  server,  (* what the server asks for, was told and has answered          *)
  early    (* history: the client ended with data still in its input       *)

vars == <<state, be, peer, server, early>>

Sides == {"client", "relay"}
Other(x) == IF x = "client" THEN "relay" ELSE "client"
Lesser(a, b) == IF a < b THEN a ELSE b
Drop(s, n) == SubSeq(s, n + 1, Len(s))
Bytes(n) == [i \in 1..n |-> i]
Live == state \notin {"done", "failed"}

(* The units of s that are no messages, in their order.                    *)
Payload(s) ==
  LET data == {i \in DOMAIN s : s[i] > 0} IN
  [k \in 1..Cardinality(data) |-> s[CHOOSE i \in data : Cardinality({j \in data : j <= i}) = k]]

(* redsocks_accept_client, up to the connect() of red_connect_relay: the   *)
(* client is read at once to see its end, the relay waits to be writable.  *)
NewEvent(reads) ==
  [read |-> reads, write |-> ~reads, enabled |-> TRUE, suspended |-> FALSE,
   high |-> 0, input |-> <<>>, output |-> <<>>, shut |-> {}]

Init ==
  /\ state = "connecting"
  /\ be = [x \in Sides |-> NewEvent(x = "client")]
  /\ peer = [x \in Sides |-> [sent |-> 0, unread |-> <<>>, fin |-> FALSE, got |-> <<>>]]
  /\ server \in [password : BOOLEAN, domain : BOOLEAN, told : {0}, answered : {0}]
  /\ early = FALSE

-----------------------------------------------------------------------------
(* Operations of libevent and redsocks, as functions of the two sides b.   *)

(* bufferevent_write_buffer: the write event is added if writing is        *)
(* enabled.                                                                *)
WriteBuffer(b, x, units) ==
  [b EXCEPT ![x].output = @ \o units, ![x].write = @ \/ (b[x].enabled /\ units # <<>>)]

(* Mutation: what was moved stays in the input.                            *)
Copy(b, from) == WriteBuffer(b, Other(from), b[from].input)

(* All of the input becomes output of the other side.                      *)
Move(b, from) ==
  [WriteBuffer(b, Other(from), b[from].input) EXCEPT ![from].input = <<>>]

(* bufferevent_enable(EV_READ): not while reading is suspended.            *)
EnableRead(b, x) == [b EXCEPT ![x].read = ~b[x].suspended]

(* redsocks_shutdown                                                       *)
ShutRead(b, x) == [b EXCEPT ![x].read = FALSE, ![x].shut = @ \cup {"read"}]
ShutWrite(b, x) ==
  [b EXCEPT ![x].write = FALSE, ![x].enabled = FALSE, ![x].shut = @ \cup {"write"}]

AllShut(b) == \A x \in Sides : b[x].shut = {"read", "write"}
Becomes(b) ==
  /\ be' = b
  /\ state' = IF AllShut(b) THEN "done" ELSE state

(* redsocks_drop_client                                                    *)
DropClient(b) == be' = b /\ state' = "failed"

(* redsocks_relay_readcb                                                   *)
RelayRead(b, from) ==
  IF Len(b[Other(from)].output) < HalfBuff
    THEN Move(b, from)
    ELSE [b EXCEPT ![from].read = FALSE]

(* Mutation: reading is not enabled again.                                 *)
RelayWriteOnly(b, to) ==
  LET from == Other(to) IN
  IF b[from].input = <<>> /\ "read" \in b[from].shut
    THEN ShutWrite(b, to)
    ELSE IF Len(b[to].output) < HalfBuff THEN Move(b, from) ELSE b

(* redsocks_relay_writecb                                                  *)
RelayWrite(b, to) ==
  LET from == Other(to) IN
  IF b[from].input = <<>> /\ "read" \in b[from].shut
    THEN ShutWrite(b, to)
    ELSE IF Len(b[to].output) < HalfBuff THEN EnableRead(Move(b, from), from) ELSE b

(* Mutation: the other side is shut whatever it still has to send.         *)
EventEndAtOnce(b, x) == ShutWrite(ShutRead(b, x), Other(x))

(* redsocks_event_error for the end of a stream: the other direction is    *)
(* closed at once if it has nothing to send, else by its writecb.          *)
EventEnd(b, x) ==
  LET c == ShutRead(b, x) IN
  IF c[Other(x)].output = <<>> THEN ShutWrite(c, Other(x)) ELSE c

(* redsocks_start_relay: four events are enabled, whatever was shut        *)
(* before, and the write events are added even without output.             *)
StartRelay(b) ==
  [x \in Sides |-> [EnableRead(b, x)[x] EXCEPT !.high = HalfBuff, !.write = TRUE, !.enabled = TRUE]]

(* redsocks_write_helper: a message of the handshake is sent, and one part *)
(* of an answer is waited for.                                             *)
WriteHelper(b, units, next) ==
  /\ be' = EnableRead([WriteBuffer(b, "relay", units) EXCEPT !["relay"].high = 1], "relay")
  /\ state' = next

-----------------------------------------------------------------------------
(* socks5_read_cb: the part that was waited for is taken off the input.    *)
ReadAnswer(b) ==
  LET c == [b EXCEPT !["relay"].input = <<>>] IN
  \/ DropClient(c)
  \/ /\ state = "method_sent"
     /\ WriteHelper(c, <<0>>, IF server.password THEN "auth_sent" ELSE "request_sent")
  \/ state = "auth_sent" /\ WriteHelper(c, <<0>>, "request_sent")
  \/ /\ state = "request_sent"
     /\ WriteHelper(c, <<>>, IF server.domain THEN "skip_domain" ELSE "skip_address")
  \/ state = "skip_domain" /\ WriteHelper(c, <<>>, "skip_address")
  \/ state = "skip_address" /\ be' = StartRelay(c) /\ state' = "relaying"

(* bufferevent_readcb.  The watermarks are set behind the back of          *)
(* libevent: a read event that finds the input full already suspends       *)
(* reading, and nothing ever calls bufferevent_wm_unsuspend_read.          *)
Full(x) == be[x].high > 0 /\ Len(be[x].input) >= be[x].high
Readable(x) == Live /\ be[x].read /\ (peer[x].unread # <<>> \/ peer[x].fin)

ReadSuspends(x) ==
  /\ Readable(x) /\ Full(x)
  /\ be' = [be EXCEPT ![x].read = FALSE, ![x].suspended = TRUE]
  /\ UNCHANGED <<state, peer, server, early>>

ReadData(x) ==
  LET room == IF be[x].high = 0 THEN MaxUp ELSE be[x].high - Len(be[x].input) IN
  /\ Readable(x) /\ ~Full(x)
  /\ \E n \in 1..Lesser(Len(peer[x].unread), room) :
       LET b == [be EXCEPT ![x].input = @ \o SubSeq(peer[x].unread, 1, n)] IN
       /\ peer' = [peer EXCEPT ![x].unread = Drop(@, n)]
       /\ CASE state = "relaying" -> Becomes(RelayRead(b, x))
            [] state # "relaying" /\ x = "relay" -> ReadAnswer(b)
            [] OTHER -> Becomes(b)
  /\ UNCHANGED <<server, early>>

ReadEnd(x) ==
  /\ Readable(x) /\ ~Full(x) /\ peer[x].unread = <<>>
  /\ Becomes(EventEnd(be, x))
  /\ early' = (early \/ be[x].input # <<>>)
  /\ UNCHANGED <<peer, server>>

Read(x) == ReadSuspends(x) \/ ReadData(x) \/ ReadEnd(x)

(* redsocks_relay_connected, which goes on as socks5_write_cb.             *)
Connected(b) ==
  \/ DropClient(b)
  \/ WriteHelper(b, <<0>>, "method_sent")

(* bufferevent_writecb.  A socket that was shut down takes nothing more.   *)
Write(x) ==
  /\ Live /\ be[x].write
  /\ \E n \in 0..Len(be[x].output) :
       LET out == SubSeq(be[x].output, 1, n)
           b == [be EXCEPT ![x].output = Drop(@, n), ![x].write = n < Len(be[x].output)] IN
       /\ n = 0 <=> be[x].output = <<>>
       /\ IF out # <<>> /\ "write" \in be[x].shut
            THEN DropClient(be) /\ UNCHANGED <<peer, server>>
            ELSE /\ peer' = [peer EXCEPT ![x].got = @ \o Payload(out)]
                 /\ server' = [server EXCEPT !.told = @ + Len(out) - Len(Payload(out))]
                 /\ CASE state = "relaying" /\ ~b[x].write -> Becomes(RelayWrite(b, x))
                      [] state = "connecting" -> Connected(b)
                      [] OTHER -> Becomes(b)
  /\ UNCHANGED early

(* redsocks_event_error for anything else.                                 *)
EventError(x) ==
  /\ Live /\ (be[x].read \/ be[x].write)
  /\ DropClient(be)
  /\ UNCHANGED <<peer, server, early>>

-----------------------------------------------------------------------------
(* The two peers.                                                          *)

(* An application sends when it likes; a server answers first.             *)
Messages == IF server.password THEN 3 ELSE 2
MaySend(x) ==
  IF x = "client" THEN peer[x].sent < MaxUp
                  ELSE peer[x].sent < MaxDown /\ server.answered = Messages

PeerSends(x) ==
  /\ Live /\ ~peer[x].fin /\ MaySend(x)
  /\ peer' = [peer EXCEPT ![x].sent = @ + 1, ![x].unread = @ \o <<peer[x].sent + 1>>]
  /\ UNCHANGED <<state, be, server, early>>

PeerEnds(x) ==
  /\ Live /\ ~peer[x].fin /\ (x = "relay" => state # "connecting")
  /\ peer' = [peer EXCEPT ![x].fin = TRUE]
  /\ UNCHANGED <<state, be, server, early>>

(* The last answer has an address, and the size of its name if it is one.  *)
Answer ==
  /\ Live /\ ~peer["relay"].fin /\ server.answered < server.told
  /\ server' = [server EXCEPT !.answered = @ + 1]
  /\ peer' = [peer EXCEPT !["relay"].unread = @ \o
       (IF server.answered + 1 < Messages THEN <<0>>
          ELSE IF server.domain THEN <<0, 0, 0>> ELSE <<0, 0>>)]
  /\ UNCHANGED <<state, be, early>>

Next ==
  \/ \E x \in Sides : Read(x) \/ Write(x) \/ EventError(x) \/ PeerSends(x) \/ PeerEnds(x)
  \/ Answer

Spec == Init /\ [][Next]_vars

-----------------------------------------------------------------------------
(* Properties.                                                             *)

(* Every variable has a value of its type.                                 *)
TypeOK ==
  /\ state \in {"connecting", "method_sent", "auth_sent", "request_sent", "skip_domain",
                "skip_address", "relaying", "done", "failed"}
  /\ be \in [Sides -> [read : BOOLEAN, write : BOOLEAN, enabled : BOOLEAN, suspended : BOOLEAN,
                       high : {0, 1, HalfBuff}, input : Seq(Nat), output : Seq(Nat),
                       shut : SUBSET {"read", "write"}]]
  /\ peer \in [Sides -> [sent : Nat, unread : Seq(Nat), fin : BOOLEAN, got : Seq(Nat)]]
  /\ server \in [password : BOOLEAN, domain : BOOLEAN, told : 0..3, answered : 0..3]
  /\ early \in BOOLEAN

(* A side is shut for writing only after the other has ended, so that the  *)
(* first redsocks_shutdown of redsocks_event_error never drops the client  *)
(* whose buffers the second one reads; and a client that is not dropped    *)
(* has a half that is open.                                                *)
Paired ==
  /\ \A x \in Sides : "write" \in be[x].shut => "read" \in be[Other(x)].shut
  /\ Live => ~AllShut(be)

(* An end is passed on only behind everything that was sent before it.     *)
(* What an application sent before it ended may be lost when the handshake *)
(* was not over.  The side of the server, which is only read as far as its *)
(* watermark, never has its reading suspended.                             *)
HalfClose ==
  /\ TypeOK /\ Paired /\ ~be["relay"].suspended
  /\ \A x \in Sides : "write" \in be[x].shut =>
       /\ peer[Other(x)].fin
       /\ peer[x].got = Bytes(peer[Other(x)].sent) \/ (x = "relay" /\ early)

(* Each direction is a pipe that keeps the order.                          *)
Up == INSTANCE OrderedPipe WITH sent <- peer["client"].sent, got <- peer["relay"].got
Down == INSTANCE OrderedPipe WITH sent <- peer["relay"].sent, got <- peer["client"].got
Implements == Up!Spec /\ Down!Spec

(* libevent runs what is ready; a peer takes and answers what it gets, and *)
(* ends its own stream when it has seen the end of the other one.          *)
Fairness ==
  /\ WF_vars(Answer)
  /\ \A x \in Sides :
       /\ WF_vars(Read(x)) /\ WF_vars(Write(x))
       /\ WF_vars("write" \in be[x].shut /\ PeerEnds(x))
FairSpec == Spec /\ Fairness

(* While the handshake is not over, the end of a stream may take the last  *)
(* event there is: of a relay that is still connecting, or of one whose    *)
(* first message was not written yet, because socks5_write_cb does not     *)
(* finish the shutdown.  Nothing is left that would drop the client.       *)
Forgotten == Live /\ state # "relaying" /\ \A x \in Sides : ~be[x].read /\ ~be[x].write

(* What is sent is delivered or the client is dropped, in both directions, *)
(* and the end of either peer drops the client at last, but for a client   *)
(* that was forgotten, or is not read again.                               *)
Excused == Forgotten \/ be["client"].suspended
Progress ==
  /\ \A x \in Sides :
       (state = "relaying" /\ Len(peer[Other(x)].got) < peer[x].sent)
         ~> (Len(peer[Other(x)].got) = peer[x].sent \/ ~Live \/ Excused)
  /\ (\E x \in Sides : peer[x].fin) ~> (~Live \/ Excused)

=============================================================================
