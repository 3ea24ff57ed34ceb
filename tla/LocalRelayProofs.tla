-------------------------- MODULE LocalRelayProofs --------------------------
(***************************************************************************)
(* Proof that the watchers of ss-local follow its buffers, that no end of  *)
(* a stream cuts off what came before it, and that each direction of a     *)
(* connection is a pipe that keeps the order: for any size of the buffers  *)
(* and any number of bytes.                                                *)
(***************************************************************************)
EXTENDS LocalRelay, FiniteSetTheorems, TLAPS

Units == Seq(Nat)

FarTyped(f) ==
  /\ DOMAIN f = {"sent", "unread", "fin", "greeted", "told", "got"}
  /\ f.sent \in Nat /\ f.unread \in Units
Obfuscations ==
  [kind : {"plain", "http", "tls"}, status : {0, 1, 8}, saved : Units, heard : BOOLEAN]
OthersTyped ==
  /\ obfs \in Obfuscations
  /\ client \in [sent : Nat, read : Nat, fin : BOOLEAN, got : Units]
  /\ FarTyped(far) /\ shortReply \in BOOLEAN
Servers ==
  [stage : {"init", "handshake", "associated", "parse", "stream"},
   buf : Units, recvIo : BOOLEAN, sendIo : BOOLEAN]
Remotes ==
  [state : {"none", "connecting", "connected"}, direct : BOOLEAN, buf : Units,
   recvIo : BOOLEAN, sendIo : BOOLEAN, connectTimer : BOOLEAN, idleTimer : BOOLEAN]
Typed == OthersTyped /\ server \in Servers /\ remote \in Remotes

(* A connection that was closed has no watcher and no timer left.          *)
Off ==
  /\ ~server.recvIo /\ ~server.sendIo
  /\ ~remote.recvIo /\ ~remote.sendIo /\ ~remote.connectTimer /\ ~remote.idleTimer

(* Until the request is complete only the client is listened to.           *)
Before ==
  /\ server.recvIo /\ ~server.sendIo
  /\ remote.state = "none" /\ remote.buf = <<>> /\ ~remote.recvIo /\ ~remote.sendIo
  /\ ~remote.connectTimer /\ ~remote.idleTimer
  /\ obfs.status = 0 /\ obfs.saved = <<>> /\ ~shortReply
  /\ far.told = 0 /\ far.unread = <<>>

(* The direction of the client: there is something to send, or nothing, or *)
(* what a short reply has left.  The hello is sent before it is answered.  *)
Sending ==
  /\ remote.sendIo /\ ~server.recvIo /\ ~shortReply
  /\ remote.state = "connected" => remote.buf # <<>>
  /\ Held => remote.buf = <<0>> /\ far.told = 0 /\ far.unread = <<>>
Resting ==
  /\ ~remote.sendIo /\ remote.buf = <<>> /\ ~shortReply
  /\ remote.state = "connected"
  /\ server.recvIo \/ Held
Short ==
  /\ ~remote.sendIo /\ remote.buf # <<>> /\ shortReply
  /\ remote.state = "connected"
  /\ ~Held

(* The direction of the far end, and the handshake.                        *)
Receiving ==
  /\ server.sendIo <=> server.buf # <<>>
  /\ remote.state \in {"connecting", "connected"}
  /\ remote.state = "connecting" => ~remote.recvIo /\ ~server.sendIo
  /\ remote.state = "connected" => (remote.recvIo <=> ~server.sendIo)
Greeting ==
  /\ obfs.saved # <<>> => Held
  /\ Tls(remote) => obfs.status # 0

Streaming == Receiving /\ Greeting /\ (Sending \/ Resting \/ Short)

IInv ==
  /\ Typed /\ ended # "empty"
  /\ ~Live => Off
  /\ Live /\ server.stage # "stream" => Before
  /\ Live /\ server.stage = "stream" => Streaming

-----------------------------------------------------------------------------
(* Sequences of units.                                                     *)

LEMMA EmptyUnits == <<>> \in Units
BY DEF Units

LEMMA DropUnits ==
  ASSUME NEW s \in Units, NEW n \in Nat, n <= Len(s)
  PROVE  Drop(s, n) \in Units /\ (n < Len(s) => Drop(s, n) # <<>>)
<1>1. Len(Drop(s, n)) = Len(s) - n
  BY DEF Drop, Units
<1>2. Drop(s, n) \in Units
  BY DEF Drop, Units
<1>3. QED
  BY <1>1, <1>2 DEF Units

LEMMA PartOf ==
  ASSUME NEW size \in Nat, NEW n \in 1..(size - 1)
  PROVE  n \in Nat /\ n <= size /\ size # 1
OBVIOUS

LEMMA DropMore ==
  ASSUME NEW s \in Units, NEW n \in 0..(Len(s) - 1)
  PROVE  Drop(s, n) \in Units /\ Drop(s, n) # <<>>
<1>1. Len(s) \in Nat
  BY DEF Units
<1>2. n \in Nat /\ n < Len(s)
  BY <1>1
<1>3. QED
  BY <1>1, <1>2, DropUnits

LEMMA FrontUnits ==
  ASSUME NEW s \in Units, NEW n \in Nat, n <= Len(s)
  PROVE  Front(s, n) \in Units
BY DEF Front, Units

LEMMA OneUnit == Front(<<0>>, 0) = <<>> /\ Drop(<<0>>, 0) = <<0>>
<1> DEFINE s == <<0>>
<1>1. s \in Seq(Nat) /\ Len(s) = 1
  OBVIOUS
<1> HIDE DEF s
<1>2. SubSeq(s, 1, 0) = <<>> /\ SubSeq(s, 1, Len(s)) = s
  BY <1>1
<1>3. QED
  BY <1>2 DEF Front, Drop, s

LEMMA BytesUnits ==
  ASSUME NEW from \in Nat, NEW n \in Nat
  PROVE  Bytes(from, from + n) \in Units /\ (n > 0 => Bytes(from, from + n) # <<>>)
<1> DEFINE b == [i \in 1..n |-> from + i]
<1>1. Bytes(from, from + n) = b
  BY DEF Bytes
<1>2. b \in Units /\ Len(b) = n
  BY DEF Units
<1>3. QED
  BY <1>1, <1>2

LEMMA NoZeros == Zeros(<<>>) = 0
<1>1. {i \in DOMAIN <<>> : <<>>[i] = 0} = {}
  OBVIOUS
<1>2. QED
  BY <1>1, FS_EmptySet DEF Zeros

(* What a send changes of the far end.                                     *)
LEMMA GotFar ==
  ASSUME NEW f, FarTyped(f), NEW units
  PROVE  /\ FarTyped(Got(f, units)) /\ Got(f, units).unread = f.unread
         /\ units = <<>> /\ f.told = 0 => Got(f, units).told = 0
<1> DEFINE g == Got(f, units)
<1>1. DOMAIN g = DOMAIN f /\ g.unread = f.unread /\ g.sent = f.sent
  BY DEF Got, FarTyped
<1>2. ASSUME units = <<>>, f.told = 0
      PROVE  g.told = 0
  <2>1. g.told = f.told + Zeros(units)
    BY DEF Got, FarTyped
  <2>2. QED
    BY <1>2, <2>1, NoZeros
<1>3. QED
  BY <1>1, <1>2 DEF FarTyped

-----------------------------------------------------------------------------
LEMMA CloseBothIInv ==
  ASSUME Typed, OthersTyped', NEW why, why # "no", why # "empty", CloseBoth(why)
  PROVE  IInv'
<1>1. ended' = why
  BY DEF CloseBoth
<1>2. Typed'
  BY DEF Typed, CloseBoth, Servers, Remotes
<1>3. Off'
  BY DEF Typed, CloseBoth, Off, Servers, Remotes
<1>4. QED
  BY <1>1, <1>2, <1>3 DEF IInv, Live

(* The first data opens the connection: s and r are what server_recv_cb    *)
(* has made of the two sides, wire what client_encode has made of the data *)
LEMMA ConnectIInv ==
  ASSUME Typed, Live, Before, NEW direct \in BOOLEAN, NEW wire \in Units,
         NEW s, s = [server EXCEPT !.stage = "stream", !.buf = <<>>],
         NEW r, r = [remote EXCEPT !.direct = direct],
         obfs' \in Obfuscations,
         obfs'.saved # <<>> => obfs'.kind = "tls" /\ ~direct /\ obfs'.status = 1,
         obfs'.kind = "tls" /\ ~direct => obfs'.status = 1 /\ wire = << 0 >>,
         client' \in [sent : Nat, read : Nat, fin : BOOLEAN, got : Units],
         UNCHANGED shortReply, Connect(s, r, wire)
  PROVE  IInv'
<1> DEFINE waiting == [r EXCEPT !.state = "connecting"]
<1>1. CASE CloseBoth("error") /\ UNCHANGED far
  <2>1. OthersTyped'
    BY <1>1 DEF Typed, OthersTyped
  <2>2. QED
    BY <1>1, <2>1, CloseBothIInv
<1>2. ASSUME NEW timer \in BOOLEAN, NEW units \in Units,
             WaitForRemote(s, [waiting EXCEPT !.connectTimer = timer], units),
             FarTyped(far'), far'.unread = far.unread,
             wire = << 0 >> => units = << 0 >> /\ far'.told = 0
      PROVE  IInv'
  <2>1. /\ server' = [s EXCEPT !.recvIo = FALSE]
        /\ remote' = [[waiting EXCEPT !.connectTimer = timer] EXCEPT !.sendIo = TRUE, !.buf = units]
        /\ UNCHANGED ended
    BY <1>2 DEF WaitForRemote
  <2>2. Typed'
    <3>1. s \in Servers /\ r \in Remotes
      BY EmptyUnits DEF Typed, Servers, Remotes
    <3>2. server' \in Servers /\ remote' \in Remotes
      BY <2>1, <3>1 DEF Servers, Remotes
    <3>3. OthersTyped'
      BY <1>2 DEF Typed, OthersTyped
    <3>4. QED
      BY <3>2, <3>3 DEF Typed
  <2>3. /\ remote'.state = "connecting" /\ remote'.buf = units /\ remote'.direct = direct
        /\ remote'.sendIo /\ ~remote'.recvIo
        /\ server'.stage = "stream" /\ ~server'.recvIo /\ ~server'.sendIo /\ server'.buf = <<>>
    BY <2>1 DEF Typed, Before, Servers, Remotes
  <2>4. Sending'
    BY <1>2, <2>3 DEF Sending, Held, Tls, Before
  <2>5. Receiving' /\ Greeting'
    BY <2>3 DEF Receiving, Greeting, Held, Tls
  <2>6. QED
    BY <2>1, <2>2, <2>3, <2>4, <2>5 DEF IInv, Streaming, Live
<1>3. ASSUME NEW timer \in BOOLEAN, WaitForRemote(s, [waiting EXCEPT !.connectTimer = timer], wire),
             UNCHANGED far
      PROVE  IInv'
  <2>1. FarTyped(far') /\ far'.unread = far.unread /\ far'.told = 0
    BY <1>3 DEF Typed, OthersTyped, Before
  <2>2. QED
    BY <1>2, <1>3, <2>1
<1>4. ASSUME NEW n \in 1..(Len(wire) - 1), FarGets(Front(wire, n)),
             WaitForRemote(s, [waiting EXCEPT !.connectTimer = TRUE], Drop(wire, n))
      PROVE  IInv'
  <2>1. n \in Nat /\ n <= Len(wire) /\ wire # <<0>>
    <3>1. Len(wire) \in Nat /\ Len(<<0>>) = 1
      BY DEF Units
    <3>2. n \in Nat /\ n <= Len(wire) /\ Len(wire) # 1
      BY <3>1, PartOf
    <3>3. QED
      BY <3>1, <3>2
  <2>2. FarTyped(far') /\ far'.unread = far.unread
    BY <1>4, GotFar DEF FarGets, Typed, OthersTyped
  <2>3. Drop(wire, n) \in Units
    BY <2>1, DropUnits
  <2>4. QED
    BY <1>2, <1>4, <2>1, <2>2, <2>3
<1>5. CASE /\ FarGets(wire)
           /\ remote' = [r EXCEPT !.state = "connected", !.recvIo = TRUE, !.idleTimer = TRUE]
           /\ server' = s /\ UNCHANGED ended
  <2>1. FarTyped(far')
    BY <1>5, GotFar DEF FarGets, Typed, OthersTyped
  <2>2. Typed'
    <3>1. s \in Servers /\ r \in Remotes
      BY EmptyUnits DEF Typed, Servers, Remotes
    <3>2. server' \in Servers /\ remote' \in Remotes
      BY <1>5, <3>1 DEF Servers, Remotes
    <3>3. OthersTyped'
      BY <2>1 DEF Typed, OthersTyped
    <3>4. QED
      BY <3>2, <3>3 DEF Typed
  <2>3. /\ remote'.state = "connected" /\ remote'.buf = <<>> /\ remote'.direct = direct
        /\ ~remote'.sendIo /\ remote'.recvIo
        /\ server'.stage = "stream" /\ server'.recvIo /\ ~server'.sendIo /\ server'.buf = <<>>
    BY <1>5 DEF Typed, Before, Servers, Remotes
  <2>4. Resting'
    BY <2>3 DEF Resting, Before
  <2>5. Receiving' /\ Greeting'
    BY <2>3 DEF Receiving, Greeting, Held, Tls
  <2>6. QED
    BY <1>5, <2>2, <2>3, <2>4, <2>5 DEF IInv, Streaming, Live
<1>6. QED
  BY <1>1, <1>3, <1>4, <1>5 DEF Connect

(* The destination is known: the data goes there or to a server.           *)
LEMMA DispatchIInv ==
  ASSUME Typed, Live, Before, server.stage # "stream", ended # "empty",
         client' \in [sent : Nat, read : Nat, fin : BOOLEAN, got : Units],
         NEW units \in Units, UNCHANGED shortReply, Dispatch(units)
  PROVE  IInv'
<1>1. CASE CloseBoth("error") /\ UNCHANGED <<obfs, far>>
  BY <1>1, CloseBothIInv DEF Typed, OthersTyped
<1>2. ASSUME NEW direct \in BOOLEAN,
             Relay([server EXCEPT !.stage = "stream", !.buf = <<>>],
                   [remote EXCEPT !.direct = direct],
                   (IF direct THEN <<>> ELSE << 0 >>) \o units)
      PROVE  IInv'
  <2> DEFINE s == [server EXCEPT !.stage = "stream", !.buf = <<>>]
             r == [remote EXCEPT !.direct = direct]
             first == (IF direct THEN <<>> ELSE <<0>>) \o units
  <2>1. r.state = "none" /\ r.direct = direct
    BY DEF Typed, Before, Remotes
  <2>2. first \in Units /\ (~direct => first # <<>>)
    <3>1. CASE direct
      BY <3>1 DEF Units
    <3>2. CASE ~direct
      <4>1. first = <<0>> \o units /\ first \in Units /\ Len(first) = 1 + Len(units)
        BY <3>2 DEF Units
      <4>2. QED
        BY <4>1 DEF Units
    <3>3. QED
      BY <3>1, <3>2
  <2> HIDE DEF s, r, first
  <2>3. CASE ~Tls(r)
    <3>1. PICK wire \in Units : /\ Connect(s, r, wire) /\ obfs' \in Obfuscations
                                /\ obfs'.kind = obfs.kind /\ obfs'.saved = <<>>
      <4>1. CASE Http(r)
        <5>1. obfs' = [obfs EXCEPT !.status = 8, !.saved = <<>>] /\ Connect(s, r, <<0>> \o first)
          BY <1>2, <2>1, <2>3, <4>1 DEF Relay, Encode, Handshaken, Before, s, r, first
        <5>2. <<0>> \o first \in Units
          BY <2>2 DEF Units
        <5>3. obfs' \in Obfuscations /\ obfs'.kind = obfs.kind /\ obfs'.saved = <<>>
          BY <5>1, EmptyUnits DEF Typed, OthersTyped, Obfuscations
        <5>4. QED
          BY <5>1, <5>2, <5>3
      <4>2. CASE ~Http(r)
        <5>1. UNCHANGED obfs /\ Connect(s, r, first)
          BY <1>2, <2>1, <2>3, <4>2 DEF Relay, Encode, s, r, first
        <5>2. QED
          BY <2>2, <5>1 DEF Before, Typed, OthersTyped
      <4>3. QED
        BY <4>1, <4>2
    <3>2. obfs'.kind = "tls" => direct
      BY <2>1, <2>3, <3>1 DEF Tls
    <3>3. QED
      BY <3>1, <3>2, ConnectIInv DEF s, r
  <2>4. CASE Tls(r)
    <3>1. ~direct /\ obfs.kind = "tls" /\ first # <<>>
      BY <2>1, <2>2, <2>4 DEF Tls
    <3>2. /\ obfs' = [obfs EXCEPT !.status = 1, !.saved = @ \o first]
          /\ Connect(s, r, <<0>>)
      BY <1>2, <2>1, <2>4, <3>1 DEF Relay, Encode, Before, Http, s, r, first
    <3>3. /\ obfs' \in Obfuscations
          /\ obfs'.kind = "tls" /\ obfs'.status = 1
      <4>1. obfs.saved \o first \in Units
        BY <2>2 DEF Typed, OthersTyped, Obfuscations, Units
      <4>2. QED
        BY <3>1, <3>2, <4>1 DEF Typed, OthersTyped, Obfuscations
    <3>4. <<0>> \in Units
      BY DEF Units
    <3>5. QED
      BY <3>1, <3>2, <3>3, <3>4, ConnectIInv DEF s, r
  <2>5. QED
    BY <2>3, <2>4
<1>3. QED
  BY <1>1, <1>2 DEF Dispatch

(* The request is complete, or more of the first data is waited for.       *)
LEMMA OpenRemoteIInv ==
  ASSUME Typed, Live, Before, server.stage # "stream", ended # "empty",
         client' \in [sent : Nat, read : Nat, fin : BOOLEAN, got : Units],
         NEW units \in Units, UNCHANGED shortReply, OpenRemote(units)
  PROVE  IInv'
<1>1. CASE /\ server' = [server EXCEPT !.stage = "parse", !.buf = units]
           /\ UNCHANGED <<remote, obfs, far, ended>>
  <2>1. Typed'
    BY <1>1 DEF Typed, OthersTyped, Servers
  <2>2. Before'
    BY <1>1 DEF Before, Typed, Servers
  <2>3. server'.stage = "parse" /\ Live'
    BY <1>1 DEF Typed, Servers, Live
  <2>4. QED
    BY <1>1, <2>1, <2>2, <2>3 DEF IInv
<1>2. CASE Dispatch(units)
  BY <1>2, DispatchIInv
<1>3. QED
  BY <1>1, <1>2 DEF OpenRemote

-----------------------------------------------------------------------------
(* What is read of the client.                                             *)
LEMMA ReadUnits ==
  ASSUME Typed, NEW size \in Nat, NEW n \in 0..Lesser(Unread, size)
  PROVE  /\ n \in Nat /\ Read(n) \in Units /\ (n > 0 => Read(n) # <<>>)
         /\ [client EXCEPT !.read = @ + n] \in [sent : Nat, read : Nat, fin : BOOLEAN, got : Units]
<1>1. client.read \in Nat /\ client.sent \in Nat
  BY DEF Typed, OthersTyped
<1>2. n \in Nat
  BY <1>1 DEF Lesser, Unread
<1>3. Read(n) \in Units /\ (n > 0 => Read(n) # <<>>)
  BY <1>1, <1>2, BytesUnits DEF Read
<1>4. client.read + n \in Nat
  BY <1>1, <1>2
<1>5. QED
  BY <1>2, <1>3, <1>4 DEF Typed, OthersTyped

LEMMA RecvRequestIInv == IInv /\ RecvRequest => IInv'
<1> SUFFICES ASSUME IInv, RecvRequest PROVE IInv'
  OBVIOUS
<1>1. Typed /\ Live /\ server.stage # "stream" /\ Before /\ ended # "empty"
  BY DEF RecvRequest, IInv, Off
<1>2. PICK n \in 0..Lesser(Unread, BufSize) : Reads(n) /\ OpenRemote(Read(n))
  BY DEF RecvRequest
<1>3. Read(n) \in Units /\ client' \in [sent : Nat, read : Nat, fin : BOOLEAN, got : Units]
  BY <1>1, <1>2, ReadUnits, SizesAssumption DEF Reads
<1>4. QED
  BY <1>1, <1>2, <1>3, OpenRemoteIInv DEF RecvRequest

LEMMA RecvTunnelledIInv == IInv /\ RecvTunnelled => IInv'
<1> SUFFICES ASSUME IInv, RecvTunnelled PROVE IInv'
  OBVIOUS
<1>1. Typed /\ Live /\ server.stage # "stream" /\ Before /\ ended # "empty"
  BY DEF RecvTunnelled, IInv, Off
<1>2. PICK n \in 1..Lesser(Unread, BufSize) : Reads(n) /\ Dispatch(Read(n))
  BY DEF RecvTunnelled
<1>3. BufSize \in Nat /\ n \in 0..Lesser(Unread, BufSize)
  BY <1>1, SizesAssumption DEF Typed, OthersTyped, Lesser, Unread
<1>4. Read(n) \in Units /\ client' \in [sent : Nat, read : Nat, fin : BOOLEAN, got : Units]
  BY <1>1, <1>2, <1>3, ReadUnits DEF Reads
<1>5. QED
  BY <1>1, <1>2, <1>4, DispatchIInv DEF RecvTunnelled

LEMMA RecvFirstDataIInv == IInv /\ RecvFirstData => IInv'
<1> SUFFICES ASSUME IInv, RecvFirstData PROVE IInv'
  OBVIOUS
<1>1. Typed /\ Live /\ server.stage # "stream" /\ Before /\ ended # "empty"
  BY DEF RecvFirstData, IInv, Off
<1>2. PICK n \in 1..Lesser(Unread, BufSize - Len(server.buf)) :
             Reads(n) /\ OpenRemote(server.buf \o Read(n))
  BY DEF RecvFirstData
<1>3. server.buf \in Units /\ n \in 0..Lesser(Unread, n)
  <2>1. server.buf \in Units /\ Len(server.buf) \in Nat /\ BufSize \in Nat
    BY <1>1, SizesAssumption DEF Typed, Servers, Units
  <2>2. client.read \in Nat /\ client.sent \in Nat
    BY <1>1 DEF Typed, OthersTyped
  <2>3. QED
    BY <2>1, <2>2 DEF Lesser, Unread
<1>4. Read(n) \in Units /\ client' \in [sent : Nat, read : Nat, fin : BOOLEAN, got : Units]
  BY <1>1, <1>2, <1>3, ReadUnits DEF Reads
<1>5. server.buf \o Read(n) \in Units
  BY <1>3, <1>4 DEF Units
<1>6. QED
  BY <1>1, <1>2, <1>4, <1>5, OpenRemoteIInv DEF RecvFirstData

(* The greeting of the client, and a request for UDP.                      *)
LEMMA GreetingIInv == IInv /\ (RecvGreeting \/ RecvAssociate) => IInv'
<1> SUFFICES ASSUME IInv, RecvGreeting \/ RecvAssociate PROVE IInv'
  OBVIOUS
<1>1. Typed /\ Live /\ server.stage # "stream" /\ Before /\ ended # "empty"
  BY DEF RecvGreeting, RecvAssociate, IInv, Off
<1>2. PICK next \in {"handshake", "associated"} :
        /\ server' = [server EXCEPT !.stage = next]
        /\ UNCHANGED <<remote, obfs, client, far, ended, shortReply>>
  BY DEF RecvGreeting, RecvAssociate
<1>3. Typed'
  BY <1>1, <1>2 DEF Typed, OthersTyped, Servers
<1>4. Before' /\ Live' /\ server'.stage = next
  BY <1>1, <1>2 DEF Before, Live, Typed, Servers
<1>5. QED
  BY <1>1, <1>2, <1>3, <1>4 DEF IInv

LEMMA RecvEndIInv == IInv /\ RecvEnd => IInv'
<1> SUFFICES ASSUME IInv, RecvEnd PROVE IInv'
  OBVIOUS
<1>1. Typed /\ OthersTyped' /\ CloseBoth("client")
  BY DEF RecvEnd, IInv, Typed, OthersTyped
<1>2. QED
  BY <1>1, CloseBothIInv

-----------------------------------------------------------------------------
(* The next lemmas are about an open connection in STAGE_STREAM.           *)
Streams == Typed /\ Live /\ server.stage = "stream" /\ Streaming /\ ended # "empty"

(* Data of the client: it is sent, kept back, or kept in the buffer.       *)
LEMMA RecvDataIInv == IInv /\ RecvData => IInv'
<1> SUFFICES ASSUME IInv, RecvData PROVE IInv'
  OBVIOUS
<1>1. Streams /\ server.recvIo /\ UNCHANGED shortReply
  BY DEF RecvData, IInv, Off, Streams
<1>2. PICK n \in 1..Lesser(Unread, BufSize) :
        /\ Reads(n)
        /\ IF remote.buf # <<>>
             THEN CloseBoth("garbled") /\ UNCHANGED <<obfs, far>>
             ELSE Relay(server, remote, Read(n))
  BY DEF RecvData
<1> DEFINE units == Read(n)
<1>3. /\ units \in Units /\ units # <<>>
      /\ client' \in [sent : Nat, read : Nat, fin : BOOLEAN, got : Units]
  <2>1. client.read \in Nat /\ client.sent \in Nat
    BY <1>1 DEF Streams, Typed, OthersTyped
  <2>2. n \in 0..Lesser(Unread, BufSize) /\ n > 0
    BY <2>1, SizesAssumption DEF Lesser, Unread
  <2>3. QED
    BY <1>1, <1>2, <2>2, SizesAssumption, ReadUnits DEF Reads, Streams
<1> HIDE DEF units
<1>4. CASE CloseBoth("garbled") /\ UNCHANGED <<obfs, far>>
  BY <1>1, <1>3, <1>4, CloseBothIInv DEF Typed, OthersTyped, Streams
<1>5. CASE remote.buf = <<>> /\ Relay(server, remote, units)
  <2>1. Resting /\ remote.state = "connected" /\ ~remote.sendIo /\ ~shortReply
    BY <1>1, <1>5 DEF Streams, Streaming, Sending, Resting, Short
  <2>2. CASE ~Tls(remote) \/ obfs.status = 8
    <3>1. PICK wire \in Units :
            /\ wire # <<>> /\ SendNow(server, remote, wire)
            /\ obfs' \in Obfuscations /\ obfs'.kind = obfs.kind
            /\ obfs' = obfs \/ (obfs'.saved = <<>> /\ ~Tls(remote))
      <4>1. CASE Http(remote) /\ obfs.status # 8
        <5>1. /\ obfs' = [obfs EXCEPT !.status = 8, !.saved = <<>>]
              /\ SendNow(server, remote, <<0>> \o units)
          BY <1>5, <2>1, <2>2, <4>1 DEF Relay, Encode, Handshaken
        <5>2. <<0>> \o units \in Units /\ <<0>> \o units # <<>>
          BY <1>3 DEF Units
        <5>3. obfs' \in Obfuscations /\ obfs'.kind = obfs.kind /\ obfs'.saved = <<>>
          BY <1>1, <5>1, EmptyUnits DEF Streams, Typed, OthersTyped, Obfuscations
        <5>4. QED
          BY <2>2, <4>1, <5>1, <5>2, <5>3
      <4>2. CASE ~Http(remote) \/ obfs.status = 8
        <5>1. UNCHANGED obfs /\ SendNow(server, remote, units)
          BY <1>5, <2>1, <2>2, <4>2 DEF Relay, Encode
        <5>2. QED
          BY <1>1, <1>3, <5>1 DEF Streams, Typed, OthersTyped
      <4>3. QED
        BY <4>1, <4>2
    <3>2. ~Held /\ (obfs'.status = 1 => ~(obfs'.kind = "tls" /\ ~remote.direct))
      BY <2>2, <3>1 DEF Held, Tls
    <3>3. CASE CloseBoth("error") /\ UNCHANGED far
      BY <1>1, <1>3, <3>1, <3>3, CloseBothIInv DEF Typed, OthersTyped, Streams
    <3>4. ASSUME NEW k \in 0..(Len(wire) - 1), FarGets(Front(wire, k)),
                 WaitForRemote(server, remote, Drop(wire, k))
          PROVE  IInv'
      <4>1. Drop(wire, k) \in Units /\ Drop(wire, k) # <<>>
        BY <3>1, DropMore
      <4>2. OthersTyped'
        BY <1>1, <1>3, <3>1, <3>4, GotFar DEF FarGets, Typed, OthersTyped, Streams
      <4>3. /\ server' = [server EXCEPT !.recvIo = FALSE]
            /\ remote' = [remote EXCEPT !.sendIo = TRUE, !.buf = Drop(wire, k)]
            /\ UNCHANGED ended
        BY <3>4 DEF WaitForRemote
      <4>4. Typed'
        BY <1>1, <4>1, <4>2, <4>3 DEF Streams, Typed, Servers, Remotes
      <4>5. /\ remote'.state = "connected" /\ remote'.sendIo /\ remote'.buf # <<>>
            /\ remote'.recvIo = remote.recvIo /\ remote'.direct = remote.direct
            /\ server'.stage = "stream" /\ ~server'.recvIo
            /\ server'.sendIo = server.sendIo /\ server'.buf = server.buf
        BY <1>1, <2>1, <4>1, <4>3 DEF Streams, Typed, Servers, Remotes
      <4>6. Sending' /\ Held' = Held
        BY <1>1, <2>1, <3>1, <3>2, <4>5 DEF Sending, Held, Tls
      <4>7. Receiving' /\ Greeting'
        BY <1>1, <2>1, <3>1, <3>2, <4>5, <4>6 DEF Streams, Streaming, Receiving, Greeting, Tls
      <4>8. QED
        BY <1>1, <4>3, <4>4, <4>5, <4>6, <4>7 DEF IInv, Streaming, Live, Streams
    <3>5. CASE FarGets(wire) /\ server' = server /\ remote' = remote /\ UNCHANGED ended
      <4>1. OthersTyped'
        BY <1>1, <1>3, <3>1, <3>5, GotFar DEF FarGets, Typed, OthersTyped, Streams
      <4>2. QED
        BY <1>1, <2>1, <3>1, <3>5, <4>1
           DEF IInv, Streams, Streaming, Typed, Live, Resting, Receiving, Greeting, Held, Tls
    <3>6. QED
      BY <1>3, <3>1, <3>3, <3>4, <3>5 DEF SendNow, KeepRest
  <2>3. CASE Tls(remote) /\ obfs.status # 8
    <3>1. /\ obfs' = [obfs EXCEPT !.status = 1, !.saved = @ \o units]
          /\ SendNow(server, remote, <<>>)
      BY <1>1, <1>3, <1>5, <2>1, <2>3 DEF Relay, Encode, Http, Tls, Streams, Streaming, Greeting
    <3>2. server' = [server EXCEPT !.recvIo = FALSE] /\ remote' = remote /\ UNCHANGED <<far, ended>>
      BY <3>1 DEF SendNow
    <3>3. obfs.saved \o units \in Units
      BY <1>1, <1>3 DEF Streams, Typed, OthersTyped, Obfuscations, Units
    <3>4. Typed'
      <4>1. obfs' \in Obfuscations
        BY <1>1, <3>1, <3>3 DEF Streams, Typed, OthersTyped, Obfuscations
      <4>2. QED
        BY <1>1, <1>3, <3>2, <4>1 DEF Streams, Typed, OthersTyped, Servers
    <3>5. Held'
      BY <1>1, <2>3, <3>1, <3>2 DEF Held, Tls, Streams, Typed, OthersTyped, Obfuscations
    <3>6. /\ server'.stage = "stream" /\ server'.sendIo = server.sendIo
          /\ server'.buf = server.buf /\ obfs'.status = 1
      BY <1>1, <3>1, <3>2 DEF Streams, Typed, OthersTyped, Obfuscations, Servers
    <3>7. QED
      BY <1>1, <2>1, <3>2, <3>4, <3>5, <3>6
         DEF IInv, Streams, Streaming, Live, Resting, Receiving, Greeting
  <2>4. QED
    BY <2>2, <2>3
<1>6. QED
  BY <1>2, <1>4, <1>5 DEF units

(* What the watcher of the far end finds when it may be written to.  open  *)
(* is the connection, which may just have been opened.                     *)
LEMMA FlushIInv ==
  ASSUME Streams, Sending, OthersTyped, UNCHANGED <<obfs, client, shortReply>>,
         NEW open \in Remotes, open.state = "connected", open.buf = remote.buf, remote.buf # <<>>,
         open.sendIo, open.direct = remote.direct, open.recvIo <=> ~server.sendIo,
         Flush(open)
  PROVE  IInv'
<1>1. remote.buf \in Units
  BY DEF Streams, Typed, Remotes
<1>2. CASE CloseBoth("error") /\ UNCHANGED far
  BY <1>2, CloseBothIInv DEF Typed, OthersTyped, Streams
<1>3. ASSUME NEW n \in 0..(Len(remote.buf) - 1), FarGets(Front(remote.buf, n)),
             remote' = [open EXCEPT !.buf = Drop(@, n)], UNCHANGED <<server, ended>>
      PROVE  IInv'
  <2>1. Drop(remote.buf, n) \in Units /\ Drop(remote.buf, n) # <<>>
    BY <1>1, DropMore
  <2>2. /\ remote' \in Remotes /\ remote'.state = "connected" /\ remote'.buf = Drop(remote.buf, n)
        /\ remote'.sendIo /\ remote'.direct = remote.direct /\ remote'.recvIo = open.recvIo
    BY <1>3, <2>1 DEF Remotes
  <2>3. OthersTyped' /\ far'.unread = far.unread
    BY <1>3, GotFar DEF FarGets, OthersTyped
  <2>4. Typed'
    BY <1>3, <2>2, <2>3 DEF Streams, Typed
  <2>5. Held' = Held
    BY <2>2 DEF Held, Tls
  <2>6. Held => remote'.buf = <<0>> /\ far'.told = 0
    <3>1. SUFFICES ASSUME Held PROVE remote'.buf = <<0>> /\ far'.told = 0
      OBVIOUS
    <3>2. remote.buf = <<0>> /\ far.told = 0
      BY <3>1 DEF Sending
    <3>3. n = 0
      <4>1. Len(<<0>>) = 1
        OBVIOUS
      <4>2. Len(remote.buf) = 1
        BY <3>2, <4>1
      <4>3. QED
        BY <4>2
    <3>4. Front(remote.buf, n) = <<>> /\ Drop(remote.buf, n) = <<0>>
      BY <3>2, <3>3, OneUnit
    <3>5. QED
      BY <1>3, <2>2, <3>2, <3>4, GotFar DEF FarGets, OthersTyped
  <2>7. Sending'
    BY <1>3, <2>1, <2>2, <2>3, <2>5, <2>6 DEF Sending
  <2>8. Receiving' /\ Greeting'
    BY <1>3, <2>2, <2>5 DEF Streams, Streaming, Receiving, Greeting, Tls
  <2>9. QED
    BY <1>3, <2>4, <2>7, <2>8 DEF IInv, Streams, Streaming, Live
<1>4. CASE FarGets(remote.buf) /\ ListenToClient(open)
  <2>1. /\ remote' = [open EXCEPT !.sendIo = FALSE, !.buf = <<>>]
        /\ server' = [server EXCEPT !.recvIo = TRUE] /\ UNCHANGED ended
    BY <1>4 DEF ListenToClient
  <2>2. /\ remote' \in Remotes /\ remote'.state = "connected" /\ remote'.buf = <<>>
        /\ ~remote'.sendIo /\ remote'.direct = remote.direct /\ remote'.recvIo = open.recvIo
    BY <2>1, EmptyUnits DEF Remotes
  <2>3. /\ server' \in Servers /\ server'.stage = "stream" /\ server'.recvIo
        /\ server'.sendIo = server.sendIo /\ server'.buf = server.buf
    BY <2>1 DEF Streams, Typed, Servers
  <2>4. OthersTyped'
    BY <1>4, GotFar DEF FarGets, OthersTyped
  <2>5. Held' = Held
    BY <2>2 DEF Held, Tls
  <2>6. Resting'
    BY <2>2, <2>3 DEF Resting, Sending
  <2>7. Receiving' /\ Greeting'
    BY <2>2, <2>3, <2>5 DEF Streams, Streaming, Receiving, Greeting, Tls
  <2>8. QED
    BY <2>1, <2>2, <2>3, <2>4, <2>6, <2>7 DEF IInv, Streams, Streaming, Live, Typed
<1>5. QED
  BY <1>2, <1>3, <1>4 DEF Flush

LEMMA RemoteSendIInv == IInv /\ RemoteSend => IInv'
<1> SUFFICES ASSUME IInv, RemoteSend PROVE IInv'
  OBVIOUS
<1> DEFINE open == [remote EXCEPT !.state = "connected", !.connectTimer = FALSE,
                                  !.recvIo = TRUE, !.idleTimer = TRUE]
<1>1. Streams /\ remote.sendIo /\ UNCHANGED <<obfs, client, shortReply>>
  BY DEF RemoteSend, IInv, Off, Before, Streams
<1>2. Sending /\ OthersTyped
  BY <1>1 DEF Streams, Streaming, Resting, Short, Typed
<1>3. CASE remote.state = "connected"
  <2>1. remote.buf # <<>> /\ remote \in Remotes /\ (remote.recvIo <=> ~server.sendIo)
    BY <1>1, <1>2, <1>3 DEF Sending, Streams, Streaming, Receiving, Typed
  <2>2. Flush(remote)
    BY <1>3 DEF RemoteSend
  <2>3. QED
    BY <1>1, <1>2, <1>3, <2>1, <2>2, FlushIInv
<1>4. CASE remote.state = "connecting"
  <2>1. /\ open \in Remotes /\ open.state = "connected" /\ open.buf = remote.buf
        /\ open.sendIo /\ open.direct = remote.direct /\ open.recvIo
    BY <1>1 DEF Streams, Typed, Remotes
  <2>2. ~server.sendIo
    BY <1>1, <1>4 DEF Streams, Streaming, Receiving
  <2>3. CASE remote.buf # <<>>
    <3>1. Flush(open)
      BY <1>4, <2>3 DEF RemoteSend
    <3>2. QED
      BY <1>1, <1>2, <2>1, <2>2, <2>3, <3>1, FlushIInv
  <2>4. CASE remote.buf = <<>>
    <3>1. \/ CloseBoth("error") /\ UNCHANGED far
          \/ ListenToClient(open) /\ UNCHANGED far
      BY <1>4, <2>4 DEF RemoteSend
    <3>2. CASE CloseBoth("error") /\ UNCHANGED far
      BY <1>1, <1>2, <3>2, CloseBothIInv DEF Typed, OthersTyped, Streams
    <3>3. CASE ListenToClient(open) /\ UNCHANGED far
      <4>1. /\ remote' = [open EXCEPT !.sendIo = FALSE, !.buf = <<>>]
            /\ server' = [server EXCEPT !.recvIo = TRUE] /\ UNCHANGED ended
        BY <3>3 DEF ListenToClient
      <4>2. /\ remote' \in Remotes /\ remote'.state = "connected" /\ remote'.buf = <<>>
            /\ ~remote'.sendIo /\ remote'.direct = remote.direct /\ remote'.recvIo
        BY <1>1, <4>1, EmptyUnits DEF Remotes, Streams, Typed
      <4>3. /\ server' \in Servers /\ server'.stage = "stream" /\ server'.recvIo
            /\ ~server'.sendIo /\ server'.buf = server.buf
        BY <1>1, <2>2, <4>1 DEF Streams, Typed, Servers
      <4>4. OthersTyped' /\ Held' = Held
        BY <1>1, <1>2, <3>3, <4>2 DEF OthersTyped, Held, Tls
      <4>5. Resting'
        BY <1>1, <1>2, <4>2, <4>3 DEF Resting, Sending
      <4>6. Receiving' /\ Greeting'
        BY <1>1, <2>2, <4>2, <4>3, <4>4 DEF Streams, Streaming, Receiving, Greeting, Tls
      <4>7. QED
        BY <1>1, <4>1, <4>2, <4>3, <4>4, <4>5, <4>6 DEF IInv, Streams, Streaming, Live, Typed
    <3>4. QED
      BY <3>1, <3>2, <3>3
  <2>5. QED
    BY <2>3, <2>4
<1>5. QED
  BY <1>1, <1>3, <1>4 DEF Streams, Streaming, Receiving

(* The answer to the hello: what was kept back is sent, or a part of it.   *)
LEMMA SendBackIInv ==
  ASSUME Streams, remote.recvIo, far.unread # <<>>, Tls(remote), obfs.status # 8, SendBack
  PROVE  IInv'
<1> DEFINE read == [far EXCEPT !.unread = Drop(@, 1)]
           wire == <<0>> \o obfs.saved
<1>1. Held /\ Resting
  <2>1. obfs.status = 1 /\ Held
    BY DEF Streams, Streaming, Greeting, Typed, OthersTyped, Obfuscations, Held
  <2>2. QED
    BY <2>1 DEF Streams, Streaming, Sending, Short
<1>2. wire \in Units
  BY DEF Streams, Typed, OthersTyped, Obfuscations, Units
<1>3. FarTyped(read)
  <2>1. far.unread \in Units /\ Len(far.unread) \in Nat /\ Len(far.unread) # 0
    BY DEF Streams, Typed, OthersTyped, FarTyped, Units
  <2>2. Drop(far.unread, 1) \in Units
    BY <2>1, DropUnits
  <2>3. QED
    BY <2>2 DEF Streams, Typed, OthersTyped, FarTyped
<1>4. /\ obfs' = Handshaken(obfs) /\ UNCHANGED client
      /\ \/ CloseBoth("error") /\ UNCHANGED <<far, shortReply>>
         \/ \E n \in 0..(Len(wire) - 1) :
              /\ far' = Got(read, Front(wire, n))
              /\ remote' = [remote EXCEPT !.buf = Drop(wire, n)]
              /\ shortReply' = TRUE /\ UNCHANGED <<server, ended>>
         \/ /\ far' = Got(read, wire) /\ ListenToClient(remote) /\ UNCHANGED shortReply
  <2> HIDE DEF read, wire
  <2>1. ~Http(remote)
    BY DEF Http, Tls
  <2>2. QED
    BY <2>1 DEF SendBack, Encode, read, wire
<1> HIDE DEF read, wire
<1>5. /\ obfs' \in Obfuscations
      /\ obfs'.status = 8 /\ obfs'.saved = <<>> /\ client' = client
      /\ ~Held'
  <2>1. obfs' = [obfs EXCEPT !.status = 8, !.saved = <<>>] /\ client' = client
    BY <1>4 DEF Handshaken
  <2>2. /\ obfs' \in Obfuscations
        /\ obfs'.status = 8 /\ obfs'.saved = <<>>
    BY <2>1, EmptyUnits DEF Streams, Typed, OthersTyped, Obfuscations
  <2>3. ~Held'
    BY <2>2 DEF Held
  <2>4. QED
    BY <2>1, <2>2, <2>3
<1>6. CASE CloseBoth("error") /\ UNCHANGED <<far, shortReply>>
  BY <1>5, <1>6, CloseBothIInv DEF Streams, Typed, OthersTyped
<1>7. ASSUME NEW n \in 0..(Len(wire) - 1), far' = Got(read, Front(wire, n)),
             remote' = [remote EXCEPT !.buf = Drop(wire, n)],
             shortReply' = TRUE, UNCHANGED <<server, ended>>
      PROVE  IInv'
  <2>1. Drop(wire, n) \in Units /\ Drop(wire, n) # <<>>
    BY <1>2, DropMore
  <2>2. /\ remote' \in Remotes /\ remote'.state = remote.state /\ remote'.buf # <<>>
        /\ remote'.sendIo = remote.sendIo /\ remote'.recvIo = remote.recvIo
    BY <1>7, <2>1 DEF Streams, Typed, Remotes
  <2>3. OthersTyped'
    BY <1>3, <1>5, <1>7, GotFar DEF Streams, Typed, OthersTyped
  <2>4. Short' /\ Receiving' /\ Greeting'
    BY <1>1, <1>5, <1>7, <2>2
       DEF Streams, Streaming, Resting, Short, Receiving, Greeting
  <2>5. QED
    BY <1>7, <2>2, <2>3, <2>4 DEF IInv, Streams, Streaming, Live, Typed
<1>8. CASE far' = Got(read, wire) /\ ListenToClient(remote) /\ UNCHANGED shortReply
  <2>1. /\ remote' = [remote EXCEPT !.sendIo = FALSE, !.buf = <<>>]
        /\ server' = [server EXCEPT !.recvIo = TRUE] /\ UNCHANGED ended
    BY <1>8 DEF ListenToClient
  <2>2. /\ remote' \in Remotes /\ remote'.state = remote.state /\ remote'.buf = <<>>
        /\ ~remote'.sendIo /\ remote'.recvIo = remote.recvIo
    BY <2>1, EmptyUnits DEF Streams, Typed, Remotes
  <2>3. /\ server' \in Servers /\ server'.stage = "stream" /\ server'.recvIo
        /\ server'.sendIo = server.sendIo /\ server'.buf = server.buf
    BY <2>1 DEF Streams, Typed, Servers
  <2>4. OthersTyped'
    BY <1>3, <1>5, <1>8, GotFar DEF Streams, Typed, OthersTyped
  <2>5. Resting' /\ Receiving' /\ Greeting'
    BY <1>1, <1>5, <1>8, <2>2, <2>3
       DEF Streams, Streaming, Resting, Receiving, Greeting
  <2>6. QED
    BY <2>1, <2>2, <2>3, <2>4, <2>5 DEF IInv, Streams, Streaming, Live, Typed
<1>9. QED
  BY <1>4, <1>6, <1>7, <1>8

(* What the obfuscation takes away of what was read leaves units.          *)
LEMMA DecodeUnits ==
  ASSUME NEW units \in Units
  PROVE  Decode(units) \in Units
<1>1. Drop(units, 2) \in Units
  <2>1. Len(units) \in Nat
    BY DEF Units
  <2>2. CASE Len(units) < 3
    BY <2>1, <2>2 DEF Drop, Units
  <2>3. CASE Len(units) >= 3
    BY <2>1, <2>3, DropUnits
  <2>4. QED
    BY <2>1, <2>2, <2>3
<1>2. QED
  BY <1>1, EmptyUnits DEF Decode

(* Data of the far end: the client takes it, or what is left is kept.      *)
LEMMA ToClientIInv ==
  ASSUME Streams, remote.recvIo, ~(Tls(remote) /\ obfs.status # 8),
         NEW n \in 1..Lesser(Len(far.unread), BufSize),
         far' = [far EXCEPT !.unread = Drop(@, n)], ToClient(Decode(Front(far.unread, n))),
         NEW heard \in BOOLEAN, obfs' = [obfs EXCEPT !.heard = heard], UNCHANGED shortReply
  PROVE  IInv'
<1> DEFINE units == Decode(Front(far.unread, n))
<1>1. /\ remote.state = "connected" /\ ~server.sendIo /\ server.buf = <<>> /\ ~Held
  BY DEF Streams, Streaming, Receiving, Held
<1>2. far.unread \in Units /\ n \in Nat /\ n <= Len(far.unread)
  <2>1. far.unread \in Units /\ Len(far.unread) \in Nat
    BY DEF Streams, Typed, OthersTyped, FarTyped, Units
  <2>2. QED
    BY <2>1, SizesAssumption DEF Lesser
<1>3. units \in Units /\ FarTyped(far')
  <2>1. Drop(far.unread, n) \in Units
    BY <1>2, DropUnits
  <2>2. Front(far.unread, n) \in Units
    BY <1>2, FrontUnits
  <2>3. QED
    BY <1>2, <2>1, <2>2, DecodeUnits DEF Streams, Typed, OthersTyped, FarTyped
<1> HIDE DEF units
<1>0. /\ obfs' \in Obfuscations
      /\ obfs'.kind = obfs.kind /\ obfs'.status = obfs.status /\ obfs'.saved = obfs.saved
  BY DEF Streams, Typed, OthersTyped, Obfuscations
<1>4. CASE CloseBoth("error") /\ UNCHANGED client
  BY <1>0, <1>3, <1>4, CloseBothIInv DEF Streams, Typed, OthersTyped
<1>5. ASSUME NEW k \in 0..(Len(units) - 1),
             client' = [client EXCEPT !.got = @ \o Front(units, k)], WaitForClient(Drop(units, k))
      PROVE  IInv'
  <2>1. Drop(units, k) \in Units /\ Drop(units, k) # <<>> /\ Front(units, k) \in Units
    <3>1. Len(units) \in Nat
      BY <1>0, <1>3 DEF Units
    <3>2. k \in Nat /\ k <= Len(units)
      BY <3>1
    <3>3. QED
      BY <1>0, <1>3, <3>2, DropMore, FrontUnits
  <2>2. client.got \o Front(units, k) \in Units
    BY <2>1 DEF Streams, Typed, OthersTyped, Units
  <2>3. /\ server' = [server EXCEPT !.sendIo = TRUE, !.buf = Drop(units, k)]
        /\ remote' = [remote EXCEPT !.recvIo = FALSE] /\ UNCHANGED ended
    BY <1>0, <1>5 DEF WaitForClient
  <2>4. OthersTyped'
    BY <1>0, <1>3, <1>5, <2>2 DEF Streams, Typed, OthersTyped
  <2>5. /\ server' \in Servers /\ server'.stage = "stream" /\ server'.recvIo = server.recvIo
        /\ server'.sendIo /\ server'.buf # <<>>
    BY <2>1, <2>3 DEF Streams, Typed, Servers
  <2>6. /\ remote' \in Remotes /\ remote'.state = "connected" /\ ~remote'.recvIo
        /\ remote'.sendIo = remote.sendIo /\ remote'.buf = remote.buf
        /\ remote'.direct = remote.direct
    BY <1>0, <1>1, <2>3 DEF Streams, Typed, Remotes
  <2>7. ~Held' /\ Tls(remote)' = Tls(remote)
    BY <1>0, <1>1, <2>6 DEF Held, Tls
  <2>8. (Sending \/ Resting \/ Short)'
    BY <1>0, <1>1, <2>5, <2>6, <2>7 DEF Streams, Streaming, Sending, Resting, Short
  <2>9. Receiving' /\ Greeting'
    BY <1>0, <1>1, <2>5, <2>6, <2>7 DEF Streams, Streaming, Receiving, Greeting
  <2>10. QED
    BY <1>0, <2>3, <2>4, <2>5, <2>6, <2>8, <2>9 DEF IInv, Streams, Streaming, Live, Typed
<1>6. CASE client' = [client EXCEPT !.got = @ \o units] /\ UNCHANGED <<server, remote, ended>>
  <2>1. client.got \o units \in Units
    BY <1>0, <1>3 DEF Streams, Typed, OthersTyped, Units
  <2>2. Typed'
    BY <1>0, <1>3, <1>6, <2>1 DEF Streams, Typed, OthersTyped
  <2>3. ~Held' /\ Tls(remote)' = Tls(remote)
    BY <1>0, <1>1, <1>6 DEF Held, Tls
  <2>4. (Sending \/ Resting \/ Short)'
    BY <1>0, <1>1, <1>6, <2>3 DEF Streams, Streaming, Sending, Resting, Short
  <2>5. Receiving' /\ Greeting'
    BY <1>0, <1>1, <1>6, <2>3 DEF Streams, Streaming, Receiving, Greeting
  <2>6. QED
    BY <1>0, <1>6, <2>2, <2>4, <2>5 DEF IInv, Streams, Streaming, Live
<1>7. QED
  BY <1>4, <1>5, <1>6 DEF ToClient, units

LEMMA RemoteRecvIInv == IInv /\ RemoteRecv => IInv'
<1> SUFFICES ASSUME IInv, RemoteRecv PROVE IInv'
  OBVIOUS
<1>1. Streams /\ remote.recvIo
  BY DEF RemoteRecv, IInv, Off, Before, Streams
<1>2. CASE far.unread # <<>> /\ Tls(remote) /\ obfs.status # 8 /\ SendBack
  BY <1>1, <1>2, SendBackIInv
<1>3. ASSUME ~(Tls(remote) /\ obfs.status # 8),
             NEW n \in 1..Lesser(Len(far.unread), BufSize),
             far' = [far EXCEPT !.unread = Drop(@, n)], ToClient(Decode(Front(far.unread, n))),
             NEW heard \in BOOLEAN, obfs' = [obfs EXCEPT !.heard = heard], UNCHANGED shortReply
      PROVE  IInv'
  BY <1>1, <1>3, ToClientIInv
<1>4. CASE CloseBoth("far") /\ UNCHANGED <<obfs, client, far, shortReply>>
  BY <1>1, <1>4, CloseBothIInv DEF Streams, Typed, OthersTyped
<1>5. ASSUME ~(Tls(remote) /\ obfs.status # 8),
             NEW n \in 1..Lesser(Len(far.unread), BufSize),
             far' = [far EXCEPT !.unread = Drop(@, n)], ToClient(Decode(Front(far.unread, n))),
             obfs' = [obfs EXCEPT !.heard = @ \/ (Unheard /\ Heard(Front(far.unread, n)))],
             UNCHANGED shortReply
      PROVE  IInv'
  <2> DEFINE heard == obfs.heard \/ (Unheard /\ Heard(Front(far.unread, n)))
  <2>1. obfs' = [obfs EXCEPT !.heard = heard] /\ heard \in BOOLEAN
    BY <1>1, <1>5 DEF Streams, Typed, OthersTyped, Obfuscations
  <2>2. QED
    BY <1>3, <1>5, <2>1
<1>6. QED
  BY <1>2, <1>4, <1>5 DEF RemoteRecv

(* What was kept for the client.                                           *)
LEMMA ServerSendIInv == IInv /\ ServerSend => IInv'
<1> SUFFICES ASSUME IInv, ServerSend PROVE IInv'
  OBVIOUS
<1>1. /\ Streams /\ server.sendIo /\ server.buf # <<>> /\ server.buf \in Units
      /\ UNCHANGED <<obfs, far, shortReply>>
  BY DEF ServerSend, IInv, Off, Before, Streams, Streaming, Receiving, Typed, Servers
<1>2. remote.state = "connected" /\ ~remote.recvIo
  BY <1>1 DEF Streams, Streaming, Receiving
<1>3. CASE CloseBoth("error") /\ UNCHANGED client
  BY <1>1, <1>3, CloseBothIInv DEF Streams, Typed, OthersTyped
<1>4. ASSUME NEW n \in 0..(Len(server.buf) - 1),
             client' = [client EXCEPT !.got = @ \o Front(server.buf, n)],
             server' = [server EXCEPT !.buf = Drop(@, n)], UNCHANGED <<remote, ended>>
      PROVE  IInv'
  <2>1. /\ Drop(server.buf, n) \in Units /\ Drop(server.buf, n) # <<>>
        /\ Front(server.buf, n) \in Units
    <3>1. Len(server.buf) \in Nat
      BY <1>1 DEF Units
    <3>2. n \in Nat /\ n <= Len(server.buf)
      BY <3>1
    <3>3. QED
      BY <1>1, <3>2, DropMore, FrontUnits
  <2>2. client.got \o Front(server.buf, n) \in Units
    BY <1>1, <2>1 DEF Streams, Typed, OthersTyped, Units
  <2>3. OthersTyped'
    BY <1>1, <1>4, <2>2 DEF Streams, Typed, OthersTyped
  <2>4. /\ server' \in Servers /\ server'.stage = "stream" /\ server'.recvIo = server.recvIo
        /\ server'.sendIo /\ server'.buf # <<>>
    BY <1>1, <1>4, <2>1 DEF Streams, Typed, Servers
  <2>5. Held' = Held /\ Tls(remote)' = Tls(remote)
    BY <1>1, <1>4 DEF Held, Tls
  <2>6. (Sending \/ Resting \/ Short)'
    BY <1>1, <1>4, <2>4, <2>5 DEF Streams, Streaming, Sending, Resting, Short
  <2>7. Receiving' /\ Greeting'
    BY <1>1, <1>2, <1>4, <2>4, <2>5 DEF Streams, Streaming, Receiving, Greeting
  <2>8. QED
    BY <1>1, <1>4, <2>3, <2>4, <2>6, <2>7 DEF IInv, Streams, Streaming, Live, Typed
<1>5. CASE /\ client' = [client EXCEPT !.got = @ \o server.buf]
           /\ server' = [server EXCEPT !.buf = <<>>, !.sendIo = FALSE]
           /\ remote' = [remote EXCEPT !.recvIo = TRUE]
           /\ UNCHANGED ended
  <2>1. client.got \o server.buf \in Units
    BY <1>1 DEF Streams, Typed, OthersTyped, Units
  <2>2. OthersTyped'
    BY <1>1, <1>5, <2>1 DEF Streams, Typed, OthersTyped
  <2>3. /\ server' \in Servers /\ server'.stage = "stream" /\ server'.recvIo = server.recvIo
        /\ ~server'.sendIo /\ server'.buf = <<>>
    BY <1>1, <1>5, EmptyUnits DEF Streams, Typed, Servers
  <2>4. /\ remote' \in Remotes /\ remote'.state = "connected" /\ remote'.recvIo
        /\ remote'.sendIo = remote.sendIo /\ remote'.buf = remote.buf
        /\ remote'.direct = remote.direct
    BY <1>1, <1>2, <1>5 DEF Streams, Typed, Remotes
  <2>5. Held' = Held /\ Tls(remote)' = Tls(remote)
    BY <1>1, <2>4 DEF Held, Tls
  <2>6. (Sending \/ Resting \/ Short)'
    BY <1>1, <1>2, <2>3, <2>4, <2>5 DEF Streams, Streaming, Sending, Resting, Short
  <2>7. Receiving' /\ Greeting'
    BY <1>1, <2>3, <2>4, <2>5 DEF Streams, Streaming, Receiving, Greeting
  <2>8. QED
    BY <1>1, <1>5, <2>2, <2>3, <2>4, <2>6, <2>7 DEF IInv, Streams, Streaming, Live, Typed
<1>6. QED
  BY <1>1, <1>3, <1>4, <1>5 DEF ServerSend

LEMMA RemoteTimeoutIInv == IInv /\ RemoteTimeout => IInv'
<1> SUFFICES ASSUME IInv, RemoteTimeout PROVE IInv'
  OBVIOUS
<1>1. Typed /\ OthersTyped' /\ CloseBoth("timeout")
  BY DEF RemoteTimeout, IInv, Typed, OthersTyped
<1>2. QED
  BY <1>1, CloseBothIInv

-----------------------------------------------------------------------------
(* The two peers change nothing of ss-local; the far end answers a hello   *)
(* that it has got, and sends what was asked for.                          *)
LEMMA FarUnread ==
  ASSUME FarTyped(far), NEW unit \in Nat
  PROVE  far.unread \o <<unit>> \in Units
BY DEF FarTyped, Units

LEMMA PeersIInv == IInv /\ (ClientSends \/ FarGreets \/ FarSends) => IInv'
<1> SUFFICES ASSUME IInv, ClientSends \/ FarGreets \/ FarSends PROVE IInv'
  OBVIOUS
<1>1. UNCHANGED <<server, remote, obfs, ended, shortReply>> /\ Live /\ Typed
  BY DEF ClientSends, FarGreets, FarSends, IInv
<1>2. OthersTyped'
  <2>1. CASE ClientSends
    <3>1. far' = far
      BY <2>1 DEF ClientSends
    <3>2. client' \in [sent : Nat, read : Nat, fin : BOOLEAN, got : Units]
      <4>1. client' = [client EXCEPT !.sent = @ + 1] \/ client' = [client EXCEPT !.fin = TRUE]
        BY <2>1 DEF ClientSends
      <4>2. client.sent + 1 \in Nat
        BY <1>1 DEF Typed, OthersTyped
      <4>3. QED
        BY <1>1, <4>1, <4>2 DEF Typed, OthersTyped
    <3>3. QED
      BY <1>1, <3>1, <3>2 DEF Typed, OthersTyped
  <2>2. CASE FarGreets
    <3>1. far.unread \o <<0>> \in Units
      BY <1>1, FarUnread DEF Typed, OthersTyped
    <3>2. QED
      BY <1>1, <2>2, <3>1 DEF FarGreets, Typed, OthersTyped, FarTyped
  <2>3. CASE FarSends
    <3>1. far.sent + 1 \in Nat
      BY <1>1 DEF Typed, OthersTyped, FarTyped
    <3>2. /\ far.unread \o <<>> \o <<far.sent + 1>> \in Units
          /\ far.unread \o <<0, 0>> \o <<far.sent + 1>> \in Units
      BY <1>1, <3>1 DEF Typed, OthersTyped, FarTyped, Units
    <3>3. QED
      BY <1>1, <2>3, <3>1, <3>2 DEF FarSends, Typed, OthersTyped, FarTyped
  <2>4. QED
    BY <2>1, <2>2, <2>3
<1>3. /\ far'.told = far.told
      /\ \/ far'.unread = far.unread
         \/ far.told # 0
         \/ remote.state = "connected" /\ ~Tls(remote)
  <2>1. CASE ClientSends
    BY <2>1 DEF ClientSends
  <2>2. CASE FarGreets
    BY <1>1, <2>2 DEF FarGreets, Typed, OthersTyped, FarTyped
  <2>3. CASE FarSends
    <3>1. CASE far' = [far EXCEPT !.fin = TRUE]
      BY <1>1, <3>1 DEF Typed, OthersTyped, FarTyped
    <3>2. CASE /\ far.told = (IF remote.direct THEN 0
                              ELSE CASE obfs.kind = "plain" -> 1 [] obfs.kind = "http" -> 2
                                     [] OTHER -> 3)
               /\ far' = [far EXCEPT !.sent = @ + 1, !.greeted = @ \/ Http(remote),
                            !.unread = @ \o (IF Http(remote) /\ ~far.greeted THEN <<0, 0>> ELSE <<>>)
                                         \o <<far.sent + 1>>]
      <4>1. remote.direct => ~Tls(remote)
        BY DEF Tls
      <4>2. far.told # 0 \/ ~Tls(remote)
        BY <3>2, <4>1
      <4>3. far'.told = far.told /\ remote.state = "connected"
        BY <1>1, <2>3, <3>2 DEF FarSends, Typed, OthersTyped, FarTyped
      <4>4. QED
        BY <4>2, <4>3
    <3>3. QED
      BY <2>3, <3>1, <3>2 DEF FarSends
  <2>4. QED
    BY <2>1, <2>2, <2>3
<1>4. Typed' /\ Live' /\ ended' # "empty"
  BY <1>1, <1>2 DEF Typed, Live, IInv
<1>5. Held' = Held /\ Tls(remote)' = Tls(remote)
  BY <1>1 DEF Held, Tls
<1>6. CASE server.stage # "stream"
  <2>1. Before
    BY <1>1, <1>6 DEF IInv
  <2>2. Before'
    BY <1>1, <1>3, <2>1 DEF Before
  <2>3. QED
    BY <1>1, <1>4, <1>6, <2>2 DEF IInv
<1>7. CASE server.stage = "stream"
  <2>1. Streaming
    BY <1>1, <1>7 DEF IInv
  <2>2. Receiving' /\ Greeting'
    BY <1>1, <1>5, <2>1 DEF Streaming, Receiving, Greeting
  <2>3. Held => Tls(remote)
    BY DEF Held
  <2>4. (Sending \/ Resting \/ Short)'
    BY <1>1, <1>3, <1>5, <2>1, <2>3 DEF Streaming, Sending, Resting, Short
  <2>5. QED
    BY <1>1, <1>4, <1>7, <2>2, <2>4 DEF IInv, Streaming
<1>8. QED
  BY <1>6, <1>7

-----------------------------------------------------------------------------
LEMMA InitIInv == Init => IInv
<1> SUFFICES ASSUME Init PROVE IInv
  OBVIOUS
<1>1. PICK kind \in {"plain", "http", "tls"} :
        obfs = [kind |-> kind, status |-> 0, saved |-> <<>>, heard |-> FALSE]
  BY DEF Init
<1>2. OthersTyped
  BY <1>1, EmptyUnits DEF Init, OthersTyped, Obfuscations, FarTyped
<1>3. server \in Servers /\ remote \in Remotes
  BY EmptyUnits DEF Init, Servers, Remotes
<1>4. Before /\ Live /\ server.stage = "init" /\ ended = "no"
  BY <1>1 DEF Init, Before, Live
<1>5. QED
  BY <1>2, <1>3, <1>4 DEF IInv, Typed

LEMMA NextIInv == IInv /\ [Next]_vars => IInv'
<1> SUFFICES ASSUME IInv, [Next]_vars PROVE IInv'
  OBVIOUS
<1>1. CASE RecvGreeting \/ RecvAssociate
  BY <1>1, GreetingIInv
<1>2. CASE RecvRequest \/ RecvTunnelled
  BY <1>2, RecvRequestIInv, RecvTunnelledIInv
<1>3. CASE RecvFirstData
  BY <1>3, RecvFirstDataIInv
<1>4. CASE RecvData
  BY <1>4, RecvDataIInv
<1>5. CASE RecvEnd
  BY <1>5, RecvEndIInv
<1>6. CASE RemoteSend
  BY <1>6, RemoteSendIInv
<1>7. CASE RemoteRecv
  BY <1>7, RemoteRecvIInv
<1>8. CASE ServerSend
  BY <1>8, ServerSendIInv
<1>9. CASE RemoteTimeout
  BY <1>9, RemoteTimeoutIInv
<1>10. CASE ClientSends \/ FarGreets \/ FarSends
  BY <1>10, PeersIInv
<1>11. CASE UNCHANGED vars
  BY <1>11 DEF vars, IInv, Typed, OthersTyped, Live, Off, Before, Streaming, Receiving, Greeting,
               Sending, Resting, Short, Held, Tls
<1>12. QED
  BY <1>1, <1>2, <1>3, <1>4, <1>5, <1>6, <1>7, <1>8, <1>9, <1>10, <1>11 DEF Next

(* The inductive invariant says of an open connection what WatchersFit     *)
(* does, and more: who is allowed to be silent in each state.              *)
LEMMA IInvWatchersFit == IInv => WatchersFit
<1> SUFFICES ASSUME IInv, Live, server.stage = "stream" PROVE WatchersFit
  BY DEF IInv, WatchersFit
<1>1. Receiving /\ Greeting /\ (Sending \/ Resting \/ Short) /\ ended # "empty"
  BY DEF IInv, Streaming
<1>2. /\ server.sendIo <=> server.buf # <<>>
      /\ remote.state = "connected" => (remote.recvIo <=> ~server.sendIo)
      /\ obfs.saved # <<>> => Held
  BY <1>1 DEF Receiving, Greeting
<1>3. /\ remote.state = "connecting" => remote.sendIo
      /\ shortReply \/ (remote.state = "connected" => (remote.sendIo <=> remote.buf # <<>>))
      /\ shortReply \/ (server.recvIo <=> ~remote.sendIo) \/ Held
  BY <1>1 DEF Sending, Resting, Short
<1>4. QED
  BY <1>1, <1>2, <1>3 DEF WatchersFit

(* In every state of a connection through ss-local the watchers follow the *)
(* buffers: whatever is buffered has its sender started and its reader     *)
(* stopped, no callback is run on an empty buffer, and a reader that is    *)
(* stopped has somebody who starts it again.                               *)
THEOREM SpecWatchersFit == Spec => []WatchersFit
<1>1. QED
  BY InitIInv, NextIInv, IInvWatchersFit, PTL DEF Spec

-----------------------------------------------------------------------------
(***************************************************************************)
(* The bytes of a stream stay in line.  What a peer has got, what is in    *)
(* the buffer of ss-local and what is behind that, kept back or not read   *)
(* yet, are stretches of one stream, each with messages of the handshake   *)
(* ahead of its bytes: first what holds for stretches, then for a line of  *)
(* three of them, then which messages are where at which point of the      *)
(* handshake, and last what every callback makes of both lines.            *)
(***************************************************************************)

(* z messages of the handshake, and behind them the bytes from a to b.     *)
Stretch(z, a, b) == [i \in 1..(z + (b - a)) |-> IF i <= z THEN 0 ELSE a + i - z]

IsStretch(s, z, a, b) ==
  /\ s \in Seq(Nat) /\ Len(s) = z + (b - a)
  /\ \A i \in 1..Len(s) : s[i] = IF i <= z THEN 0 ELSE a + i - z

LEMMA StretchIs ==
  ASSUME NEW z \in Nat, NEW a \in Nat, NEW b \in Nat, a <= b
  PROVE  IsStretch(Stretch(z, a, b), z, a, b) /\ z + (b - a) \in Nat
<1>1. z + (b - a) \in Nat
  OBVIOUS
<1>2. \A i \in 1..(z + (b - a)) : (IF i <= z THEN 0 ELSE a + i - z) \in Nat
  OBVIOUS
<1>3. QED
  BY <1>1, <1>2 DEF Stretch, IsStretch

LEMMA SameStretch ==
  ASSUME NEW z \in Nat, NEW a \in Nat, NEW b \in Nat, a <= b, NEW s, IsStretch(s, z, a, b)
  PROVE  s = Stretch(z, a, b)
<1>1. s = [i \in 1..Len(s) |-> s[i]]
  BY DEF IsStretch
<1>2. QED
  BY <1>1 DEF Stretch, IsStretch

LEMMA StretchJoin ==
  ASSUME NEW z \in Nat, NEW a \in Nat, NEW b \in Nat, NEW c \in Nat, a <= b, b <= c
  PROVE  Stretch(z, a, b) \o Stretch(0, b, c) = Stretch(z, a, c)
<1> DEFINE s == Stretch(z, a, b)
           t == Stretch(0, b, c)
<1>1. IsStretch(s, z, a, b) /\ IsStretch(t, 0, b, c)
  BY StretchIs
<1> HIDE DEF s, t
<1>2. /\ s \in Seq(Nat) /\ Len(s) = z + (b - a) /\ Len(s) \in Nat
      /\ t \in Seq(Nat) /\ Len(t) = c - b /\ Len(t) \in Nat
  BY <1>1 DEF IsStretch
<1>3. \A i \in 1..Len(s) : s[i] = IF i <= z THEN 0 ELSE a + i - z
  BY <1>1 DEF IsStretch
<1>4. \A i \in 1..Len(t) : t[i] = b + i
  BY <1>1 DEF IsStretch
<1>5. s \o t \in Seq(Nat) /\ Len(s \o t) = Len(s) + Len(t)
  BY <1>2
<1>6. ASSUME NEW i \in 1..Len(s \o t)
      PROVE  (s \o t)[i] = IF i <= z THEN 0 ELSE a + i - z
  <2>1. CASE i <= Len(s)
    <3>1. i \in 1..Len(s) /\ (s \o t)[i] = s[i]
      BY <1>2, <1>5, <2>1
    <3>2. QED
      BY <1>3, <3>1
  <2>2. CASE i > Len(s)
    <3>1. i - Len(s) \in 1..Len(t) /\ i \in Nat
      BY <1>2, <1>5, <2>2
    <3>2. (s \o t)[i] = t[i - Len(s)]
      <4>1. \A k \in 1..(Len(s) + Len(t)) : (s \o t)[k] = IF k <= Len(s) THEN s[k] ELSE t[k - Len(s)]
        BY <1>2
      <4>2. QED
        BY <1>5, <2>2, <4>1
    <3>3. t[i - Len(s)] = b + (i - Len(s))
      BY <1>4, <3>1
    <3>4. ~(i <= z)
      BY <1>2, <2>2, <3>1
    <3>5. QED
      BY <1>2, <3>1, <3>2, <3>3, <3>4
  <2>3. QED
    BY <1>2, <1>5, <2>1, <2>2
<1>7. IsStretch(s \o t, z, a, c)
  BY <1>2, <1>5, <1>6 DEF IsStretch
<1>8. s \o t = Stretch(z, a, c)
  <2>1. a <= c
    OBVIOUS
  <2>2. QED
    BY <1>7, <2>1, SameStretch
<1>9. QED
  BY <1>8 DEF s, t

LEMMA OneMessage ==
  ASSUME NEW a \in Nat
  PROVE  /\ <<>> = Stretch(0, a, a) /\ <<0>> = Stretch(1, a, a)
         /\ <<0, 0>> = Stretch(2, a, a)
<1>1. IsStretch(<<>>, 0, a, a) /\ IsStretch(<<0>>, 1, a, a)
  BY DEF IsStretch
<1>2. IsStretch(<<0, 0>>, 2, a, a)
  BY DEF IsStretch
<1>3. QED
  BY <1>1, <1>2, SameStretch

LEMMA OneByte ==
  ASSUME NEW a \in Nat
  PROVE  <<a + 1>> = Stretch(0, a, a + 1)
<1>1. IsStretch(<<a + 1>>, 0, a, a + 1)
  BY DEF IsStretch
<1>2. QED
  BY <1>1, SameStretch

LEMMA StretchCut ==
  ASSUME NEW z \in Nat, NEW a \in Nat, NEW b \in Nat, a <= b, NEW n \in 0..(z + (b - a))
  PROVE  LET s == Stretch(z, a, b) IN
         /\ n <= z => /\ Front(s, n) = Stretch(n, a, a)
                      /\ Drop(s, n) = Stretch(z - n, a, b)
         /\ n >= z => /\ Front(s, n) = Stretch(z, a, a + (n - z))
                      /\ Drop(s, n) = Stretch(0, a + (n - z), b)
<1> DEFINE s == Stretch(z, a, b)
           t == Front(s, n)
           u == Drop(s, n)
<1>0. IsStretch(s, z, a, b) /\ z + (b - a) \in Nat
  BY StretchIs
<1> HIDE DEF s
<1>1. /\ s \in Seq(Nat) /\ Len(s) = z + (b - a) /\ Len(s) \in Nat
      /\ \A i \in 1..Len(s) : s[i] = IF i <= z THEN 0 ELSE a + i - z
  BY <1>0 DEF IsStretch
<1>2. t \in Seq(Nat) /\ Len(t) = n /\ \A i \in 1..n : t[i] = s[i] /\ i \in 1..Len(s)
  BY <1>1 DEF Front
<1>3. /\ u \in Seq(Nat) /\ Len(u) = Len(s) - n
      /\ \A i \in 1..(Len(s) - n) : u[i] = s[i + n] /\ i + n \in 1..Len(s)
  BY <1>1 DEF Drop
<1> HIDE DEF t, u
<1>4. ASSUME n <= z PROVE t = Stretch(n, a, a) /\ u = Stretch(z - n, a, b)
  <2>1. \A i \in 1..Len(t) : t[i] = 0 /\ i <= n
    BY <1>1, <1>2, <1>4
  <2>2. t = Stretch(n, a, a)
    <3>1. IsStretch(t, n, a, a)
      BY <1>2, <2>1 DEF IsStretch
    <3>2. QED
      BY <3>1, SameStretch
  <2>3. z - n \in Nat /\ Len(u) = (z - n) + (b - a)
    BY <1>1, <1>3, <1>4
  <2>4. ASSUME NEW i \in 1..Len(u) PROVE u[i] = IF i <= z - n THEN 0 ELSE a + i - (z - n)
    <3>1. i \in 1..(Len(s) - n) /\ u[i] = s[i + n] /\ i + n \in 1..Len(s)
      BY <1>3
    <3>2. s[i + n] = IF i + n <= z THEN 0 ELSE a + (i + n) - z
      BY <1>1, <3>1
    <3>3. QED
      BY <3>1, <3>2
  <2>5. u = Stretch(z - n, a, b)
    <3>1. IsStretch(u, z - n, a, b)
      BY <1>3, <2>3, <2>4 DEF IsStretch
    <3>2. QED
      BY <2>3, <3>1, SameStretch
  <2>6. QED
    BY <2>2, <2>5
<1>5. ASSUME n >= z PROVE t = Stretch(z, a, a + (n - z)) /\ u = Stretch(0, a + (n - z), b)
  <2> DEFINE e == a + (n - z)
  <2>1. e \in Nat /\ a <= e /\ e <= b /\ n = z + (e - a)
    BY <1>5
  <2>2. \A i \in 1..Len(t) : t[i] = IF i <= z THEN 0 ELSE a + i - z
    BY <1>1, <1>2
  <2>3. Len(u) = 0 + (b - e)
    BY <1>1, <1>3, <2>1
  <2> HIDE DEF e
  <2>4. t = Stretch(z, a, e)
    <3>1. IsStretch(t, z, a, e)
      BY <1>2, <2>1, <2>2 DEF IsStretch
    <3>2. QED
      BY <2>1, <3>1, SameStretch
  <2>5. ASSUME NEW i \in 1..Len(u) PROVE u[i] = IF i <= 0 THEN 0 ELSE e + i - 0
    <3>1. i \in 1..(Len(s) - n) /\ u[i] = s[i + n] /\ i + n \in 1..Len(s)
      BY <1>3
    <3>2. s[i + n] = IF i + n <= z THEN 0 ELSE a + (i + n) - z
      BY <1>1, <3>1
    <3>3. QED
      BY <1>5, <2>1, <3>1, <3>2
  <2>6. u = Stretch(0, e, b)
    <3>1. IsStretch(u, 0, e, b)
      BY <1>3, <2>3, <2>5 DEF IsStretch
    <3>2. QED
      BY <2>1, <3>1, SameStretch
  <2>7. QED
    BY <2>4, <2>6 DEF e
<1>6. QED
  BY <1>4, <1>5 DEF s, t, u

(* The bytes behind the messages.                                          *)
LEMMA PayloadOfStretch ==
  ASSUME NEW z \in Nat, NEW a \in Nat, NEW b \in Nat, a <= b
  PROVE  Payload(Stretch(z, a, b)) = Stretch(0, a, b)
<1> DEFINE s == Stretch(z, a, b)
           n == b - a
           data == {i \in DOMAIN s : s[i] > 0}
           upTo(i) == {j \in data : j <= i}
<1>1. n \in Nat /\ z + n \in Nat
  OBVIOUS
<1>2. DOMAIN s = 1..(z + n) /\ \A i \in 1..(z + n) : s[i] = IF i <= z THEN 0 ELSE a + i - z
  BY DEF Stretch
<1>3. data = (z + 1)..(z + n)
  <2>1. ASSUME NEW i PROVE i \in data <=> i \in (z + 1)..(z + n)
    BY <1>1, <1>2
  <2>2. QED
    BY <2>1
<1>4. \A i \in data : upTo(i) = (z + 1)..i
  BY <1>1, <1>3
<1>5. Cardinality(data) = n /\ \A i \in data : Cardinality(upTo(i)) = i - z
  <2>1. \A i \in data : i \in Int /\ i >= z + 1
    BY <1>1, <1>3
  <2>2. Cardinality((z + 1)..(z + n)) = n
    BY <1>1, FS_Interval
  <2>3. ASSUME NEW i \in data PROVE Cardinality((z + 1)..i) = i - z
    BY <2>1, FS_Interval
  <2> HIDE DEF data, upTo
  <2>4. QED
    BY <1>3, <1>4, <2>2, <2>3
<1>6. ASSUME NEW k \in 1..n
      PROVE  (CHOOSE i \in data : Cardinality(upTo(i)) = k) = z + k
  <2>1. z + k \in data /\ Cardinality(upTo(z + k)) = k
    <3>1. z + k \in data
      BY <1>1, <1>3
    <3> HIDE DEF data, upTo, n
    <3>2. QED
      BY <1>5, <3>1
  <2>2. \A i \in data : i \in Int
    BY <1>1, <1>3
  <2> HIDE DEF data, upTo
  <2>3. \A i \in data : Cardinality(upTo(i)) = k => i = z + k
    BY <1>5, <2>2
  <2>4. QED
    BY <2>1, <2>3
<1>7. Payload(s) = [k \in 1..n |-> s[CHOOSE i \in data : Cardinality(upTo(i)) = k]]
  BY <1>5 DEF Payload
<1>8. \A k \in 1..n : s[z + k] = a + k
  BY <1>1, <1>2
<1> HIDE DEF data, upTo, s
<1>9. Payload(s) = [k \in 1..n |-> a + k]
  BY <1>6, <1>7, <1>8
<1>10. Stretch(0, a, b) = [k \in 1..n |-> a + k]
  <2>1. \A k \in 1..n : ~(k <= 0) /\ a + k - 0 = a + k
    BY <1>1
  <2>2. QED
    BY <2>1 DEF Stretch
<1>11. QED
  BY <1>9, <1>10 DEF s

(* One more message ahead.                                                 *)
LEMMA StretchAhead ==
  ASSUME NEW z \in Nat, NEW a \in Nat, NEW b \in Nat, a <= b
  PROVE  << 0 >> \o Stretch(z, a, b) = Stretch(z + 1, a, b)
<1> DEFINE s == Stretch(z, a, b)
           t == <<0>> \o s
<1>1. IsStretch(s, z, a, b) /\ z + (b - a) \in Nat
  BY StretchIs
<1> HIDE DEF s
<1>2. /\ s \in Seq(Nat) /\ Len(s) = z + (b - a) /\ Len(s) \in Nat
      /\ \A i \in 1..Len(s) : s[i] = IF i <= z THEN 0 ELSE a + i - z
  BY <1>1 DEF IsStretch
<1>3. <<0>> \in Seq(Nat) /\ Len(<<0>>) = 1 /\ <<0>>[1] = 0
  OBVIOUS
<1>4. t \in Seq(Nat) /\ Len(t) = 1 + Len(s)
  BY <1>2, <1>3
<1>5. t[1] = 0 /\ \A i \in 2..(1 + Len(s)) : t[i] = s[i - 1]
  BY <1>2, <1>3
<1> HIDE DEF t
<1>6. ASSUME NEW i \in 1..Len(t) PROVE t[i] = IF i <= z + 1 THEN 0 ELSE a + i - (z + 1)
  <2>1. CASE i = 1
    BY <1>5, <2>1
  <2>2. CASE i # 1
    <3>1. i - 1 \in 1..Len(s) /\ i \in 2..(1 + Len(s))
      BY <1>2, <1>4, <2>2
    <3>2. t[i] = s[i - 1] /\ s[i - 1] = IF i - 1 <= z THEN 0 ELSE a + (i - 1) - z
      BY <1>2, <1>5, <3>1
    <3>3. QED
      BY <3>1, <3>2
  <2>3. QED
    BY <2>1, <2>2
<1>7. IsStretch(t, z + 1, a, b)
  BY <1>2, <1>4, <1>6 DEF IsStretch
<1>8. t = Stretch(z + 1, a, b)
  <2>1. z + 1 \in Nat
    OBVIOUS
  <2>2. QED
    BY <1>7, <2>1, SameStretch, ZenonT(30)
<1>9. QED
  BY <1>8 DEF s, t

(* The messages are the units 0.                                           *)
LEMMA ZerosOfStretch ==
  ASSUME NEW z \in Nat, NEW a \in Nat, NEW b \in Nat, a <= b
  PROVE  Zeros(Stretch(z, a, b)) = z
<1> DEFINE s == Stretch(z, a, b)
<1>1. z + (b - a) \in Nat
  OBVIOUS
<1>2. DOMAIN s = 1..(z + (b - a)) /\ \A i \in 1..(z + (b - a)) : s[i] = IF i <= z THEN 0 ELSE a + i - z
  BY DEF Stretch
<1>3. {i \in DOMAIN s : s[i] = 0} = 1..z
  <2>1. ASSUME NEW i PROVE i \in DOMAIN s /\ s[i] = 0 <=> i \in 1..z
    BY <1>1, <1>2
  <2>2. QED
    BY <2>1
<1>4. Cardinality(1..z) = z
  BY FS_Interval
<1>5. QED
  BY <1>3, <1>4 DEF Zeros

(* The same lemmas for a span of units.                                    *)
Span(z, a, b) == z \in Nat /\ a \in Nat /\ b \in Nat /\ a <= b

LEMMA SpanIs ==
  ASSUME NEW z, NEW a, NEW b, Span(z, a, b)
  PROVE  /\ Stretch(z, a, b) \in Seq(Nat) /\ Len(Stretch(z, a, b)) = z + (b - a)
         /\ Len(Stretch(z, a, b)) \in Nat
<1>1. z \in Nat /\ a \in Nat /\ b \in Nat /\ a <= b
  BY DEF Span
<1>2. IsStretch(Stretch(z, a, b), z, a, b) /\ z + (b - a) \in Nat
  BY <1>1, StretchIs, ZenonT(30)
<1>3. QED
  BY <1>2 DEF IsStretch

LEMMA SpanJoin ==
  ASSUME NEW z, NEW a, NEW b, NEW c, Span(z, a, b), Span(0, b, c)
  PROVE  Stretch(z, a, b) \o Stretch(0, b, c) = Stretch(z, a, c) /\ Span(z, a, c)
<1>1. z \in Nat /\ a \in Nat /\ b \in Nat /\ c \in Nat /\ a <= b /\ b <= c
  BY DEF Span
<1>2. Stretch(z, a, b) \o Stretch(0, b, c) = Stretch(z, a, c)
  BY <1>1, StretchJoin, ZenonT(30)
<1>3. Span(z, a, c)
  BY <1>1 DEF Span
<1>4. QED
  BY <1>2, <1>3

(* The first n units are all messages, or some of them are bytes.          *)
LEMMA SpanCutMessages ==
  ASSUME NEW z, NEW a, NEW b, NEW n, Span(z, a, b), n \in 0..Len(Stretch(z, a, b)), n <= z
  PROVE  /\ Front(Stretch(z, a, b), n) = Stretch(n, a, a) /\ Span(n, a, a)
         /\ Drop(Stretch(z, a, b), n) = Stretch(z - n, a, b) /\ Span(z - n, a, b)
<1>1. z \in Nat /\ a \in Nat /\ b \in Nat /\ a <= b
  BY DEF Span
<1>2. n \in 0..(z + (b - a))
  BY SpanIs
<1>3. /\ Front(Stretch(z, a, b), n) = Stretch(n, a, a)
      /\ Drop(Stretch(z, a, b), n) = Stretch(z - n, a, b)
  BY <1>1, <1>2, StretchCut, ZenonT(30)
<1>4. Span(n, a, a) /\ Span(z - n, a, b)
  BY <1>1, <1>2 DEF Span
<1>5. QED
  BY <1>3, <1>4

LEMMA SpanCutBytes ==
  ASSUME NEW z, NEW a, NEW b, NEW n, Span(z, a, b), n \in 0..Len(Stretch(z, a, b)), n >= z
  PROVE  LET e == a + (n - z) IN
         /\ Front(Stretch(z, a, b), n) = Stretch(z, a, e) /\ Span(z, a, e)
         /\ Drop(Stretch(z, a, b), n) = Stretch(0, e, b) /\ Span(0, e, b)
<1>1. z \in Nat /\ a \in Nat /\ b \in Nat /\ a <= b
  BY DEF Span
<1>2. n \in 0..(z + (b - a))
  BY SpanIs
<1>3. /\ Front(Stretch(z, a, b), n) = Stretch(z, a, a + (n - z))
      /\ Drop(Stretch(z, a, b), n) = Stretch(0, a + (n - z), b)
  BY <1>1, <1>2, StretchCut, ZenonT(30)
<1>4. Span(z, a, a + (n - z)) /\ Span(0, a + (n - z), b)
  BY <1>1, <1>2 DEF Span
<1>5. QED
  BY <1>3, <1>4

LEMMA SpanAhead ==
  ASSUME NEW z, NEW a, NEW b, Span(z, a, b)
  PROVE  << 0 >> \o Stretch(z, a, b) = Stretch(z + 1, a, b) /\ Span(z + 1, a, b)
<1>1. z \in Nat /\ a \in Nat /\ b \in Nat /\ a <= b
  BY DEF Span
<1>2. <<0>> \o Stretch(z, a, b) = Stretch(z + 1, a, b)
  BY <1>1, StretchAhead, ZenonT(30)
<1>3. Span(z + 1, a, b)
  BY <1>1 DEF Span
<1>4. QED
  BY <1>2, <1>3

LEMMA SpanZeros ==
  ASSUME NEW z, NEW a, NEW b, Span(z, a, b)
  PROVE  Zeros(Stretch(z, a, b)) = z
<1>1. z \in Nat /\ a \in Nat /\ b \in Nat /\ a <= b
  BY DEF Span
<1>2. QED
  BY <1>1, ZerosOfStretch, ZenonT(30)

LEMMA SpanPayload ==
  ASSUME NEW z, NEW a, NEW b, Span(z, a, b)
  PROVE  Payload(Stretch(z, a, b)) = Stretch(0, a, b) /\ Span(0, a, b)
<1>1. z \in Nat /\ a \in Nat /\ b \in Nat /\ a <= b
  BY DEF Span
<1>2. Payload(Stretch(z, a, b)) = Stretch(0, a, b)
  BY <1>1, PayloadOfStretch, ZenonT(30)
<1>3. QED
  BY <1>1, <1>2 DEF Span

-----------------------------------------------------------------------------
Joined(s, t) == s \o t

(* One direction: what the peer has got, what is in the buffer of ss-local *)
(* behind z messages, and what is behind that, kept back or not read yet,  *)
(* with w messages ahead, are the bytes 1 to n.                            *)
Line(got, buf, rest, z, w, n) ==
  \E i, j :
    /\ Span(0, 0, i) /\ Span(z, i, j) /\ Span(w, j, n)
    /\ got = Stretch(0, 0, i) /\ buf = Stretch(z, i, j) /\ rest = Stretch(w, j, n)

LEMMA NoUnits ==
  ASSUME NEW a, a \in Nat
  PROVE  <<>> = Stretch(0, a, a) /\ Span(0, a, a)
<1>1. <<>> = Stretch(0, a, a)
  BY OneMessage, ZenonT(30)
<1>2. QED
  BY <1>1 DEF Span

LEMMA LineStart == Line(<<>>, <<>>, <<>>, 0, 0, 0)
<1>1. <<>> = Stretch(0, 0, 0) /\ Span(0, 0, 0)
  BY NoUnits
<1>2. QED
  BY <1>1 DEF Line

LEMMA LineTyped ==
  ASSUME NEW got, NEW buf, NEW rest, NEW z, NEW w, NEW n, Line(got, buf, rest, z, w, n)
  PROVE  /\ z \in Nat /\ w \in Nat /\ n \in Nat
         /\ got \in Seq(Nat) /\ buf \in Seq(Nat) /\ rest \in Seq(Nat)
<1>1. PICK i, j :
        /\ Span(0, 0, i) /\ Span(z, i, j) /\ Span(w, j, n)
        /\ got = Stretch(0, 0, i) /\ buf = Stretch(z, i, j) /\ rest = Stretch(w, j, n)
  BY DEF Line
<1>2. z \in Nat /\ w \in Nat /\ n \in Nat
  BY <1>1 DEF Span
<1>3. got \in Seq(Nat) /\ buf \in Seq(Nat) /\ rest \in Seq(Nat)
  BY <1>1, SpanIs
<1>4. QED
  BY <1>2, <1>3

LEMMA StretchBytes ==
  ASSUME NEW a, NEW b, a \in Nat, b \in Nat
  PROVE  Stretch(0, a, b) = Bytes(a, b)
<1>1. \A i \in 1..(b - a) : ~(i <= 0) /\ a + i - 0 = a + i
  OBVIOUS
<1>2. 0 + (b - a) = b - a
  OBVIOUS
<1>3. QED
  BY <1>1, <1>2 DEF Stretch, Bytes

(* What has arrived is a first part of what was sent.                      *)
LEMMA LineBytes ==
  ASSUME NEW got, NEW buf, NEW rest, NEW z, NEW w, NEW n, Line(got, buf, rest, z, w, n)
  PROVE  \E i \in 0..n : got = Bytes(0, i)
<1>1. PICK i, j :
        /\ Span(0, 0, i) /\ Span(z, i, j) /\ Span(w, j, n) /\ got = Stretch(0, 0, i)
  BY DEF Line
<1>2. i \in 0..n
  BY <1>1 DEF Span
<1>3. Stretch(0, 0, i) = Bytes(0, i)
  BY <1>2, StretchBytes
<1>4. QED
  BY <1>1, <1>2, <1>3

(* When nothing is on the way, everything has arrived.                     *)
LEMMA LineEmpty ==
  ASSUME NEW got, NEW z, NEW w, NEW n, Line(got, <<>>, <<>>, z, w, n)
  PROVE  got = Bytes(0, n) /\ z = 0 /\ w = 0
<1>1. PICK i, j :
        /\ Span(0, 0, i) /\ Span(z, i, j) /\ Span(w, j, n)
        /\ got = Stretch(0, 0, i) /\ <<>> = Stretch(z, i, j) /\ <<>> = Stretch(w, j, n)
  BY DEF Line
<1>2. /\ z \in Nat /\ w \in Nat /\ i \in Nat /\ j \in Nat /\ n \in Nat
      /\ i <= j /\ j <= n
  BY <1>1 DEF Span
<1>3. Len(Stretch(z, i, j)) = z + (j - i) /\ Len(Stretch(w, j, n)) = w + (n - j)
  BY <1>1, SpanIs
<1>4. z + (j - i) = 0 /\ w + (n - j) = 0
  BY <1>1, <1>3
<1>5. i = n /\ z = 0 /\ w = 0
  BY <1>2, <1>4
<1>6. Stretch(0, 0, i) = Bytes(0, i)
  BY <1>2, StretchBytes
<1>7. QED
  BY <1>1, <1>5, <1>6

LEMMA StretchWithin ==
  ASSUME NEW z \in Nat, NEW a \in Nat, NEW b \in Nat, a <= b, NEW m \in Nat, b <= m
  PROVE  Stretch(z, a, b) \in Seq(0..m) /\ (z = 0 => Stretch(z, a, b) \in Seq(1..m))
<1>1. z + (b - a) \in Nat
  OBVIOUS
<1>2. \A i \in 1..(z + (b - a)) : (IF i <= z THEN 0 ELSE a + i - z) \in 0..m
  OBVIOUS
<1>3. z = 0 => \A i \in 1..(z + (b - a)) : (IF i <= z THEN 0 ELSE a + i - z) \in 1..m
  OBVIOUS
<1>4. Stretch(z, a, b) \in Seq(0..m)
  BY <1>1, <1>2 DEF Stretch
<1>5. z = 0 => Stretch(z, a, b) \in Seq(1..m)
  BY <1>1, <1>3 DEF Stretch
<1>6. QED
  BY <1>4, <1>5

LEMMA SpanWithin ==
  ASSUME NEW z, NEW a, NEW b, NEW m, Span(z, a, b), m \in Nat, b <= m
  PROVE  Stretch(z, a, b) \in Seq(0..m) /\ (z = 0 => Stretch(z, a, b) \in Seq(1..m))
<1>1. z \in Nat /\ a \in Nat /\ b \in Nat /\ a <= b
  BY DEF Span
<1>2. QED
  BY <1>1, StretchWithin, ZenonT(30)

LEMMA LineWithin ==
  ASSUME NEW got, NEW buf, NEW rest, NEW z, NEW w, NEW n, NEW m, Line(got, buf, rest, z, w, n),
         m \in Nat, n <= m
  PROVE  got \in Seq(1..m) /\ buf \in Seq(0..m) /\ rest \in Seq(0..m)
<1>1. PICK i, j :
        /\ Span(0, 0, i) /\ Span(z, i, j) /\ Span(w, j, n)
        /\ got = Stretch(0, 0, i) /\ buf = Stretch(z, i, j) /\ rest = Stretch(w, j, n)
  BY DEF Line
<1>2. i <= m /\ j <= m
  BY <1>1 DEF Span
<1>3. Stretch(0, 0, i) \in Seq(1..m) /\ Stretch(z, i, j) \in Seq(0..m)
      /\ Stretch(w, j, n) \in Seq(0..m)
  BY <1>1, <1>2, SpanWithin
<1>4. QED
  BY <1>1, <1>3

-----------------------------------------------------------------------------
(* Data is read into the empty buffer, or kept back behind the rest.       *)
LEMMA LineFill ==
  ASSUME NEW got, NEW z, NEW w, NEW n, NEW m, Line(got, <<>>, <<>>, z, w, n), Span(0, n, m)
  PROVE  Line(got, Stretch(0, n, m), <<>>, 0, 0, m)
<1>1. got = Bytes(0, n) /\ z = 0 /\ w = 0
  BY LineEmpty
<1>2. n \in Nat /\ m \in Nat /\ Span(0, 0, n)
  BY DEF Span
<1>3. got = Stretch(0, 0, n)
  BY <1>1, <1>2, StretchBytes
<1>4. <<>> = Stretch(0, m, m) /\ Span(0, m, m)
  BY <1>2, NoUnits
<1>5. QED
  BY <1>2, <1>3, <1>4 DEF Line

LEMMA LineKeep ==
  ASSUME NEW got, NEW buf, NEW rest, NEW z, NEW w, NEW n, NEW m,
         Line(got, buf, rest, z, w, n), Span(0, n, m)
  PROVE  Line(got, buf, Joined(rest, Stretch(0, n, m)), z, w, m)
<1>1. PICK i, j :
        /\ Span(0, 0, i) /\ Span(z, i, j) /\ Span(w, j, n)
        /\ got = Stretch(0, 0, i) /\ buf = Stretch(z, i, j) /\ rest = Stretch(w, j, n)
  BY DEF Line
<1>2. Stretch(w, j, n) \o Stretch(0, n, m) = Stretch(w, j, m) /\ Span(w, j, m)
  BY <1>1, SpanJoin, ZenonT(30)
<1>3. Joined(rest, Stretch(0, n, m)) = Stretch(w, j, m)
  BY <1>1, <1>2 DEF Joined
<1>4. QED
  BY <1>1, <1>2, <1>3 DEF Line

(* A message goes ahead of what is buffered, or of what is behind that.    *)
LEMMA LineHeader ==
  ASSUME NEW got, NEW buf, NEW rest, NEW z, NEW w, NEW n, Line(got, buf, rest, z, w, n)
  PROVE  /\ Line(got, Joined(<< 0 >>, buf), rest, z + 1, w, n)
         /\ Line(got, buf, Joined(<< 0 >>, rest), z, w + 1, n)
<1>1. PICK i, j :
        /\ Span(0, 0, i) /\ Span(z, i, j) /\ Span(w, j, n)
        /\ got = Stretch(0, 0, i) /\ buf = Stretch(z, i, j) /\ rest = Stretch(w, j, n)
  BY DEF Line
<1>2. <<0>> \o Stretch(z, i, j) = Stretch(z + 1, i, j) /\ Span(z + 1, i, j)
  BY <1>1, SpanAhead, ZenonT(30)
<1>3. <<0>> \o Stretch(w, j, n) = Stretch(w + 1, j, n) /\ Span(w + 1, j, n)
  BY <1>1, SpanAhead, ZenonT(30)
<1>4. Joined(<<0>>, buf) = Stretch(z + 1, i, j) /\ Joined(<<0>>, rest) = Stretch(w + 1, j, n)
  BY <1>1, <1>2, <1>3 DEF Joined
<1>5. Line(got, Joined(<<0>>, buf), rest, z + 1, w, n)
  BY <1>1, <1>2, <1>4 DEF Line
<1>6. Line(got, buf, Joined(<<0>>, rest), z, w + 1, n)
  BY <1>1, <1>3, <1>4 DEF Line
<1>7. QED
  BY <1>5, <1>6

(* What was kept back goes into the empty buffer.                          *)
LEMMA LineRelease ==
  ASSUME NEW got, NEW rest, NEW z, NEW w, NEW n, Line(got, <<>>, rest, z, w, n)
  PROVE  z = 0 /\ Line(got, rest, <<>>, w, 0, n)
<1>1. PICK i, j :
        /\ Span(0, 0, i) /\ Span(z, i, j) /\ Span(w, j, n)
        /\ got = Stretch(0, 0, i) /\ <<>> = Stretch(z, i, j) /\ rest = Stretch(w, j, n)
  BY DEF Line
<1>2. z \in Nat /\ i \in Nat /\ j \in Nat /\ n \in Nat /\ i <= j
  BY <1>1 DEF Span
<1>3. Len(Stretch(z, i, j)) = z + (j - i)
  BY <1>1, SpanIs
<1>4. z + (j - i) = 0
  BY <1>1, <1>3
<1>5. i = j /\ z = 0
  BY <1>2, <1>4
<1>6. <<>> = Stretch(0, n, n) /\ Span(0, n, n)
  BY <1>2, NoUnits
<1>7. QED
  BY <1>1, <1>5, <1>6 DEF Line

(* The first m units of the buffer are sent: the messages among them are   *)
(* told, the bytes arrive.                                                 *)
LEMMA LineSend ==
  ASSUME NEW got, NEW buf, NEW rest, NEW z, NEW w, NEW n, NEW m,
         Line(got, buf, rest, z, w, n), m \in 0..Len(buf)
  PROVE  LET s == Front(buf, m) IN
         /\ Zeros(s) \in 0..z /\ (z = 0 => Payload(s) = s)
         /\ Line(Joined(got, Payload(s)), Drop(buf, m), rest, z - Zeros(s), w, n)
<1>1. PICK i, j :
        /\ Span(0, 0, i) /\ Span(z, i, j) /\ Span(w, j, n)
        /\ got = Stretch(0, 0, i) /\ buf = Stretch(z, i, j) /\ rest = Stretch(w, j, n)
  BY DEF Line
<1>2. m \in 0..Len(Stretch(z, i, j))
  BY <1>1
<1>3. z \in Nat /\ i \in Nat /\ j \in Nat /\ i <= j /\ m \in Nat
  BY <1>1, <1>2, SpanIs DEF Span
<1>4. PICK t, e, y :
        /\ Span(t, i, e) /\ Front(buf, m) = Stretch(t, i, e)
        /\ Span(y, e, j) /\ Drop(buf, m) = Stretch(y, e, j) /\ t + y = z
  <2>0. Span(z, i, j)
    BY <1>1
  <2>1. CASE m <= z
    <3>1. /\ Front(Stretch(z, i, j), m) = Stretch(m, i, i) /\ Span(m, i, i)
          /\ Drop(Stretch(z, i, j), m) = Stretch(z - m, i, j) /\ Span(z - m, i, j)
      BY <1>2, <2>0, <2>1, SpanCutMessages
    <3>2. m + (z - m) = z
      BY <1>3
    <3>3. QED
      BY <1>1, <3>1, <3>2
  <2>2. CASE m >= z
    <3> DEFINE c == i + (m - z)
    <3>1. /\ Front(Stretch(z, i, j), m) = Stretch(z, i, c) /\ Span(z, i, c)
          /\ Drop(Stretch(z, i, j), m) = Stretch(0, c, j) /\ Span(0, c, j)
      BY <1>2, <2>0, <2>2, SpanCutBytes
    <3>2. z + 0 = z
      BY <1>3
    <3> HIDE DEF c
    <3>3. QED
      BY <1>1, <3>1, <3>2
  <2>3. QED
    BY <1>3, <2>1, <2>2
<1>5. Payload(Stretch(t, i, e)) = Stretch(0, i, e) /\ Span(0, i, e)
  BY <1>4, SpanPayload
<1>6. Zeros(Stretch(t, i, e)) = t
  BY <1>4, SpanZeros
<1>7. Stretch(0, 0, i) \o Stretch(0, i, e) = Stretch(0, 0, e) /\ Span(0, 0, e)
  BY <1>1, <1>5, SpanJoin, ZenonT(30)
<1>8. t \in Nat /\ y \in Nat
  BY <1>4 DEF Span
<1>9. t \in 0..z /\ z - t = y
  BY <1>3, <1>4, <1>8
<1>10. z = 0 => t = 0
  BY <1>9
<1>11. Joined(got, Payload(Front(buf, m))) = Stretch(0, 0, e)
  BY <1>1, <1>4, <1>5, <1>7 DEF Joined
<1>12. Line(Joined(got, Payload(Front(buf, m))), Drop(buf, m), rest, y, w, n)
  BY <1>1, <1>4, <1>7, <1>11 DEF Line
<1>13. QED
  BY <1>4, <1>5, <1>6, <1>9, <1>10, <1>12

LEMMA WholeBuffer ==
  ASSUME NEW s, s \in Seq(Nat)
  PROVE  /\ Len(s) \in Nat /\ Len(s) \in 0..Len(s)
         /\ Front(s, Len(s)) = s /\ Drop(s, Len(s)) = <<>>
<1>1. Len(s) \in Nat
  OBVIOUS
<1>2. Front(s, Len(s)) = s
  BY DEF Front
<1>3. Drop(s, Len(s)) = <<>>
  <2>1. Len(Drop(s, Len(s))) = 0 /\ Drop(s, Len(s)) \in Seq(Nat)
    BY <1>1 DEF Drop
  <2>2. QED
    BY <2>1
<1>4. QED
  BY <1>1, <1>2, <1>3

(* The first m units of the rest are read into the empty buffer.           *)
LEMMA LineRead ==
  ASSUME NEW got, NEW rest, NEW z, NEW n, NEW m,
         Line(got, <<>>, rest, z, 0, n), m \in 0..Len(rest)
  PROVE  Line(got, Front(rest, m), Drop(rest, m), 0, 0, n)
<1>1. Line(got, rest, <<>>, 0, 0, n)
  BY LineRelease
<1>2. PICK i, j :
        /\ Span(0, 0, i) /\ Span(0, i, j) /\ Span(0, j, n)
        /\ got = Stretch(0, 0, i) /\ rest = Stretch(0, i, j) /\ <<>> = Stretch(0, j, n)
  BY <1>1 DEF Line
<1>3. Len(Stretch(0, j, n)) = 0 + (n - j) /\ j \in Nat /\ n \in Nat
  BY <1>2, SpanIs DEF Span
<1>4. j = n
  BY <1>2, <1>3
<1>5. m \in 0..Len(Stretch(0, i, n)) /\ m >= 0
  <2>1. m \in 0..Len(Stretch(0, i, n))
    BY <1>2, <1>4
  <2>2. Len(Stretch(0, i, n)) \in Nat
    BY <1>2, <1>4, SpanIs
  <2>3. QED
    BY <2>1, <2>2
<1> DEFINE e == i + (m - 0)
<1>6. Span(0, i, n)
  BY <1>2, <1>4
<1>7. /\ Front(Stretch(0, i, n), m) = Stretch(0, i, e) /\ Span(0, i, e)
      /\ Drop(Stretch(0, i, n), m) = Stretch(0, e, n) /\ Span(0, e, n)
  BY <1>5, <1>6, SpanCutBytes
<1> HIDE DEF e
<1>8. QED
  BY <1>2, <1>4, <1>7 DEF Line

(* The peer at the other end sends a byte, behind w messages.              *)
LEMMA LineSent ==
  ASSUME NEW got, NEW buf, NEW rest, NEW z, NEW w, NEW n, Line(got, buf, rest, z, w, n)
  PROVE  Line(got, buf, Joined(rest, <<n + 1>>), z, w, n + 1)
<1>1. n \in Nat
  BY LineTyped
<1>2. <<n + 1>> = Stretch(0, n, n + 1)
  BY <1>1, OneByte, ZenonT(30)
<1>3. Span(0, n, n + 1)
  BY <1>1 DEF Span
<1>4. QED
  BY <1>2, <1>3, LineKeep

-----------------------------------------------------------------------------
(* The header of a far end that pretends to be a web server: it is read    *)
(* whole, or a part of it is left and nothing is recognised any more.      *)
Remnant(unread, n) == \E y, a : Span(y, a, n) /\ y <= 1 /\ unread = Stretch(y, a, n)

LEMMA CutRemnant ==
  ASSUME NEW y, NEW a, NEW n, NEW m, Span(y, a, n), m \in 0..Len(Stretch(y, a, n))
  PROVE  LET s == Front(Stretch(y, a, n), m) IN
         /\ Zeros(s) = Lesser(m, y)
         /\ m >= y => s = Stretch(y, a, a + (m - y)) /\ Span(y, a, a + (m - y))
         /\ \E x, b : Span(x, b, n) /\ x = y - Lesser(m, y) /\ (m >= y => b = a + (m - y))
                      /\ Drop(Stretch(y, a, n), m) = Stretch(x, b, n)
<1>1. y \in Nat /\ a \in Nat /\ m \in Nat
  BY SpanIs DEF Span
<1>2. CASE m <= y
  <2>1. /\ Front(Stretch(y, a, n), m) = Stretch(m, a, a) /\ Span(m, a, a)
        /\ Drop(Stretch(y, a, n), m) = Stretch(y - m, a, n) /\ Span(y - m, a, n)
    BY <1>2, SpanCutMessages
  <2>2. Zeros(Stretch(m, a, a)) = m
    BY <2>1, SpanZeros
  <2>3. Lesser(m, y) = m
    BY <1>1, <1>2 DEF Lesser
  <2>4. m >= y => m = y /\ a + (m - y) = a
    BY <1>1, <1>2
  <2>5. QED
    BY <2>1, <2>2, <2>3, <2>4
<1>3. CASE m > y
  <2> DEFINE c == a + (m - y)
  <2>0. m >= y
    BY <1>1, <1>3
  <2>1. /\ Front(Stretch(y, a, n), m) = Stretch(y, a, c) /\ Span(y, a, c)
        /\ Drop(Stretch(y, a, n), m) = Stretch(0, c, n) /\ Span(0, c, n)
    BY <2>0, SpanCutBytes
  <2>2. Zeros(Stretch(y, a, c)) = y
    BY <2>1, SpanZeros
  <2>3. Lesser(m, y) = y /\ y - y = 0
    BY <1>1, <1>3 DEF Lesser
  <2>4. QED
    BY <2>1, <2>2, <2>3
<1>4. QED
  BY <1>1, <1>2, <1>3

LEMMA RemnantRead ==
  ASSUME NEW unread, NEW n, NEW m, Remnant(unread, n), m \in 0..Len(unread)
  PROVE  Zeros(Front(unread, m)) # 2 /\ Remnant(Drop(unread, m), n)
<1>1. PICK y, a : Span(y, a, n) /\ y <= 1 /\ unread = Stretch(y, a, n)
  BY DEF Remnant
<1>2. m \in 0..Len(Stretch(y, a, n))
  BY <1>1
<1>3. Zeros(Front(Stretch(y, a, n), m)) = Lesser(m, y)
  BY <1>1, <1>2, CutRemnant
<1>4. PICK x, b : Span(x, b, n) /\ x = y - Lesser(m, y) /\ Drop(Stretch(y, a, n), m) = Stretch(x, b, n)
  BY <1>1, <1>2, CutRemnant
<1>5. y \in Nat /\ m \in Nat /\ x \in Nat
  BY <1>1, <1>2, <1>4, SpanIs DEF Span
<1>6. Lesser(m, y) # 2 /\ x <= 1
  BY <1>1, <1>4, <1>5 DEF Lesser
<1>7. QED
  BY <1>1, <1>3, <1>4, <1>6 DEF Remnant

LEMMA RemnantSent ==
  ASSUME NEW unread, NEW n, Remnant(unread, n)
  PROVE  Remnant(Joined(unread, <<n + 1>>), n + 1)
<1>1. PICK y, a : Span(y, a, n) /\ y <= 1 /\ unread = Stretch(y, a, n)
  BY DEF Remnant
<1>2. n \in Nat
  BY <1>1 DEF Span
<1>3. <<n + 1>> = Stretch(0, n, n + 1)
  BY <1>2, OneByte, ZenonT(30)
<1>4. Span(0, n, n + 1)
  BY <1>2 DEF Span
<1>5. Stretch(y, a, n) \o Stretch(0, n, n + 1) = Stretch(y, a, n + 1) /\ Span(y, a, n + 1)
  BY <1>1, <1>4, SpanJoin, ZenonT(30)
<1>6. QED
  BY <1>1, <1>3, <1>5 DEF Remnant, Joined

LEMMA RemnantWithin ==
  ASSUME NEW unread, NEW n, NEW m, Remnant(unread, n), m \in Nat, n <= m
  PROVE  unread \in Seq(0..m) /\ unread \in Seq(Nat) /\ Zeros(unread) # 2
<1>1. PICK y, a : Span(y, a, n) /\ y <= 1 /\ unread = Stretch(y, a, n)
  BY DEF Remnant
<1>2. Stretch(y, a, n) \in Seq(0..m) /\ Stretch(y, a, n) \in Seq(Nat)
  BY <1>1, SpanWithin, SpanIs
<1>3. Zeros(Stretch(y, a, n)) = y
  BY <1>1, SpanZeros
<1>4. y # 2
  BY <1>1 DEF Span
<1>5. QED
  BY <1>1, <1>2, <1>3, <1>4

LEMMA LineHeard ==
  ASSUME NEW rest, NEW n, NEW m, Line(<<>>, <<>>, rest, 0, 2, n), m \in 1..Len(rest)
  PROVE  /\ m = 1 => Zeros(Front(rest, m)) # 2 /\ Remnant(Drop(rest, m), n)
         /\ m # 1 => /\ Zeros(Front(rest, m)) = 2
                     /\ Line(<<>>, Drop(Front(rest, m), 2), Drop(rest, m), 0, 0, n)
<1>1. PICK i, j :
        /\ Span(0, 0, i) /\ Span(0, i, j) /\ Span(2, j, n)
        /\ <<>> = Stretch(0, 0, i) /\ <<>> = Stretch(0, i, j) /\ rest = Stretch(2, j, n)
  BY DEF Line
<1>2. i \in Nat /\ j \in Nat /\ n \in Nat /\ j <= n
  BY <1>1 DEF Span
<1>3. Len(Stretch(0, 0, i)) = 0 + (i - 0) /\ Len(Stretch(0, i, j)) = 0 + (j - i)
  BY <1>1, SpanIs
<1>4. 0 + (i - 0) = 0 /\ 0 + (j - i) = 0
  BY <1>1, <1>3
<1>5. i = 0 /\ j = 0
  BY <1>2, <1>4
<1>6. rest = Stretch(2, 0, n) /\ Span(2, 0, n) /\ m \in 0..Len(Stretch(2, 0, n)) /\ m \in Nat /\ m >= 1
  <2>1. Len(Stretch(2, 0, n)) \in Nat
    BY <1>1, <1>5, SpanIs
  <2>2. QED
    BY <1>1, <1>5, <2>1
<1>7. Zeros(Front(Stretch(2, 0, n), m)) = Lesser(m, 2)
  BY <1>6, CutRemnant
<1>8. PICK x, b :
        /\ Span(x, b, n) /\ x = 2 - Lesser(m, 2) /\ (m >= 2 => b = 0 + (m - 2))
        /\ Drop(Stretch(2, 0, n), m) = Stretch(x, b, n)
  BY <1>6, CutRemnant
<1>9. CASE m = 1
  <2>1. Lesser(m, 2) = 1 /\ x = 1
    BY <1>8, <1>9 DEF Lesser
  <2>2. QED
    BY <1>6, <1>7, <1>8, <1>9, <2>1 DEF Remnant
<1>10. CASE m # 1
  <2>1. m >= 2 /\ Lesser(m, 2) = 2 /\ x = 0
    BY <1>6, <1>8, <1>10 DEF Lesser
  <2>2. b = 0 + (m - 2) /\ Span(0, b, n) /\ Drop(rest, m) = Stretch(0, b, n)
    BY <1>6, <1>8, <2>1
  <2>3. Front(Stretch(2, 0, n), m) = Stretch(2, 0, b) /\ Span(2, 0, b)
    <3>1. Front(Stretch(2, 0, n), m) = Stretch(2, 0, 0 + (m - 2)) /\ Span(2, 0, 0 + (m - 2))
      BY <1>6, <2>1, CutRemnant
    <3>2. QED
      BY <2>2, <3>1
  <2>4. Drop(Stretch(2, 0, b), 2) = Stretch(0, 0, b) /\ Span(0, 0, b)
    <3>1. 2 \in 0..Len(Stretch(2, 0, b))
      <4>1. Len(Stretch(2, 0, b)) = 2 + (b - 0) /\ b \in Nat
        BY <2>3, SpanIs DEF Span
      <4>2. QED
        BY <4>1
    <3>2. Drop(Stretch(2, 0, b), 2) = Stretch(2 - 2, 0, b) /\ Span(2 - 2, 0, b)
      BY <2>3, <3>1, SpanCutMessages
    <3>3. QED
      BY <3>2
  <2>5. <<>> = Stretch(0, 0, 0) /\ Span(0, 0, 0)
    BY NoUnits
  <2>6. Drop(Front(rest, m), 2) = Stretch(0, 0, b)
    BY <1>6, <2>3, <2>4
  <2>7. Line(<<>>, Drop(Front(rest, m), 2), Drop(rest, m), 0, 0, n)
    BY <2>2, <2>4, <2>5, <2>6 DEF Line
  <2>8. QED
    BY <1>6, <1>7, <1>10, <2>1, <2>7
<1>11. QED
  BY <1>9, <1>10

(* Nothing was sent: only messages may be unread.                          *)
LEMMA LineNothing ==
  ASSUME NEW got, NEW buf, NEW rest, NEW w, Line(got, buf, rest, 0, w, 0)
  PROVE  got = <<>> /\ buf = <<>> /\ rest = Stretch(w, 0, 0) /\ Span(w, 0, 0)
<1>1. PICK i, j :
        /\ Span(0, 0, i) /\ Span(0, i, j) /\ Span(w, j, 0)
        /\ got = Stretch(0, 0, i) /\ buf = Stretch(0, i, j) /\ rest = Stretch(w, j, 0)
  BY DEF Line
<1>2. i = 0 /\ j = 0
  BY <1>1 DEF Span
<1>3. <<>> = Stretch(0, 0, 0)
  BY NoUnits
<1>4. QED
  BY <1>1, <1>2, <1>3

-----------------------------------------------------------------------------
(***************************************************************************)
(* Both directions of a connection stay in line.                           *)
(***************************************************************************)

Fars ==
  [sent : Nat, unread : Units, fin : BOOLEAN, greeted : BOOLEAN, told : Nat, got : Units]

(* What ss-local says to a server of each kind.                            *)
Messages ==
  IF remote.direct THEN 0
  ELSE CASE obfs.kind = "plain" -> 1 [] obfs.kind = "http" -> 2 [] OTHER -> 3

(* z messages are in the buffer, w are kept back.                          *)
Counted(z, w) ==
  /\ Held => w = 1 /\ far.told + z = 1
  /\ ~Held => obfs.saved = <<>> /\ w = 0 /\ far.told + z = Messages
  /\ Http(remote) => obfs.status = 8
LineUp ==
  \E z, w : Line(far.got, remote.buf, obfs.saved, z, w, client.read) /\ Counted(z, w)

(* The far end answers the hello with one message, and sends data behind a *)
(* header of two when it pretends to be a web server.                      *)
Behind(u) ==
  /\ Held => far.sent = 0 /\ u = (IF far.greeted THEN 1 ELSE 0)
  /\ Unheard => /\ client.got = <<>> /\ server.buf = <<>>
                /\ IF far.greeted THEN u = 2 ELSE u = 0 /\ far.sent = 0
  /\ ~Held /\ ~Unheard => u = 0 /\ (Tls(remote) \/ Http(remote) => far.greeted)
Lost ==
  /\ Unheard /\ far.greeted /\ client.got = <<>> /\ server.buf = <<>>
  /\ Remnant(far.unread, far.sent)
LineDown ==
  \/ \E u : Line(client.got, server.buf, far.unread, 0, u, far.sent) /\ Behind(u)
  \/ Lost

(* Before STAGE_STREAM all that was read is in the buffer.                 *)
Untouched ==
  /\ server.stage # "parse" => client.read = 0
  /\ server.buf = Bytes(0, client.read)
  /\ far.got = <<>> /\ client.got = <<>> /\ far.sent = 0 /\ ~far.greeted /\ ~obfs.heard

Bounded ==
  /\ far \in Fars /\ far.sent <= MaxDown
  /\ client.read <= client.sent /\ client.sent <= MaxUp
  /\ Len(server.buf) <= BufSize

Arrived ==
  /\ \E i \in 0..client.sent : far.got = Bytes(0, i)
  /\ \E i \in 0..far.sent : client.got = Bytes(0, i)
Ends ==
  /\ ended = "far" => client.got = Bytes(0, far.sent) \/ HeaderLost
  /\ ended = "client" /\ server.stage = "stream" /\ obfs.saved = <<>> /\ ~shortReply =>
       far.got = Bytes(0, client.sent)

Flowing ==
  /\ server.stage = "stream" => LineUp /\ LineDown
  /\ server.stage # "stream" => Untouched
FlowInv == TypeOK /\ Bounded /\ Arrived /\ Ends /\ (Live => Flowing)

LEMMA NothingSent == Bytes(0, 0) = <<>>
<1>1. <<>> = Stretch(0, 0, 0) /\ Stretch(0, 0, 0) = Bytes(0, 0)
  BY NoUnits, StretchBytes
<1>2. QED
  BY <1>1

LEMMA EmptyWithin ==
  ASSUME NEW m
  PROVE  <<>> \in Seq(0..m) /\ <<>> \in Seq(1..m) /\ <<>> \in Seq(Nat)
OBVIOUS

(* An open connection whose directions are in line.                        *)
LEMMA LiveFlow ==
  ASSUME Typed', Bounded', Live', Flowing', server'.stage # "stream" => Before'
  PROVE  FlowInv'
<1>0. MaxUp \in Nat /\ MaxDown \in Nat
  BY SizesAssumption
<1>1. /\ far' \in Fars /\ far'.sent \in Nat /\ far'.sent <= MaxDown
      /\ client'.read \in Nat /\ client'.sent \in Nat /\ client'.read <= client'.sent
      /\ client'.sent <= MaxUp /\ Len(server'.buf) <= BufSize
  BY DEF Bounded, Fars, Typed, OthersTyped
<1>2. /\ far'.got \in Seq(1..MaxUp) /\ remote'.buf \in Seq(0..MaxUp) /\ obfs'.saved \in Seq(0..MaxUp)
      /\ far'.told <= 3
      /\ \E i \in 0..client'.sent : far'.got = Bytes(0, i)
  <2>1. CASE server'.stage = "stream"
    <3>1. PICK z, w : /\ Line(far'.got, remote'.buf, obfs'.saved, z, w, client'.read)
                      /\ Counted(z, w)'
      BY <2>1 DEF Flowing, LineUp
    <3>2. client'.read <= MaxUp
      BY <1>0, <1>1
    <3>3. far'.got \in Seq(1..MaxUp) /\ remote'.buf \in Seq(0..MaxUp) /\ obfs'.saved \in Seq(0..MaxUp)
      BY <1>0, <3>1, <3>2, LineWithin
    <3>4. far'.told <= 3
      <4>1. z \in Nat /\ far'.told \in Nat
        BY <1>1, <3>1, LineTyped DEF Fars
      <4>2. Messages' \in 0..3
        BY DEF Messages
      <4>3. far'.told + z \in 0..3
        BY <3>1, <4>1, <4>2 DEF Counted
      <4>4. QED
        BY <4>1, <4>3
    <3>5. PICK i \in 0..client'.read : far'.got = Bytes(0, i)
      BY <3>1, LineBytes
    <3>6. i \in 0..client'.sent
      BY <1>1
    <3>7. QED
      BY <3>3, <3>4, <3>5, <3>6
  <2>2. CASE server'.stage # "stream"
    <3>1. far'.got = <<>> /\ remote'.buf = <<>> /\ obfs'.saved = <<>> /\ far'.told = 0
      BY <2>2 DEF Flowing, Untouched, Before
    <3>2. 0 \in 0..client'.sent
      BY <1>1
    <3>3. far'.told <= 3
      BY <3>1
    <3>4. QED
      BY <3>1, <3>2, <3>3, NothingSent, EmptyWithin
  <2>3. QED
    BY <2>1, <2>2
<1>3. /\ client'.got \in Seq(1..MaxDown) /\ far'.unread \in Seq(0..MaxDown)
      /\ \E i \in 0..far'.sent : client'.got = Bytes(0, i)
  <2>1. ASSUME NEW u, Line(client'.got, server'.buf, far'.unread, 0, u, far'.sent)
        PROVE  /\ client'.got \in Seq(1..MaxDown) /\ far'.unread \in Seq(0..MaxDown)
               /\ \E i \in 0..far'.sent : client'.got = Bytes(0, i)
    <3>1. client'.got \in Seq(1..MaxDown) /\ far'.unread \in Seq(0..MaxDown)
      BY <1>0, <1>1, <2>1, LineWithin
    <3>2. \E i \in 0..far'.sent : client'.got = Bytes(0, i)
      BY <2>1, LineBytes
    <3>3. QED
      BY <3>1, <3>2
  <2>2. CASE Lost'
    <3>1. far'.unread \in Seq(0..MaxDown)
      BY <1>0, <1>1, <2>2, RemnantWithin DEF Lost
    <3>2. client'.got = <<>> /\ 0 \in 0..far'.sent
      BY <1>1, <2>2 DEF Lost
    <3>3. QED
      BY <3>1, <3>2, NothingSent, EmptyWithin
  <2>3. CASE server'.stage # "stream"
    <3>1. client'.got = <<>> /\ far'.unread = <<>> /\ 0 \in 0..far'.sent
      BY <1>1, <2>3 DEF Flowing, Untouched, Before
    <3>2. QED
      BY <3>1, NothingSent, EmptyWithin
  <2>4. QED
    BY <2>1, <2>2, <2>3 DEF Flowing, LineDown
<1>4. TypeOK'
  <2>1. server' \in [stage : {"init", "handshake", "associated", "parse", "stream"},
                     buf : Seq(Nat), recvIo : BOOLEAN, sendIo : BOOLEAN]
    BY DEF Typed, Servers, Units
  <2>2. remote' \in [state : {"none", "connecting", "connected"}, direct : BOOLEAN,
                     buf : Seq(0..MaxUp), recvIo : BOOLEAN, sendIo : BOOLEAN,
                     connectTimer : BOOLEAN, idleTimer : BOOLEAN]
    BY <1>2 DEF Typed, Remotes
  <2>3. obfs' \in [kind : {"plain", "http", "tls"}, status : {0, 1, 8}, saved : Seq(0..MaxUp),
                   heard : BOOLEAN]
    BY <1>2 DEF Typed, OthersTyped, Obfuscations
  <2>4. client' \in [sent : 0..MaxUp, read : 0..MaxUp, fin : BOOLEAN, got : Seq(1..MaxDown)]
    <3>1. client'.sent \in 0..MaxUp /\ client'.read \in 0..MaxUp
      BY <1>0, <1>1
    <3>2. QED
      BY <1>3, <3>1 DEF Typed, OthersTyped
  <2>5. far' \in [sent : 0..MaxDown, unread : Seq(0..MaxDown), fin : BOOLEAN, greeted : BOOLEAN,
                  told : 0..3, got : Seq(1..MaxUp)]
    <3>1. far'.sent \in 0..MaxDown /\ far'.told \in 0..3
      <4>1. far'.sent \in Nat /\ far'.told \in Nat /\ far'.sent <= MaxDown /\ far'.told <= 3
        BY <1>1, <1>2 DEF Fars
      <4>2. QED
        BY <1>0, <4>1
    <3>2. QED
      BY <1>1, <1>2, <1>3, <3>1 DEF Fars
  <2>6. ended' = "no"
    BY DEF Live
  <2>7. QED
    BY <1>1, <2>1, <2>2, <2>3, <2>4, <2>5, <2>6 DEF TypeOK
<1>5. Ends'
  BY DEF Live, Ends
<1>6. QED
  BY <1>2, <1>3, <1>4, <1>5 DEF FlowInv, Bounded, Arrived

(* A connection that is closed: what was on the way is gone.               *)
LEMMA CloseFlow ==
  ASSUME FlowInv, Typed', NEW why \in {"client", "far", "error", "timeout", "empty", "garbled"},
         CloseBoth(why), Ends', far' \in Fars, far'.unread \in Seq(0..MaxDown),
         far'.sent = far.sent, far'.told = far.told, far'.got = far.got,
         client'.sent = client.sent, client'.got = client.got, client'.read <= client.sent,
         obfs'.saved \in Seq(0..MaxUp)
  PROVE  FlowInv'
<1>0. MaxUp \in Nat /\ MaxDown \in Nat
  BY SizesAssumption
<1>1. ended' = why /\ server'.buf = server.buf /\ remote'.buf = remote.buf
  BY DEF CloseBoth, FlowInv, TypeOK
<1>2. Bounded'
  BY <1>1 DEF FlowInv, Bounded
<1>3. Arrived'
  BY DEF FlowInv, Arrived
<1>4. TypeOK'
  <2>1. server' \in [stage : {"init", "handshake", "associated", "parse", "stream"},
                     buf : Seq(Nat), recvIo : BOOLEAN, sendIo : BOOLEAN]
    BY DEF Typed, Servers, Units
  <2>2. remote' \in [state : {"none", "connecting", "connected"}, direct : BOOLEAN,
                     buf : Seq(0..MaxUp), recvIo : BOOLEAN, sendIo : BOOLEAN,
                     connectTimer : BOOLEAN, idleTimer : BOOLEAN]
    BY <1>1 DEF Typed, Remotes, FlowInv, TypeOK
  <2>3. obfs' \in [kind : {"plain", "http", "tls"}, status : {0, 1, 8}, saved : Seq(0..MaxUp),
                   heard : BOOLEAN]
    BY DEF Typed, OthersTyped, Obfuscations
  <2>4. client' \in [sent : 0..MaxUp, read : 0..MaxUp, fin : BOOLEAN, got : Seq(1..MaxDown)]
    <3>1. client'.sent \in 0..MaxUp /\ client.got \in Seq(1..MaxDown) /\ client'.read \in Nat
      BY DEF Typed, OthersTyped, FlowInv, TypeOK
    <3>2. client'.read \in 0..MaxUp
      BY <1>0, <3>1
    <3>3. QED
      BY <3>1, <3>2 DEF Typed, OthersTyped
  <2>5. far' \in [sent : 0..MaxDown, unread : Seq(0..MaxDown), fin : BOOLEAN, greeted : BOOLEAN,
                  told : 0..3, got : Seq(1..MaxUp)]
    <3>1. far.sent \in 0..MaxDown /\ far.told \in 0..3 /\ far.got \in Seq(1..MaxUp)
      BY DEF FlowInv, TypeOK
    <3>2. QED
      BY <3>1 DEF Fars
  <2>6. QED
    BY <1>1, <1>2, <2>1, <2>2, <2>3, <2>4, <2>5 DEF TypeOK, Bounded
<1>5. ~Live'
  BY <1>1 DEF Live
<1>6. QED
  BY <1>2, <1>3, <1>4, <1>5 DEF FlowInv

-----------------------------------------------------------------------------
(* What a callback may leave alone of a direction.                         *)
LEMMA UpStays ==
  ASSUME LineUp, far'.got = far.got, far'.told = far.told,
         remote'.buf = remote.buf, remote'.direct = remote.direct,
         obfs'.kind = obfs.kind, obfs'.status = obfs.status, obfs'.saved = obfs.saved,
         client'.read = client.read
  PROVE  LineUp'
<1>1. PICK z, w : Line(far.got, remote.buf, obfs.saved, z, w, client.read) /\ Counted(z, w)
  BY DEF LineUp
<1>2. /\ Http(remote)' = Http(remote) /\ Tls(remote)' = Tls(remote) /\ Messages' = Messages
      /\ Held' = Held
  BY DEF Http, Tls, Messages, Held
<1>3. Counted(z, w)'
  BY <1>1, <1>2 DEF Counted
<1>4. QED
  BY <1>1, <1>3 DEF LineUp

LEMMA DownStays ==
  ASSUME LineDown, far'.unread = far.unread, far'.sent = far.sent, far'.greeted = far.greeted,
         remote'.direct = remote.direct, server'.buf = server.buf, client'.got = client.got,
         obfs'.kind = obfs.kind, obfs'.status = obfs.status, obfs'.heard = obfs.heard
  PROVE  LineDown'
<1>1. /\ Http(remote)' = Http(remote) /\ Tls(remote)' = Tls(remote)
      /\ Held' = Held /\ Unheard' = Unheard
  BY DEF Http, Tls, Held, Unheard
<1>2. CASE Lost
  BY <1>1, <1>2 DEF Lost, LineDown
<1>3. ASSUME NEW u, Line(client.got, server.buf, far.unread, 0, u, far.sent), Behind(u)
      PROVE  LineDown'
  <2>1. Behind(u)'
    BY <1>1, <1>3 DEF Behind
  <2>2. QED
    BY <1>3, <2>1 DEF LineDown
<1>4. QED
  BY <1>2, <1>3 DEF LineDown

(* What a send changes of the far end, f, when wire is in line: m units of *)
(* it are sent.                                                            *)
Sends(f, wire, m) ==
  m \in 0..Len(wire) /\ far' = Got(f, Front(wire, m)) /\ remote'.buf = Drop(wire, m)

LEMMA SendUp ==
  ASSUME NEW f \in Fars, NEW wire, NEW m, NEW z, NEW w,
         Line(f.got, wire, obfs'.saved, z, w, client'.read), Sends(f, wire, m),
         Held' => w = 1 /\ f.told + z = 1,
         ~Held' => obfs'.saved = <<>> /\ w = 0 /\ f.told + z = Messages',
         Http(remote)' => obfs'.status = 8
  PROVE  /\ LineUp'
         /\ far' \in Fars /\ far'.sent = f.sent /\ far'.unread = f.unread
         /\ far'.greeted = f.greeted /\ far'.fin = f.fin
<1> DEFINE s == Front(wire, m)
           more == Joined(f.got, Payload(s))
<1>1. m \in 0..Len(wire) /\ remote'.buf = Drop(wire, m)
      /\ far' = [f EXCEPT !.got = more, !.told = @ + Zeros(s)]
  BY DEF Sends, Got, Joined
<1>2. Zeros(s) \in 0..z /\ Line(more, Drop(wire, m), obfs'.saved, z - Zeros(s), w, client'.read)
  BY <1>1, LineSend
<1> HIDE DEF s, more
<1>3. z \in Nat /\ Zeros(s) \in Nat /\ f.told \in Nat /\ more \in Units
  BY <1>2, LineTyped DEF Fars, Units
<1>4. /\ far' \in Fars /\ far'.sent = f.sent /\ far'.unread = f.unread
      /\ far'.greeted = f.greeted /\ far'.fin = f.fin
      /\ far'.got = more /\ far'.told = f.told + Zeros(s)
  <2> DEFINE k == f.told + Zeros(s)
  <2>1. far' = [f EXCEPT !.got = more, !.told = k] /\ k \in Nat
    BY <1>1, <1>3
  <2> HIDE DEF k
  <2>2. /\ far' \in Fars /\ far'.sent = f.sent /\ far'.unread = f.unread
        /\ far'.greeted = f.greeted /\ far'.fin = f.fin
        /\ far'.got = more /\ far'.told = k
    BY <1>3, <2>1 DEF Fars
  <2>3. QED
    BY <2>2 DEF k
<1>5. far'.told + (z - Zeros(s)) = f.told + z
  BY <1>3, <1>4
<1>6. Counted(z - Zeros(s), w)'
  BY <1>5 DEF Counted
<1>7. LineUp'
  BY <1>1, <1>2, <1>4, <1>6 DEF LineUp
<1>8. QED
  BY <1>4, <1>7

(* The whole of what is to be sent, or a part, is a number of units.       *)
LEMMA SendsPart ==
  ASSUME NEW f, NEW wire, wire \in Seq(Nat), NEW m \in 0..(Len(wire) - 1),
         far' = Got(f, Front(wire, m)), remote'.buf = Drop(wire, m)
  PROVE  Sends(f, wire, m)
<1>1. Len(wire) \in Nat
  OBVIOUS
<1>2. m \in 0..Len(wire)
  BY <1>1
<1>3. QED
  BY <1>2 DEF Sends

LEMMA SendsWhole ==
  ASSUME NEW f, NEW wire, wire \in Seq(Nat), far' = Got(f, wire), remote'.buf = <<>>
  PROVE  Sends(f, wire, Len(wire))
BY WholeBuffer DEF Sends

(* Nothing is sent of what is in line.                                     *)
LEMMA SendsNothing ==
  ASSUME NEW wire, NEW z, NEW w, Line(far.got, wire, obfs'.saved, z, w, client'.read),
         UNCHANGED far, remote'.buf = wire,
         Held' => w = 1 /\ far.told + z = 1,
         ~Held' => obfs'.saved = <<>> /\ w = 0 /\ far.told + z = Messages',
         Http(remote)' => obfs'.status = 8
  PROVE  LineUp'
BY DEF LineUp, Counted

(* Data that is read goes on behind what was read before.                  *)
LEMMA ReadMore ==
  ASSUME FlowInv, Typed, NEW size \in Nat, NEW n \in 0..Lesser(Unread, size), Reads(n)
  PROVE  /\ Span(0, client.read, client'.read) /\ Read(n) = Stretch(0, client.read, client'.read)
         /\ client'.read <= client'.sent /\ client'.sent = client.sent
         /\ client'.got = client.got /\ client'.fin = client.fin
         /\ client'.read \in Nat /\ client'.read - client.read = n /\ n <= size
         /\ Read(n) \in Seq(0..MaxUp)
<1>1. /\ client.read \in Nat /\ client.sent \in Nat /\ client.read <= client.sent
      /\ client.sent <= MaxUp /\ MaxUp \in Nat
  BY SizesAssumption DEF Typed, OthersTyped, FlowInv, Bounded
<1>2. n \in Nat /\ client.read + n <= client.sent /\ n <= size
  BY <1>1 DEF Lesser, Unread
<1>3. /\ client'.read = client.read + n /\ client'.sent = client.sent
      /\ client'.got = client.got /\ client'.fin = client.fin
  BY DEF Reads, Typed, OthersTyped
<1>4. Span(0, client.read, client'.read)
  BY <1>1, <1>2, <1>3 DEF Span
<1>5. Read(n) = Stretch(0, client.read, client'.read)
  <2>1. Stretch(0, client.read, client'.read) = Bytes(client.read, client'.read)
    BY <1>1, <1>2, <1>3, StretchBytes
  <2>2. QED
    BY <1>3, <2>1 DEF Read
<1>6. Stretch(0, client.read, client'.read) \in Seq(0..MaxUp)
  <2>1. client'.read <= MaxUp
    BY <1>1, <1>2, <1>3
  <2>2. QED
    BY <1>1, <1>4, <2>1, SpanWithin
<1>7. client'.read \in Nat /\ client'.read <= client'.sent /\ client'.read - client.read = n
  BY <1>1, <1>2, <1>3
<1>8. QED
  BY <1>2, <1>3, <1>4, <1>5, <1>6, <1>7

-----------------------------------------------------------------------------
(* From the client to the far end.                                         *)

(* What was not changed since the state before.                            *)
SameFar == far' \in Fars /\ far'.sent = far.sent /\ far'.unread = far.unread
           /\ far'.greeted = far.greeted
Reading ==
  /\ client'.sent = client.sent /\ client'.got = client.got
  /\ client'.read \in Nat /\ client'.read <= client.sent

LEMMA FlowFar ==
  ASSUME FlowInv
  PROVE  /\ far \in Fars /\ far.unread \in Seq(0..MaxDown)
         /\ obfs.saved \in Seq(0..MaxUp) /\ remote.buf \in Seq(0..MaxUp)
         /\ client.read <= client.sent
BY DEF FlowInv, TypeOK, Bounded

(* A callback that is over for an error.                                   *)
LEMMA ErrorFlow ==
  ASSUME FlowInv, Typed', NEW why \in {"error", "timeout", "empty", "garbled"}, CloseBoth(why),
         UNCHANGED far, Reading, obfs'.saved \in Seq(0..MaxUp)
  PROVE  FlowInv'
<1>1. Ends'
  BY DEF Ends, CloseBoth
<1>2. far' \in Fars /\ far'.unread \in Seq(0..MaxDown)
  BY FlowFar
<1>3. QED
  BY <1>1, <1>2, CloseFlow DEF Reading

LEMMA BoundedStays ==
  ASSUME FlowInv, Reading, SameFar, Len(server'.buf) <= BufSize
  PROVE  Bounded'
BY DEF FlowInv, Bounded, Reading, SameFar

(* The first data opens the connection: s and r are what server_recv_cb    *)
(* has made of the two sides, wire what client_encode has made of the data *)
LEMMA ConnectFlow ==
  ASSUME FlowInv, Typed, Typed', Live, Before, Untouched, NEW direct \in BOOLEAN,
         NEW s, s = [server EXCEPT !.stage = "stream", !.buf = <<>>],
         NEW r, r = [remote EXCEPT !.direct = direct],
         NEW wire, NEW z, NEW w, Line(<<>>, wire, obfs'.saved, z, w, client'.read),
         obfs'.kind = obfs.kind, obfs'.heard = obfs.heard, Reading, UNCHANGED shortReply,
         obfs'.kind = "tls" /\ ~direct => obfs'.status = 1 /\ w = 1 /\ z = 1,
         ~(obfs'.kind = "tls" /\ ~direct) => obfs'.saved = <<>> /\ w = 0,
         direct => z = 0, obfs'.kind = "plain" /\ ~direct => z = 1,
         obfs'.kind = "http" /\ ~direct => z = 2 /\ obfs'.status = 8,
         Connect(s, r, wire)
  PROVE  FlowInv'
<1> DEFINE waiting == [r EXCEPT !.state = "connecting"]
           open == [r EXCEPT !.state = "connected", !.recvIo = TRUE, !.idleTimer = TRUE]
<1>1. /\ far \in Fars /\ far.got = <<>> /\ far.told = 0 /\ far.unread = <<>> /\ far.sent = 0
      /\ ~far.greeted /\ client.got = <<>> /\ ~obfs.heard
  BY FlowFar DEF Untouched, Before
<1>2. wire \in Seq(Nat) /\ obfs'.saved \in Seq(0..MaxUp)
  <2>1. client'.read <= MaxUp /\ MaxUp \in Nat
    <3>1. client.sent \in Nat /\ client'.read \in Nat /\ client'.read <= client.sent
          /\ client.sent <= MaxUp /\ MaxUp \in Nat
      BY SizesAssumption DEF Typed, OthersTyped, Reading, FlowInv, Bounded
    <3>2. QED
      BY <3>1
  <2>2. QED
    BY <2>1, LineTyped, LineWithin
<1>3. CASE CloseBoth("error") /\ UNCHANGED far
  BY <1>2, <1>3, ErrorFlow
<1>4. /\ s.stage = "stream" /\ s.buf = <<>> /\ r.direct = direct /\ r.buf = <<>>
  BY DEF Typed, Servers, Remotes, Before
<1>5. ASSUME server'.stage = "stream", server'.buf = <<>>, ended' = ended, LineUp', SameFar,
             remote'.direct = direct
      PROVE  FlowInv'
  <2>1. Held' <=> obfs'.kind = "tls" /\ ~direct
    BY <1>5 DEF Held, Tls
  <2>2. Behind(0)'
    BY <1>1, <1>5, <2>1 DEF Behind, SameFar, Tls, Http, Unheard, Reading
  <2>3. Line(client'.got, server'.buf, far'.unread, 0, 0, far'.sent)
    BY <1>1, <1>5, LineStart DEF SameFar, Reading
  <2>4. LineDown'
    BY <2>2, <2>3 DEF LineDown
  <2>5. Len(server'.buf) <= BufSize
    BY <1>5, SizesAssumption
  <2>6. Bounded' /\ Live'
    BY <1>5, <2>5, BoundedStays DEF Live
  <2>7. QED
    BY <1>5, <2>4, <2>6, LiveFlow DEF Flowing
<1>6. ASSUME remote'.direct = direct
      PROVE  /\ Held' => w = 1 /\ far.told + z = 1
             /\ ~Held' => obfs'.saved = <<>> /\ w = 0 /\ far.told + z = Messages'
             /\ Http(remote)' => obfs'.status = 8
  <2>1. Held' <=> obfs'.kind = "tls" /\ ~direct
    BY <1>6 DEF Held, Tls
  <2>2. obfs'.kind \in {"plain", "http", "tls"}
    BY DEF Typed, OthersTyped, Obfuscations
  <2>3. ~Held' => z = Messages'
    BY <1>6, <2>1, <2>2 DEF Messages
  <2>4. z \in Nat /\ far.told + z = z
    BY <1>1, LineTyped
  <2>5. QED
    BY <1>6, <2>1, <2>3, <2>4 DEF Http
<1>7. ASSUME NEW timer \in BOOLEAN, NEW units,
             WaitForRemote(s, [waiting EXCEPT !.connectTimer = timer], units)
      PROVE  /\ server'.stage = "stream" /\ server'.buf = <<>> /\ ended' = ended
             /\ remote'.direct = direct /\ remote'.buf = units
  <2>1. /\ server' = [s EXCEPT !.recvIo = FALSE] /\ ended' = ended
        /\ remote' = [[waiting EXCEPT !.connectTimer = timer] EXCEPT !.sendIo = TRUE, !.buf = units]
    BY <1>7 DEF WaitForRemote
  <2>2. QED
    BY <1>4, <2>1 DEF Typed, Servers, Remotes
<1>8. ASSUME NEW timer \in BOOLEAN, WaitForRemote(s, [waiting EXCEPT !.connectTimer = timer], wire),
             UNCHANGED far
      PROVE  FlowInv'
  <2>1. LineUp'
    BY <1>1, <1>6, <1>7, <1>8, SendsNothing
  <2>2. SameFar
    BY <1>1, <1>8 DEF SameFar
  <2>3. QED
    BY <1>5, <1>7, <1>8, <2>1, <2>2
<1>9. ASSUME NEW n \in 1..(Len(wire) - 1), FarGets(Front(wire, n)),
             WaitForRemote(s, [waiting EXCEPT !.connectTimer = TRUE], Drop(wire, n))
      PROVE  FlowInv'
  <2>1. n \in 0..(Len(wire) - 1)
    BY <1>2
  <2>2. Sends(far, wire, n)
    BY <1>2, <1>7, <1>9, <2>1, SendsPart DEF FarGets
  <2>3. LineUp' /\ SameFar
    BY <1>1, <1>6, <1>7, <1>9, <2>2, SendUp DEF SameFar
  <2>4. QED
    BY <1>5, <1>7, <1>9, <2>3
<1>10. CASE FarGets(wire) /\ remote' = open /\ server' = s /\ UNCHANGED ended
  <2>1. remote'.direct = direct /\ remote'.buf = <<>>
    BY <1>4, <1>10 DEF Typed, Remotes
  <2>2. Sends(far, wire, Len(wire))
    BY <1>2, <1>10, <2>1, SendsWhole DEF FarGets
  <2>3. LineUp' /\ SameFar
    BY <1>1, <1>6, <2>1, <2>2, SendUp DEF SameFar
  <2>4. QED
    BY <1>4, <1>5, <1>10, <2>1, <2>3
<1>11. QED
  BY <1>3, <1>8, <1>9, <1>10 DEF Connect

(* The destination is known: the data goes there or to a server.           *)
LEMMA DispatchFlow ==
  ASSUME FlowInv, Typed, Typed', Live, Before, Untouched, server.stage # "stream",
         Reading, UNCHANGED shortReply,
         NEW units, units = Stretch(0, 0, client'.read), Span(0, 0, client'.read), Dispatch(units)
  PROVE  FlowInv'
<1>1. CASE CloseBoth("error") /\ UNCHANGED <<obfs, far>>
  BY <1>1, FlowFar, ErrorFlow
<1>2. ASSUME NEW direct \in BOOLEAN,
             Relay([server EXCEPT !.stage = "stream", !.buf = <<>>],
                   [remote EXCEPT !.direct = direct],
                   (IF direct THEN <<>> ELSE << 0 >>) \o units)
      PROVE  FlowInv'
  <2> DEFINE s == [server EXCEPT !.stage = "stream", !.buf = <<>>]
             r == [remote EXCEPT !.direct = direct]
             first == (IF direct THEN <<>> ELSE <<0>>) \o units
  <2>1. r.state = "none" /\ r.direct = direct
    BY DEF Typed, Before, Remotes
  <2>2. Line(<<>>, units, <<>>, 0, 0, client'.read) /\ Line(<<>>, <<>>, units, 0, 0, client'.read)
    <3>1. Line(<<>>, Stretch(0, 0, client'.read), <<>>, 0, 0, client'.read)
      BY LineStart, LineFill
    <3>2. Line(<<>>, <<>>, Joined(<<>>, Stretch(0, 0, client'.read)), 0, 0, client'.read)
      BY LineStart, LineKeep
    <3>3. Joined(<<>>, Stretch(0, 0, client'.read)) = Stretch(0, 0, client'.read)
      BY SpanIs DEF Joined
    <3>4. QED
      BY <3>1, <3>2, <3>3
  <2>3. units \in Seq(Nat)
    BY SpanIs
  <2>4. direct => first = units
    BY <2>3
  <2>5. ~direct => first = Joined(<<0>>, units)
    BY DEF Joined
  <2>6. first \in Seq(Nat) /\ (~direct => first # <<>>)
    <3>1. CASE direct
      BY <2>3, <2>4, <3>1
    <3>2. CASE ~direct
      <4>1. first = <<0>> \o units /\ first \in Seq(Nat) /\ Len(first) = 1 + Len(units)
        BY <2>3, <3>2
      <4>2. QED
        BY <2>3, <4>1
    <3>3. QED
      BY <3>1, <3>2
  <2> HIDE DEF s, r, first
  <2>7. Line(<<>>, first, <<>>, IF direct THEN 0 ELSE 1, 0, client'.read)
    <3>1. Line(<<>>, Joined(<<0>>, units), <<>>, 0 + 1, 0, client'.read)
      BY <2>2, LineHeader
    <3>2. QED
      BY <2>2, <2>4, <2>5, <3>1
  <2>8. /\ obfs.kind \in {"plain", "http", "tls"} /\ obfs.status = 0 /\ obfs.saved = <<>>
    BY DEF Before, Typed, OthersTyped, Obfuscations
  <2>9. CASE ~Tls(r) /\ ~Http(r)
    <3>1. UNCHANGED obfs /\ Connect(s, r, first)
      BY <1>2, <2>1, <2>9 DEF Relay, Encode, s, r, first
    <3>2. direct \/ obfs.kind = "plain"
      BY <2>1, <2>8, <2>9 DEF Tls, Http
    <3>3. Line(<<>>, first, obfs'.saved, IF direct THEN 0 ELSE 1, 0, client'.read)
      BY <2>7, <2>8, <3>1
    <3>4. QED
      BY <2>8, <3>1, <3>2, <3>3, ConnectFlow DEF s, r
  <2>10. CASE Http(r)
    <3>1. ~direct /\ obfs.kind = "http" /\ ~Tls(r)
      BY <2>1, <2>10 DEF Http, Tls
    <3>2. obfs' = [obfs EXCEPT !.status = 8, !.saved = <<>>] /\ Connect(s, r, <<0>> \o first)
      BY <1>2, <2>1, <2>8, <2>10, <3>1 DEF Relay, Encode, Handshaken, s, r, first
    <3>3. /\ obfs'.kind = "http" /\ obfs'.heard = obfs.heard
          /\ obfs'.status = 8 /\ obfs'.saved = <<>>
      BY <3>1, <3>2 DEF Typed, OthersTyped, Obfuscations
    <3>4. Line(<<>>, Joined(<<0>>, first), <<>>, 1 + 1, 0, client'.read)
      BY <2>7, <3>1, LineHeader
    <3>5. Line(<<>>, Joined(<<0>>, first), obfs'.saved, 2, 0, client'.read)
      BY <3>3, <3>4
    <3>6. Connect(s, r, Joined(<<0>>, first))
      BY <3>2 DEF Joined
    <3>7. QED
      BY <3>1, <3>3, <3>5, <3>6, ConnectFlow DEF s, r
  <2>11. CASE Tls(r)
    <3>1. ~direct /\ obfs.kind = "tls" /\ first # <<>>
      BY <2>1, <2>6, <2>11 DEF Tls
    <3>2. obfs' = [obfs EXCEPT !.status = 1, !.saved = @ \o first] /\ Connect(s, r, <<0>>)
      BY <1>2, <2>1, <2>8, <2>11, <3>1 DEF Relay, Encode, Http, s, r, first
    <3>3. obfs.saved \o first = first
      BY <2>6, <2>8
    <3>4. /\ obfs'.kind = "tls" /\ obfs'.heard = obfs.heard
          /\ obfs'.status = 1 /\ obfs'.saved = first
      BY <3>1, <3>2, <3>3 DEF Typed, OthersTyped, Obfuscations
    <3>5. Line(<<>>, <<>>, Joined(<<0>>, units), 0, 0 + 1, client'.read)
      BY <2>2, LineHeader
    <3>6. Line(<<>>, <<>>, first, 0, 1, client'.read)
      BY <2>5, <3>1, <3>5
    <3>7. Line(<<>>, Joined(<<0>>, <<>>), first, 0 + 1, 1, client'.read)
      BY <3>6, LineHeader
    <3>8. Joined(<<0>>, <<>>) = <<0>>
      BY DEF Joined
    <3>9. Line(<<>>, <<0>>, obfs'.saved, 1, 1, client'.read)
      BY <3>4, <3>7, <3>8
    <3>10. QED
      BY <3>1, <3>2, <3>4, <3>9, ConnectFlow DEF s, r
  <2>12. QED
    BY <2>9, <2>10, <2>11
<1>3. QED
  BY <1>1, <1>2 DEF Dispatch

(* The request is complete, or more of the first data is waited for.       *)
LEMMA OpenRemoteFlow ==
  ASSUME FlowInv, Typed, Typed', Live, Before, Untouched, server.stage # "stream",
         Reading, UNCHANGED shortReply,
         NEW units, units = Stretch(0, 0, client'.read), Span(0, 0, client'.read), OpenRemote(units)
  PROVE  FlowInv'
<1>1. CASE /\ Len(units) < BufSize
           /\ server' = [server EXCEPT !.stage = "parse", !.buf = units]
           /\ UNCHANGED <<remote, obfs, far, ended>>
  <2>1. server'.stage = "parse" /\ server'.buf = units
    BY <1>1 DEF Typed, Servers
  <2>2. Before'
    BY <1>1 DEF Before, Typed, Servers
  <2>3. Len(server'.buf) <= BufSize
    <3>1. Len(units) \in Nat /\ BufSize \in Nat
      BY SpanIs, SizesAssumption
    <3>2. QED
      BY <1>1, <2>1, <3>1
  <2>4. SameFar
    BY <1>1, FlowFar DEF SameFar
  <2>5. Bounded'
    BY <2>3, <2>4, BoundedStays
  <2>6. units = Bytes(0, client'.read)
    BY StretchBytes DEF Reading
  <2>7. Untouched'
    BY <1>1, <2>1, <2>6 DEF Untouched, Reading
  <2>8. QED
    BY <1>1, <2>1, <2>2, <2>5, <2>7, LiveFlow DEF Flowing, Live
<1>2. CASE Dispatch(units)
  BY <1>2, DispatchFlow
<1>3. QED
  BY <1>1, <1>2 DEF OpenRemote

-----------------------------------------------------------------------------
(* The actions of the client's side.                                       *)
Opening == IInv /\ FlowInv /\ Typed' /\ Live /\ server.stage # "stream"

LEMMA OpeningIs == Opening => Typed /\ Before /\ Untouched
BY DEF Opening, IInv, FlowInv, Flowing

LEMMA RecvRequestFlow == IInv /\ FlowInv /\ Typed' /\ RecvRequest => FlowInv'
<1> SUFFICES ASSUME IInv, FlowInv, Typed', RecvRequest PROVE FlowInv'
  OBVIOUS
<1>1. Live /\ server.stage = "handshake" /\ UNCHANGED shortReply
  BY DEF RecvRequest, IInv, Off
<1>2. Typed /\ Before /\ Untouched
  BY <1>1, OpeningIs DEF Opening
<1>3. PICK n \in 0..Lesser(Unread, BufSize) : Reads(n) /\ OpenRemote(Read(n))
  BY DEF RecvRequest
<1>4. /\ Span(0, client.read, client'.read) /\ Read(n) = Stretch(0, client.read, client'.read)
      /\ client.read = 0 /\ Reading
  BY <1>1, <1>2, <1>3, ReadMore, SizesAssumption DEF Untouched, Reading
<1>5. QED
  BY <1>1, <1>2, <1>3, <1>4, OpenRemoteFlow

LEMMA RecvTunnelledFlow == IInv /\ FlowInv /\ Typed' /\ RecvTunnelled => FlowInv'
<1> SUFFICES ASSUME IInv, FlowInv, Typed', RecvTunnelled PROVE FlowInv'
  OBVIOUS
<1>1. Live /\ server.stage = "init" /\ UNCHANGED shortReply
  BY DEF RecvTunnelled, IInv, Off
<1>2. Typed /\ Before /\ Untouched
  BY <1>1, OpeningIs DEF Opening
<1>3. PICK n \in 1..Lesser(Unread, BufSize) : Reads(n) /\ Dispatch(Read(n))
  BY DEF RecvTunnelled
<1>4. n \in 0..Lesser(Unread, BufSize) /\ BufSize \in Nat
  BY <1>2, SizesAssumption DEF Typed, OthersTyped, Lesser, Unread
<1>5. /\ Span(0, client.read, client'.read) /\ Read(n) = Stretch(0, client.read, client'.read)
      /\ client.read = 0 /\ Reading
  BY <1>1, <1>2, <1>3, <1>4, ReadMore DEF Untouched, Reading
<1>6. QED
  BY <1>1, <1>2, <1>3, <1>5, DispatchFlow

LEMMA RecvFirstDataFlow == IInv /\ FlowInv /\ Typed' /\ RecvFirstData => FlowInv'
<1> SUFFICES ASSUME IInv, FlowInv, Typed', RecvFirstData PROVE FlowInv'
  OBVIOUS
<1>1. Live /\ server.stage = "parse" /\ UNCHANGED shortReply
  BY DEF RecvFirstData, IInv, Off
<1>2. Typed /\ Before /\ Untouched
  BY <1>1, OpeningIs DEF Opening
<1> DEFINE room == BufSize - Len(server.buf)
<1>3. PICK n \in 1..Lesser(Unread, room) : Reads(n) /\ OpenRemote(server.buf \o Read(n))
  BY DEF RecvFirstData
<1>4. n \in 0..Lesser(Unread, room) /\ room \in Nat
  <2>1. Len(server.buf) \in Nat /\ Len(server.buf) <= BufSize /\ BufSize \in Nat
    BY <1>2, SizesAssumption DEF Typed, Servers, Units, FlowInv, Bounded
  <2>2. client.read \in Nat /\ client.sent \in Nat
    BY <1>2 DEF Typed, OthersTyped
  <2>3. QED
    BY <2>1, <2>2 DEF Lesser, Unread
<1> HIDE DEF room
<1>5. /\ Span(0, client.read, client'.read) /\ Read(n) = Stretch(0, client.read, client'.read)
      /\ client.read \in Nat /\ Reading
  BY <1>2, <1>3, <1>4, ReadMore DEF Typed, OthersTyped, Reading
<1>6. server.buf = Stretch(0, 0, client.read) /\ Span(0, 0, client.read)
  <2>1. Stretch(0, 0, client.read) = Bytes(0, client.read)
    BY <1>5, StretchBytes
  <2>2. QED
    BY <1>2, <1>5, <2>1 DEF Untouched, Span
<1>7. server.buf \o Read(n) = Stretch(0, 0, client'.read) /\ Span(0, 0, client'.read)
  <2>1. /\ Stretch(0, 0, client.read) \o Stretch(0, client.read, client'.read)
             = Stretch(0, 0, client'.read)
        /\ Span(0, 0, client'.read)
    BY <1>5, <1>6, SpanJoin, ZenonT(30)
  <2>2. QED
    BY <1>5, <1>6, <2>1
<1>8. QED
  BY <1>1, <1>2, <1>3, <1>5, <1>7, OpenRemoteFlow

LEMMA GreetingFlow ==
  IInv /\ FlowInv /\ Typed' /\ (RecvGreeting \/ RecvAssociate) => FlowInv'
<1> SUFFICES ASSUME IInv, FlowInv, Typed', RecvGreeting \/ RecvAssociate PROVE FlowInv'
  OBVIOUS
<1>1. Live /\ server.stage \in {"init", "handshake"}
  BY DEF RecvGreeting, RecvAssociate, IInv, Off
<1>2. Typed /\ Before /\ Untouched
  BY <1>1, OpeningIs DEF Opening
<1>3. PICK next \in {"handshake", "associated"} :
        /\ server' = [server EXCEPT !.stage = next]
        /\ UNCHANGED <<remote, obfs, client, far, ended, shortReply>>
  BY DEF RecvGreeting, RecvAssociate
<1>4. server'.stage = next /\ server'.buf = server.buf
  BY <1>2, <1>3 DEF Typed, Servers
<1>5. Untouched' /\ Live' /\ Bounded'
  BY <1>1, <1>2, <1>3, <1>4 DEF Untouched, Live, FlowInv, Bounded
<1>6. Before'
  BY <1>2, <1>3 DEF Before, Typed, Servers
<1>7. QED
  BY <1>3, <1>4, <1>5, <1>6, LiveFlow DEF Flowing

(* The end of the client's stream closes an open connection whose buffer   *)
(* is empty, unless it is what a short reply has left.                     *)
LEMMA RecvEndFlow == IInv /\ FlowInv /\ Typed' /\ RecvEnd => FlowInv'
<1> SUFFICES ASSUME IInv, FlowInv, Typed', RecvEnd PROVE FlowInv'
  OBVIOUS
<1>1. /\ Live /\ server.recvIo /\ Unread = 0 /\ CloseBoth("client")
      /\ UNCHANGED <<obfs, client, far, shortReply>>
  BY DEF RecvEnd, IInv, Off
<1>2. client.read = client.sent
  <2>1. client.read \in Nat /\ client.sent \in Nat
    BY DEF IInv, Typed, OthersTyped
  <2>2. QED
    BY <1>1, <2>1 DEF Unread
<1>3. ended' = "client" /\ server'.stage = server.stage
  BY <1>1 DEF CloseBoth, IInv, Typed, Servers
<1>4. ASSUME server.stage = "stream", obfs.saved = <<>>, ~shortReply
      PROVE  far.got = Bytes(0, client.sent)
  <2>1. PICK z, w : Line(far.got, remote.buf, obfs.saved, z, w, client.read)
    BY <1>1, <1>4 DEF FlowInv, Flowing, LineUp
  <2>2. remote.buf = <<>>
    BY <1>1, <1>4 DEF IInv, Streaming, Sending, Resting, Short
  <2>3. QED
    BY <1>2, <1>4, <2>1, <2>2, LineEmpty
<1>5. Ends'
  BY <1>1, <1>3, <1>4 DEF Ends
<1>6. QED
  BY <1>1, <1>5, FlowFar, CloseFlow

-----------------------------------------------------------------------------
(* An open connection in STAGE_STREAM.                                     *)
Streamed == IInv /\ FlowInv /\ Typed' /\ Live /\ server.stage = "stream"

LEMMA StreamedIs ==
  Streamed => /\ Typed /\ Streaming /\ LineUp /\ LineDown
              /\ (Tls(remote) => obfs.status \in {1, 8}) /\ (Held <=> Tls(remote) /\ obfs.status # 8)
<1> SUFFICES ASSUME Streamed
             PROVE  /\ Typed /\ Streaming /\ LineUp /\ LineDown
                    /\ Tls(remote) => obfs.status \in {1, 8}
                    /\ Held <=> Tls(remote) /\ obfs.status # 8
  OBVIOUS
<1>1. Typed /\ Streaming /\ LineUp /\ LineDown
  BY DEF Streamed, IInv, FlowInv, Flowing
<1>2. obfs.status \in {0, 1, 8}
  BY <1>1 DEF Typed, OthersTyped, Obfuscations
<1>3. Tls(remote) => obfs.status \in {1, 8}
  BY <1>1, <1>2 DEF Streaming, Greeting
<1>4. Held <=> Tls(remote) /\ obfs.status # 8
  BY <1>3 DEF Held
<1>5. QED
  BY <1>1, <1>3, <1>4

(* A callback of the client's side that goes on.                           *)
LEMMA StreamUpFlow ==
  ASSUME Streamed, server'.stage = "stream", server'.buf = server.buf, ended' = ended,
         LineUp', SameFar, Reading, remote'.direct = remote.direct,
         obfs'.kind = obfs.kind, obfs'.status = obfs.status, obfs'.heard = obfs.heard
  PROVE  FlowInv'
<1>1. LineDown'
  BY StreamedIs, DownStays DEF SameFar, Reading
<1>2. Bounded'
  BY BoundedStays DEF Streamed, FlowInv, Bounded
<1>3. QED
  BY <1>1, <1>2, LiveFlow DEF Streamed, Flowing, Live

LEMMA RecvDataFlow == IInv /\ FlowInv /\ Typed' /\ RecvData => FlowInv'
<1> SUFFICES ASSUME IInv, FlowInv, Typed', RecvData PROVE FlowInv'
  OBVIOUS
<1>1. Streamed /\ server.recvIo /\ UNCHANGED shortReply
  BY DEF RecvData, IInv, Off, Streamed
<1>2. PICK n \in 1..Lesser(Unread, BufSize) :
        /\ Reads(n)
        /\ IF remote.buf # <<>>
             THEN CloseBoth("garbled") /\ UNCHANGED <<obfs, far>>
             ELSE Relay(server, remote, Read(n))
  BY DEF RecvData
<1> DEFINE units == Read(n)
<1>3. n \in 0..Lesser(Unread, BufSize) /\ BufSize \in Nat /\ n > 0
  BY SizesAssumption DEF IInv, Typed, OthersTyped, Lesser, Unread
<1>4. /\ Span(0, client.read, client'.read) /\ units = Stretch(0, client.read, client'.read)
      /\ Reading /\ units \in Seq(0..MaxUp)
  BY <1>2, <1>3, ReadMore DEF Reading, IInv
<1>5. units # <<>>
  BY <1>2, <1>3, ReadUnits DEF IInv
<1> HIDE DEF units
<1>6. CASE CloseBoth("garbled") /\ UNCHANGED <<obfs, far>>
  BY <1>4, <1>6, FlowFar, ErrorFlow
<1>7. CASE remote.buf = <<>> /\ Relay(server, remote, units)
  <2>1. remote.state = "connected" /\ ~shortReply
    BY <1>1, <1>7, StreamedIs DEF Streaming, Sending, Resting, Short
  <2>2. PICK z, w : Line(far.got, remote.buf, obfs.saved, z, w, client.read) /\ Counted(z, w)
    BY <1>1, StreamedIs DEF LineUp
  <2>3. z = 0 /\ far \in Fars
    BY <1>7, <2>2, LineRelease, FlowFar
  <2>4. CASE ~Held
    <3>1. UNCHANGED obfs /\ SendNow(server, remote, units)
      <4>1. ~(Http(remote) \/ Tls(remote)) \/ obfs.status = 8
        BY <1>1, <2>2, <2>4, StreamedIs DEF Counted
      <4>2. QED
        BY <1>7, <2>1, <4>1 DEF Relay, Encode
    <3>2. /\ obfs.saved = <<>> /\ w = 0 /\ far.told + z = Messages
          /\ Http(remote) => obfs.status = 8
      BY <2>2, <2>4 DEF Counted
    <3>3. Line(far.got, <<>>, <<>>, z, w, client.read)
      BY <1>7, <2>2, <3>2
    <3>4. Line(far.got, Stretch(0, client.read, client'.read), <<>>, 0, 0, client'.read)
      BY <1>4, <3>3, LineFill
    <3>5. Line(far.got, units, obfs'.saved, 0, 0, client'.read)
      BY <1>4, <3>1, <3>2, <3>4
    <3>6. ASSUME remote'.direct = remote.direct
          PROVE  ~Held' /\ Messages' = Messages /\ Http(remote)' = Http(remote)
      BY <2>4, <3>1, <3>6 DEF Held, Tls, Messages, Http
    <3>7. units \in Seq(Nat)
      BY <3>5, LineTyped
    <3>8. CASE CloseBoth("error") /\ UNCHANGED far
      BY <1>4, <3>1, <3>8, FlowFar, ErrorFlow
    <3>9. ASSUME NEW m, Sends(far, units, m), server'.stage = "stream", server'.buf = server.buf,
                 ended' = ended, remote'.direct = remote.direct
          PROVE  FlowInv'
      <4>1. LineUp' /\ SameFar
        BY <2>3, <3>1, <3>2, <3>5, <3>6, <3>9, SendUp DEF SameFar
      <4>2. QED
        BY <1>1, <1>4, <3>1, <3>9, <4>1, StreamUpFlow
    <3>10. ASSUME NEW k \in 0..(Len(units) - 1), FarGets(Front(units, k)),
                  KeepRest(server, remote, Drop(units, k))
           PROVE  FlowInv'
      <4>1. /\ server' = [server EXCEPT !.recvIo = FALSE] /\ ended' = ended
            /\ remote' = [remote EXCEPT !.sendIo = TRUE, !.buf = Drop(units, k)]
        BY <3>10 DEF KeepRest, WaitForRemote
      <4>2. /\ server'.stage = "stream" /\ server'.buf = server.buf
            /\ remote'.direct = remote.direct /\ remote'.buf = Drop(units, k)
        BY <1>1, <4>1 DEF Streamed, IInv, Typed, Servers, Remotes
      <4>3. Sends(far, units, k)
        BY <3>7, <3>10, <4>2, SendsPart DEF FarGets
      <4>4. QED
        BY <3>9, <4>1, <4>2, <4>3
    <3>11. CASE FarGets(units) /\ server' = server /\ remote' = remote /\ UNCHANGED ended
      <4>1. Sends(far, units, Len(units))
        BY <1>7, <3>7, <3>11, SendsWhole DEF FarGets
      <4>2. QED
        BY <1>1, <3>9, <3>11, <4>1 DEF Streamed
    <3>12. QED
      BY <1>5, <3>1, <3>8, <3>10, <3>11 DEF SendNow
  <2>5. CASE Held
    <3>1. Tls(remote) /\ obfs.status = 1 /\ ~Http(remote)
      BY <2>5 DEF Held, Tls, Http
    <3>2. /\ obfs' = [obfs EXCEPT !.status = 1, !.saved = @ \o units]
          /\ SendNow(server, remote, <<>>)
      BY <1>5, <1>7, <2>1, <3>1 DEF Relay, Encode
    <3>3. server' = [server EXCEPT !.recvIo = FALSE] /\ remote' = remote /\ UNCHANGED <<far, ended>>
      BY <3>2 DEF SendNow
    <3>4. /\ obfs'.saved = Joined(obfs.saved, units) /\ obfs'.kind = obfs.kind
          /\ obfs'.status = obfs.status /\ obfs'.heard = obfs.heard
      BY <1>1, <3>1, <3>2 DEF Joined, Streamed, IInv, Typed, OthersTyped, Obfuscations
    <3>5. Line(far.got, remote.buf, obfs'.saved, z, w, client'.read)
      BY <1>4, <2>2, <3>4, LineKeep
    <3>6. Held' /\ w = 1 /\ far.told + z = 1 /\ ~Http(remote)'
      BY <2>2, <2>5, <3>1, <3>3, <3>4 DEF Counted, Held, Tls, Http
    <3>7. LineUp'
      BY <3>3, <3>5, <3>6, SendsNothing
    <3>8. SameFar
      BY <2>3, <3>3 DEF SameFar
    <3>9. server'.stage = "stream" /\ server'.buf = server.buf
      BY <1>1, <3>3 DEF Streamed, IInv, Typed, Servers
    <3>10. QED
      BY <1>1, <1>4, <3>3, <3>4, <3>7, <3>8, <3>9, StreamUpFlow
  <2>6. QED
    BY <2>4, <2>5
<1>8. QED
  BY <1>2, <1>6, <1>7 DEF units

(* What the watcher of the far end finds when it may be written to.        *)
LEMMA FlushFlow ==
  ASSUME Streamed, UNCHANGED <<obfs, client, shortReply>>,
         NEW open \in Remotes, open.buf = remote.buf, open.direct = remote.direct,
         remote.buf # <<>>, Flush(open)
  PROVE  FlowInv'
<1> DEFINE wire == remote.buf
<1>0. open.buf = wire
  OBVIOUS
<1>1. PICK z, w : Line(far.got, wire, obfs.saved, z, w, client.read) /\ Counted(z, w)
  BY StreamedIs DEF LineUp
<1>2. Line(far.got, wire, obfs'.saved, z, w, client'.read) /\ wire \in Seq(Nat)
  BY <1>1, LineTyped
<1>3. far \in Fars /\ Reading
  BY FlowFar DEF Reading, Streamed, IInv, Typed, OthersTyped
<1> HIDE DEF wire
<1>4. ASSUME remote'.direct = remote.direct
      PROVE  Held' = Held /\ Messages' = Messages /\ Http(remote)' = Http(remote)
  BY <1>4 DEF Held, Tls, Messages, Http
<1>5. CASE CloseBoth("error") /\ UNCHANGED far
  BY <1>3, <1>5, FlowFar, ErrorFlow DEF Streamed
<1>6. ASSUME NEW m, Sends(far, wire, m), server'.stage = "stream", server'.buf = server.buf,
             ended' = ended, remote'.direct = remote.direct
      PROVE  FlowInv'
  <2>1. /\ Held' => w = 1 /\ far.told + z = 1
        /\ ~Held' => obfs'.saved = <<>> /\ w = 0 /\ far.told + z = Messages'
        /\ Http(remote)' => obfs'.status = 8
    BY <1>1, <1>4, <1>6 DEF Counted
  <2>2. LineUp' /\ SameFar
    BY <1>2, <1>3, <1>6, <2>1, SendUp DEF SameFar
  <2>3. QED
    BY <1>3, <1>6, <2>2, StreamUpFlow
<1>7. ASSUME NEW n \in 0..(Len(wire) - 1), FarGets(Front(wire, n)),
             remote' = [open EXCEPT !.buf = Drop(@, n)], UNCHANGED <<server, ended>>
      PROVE  FlowInv'
  <2>1. remote'.buf = Drop(wire, n) /\ remote'.direct = remote.direct
    BY <1>0, <1>7 DEF Remotes
  <2>2. Sends(far, wire, n)
    BY <1>2, <1>7, <2>1, SendsPart DEF FarGets
  <2>3. QED
    BY <1>6, <1>7, <2>1, <2>2 DEF Streamed
<1>8. CASE FarGets(wire) /\ ListenToClient(open)
  <2>1. /\ remote' = [open EXCEPT !.sendIo = FALSE, !.buf = <<>>]
        /\ server' = [server EXCEPT !.recvIo = TRUE] /\ UNCHANGED ended
    BY <1>8 DEF ListenToClient
  <2>2. /\ remote'.buf = <<>> /\ remote'.direct = remote.direct
        /\ server'.stage = "stream" /\ server'.buf = server.buf
    BY <2>1 DEF Remotes, Streamed, IInv, Typed, Servers
  <2>3. Sends(far, wire, Len(wire))
    BY <1>2, <1>8, <2>2, SendsWhole DEF FarGets
  <2>4. QED
    BY <1>6, <2>1, <2>2, <2>3
<1>9. QED
  BY <1>0, <1>5, <1>7, <1>8 DEF Flush, wire

LEMMA RemoteSendFlow == IInv /\ FlowInv /\ Typed' /\ RemoteSend => FlowInv'
<1> SUFFICES ASSUME IInv, FlowInv, Typed', RemoteSend PROVE FlowInv'
  OBVIOUS
<1> DEFINE open == [remote EXCEPT !.state = "connected", !.connectTimer = FALSE,
                                  !.recvIo = TRUE, !.idleTimer = TRUE]
<1>1. Streamed /\ remote.sendIo /\ UNCHANGED <<obfs, client, shortReply>>
  BY DEF RemoteSend, IInv, Off, Before, Streamed
<1>2. remote \in Remotes /\ Sending
  BY <1>1, StreamedIs DEF Typed, Streaming, Resting, Short
<1>3. open \in Remotes /\ open.buf = remote.buf /\ open.direct = remote.direct
  BY <1>2 DEF Remotes
<1> HIDE DEF open
<1>4. CASE remote.buf # <<>>
  <2>1. PICK r \in Remotes : r.buf = remote.buf /\ r.direct = remote.direct /\ Flush(r)
    <3>1. remote.state \in {"connecting", "connected"}
      BY <1>1, StreamedIs DEF Streaming, Receiving
    <3>2. CASE remote.state = "connected"
      BY <1>2, <3>2 DEF RemoteSend
    <3>3. CASE remote.state = "connecting"
      <4>1. Flush(open)
        BY <1>4, <3>3 DEF RemoteSend, open
      <4>2. QED
        BY <1>3, <4>1
    <3>4. QED
      BY <3>1, <3>2, <3>3
  <2>2. QED
    BY <1>1, <1>4, <2>1, FlushFlow
<1>5. CASE remote.buf = <<>>
  <2>1. remote.state # "connected"
    BY <1>2, <1>5 DEF Sending
  <2>2. \/ CloseBoth("error") /\ UNCHANGED far
        \/ ListenToClient(open) /\ UNCHANGED far
    BY <1>5, <2>1 DEF RemoteSend, open
  <2>3. Reading
    BY <1>1, FlowFar DEF Reading, Streamed, IInv, Typed, OthersTyped
  <2>4. CASE CloseBoth("error") /\ UNCHANGED far
    BY <1>1, <2>3, <2>4, FlowFar, ErrorFlow
  <2>5. CASE ListenToClient(open) /\ UNCHANGED far
    <3>1. /\ remote' = [open EXCEPT !.sendIo = FALSE, !.buf = <<>>]
          /\ server' = [server EXCEPT !.recvIo = TRUE] /\ UNCHANGED ended
      BY <2>5 DEF ListenToClient
    <3>2. /\ remote'.buf = remote.buf /\ remote'.direct = remote.direct
          /\ server'.stage = "stream" /\ server'.buf = server.buf
      BY <1>1, <1>3, <1>5, <3>1 DEF Remotes, Streamed, IInv, Typed, Servers
    <3>3. LineUp'
      BY <1>1, <2>5, <3>2, StreamedIs, UpStays
    <3>4. SameFar
      BY <2>5, FlowFar DEF SameFar
    <3>5. QED
      BY <1>1, <2>3, <3>1, <3>2, <3>3, <3>4, StreamUpFlow
  <2>6. QED
    BY <2>2, <2>4, <2>5
<1>6. QED
  BY <1>4, <1>5

-----------------------------------------------------------------------------
(* From the far end to the client.                                         *)

(* m units of what was read are taken by the client, as they are.          *)
LEMMA DownSend ==
  ASSUME NEW got, NEW units, NEW rest, NEW n, NEW m,
         Line(got, units, rest, 0, 0, n), m \in 0..Len(units)
  PROVE  Line(got \o Front(units, m), Drop(units, m), rest, 0, 0, n)
<1> DEFINE s == Front(units, m)
<1>1. /\ Zeros(s) \in 0..0 /\ Payload(s) = s
      /\ Line(Joined(got, Payload(s)), Drop(units, m), rest, 0 - Zeros(s), 0, n)
  BY LineSend
<1> HIDE DEF s
<1>2. Zeros(s) = 0 /\ 0 - Zeros(s) = 0
  BY <1>1
<1>3. Line(Joined(got, s), Drop(units, m), rest, 0, 0, n)
  BY <1>1, <1>2
<1>4. QED
  BY <1>3 DEF Joined, s

(* The answer to the hello: what was kept back is sent, or a part of it.   *)
LEMMA SendBackFlow ==
  ASSUME Streamed, far.unread # <<>>, Tls(remote), obfs.status # 8, SendBack
  PROVE  FlowInv'
<1> DEFINE read == [far EXCEPT !.unread = Drop(@, 1)]
           wire == <<0>> \o obfs.saved
<1>1. Held /\ ~Http(remote) /\ remote.buf = <<>> /\ remote.direct = FALSE
  <2>1. Held /\ Streaming
    BY StreamedIs
  <2>2. remote.buf = <<>>
    BY <2>1 DEF Streaming, Sending, Resting, Short
  <2>3. remote.direct = FALSE
    BY DEF Tls, Streamed, IInv, Typed, Remotes
  <2>4. QED
    BY <2>1, <2>2, <2>3 DEF Http, Tls
<1>2. far \in Fars /\ Line(far.got, Joined(<<0>>, obfs.saved), <<>>, 2, 0, client.read) /\ far.told = 1
  <2>1. PICK z, w : Line(far.got, remote.buf, obfs.saved, z, w, client.read) /\ Counted(z, w)
    BY StreamedIs DEF LineUp
  <2>2. w = 1 /\ far.told + z = 1
    BY <1>1, <2>1 DEF Counted
  <2>3. z = 0 /\ Line(far.got, obfs.saved, <<>>, 1, 0, client.read)
    BY <1>1, <2>1, <2>2, LineRelease
  <2>4. Line(far.got, Joined(<<0>>, obfs.saved), <<>>, 1 + 1, 0, client.read)
    BY <2>3, LineHeader
  <2>5. far \in Fars
    BY FlowFar DEF Streamed
  <2>6. far.told = 1
    BY <2>2, <2>3, <2>5 DEF Fars
  <2>7. QED
    BY <2>4, <2>5, <2>6
<1>3. /\ far.greeted /\ far.sent = 0 /\ Drop(far.unread, 1) = <<>>
      /\ client.got = <<>> /\ server.buf = <<>>
  <2>1. ~Unheard
    BY <1>1 DEF Unheard
  <2>2. PICK u : Line(client.got, server.buf, far.unread, 0, u, far.sent) /\ Behind(u)
    BY <2>1, StreamedIs DEF LineDown, Lost
  <2>3. far.sent = 0 /\ u = (IF far.greeted THEN 1 ELSE 0)
    BY <1>1, <2>2 DEF Behind
  <2>4. client.got = <<>> /\ server.buf = <<>> /\ far.unread = Stretch(u, 0, 0)
    BY <2>2, <2>3, LineNothing
  <2>5. <<>> = Stretch(0, 0, 0) /\ <<0>> = Stretch(1, 0, 0)
    BY OneMessage
  <2>6. far.greeted /\ far.unread = <<0>>
    BY <2>3, <2>4, <2>5
  <2>7. Drop(far.unread, 1) = <<>>
    <3> DEFINE one == <<0>>
    <3>1. one \in Seq(Nat) /\ Len(one) = 1
      OBVIOUS
    <3> HIDE DEF one
    <3>2. Drop(one, 1) = <<>>
      BY <3>1, WholeBuffer
    <3>3. QED
      BY <2>6, <3>2 DEF one
  <2>8. QED
    BY <2>3, <2>4, <2>6, <2>7
<1>4. /\ read \in Fars /\ read.got = far.got /\ read.told = 1 /\ read.sent = 0
      /\ read.unread = <<>> /\ read.greeted
  BY <1>2, <1>3, EmptyUnits DEF Fars
<1>5. /\ obfs' = Handshaken(obfs) /\ UNCHANGED client
      /\ \/ CloseBoth("error") /\ UNCHANGED <<far, shortReply>>
         \/ \E n \in 0..(Len(wire) - 1) :
              /\ far' = Got(read, Front(wire, n))
              /\ remote' = [remote EXCEPT !.buf = Drop(wire, n)]
              /\ shortReply' = TRUE /\ UNCHANGED <<server, ended>>
         \/ /\ far' = Got(read, wire) /\ ListenToClient(remote) /\ UNCHANGED shortReply
  <2> HIDE DEF read, wire
  <2>1. QED
    BY <1>1 DEF SendBack, Encode, read, wire
<1>6. wire = Joined(<<0>>, obfs.saved)
  BY DEF Joined
<1> HIDE DEF read, wire
<1>7. /\ obfs'.kind = obfs.kind /\ obfs'.heard = obfs.heard
      /\ obfs'.status = 8 /\ obfs'.saved = <<>> /\ client' = client
  BY <1>5 DEF Handshaken, Streamed, IInv, Typed, OthersTyped, Obfuscations
<1>8. Line(read.got, wire, obfs'.saved, 2, 0, client'.read) /\ wire \in Seq(Nat)
  BY <1>2, <1>4, <1>6, <1>7, LineTyped
<1>9. Reading
  BY <1>7, FlowFar DEF Reading, Streamed, IInv, Typed, OthersTyped
<1>10. CASE CloseBoth("error") /\ UNCHANGED <<far, shortReply>>
  BY <1>7, <1>9, <1>10, EmptyWithin, ErrorFlow DEF Streamed
<1>11. ASSUME NEW m, Sends(read, wire, m), server'.stage = "stream", server'.buf = server.buf,
              ended' = ended, remote'.direct = remote.direct
       PROVE  FlowInv'
  <2>1. ~Held' /\ Tls(remote)' /\ ~Http(remote)'
    BY <1>1, <1>7, <1>11 DEF Held, Tls, Http
  <2>2. Messages' = 3
    <3>1. obfs'.kind = "tls" /\ remote'.direct = FALSE
      BY <1>1, <1>7, <1>11 DEF Held, Tls
    <3>2. QED
      BY <3>1 DEF Messages
  <2>3. read.told + 2 = Messages'
    BY <1>4, <2>2
  <2>4. /\ LineUp' /\ far' \in Fars /\ far'.sent = 0 /\ far'.unread = <<>> /\ far'.greeted
    BY <1>4, <1>7, <1>8, <1>11, <2>1, <2>3, SendUp
  <2>5. Line(client'.got, server'.buf, far'.unread, 0, 0, far'.sent)
    BY <1>3, <1>7, <1>11, <2>4, LineStart
  <2>6. Behind(0)'
    BY <2>1, <2>4 DEF Behind, Unheard
  <2>7. Bounded'
    BY <1>3, <1>7, <1>11, <2>4 DEF Streamed, FlowInv, Bounded
  <2>8. LineDown'
    BY <2>5, <2>6 DEF LineDown
  <2>9. QED
    BY <1>11, <2>4, <2>7, <2>8, LiveFlow DEF Streamed, Flowing, Live
<1>12. ASSUME NEW n \in 0..(Len(wire) - 1), far' = Got(read, Front(wire, n)),
              remote' = [remote EXCEPT !.buf = Drop(wire, n)], UNCHANGED <<server, ended>>
       PROVE  FlowInv'
  <2>1. remote'.buf = Drop(wire, n) /\ remote'.direct = remote.direct
    BY <1>12 DEF Streamed, IInv, Typed, Remotes
  <2>2. Sends(read, wire, n)
    BY <1>8, <1>12, <2>1, SendsPart
  <2>3. QED
    BY <1>11, <1>12, <2>1, <2>2 DEF Streamed
<1>13. CASE far' = Got(read, wire) /\ ListenToClient(remote)
  <2>1. /\ remote' = [remote EXCEPT !.sendIo = FALSE, !.buf = <<>>]
        /\ server' = [server EXCEPT !.recvIo = TRUE] /\ UNCHANGED ended
    BY <1>13 DEF ListenToClient
  <2>2. /\ remote'.buf = <<>> /\ remote'.direct = remote.direct
        /\ server'.stage = "stream" /\ server'.buf = server.buf
    BY <2>1 DEF Streamed, IInv, Typed, Remotes, Servers
  <2>3. Sends(read, wire, Len(wire))
    BY <1>8, <1>13, <2>2, SendsWhole
  <2>4. QED
    BY <1>11, <2>1, <2>2, <2>3
<1>14. QED
  BY <1>5, <1>10, <1>12, <1>13

(* What client_decode makes of n units that were read: they are in line    *)
(* for the client, or thrown away because the header was not read whole.   *)
Decoded(units, unread, heard) ==
  \/ /\ Line(client.got, units, unread, 0, 0, far.sent)
     /\ Http(remote) => heard
     /\ Tls(remote) \/ Http(remote) => far.greeted
  \/ /\ Http(remote) /\ ~heard /\ far.greeted /\ client.got = <<>> /\ units = <<>>
     /\ Remnant(unread, far.sent)

LEMMA DecodeFlow ==
  ASSUME Streamed, ~Held, server.buf = <<>>, NEW n \in 1..Len(far.unread),
         NEW front, front = Front(far.unread, n)
  PROVE  Decoded(Decode(front), Drop(far.unread, n), obfs.heard \/ (Unheard /\ Heard(front)))
<1>1. n \in 0..Len(far.unread)
  OBVIOUS
<1>2. CASE ~Unheard
  <2>1. PICK u : Line(client.got, server.buf, far.unread, 0, u, far.sent) /\ Behind(u)
    BY <1>2, StreamedIs DEF LineDown, Lost
  <2>2. u = 0 /\ (Tls(remote) \/ Http(remote) => far.greeted)
    BY <1>2, <2>1 DEF Behind
  <2>3. Line(client.got, <<>>, far.unread, 0, 0, far.sent)
    BY <2>1, <2>2
  <2>4. Line(client.got, front, Drop(far.unread, n), 0, 0, far.sent)
    BY <1>1, <2>3, LineRead
  <2>5. Decode(front) = front /\ (Http(remote) => obfs.heard)
    BY <1>2 DEF Decode, Unheard
  <2>6. QED
    BY <2>2, <2>4, <2>5 DEF Decoded
<1>3. CASE Unheard /\ Lost
  <2>1. Zeros(front) # 2 /\ Remnant(Drop(far.unread, n), far.sent)
    BY <1>1, <1>3, RemnantRead DEF Lost
  <2>2. Decode(front) = <<>> /\ ~Heard(front) /\ Http(remote) /\ ~obfs.heard
    BY <1>3, <2>1 DEF Decode, Heard, Unheard
  <2>3. QED
    BY <1>3, <2>1, <2>2 DEF Decoded, Lost
<1>4. CASE Unheard /\ ~Lost
  <2>1. PICK u : Line(client.got, server.buf, far.unread, 0, u, far.sent) /\ Behind(u)
    BY <1>4, StreamedIs DEF LineDown
  <2>2. /\ client.got = <<>> /\ server.buf = <<>>
        /\ IF far.greeted THEN u = 2 ELSE u = 0 /\ far.sent = 0
    BY <1>4, <2>1 DEF Behind
  <2>3. far.greeted /\ u = 2
    <3>1. SUFFICES ASSUME u = 0, far.sent = 0 PROVE FALSE
      BY <2>2
    <3>2. far.unread = Stretch(0, 0, 0) /\ <<>> = Stretch(0, 0, 0)
      BY <2>1, <3>1, LineNothing, NoUnits
    <3>3. Len(far.unread) = 0
      BY <3>2
    <3>4. QED
      BY <3>3
  <2>4. Line(<<>>, <<>>, far.unread, 0, 2, far.sent)
    BY <2>1, <2>2, <2>3
  <2>5. Http(remote) /\ ~obfs.heard
    BY <1>4 DEF Unheard
  <2>6. CASE n = 1
    <3>1. Zeros(front) # 2 /\ Remnant(Drop(far.unread, n), far.sent)
      BY <2>4, <2>6, LineHeard
    <3>2. Decode(front) = <<>> /\ ~Heard(front)
      BY <1>4, <3>1 DEF Decode, Heard
    <3>3. QED
      BY <2>2, <2>3, <2>5, <3>1, <3>2 DEF Decoded
  <2>7. CASE n # 1
    <3>1. Zeros(front) = 2 /\ Line(<<>>, Drop(front, 2), Drop(far.unread, n), 0, 0, far.sent)
      BY <2>4, <2>7, LineHeard
    <3>2. Decode(front) = Drop(front, 2) /\ Heard(front)
      BY <1>4, <3>1 DEF Decode, Heard
    <3>3. QED
      BY <1>4, <2>2, <2>3, <3>1, <3>2 DEF Decoded
  <2>8. QED
    BY <2>6, <2>7
<1>5. QED
  BY <1>2, <1>3, <1>4

LEMMA DropShorter ==
  ASSUME NEW s, s \in Seq(Nat), NEW n \in Nat
  PROVE  Len(Drop(s, n)) \in Nat /\ Len(Drop(s, n)) <= Len(s)
BY DEF Drop

LEMMA DecodeShorter ==
  ASSUME NEW unread, unread \in Seq(Nat), NEW n \in 0..Len(unread)
  PROVE  Len(Decode(Front(unread, n))) \in Nat /\ Len(Decode(Front(unread, n))) <= n
<1> DEFINE front == Front(unread, n)
<1>1. front \in Seq(Nat) /\ Len(front) = n /\ n \in Nat
  BY DEF Front
<1> HIDE DEF front
<1>2. Len(Drop(front, 2)) \in Nat /\ Len(Drop(front, 2)) <= n
  BY <1>1, DropShorter
<1>3. Len(<<>>) = 0
  OBVIOUS
<1>4. QED
  BY <1>1, <1>2, <1>3 DEF Decode, front

(* A callback of the far end's side that goes on.                          *)
LEMMA StreamDownFlow ==
  ASSUME Streamed, server'.stage = "stream", Len(server'.buf) <= BufSize, ended' = ended,
         far' \in Fars, far'.got = far.got, far'.told = far.told, far'.sent = far.sent,
         remote'.buf = remote.buf, remote'.direct = remote.direct,
         obfs'.kind = obfs.kind, obfs'.status = obfs.status, obfs'.saved = obfs.saved,
         client'.read = client.read, client'.sent = client.sent, LineDown'
  PROVE  FlowInv'
<1>1. LineUp'
  BY StreamedIs, UpStays
<1>2. Bounded'
  BY DEF Streamed, FlowInv, Bounded
<1>3. QED
  BY <1>1, <1>2, LiveFlow DEF Streamed, Flowing, Live

(* Data of the far end: the client takes it, or what is left is kept.      *)
LEMMA ToClientFlow ==
  ASSUME Streamed, remote.recvIo, ~Held, NEW n \in 1..Lesser(Len(far.unread), BufSize),
         far' = [far EXCEPT !.unread = Drop(@, n)], ToClient(Decode(Front(far.unread, n))),
         obfs' = [obfs EXCEPT !.heard = @ \/ (Unheard /\ Heard(Front(far.unread, n)))],
         UNCHANGED shortReply
  PROVE  FlowInv'
<1> DEFINE front == Front(far.unread, n)
           units == Decode(front)
           heard == obfs.heard \/ (Unheard /\ Heard(front))
           unread == Drop(far.unread, n)
<1>0. far \in Fars /\ far.unread \in Seq(Nat) /\ MaxDown \in Nat /\ far.sent <= MaxDown
  BY FlowFar, SizesAssumption DEF Streamed, Fars, Units, FlowInv, Bounded
<1>1. n \in 1..Len(far.unread) /\ n \in Nat /\ n <= BufSize /\ BufSize \in Nat
  BY <1>0, SizesAssumption DEF Lesser
<1>2. server.buf = <<>>
  BY StreamedIs DEF Streaming, Receiving
<1>3. Decoded(units, unread, heard)
  BY <1>1, <1>2, DecodeFlow
<1>4. Len(units) \in Nat /\ Len(units) <= BufSize
  <2>1. n \in 0..Len(far.unread)
    BY <1>1
  <2>2. Len(units) \in Nat /\ Len(units) <= n
    BY <1>0, <2>1, DecodeShorter
  <2>3. QED
    BY <1>1, <2>2
<1>5. far' = [far EXCEPT !.unread = unread] /\ ToClient(units)
  OBVIOUS
<1>6. obfs' = [obfs EXCEPT !.heard = heard] /\ heard \in BOOLEAN
  BY DEF Streamed, IInv, Typed, OthersTyped, Obfuscations
<1> HIDE DEF front, units, heard, unread
<1>7. /\ obfs'.kind = obfs.kind /\ obfs'.status = obfs.status /\ obfs'.saved = obfs.saved
      /\ obfs'.heard = heard
  BY <1>6 DEF Streamed, IInv, Typed, OthersTyped, Obfuscations
<1>8. unread \in Units /\ unread \in Seq(0..MaxDown)
  <2>1. CASE Line(client.got, units, unread, 0, 0, far.sent)
    BY <1>0, <2>1, LineTyped, LineWithin DEF Units
  <2>2. CASE Remnant(unread, far.sent)
    BY <1>0, <2>2, RemnantWithin DEF Units
  <2>3. QED
    BY <1>3, <2>1, <2>2 DEF Decoded
<1>9. /\ far' \in Fars /\ far'.unread = unread /\ far'.sent = far.sent /\ far'.got = far.got
      /\ far'.told = far.told /\ far'.greeted = far.greeted
  BY <1>0, <1>5, <1>8 DEF Fars
<1>10. CASE CloseBoth("error") /\ UNCHANGED client
  <2>1. Ends'
    BY <1>10 DEF CloseBoth, Ends
  <2>2. client.read <= client.sent /\ obfs'.saved \in Seq(0..MaxUp)
    BY <1>7, FlowFar DEF Streamed
  <2>3. QED
    BY <1>8, <1>9, <1>10, <2>1, <2>2, CloseFlow DEF Streamed
<1>11. ASSUME NEW m \in 0..Len(units), client' = [client EXCEPT !.got = @ \o Front(units, m)],
              units = <<>> => m = 0,
              server'.stage = "stream", server'.buf = Drop(units, m), ended' = ended,
              remote'.buf = remote.buf, remote'.direct = remote.direct
       PROVE  FlowInv'
  <2> DEFINE got == client.got \o Front(units, m)
  <2>1. client' = [client EXCEPT !.got = got]
    BY <1>11
  <2> HIDE DEF got
  <2>2. client'.got = got /\ client'.read = client.read /\ client'.sent = client.sent
    BY <2>1 DEF Streamed, IInv, Typed, OthersTyped
  <2>3. Http(remote)' = Http(remote) /\ Tls(remote)' = Tls(remote) /\ ~Held'
    BY <1>7, <1>11 DEF Http, Tls, Held
  <2>4. CASE /\ Line(client.got, units, unread, 0, 0, far.sent)
             /\ Http(remote) => heard
             /\ Tls(remote) \/ Http(remote) => far.greeted
    <3>1. Line(got, Drop(units, m), unread, 0, 0, far.sent)
      BY <2>4, DownSend DEF got
    <3>2. Behind(0)'
      BY <1>7, <1>9, <2>3, <2>4 DEF Behind, Unheard
    <3>3. LineDown'
      BY <1>9, <1>11, <2>2, <3>1, <3>2 DEF LineDown
    <3>4. Len(server'.buf) <= BufSize
      <4>1. units \in Seq(Nat) /\ m \in Nat
        BY <1>4, <2>4, LineTyped
      <4>2. Len(Drop(units, m)) \in Nat /\ Len(Drop(units, m)) <= Len(units)
        BY <4>1, DropShorter
      <4>3. QED
        BY <1>1, <1>4, <1>11, <4>2
    <3>5. QED
      BY <1>7, <1>9, <1>11, <2>2, <3>3, <3>4, StreamDownFlow
  <2>5. CASE /\ Http(remote) /\ ~heard /\ far.greeted /\ client.got = <<>> /\ units = <<>>
             /\ Remnant(unread, far.sent)
    <3>1. Front(<<>>, 0) = <<>> /\ Drop(<<>>, 0) = <<>>
      <4>1. <<>> \in Seq(Nat) /\ Len(<<>>) = 0
        OBVIOUS
      <4>2. Front(<<>>, Len(<<>>)) = <<>> /\ Drop(<<>>, Len(<<>>)) = <<>>
        BY <4>1, WholeBuffer
      <4>3. QED
        BY <4>1, <4>2
    <3>2. got = <<>> /\ Drop(units, m) = <<>>
      BY <1>11, <2>5, <3>1 DEF got
    <3>3. Lost'
      BY <1>7, <1>9, <1>11, <2>2, <2>3, <2>5, <3>2 DEF Lost, Unheard
    <3>4. LineDown' /\ Len(server'.buf) <= BufSize
      BY <1>1, <1>11, <3>2, <3>3 DEF LineDown
    <3>5. QED
      BY <1>7, <1>9, <1>11, <2>2, <3>4, StreamDownFlow
  <2>6. QED
    BY <1>3, <2>4, <2>5 DEF Decoded
<1>12. ASSUME NEW k \in 0..(Len(units) - 1),
              client' = [client EXCEPT !.got = @ \o Front(units, k)], WaitForClient(Drop(units, k))
       PROVE  FlowInv'
  <2>1. /\ server' = [server EXCEPT !.sendIo = TRUE, !.buf = Drop(units, k)]
        /\ remote' = [remote EXCEPT !.recvIo = FALSE] /\ UNCHANGED ended
    BY <1>12 DEF WaitForClient
  <2>2. /\ server'.stage = "stream" /\ server'.buf = Drop(units, k)
        /\ remote'.buf = remote.buf /\ remote'.direct = remote.direct
    BY <2>1 DEF Streamed, IInv, Typed, Servers, Remotes
  <2>3. k \in 0..Len(units) /\ (units = <<>> => k = 0)
    BY <1>4
  <2>4. QED
    BY <1>11, <1>12, <2>1, <2>2, <2>3
<1>13. CASE client' = [client EXCEPT !.got = @ \o units] /\ UNCHANGED <<server, remote, ended>>
  <2>1. units \in Seq(Nat)
    <3>1. CASE Line(client.got, units, unread, 0, 0, far.sent)
      BY <3>1, LineTyped
    <3>2. CASE units = <<>>
      BY <3>2, EmptyWithin
    <3>3. QED
      BY <1>3, <3>1, <3>2 DEF Decoded
  <2>2. /\ Front(units, Len(units)) = units /\ Drop(units, Len(units)) = <<>>
        /\ Len(units) \in 0..Len(units) /\ (units = <<>> => Len(units) = 0)
    BY <2>1, WholeBuffer
  <2>3. server'.stage = "stream" /\ server'.buf = <<>>
    BY <1>2, <1>13 DEF Streamed
  <2>4. QED
    BY <1>11, <1>13, <2>2, <2>3
<1>14. QED
  BY <1>5, <1>10, <1>12, <1>13 DEF ToClient

(* The end of the far end's stream closes a connection whose buffer is     *)
(* empty; if the header was not read whole, everything behind it is gone.  *)
LEMMA FarEndFlow ==
  ASSUME Streamed, remote.recvIo, far.unread = <<>>, CloseBoth("far"),
         UNCHANGED <<obfs, client, far, shortReply>>
  PROVE  FlowInv'
<1>1. server.buf = <<>>
  BY StreamedIs DEF Streaming, Receiving
<1>2. remote'.direct = remote.direct /\ ended' = "far"
  BY DEF CloseBoth, Streamed, IInv, Typed, Remotes
<1>3. client.got = Bytes(0, far.sent) \/ HeaderLost
  <2>1. CASE Lost
    <3>1. far.sent \in Nat /\ far.sent <= far.sent
      BY FlowFar DEF Streamed, Fars
    <3>2. Zeros(far.unread) # 2
      BY <2>1, <3>1, RemnantWithin DEF Lost
    <3>3. QED
      BY <2>1, <3>2 DEF Lost, HeaderLost, Heard
  <2>2. ASSUME NEW u, Line(client.got, server.buf, far.unread, 0, u, far.sent)
        PROVE  client.got = Bytes(0, far.sent)
    BY <1>1, <2>2, LineEmpty
  <2>3. QED
    BY <2>1, <2>2, StreamedIs DEF LineDown
<1>4. HeaderLost' = HeaderLost
  BY <1>2 DEF HeaderLost, Unheard, Http, Heard
<1>5. Ends'
  BY <1>2, <1>3, <1>4 DEF Ends
<1>6. QED
  BY <1>5, FlowFar, CloseFlow DEF Streamed

LEMMA RemoteRecvFlow == IInv /\ FlowInv /\ Typed' /\ RemoteRecv => FlowInv'
<1> SUFFICES ASSUME IInv, FlowInv, Typed', RemoteRecv PROVE FlowInv'
  OBVIOUS
<1>1. Streamed /\ remote.recvIo
  BY DEF RemoteRecv, IInv, Off, Before, Streamed
<1>2. CASE far.unread # <<>> /\ Tls(remote) /\ obfs.status # 8 /\ SendBack
  BY <1>1, <1>2, SendBackFlow
<1>3. CASE /\ ~(Tls(remote) /\ obfs.status # 8)
           /\ \E n \in 1..Lesser(Len(far.unread), BufSize) :
                /\ far' = [far EXCEPT !.unread = Drop(@, n)]
                /\ obfs' = [obfs EXCEPT !.heard = @ \/ (Unheard /\ Heard(Front(far.unread, n)))]
                /\ ToClient(Decode(Front(far.unread, n)))
           /\ UNCHANGED shortReply
  <2>1. ~Held
    BY <1>1, <1>3, StreamedIs
  <2>2. QED
    BY <1>1, <1>3, <2>1, ToClientFlow
<1>4. CASE /\ far.fin /\ far.unread = <<>>
           /\ CloseBoth("far")
           /\ UNCHANGED <<obfs, client, far, shortReply>>
  BY <1>1, <1>4, FarEndFlow
<1>5. QED
  BY <1>2, <1>3, <1>4 DEF RemoteRecv

(* What was kept for the client.                                           *)
LEMMA ServerSendFlow == IInv /\ FlowInv /\ Typed' /\ ServerSend => FlowInv'
<1> SUFFICES ASSUME IInv, FlowInv, Typed', ServerSend PROVE FlowInv'
  OBVIOUS
<1>1. Streamed /\ server.buf # <<>> /\ UNCHANGED <<obfs, far, shortReply>>
  BY DEF ServerSend, IInv, Off, Before, Streamed, Streaming, Receiving
<1>2. /\ Line(client.got, server.buf, far.unread, 0, 0, far.sent)
      /\ ~Held /\ ~Unheard /\ (Tls(remote) \/ Http(remote) => far.greeted)
  <2>1. PICK u : Line(client.got, server.buf, far.unread, 0, u, far.sent) /\ Behind(u)
    BY <1>1, StreamedIs DEF LineDown, Lost
  <2>2. ~Unheard
    BY <1>1, <2>1 DEF Behind
  <2>3. ~Held
    <3>1. SUFFICES ASSUME Held PROVE FALSE
      OBVIOUS
    <3>2. far.sent = 0
      BY <2>1, <3>1 DEF Behind
    <3>3. QED
      BY <1>1, <2>1, <3>2, LineNothing
  <2>4. QED
    BY <2>1, <2>2, <2>3 DEF Behind
<1>3. /\ server.buf \in Seq(Nat) /\ Len(server.buf) \in Nat /\ Len(server.buf) <= BufSize
      /\ BufSize \in Nat
  BY <1>2, LineTyped, SizesAssumption DEF FlowInv, Bounded
<1>4. CASE CloseBoth("error") /\ UNCHANGED client
  <2>1. Reading
    BY <1>4, FlowFar DEF Reading, IInv, Typed, OthersTyped
  <2>2. QED
    BY <1>1, <1>4, <2>1, FlowFar, ErrorFlow
<1>5. ASSUME NEW m \in 0..Len(server.buf),
             client' = [client EXCEPT !.got = @ \o Front(server.buf, m)],
             server'.stage = "stream", server'.buf = Drop(server.buf, m), ended' = ended,
             remote'.buf = remote.buf, remote'.direct = remote.direct
      PROVE  FlowInv'
  <2> DEFINE got == client.got \o Front(server.buf, m)
  <2>1. client' = [client EXCEPT !.got = got]
    BY <1>5
  <2> HIDE DEF got
  <2>2. client'.got = got /\ client'.read = client.read /\ client'.sent = client.sent
    BY <2>1 DEF IInv, Typed, OthersTyped
  <2>3. Http(remote)' = Http(remote) /\ Tls(remote)' = Tls(remote) /\ ~Held' /\ ~Unheard'
    BY <1>1, <1>2, <1>5 DEF Http, Tls, Held, Unheard
  <2>4. Line(got, Drop(server.buf, m), far.unread, 0, 0, far.sent)
    BY <1>2, <1>5, DownSend DEF got
  <2>5. Behind(0)'
    BY <1>1, <1>2, <2>3 DEF Behind
  <2>6. LineDown'
    BY <1>1, <1>5, <2>2, <2>4, <2>5 DEF LineDown
  <2>7. Len(server'.buf) <= BufSize
    <3>1. m \in Nat
      OBVIOUS
    <3>2. Len(Drop(server.buf, m)) \in Nat /\ Len(Drop(server.buf, m)) <= Len(server.buf)
      BY <1>3, <3>1, DropShorter
    <3>3. QED
      BY <1>3, <1>5, <3>2
  <2>8. QED
    BY <1>1, <1>5, <2>2, <2>6, <2>7, FlowFar, StreamDownFlow
<1>6. ASSUME NEW n \in 0..(Len(server.buf) - 1),
             client' = [client EXCEPT !.got = @ \o Front(server.buf, n)],
             server' = [server EXCEPT !.buf = Drop(@, n)], UNCHANGED <<remote, ended>>
      PROVE  FlowInv'
  <2>1. server'.stage = "stream" /\ server'.buf = Drop(server.buf, n)
    BY <1>1, <1>6 DEF Streamed, IInv, Typed, Servers
  <2>2. n \in 0..Len(server.buf)
    BY <1>3
  <2>3. QED
    BY <1>5, <1>6, <2>1, <2>2
<1>7. CASE /\ client' = [client EXCEPT !.got = @ \o server.buf]
           /\ server' = [server EXCEPT !.buf = <<>>, !.sendIo = FALSE]
           /\ remote' = [remote EXCEPT !.recvIo = TRUE]
           /\ UNCHANGED ended
  <2>1. /\ server'.stage = "stream" /\ server'.buf = <<>>
        /\ remote'.buf = remote.buf /\ remote'.direct = remote.direct
    BY <1>1, <1>7 DEF Streamed, IInv, Typed, Servers, Remotes
  <2>2. /\ Front(server.buf, Len(server.buf)) = server.buf
        /\ Drop(server.buf, Len(server.buf)) = <<>>
        /\ Len(server.buf) \in 0..Len(server.buf)
    BY <1>3, WholeBuffer
  <2>3. QED
    BY <1>5, <1>7, <2>1, <2>2
<1>8. QED
  BY <1>1, <1>4, <1>6, <1>7 DEF ServerSend

-----------------------------------------------------------------------------
(* The timers and the two peers.                                           *)

LEMMA RemoteTimeoutFlow == IInv /\ FlowInv /\ Typed' /\ RemoteTimeout => FlowInv'
<1> SUFFICES ASSUME IInv, FlowInv, Typed', RemoteTimeout PROVE FlowInv'
  OBVIOUS
<1>1. CloseBoth("timeout") /\ UNCHANGED <<obfs, client, far, shortReply>>
  BY DEF RemoteTimeout
<1>2. Reading
  BY <1>1, FlowFar DEF Reading, IInv, Typed, OthersTyped
<1>3. QED
  BY <1>1, <1>2, FlowFar, ErrorFlow

LEMMA ClientSendsFlow == IInv /\ FlowInv /\ Typed' /\ ClientSends => FlowInv'
<1> SUFFICES ASSUME IInv, FlowInv, Typed', ClientSends PROVE FlowInv'
  OBVIOUS
<1>1. Live /\ UNCHANGED <<server, remote, obfs, far, ended, shortReply>> /\ Live'
  BY DEF ClientSends, Live
<1>2. /\ client'.read = client.read /\ client'.got = client.got
      /\ client'.sent <= MaxUp /\ client'.read <= client'.sent
  <2>1. /\ client.sent \in Nat /\ client.read \in Nat /\ client.read <= client.sent
        /\ client.sent <= MaxUp /\ MaxUp \in Nat
    BY SizesAssumption DEF IInv, Typed, OthersTyped, FlowInv, Bounded
  <2>2. CASE client.sent < MaxUp /\ client' = [client EXCEPT !.sent = @ + 1]
    <3>1. client'.read = client.read /\ client'.got = client.got /\ client'.sent = client.sent + 1
      BY <2>2 DEF IInv, Typed, OthersTyped
    <3>2. QED
      BY <2>1, <2>2, <3>1
  <2>3. CASE client' = [client EXCEPT !.fin = TRUE]
    <3>1. client'.read = client.read /\ client'.got = client.got /\ client'.sent = client.sent
      BY <2>3 DEF IInv, Typed, OthersTyped
    <3>2. QED
      BY <2>1, <3>1
  <2>4. QED
    BY <2>2, <2>3 DEF ClientSends
<1>3. Bounded'
  BY <1>1, <1>2 DEF FlowInv, Bounded
<1>4. CASE server.stage = "stream"
  <2>1. LineUp' /\ LineDown'
    BY <1>1, <1>2, <1>4, UpStays, DownStays DEF FlowInv, Flowing
  <2>2. QED
    BY <1>1, <1>3, <1>4, <2>1, LiveFlow DEF Flowing
<1>5. CASE server.stage # "stream"
  <2>1. Before' /\ Untouched'
    BY <1>1, <1>2, <1>5 DEF IInv, FlowInv, Flowing, Before, Untouched
  <2>2. QED
    BY <1>1, <1>3, <1>5, <2>1, LiveFlow DEF Flowing
<1>6. QED
  BY <1>4, <1>5

(* The far end is told nothing by what it sends.                           *)
LEMMA FarFlow ==
  ASSUME Streamed, UNCHANGED <<server, remote, obfs, client, ended, shortReply>>,
         far' \in Fars, far'.got = far.got, far'.told = far.told, far'.sent <= MaxDown, LineDown'
  PROVE  FlowInv'
<1>1. LineUp'
  BY StreamedIs, UpStays
<1>2. Bounded'
  BY DEF Streamed, FlowInv, Bounded
<1>3. QED
  BY <1>1, <1>2, LiveFlow DEF Streamed, Flowing, Live

(* The answer to the hello: before it nothing was read or sent.            *)
LEMMA FarGreetsFlow == IInv /\ FlowInv /\ Typed' /\ FarGreets => FlowInv'
<1> SUFFICES ASSUME IInv, FlowInv, Typed', FarGreets PROVE FlowInv'
  OBVIOUS
<1>1. /\ Tls(remote) /\ ~far.greeted /\ UNCHANGED <<server, remote, obfs, client, ended, shortReply>>
      /\ far' = [far EXCEPT !.greeted = TRUE, !.unread = @ \o <<0>>]
  BY DEF FarGreets
<1>2. Streamed
  BY DEF FarGreets, Streamed, IInv, Before
<1>3. ~Http(remote) /\ ~Unheard
  BY <1>1 DEF Tls, Http, Unheard
<1>4. PICK u : Line(client.got, server.buf, far.unread, 0, u, far.sent) /\ Behind(u)
  BY <1>2, <1>3, StreamedIs DEF LineDown, Lost
<1>5. Held /\ far.sent = 0 /\ u = 0
  BY <1>1, <1>3, <1>4 DEF Behind
<1>6. far.unread = <<>>
  <2>1. far.unread = Stretch(0, 0, 0) /\ <<>> = Stretch(0, 0, 0)
    BY <1>4, <1>5, LineNothing, NoUnits
  <2>2. QED
    BY <2>1
<1>7. far.unread \o <<0>> = Joined(<<0>>, <<>>)
  BY <1>6 DEF Joined
<1>8. Line(client.got, server.buf, Joined(<<0>>, <<>>), 0, 0 + 1, far.sent)
  BY <1>4, <1>5, <1>6, LineHeader
<1> DEFINE unread == Joined(<<0>>, <<>>)
<1>9. far' = [far EXCEPT !.greeted = TRUE, !.unread = unread]
  BY <1>1, <1>7
<1>10. Line(client.got, server.buf, unread, 0, 1, far.sent) /\ unread \in Units
  <2>1. 0 + 1 = 1
    OBVIOUS
  <2>2. Line(client.got, server.buf, Joined(<<0>>, <<>>), 0, 1, far.sent)
    BY <1>8, <2>1
  <2>3. Joined(<<0>>, <<>>) \in Seq(Nat)
    BY <2>2, LineTyped
  <2>4. QED
    BY <2>2, <2>3 DEF Units
<1> HIDE DEF unread
<1>11. /\ far' \in Fars /\ far'.unread = unread /\ far'.sent = far.sent /\ far'.got = far.got
       /\ far'.told = far.told /\ far'.greeted = TRUE
  BY <1>2, <1>9, <1>10, FlowFar DEF Streamed, Fars
<1>12. Behind(1)'
  BY <1>1, <1>3, <1>5, <1>11 DEF Behind, Held, Tls, Unheard, Http
<1>13. LineDown'
  BY <1>1, <1>10, <1>11, <1>12 DEF LineDown
<1>14. far'.sent <= MaxDown
  BY <1>11 DEF FlowInv, Bounded
<1>15. QED
  BY <1>1, <1>2, <1>11, <1>13, <1>14, FarFlow

LEMMA TwoMessages == <<0>> \o <<0>> = <<0, 0>>
<1> DEFINE a == <<0>> \o <<0>>
           b == <<0, 0>>
<1>1. a \in Seq(Nat) /\ b \in Seq(Nat) /\ Len(a) = 2 /\ Len(b) = 2
  OBVIOUS
<1>2. \A i \in 1..2 : a[i] = b[i]
  OBVIOUS
<1> HIDE DEF a, b
<1>3. a = b
  BY <1>1, <1>2
<1>4. QED
  BY <1>3 DEF a, b

(* Data of the destination: a server that was told everything has answered *)
(* the hello, and puts a header before the first of it if it has to.       *)
LEMMA FarDataFlow ==
  ASSUME Streamed, far.sent < MaxDown, far.told = Messages,
         far' = [far EXCEPT !.sent = @ + 1, !.greeted = @ \/ Http(remote),
                   !.unread = @ \o (IF Http(remote) /\ ~far.greeted THEN <<0, 0>> ELSE <<>>)
                                \o <<far.sent + 1>>],
         UNCHANGED <<server, remote, obfs, client, ended, shortReply>>
  PROVE  FlowInv'
<1> DEFINE unread == far.unread \o (IF Http(remote) /\ ~far.greeted THEN <<0, 0>> ELSE <<>>)
                       \o <<far.sent + 1>>
           sent == far.sent + 1
           greeted == far.greeted \/ Http(remote)
<1>1. far' = [far EXCEPT !.sent = sent, !.greeted = greeted, !.unread = unread]
  OBVIOUS
<1>2. far \in Fars /\ far.sent \in Nat /\ sent \in Nat /\ MaxDown \in Nat /\ sent <= MaxDown
      /\ greeted \in BOOLEAN
  BY FlowFar, SizesAssumption DEF Streamed, Fars
<1>3. ~Held
  <2>1. SUFFICES ASSUME Held PROVE FALSE
    OBVIOUS
  <2>2. Messages = 3
    BY <2>1 DEF Held, Tls, Messages, Streamed, IInv, Typed, Remotes
  <2>3. PICK z, w : Line(far.got, remote.buf, obfs.saved, z, w, client.read) /\ Counted(z, w)
    BY StreamedIs DEF LineUp
  <2>4. z \in Nat /\ far.told + z = 1
    BY <2>1, <2>3, LineTyped DEF Counted
  <2>5. QED
    BY <2>2, <2>4
<1>4. ASSUME far.greeted \/ ~Http(remote)
      PROVE  unread = Joined(far.unread, <<sent>>) /\ greeted = far.greeted
  <2>1. far.unread \in Seq(Nat) /\ far.greeted \in BOOLEAN
    BY <1>2 DEF Fars, Units
  <2>2. unread = far.unread \o <<>> \o <<sent>>
    BY <1>4
  <2>3. far.unread \o <<>> = far.unread
    BY <2>1
  <2>4. QED
    BY <1>4, <2>1, <2>2, <2>3 DEF Joined
<1>5. /\ Http(remote)' = Http(remote) /\ Tls(remote)' = Tls(remote)
      /\ ~Held' /\ Unheard' = Unheard
  BY <1>3 DEF Http, Tls, Held, Unheard
<1>6. ASSUME unread \in Seq(Nat), far' \in Fars /\ far'.unread = unread /\ far'.sent = sent
                  /\ far'.greeted = greeted => LineDown'
      PROVE  FlowInv'
  <2> HIDE DEF unread, sent, greeted
  <2>1. unread \in Units
    BY <1>6 DEF Units
  <2>2. /\ far' \in Fars /\ far'.unread = unread /\ far'.sent = sent /\ far'.greeted = greeted
        /\ far'.got = far.got /\ far'.told = far.told
    BY <1>1, <1>2, <2>1 DEF Fars
  <2>3. LineDown'
    BY <1>6, <2>2
  <2>4. QED
    BY <1>2, <2>2, <2>3, FarFlow
<1>7. CASE Lost
  <2>1. unread = Joined(far.unread, <<sent>>) /\ greeted = far.greeted
    BY <1>4, <1>7 DEF Lost
  <2>2. Remnant(unread, sent)
    BY <1>7, <2>1, RemnantSent DEF Lost
  <2> HIDE DEF unread, sent, greeted
  <2>3. unread \in Seq(Nat)
    <3>1. sent \in Nat /\ sent <= sent
      BY <1>2
    <3>2. QED
      BY <2>2, <3>1, RemnantWithin
  <2>4. far'.unread = unread /\ far'.sent = sent /\ far'.greeted = greeted => LineDown'
    BY <1>5, <1>7, <2>1, <2>2 DEF Lost, LineDown
  <2>5. QED
    BY <1>6, <2>3, <2>4
<1>8. ASSUME NEW u, Line(client.got, server.buf, far.unread, 0, u, far.sent), Behind(u),
             far.greeted \/ ~Http(remote)
      PROVE  FlowInv'
  <2>1. unread = Joined(far.unread, <<sent>>) /\ greeted = far.greeted
    BY <1>4, <1>8
  <2>2. Line(client.got, server.buf, unread, 0, u, sent)
    BY <1>8, <2>1, LineSent
  <2>3. unread \in Seq(Nat)
    BY <2>2, LineTyped
  <2> HIDE DEF unread, sent, greeted
  <2>4. Unheard => far.greeted
    BY <1>8 DEF Unheard
  <2>5. far'.greeted = greeted => Behind(u)'
    BY <1>3, <1>5, <1>8, <2>1, <2>4 DEF Behind
  <2>6. far'.unread = unread /\ far'.sent = sent /\ far'.greeted = greeted => LineDown'
    BY <2>2, <2>5 DEF LineDown
  <2>7. QED
    BY <1>6, <2>3, <2>6
<1>9. ASSUME NEW u, Line(client.got, server.buf, far.unread, 0, u, far.sent), Behind(u),
             ~far.greeted, Http(remote)
      PROVE  FlowInv'
  <2>1. Unheard /\ u = 0 /\ far.sent = 0 /\ client.got = <<>> /\ server.buf = <<>>
    BY <1>3, <1>9 DEF Behind
  <2>2. far.unread = <<>>
    <3>1. far.unread = Stretch(0, 0, 0) /\ <<>> = Stretch(0, 0, 0)
      BY <1>9, <2>1, LineNothing, NoUnits
    <3>2. QED
      BY <3>1
  <2>3. Line(client.got, server.buf, Joined(<<0>>, <<>>), 0, 0 + 1, far.sent)
    BY <1>9, <2>1, <2>2, LineHeader
  <2>4. Line(client.got, server.buf, Joined(<<0>>, Joined(<<0>>, <<>>)), 0, 0 + 1 + 1, far.sent)
    BY <2>3, LineHeader
  <2>5. Joined(<<0>>, Joined(<<0>>, <<>>)) = <<0, 0>> /\ 0 + 1 + 1 = 2
    <3>1. <<0>> \o <<>> = <<0>>
      OBVIOUS
    <3>2. 0 + 1 + 1 = 2
      OBVIOUS
    <3>3. QED
      BY <3>1, <3>2, TwoMessages DEF Joined
  <2>6. Line(client.got, server.buf, <<0, 0>>, 0, 2, far.sent)
    BY <2>4, <2>5
  <2>7. Line(client.got, server.buf, Joined(<<0, 0>>, <<sent>>), 0, 2, sent)
    BY <2>6, LineSent
  <2>8. unread = Joined(<<0, 0>>, <<sent>>) /\ greeted = TRUE
    <3>1. <<>> \o <<0, 0>> = <<0, 0>>
      OBVIOUS
    <3>2. unread = <<>> \o <<0, 0>> \o <<sent>>
      BY <1>9, <2>2
    <3>3. QED
      BY <1>9, <3>1, <3>2 DEF Joined
  <2>9. Line(client.got, server.buf, unread, 0, 2, sent)
    BY <2>7, <2>8
  <2>10. unread \in Seq(Nat)
    BY <2>9, LineTyped
  <2> HIDE DEF unread, sent, greeted
  <2>11. far'.greeted = greeted => Behind(2)'
    BY <1>5, <2>1, <2>8 DEF Behind
  <2>12. far'.unread = unread /\ far'.sent = sent /\ far'.greeted = greeted => LineDown'
    BY <2>9, <2>11 DEF LineDown
  <2>13. QED
    BY <1>6, <2>10, <2>12
<1>10. QED
  BY <1>7, <1>8, <1>9, StreamedIs DEF LineDown

LEMMA FarSendsFlow == IInv /\ FlowInv /\ Typed' /\ FarSends => FlowInv'
<1> SUFFICES ASSUME IInv, FlowInv, Typed', FarSends PROVE FlowInv'
  OBVIOUS
<1>1. Streamed /\ UNCHANGED <<server, remote, obfs, client, ended, shortReply>>
  BY DEF FarSends, Streamed, IInv, Before
<1>2. CASE far' = [far EXCEPT !.fin = TRUE]
  <2>1. /\ far' \in Fars /\ far'.unread = far.unread /\ far'.sent = far.sent /\ far'.got = far.got
        /\ far'.told = far.told /\ far'.greeted = far.greeted /\ far'.sent <= MaxDown
    BY <1>2, FlowFar DEF Fars, FlowInv, Bounded
  <2>2. LineDown'
    BY <1>1, <2>1, StreamedIs, DownStays
  <2>3. QED
    BY <1>1, <2>1, <2>2, FarFlow
<1>3. CASE /\ far.sent < MaxDown
           /\ far.told = (IF remote.direct THEN 0
                          ELSE CASE obfs.kind = "plain" -> 1 [] obfs.kind = "http" -> 2
                                 [] OTHER -> 3)
           /\ far' = [far EXCEPT !.sent = @ + 1, !.greeted = @ \/ Http(remote),
                        !.unread = @ \o (IF Http(remote) /\ ~far.greeted THEN <<0, 0>> ELSE <<>>)
                                     \o <<far.sent + 1>>]
  <2>1. far.told = Messages
    BY <1>3 DEF Messages
  <2>2. QED
    BY <1>1, <1>3, <2>1, FarDataFlow
<1>4. QED
  BY <1>2, <1>3 DEF FarSends

-----------------------------------------------------------------------------
(* The inductive invariant.                                                *)

LEMMA InitFlow == Init => FlowInv
<1> SUFFICES ASSUME Init PROVE FlowInv
  OBVIOUS
<1>1. MaxUp \in Nat /\ MaxDown \in Nat /\ BufSize \in Nat
  BY SizesAssumption
<1>2. /\ server = [stage |-> "init", buf |-> <<>>, recvIo |-> TRUE, sendIo |-> FALSE]
      /\ client = [sent |-> 0, read |-> 0, fin |-> FALSE, got |-> <<>>]
      /\ far = [sent |-> 0, unread |-> <<>>, fin |-> FALSE, greeted |-> FALSE, told |-> 0,
                got |-> <<>>]
      /\ ended = "no"
  BY DEF Init
<1>3. PICK kind \in {"plain", "http", "tls"} :
        obfs = [kind |-> kind, status |-> 0, saved |-> <<>>, heard |-> FALSE]
  BY DEF Init
<1>4. 0 \in 0..MaxUp /\ 0 \in 0..MaxDown /\ 0 \in 0..3 /\ Len(<<>>) = 0
  BY <1>1
<1>5. TypeOK
  <2>1. server \in [stage : {"init", "handshake", "associated", "parse", "stream"},
                    buf : Seq(Nat), recvIo : BOOLEAN, sendIo : BOOLEAN]
    BY <1>2, EmptyWithin
  <2>2. remote \in [state : {"none", "connecting", "connected"}, direct : BOOLEAN,
                    buf : Seq(0..MaxUp), recvIo : BOOLEAN, sendIo : BOOLEAN,
                    connectTimer : BOOLEAN, idleTimer : BOOLEAN]
    BY EmptyWithin DEF Init
  <2>3. obfs \in [kind : {"plain", "http", "tls"}, status : {0, 1, 8}, saved : Seq(0..MaxUp),
                  heard : BOOLEAN]
    BY <1>3, EmptyWithin
  <2>4. client \in [sent : 0..MaxUp, read : 0..MaxUp, fin : BOOLEAN, got : Seq(1..MaxDown)]
    BY <1>2, <1>4, EmptyWithin
  <2>5. far \in [sent : 0..MaxDown, unread : Seq(0..MaxDown), fin : BOOLEAN, greeted : BOOLEAN,
                 told : 0..3, got : Seq(1..MaxUp)]
    BY <1>2, <1>4, EmptyWithin
  <2>6. QED
    BY <1>1, <1>2, <1>4, <2>1, <2>2, <2>3, <2>4, <2>5 DEF TypeOK
<1>6. Bounded
  <2>1. far \in Fars
    BY <1>2, EmptyUnits DEF Fars
  <2>2. QED
    BY <1>1, <1>2, <1>4, <2>1 DEF Bounded
<1>7. Arrived
  BY <1>2, <1>4, NothingSent DEF Arrived
<1>8. Ends
  BY <1>2 DEF Ends
<1>9. Untouched
  BY <1>2, <1>3, NothingSent DEF Untouched
<1>10. QED
  BY <1>2, <1>5, <1>6, <1>7, <1>8, <1>9 DEF FlowInv, Flowing

LEMMA NextFlow == IInv /\ FlowInv /\ IInv' /\ [Next]_vars => FlowInv'
<1> SUFFICES ASSUME IInv, FlowInv, IInv', [Next]_vars PROVE FlowInv'
  OBVIOUS
<1>1. Typed'
  BY DEF IInv
<1>2. CASE UNCHANGED vars
  <2>1. UNCHANGED <<server, remote, obfs, client, far, ended, shortReply>>
    BY <1>2 DEF vars
  <2>2. TypeOK' /\ Bounded' /\ Arrived'
    BY <2>1 DEF FlowInv, TypeOK, Bounded, Arrived
  <2>3. HeaderLost' = HeaderLost
    BY <2>1 DEF HeaderLost, Unheard, Heard, Http
  <2>4. Ends'
    BY <2>1, <2>3 DEF FlowInv, Ends
  <2>5. ASSUME Live
        PROVE  Flowing'
    <3>1. CASE server.stage = "stream"
      BY <2>1, <2>5, <3>1, UpStays, DownStays DEF FlowInv, Flowing
    <3>2. CASE server.stage # "stream"
      BY <2>1, <2>5, <3>2 DEF FlowInv, Flowing, Untouched
    <3>3. QED
      BY <3>1, <3>2
  <2>6. QED
    BY <2>1, <2>2, <2>4, <2>5 DEF FlowInv, Live
<1>3. CASE Next
  BY <1>1, <1>3, GreetingFlow, RecvRequestFlow, RecvTunnelledFlow, RecvFirstDataFlow, RecvDataFlow,
     RecvEndFlow, RemoteSendFlow, RemoteRecvFlow, ServerSendFlow, RemoteTimeoutFlow,
     ClientSendsFlow, FarGreetsFlow, FarSendsFlow DEF Next
<1>4. QED
  BY <1>2, <1>3

-----------------------------------------------------------------------------
(* The invariant shows what may be said of an end.                         *)
LEMMA FlowInvNothingCutOff == FlowInv => NothingCutOff
BY DEF FlowInv, Ends, NothingCutOff

(* The end of one stream is acted on only after everything before it was   *)
(* passed on, but for what a header that was not read whole, the handshake *)
(* or a reply that was not sent whole has kept, for any size of the        *)
(* buffers and any number of bytes.                                        *)
THEOREM SpecNothingCutOff == Spec => []NothingCutOff
<1>1. IInv /\ FlowInv /\ [Next]_vars => IInv' /\ FlowInv'
  BY NextIInv, NextFlow
<1>2. QED
  BY InitIInv, InitFlow, <1>1, FlowInvNothingCutOff, PTL DEF Spec

-----------------------------------------------------------------------------
(* Each direction is a pipe.                                               *)

(* What a callback hands over is put behind what was there.                *)
LEMMA Longer ==
  ASSUME NEW A, NEW B, NEW a \in Seq(A), NEW b \in Seq(B)
  PROVE  Len(a) <= Len(a \o b)
<1>1. a \in Seq(A \cup B) /\ b \in Seq(A \cup B)
  OBVIOUS
<1>2. Len(a) \in Nat /\ Len(b) \in Nat /\ Len(a \o b) = Len(a) + Len(b)
  BY <1>1
<1>3. QED
  BY <1>2

LEMMA PayloadLonger ==
  ASSUME NEW a \in Units, NEW s \in Units
  PROVE  Len(a) <= Len(a \o Payload(s))
<1> DEFINE data == {i \in DOMAIN s : s[i] > 0}
           n == Cardinality(data)
           nth(k) == s[CHOOSE i \in data : Cardinality({j \in data : j <= i}) = k]
           found == {nth(k) : k \in 1..n}
<1>1. n \in Nat
  <2>1. Len(s) \in Nat /\ data \subseteq 1..Len(s)
    BY DEF Units
  <2>2. IsFiniteSet(1..Len(s))
    BY <2>1, FS_Interval
  <2>3. IsFiniteSet(data)
    BY <2>1, <2>2, FS_Subset
  <2> HIDE DEF data
  <2>4. QED
    BY <2>3, FS_CardinalityType
<1>2. Payload(s) = [k \in 1..n |-> nth(k)]
  BY DEF Payload
<1> HIDE DEF n
<1>3. Payload(s) \in Seq(found)
  <2>1. \A k \in 1..n : nth(k) \in found
    OBVIOUS
  <2> HIDE DEF nth, found
  <2>2. QED
    BY <1>1, <1>2, <2>1
<1> HIDE DEF found
<1>4. QED
  BY <1>3, Longer DEF Units

LEMMA FrontPart ==
  ASSUME NEW s \in Units, NEW n \in 0..(Len(s) - 1)
  PROVE  Front(s, n) \in Units
<1>1. Len(s) \in Nat
  BY DEF Units
<1>2. n \in Nat /\ n <= Len(s)
  BY <1>1
<1>3. QED
  BY <1>2, FrontUnits

(* The far end and the client get more units, or none.                     *)
FarHears ==
  \E f \in Fars, w \in Units :
    f.got = far.got /\ f.sent = far.sent /\ (far' = f \/ far' = Got(f, w))
ClientHears ==
  /\ client'.sent = client.sent
  /\ client'.got = client.got \/ \E w \in Units : client'.got = client.got \o w

UpMoves ==
  /\ client'.sent >= client.sent /\ Len(far.got) <= Len(far'.got)
  /\ far'.got = far.got \/ client'.sent = client.sent
DownMoves ==
  /\ far'.sent >= far.sent /\ Len(client.got) <= Len(client'.got)
  /\ client'.got = client.got \/ far'.sent = far.sent

LEMMA Lengths ==
  ASSUME FlowInv
  PROVE  /\ far.got \in Units /\ client.got \in Units /\ far \in Fars
         /\ Len(far.got) \in Nat /\ Len(client.got) \in Nat
         /\ client.sent \in Nat /\ far.sent \in Nat /\ obfs.saved \in Units
<1>1. /\ far \in Fars /\ client.got \in Seq(1..MaxDown) /\ client.sent \in 0..MaxUp
      /\ obfs.saved \in Seq(0..MaxUp)
  BY DEF FlowInv, Bounded, TypeOK
<1>2. client.got \in Units /\ obfs.saved \in Units /\ MaxUp \in Nat
  BY <1>1, SizesAssumption DEF Units
<1>3. far.got \in Units /\ far.sent \in Nat
  BY <1>1 DEF Fars
<1>4. QED
  BY <1>1, <1>2, <1>3 DEF Units

LEMMA HearsMoves ==
  ASSUME FlowInv, FarHears, ClientHears
  PROVE  UpMoves /\ DownMoves
<1>1. PICK f \in Fars, w \in Units :
        f.got = far.got /\ f.sent = far.sent /\ (far' = f \/ far' = Got(f, w))
  BY DEF FarHears
<1>2. far'.sent = far.sent /\ Len(far.got) <= Len(far'.got)
  <2>1. CASE far' = f
    BY <1>1, <2>1, Lengths
  <2>2. CASE far' = Got(f, w)
    <3>1. far'.sent = far.sent /\ far'.got = far.got \o Payload(w)
      BY <1>1, <2>2 DEF Got, Fars
    <3>2. Len(far.got) <= Len(far.got \o Payload(w))
      BY Lengths, PayloadLonger
    <3>3. QED
      BY <3>1, <3>2
  <2>3. QED
    BY <1>1, <2>1, <2>2
<1>3. Len(client.got) <= Len(client'.got)
  <2>1. CASE client'.got = client.got
    BY <2>1, Lengths
  <2>2. ASSUME NEW v \in Units, client'.got = client.got \o v
        PROVE  Len(client.got) <= Len(client'.got)
    BY <2>2, Lengths, Longer DEF Units
  <2>3. QED
    BY <2>1, <2>2 DEF ClientHears
<1>4. QED
  BY <1>2, <1>3, Lengths DEF ClientHears, UpMoves, DownMoves

LEMMA SameHears ==
  /\ FlowInv /\ UNCHANGED far => FarHears
  /\ client'.got = client.got /\ client'.sent = client.sent => ClientHears
<1>1. ASSUME FlowInv, UNCHANGED far PROVE FarHears
  BY <1>1, EmptyUnits, Lengths DEF FarHears
<1>2. QED
  BY <1>1 DEF ClientHears

LEMMA GetsHears ==
  ASSUME FlowInv, NEW w \in Units, FarGets(w)
  PROVE  FarHears
BY Lengths DEF FarGets, FarHears

(* server_recv_cb                                                          *)
LEMMA RelayHears ==
  ASSUME FlowInv, NEW s, NEW r, NEW units \in Units, Relay(s, r, units)
  PROVE  FarHears
<1>1. obfs.saved \in Units
  BY Lengths
<1>2. <<0>> \o units \in Units /\ <<0>> \o obfs.saved \in Units /\ <<0>> \in Units
  BY <1>1 DEF Units
<1>3. ASSUME NEW w \in Units, Connect(s, r, w)
      PROVE  FarHears
  <2>1. CASE UNCHANGED far
    BY <2>1, SameHears
  <2>2. ASSUME NEW n \in 1..(Len(w) - 1), FarGets(Front(w, n))
        PROVE  FarHears
    <3>1. n \in 0..(Len(w) - 1)
      BY DEF Units
    <3>2. QED
      BY <2>2, <3>1, FrontPart, GetsHears
  <2>3. QED
    BY <1>3, <2>1, <2>2, GetsHears DEF Connect
<1>4. ASSUME NEW w \in Units, SendNow(s, r, w)
      PROVE  FarHears
  <2>1. CASE UNCHANGED far
    BY <2>1, SameHears
  <2>2. ASSUME NEW n \in 0..(Len(w) - 1), FarGets(Front(w, n))
        PROVE  FarHears
    BY <2>2, FrontPart, GetsHears
  <2>3. QED
    BY <1>4, <2>1, <2>2, GetsHears DEF SendNow
<1>5. \E w \in Units : Connect(s, r, w) \/ SendNow(s, r, w)
  <2>1. CASE ~(Http(r) \/ Tls(r)) \/ obfs.status = 8
    BY <2>1 DEF Relay, Encode
  <2>2. CASE obfs.status # 8 /\ Http(r)
    BY <1>2, <2>2 DEF Relay, Encode
  <2>3. CASE obfs.status # 8 /\ Tls(r) /\ ~Http(r) /\ units = <<>>
    BY <1>2, <2>3 DEF Relay, Encode
  <2>4. CASE obfs.status # 8 /\ Tls(r) /\ ~Http(r) /\ units # <<>>
    BY <1>2, <2>4, EmptyUnits DEF Relay, Encode
  <2>5. QED
    BY <2>1, <2>2, <2>3, <2>4
<1>6. QED
  BY <1>3, <1>4, <1>5

LEMMA DispatchHears ==
  ASSUME FlowInv, NEW units \in Units, Dispatch(units)
  PROVE  FarHears
<1>1. CASE UNCHANGED far
  BY <1>1, SameHears
<1>2. ASSUME NEW direct \in BOOLEAN, NEW s, NEW r,
             Relay(s, r, (IF direct THEN <<>> ELSE << 0 >>) \o units)
      PROVE  FarHears
  <2>1. <<>> \o units = units /\ <<0>> \o units \in Units
    BY DEF Units
  <2>2. (IF direct THEN <<>> ELSE <<0>>) \o units \in Units
    BY <2>1
  <2>3. QED
    BY <1>2, <2>2, RelayHears
<1>3. QED
  BY <1>1, <1>2 DEF Dispatch

LEMMA RecvHears ==
  ASSUME FlowInv, IInv, RecvRequest \/ RecvTunnelled \/ RecvFirstData \/ RecvData
  PROVE  FarHears /\ ClientHears
<1> DEFINE Handled(n) == \/ UNCHANGED far
                         \/ Dispatch(Read(n)) \/ Dispatch(server.buf \o Read(n))
                         \/ Relay(server, remote, Read(n))
<1>1. \E size \in Nat : \E n \in 0..Lesser(Unread, size) : Reads(n) /\ Handled(n)
  <2>1. /\ BufSize \in Nat /\ client.read \in Nat /\ client.sent \in Nat
        /\ Len(server.buf) \in Nat /\ Len(server.buf) <= BufSize
    BY SizesAssumption DEF IInv, Typed, OthersTyped, Servers, Units, FlowInv, Bounded
  <2>2. \A size \in Nat : 1..Lesser(Unread, size) \subseteq 0..Lesser(Unread, size)
    BY <2>1
  <2>3. BufSize - Len(server.buf) \in Nat
    BY <2>1
  <2>4. CASE RecvRequest
    BY <2>1, <2>4 DEF RecvRequest, OpenRemote
  <2>5. CASE RecvTunnelled
    BY <2>1, <2>2, <2>5 DEF RecvTunnelled
  <2>6. CASE RecvFirstData
    BY <2>2, <2>3, <2>6 DEF RecvFirstData, OpenRemote
  <2>7. CASE RecvData
    BY <2>1, <2>2, <2>7 DEF RecvData
  <2>8. QED
    BY <2>4, <2>5, <2>6, <2>7
<1>2. PICK size \in Nat : \E n \in 0..Lesser(Unread, size) : Reads(n) /\ Handled(n)
  BY <1>1
<1>3. PICK n \in 0..Lesser(Unread, size) : Reads(n) /\ Handled(n)
  BY <1>2
<1>4. Read(n) \in Units /\ server.buf \o Read(n) \in Units
  <2>1. Read(n) \in Units /\ server.buf \in Units
    BY ReadUnits DEF IInv, Typed, Servers
  <2>2. QED
    BY <2>1 DEF Units
<1>5. client'.got = client.got /\ client'.sent = client.sent
  BY <1>3 DEF Reads, IInv, Typed, OthersTyped
<1>6. QED
  BY <1>3, <1>4, <1>5, SameHears, DispatchHears, RelayHears

(* remote_send_cb                                                          *)
LEMMA RemoteSendHears ==
  ASSUME FlowInv, IInv, RemoteSend
  PROVE  FarHears /\ ClientHears
<1>1. remote.buf \in Units /\ UNCHANGED client
  BY DEF IInv, Typed, Remotes, RemoteSend
<1>2. ASSUME NEW r, r.buf = remote.buf, Flush(r)
      PROVE  FarHears
  <2>1. CASE UNCHANGED far
    BY <2>1, SameHears
  <2>2. ASSUME NEW n \in 0..(Len(remote.buf) - 1), FarGets(Front(remote.buf, n))
        PROVE  FarHears
    BY <1>1, <2>2, FrontPart, GetsHears
  <2>3. QED
    BY <1>1, <1>2, <2>1, <2>2, GetsHears DEF Flush
<1> DEFINE open == [remote EXCEPT !.state = "connected", !.connectTimer = FALSE,
                                  !.recvIo = TRUE, !.idleTimer = TRUE]
<1>3. open.buf = remote.buf
  BY DEF IInv, Typed, Remotes
<1>4. Flush(remote) \/ Flush(open) \/ UNCHANGED far
  BY DEF RemoteSend
<1> HIDE DEF open
<1>5. QED
  BY <1>1, <1>2, <1>3, <1>4, SameHears

(* remote_recv_cb                                                          *)
LEMMA SendBackHears ==
  ASSUME FlowInv, Tls(remote), obfs.status # 8, SendBack, far.unread # <<>>
  PROVE  FarHears
<1> DEFINE read == [far EXCEPT !.unread = Drop(@, 1)]
<1>1. <<0>> \o obfs.saved \in Units
  BY Lengths DEF Units
<1>2. read \in Fars /\ read.got = far.got /\ read.sent = far.sent
  <2>1. far \in Fars /\ far.unread \in Units /\ Len(far.unread) \in Nat /\ Len(far.unread) # 0
    BY Lengths DEF Fars, Units
  <2>2. 1 <= Len(far.unread)
    BY <2>1
  <2>3. Drop(far.unread, 1) \in Units
    BY <2>1, <2>2, DropUnits
  <2>4. QED
    BY <2>1, <2>3 DEF Fars
<1>3. \E w \in Units :
        \/ UNCHANGED far
        \/ \E n \in 0..(Len(w) - 1) : far' = Got(read, Front(w, n))
        \/ far' = Got(read, w)
  <2> HIDE DEF read
  <2>1. ~Http(remote)
    BY DEF Http, Tls
  <2>2. QED
    BY <1>1, <2>1 DEF SendBack, Encode, read
<1> HIDE DEF read
<1>4. QED
  BY <1>2, <1>3, FrontPart, SameHears DEF FarHears

LEMMA RemoteRecvHears ==
  ASSUME FlowInv, IInv, RemoteRecv
  PROVE  FarHears /\ ClientHears
<1>1. CASE far.unread # <<>> /\ Tls(remote) /\ obfs.status # 8 /\ SendBack
  <2>1. UNCHANGED client
    BY <1>1 DEF SendBack
  <2>2. QED
    BY <1>1, <2>1, SendBackHears, SameHears
<1>2. CASE UNCHANGED <<client, far>>
  BY <1>2, SameHears
<1>3. ASSUME NEW n \in 1..Lesser(Len(far.unread), BufSize),
             far' = [far EXCEPT !.unread = Drop(@, n)], ToClient(Decode(Front(far.unread, n)))
      PROVE  FarHears /\ ClientHears
  <2> DEFINE units == Decode(Front(far.unread, n))
  <2>1. far \in Fars /\ far.unread \in Units /\ n \in Nat /\ n <= Len(far.unread)
    <3>1. far \in Fars /\ far.unread \in Units /\ Len(far.unread) \in Nat /\ BufSize \in Nat
      BY Lengths, SizesAssumption DEF Fars, Units
    <3>2. QED
      BY <3>1 DEF Lesser
  <2>2. units \in Units /\ Drop(far.unread, n) \in Units
    BY <2>1, FrontUnits, DropUnits, DecodeUnits
  <2> HIDE DEF units
  <2>3. far' \in Fars /\ far'.got = far.got /\ far'.sent = far.sent
    BY <1>3, <2>1, <2>2 DEF Fars
  <2>4. FarHears
    BY <2>3, EmptyUnits DEF FarHears
  <2>5. UNCHANGED client \/ \E w \in Units : client' = [client EXCEPT !.got = @ \o w]
    <3>1. ToClient(units)
      BY <1>3 DEF units
    <3>2. QED
      BY <2>2, <3>1, FrontPart DEF ToClient
  <2>6. ClientHears
    BY <2>5 DEF ClientHears, IInv, Typed, OthersTyped
  <2>7. QED
    BY <2>4, <2>6
<1>4. QED
  BY <1>1, <1>2, <1>3 DEF RemoteRecv

(* server_send_cb                                                          *)
LEMMA ServerSendHears ==
  ASSUME FlowInv, IInv, ServerSend
  PROVE  FarHears /\ ClientHears
<1>1. server.buf \in Units /\ UNCHANGED far
  BY DEF IInv, Typed, Servers, ServerSend
<1>2. UNCHANGED client \/ \E w \in Units : client' = [client EXCEPT !.got = @ \o w]
  BY <1>1, FrontPart DEF ServerSend
<1>3. ClientHears
  BY <1>2 DEF ClientHears, IInv, Typed, OthersTyped
<1>4. QED
  BY <1>1, <1>3, SameHears

LEMMA PeersMove ==
  ASSUME FlowInv, IInv, ClientSends \/ FarGreets \/ FarSends
  PROVE  UpMoves /\ DownMoves
<1>1. CASE ClientSends
  <2>1. UNCHANGED far
    BY <1>1 DEF ClientSends
  <2>2. client'.got = client.got /\ client'.sent >= client.sent
    BY <1>1, Lengths DEF ClientSends, IInv, Typed, OthersTyped
  <2>3. QED
    BY <2>1, <2>2, Lengths DEF UpMoves, DownMoves
<1>2. CASE FarGreets \/ FarSends
  <2>1. UNCHANGED client
    BY <1>2 DEF FarGreets, FarSends
  <2>2. far'.got = far.got /\ far'.sent >= far.sent
    <3>1. far \in Fars /\ far.sent \in Nat
      BY Lengths
    <3>2. CASE far'.sent = far.sent /\ far'.got = far.got
      BY <3>1, <3>2
    <3>3. CASE far'.sent = far.sent + 1 /\ far'.got = far.got
      BY <3>1, <3>3
    <3>4. QED
      BY <1>2, <3>1, <3>2, <3>3 DEF FarGreets, FarSends, Fars
  <2>3. QED
    BY <2>1, <2>2, Lengths DEF UpMoves, DownMoves
<1>3. QED
  BY <1>1, <1>2

LEMMA NextMoves ==
  ASSUME FlowInv, IInv, [Next]_vars
  PROVE  UpMoves /\ DownMoves
<1>1. CASE UNCHANGED <<client, far>>
  BY <1>1, HearsMoves, SameHears
<1>2. CASE RecvRequest \/ RecvTunnelled \/ RecvFirstData \/ RecvData
  BY <1>2, HearsMoves, RecvHears
<1>3. CASE RemoteSend \/ RemoteRecv \/ ServerSend
  BY <1>3, HearsMoves, RemoteSendHears, RemoteRecvHears, ServerSendHears
<1>4. CASE ClientSends \/ FarGreets \/ FarSends
  BY <1>4, PeersMove
<1>5. CASE RecvGreeting \/ RecvAssociate \/ RecvEnd \/ RemoteTimeout \/ UNCHANGED vars
  BY <1>1, <1>5 DEF RecvGreeting, RecvAssociate, RecvEnd, RemoteTimeout, vars
<1>6. QED
  BY <1>2, <1>3, <1>4, <1>5 DEF Next

LEMMA InitRefines == Init => Up!Init /\ Down!Init
BY DEF Init, Up!Init, Down!Init

LEMMA ArrivedLength ==
  ASSUME NEW i \in Nat
  PROVE  Len(Bytes(0, i)) = i /\ Bytes(0, i) = Up!Stream(i) /\ Bytes(0, i) = Down!Stream(i)
<1>1. i - 0 = i /\ \A k \in 1..i : 0 + k = k
  OBVIOUS
<1>2. Bytes(0, i) = [k \in 1..i |-> k]
  BY <1>1 DEF Bytes
<1>3. QED
  BY <1>2 DEF Up!Stream, Down!Stream

LEMMA NextRefines ==
  IInv /\ FlowInv /\ FlowInv' /\ [Next]_vars => [Up!Next]_(Up!vars) /\ [Down!Next]_(Down!vars)
<1> SUFFICES ASSUME IInv, FlowInv, FlowInv', [Next]_vars
             PROVE  [Up!Next]_(Up!vars) /\ [Down!Next]_(Down!vars)
  OBVIOUS
<1>1. UpMoves /\ DownMoves
  BY NextMoves
<1>2. client'.sent \in Nat /\ far'.sent \in Nat
  BY SizesAssumption DEF FlowInv, TypeOK
<1>3. Up!Next
  <2>1. CASE far'.got = far.got
    BY <1>1, <1>2, <2>1 DEF UpMoves, Up!Next, Up!Write
  <2>2. CASE far'.got # far.got
    <3>1. PICK i \in 0..client'.sent : far'.got = Bytes(0, i)
      BY DEF FlowInv, Arrived
    <3>2. Len(far.got) <= i /\ far'.got = Up!Stream(i)
      BY <1>1, <3>1, ArrivedLength DEF UpMoves
    <3>3. i \in Len(far.got)..client'.sent /\ client'.sent = client.sent
      BY <1>1, <2>2, <3>1, <3>2, Lengths DEF UpMoves
    <3>4. QED
      BY <3>2, <3>3 DEF Up!Next, Up!Deliver
  <2>3. QED
    BY <2>1, <2>2
<1>4. Down!Next
  <2>1. CASE client'.got = client.got
    BY <1>1, <1>2, <2>1 DEF DownMoves, Down!Next, Down!Write
  <2>2. CASE client'.got # client.got
    <3>1. PICK i \in 0..far'.sent : client'.got = Bytes(0, i)
      BY DEF FlowInv, Arrived
    <3>2. Len(client.got) <= i /\ client'.got = Down!Stream(i)
      BY <1>1, <3>1, ArrivedLength DEF DownMoves
    <3>3. i \in Len(client.got)..far'.sent /\ far'.sent = far.sent
      BY <1>1, <2>2, <3>1, <3>2, Lengths DEF DownMoves
    <3>4. QED
      BY <3>2, <3>3 DEF Down!Next, Down!Deliver
  <2>3. QED
    BY <2>1, <2>2
<1>5. QED
  BY <1>3, <1>4

(* Each direction of a connection is a pipe that keeps the order: what     *)
(* ss-local hands on comes out as it went in, with the messages of the     *)
(* handshake taken off, whatever the kernel takes of a send and whichever  *)
(* watcher fires, for any size of the buffers and any number of bytes.     *)
THEOREM SpecImplements == Spec => Implements
<1>1. IInv /\ FlowInv /\ [Next]_vars => IInv' /\ FlowInv'
  BY NextIInv, NextFlow
<1>2. QED
  BY InitIInv, InitFlow, <1>1, InitRefines, NextRefines, PTL
     DEF Spec, Implements, Up!Spec, Down!Spec

=============================================================================
