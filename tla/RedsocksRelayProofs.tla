------------------------ MODULE RedsocksRelayProofs ------------------------
(***************************************************************************)
(* Proofs about redsocks, for any size of its buffers and any number of    *)
(* bytes: the four halves of a connection are shut in pairs; no end        *)
(* overtakes the bytes before it; and each direction is an ordered pipe.   *)
(*                                                                         *)
(* The last two rest on FlowInv: what a peer has got, what is in the two   *)
(* buffers of that direction and what was not read yet are, laid end to    *)
(* end, the bytes of the other peer in their order, behind the messages of *)
(* the handshake that are still to be told or taken.                       *)
(***************************************************************************)
EXTENDS RedsocksRelay, FiniteSetTheorems, TLAPS

(* Two sides that have the fields of a bufferevent.                        *)
Fields == {"read", "write", "enabled", "suspended", "high", "input", "output", "shut"}
Shaped(b) ==
  /\ DOMAIN b = Sides
  /\ \A x \in Sides : DOMAIN b[x] = Fields /\ b[x].shut \subseteq {"read", "write"}

(* What most operations keep: the halves that are shut.                    *)
SameShut(b, c) == Shaped(c) /\ \A x \in Sides : c[x].shut = b[x].shut

(* A side is shut for writing only after the other has ended.              *)
InPairs(b) == \A x \in Sides : "write" \in b[x].shut => "read" \in b[Other(x)].shut

IInv == Shaped(be) /\ Paired

LEMMA OtherSide == \A x \in Sides : Other(x) \in Sides /\ Other(x) # x /\ Other(Other(x)) = x
BY DEF Sides, Other

(* bufferevent_write_buffer shuts nothing.                                 *)
LEMMA WriteBufferShut ==
  ASSUME NEW b, Shaped(b), NEW x \in Sides, NEW units
  PROVE  SameShut(b, WriteBuffer(b, x, units))
BY DEF SameShut, Shaped, WriteBuffer, Fields

(* Nor does moving a buffer to the other side.                             *)
LEMMA MoveShut ==
  ASSUME NEW b, Shaped(b), NEW x \in Sides
  PROVE  SameShut(b, Move(b, x))
<1> DEFINE c == WriteBuffer(b, Other(x), b[x].input)
<1>1. SameShut(b, c)
  BY OtherSide, WriteBufferShut
<1>2. QED
  BY <1>1 DEF SameShut, Shaped, Move, Fields

(* Nor does bufferevent_enable(EV_READ).                                   *)
LEMMA EnableReadShut ==
  ASSUME NEW b, Shaped(b), NEW x \in Sides
  PROVE  SameShut(b, EnableRead(b, x))
BY DEF SameShut, Shaped, EnableRead, Fields

(* Reading a side shuts nothing.                                           *)
LEMMA RelayReadShut ==
  ASSUME NEW b, Shaped(b), NEW x \in Sides
  PROVE  SameShut(b, RelayRead(b, x))
<1>1. SameShut(b, Move(b, x))
  BY MoveShut
<1>2. SameShut(b, [b EXCEPT ![x].read = FALSE])
  BY DEF SameShut, Shaped, Fields
<1>3. QED
  BY <1>1, <1>2 DEF RelayRead

(* Writing a side shuts it only when the other one has ended.              *)
LEMMA RelayWriteShut ==
  ASSUME NEW b, Shaped(b), InPairs(b), NEW x \in Sides
  PROVE  Shaped(RelayWrite(b, x)) /\ InPairs(RelayWrite(b, x))
<1> DEFINE from == Other(x)
<1> USE OtherSide
<1>1. CASE b[from].input = <<>> /\ "read" \in b[from].shut
  <2>1. RelayWrite(b, x) = ShutWrite(b, x)
    BY <1>1 DEF RelayWrite
  <2>2. Shaped(ShutWrite(b, x)) /\ InPairs(ShutWrite(b, x))
    BY <1>1 DEF ShutWrite, Shaped, Fields, InPairs
  <2>3. QED
    BY <2>1, <2>2
<1>2. CASE ~(b[from].input = <<>> /\ "read" \in b[from].shut)
  <2>1. SameShut(b, Move(b, from))
    BY MoveShut
  <2>2. SameShut(Move(b, from), EnableRead(Move(b, from), from))
    BY <2>1, EnableReadShut DEF SameShut
  <2>3. SameShut(b, RelayWrite(b, x))
    BY <1>2, <2>1, <2>2 DEF RelayWrite, SameShut, Shaped
  <2>4. QED
    BY <2>3 DEF SameShut, InPairs
<1>3. QED
  BY <1>1, <1>2

(* The end of one side shuts the writing of the other behind it.           *)
LEMMA EventEndShut ==
  ASSUME NEW b, Shaped(b), InPairs(b), NEW x \in Sides
  PROVE  Shaped(EventEnd(b, x)) /\ InPairs(EventEnd(b, x))
<1> DEFINE c == ShutRead(b, x)
<1> USE OtherSide
<1>1. Shaped(c) /\ InPairs(c) /\ "read" \in c[x].shut
  BY DEF ShutRead, Shaped, Fields, InPairs
<1>2. Shaped(ShutWrite(c, Other(x))) /\ InPairs(ShutWrite(c, Other(x)))
  <2> HIDE DEF c
  <2>1. QED
    BY <1>1 DEF ShutWrite, Shaped, Fields, InPairs
<1>3. QED
  BY <1>1, <1>2 DEF EventEnd

(* Relaying starts with what was shut before.                              *)
LEMMA StartRelayShut ==
  ASSUME NEW b, Shaped(b)
  PROVE  SameShut(b, StartRelay(b))
<1> DEFINE d == StartRelay(b)
<1>1. DOMAIN d = Sides
  BY DEF StartRelay
<1>2. ASSUME NEW x \in Sides
      PROVE  DOMAIN d[x] = Fields /\ d[x].shut = b[x].shut
  <2> DEFINE e == EnableRead(b, x)[x]
             f == [e EXCEPT !.high = HalfBuff, !.write = TRUE, !.enabled = TRUE]
  <2>1. DOMAIN e = Fields /\ e.shut = b[x].shut
    BY EnableReadShut DEF SameShut, Shaped
  <2>2. d[x] = f
    BY DEF StartRelay
  <2>3. DOMAIN f = Fields /\ f.shut = e.shut
    <3> HIDE DEF e
    <3>1. QED
      BY <2>1 DEF Fields
  <2>4. QED
    BY <2>1, <2>2, <2>3
<1>3. \A x \in Sides : b[x].shut \subseteq {"read", "write"}
  BY DEF Shaped
<1>4. QED
  <2> HIDE DEF d
  <2>1. SameShut(b, d)
    BY <1>1, <1>2, <1>3 DEF SameShut, Shaped
  <2>2. QED
    BY <2>1 DEF d

-----------------------------------------------------------------------------
(* A step that ends in a new pair of sides b, with what became of it.      *)
LEMMA BecomesIInv ==
  ASSUME NEW b, Shaped(b), InPairs(b), Live, Becomes(b)
  PROVE  IInv'
BY DEF Becomes, IInv, Paired, InPairs, Live, Shaped, AllShut

LEMMA DropClientIInv ==
  ASSUME NEW b, Shaped(b), InPairs(b), DropClient(b)
  PROVE  IInv'
BY DEF DropClient, IInv, Paired, InPairs, Live, Shaped, AllShut

(* A step of the handshake shuts nothing.                                  *)
LEMMA WriteHelperIInv ==
  ASSUME IInv, Live, NEW b, SameShut(be, b), NEW units, NEW next, WriteHelper(b, units, next)
  PROVE  IInv'
<1> DEFINE c == WriteBuffer(b, "relay", units)
           d == [c EXCEPT !["relay"].high = 1]
<1>0. Shaped(b) /\ "relay" \in Sides
  BY DEF SameShut, Sides
<1>1. SameShut(b, c)
  BY <1>0, WriteBufferShut
<1>2. SameShut(b, d)
  <2> HIDE DEF c
  <2>1. QED
    BY <1>0, <1>1 DEF SameShut, Shaped, Fields
<1>3. SameShut(d, EnableRead(d, "relay"))
  <2> HIDE DEF d
  <2>1. QED
    BY <1>0, <1>2, EnableReadShut DEF SameShut
<1>4. SameShut(be, be')
  <2> HIDE DEF d
  <2>1. be' = EnableRead(d, "relay")
    BY DEF WriteHelper, d
  <2>2. QED
    BY <1>2, <1>3, <2>1 DEF SameShut
<1>5. QED
  BY <1>4, OtherSide DEF IInv, Paired, SameShut, AllShut

(* From the halves of be on: what an operation makes of a pair with the    *)
(* same halves.                                                            *)
LEMMA SameShutInPairs ==
  ASSUME IInv, NEW b, SameShut(be, b)
  PROVE  Shaped(b) /\ InPairs(b)
BY OtherSide DEF IInv, Paired, SameShut, InPairs

(* An answer that is read drops the client, sends the next message or      *)
(* starts relaying.                                                        *)
LEMMA ReadAnswerIInv ==
  ASSUME IInv, Live, NEW b, SameShut(be, b), ReadAnswer(b)
  PROVE  IInv'
<1> DEFINE c == [b EXCEPT !["relay"].input = <<>>]
<1>1. SameShut(be, c)
  BY DEF SameShut, Shaped, Fields, Sides
<1> HIDE DEF c
<1>2. CASE DropClient(c)
  BY <1>1, <1>2, SameShutInPairs, DropClientIInv
<1>3. ASSUME NEW units, NEW next, WriteHelper(c, units, next)
      PROVE  IInv'
  BY <1>1, <1>3, WriteHelperIInv
<1>4. CASE be' = StartRelay(c) /\ state' = "relaying"
  <2>1. SameShut(c, be')
    BY <1>1, <1>4, StartRelayShut DEF SameShut
  <2>2. SameShut(be, be')
    BY <1>1, <2>1 DEF SameShut
  <2>3. QED
    BY <2>2, OtherSide DEF IInv, Paired, SameShut, AllShut
<1>5. QED
  BY <1>2, <1>3, <1>4 DEF ReadAnswer, c

LEMMA ReadSuspendsIInv ==
  ASSUME IInv, NEW x \in Sides, ReadSuspends(x)
  PROVE  IInv'
<1>1. SameShut(be, be') /\ state' = state
  BY DEF ReadSuspends, IInv, SameShut, Shaped, Fields
<1>2. QED
  BY <1>1, OtherSide DEF IInv, Paired, SameShut, AllShut, Live

LEMMA ReadDataIInv ==
  ASSUME IInv, NEW x \in Sides, ReadData(x)
  PROVE  IInv'
<1> DEFINE B(n) == [be EXCEPT ![x].input = @ \o SubSeq(peer[x].unread, 1, n)]
<1>1. Live
  BY DEF ReadData, Readable
<1>2. PICK n : CASE state = "relaying" -> Becomes(RelayRead(B(n), x))
                 [] state # "relaying" /\ x = "relay" -> ReadAnswer(B(n))
                 [] OTHER -> Becomes(B(n))
  BY DEF ReadData
<1>3. SameShut(be, B(n))
  BY DEF IInv, SameShut, Shaped, Fields
<1> DEFINE b == B(n)
<1>4. SameShut(be, b) /\ Shaped(b) /\ InPairs(b)
  BY <1>3, SameShutInPairs
<1>5. Becomes(RelayRead(b, x)) \/ ReadAnswer(b) \/ Becomes(b)
  BY <1>2
<1> HIDE DEF b
<1>6. CASE Becomes(RelayRead(b, x))
  <2>1. SameShut(b, RelayRead(b, x))
    BY <1>4, RelayReadShut
  <2>2. SameShut(be, RelayRead(b, x))
    BY <1>4, <2>1 DEF SameShut
  <2>3. QED
    BY <1>1, <1>6, <2>2, SameShutInPairs, BecomesIInv
<1>7. CASE ReadAnswer(b)
  BY <1>1, <1>4, <1>7, ReadAnswerIInv
<1>8. CASE Becomes(b)
  BY <1>1, <1>4, <1>8, BecomesIInv
<1>9. QED
  BY <1>5, <1>6, <1>7, <1>8

LEMMA ReadEndIInv ==
  ASSUME IInv, NEW x \in Sides, ReadEnd(x)
  PROVE  IInv'
<1>1. Live /\ Becomes(EventEnd(be, x))
  BY DEF ReadEnd, Readable
<1>2. Shaped(be) /\ InPairs(be)
  BY DEF IInv, Paired, InPairs
<1>3. QED
  BY <1>1, <1>2, EventEndShut, BecomesIInv

LEMMA WriteIInv ==
  ASSUME IInv, NEW x \in Sides, Write(x)
  PROVE  IInv'
<1> DEFINE B(n) == [be EXCEPT ![x].output = Drop(@, n),
                              ![x].write = n < Len(be[x].output)]
<1>1. Live
  BY DEF Write
<1>2. PICK n : \/ DropClient(be)
               \/ CASE state = "relaying" /\ ~B(n)[x].write -> Becomes(RelayWrite(B(n), x))
                    [] state = "connecting" -> Connected(B(n))
                    [] OTHER -> Becomes(B(n))
  BY DEF Write
<1>3. SameShut(be, B(n))
  BY DEF IInv, SameShut, Shaped, Fields
<1> DEFINE b == B(n)
<1>4. SameShut(be, b) /\ Shaped(b) /\ InPairs(b)
  BY <1>3, SameShutInPairs
<1>5. DropClient(be) \/ Becomes(RelayWrite(b, x)) \/ Connected(b) \/ Becomes(b)
  BY <1>2
<1> HIDE DEF b
<1>6. CASE DropClient(be)
  BY <1>6, DropClientIInv DEF IInv, Paired, InPairs
<1>7. CASE Becomes(RelayWrite(b, x))
  BY <1>1, <1>4, <1>7, RelayWriteShut, BecomesIInv
<1>8. CASE Connected(b)
  BY <1>1, <1>4, <1>8, DropClientIInv, WriteHelperIInv DEF Connected
<1>9. CASE Becomes(b)
  BY <1>1, <1>4, <1>9, BecomesIInv
<1>10. QED
  BY <1>5, <1>6, <1>7, <1>8, <1>9

-----------------------------------------------------------------------------
LEMMA InitIInv == Init => IInv
<1> SUFFICES ASSUME Init PROVE IInv
  OBVIOUS
<1>1. Shaped(be) /\ \A x \in Sides : be[x].shut = {}
  BY DEF Init, NewEvent, Shaped, Fields, Sides
<1>2. QED
  BY <1>1 DEF IInv, Paired, AllShut, Sides

LEMMA NextIInv == IInv /\ [Next]_vars => IInv'
<1> SUFFICES ASSUME IInv, [Next]_vars PROVE IInv'
  OBVIOUS
<1>1. ASSUME NEW x \in Sides, Read(x) PROVE IInv'
  BY <1>1, ReadSuspendsIInv, ReadDataIInv, ReadEndIInv DEF Read
<1>2. ASSUME NEW x \in Sides, Write(x) PROVE IInv'
  BY <1>2, WriteIInv
<1>3. ASSUME NEW x \in Sides, EventError(x) PROVE IInv'
  BY <1>3, DropClientIInv DEF EventError, IInv, Paired, InPairs
<1>4. CASE \/ \E x \in Sides : PeerSends(x) \/ PeerEnds(x)
           \/ Answer
           \/ UNCHANGED vars
  <2>1. UNCHANGED <<state, be>>
    BY <1>4 DEF PeerSends, PeerEnds, Answer, vars
  <2>2. QED
    BY <2>1 DEF IInv, Shaped, Paired, Live, AllShut
<1>5. QED
  BY <1>1, <1>2, <1>3, <1>4 DEF Next

(* redsocks shuts a connection in pairs: a socket is shut for writing only *)
(* after the other one has ended, so the first of the two shutdowns of     *)
(* redsocks_event_error never drops the client the second one works on;    *)
(* and a connection that is kept has a half that is open.                  *)
THEOREM SpecPaired == Spec => []Paired
<1>1. IInv => Paired
  BY DEF IInv
<1>2. QED
  BY <1>1, InitIInv, NextIInv, PTL DEF Spec

-----------------------------------------------------------------------------
(***************************************************************************)
(* The bytes of a stream stay in line.  Lemmas about sequences come first, *)
(* then the four places of a direction, the operations of redsocks, and    *)
(* the actions.                                                            *)
(***************************************************************************)

(* z messages of the handshake, and behind them the bytes from a to b.     *)
Units(z, a, b) == [i \in 1..(z + (b - a)) |-> IF i <= z THEN 0 ELSE a + i - z]

AreUnits(s, z, a, b) ==
  /\ s \in Seq(Nat) /\ Len(s) = z + (b - a)
  /\ \A i \in 1..Len(s) : s[i] = IF i <= z THEN 0 ELSE a + i - z

LEMMA UnitsAre ==
  ASSUME NEW z \in Nat, NEW a \in Nat, NEW b \in Nat, a <= b
  PROVE  AreUnits(Units(z, a, b), z, a, b) /\ z + (b - a) \in Nat
<1>1. z + (b - a) \in Nat
  OBVIOUS
<1>2. \A i \in 1..(z + (b - a)) : (IF i <= z THEN 0 ELSE a + i - z) \in Nat
  OBVIOUS
<1>3. QED
  BY <1>1, <1>2 DEF Units, AreUnits

LEMMA SameUnits ==
  ASSUME NEW z \in Nat, NEW a \in Nat, NEW b \in Nat, a <= b, NEW s, AreUnits(s, z, a, b)
  PROVE  s = Units(z, a, b)
<1>1. s = [i \in 1..Len(s) |-> s[i]]
  BY DEF AreUnits
<1>2. QED
  BY <1>1 DEF Units, AreUnits

LEMMA UnitsJoin ==
  ASSUME NEW z \in Nat, NEW a \in Nat, NEW b \in Nat, NEW c \in Nat, a <= b, b <= c
  PROVE  Units(z, a, b) \o Units(0, b, c) = Units(z, a, c)
<1> DEFINE s == Units(z, a, b)
           t == Units(0, b, c)
<1>1. AreUnits(s, z, a, b) /\ AreUnits(t, 0, b, c)
  BY UnitsAre
<1> HIDE DEF s, t
<1>2. /\ s \in Seq(Nat) /\ Len(s) = z + (b - a) /\ Len(s) \in Nat
      /\ t \in Seq(Nat) /\ Len(t) = c - b /\ Len(t) \in Nat
  BY <1>1 DEF AreUnits
<1>3. \A i \in 1..Len(s) : s[i] = IF i <= z THEN 0 ELSE a + i - z
  BY <1>1 DEF AreUnits
<1>4. \A i \in 1..Len(t) : t[i] = b + i
  BY <1>1 DEF AreUnits
<1>5. s \o t \in Seq(Nat) /\ Len(s \o t) = Len(s) + Len(t)
  BY <1>2
<1>6. ASSUME NEW i \in 1..Len(s \o t)
      PROVE  (s \o t)[i] = IF i <= z THEN 0 ELSE a + i - z
  <2>1. CASE i <= Len(s)
    <3>1. i \in 1..Len(s) /\ (s \o t)[i] = s[i]
      BY <1>2, <1>5, <2>1
    <3>2. QED
      BY <1>3, <3>1
  <2>2. CASE i > Len(s)
    <3>1. i - Len(s) \in 1..Len(t) /\ i \in Nat
      BY <1>2, <1>5, <2>2
    <3>2. (s \o t)[i] = t[i - Len(s)]
      <4>1. \A k \in 1..(Len(s) + Len(t)) : (s \o t)[k] = IF k <= Len(s) THEN s[k] ELSE t[k - Len(s)]
        BY <1>2
      <4>2. QED
        BY <1>5, <2>2, <4>1
    <3>3. t[i - Len(s)] = b + (i - Len(s))
      BY <1>4, <3>1
    <3>4. ~(i <= z)
      BY <1>2, <2>2, <3>1
    <3>5. QED
      BY <1>2, <3>1, <3>2, <3>3, <3>4
  <2>3. QED
    BY <1>2, <1>5, <2>1, <2>2
<1>7. AreUnits(s \o t, z, a, c)
  BY <1>2, <1>5, <1>6 DEF AreUnits
<1>8. s \o t = Units(z, a, c)
  <2>1. a <= c
    OBVIOUS
  <2>2. QED
    BY <1>7, <2>1, SameUnits
<1>9. QED
  BY <1>8 DEF s, t

(* More messages behind messages.                                          *)
LEMMA UnitsMore ==
  ASSUME NEW z \in Nat, NEW m \in Nat, NEW a \in Nat
  PROVE  Units(z, a, a) \o Units(m, a, a) = Units(z + m, a, a)
<1> DEFINE s == Units(z, a, a)
           t == Units(m, a, a)
<1>1. AreUnits(s, z, a, a) /\ AreUnits(t, m, a, a)
  BY UnitsAre
<1> HIDE DEF s, t
<1>2. /\ s \in Seq(Nat) /\ Len(s) = z /\ \A i \in 1..z : s[i] = 0
      /\ t \in Seq(Nat) /\ Len(t) = m /\ \A i \in 1..m : t[i] = 0
  BY <1>1 DEF AreUnits
<1>3. s \o t \in Seq(Nat) /\ Len(s \o t) = z + m
  BY <1>2
<1>4. \A i \in 1..(z + m) : (s \o t)[i] = 0 /\ i <= z + m
  BY <1>2
<1>5. AreUnits(s \o t, z + m, a, a)
  BY <1>3, <1>4 DEF AreUnits
<1>6. s \o t = Units(z + m, a, a)
  <2>1. z + m \in Nat /\ a <= a
    OBVIOUS
  <2>2. QED
    BY <1>5, <2>1, SameUnits, ZenonT(30)
<1>7. QED
  BY <1>6 DEF s, t

LEMMA OneMessage ==
  ASSUME NEW a \in Nat
  PROVE  /\ <<>> = Units(0, a, a) /\ <<0>> = Units(1, a, a)
         /\ <<0, 0>> = Units(2, a, a) /\ <<0, 0, 0>> = Units(3, a, a)
<1>1. AreUnits(<<>>, 0, a, a) /\ AreUnits(<<0>>, 1, a, a)
  BY DEF AreUnits
<1>2. AreUnits(<<0, 0>>, 2, a, a)
  BY DEF AreUnits
<1>3. AreUnits(<<0, 0, 0>>, 3, a, a)
  BY DEF AreUnits
<1>4. QED
  BY <1>1, <1>2, <1>3, SameUnits

LEMMA OneByte ==
  ASSUME NEW a \in Nat
  PROVE  <<a + 1>> = Units(0, a, a + 1)
<1>1. AreUnits(<<a + 1>>, 0, a, a + 1)
  BY DEF AreUnits
<1>2. QED
  BY <1>1, SameUnits

LEMMA UnitsCut ==
  ASSUME NEW z \in Nat, NEW a \in Nat, NEW b \in Nat, a <= b, NEW n \in 0..(z + (b - a))
  PROVE  LET s == Units(z, a, b) IN
         /\ n <= z => /\ SubSeq(s, 1, n) = Units(n, a, a)
                      /\ Drop(s, n) = Units(z - n, a, b)
         /\ n >= z => /\ SubSeq(s, 1, n) = Units(z, a, a + (n - z))
                      /\ Drop(s, n) = Units(0, a + (n - z), b)
<1> DEFINE s == Units(z, a, b)
           t == SubSeq(s, 1, n)
           u == Drop(s, n)
<1>0. AreUnits(s, z, a, b) /\ z + (b - a) \in Nat
  BY UnitsAre
<1> HIDE DEF s
<1>1. /\ s \in Seq(Nat) /\ Len(s) = z + (b - a) /\ Len(s) \in Nat
      /\ \A i \in 1..Len(s) : s[i] = IF i <= z THEN 0 ELSE a + i - z
  BY <1>0 DEF AreUnits
<1>2. t \in Seq(Nat) /\ Len(t) = n /\ \A i \in 1..n : t[i] = s[i] /\ i \in 1..Len(s)
  BY <1>1
<1>3. /\ u \in Seq(Nat) /\ Len(u) = Len(s) - n
      /\ \A i \in 1..(Len(s) - n) : u[i] = s[i + n] /\ i + n \in 1..Len(s)
  BY <1>1 DEF Drop
<1> HIDE DEF t, u
<1>4. ASSUME n <= z PROVE t = Units(n, a, a) /\ u = Units(z - n, a, b)
  <2>1. \A i \in 1..Len(t) : t[i] = 0 /\ i <= n
    BY <1>1, <1>2, <1>4
  <2>2. t = Units(n, a, a)
    <3>1. AreUnits(t, n, a, a)
      BY <1>2, <2>1 DEF AreUnits
    <3>2. QED
      BY <3>1, SameUnits
  <2>3. z - n \in Nat /\ Len(u) = (z - n) + (b - a)
    BY <1>1, <1>3, <1>4
  <2>4. ASSUME NEW i \in 1..Len(u) PROVE u[i] = IF i <= z - n THEN 0 ELSE a + i - (z - n)
    <3>1. i \in 1..(Len(s) - n) /\ u[i] = s[i + n] /\ i + n \in 1..Len(s)
      BY <1>3
    <3>2. s[i + n] = IF i + n <= z THEN 0 ELSE a + (i + n) - z
      BY <1>1, <3>1
    <3>3. QED
      BY <3>1, <3>2
  <2>5. u = Units(z - n, a, b)
    <3>1. AreUnits(u, z - n, a, b)
      BY <1>3, <2>3, <2>4 DEF AreUnits
    <3>2. QED
      BY <2>3, <3>1, SameUnits
  <2>6. QED
    BY <2>2, <2>5
<1>5. ASSUME n >= z PROVE t = Units(z, a, a + (n - z)) /\ u = Units(0, a + (n - z), b)
  <2> DEFINE e == a + (n - z)
  <2>1. e \in Nat /\ a <= e /\ e <= b /\ n = z + (e - a)
    BY <1>5
  <2>2. \A i \in 1..Len(t) : t[i] = IF i <= z THEN 0 ELSE a + i - z
    BY <1>1, <1>2
  <2>3. Len(u) = 0 + (b - e)
    BY <1>1, <1>3, <2>1
  <2> HIDE DEF e
  <2>4. t = Units(z, a, e)
    <3>1. AreUnits(t, z, a, e)
      BY <1>2, <2>1, <2>2 DEF AreUnits
    <3>2. QED
      BY <2>1, <3>1, SameUnits
  <2>5. ASSUME NEW i \in 1..Len(u) PROVE u[i] = IF i <= 0 THEN 0 ELSE e + i - 0
    <3>1. i \in 1..(Len(s) - n) /\ u[i] = s[i + n] /\ i + n \in 1..Len(s)
      BY <1>3
    <3>2. s[i + n] = IF i + n <= z THEN 0 ELSE a + (i + n) - z
      BY <1>1, <3>1
    <3>3. QED
      BY <1>5, <2>1, <3>1, <3>2
  <2>6. u = Units(0, e, b)
    <3>1. AreUnits(u, 0, e, b)
      BY <1>3, <2>3, <2>5 DEF AreUnits
    <3>2. QED
      BY <2>1, <3>1, SameUnits
  <2>7. QED
    BY <2>4, <2>6 DEF e
<1>6. QED
  BY <1>4, <1>5 DEF s, t, u

(* The bytes behind the messages.                                          *)
LEMMA PayloadOfUnits ==
  ASSUME NEW z \in Nat, NEW a \in Nat, NEW b \in Nat, a <= b
  PROVE  Payload(Units(z, a, b)) = Units(0, a, b)
<1> DEFINE s == Units(z, a, b)
           n == b - a
           data == {i \in DOMAIN s : s[i] > 0}
           upTo(i) == {j \in data : j <= i}
<1>1. n \in Nat /\ z + n \in Nat
  OBVIOUS
<1>2. DOMAIN s = 1..(z + n) /\ \A i \in 1..(z + n) : s[i] = IF i <= z THEN 0 ELSE a + i - z
  BY DEF Units
<1>3. data = (z + 1)..(z + n)
  <2>1. ASSUME NEW i PROVE i \in data <=> i \in (z + 1)..(z + n)
    BY <1>1, <1>2
  <2>2. QED
    BY <2>1
<1>4. \A i \in data : upTo(i) = (z + 1)..i
  BY <1>1, <1>3
<1>5. Cardinality(data) = n /\ \A i \in data : Cardinality(upTo(i)) = i - z
  <2>1. \A i \in data : i \in Int /\ i >= z + 1
    BY <1>1, <1>3
  <2>2. Cardinality((z + 1)..(z + n)) = n
    BY <1>1, FS_Interval
  <2>3. ASSUME NEW i \in data PROVE Cardinality((z + 1)..i) = i - z
    BY <2>1, FS_Interval
  <2> HIDE DEF data, upTo
  <2>4. QED
    BY <1>3, <1>4, <2>2, <2>3
<1>6. ASSUME NEW k \in 1..n
      PROVE  (CHOOSE i \in data : Cardinality(upTo(i)) = k) = z + k
  <2>1. z + k \in data /\ Cardinality(upTo(z + k)) = k
    <3>1. z + k \in data
      BY <1>1, <1>3
    <3> HIDE DEF data, upTo, n
    <3>2. QED
      BY <1>5, <3>1
  <2>2. \A i \in data : i \in Int
    BY <1>1, <1>3
  <2> HIDE DEF data, upTo
  <2>3. \A i \in data : Cardinality(upTo(i)) = k => i = z + k
    BY <1>5, <2>2
  <2>4. QED
    BY <2>1, <2>3
<1>7. Payload(s) = [k \in 1..n |-> s[CHOOSE i \in data : Cardinality(upTo(i)) = k]]
  BY <1>5 DEF Payload
<1>8. \A k \in 1..n : s[z + k] = a + k
  BY <1>1, <1>2
<1> HIDE DEF data, upTo, s
<1>9. Payload(s) = [k \in 1..n |-> a + k]
  BY <1>6, <1>7, <1>8
<1>10. Units(0, a, b) = [k \in 1..n |-> a + k]
  <2>1. \A k \in 1..n : ~(k <= 0) /\ a + k - 0 = a + k
    BY <1>1
  <2>2. QED
    BY <2>1 DEF Units
<1>11. QED
  BY <1>9, <1>10 DEF s

(* The same lemmas for a span of units.                                    *)
Span(z, a, b) == z \in Nat /\ a \in Nat /\ b \in Nat /\ a <= b

LEMMA SpanIs ==
  ASSUME NEW z, NEW a, NEW b, Span(z, a, b)
  PROVE  /\ Units(z, a, b) \in Seq(Nat) /\ Len(Units(z, a, b)) = z + (b - a)
         /\ Len(Units(z, a, b)) \in Nat
<1>1. z \in Nat /\ a \in Nat /\ b \in Nat /\ a <= b
  BY DEF Span
<1>2. AreUnits(Units(z, a, b), z, a, b) /\ z + (b - a) \in Nat
  BY <1>1, UnitsAre, ZenonT(30)
<1>3. QED
  BY <1>2 DEF AreUnits

LEMMA SpanJoin ==
  ASSUME NEW z, NEW a, NEW b, NEW c, Span(z, a, b), Span(0, b, c)
  PROVE  Units(z, a, b) \o Units(0, b, c) = Units(z, a, c) /\ Span(z, a, c)
<1>1. z \in Nat /\ a \in Nat /\ b \in Nat /\ c \in Nat /\ a <= b /\ b <= c
  BY DEF Span
<1>2. Units(z, a, b) \o Units(0, b, c) = Units(z, a, c)
  BY <1>1, UnitsJoin, ZenonT(30)
<1>3. Span(z, a, c)
  BY <1>1 DEF Span
<1>4. QED
  BY <1>2, <1>3

LEMMA SpanMore ==
  ASSUME NEW z, NEW m, NEW a, Span(z, a, a), Span(m, a, a)
  PROVE  Units(z, a, a) \o Units(m, a, a) = Units(z + m, a, a) /\ Span(z + m, a, a)
<1>1. z \in Nat /\ m \in Nat /\ a \in Nat
  BY DEF Span
<1>2. Units(z, a, a) \o Units(m, a, a) = Units(z + m, a, a)
  BY <1>1, UnitsMore, ZenonT(30)
<1>3. Span(z + m, a, a)
  BY <1>1 DEF Span
<1>4. QED
  BY <1>2, <1>3

(* The first n units are all messages, or some of them are bytes.          *)
LEMMA SpanCutMessages ==
  ASSUME NEW z, NEW a, NEW b, NEW n, Span(z, a, b), n \in 0..Len(Units(z, a, b)), n <= z
  PROVE  /\ SubSeq(Units(z, a, b), 1, n) = Units(n, a, a) /\ Span(n, a, a)
         /\ Drop(Units(z, a, b), n) = Units(z - n, a, b) /\ Span(z - n, a, b)
<1>1. z \in Nat /\ a \in Nat /\ b \in Nat /\ a <= b
  BY DEF Span
<1>2. n \in 0..(z + (b - a))
  BY SpanIs
<1>3. /\ SubSeq(Units(z, a, b), 1, n) = Units(n, a, a)
      /\ Drop(Units(z, a, b), n) = Units(z - n, a, b)
  BY <1>1, <1>2, UnitsCut, ZenonT(30)
<1>4. Span(n, a, a) /\ Span(z - n, a, b)
  BY <1>1, <1>2 DEF Span
<1>5. QED
  BY <1>3, <1>4

LEMMA SpanCutBytes ==
  ASSUME NEW z, NEW a, NEW b, NEW n, Span(z, a, b), n \in 0..Len(Units(z, a, b)), n >= z
  PROVE  LET e == a + (n - z) IN
         /\ SubSeq(Units(z, a, b), 1, n) = Units(z, a, e) /\ Span(z, a, e)
         /\ Drop(Units(z, a, b), n) = Units(0, e, b) /\ Span(0, e, b)
<1>1. z \in Nat /\ a \in Nat /\ b \in Nat /\ a <= b
  BY DEF Span
<1>2. n \in 0..(z + (b - a))
  BY SpanIs
<1>3. /\ SubSeq(Units(z, a, b), 1, n) = Units(z, a, a + (n - z))
      /\ Drop(Units(z, a, b), n) = Units(0, a + (n - z), b)
  BY <1>1, <1>2, UnitsCut, ZenonT(30)
<1>4. Span(z, a, a + (n - z)) /\ Span(0, a + (n - z), b)
  BY <1>1, <1>2 DEF Span
<1>5. QED
  BY <1>3, <1>4

LEMMA SpanPayload ==
  ASSUME NEW z, NEW a, NEW b, Span(z, a, b)
  PROVE  Payload(Units(z, a, b)) = Units(0, a, b) /\ Span(0, a, b)
<1>1. z \in Nat /\ a \in Nat /\ b \in Nat /\ a <= b
  BY DEF Span
<1>2. Payload(Units(z, a, b)) = Units(0, a, b)
  BY <1>1, PayloadOfUnits, ZenonT(30)
<1>3. QED
  BY <1>1, <1>2 DEF Span

-----------------------------------------------------------------------------
Joined(s, t) == s \o t

(* One direction: what the other peer has got, what is in the output       *)
(* behind z messages, what is in the input, and what was not read yet      *)
(* behind u parts of answers, are the bytes 1 to n.                        *)
Flows(got, out, in, unread, n, z, u) ==
  \E i, j, k :
    /\ Span(0, 0, i) /\ Span(z, i, j) /\ Span(0, j, k) /\ Span(u, k, n)
    /\ got = Units(0, 0, i) /\ out = Units(z, i, j)
    /\ in = Units(0, j, k) /\ unread = Units(u, k, n)

LEMMA FlowsTyped ==
  ASSUME NEW got, NEW out, NEW in, NEW unread, NEW n, NEW z, NEW u,
         Flows(got, out, in, unread, n, z, u)
  PROVE  z \in Nat /\ u \in Nat /\ n \in Nat
BY DEF Flows, Span

LEMMA NoUnits ==
  ASSUME NEW a, a \in Nat
  PROVE  <<>> = Units(0, a, a) /\ Span(0, a, a)
<1>1. <<>> = Units(0, a, a)
  BY OneMessage, ZenonT(30)
<1>2. QED
  BY <1>1 DEF Span

(* Before anything was sent all of it is empty.                            *)
LEMMA FlowsStart == Flows(<<>>, <<>>, <<>>, <<>>, 0, 0, 0)
<1>1. <<>> = Units(0, 0, 0) /\ Span(0, 0, 0)
  BY NoUnits
<1>2. QED
  BY <1>1 DEF Flows

(* The input is moved to the output.                                       *)
LEMMA FlowsMove ==
  ASSUME NEW got, NEW out, NEW in, NEW unread, NEW n, NEW z, NEW u,
         Flows(got, out, in, unread, n, z, u)
  PROVE  Flows(got, Joined(out, in), <<>>, unread, n, z, u)
<1>1. PICK i, j, k :
        /\ Span(0, 0, i) /\ Span(z, i, j) /\ Span(0, j, k) /\ Span(u, k, n)
        /\ got = Units(0, 0, i) /\ out = Units(z, i, j)
        /\ in = Units(0, j, k) /\ unread = Units(u, k, n)
  BY DEF Flows
<1>2. out \o in = Units(z, i, k) /\ Span(z, i, k)
  BY <1>1, SpanJoin
<1>3. <<>> = Units(0, k, k) /\ Span(0, k, k)
  <2>1. k \in Nat
    BY <1>1 DEF Span
  <2>2. QED
    BY <2>1, NoUnits
<1>4. QED
  BY <1>1, <1>2, <1>3 DEF Flows, Joined

(* The first m bytes that were not read are read.                          *)
LEMMA FlowsRead ==
  ASSUME NEW got, NEW out, NEW in, NEW unread, NEW n, NEW z, NEW m,
         Flows(got, out, in, unread, n, z, 0), m \in 0..Len(unread)
  PROVE  Flows(got, out, Joined(in, SubSeq(unread, 1, m)), Drop(unread, m), n, z, 0)
<1>1. PICK i, j, k :
        /\ Span(0, 0, i) /\ Span(z, i, j) /\ Span(0, j, k) /\ Span(0, k, n)
        /\ got = Units(0, 0, i) /\ out = Units(z, i, j)
        /\ in = Units(0, j, k) /\ unread = Units(0, k, n)
  BY DEF Flows
<1> DEFINE e == k + (m - 0)
<1>2. m \in 0..Len(Units(0, k, n)) /\ m >= 0
  <2>1. m \in 0..Len(Units(0, k, n))
    BY <1>1
  <2>2. Len(Units(0, k, n)) \in Nat
    BY <1>1, SpanIs
  <2>3. QED
    BY <2>1, <2>2
<1>3. /\ SubSeq(unread, 1, m) = Units(0, k, e) /\ Span(0, k, e)
      /\ Drop(unread, m) = Units(0, e, n) /\ Span(0, e, n)
  BY <1>1, <1>2, SpanCutBytes
<1> HIDE DEF e
<1>4. in \o SubSeq(unread, 1, m) = Units(0, j, e) /\ Span(0, j, e)
  <2>1. Units(0, j, k) \o Units(0, k, e) = Units(0, j, e) /\ Span(0, j, e)
    BY <1>1, <1>3, SpanJoin, ZenonT(30)
  <2>2. QED
    BY <1>1, <1>3, <2>1
<1>5. QED
  BY <1>1, <1>3, <1>4 DEF Flows, Joined

(* The first part of an answer is read.                                    *)
LEMMA FlowsTake ==
  ASSUME NEW got, NEW out, NEW in, NEW unread, NEW n, NEW z, NEW u,
         Flows(got, out, in, unread, n, z, u), u >= 1
  PROVE  Flows(got, out, in, Drop(unread, 1), n, z, u - 1)
<1>1. PICK i, j, k :
        /\ Span(0, 0, i) /\ Span(z, i, j) /\ Span(0, j, k) /\ Span(u, k, n)
        /\ got = Units(0, 0, i) /\ out = Units(z, i, j)
        /\ in = Units(0, j, k) /\ unread = Units(u, k, n)
  BY DEF Flows
<1>2. 1 \in 0..Len(Units(u, k, n)) /\ 1 <= u
  <2>1. Len(Units(u, k, n)) = u + (n - k)
    BY <1>1, SpanIs
  <2>2. u \in Nat /\ k \in Nat /\ n \in Nat /\ k <= n
    BY <1>1 DEF Span
  <2>3. QED
    BY <2>1, <2>2
<1>3. Drop(unread, 1) = Units(u - 1, k, n) /\ Span(u - 1, k, n)
  BY <1>1, <1>2, SpanCutMessages
<1>4. QED
  BY <1>1, <1>3 DEF Flows

(* The first m units of the output are written: the t messages among them  *)
(* are told, the bytes arrive.                                             *)
Written(out, m, s, t) ==
  m \in 0..Len(out) /\ s = SubSeq(out, 1, m) /\ t = Len(s) - Len(Payload(s))

LEMMA FlowsWrite ==
  ASSUME NEW got, NEW out, NEW in, NEW unread, NEW n, NEW z, NEW u, NEW m, NEW s, NEW t,
         Flows(got, out, in, unread, n, z, u), Written(out, m, s, t)
  PROVE  /\ t \in 0..z /\ (Len(out) = z => t = m)
         /\ Flows(Joined(got, Payload(s)), Drop(out, m), in, unread, n, z - t, u)
<1>0. m \in 0..Len(out) /\ s = SubSeq(out, 1, m) /\ t = Len(s) - Len(Payload(s))
  BY DEF Written
<1>1. PICK i, j, k :
        /\ Span(0, 0, i) /\ Span(z, i, j) /\ Span(0, j, k) /\ Span(u, k, n)
        /\ got = Units(0, 0, i) /\ out = Units(z, i, j)
        /\ in = Units(0, j, k) /\ unread = Units(u, k, n)
  BY DEF Flows
<1>2. m \in 0..Len(Units(z, i, j)) /\ Len(out) = z + (j - i)
  BY <1>0, <1>1, SpanIs
<1>3. z \in Nat /\ i \in Nat /\ j \in Nat /\ i <= j /\ m \in Nat
  BY <1>1, <1>2, SpanIs DEF Span
<1>4. CASE m <= z
  <2>1. /\ s = Units(m, i, i) /\ Span(m, i, i)
        /\ Drop(out, m) = Units(z - m, i, j) /\ Span(z - m, i, j)
    <3>1. /\ SubSeq(Units(z, i, j), 1, m) = Units(m, i, i) /\ Span(m, i, i)
          /\ Drop(Units(z, i, j), m) = Units(z - m, i, j) /\ Span(z - m, i, j)
      BY <1>1, <1>2, <1>4, SpanCutMessages
    <3>2. QED
      BY <1>0, <1>1, <3>1
  <2>2. Payload(s) = Units(0, i, i) /\ Span(0, i, i)
    BY <2>1, SpanPayload
  <2>3. Len(s) = m + (i - i) /\ Len(Payload(s)) = 0 + (i - i)
    BY <2>1, <2>2, SpanIs
  <2>4. got \o Payload(s) = Units(0, 0, i)
    BY <1>1, <2>2, SpanJoin
  <2>5. t = m
    BY <1>0, <1>3, <2>3
  <2>6. t \in 0..z
    BY <1>3, <1>4, <2>5
  <2>7. Flows(got \o Payload(s), Drop(out, m), in, unread, n, z - m, u)
    BY <1>1, <2>1, <2>4 DEF Flows
  <2>8. m \in 0..z /\ z - t = z - m
    BY <1>3, <1>4, <2>5
  <2>9. QED
    BY <2>5, <2>7, <2>8 DEF Joined
<1>5. CASE m > z
  <2> DEFINE e == i + (m - z)
  <2>0. m >= z
    BY <1>3, <1>5
  <2>1. /\ s = Units(z, i, e) /\ Span(z, i, e)
        /\ Drop(out, m) = Units(0, e, j) /\ Span(0, e, j)
    <3>1. /\ SubSeq(Units(z, i, j), 1, m) = Units(z, i, e) /\ Span(z, i, e)
          /\ Drop(Units(z, i, j), m) = Units(0, e, j) /\ Span(0, e, j)
      BY <1>1, <1>2, <2>0, SpanCutBytes
    <3>2. QED
      BY <1>0, <1>1, <3>1
  <2>2. e \in Nat
    BY <1>3, <2>0
  <2> HIDE DEF e
  <2>3. Payload(s) = Units(0, i, e) /\ Span(0, i, e)
    <3>1. Payload(Units(z, i, e)) = Units(0, i, e) /\ Span(0, i, e)
      BY <2>1, SpanPayload
    <3>2. QED
      BY <2>1, <3>1
  <2>4. Len(s) = z + (e - i) /\ Len(Payload(s)) = 0 + (e - i)
    BY <2>1, <2>3, SpanIs
  <2>5. got \o Payload(s) = Units(0, 0, e) /\ Span(0, 0, e)
    <3>1. Units(0, 0, i) \o Units(0, i, e) = Units(0, 0, e) /\ Span(0, 0, e)
      BY <1>1, <2>3, SpanJoin, ZenonT(30)
    <3>2. QED
      BY <1>1, <2>3, <3>1
  <2>6. t = z
    BY <1>0, <1>3, <2>2, <2>4
  <2>7. t \in 0..z /\ z - t = 0
    BY <1>3, <2>6
  <2>8. Flows(got \o Payload(s), Drop(out, m), in, unread, n, 0, u)
    BY <1>1, <2>1, <2>5 DEF Flows
  <2>9. Len(out) = z => t = m
    <3>1. m <= Len(out) /\ Len(out) \in Nat
      BY <1>0, <1>1, <1>2, SpanIs
    <3>2. QED
      BY <1>3, <1>5, <3>1
  <2>10. QED
    BY <2>7, <2>8, <2>9 DEF Joined
<1>6. QED
  BY <1>3, <1>4, <1>5

(* Another message is asked to be written while there are no bytes.        *)
LEMMA FlowsAsk ==
  ASSUME NEW got, NEW out, NEW in, NEW unread, NEW n, NEW z, NEW u,
         Flows(got, out, in, unread, n, z, u), Len(out) = z
  PROVE  /\ Flows(got, Joined(out, <<0>>), in, unread, n, z + 1, u)
         /\ Len(Joined(out, <<0>>)) = z + 1
<1>1. PICK i, j, k :
        /\ Span(0, 0, i) /\ Span(z, i, j) /\ Span(0, j, k) /\ Span(u, k, n)
        /\ got = Units(0, 0, i) /\ out = Units(z, i, j)
        /\ in = Units(0, j, k) /\ unread = Units(u, k, n)
  BY DEF Flows
<1>2. z \in Nat /\ i \in Nat /\ j \in Nat /\ i <= j
  BY <1>1 DEF Span
<1>3. Len(out) = z + (j - i)
  BY <1>1, SpanIs
<1>4. i = j
  BY <1>2, <1>3
<1>5. <<0>> = Units(1, i, i)
  BY <1>2, OneMessage, ZenonT(30)
<1>6. Span(z, i, i) /\ Span(1, i, i)
  BY <1>2 DEF Span
<1>7. out \o <<0>> = Units(z + 1, i, i) /\ Span(z + 1, i, i)
  BY <1>1, <1>4, <1>5, <1>6, SpanMore
<1>8. Len(Units(z + 1, i, i)) = (z + 1) + (i - i)
  BY <1>7, SpanIs
<1>9. Len(out \o <<0>>) = z + 1
  BY <1>2, <1>7, <1>8
<1>10. QED
  BY <1>1, <1>4, <1>7, <1>9 DEF Flows, Joined

(* A peer sends a byte.                                                    *)
LEMMA FlowsSend ==
  ASSUME NEW got, NEW out, NEW in, NEW unread, NEW n, NEW z, NEW u,
         Flows(got, out, in, unread, n, z, u)
  PROVE  Flows(got, out, in, Joined(unread, <<n + 1>>), n + 1, z, u)
<1>1. PICK i, j, k :
        /\ Span(0, 0, i) /\ Span(z, i, j) /\ Span(0, j, k) /\ Span(u, k, n)
        /\ got = Units(0, 0, i) /\ out = Units(z, i, j)
        /\ in = Units(0, j, k) /\ unread = Units(u, k, n)
  BY DEF Flows
<1>2. n \in Nat
  BY <1>1 DEF Span
<1>3. <<n + 1>> = Units(0, n, n + 1)
  BY <1>2, OneByte, ZenonT(30)
<1>4. Span(0, n, n + 1)
  BY <1>2 DEF Span
<1>5. unread \o <<n + 1>> = Units(u, k, n + 1) /\ Span(u, k, n + 1)
  <2>1. Units(u, k, n) \o Units(0, n, n + 1) = Units(u, k, n + 1) /\ Span(u, k, n + 1)
    BY <1>1, <1>4, SpanJoin, ZenonT(30)
  <2>2. QED
    BY <1>1, <1>3, <2>1
<1>6. QED
  BY <1>1, <1>5 DEF Flows, Joined

(* A server answers in m parts before it sends a byte.                     *)
InParts(parts, m) ==
  \/ m = 1 /\ parts = <<0>>
  \/ m = 2 /\ parts = <<0, 0>>
  \/ m = 3 /\ parts = <<0, 0, 0>>

LEMMA FlowsAnswer ==
  ASSUME NEW got, NEW out, NEW in, NEW unread, NEW z, NEW u, NEW m, NEW parts,
         Flows(got, out, in, unread, 0, z, u), InParts(parts, m)
  PROVE  Flows(got, out, in, Joined(unread, parts), 0, z, u + m)
<1>1. PICK i, j, k :
        /\ Span(0, 0, i) /\ Span(z, i, j) /\ Span(0, j, k) /\ Span(u, k, 0)
        /\ got = Units(0, 0, i) /\ out = Units(z, i, j)
        /\ in = Units(0, j, k) /\ unread = Units(u, k, 0)
  BY DEF Flows
<1>2. k = 0
  BY <1>1 DEF Span
<1>3. parts = Units(m, 0, 0) /\ Span(m, 0, 0)
  <2>1. <<0>> = Units(1, 0, 0) /\ <<0, 0>> = Units(2, 0, 0) /\ <<0, 0, 0>> = Units(3, 0, 0)
    BY OneMessage
  <2>2. QED
    BY <2>1 DEF Span, InParts
<1>4. unread \o parts = Units(u + m, 0, 0) /\ Span(u + m, 0, 0)
  BY <1>1, <1>2, <1>3, SpanMore
<1>5. QED
  BY <1>1, <1>2, <1>4 DEF Flows, Joined

(* When nothing is on the way, everything has arrived.                     *)
LEMMA FlowsEmpty ==
  ASSUME NEW got, NEW n, NEW z, NEW u, Flows(got, <<>>, <<>>, <<>>, n, z, u)
  PROVE  got = Bytes(n)
<1>1. PICK i, j, k :
        /\ Span(0, 0, i) /\ Span(z, i, j) /\ Span(0, j, k) /\ Span(u, k, n)
        /\ got = Units(0, 0, i) /\ <<>> = Units(z, i, j)
        /\ <<>> = Units(0, j, k) /\ <<>> = Units(u, k, n)
  BY DEF Flows
<1>2. /\ z \in Nat /\ u \in Nat /\ i \in Nat /\ j \in Nat /\ k \in Nat /\ n \in Nat
      /\ i <= j /\ j <= k /\ k <= n
  BY <1>1 DEF Span
<1>3. /\ Len(Units(z, i, j)) = z + (j - i) /\ Len(Units(0, j, k)) = 0 + (k - j)
      /\ Len(Units(u, k, n)) = u + (n - k)
  BY <1>1, SpanIs
<1>4. z + (j - i) = 0 /\ 0 + (k - j) = 0 /\ u + (n - k) = 0
  BY <1>1, <1>3
<1>5. i = n
  BY <1>2, <1>4
<1>6. Units(0, 0, i) = Bytes(i)
  <2>1. \A l \in 1..i : ~(l <= 0) /\ 0 + l - 0 = l
    BY <1>2
  <2>2. 0 + (i - 0) = i
    BY <1>2
  <2>3. QED
    BY <2>1, <2>2 DEF Units, Bytes
<1>7. QED
  BY <1>1, <1>5, <1>6

-----------------------------------------------------------------------------
(* What the operations of libevent and redsocks keep and what they change. *)

Event == [read : BOOLEAN, write : BOOLEAN, enabled : BOOLEAN, suspended : BOOLEAN,
          high : {0, 1, HalfBuff}, input : Seq(Nat), output : Seq(Nat),
          shut : SUBSET {"read", "write"}]
Peer == [sent : Nat, unread : Seq(Nat), fin : BOOLEAN, got : Seq(Nat)]
Asks == [password : BOOLEAN, domain : BOOLEAN, told : 0..3, answered : 0..3]
Pair == [Sides -> Event]
Peers == [Sides -> Peer]

SameFlags(b, c) ==
  \A y \in Sides : /\ c[y].read = b[y].read /\ c[y].suspended = b[y].suspended
                   /\ c[y].high = b[y].high /\ c[y].shut = b[y].shut
SameBuffers(b, c) ==
  \A y \in Sides : c[y].input = b[y].input /\ c[y].output = b[y].output

IsStream(s) == s \in Seq(Nat)

LEMMA WriteBufferMakes ==
  ASSUME NEW b, b \in Pair, NEW x \in Sides, NEW units, IsStream(units)
  PROVE  LET c == WriteBuffer(b, x, units) IN
         /\ c \in Pair /\ SameFlags(b, c)
         /\ c[x].output = Joined(b[x].output, units) /\ c[Other(x)].output = b[Other(x)].output
         /\ \A y \in Sides : c[y].input = b[y].input
<1> DEFINE w == b[x].write \/ (b[x].enabled /\ units # <<>>)
           o == b[x].output \o units
           c == [b EXCEPT ![x].output = o, ![x].write = w]
<1>1. w \in BOOLEAN
  OBVIOUS
<1>2. b[x] \in Event
  BY DEF Pair
<1>3. o \in Seq(Nat)
  BY <1>2 DEF Event, IsStream
<1>4. WriteBuffer(b, x, units) = c
  BY DEF WriteBuffer
<1> HIDE DEF w, o
<1>5. c \in Pair /\ c[x].output = o
  BY <1>1, <1>2, <1>3 DEF Pair, Event
<1>6. SameFlags(b, c) /\ \A y \in Sides : c[y].input = b[y].input
  BY <1>2 DEF SameFlags, Pair, Event
<1>7. c[Other(x)].output = b[Other(x)].output
  BY OtherSide DEF Pair
<1> HIDE DEF c
<1>8. QED
  BY <1>4, <1>5, <1>6, <1>7 DEF o, Joined

LEMMA MoveMakes ==
  ASSUME NEW b, b \in Pair, NEW x \in Sides
  PROVE  LET c == Move(b, x) IN
         /\ c \in Pair /\ SameFlags(b, c)
         /\ c[Other(x)].output = b[Other(x)].output \o b[x].input /\ c[x].output = b[x].output
         /\ c[x].input = <<>> /\ c[Other(x)].input = b[Other(x)].input
<1> DEFINE d == WriteBuffer(b, Other(x), b[x].input)
           c == [d EXCEPT ![x].input = <<>>]
<1>1. Other(x) \in Sides /\ Other(x) # x /\ Other(Other(x)) = x
  BY OtherSide
<1>2. IsStream(b[x].input)
  BY DEF Pair, Event, IsStream
<1>3. /\ d \in Pair /\ SameFlags(b, d)
      /\ d[Other(x)].output = b[Other(x)].output \o b[x].input /\ d[x].output = b[x].output
      /\ \A y \in Sides : d[y].input = b[y].input
  <2> DEFINE i == b[x].input
             o == Other(x)
  <2>1. IsStream(i) /\ o \in Sides /\ d = WriteBuffer(b, o, i)
    BY <1>1, <1>2
  <2> HIDE DEF d, i, o
  <2>2. /\ d \in Pair /\ SameFlags(b, d) /\ \A y \in Sides : d[y].input = b[y].input
        /\ d[o].output = Joined(b[o].output, i) /\ d[Other(o)].output = b[Other(o)].output
    BY <2>1, WriteBufferMakes
  <2>3. QED
    BY <1>1, <2>2 DEF i, o, Joined
<1>4. Move(b, x) = c
  BY DEF Move
<1> HIDE DEF d
<1>5. <<>> \in Seq(Nat)
  OBVIOUS
<1>6. c \in Pair /\ c[x].input = <<>>
  BY <1>3, <1>5 DEF Pair, Event
<1>7. SameFlags(d, c)
  BY <1>3 DEF SameFlags, Pair, Event
<1>8. SameFlags(b, c)
  BY <1>3, <1>7 DEF SameFlags
<1>9. \A y \in Sides : c[y].output = d[y].output
  BY <1>3 DEF Pair, Event
<1>10. c[Other(x)].input = b[Other(x)].input
  BY <1>1, <1>3 DEF Pair
<1> HIDE DEF c
<1>11. QED
  BY <1>1, <1>3, <1>4, <1>6, <1>8, <1>9, <1>10

(* Reading is enabled or disabled.                                         *)
Reads(b, x, r) == [b EXCEPT ![x].read = r]

LEMMA ReadsMakes ==
  ASSUME NEW b, b \in Pair, NEW x \in Sides, NEW r, r \in BOOLEAN
  PROVE  LET c == Reads(b, x, r) IN
         /\ c \in Pair /\ SameBuffers(b, c) /\ c[x].read = r /\ c[Other(x)] = b[Other(x)]
         /\ \A y \in Sides : /\ c[y].shut = b[y].shut /\ c[y].suspended = b[y].suspended
                             /\ c[y].high = b[y].high
<1> DEFINE c == Reads(b, x, r)
<1>1. c \in Pair /\ c[x].read = r
  BY DEF Pair, Event, Reads
<1>2. SameBuffers(b, c)
  BY DEF Pair, Event, Reads, SameBuffers
<1>3. \A y \in Sides : /\ c[y].shut = b[y].shut /\ c[y].suspended = b[y].suspended
                       /\ c[y].high = b[y].high
  BY DEF Pair, Event, Reads
<1>4. c[Other(x)] = b[Other(x)]
  BY OtherSide DEF Pair, Reads
<1> HIDE DEF c
<1>5. QED
  BY <1>1, <1>2, <1>3, <1>4 DEF c

LEMMA EnableReadMakes ==
  ASSUME NEW b, b \in Pair, NEW x \in Sides
  PROVE  \E r \in BOOLEAN : EnableRead(b, x) = Reads(b, x, r)
<1>1. CASE b[x].suspended
  <2>1. EnableRead(b, x) = Reads(b, x, FALSE)
    BY <1>1, Zenon DEF EnableRead, Reads
  <2>2. QED
    BY <2>1
<1>2. CASE ~b[x].suspended
  <2>1. EnableRead(b, x) = Reads(b, x, TRUE)
    BY <1>2, Zenon DEF EnableRead, Reads
  <2>2. QED
    BY <2>1
<1>3. QED
  BY <1>1, <1>2

(* One half of a side is shut.                                             *)
LEMMA ShutReadMakes ==
  ASSUME NEW b, b \in Pair, NEW x \in Sides
  PROVE  LET c == ShutRead(b, x) IN
         /\ c \in Pair /\ SameBuffers(b, c) /\ ~c[x].read /\ c[Other(x)] = b[Other(x)]
         /\ c[x].shut = b[x].shut \cup {"read"}
         /\ c[x].suspended = b[x].suspended /\ c[x].high = b[x].high
<1> DEFINE h == b[x].shut \cup {"read"}
           c == [b EXCEPT ![x].read = FALSE, ![x].shut = h]
<1>0. ShutRead(b, x) = c
  BY DEF ShutRead
<1>1. h \in SUBSET {"read", "write"} /\ FALSE \in BOOLEAN
  BY DEF Pair, Event
<1> HIDE DEF h
<1>2. c \in Pair /\ ~c[x].read /\ c[x].shut = h
  BY <1>1 DEF Pair, Event
<1>3. SameBuffers(b, c)
  BY DEF Pair, Event, SameBuffers
<1>4. c[x].suspended = b[x].suspended /\ c[x].high = b[x].high
  BY DEF Pair, Event
<1>5. c[Other(x)] = b[Other(x)]
  BY OtherSide DEF Pair
<1> HIDE DEF c
<1>6. QED
  BY <1>0, <1>2, <1>3, <1>4, <1>5 DEF h

LEMMA ShutWriteMakes ==
  ASSUME NEW b, b \in Pair, NEW x \in Sides
  PROVE  LET c == ShutWrite(b, x) IN
         /\ c \in Pair /\ SameBuffers(b, c) /\ c[x].read = b[x].read /\ c[Other(x)] = b[Other(x)]
         /\ c[x].shut = b[x].shut \cup {"write"}
         /\ c[x].suspended = b[x].suspended /\ c[x].high = b[x].high
<1> DEFINE h == b[x].shut \cup {"write"}
           c == [b EXCEPT ![x].write = FALSE, ![x].enabled = FALSE, ![x].shut = h]
<1>0. ShutWrite(b, x) = c
  BY DEF ShutWrite
<1>1. h \in SUBSET {"read", "write"} /\ FALSE \in BOOLEAN
  BY DEF Pair, Event
<1> HIDE DEF h
<1>2. c \in Pair /\ c[x].shut = h
  BY <1>1 DEF Pair, Event
<1>3. SameBuffers(b, c)
  BY DEF Pair, Event, SameBuffers
<1>4. c[x].suspended = b[x].suspended /\ c[x].high = b[x].high /\ c[x].read = b[x].read
  BY DEF Pair, Event
<1>5. c[Other(x)] = b[Other(x)]
  BY OtherSide DEF Pair
<1> HIDE DEF c
<1>6. QED
  BY <1>0, <1>2, <1>3, <1>4, <1>5 DEF h

LEMMA StartRelayMakes ==
  ASSUME NEW b, b \in Pair
  PROVE  LET c == StartRelay(b) IN
         /\ c \in Pair /\ SameBuffers(b, c)
         /\ \A y \in Sides : c[y].shut = b[y].shut /\ c[y].suspended = b[y].suspended
<1> DEFINE e(y) == EnableRead(b, y)[y]
           r(y) == [e(y) EXCEPT !.high = HalfBuff, !.write = TRUE, !.enabled = TRUE]
           c == [y \in Sides |-> r(y)]
<1>0. StartRelay(b) = c
  BY DEF StartRelay
<1>1. ASSUME NEW y \in Sides
      PROVE  /\ r(y) \in Event /\ r(y).input = b[y].input /\ r(y).output = b[y].output
             /\ r(y).shut = b[y].shut /\ r(y).suspended = b[y].suspended
  <2> DEFINE d == EnableRead(b, y)
  <2>0. PICK k \in BOOLEAN : d = Reads(b, y, k)
    BY EnableReadMakes
  <2>1. /\ d \in Pair /\ SameBuffers(b, d)
        /\ d[y].shut = b[y].shut /\ d[y].suspended = b[y].suspended
    <3> HIDE DEF d
    <3>1. QED
      BY <2>0, ReadsMakes
  <2> HIDE DEF d
  <2>2. d[y] \in Event
    BY <2>1 DEF Pair
  <2> DEFINE f == [d[y] EXCEPT !.high = HalfBuff, !.write = TRUE, !.enabled = TRUE]
  <2>3. f \in Event
    BY <2>2 DEF Event
  <2>4. /\ f.input = d[y].input /\ f.output = d[y].output
        /\ f.shut = d[y].shut /\ f.suspended = d[y].suspended
    BY <2>2 DEF Event
  <2>5. r(y) = f
    BY DEF d
  <2> HIDE DEF f, r
  <2>6. QED
    BY <2>1, <2>3, <2>4, <2>5 DEF SameBuffers
<1> HIDE DEF r
<1>2. /\ c \in Pair /\ SameBuffers(b, c)
      /\ \A y \in Sides : c[y].shut = b[y].shut /\ c[y].suspended = b[y].suspended
  BY <1>1 DEF Pair, SameBuffers
<1>3. QED
  BY <1>0, <1>2

-----------------------------------------------------------------------------
(* The messages that were asked for and the parts of answers that were     *)
(* taken when redsocks is in a state, and the parts that were given.       *)
Handshake == {"method_sent", "auth_sent", "request_sent", "skip_domain", "skip_address"}
States == {"connecting", "method_sent", "auth_sent", "request_sent", "skip_domain",
           "skip_address", "relaying", "done", "failed"}
MessagesOf(s) == IF s.password THEN 3 ELSE 2
Parts(s) == MessagesOf(s) + (IF s.domain THEN 2 ELSE 1)
Asked(s, st) ==
  CASE st = "connecting" -> 0 [] st = "method_sent" -> 1 [] st = "auth_sent" -> 2
    [] OTHER -> MessagesOf(s)
Taken(s, st) ==
  CASE st \in {"connecting", "method_sent"} -> 0 [] st = "auth_sent" -> 1
    [] st = "request_sent" -> MessagesOf(s) - 1 [] st = "skip_domain" -> MessagesOf(s)
    [] st = "skip_address" -> Parts(s) - 1 [] OTHER -> Parts(s)
Given(s) == IF s.answered < MessagesOf(s) THEN s.answered ELSE Parts(s)

(* What x sends.                                                           *)
Line(x, b, p, z, u) ==
  Flows(p[Other(x)].got, b[Other(x)].output, b[x].input, p[x].unread, p[x].sent, z, u)

(* The server is told z messages at last, and u parts are to be taken.     *)
TwoLines(b, p, z, u) == Line("client", b, p, z, 0) /\ Line("relay", b, p, 0, u)

(* Behind messages there are no bytes until redsocks relays.               *)
OnlyMessages(b, z) == Len(b["relay"].output) = z

Lines(b, p, s, st) ==
  /\ TwoLines(b, p, Asked(s, st) - s.told, Given(s) - Taken(s, st))
  /\ st # "relaying" => OnlyMessages(b, Asked(s, st) - s.told)

(* A server answers what it was told, before it sends anything else.       *)
Answered(s, p, st) ==
  /\ s.answered <= s.told
  /\ s.answered < MessagesOf(s) => p["relay"].sent = 0
  /\ st = "auth_sent" => s.password
  /\ st = "skip_domain" => s.domain

(* The relay is read only when what was read of it before is gone, and     *)
(* during the handshake by one part of an answer.                          *)
Tended(b, st) ==
  /\ b["relay"].read \/ st # "relaying" => b["relay"].input = <<>>
  /\ st = "connecting" => ~b["relay"].read
  /\ st \in Handshake => b["relay"].high = 1

ReadEnds(b, p) == \A x \in Sides : "read" \in b[x].shut => p[x].fin /\ p[x].unread = <<>>
Whole(x, p, e) == p[x].got = Bytes(p[Other(x)].sent) \/ (x = "relay" /\ e)
WriteEnds(b, p, e) ==
  /\ ~b["relay"].suspended
  /\ \A x \in Sides : "write" \in b[x].shut => p[Other(x)].fin /\ Whole(x, p, e)

Flow(b, p, s, st) ==
  Lines(b, p, s, st) /\ Answered(s, p, st) /\ Tended(b, st) /\ ReadEnds(b, p)

(* What holds of a connection also when it is over.                        *)
Sound(b, p, s, e) ==
  b \in Pair /\ p \in Peers /\ s \in Asks /\ e \in BOOLEAN /\ WriteEnds(b, p, e)

FlowInv ==
  /\ Sound(be, peer, server, early) /\ state \in States
  /\ Live => Flow(be, peer, server, state)

-----------------------------------------------------------------------------
(* The lines when something moves.                                         *)

LEMMA LineMoves ==
  ASSUME NEW b, NEW c, NEW p, NEW x \in Sides, NEW z, NEW u, Line(x, b, p, z, u),
         c[Other(x)].output = Joined(b[Other(x)].output, b[x].input), c[x].input = <<>>
  PROVE  Line(x, c, p, z, u)
BY FlowsMove DEF Line

(* Bytes are read.                                                         *)
LEMMA LineReads ==
  ASSUME NEW b, NEW c, NEW p, NEW q, NEW x \in Sides, NEW z, Line(x, b, p, z, 0),
         NEW m, m \in 0..Len(p[x].unread),
         c[Other(x)].output = b[Other(x)].output,
         c[x].input = Joined(b[x].input, SubSeq(p[x].unread, 1, m)),
         q[Other(x)].got = p[Other(x)].got, q[x].sent = p[x].sent,
         q[x].unread = Drop(p[x].unread, m)
  PROVE  Line(x, c, q, z, 0)
BY FlowsRead DEF Line

(* A part of an answer is read.                                            *)
LEMMA LineTakes ==
  ASSUME NEW b, NEW c, NEW p, NEW q, NEW x \in Sides, NEW z, NEW u, Line(x, b, p, z, u), u >= 1,
         c[Other(x)].output = b[Other(x)].output, c[x].input = b[x].input,
         q[Other(x)].got = p[Other(x)].got, q[x].sent = p[x].sent,
         q[x].unread = Drop(p[x].unread, 1)
  PROVE  Line(x, c, q, z, u - 1)
BY FlowsTake DEF Line

(* A peer sends a byte.                                                    *)
LEMMA LineSends ==
  ASSUME NEW b, NEW p, NEW q, NEW x \in Sides, NEW z, NEW u, Line(x, b, p, z, u),
         q[Other(x)].got = p[Other(x)].got, q[x].sent = p[x].sent + 1,
         q[x].unread = Joined(p[x].unread, <<p[x].sent + 1>>)
  PROVE  Line(x, b, q, z, u)
BY FlowsSend DEF Line

(* When nothing is on the way, everything has arrived.                     *)
LEMMA LineEmpty ==
  ASSUME NEW b, NEW p, NEW x \in Sides, NEW z, NEW u, Line(x, b, p, z, u),
         b[Other(x)].output = <<>>, b[x].input = <<>>, p[x].unread = <<>>
  PROVE  p[Other(x)].got = Bytes(p[x].sent)
BY FlowsEmpty DEF Line

-----------------------------------------------------------------------------
(* What the invariant keeps through the operations.                        *)

LEMMA TwoSides == "client" \in Sides /\ "relay" \in Sides
                  /\ Other("client") = "relay" /\ Other("relay") = "client"
BY DEF Sides, Other

LEMMA TwoLinesStay ==
  ASSUME NEW b, NEW c, NEW p, NEW z, NEW u, TwoLines(b, p, z, u), SameBuffers(b, c)
  PROVE  TwoLines(c, p, z, u)
BY TwoSides DEF TwoLines, SameBuffers, Line

LEMMA TwoLinesMove ==
  ASSUME NEW b, NEW p, NEW z, NEW u, TwoLines(b, p, z, u), b \in Pair, NEW x \in Sides
  PROVE  TwoLines(Move(b, x), p, z, u)
<1> DEFINE c == Move(b, x)
<1>1. /\ c[Other(x)].output = Joined(b[Other(x)].output, b[x].input)
      /\ c[x].output = b[x].output
      /\ c[x].input = <<>> /\ c[Other(x)].input = b[Other(x)].input
  BY MoveMakes DEF Joined
<1> HIDE DEF c
<1>2. ASSUME NEW v, NEW w, Line(x, b, p, v, w) PROVE Line(x, c, p, v, w)
  BY <1>1, <1>2, LineMoves
<1>3. ASSUME NEW v, NEW w, Line(Other(x), b, p, v, w) PROVE Line(Other(x), c, p, v, w)
  BY <1>1, <1>3, OtherSide DEF Line
<1>4. CASE x = "client"
  BY <1>2, <1>3, <1>4, TwoSides DEF TwoLines, c
<1>5. CASE x = "relay"
  BY <1>2, <1>3, <1>5, TwoSides DEF TwoLines, c
<1>6. QED
  BY <1>4, <1>5 DEF Sides

(* Asked, taken and given are never negative.                              *)
LEMMA Amounts ==
  ASSUME NEW s, s \in Asks, NEW st, st \in States
  PROVE  /\ MessagesOf(s) \in 2..3 /\ Parts(s) \in 3..5 /\ Parts(s) > MessagesOf(s)
         /\ Asked(s, st) \in 0..3 /\ Taken(s, st) \in 0..5 /\ Given(s) \in 0..5
         /\ s.told \in 0..3 /\ s.answered \in 0..3
         /\ (st = "auth_sent" /\ ~s.password) \/ Asked(s, st) <= MessagesOf(s)
<1>1. MessagesOf(s) \in 2..3
  BY DEF MessagesOf
<1>2. Parts(s) = MessagesOf(s) + 1 \/ Parts(s) = MessagesOf(s) + 2
  BY DEF Parts
<1>3. s.told \in 0..3 /\ s.answered \in 0..3
  BY DEF Asks
<1> HIDE DEF MessagesOf, Parts
<1>4. Parts(s) \in 3..5 /\ Parts(s) > MessagesOf(s)
  BY <1>1, <1>2
<1>5. Asked(s, st) \in 0..3
  BY <1>1 DEF Asked
<1>6. Taken(s, st) \in 0..5
  BY <1>1, <1>4 DEF Taken
<1>7. Given(s) \in 0..5
  BY <1>3, <1>4 DEF Given
<1>8. (st = "auth_sent" /\ ~s.password) \/ Asked(s, st) <= MessagesOf(s)
  BY <1>1 DEF Asked, MessagesOf
<1>9. QED
  BY <1>1, <1>3, <1>4, <1>5, <1>6, <1>7, <1>8

(* When redsocks relays, every message was told and every part taken.      *)
LEMMA RelayingLines ==
  ASSUME NEW b, NEW p, NEW s, s \in Asks, Answered(s, p, "relaying")
  PROVE  TwoLines(b, p, Asked(s, "relaying") - s.told, Given(s) - Taken(s, "relaying"))
           <=> TwoLines(b, p, 0, 0) /\ s.told = MessagesOf(s) /\ s.answered = MessagesOf(s)
<1> DEFINE z == Asked(s, "relaying") - s.told
           u == Given(s) - Taken(s, "relaying")
<1>1. /\ MessagesOf(s) \in 2..3 /\ Parts(s) \in 3..5 /\ Parts(s) > MessagesOf(s)
      /\ s.told \in 0..3 /\ s.answered \in 0..3
  <2>1. "relaying" \in States
    BY DEF States
  <2>2. QED
    BY <2>1, Amounts
<1>2. Asked(s, "relaying") = MessagesOf(s) /\ Taken(s, "relaying") = Parts(s)
  BY DEF Asked, Taken
<1>3. s.answered <= s.told
  BY DEF Answered
<1>4. ASSUME TwoLines(b, p, z, u)
      PROVE  z = 0 /\ u = 0 /\ s.told = MessagesOf(s) /\ s.answered = MessagesOf(s)
  <2>1. z \in Nat /\ u \in Nat
    <3> HIDE DEF z, u
    <3>1. QED
      BY <1>4, FlowsTyped DEF TwoLines, Line
  <2>2. s.answered >= MessagesOf(s)
    BY <1>1, <1>2, <2>1 DEF Given
  <2>3. s.told = MessagesOf(s) /\ s.answered = MessagesOf(s)
    BY <1>1, <1>2, <1>3, <2>1, <2>2
  <2>4. QED
    BY <1>1, <1>2, <2>3 DEF Given
<1>5. ASSUME s.told = MessagesOf(s), s.answered = MessagesOf(s)
      PROVE  z = 0 /\ u = 0
  BY <1>1, <1>2, <1>5 DEF Given
<1>6. ASSUME TwoLines(b, p, z, u)
      PROVE  TwoLines(b, p, 0, 0)
  <2>1. z = 0 /\ u = 0
    BY <1>4, <1>6
  <2> HIDE DEF z, u
  <2>2. QED
    BY <1>6, <2>1
<1>7. ASSUME TwoLines(b, p, 0, 0), s.told = MessagesOf(s), s.answered = MessagesOf(s)
      PROVE  TwoLines(b, p, z, u)
  <2>1. z = 0 /\ u = 0
    BY <1>5, <1>7
  <2> HIDE DEF z, u
  <2>2. QED
    BY <1>7, <2>1
<1> HIDE DEF z, u
<1>8. QED
  BY <1>4, <1>6, <1>7 DEF z, u

-----------------------------------------------------------------------------
(* What holds of a connection that redsocks relays, but for what its read  *)
(* callback sets right.                                                    *)
Relays(b, p, s, e) ==
  /\ Sound(b, p, s, e) /\ TwoLines(b, p, 0, 0) /\ ReadEnds(b, p)
  /\ s.told = MessagesOf(s) /\ s.answered = MessagesOf(s)

LEMMA RelaysFlow ==
  ASSUME NEW b, NEW p, NEW s, NEW e, Sound(b, p, s, e)
  PROVE  Flow(b, p, s, "relaying") <=> Relays(b, p, s, e) /\ Tended(b, "relaying")
<1>1. s \in Asks
  BY DEF Sound
<1>2. ASSUME Flow(b, p, s, "relaying")
      PROVE  Relays(b, p, s, e) /\ Tended(b, "relaying")
  <2>1. Answered(s, p, "relaying") /\ Tended(b, "relaying") /\ ReadEnds(b, p)
    BY <1>2 DEF Flow
  <2>2. TwoLines(b, p, Asked(s, "relaying") - s.told, Given(s) - Taken(s, "relaying"))
    BY <1>2 DEF Flow, Lines
  <2>3. QED
    BY <1>1, <2>1, <2>2, RelayingLines DEF Relays
<1>3. ASSUME Relays(b, p, s, e), Tended(b, "relaying")
      PROVE  Flow(b, p, s, "relaying")
  <2>1. Answered(s, p, "relaying")
    <3>1. s.told = MessagesOf(s) /\ s.answered = MessagesOf(s) /\ MessagesOf(s) \in 2..3
      BY <1>3 DEF Relays, MessagesOf
    <3>2. QED
      BY <3>1 DEF Answered
  <2>2. TwoLines(b, p, Asked(s, "relaying") - s.told, Given(s) - Taken(s, "relaying"))
    BY <1>1, <1>3, <2>1, RelayingLines DEF Relays
  <2>3. QED
    BY <1>3, <2>1, <2>2 DEF Flow, Lines, Relays
<1>4. QED
  BY <1>2, <1>3

(* What flags keep.                                                        *)
LEMMA FlagsKeep ==
  ASSUME NEW b, NEW c, SameFlags(b, c), NEW p, NEW e
  PROVE  WriteEnds(b, p, e) => WriteEnds(c, p, e) /\ (ReadEnds(b, p) => ReadEnds(c, p))
BY TwoSides DEF SameFlags, WriteEnds, ReadEnds

LEMMA MoveRelays ==
  ASSUME NEW b, NEW p, NEW s, NEW e, Relays(b, p, s, e), NEW x \in Sides
  PROVE  /\ Relays(Move(b, x), p, s, e)
         /\ x = "relay" \/ Tended(b, "relaying") => Tended(Move(b, x), "relaying")
<1> DEFINE c == Move(b, x)
<1>1. b \in Pair
  BY DEF Relays, Sound
<1>2. /\ c \in Pair /\ SameFlags(b, c)
      /\ c[x].input = <<>> /\ c[Other(x)].input = b[Other(x)].input
  BY <1>1, MoveMakes
<1>3. TwoLines(c, p, 0, 0)
  BY <1>1, TwoLinesMove DEF Relays
<1> HIDE DEF c
<1>4. WriteEnds(b, p, e) /\ ReadEnds(b, p)
  BY DEF Relays, Sound
<1>5. WriteEnds(c, p, e) /\ ReadEnds(c, p)
  BY <1>2, <1>4, FlagsKeep
<1>6. Relays(c, p, s, e)
  BY <1>2, <1>3, <1>5 DEF Relays, Sound
<1>7. x = "relay" \/ Tended(b, "relaying") => Tended(c, "relaying")
  <2>1. x = "relay" \/ c["relay"].input = b["relay"].input
    BY <1>2, TwoSides DEF Sides
  <2>2. c["relay"].read = b["relay"].read
    BY <1>2, TwoSides DEF SameFlags
  <2>3. QED
    BY <1>2, <2>1, <2>2 DEF Tended, Handshake
<1>8. QED
  BY <1>6, <1>7 DEF c

LEMMA ReadsRelays ==
  ASSUME NEW b, NEW p, NEW s, NEW e, Relays(b, p, s, e), NEW x \in Sides, NEW r \in BOOLEAN
  PROVE  /\ Relays(Reads(b, x, r), p, s, e)
         /\ \/ x = "relay" /\ (~r \/ b[x].input = <<>>)
            \/ x = "client" /\ Tended(b, "relaying")
            => Tended(Reads(b, x, r), "relaying")
<1> DEFINE c == Reads(b, x, r)
<1>1. b \in Pair
  BY DEF Relays, Sound
<1>2. /\ c \in Pair /\ SameBuffers(b, c) /\ c[x].read = r /\ c[Other(x)] = b[Other(x)]
      /\ \A y \in Sides : c[y].shut = b[y].shut /\ c[y].suspended = b[y].suspended
  BY <1>1, ReadsMakes
<1> HIDE DEF c
<1>3. TwoLines(c, p, 0, 0)
  BY <1>2, TwoLinesStay DEF Relays
<1>4. WriteEnds(c, p, e) /\ ReadEnds(c, p)
  <2>1. WriteEnds(b, p, e) /\ ReadEnds(b, p)
    BY DEF Relays, Sound
  <2>2. QED
    BY <1>2, <2>1, TwoSides DEF WriteEnds, ReadEnds
<1>5. Relays(c, p, s, e)
  BY <1>2, <1>3, <1>4 DEF Relays, Sound
<1>6. ASSUME x = "relay", ~r \/ b[x].input = <<>>
      PROVE  Tended(c, "relaying")
  <2>1. c["relay"].read = r /\ c["relay"].input = b["relay"].input
    BY <1>2, <1>6, TwoSides DEF SameBuffers
  <2>2. ~c["relay"].read \/ c["relay"].input = <<>>
    BY <1>6, <2>1
  <2>3. QED
    BY <2>2 DEF Tended, Handshake
<1>7. ASSUME x = "client", Tended(b, "relaying")
      PROVE  Tended(c, "relaying")
  BY <1>2, <1>7, TwoSides DEF Tended, Handshake
<1>8. QED
  BY <1>5, <1>6, <1>7 DEF c

(* redsocks_relay_readcb: what cannot be passed on stops the reading.      *)
LEMMA RelayReadRelays ==
  ASSUME NEW b, NEW p, NEW s, NEW e, Relays(b, p, s, e), NEW x \in Sides,
         x = "relay" \/ Tended(b, "relaying")
  PROVE  Relays(RelayRead(b, x), p, s, e) /\ Tended(RelayRead(b, x), "relaying")
<1>1. Relays(Move(b, x), p, s, e) /\ Tended(Move(b, x), "relaying")
  BY MoveRelays
<1>2. Relays(Reads(b, x, FALSE), p, s, e) /\ Tended(Reads(b, x, FALSE), "relaying")
  BY ReadsRelays DEF Sides
<1>3. RelayRead(b, x) = Move(b, x) \/ RelayRead(b, x) = Reads(b, x, FALSE)
  BY DEF RelayRead, Reads
<1>4. QED
  BY <1>1, <1>2, <1>3

(* redsocks_relay_writecb: an end is passed on behind what was sent.       *)
LEMMA ShutWriteRelays ==
  ASSUME NEW b, NEW p, NEW s, NEW e, Relays(b, p, s, e), Tended(b, "relaying"), NEW x \in Sides,
         b[x].output = <<>>, b[Other(x)].input = <<>>, "read" \in b[Other(x)].shut
  PROVE  Relays(ShutWrite(b, x), p, s, e) /\ Tended(ShutWrite(b, x), "relaying")
<1> DEFINE c == ShutWrite(b, x)
<1>1. b \in Pair /\ WriteEnds(b, p, e) /\ ReadEnds(b, p) /\ TwoLines(b, p, 0, 0)
  BY DEF Relays, Sound
<1>2. /\ c \in Pair /\ SameBuffers(b, c) /\ c[x].read = b[x].read /\ c[Other(x)] = b[Other(x)]
      /\ c[x].shut = b[x].shut \cup {"write"} /\ c[x].suspended = b[x].suspended
  BY <1>1, ShutWriteMakes
<1> HIDE DEF c
<1>3. Other(x) \in Sides /\ Other(Other(x)) = x /\ Sides = {x, Other(x)}
  BY DEF Other, Sides
<1>4. p[Other(x)].fin /\ p[Other(x)].unread = <<>>
  BY <1>1, <1>3 DEF ReadEnds
<1>5. Line(Other(x), b, p, 0, 0)
  BY <1>1, TwoSides DEF TwoLines, Sides
<1>6. p[x].got = Bytes(p[Other(x)].sent)
  BY <1>3, <1>4, <1>5, LineEmpty
<1>7. WriteEnds(c, p, e)
  <2>1. \A y \in Sides : c[y].suspended = b[y].suspended
    BY <1>2, <1>3
  <2>2. \A y \in Sides : "write" \in c[y].shut => y = x \/ "write" \in b[y].shut
    BY <1>2, <1>3
  <2>3. QED
    BY <1>1, <1>4, <1>6, <2>1, <2>2, TwoSides DEF WriteEnds, Whole
<1>8. ReadEnds(c, p)
  <2>1. \A y \in Sides : "read" \in c[y].shut => "read" \in b[y].shut
    BY <1>2, <1>3
  <2>2. QED
    BY <1>1, <2>1 DEF ReadEnds
<1>9. TwoLines(c, p, 0, 0)
  BY <1>1, <1>2, TwoLinesStay
<1>10. Relays(c, p, s, e)
  BY <1>2, <1>7, <1>8, <1>9 DEF Relays, Sound
<1>11. Tended(c, "relaying")
  <2>1. \A y \in Sides : c[y].read = b[y].read /\ c[y].input = b[y].input
    BY <1>2, <1>3 DEF SameBuffers
  <2>2. QED
    BY <2>1, TwoSides DEF Tended, Handshake
<1>12. QED
  BY <1>10, <1>11 DEF c

LEMMA RelayWriteRelays ==
  ASSUME NEW b, NEW p, NEW s, NEW e, Relays(b, p, s, e), Tended(b, "relaying"), NEW x \in Sides,
         b[x].output = <<>>
  PROVE  Relays(RelayWrite(b, x), p, s, e) /\ Tended(RelayWrite(b, x), "relaying")
<1> DEFINE from == Other(x)
           d == Move(b, from)
<1>0. from \in Sides
  BY OtherSide
<1>1. CASE b[from].input = <<>> /\ "read" \in b[from].shut
  <2>1. RelayWrite(b, x) = ShutWrite(b, x)
    BY <1>1 DEF RelayWrite
  <2>2. QED
    BY <1>1, <2>1, ShutWriteRelays
<1>2. CASE ~(b[from].input = <<>> /\ "read" \in b[from].shut)
  <2>1. RelayWrite(b, x) = EnableRead(d, from) \/ RelayWrite(b, x) = b
    BY <1>2 DEF RelayWrite
  <2>2. b \in Pair
    BY DEF Relays, Sound
  <2>3. d \in Pair /\ d[from].input = <<>>
    BY <1>0, <2>2, MoveMakes
  <2>4. Relays(d, p, s, e) /\ Tended(d, "relaying")
    BY <1>0, MoveRelays
  <2> HIDE DEF d, from
  <2>5. PICK r \in BOOLEAN : EnableRead(d, from) = Reads(d, from, r)
    BY <1>0, <2>3, EnableReadMakes
  <2>6. Relays(Reads(d, from, r), p, s, e) /\ Tended(Reads(d, from, r), "relaying")
    BY <1>0, <2>3, <2>4, ReadsRelays DEF Sides
  <2>7. QED
    BY <2>1, <2>5, <2>6
<1>3. QED
  BY <1>1, <1>2

-----------------------------------------------------------------------------
(* How a step ends.                                                        *)

LEMMA BecomesFlow ==
  ASSUME NEW b, NEW p, NEW s, NEW e, Sound(b, p, s, e), Flow(b, p, s, state), state \in States,
         Becomes(b), peer' = p, server' = s, early' = e
  PROVE  FlowInv'
<1>1. be' = b /\ (state' = state \/ state' = "done")
  BY DEF Becomes
<1>2. state' \in States
  BY <1>1 DEF States
<1>3. Live' => state' = state
  BY <1>1 DEF Live
<1>4. QED
  BY <1>1, <1>2, <1>3 DEF FlowInv

LEMMA DropClientFlow ==
  ASSUME NEW b, NEW p, NEW s, NEW e, Sound(b, p, s, e),
         DropClient(b), peer' = p, server' = s, early' = e
  PROVE  FlowInv'
<1>1. be' = b /\ state' = "failed"
  BY DEF DropClient
<1>2. state' \in States /\ ~Live'
  BY <1>1 DEF States, Live
<1>3. QED
  BY <1>1, <1>2 DEF FlowInv

(* The units of a message, or none.                                        *)
Asking(units, m) == (units = <<0>> /\ m = 1) \/ (units = <<>> /\ m = 0)

LEMMA WriteHelperFlow ==
  ASSUME NEW b, NEW p, NEW s, NEW e, Sound(b, p, s, e), ReadEnds(b, p),
         b["relay"].input = <<>>, NEW z, NEW u, TwoLines(b, p, z, u), OnlyMessages(b, z),
         NEW units, NEW m, Asking(units, m), NEW next, next \in Handshake,
         z + m = Asked(s, next) - s.told, u = Given(s) - Taken(s, next), Answered(s, p, next),
         WriteHelper(b, units, next), peer' = p, server' = s, early' = e
  PROVE  FlowInv'
<1> DEFINE c == WriteBuffer(b, "relay", units)
           d == [c EXCEPT !["relay"].high = 1]
           f == EnableRead(d, "relay")
<1>1. b \in Pair /\ p \in Peers /\ s \in Asks /\ e \in BOOLEAN /\ WriteEnds(b, p, e)
  BY DEF Sound
<1>2. IsStream(units)
  <2>1. <<0>> \in Seq(Nat) /\ <<>> \in Seq(Nat)
    OBVIOUS
  <2>2. units = <<0>> \/ units = <<>>
    BY DEF Asking
  <2>3. QED
    BY <2>1, <2>2 DEF IsStream
<1>3. /\ c \in Pair /\ SameFlags(b, c)
      /\ c["relay"].output = Joined(b["relay"].output, units)
      /\ c["client"].output = b["client"].output
      /\ \A y \in Sides : c[y].input = b[y].input
  BY <1>1, <1>2, TwoSides, WriteBufferMakes
<1>4. TwoLines(c, p, z + m, u) /\ OnlyMessages(c, z + m)
  <2> HIDE DEF c
  <2>1. CASE units = <<0>> /\ m = 1
    <3>1. Line("client", c, p, z + 1, 0) /\ Len(c["relay"].output) = z + 1
      <4> DEFINE out == b["relay"].output
      <4>1. Flows(p["relay"].got, out, b["client"].input, p["client"].unread, p["client"].sent, z, 0)
        BY TwoSides DEF TwoLines, Line
      <4>2. Len(out) = z
        BY DEF OnlyMessages
      <4>3. c["relay"].output = Joined(out, <<0>>) /\ c["client"].input = b["client"].input
        BY <1>3, <2>1, TwoSides
      <4> HIDE DEF out
      <4>4. /\ Flows(p["relay"].got, Joined(out, <<0>>), b["client"].input,
                     p["client"].unread, p["client"].sent, z + 1, 0)
            /\ Len(Joined(out, <<0>>)) = z + 1
        BY <4>1, <4>2, FlowsAsk
      <4>5. QED
        BY <4>3, <4>4, TwoSides DEF Line
    <3>2. Line("relay", c, p, 0, u)
      BY <1>3, TwoSides DEF TwoLines, Line
    <3>3. QED
      BY <2>1, <3>1, <3>2 DEF TwoLines, OnlyMessages
  <2>2. CASE units = <<>> /\ m = 0
    <3>1. c["relay"].output = b["relay"].output
      <4>1. b["relay"].output \in Seq(Nat)
        BY <1>1, TwoSides DEF Pair, Event
      <4>2. QED
        BY <1>3, <2>2, <4>1 DEF Joined
    <3>2. SameBuffers(b, c)
      BY <1>3, <3>1 DEF SameBuffers, Sides
    <3>3. TwoLines(c, p, z, u) /\ OnlyMessages(c, z)
      BY <3>1, <3>2, TwoLinesStay DEF OnlyMessages
    <3>4. z \in Nat
      BY FlowsTyped DEF TwoLines, Line
    <3>5. z + m = z
      BY <2>2, <3>4
    <3>6. QED
      BY <3>3, <3>5
  <2>3. QED
    BY <2>1, <2>2 DEF Asking
<1> HIDE DEF c
<1>5. /\ d \in Pair /\ SameBuffers(c, d) /\ d["relay"].high = 1
      /\ \A y \in Sides : d[y].shut = c[y].shut /\ d[y].suspended = c[y].suspended
  BY <1>3, TwoSides DEF Pair, Event, SameBuffers
<1> HIDE DEF d
<1>6. PICK r \in BOOLEAN : f = Reads(d, "relay", r)
  BY <1>5, TwoSides, EnableReadMakes
<1>7. /\ f \in Pair /\ SameBuffers(d, f) /\ f["relay"].high = 1
      /\ \A y \in Sides : f[y].shut = d[y].shut /\ f[y].suspended = d[y].suspended
  <2> HIDE DEF f
  <2>1. QED
    BY <1>5, <1>6, TwoSides, ReadsMakes
<1> HIDE DEF f
<1>8. SameBuffers(c, f) /\ \A y \in Sides : f[y].shut = b[y].shut /\ f[y].suspended = b[y].suspended
  BY <1>3, <1>5, <1>7 DEF SameBuffers, SameFlags
<1>9. WriteEnds(f, p, e) /\ ReadEnds(f, p)
  BY <1>1, <1>8, TwoSides DEF WriteEnds, ReadEnds
<1>10. TwoLines(f, p, z + m, u) /\ OnlyMessages(f, z + m)
  <2>1. TwoLines(f, p, z + m, u)
    BY <1>4, <1>8, TwoLinesStay
  <2>2. f["relay"].output = c["relay"].output
    BY <1>8, TwoSides DEF SameBuffers
  <2>3. QED
    BY <1>4, <2>1, <2>2 DEF OnlyMessages
<1>11. f["relay"].input = <<>>
  BY <1>3, <1>8, TwoSides DEF SameBuffers
<1>12. Tended(f, next)
  BY <1>7, <1>11 DEF Tended, Handshake
<1>13. Flow(f, p, s, next)
  BY <1>9, <1>10, <1>12 DEF Flow, Lines
<1>14. be' = f /\ state' = next
  BY DEF WriteHelper, f, d, c
<1>15. next \in States /\ Sound(f, p, s, e)
  BY <1>1, <1>7, <1>9 DEF Sound, States, Handshake
<1>16. QED
  BY <1>13, <1>14, <1>15 DEF FlowInv

-----------------------------------------------------------------------------
(* The steps of the peers.                                                 *)

LEMMA LiveFlow ==
  ASSUME FlowInv, Live
  PROVE  /\ be \in Pair /\ peer \in Peers /\ server \in Asks /\ early \in BOOLEAN
         /\ state \in States /\ WriteEnds(be, peer, early)
         /\ Lines(be, peer, server, state) /\ Answered(server, peer, state)
         /\ Tended(be, state) /\ ReadEnds(be, peer)
BY DEF FlowInv, Sound, Flow

LEMMA PeerSendsFlow ==
  ASSUME FlowInv, NEW x \in Sides, PeerSends(x)
  PROVE  FlowInv'
<1> DEFINE z == Asked(server, state) - server.told
           u == Given(server) - Taken(server, state)
<1>1. Live /\ ~peer[x].fin /\ MaySend(x) /\ UNCHANGED <<state, be, server, early>>
  BY DEF PeerSends
<1>2. peer' = [peer EXCEPT ![x].sent = @ + 1, ![x].unread = @ \o <<peer[x].sent + 1>>]
  BY DEF PeerSends
<1>3. /\ be \in Pair /\ peer \in Peers /\ server \in Asks /\ early \in BOOLEAN
      /\ state \in States /\ WriteEnds(be, peer, early)
      /\ Lines(be, peer, server, state) /\ Answered(server, peer, state)
      /\ Tended(be, state) /\ ReadEnds(be, peer)
  BY <1>1, LiveFlow
<1>4. /\ peer[x].sent \in Nat /\ peer[x].unread \in Seq(Nat)
  BY <1>3 DEF Peers, Peer
<1>5. /\ peer' \in Peers
      /\ peer'[x].sent = peer[x].sent + 1
      /\ peer'[x].unread = Joined(peer[x].unread, <<peer[x].sent + 1>>)
      /\ peer'[Other(x)] = peer[Other(x)]
      /\ \A y \in Sides : peer'[y].got = peer[y].got /\ peer'[y].fin = peer[y].fin
  <2> DEFINE n == peer[x].sent + 1
             r == peer[x].unread \o <<n>>
             q == [peer EXCEPT ![x].sent = n, ![x].unread = r]
  <2>1. n \in Nat
    BY <1>4
  <2>2. r \in Seq(Nat)
    <3> HIDE DEF n
    <3>1. QED
      BY <1>4, <2>1
  <2>3. peer' = q /\ r = Joined(peer[x].unread, <<peer[x].sent + 1>>)
    BY <1>2 DEF Joined
  <2> HIDE DEF n, r
  <2>4. /\ q \in Peers /\ q[x].sent = n /\ q[x].unread = r
        /\ \A y \in Sides : q[y].got = peer[y].got /\ q[y].fin = peer[y].fin
    BY <1>3, <2>1, <2>2 DEF Peers, Peer
  <2>5. q[Other(x)] = peer[Other(x)]
    BY <1>3, OtherSide DEF Peers
  <2> HIDE DEF q
  <2>6. QED
    BY <2>3, <2>4, <2>5 DEF n
<1>6. ASSUME NEW v, NEW w, Line(x, be, peer, v, w)
      PROVE  Line(x, be, peer', v, w)
  <2>1. peer'[Other(x)].got = peer[Other(x)].got
    BY <1>5
  <2>2. QED
    BY <1>5, <1>6, <2>1, LineSends
<1>7. ASSUME NEW v, NEW w, Line(Other(x), be, peer, v, w)
      PROVE  Line(Other(x), be, peer', v, w)
  BY <1>5, <1>7, OtherSide DEF Line
<1>8. TwoLines(be, peer', z, u)
  <2>1. TwoLines(be, peer, z, u)
    BY <1>3 DEF Lines
  <2> HIDE DEF z, u
  <2>2. CASE x = "client"
    BY <1>6, <1>7, <2>1, <2>2, TwoSides DEF TwoLines
  <2>3. CASE x = "relay"
    BY <1>6, <1>7, <2>1, <2>3, TwoSides DEF TwoLines
  <2>4. QED
    BY <2>2, <2>3 DEF Sides
<1>9. Answered(server, peer', state)
  <2>1. server.answered < MessagesOf(server) => x = "client"
    <3>1. x = "client" \/ server.answered = MessagesOf(server)
      BY <1>1 DEF MaySend, Messages, MessagesOf
    <3>2. MessagesOf(server) \in Nat
      BY DEF MessagesOf
    <3>3. QED
      BY <3>1, <3>2
  <2>2. server.answered < MessagesOf(server) => peer'["relay"].sent = peer["relay"].sent
    BY <1>5, <2>1, TwoSides
  <2>3. QED
    BY <1>3, <2>2 DEF Answered
<1>10. ReadEnds(be, peer')
  <2>1. \A y \in Sides : "read" \in be[y].shut => y = Other(x)
    BY <1>1, <1>3, OtherSide DEF ReadEnds, Other, Sides
  <2>2. QED
    BY <1>3, <1>5, <2>1 DEF ReadEnds
<1>11. WriteEnds(be, peer', early)
  <2>1. \A y \in Sides : "write" \in be[y].shut => y = x
    BY <1>1, <1>3 DEF WriteEnds, Other, Sides
  <2>2. QED
    BY <1>3, <1>5, <2>1 DEF WriteEnds, Whole
<1>12. Flow(be, peer', server, state)
  BY <1>3, <1>8, <1>9, <1>10 DEF Flow, Lines
<1>13. Sound(be, peer', server, early)
  BY <1>3, <1>5, <1>11 DEF Sound
<1>14. QED
  BY <1>1, <1>3, <1>12, <1>13 DEF FlowInv, Live

LEMMA PeerEndsFlow ==
  ASSUME FlowInv, NEW x \in Sides, PeerEnds(x)
  PROVE  FlowInv'
<1> DEFINE z == Asked(server, state) - server.told
           u == Given(server) - Taken(server, state)
<1>1. Live /\ ~peer[x].fin /\ UNCHANGED <<state, be, server, early>>
      /\ peer' = [peer EXCEPT ![x].fin = TRUE]
  BY DEF PeerEnds
<1>3. /\ be \in Pair /\ peer \in Peers /\ server \in Asks /\ early \in BOOLEAN
      /\ state \in States /\ WriteEnds(be, peer, early)
      /\ Lines(be, peer, server, state) /\ Answered(server, peer, state)
      /\ Tended(be, state) /\ ReadEnds(be, peer)
  BY <1>1, LiveFlow
<1>5. /\ peer' \in Peers
      /\ \A y \in Sides : /\ peer'[y].got = peer[y].got /\ peer'[y].sent = peer[y].sent
                          /\ peer'[y].unread = peer[y].unread
                          /\ peer[y].fin => peer'[y].fin
  BY <1>1, <1>3 DEF Peers, Peer
<1>8. TwoLines(be, peer', z, u)
  <2>1. TwoLines(be, peer, z, u)
    BY <1>3 DEF Lines
  <2> HIDE DEF z, u
  <2>2. QED
    BY <1>5, <2>1, TwoSides DEF TwoLines, Line
<1>9. Answered(server, peer', state)
  BY <1>3, <1>5, TwoSides DEF Answered
<1>10. ReadEnds(be, peer')
  BY <1>3, <1>5 DEF ReadEnds
<1>11. WriteEnds(be, peer', early)
  BY <1>3, <1>5, OtherSide DEF WriteEnds, Whole
<1>12. Flow(be, peer', server, state)
  BY <1>3, <1>8, <1>9, <1>10 DEF Flow, Lines
<1>13. Sound(be, peer', server, early)
  BY <1>3, <1>5, <1>11 DEF Sound
<1>14. QED
  BY <1>1, <1>3, <1>12, <1>13 DEF FlowInv, Live

(* The server answers: by one part, or at last by its address.             *)
LEMMA AnswerFlow ==
  ASSUME FlowInv, Answer
  PROVE  FlowInv'
<1> DEFINE z == Asked(server, state) - server.told
           u == Given(server) - Taken(server, state)
           parts == IF server.answered + 1 < Messages THEN <<0>>
                      ELSE IF server.domain THEN <<0, 0, 0>> ELSE <<0, 0>>
           m == Given(server') - Given(server)
<1>1. /\ Live /\ ~peer["relay"].fin /\ server.answered < server.told
      /\ UNCHANGED <<state, be, early>>
      /\ server' = [server EXCEPT !.answered = @ + 1]
      /\ peer' = [peer EXCEPT !["relay"].unread = @ \o parts]
  BY DEF Answer
<1>2. /\ be \in Pair /\ peer \in Peers /\ server \in Asks /\ early \in BOOLEAN
      /\ state \in States /\ WriteEnds(be, peer, early)
      /\ Lines(be, peer, server, state) /\ Answered(server, peer, state)
      /\ Tended(be, state) /\ ReadEnds(be, peer)
  BY <1>1, LiveFlow
<1>3. TwoLines(be, peer, z, u)
  BY <1>2 DEF Lines
<1>4. z \in Nat /\ u \in Nat
  <2> HIDE DEF z, u
  <2>1. QED
    BY <1>3, FlowsTyped DEF TwoLines, Line
<1>5. /\ MessagesOf(server) \in 2..3 /\ Parts(server) \in 3..5
      /\ Asked(server, state) \in 0..3 /\ Taken(server, state) \in 0..5 /\ Given(server) \in 0..5
      /\ server.told \in 0..3 /\ server.answered \in 0..3
      /\ Asked(server, state) <= MessagesOf(server)
  BY <1>2, Amounts DEF Answered
<1>6. server.answered + 1 \in 0..3 /\ server.answered < MessagesOf(server)
  BY <1>1, <1>4, <1>5
<1>7. /\ server' \in Asks /\ server'.answered = server.answered + 1
      /\ server'.told = server.told /\ server'.password = server.password
      /\ server'.domain = server.domain
  BY <1>1, <1>2, <1>6 DEF Asks
<1>8. /\ MessagesOf(server') = MessagesOf(server) /\ Parts(server') = Parts(server)
      /\ Messages = MessagesOf(server)
      /\ Asked(server', state) = Asked(server, state) /\ Taken(server', state) = Taken(server, state)
  BY <1>7 DEF MessagesOf, Parts, Asked, Taken, Messages
<1>9. peer["relay"].sent = 0
  BY <1>2, <1>6 DEF Answered
<1>10. InParts(parts, m)
  <2>1. Given(server) = server.answered
    BY <1>6 DEF Given
  <2>2. CASE server.answered + 1 < MessagesOf(server)
    <3>1. Given(server') = server.answered + 1 /\ parts = <<0>>
      BY <1>7, <1>8, <2>2 DEF Given
    <3>2. m = 1
      BY <1>5, <2>1, <3>1
    <3> HIDE DEF m, parts
    <3>3. QED
      BY <3>1, <3>2 DEF InParts
  <2>3. CASE ~(server.answered + 1 < MessagesOf(server))
    <3>1. /\ Given(server') = MessagesOf(server) + (IF server.domain THEN 2 ELSE 1)
          /\ server.answered + 1 = MessagesOf(server)
      BY <1>5, <1>6, <1>7, <1>8, <2>3 DEF Given, Parts
    <3>2. parts = IF server.domain THEN <<0, 0, 0>> ELSE <<0, 0>>
      BY <1>8, <2>3
    <3>3. m = IF server.domain THEN 3 ELSE 2
      BY <1>5, <2>1, <3>1
    <3> HIDE DEF m, parts
    <3>4. QED
      BY <3>2, <3>3 DEF InParts
  <2>4. QED
    BY <2>2, <2>3
<1>11. parts \in Seq(Nat)
  OBVIOUS
<1> HIDE DEF parts
<1>12. /\ peer' \in Peers
       /\ peer'["relay"].unread = Joined(peer["relay"].unread, parts)
       /\ peer'["client"] = peer["client"]
       /\ \A y \in Sides : /\ peer'[y].got = peer[y].got /\ peer'[y].fin = peer[y].fin
                           /\ peer'[y].sent = peer[y].sent
  <2> DEFINE r == peer["relay"].unread \o parts
             q == [peer EXCEPT !["relay"].unread = r]
  <2>1. r \in Seq(Nat)
    BY <1>2, <1>11, TwoSides DEF Peers, Peer
  <2>2. peer' = q /\ r = Joined(peer["relay"].unread, parts)
    BY <1>1 DEF Joined
  <2> HIDE DEF r
  <2>3. /\ q \in Peers /\ q["relay"].unread = r /\ q["client"] = peer["client"]
        /\ \A y \in Sides : /\ q[y].got = peer[y].got /\ q[y].fin = peer[y].fin
                            /\ q[y].sent = peer[y].sent
    BY <1>2, <2>1, TwoSides DEF Peers, Peer
  <2> HIDE DEF q
  <2>4. QED
    BY <2>2, <2>3
<1>13. Line("relay", be, peer', 0, u + m)
  <2>1. Line("relay", be, peer, 0, u)
    BY <1>3 DEF TwoLines
  <2> DEFINE unread == peer["relay"].unread
  <2>2. Flows(peer["client"].got, be["client"].output, be["relay"].input, unread, 0, 0, u)
    BY <1>9, <2>1, TwoSides DEF Line
  <2> HIDE DEF m, u, unread
  <2>3. Flows(peer["client"].got, be["client"].output, be["relay"].input,
              Joined(unread, parts), 0, 0, u + m)
    BY <1>10, <2>2, FlowsAnswer
  <2>4. peer'["client"].got = peer["client"].got /\ peer'["relay"].sent = 0
    BY <1>9, <1>12, TwoSides
  <2>5. QED
    BY <1>12, <2>3, <2>4, TwoSides DEF Line, unread
<1>14. Line("client", be, peer', z, 0)
  <2>1. Line("client", be, peer, z, 0)
    BY <1>3 DEF TwoLines
  <2> HIDE DEF z
  <2>2. QED
    BY <1>12, <2>1, TwoSides DEF Line
<1>15. Lines(be, peer', server', state)
  <2>1. Asked(server', state) - server'.told = z
    BY <1>7, <1>8
  <2>2. Given(server') - Taken(server', state) = u + m
    <3>1. Given(server') \in 0..5
      BY <1>2, <1>7, Amounts
    <3>2. QED
      BY <1>5, <1>8, <3>1
  <2>3. state # "relaying" => OnlyMessages(be, z)
    BY <1>2 DEF Lines
  <2> HIDE DEF z, u, m
  <2>4. QED
    BY <1>13, <1>14, <2>1, <2>2, <2>3 DEF Lines, TwoLines
<1>16. Answered(server', peer', state)
  <2>1. server'.answered <= server'.told
    BY <1>1, <1>5, <1>7
  <2>2. peer'["relay"].sent = 0
    BY <1>9, <1>12, TwoSides
  <2>3. QED
    BY <1>2, <1>7, <1>8, <2>1, <2>2 DEF Answered
<1>17. ReadEnds(be, peer')
  BY <1>1, <1>2, <1>12, TwoSides DEF ReadEnds, Sides
<1>18. WriteEnds(be, peer', early)
  BY <1>2, <1>12, OtherSide DEF WriteEnds, Whole
<1>19. Flow(be, peer', server', state)
  BY <1>2, <1>15, <1>16, <1>17 DEF Flow
<1>20. Sound(be, peer', server', early)
  BY <1>2, <1>7, <1>12, <1>18 DEF Sound
<1>21. QED
  BY <1>1, <1>2, <1>19, <1>20 DEF FlowInv, Live

-----------------------------------------------------------------------------
(* The steps of redsocks.                                                  *)

(* Only the client is ever suspended: the relay is not read while its      *)
(* input has anything.                                                     *)
LEMMA ReadSuspendsFlow ==
  ASSUME FlowInv, NEW x \in Sides, ReadSuspends(x)
  PROVE  FlowInv'
<1> DEFINE z == Asked(server, state) - server.told
           u == Given(server) - Taken(server, state)
           c == [be EXCEPT ![x].read = FALSE, ![x].suspended = TRUE]
<1>1. Live /\ be[x].read /\ Full(x) /\ be' = c /\ UNCHANGED <<state, peer, server, early>>
  BY DEF ReadSuspends, Readable
<1>2. /\ be \in Pair /\ peer \in Peers /\ server \in Asks /\ early \in BOOLEAN
      /\ state \in States /\ WriteEnds(be, peer, early)
      /\ Lines(be, peer, server, state) /\ Answered(server, peer, state)
      /\ Tended(be, state) /\ ReadEnds(be, peer)
  BY <1>1, LiveFlow
<1>3. x = "client"
  <2>1. SUFFICES ASSUME x = "relay" PROVE FALSE
    BY DEF Sides
  <2>2. be[x].input = <<>>
    BY <1>1, <1>2, <2>1 DEF Tended
  <2>3. be[x].high \in Nat
    BY <1>2, SizesAssumption DEF Pair, Event
  <2>4. Len(be[x].input) = 0
    BY <2>2
  <2>5. QED
    BY <1>1, <2>3, <2>4 DEF Full
<1>4. c["relay"] = be["relay"]
  BY <1>2, <1>3, TwoSides DEF Pair
<1>5. c \in Pair /\ SameBuffers(be, c) /\ \A y \in Sides : c[y].shut = be[y].shut
  BY <1>2 DEF Pair, Event, SameBuffers
<1> HIDE DEF c
<1>6. Lines(c, peer, server, state)
  <2>1. TwoLines(c, peer, z, u)
    <3>1. TwoLines(be, peer, z, u)
      BY <1>2 DEF Lines
    <3> HIDE DEF z, u
    <3>2. QED
      BY <1>5, <3>1, TwoLinesStay
  <2>2. QED
    BY <1>2, <1>4, <2>1 DEF Lines, OnlyMessages
<1>7. Tended(c, state)
  BY <1>2, <1>4 DEF Tended
<1>8. ReadEnds(c, peer) /\ WriteEnds(c, peer, early)
  BY <1>2, <1>4, <1>5 DEF ReadEnds, WriteEnds
<1>9. Flow(c, peer, server, state) /\ Sound(c, peer, server, early)
  BY <1>2, <1>5, <1>6, <1>7, <1>8 DEF Flow, Sound
<1>10. QED
  BY <1>1, <1>2, <1>9 DEF FlowInv, Live

LEMMA EventErrorFlow ==
  ASSUME FlowInv, NEW x \in Sides, EventError(x)
  PROVE  FlowInv'
<1>1. Live /\ DropClient(be) /\ UNCHANGED <<peer, server, early>>
  BY DEF EventError
<1>2. Sound(be, peer, server, early)
  BY DEF FlowInv
<1>3. QED
  BY <1>1, <1>2, DropClientFlow

(* redsocks_event_error for the end of a stream.                           *)
LEMMA ReadEndFlow ==
  ASSUME FlowInv, NEW x \in Sides, ReadEnd(x)
  PROVE  FlowInv'
<1> DEFINE z == Asked(server, state) - server.told
           u == Given(server) - Taken(server, state)
           o == Other(x)
           c == ShutRead(be, x)
           d == ShutWrite(c, o)
           f == EventEnd(be, x)
           e == early \/ be[x].input # <<>>
<1>1. /\ Live /\ be[x].read /\ peer[x].fin /\ peer[x].unread = <<>>
      /\ Becomes(f) /\ UNCHANGED <<peer, server>> /\ early' = e
  BY DEF ReadEnd, Readable
<1>2. /\ be \in Pair /\ peer \in Peers /\ server \in Asks /\ early \in BOOLEAN
      /\ state \in States /\ WriteEnds(be, peer, early)
      /\ Lines(be, peer, server, state) /\ Answered(server, peer, state)
      /\ Tended(be, state) /\ ReadEnds(be, peer)
  BY <1>1, LiveFlow
<1>3. o \in Sides /\ o # x /\ Other(o) = x /\ Sides = {x, o}
  BY DEF Other, Sides
<1>4. e \in BOOLEAN /\ (early => e)
  BY <1>2
<1> HIDE DEF e
<1>5. /\ c \in Pair /\ SameBuffers(be, c) /\ ~c[x].read /\ c[o] = be[o]
      /\ c[x].shut = be[x].shut \cup {"read"}
      /\ c[x].suspended = be[x].suspended /\ c[x].high = be[x].high
  BY <1>2, ShutReadMakes
<1> HIDE DEF c
<1>6. TwoLines(be, peer, z, u)
  BY <1>2 DEF Lines
<1>7. Flow(c, peer, server, state) /\ Sound(c, peer, server, e)
  <2>1. \A y \in Sides : c[y].suspended = be[y].suspended /\ c[y].high = be[y].high
    BY <1>3, <1>5
  <2>7. \A y \in Sides : ~c[y].read \/ c[y].read = be[y].read
    BY <1>3, <1>5
  <2>8. \A y \in Sides : "read" \in c[y].shut => (y = x \/ "read" \in be[y].shut)
    BY <1>3, <1>5
  <2>9. \A y \in Sides : "write" \in c[y].shut => "write" \in be[y].shut
    BY <1>3, <1>5
  <2>2. Lines(c, peer, server, state)
    <3>1. TwoLines(c, peer, z, u)
      <4> HIDE DEF z, u
      <4>1. QED
        BY <1>5, <1>6, TwoLinesStay
    <3>2. c["relay"].output = be["relay"].output
      BY <1>5, TwoSides DEF SameBuffers
    <3>3. QED
      BY <1>2, <3>1, <3>2 DEF Lines, OnlyMessages
  <2>3. Tended(c, state)
    <3>1. c["relay"].input = be["relay"].input
      BY <1>5, TwoSides DEF SameBuffers
    <3>2. QED
      BY <1>2, <2>1, <2>7, <3>1, TwoSides DEF Tended
  <2>4. ReadEnds(c, peer)
    <3>1. ASSUME NEW y \in Sides, "read" \in c[y].shut
          PROVE  peer[y].fin /\ peer[y].unread = <<>>
      <4>1. CASE y = x
        BY <1>1, <4>1
      <4>2. CASE "read" \in be[y].shut
        BY <1>2, <4>2 DEF ReadEnds
      <4>3. QED
        BY <2>8, <3>1, <4>1, <4>2
    <3>2. QED
      BY <3>1 DEF ReadEnds
  <2>5. WriteEnds(c, peer, e)
    <3>1. ~c["relay"].suspended
      BY <1>2, <2>1, TwoSides DEF WriteEnds
    <3>2. \A y \in Sides : Whole(y, peer, early) => Whole(y, peer, e)
      BY <1>4 DEF Whole
    <3>3. QED
      BY <1>2, <2>9, <3>1, <3>2 DEF WriteEnds
  <2>6. QED
    BY <1>2, <1>4, <1>5, <2>2, <2>3, <2>4, <2>5 DEF Flow, Sound
<1>8. CASE c[o].output # <<>>
  <2>1. f = c
    BY <1>8 DEF EventEnd, c
  <2> HIDE DEF f
  <2>2. Becomes(c)
    BY <1>1, <2>1
  <2>3. QED
    BY <1>1, <1>2, <1>7, <2>2, BecomesFlow
<1>9. CASE c[o].output = <<>>
  <2>1. f = d
    BY <1>9 DEF EventEnd, c
  <2>2. /\ d \in Pair /\ SameBuffers(c, d) /\ d[o].read = c[o].read /\ d[x] = c[x]
        /\ d[o].shut = c[o].shut \cup {"write"}
        /\ d[o].suspended = c[o].suspended /\ d[o].high = c[o].high
    BY <1>3, <1>5, ShutWriteMakes
  <2> HIDE DEF d, f
  <2>3. \A y \in Sides : /\ d[y].suspended = c[y].suspended /\ d[y].high = c[y].high
                         /\ d[y].read = c[y].read /\ d[y].input = c[y].input
                        /\ d[y].output = c[y].output
    BY <1>3, <2>2 DEF SameBuffers
  <2>4. \A y \in Sides : "read" \in d[y].shut => "read" \in c[y].shut
    BY <1>3, <2>2
  <2>14. \A y \in Sides : "write" \in d[y].shut => (y = o \/ "write" \in c[y].shut)
    BY <1>3, <2>2
  <2>5. /\ TwoLines(c, peer, z, u) /\ (state # "relaying" => OnlyMessages(c, z))
        /\ Tended(c, state) /\ ReadEnds(c, peer) /\ WriteEnds(c, peer, e)
    BY <1>7 DEF Flow, Lines, Sound
  <2>6. TwoLines(d, peer, z, u) /\ (state # "relaying" => OnlyMessages(d, z))
    <3> HIDE DEF z, u
    <3>1. TwoLines(d, peer, z, u)
      BY <2>2, <2>5, TwoLinesStay
    <3>2. d["relay"].output = c["relay"].output
      BY <2>3, TwoSides
    <3>3. QED
      BY <2>5, <3>1, <3>2 DEF OnlyMessages
  <2>7. Tended(d, state) /\ ReadEnds(d, peer)
    <3>1. /\ d["relay"].read = c["relay"].read /\ d["relay"].input = c["relay"].input
          /\ d["relay"].high = c["relay"].high
      BY <2>3, TwoSides
    <3>2. Tended(d, state)
      BY <2>5, <3>1 DEF Tended
    <3>3. ReadEnds(d, peer)
      BY <2>4, <2>5, <1>3 DEF ReadEnds
    <3>4. QED
      BY <3>2, <3>3
  <2>8. Whole(o, peer, e)
    <3>1. CASE be[x].input = <<>>
      <4>1. PICK v, w : Line(x, c, peer, v, w)
        <5>1. Line("client", c, peer, z, 0) /\ Line("relay", c, peer, 0, u)
          BY <2>5 DEF TwoLines
        <5> HIDE DEF z, u
        <5>2. QED
          BY <5>1 DEF Sides
      <4>2. c[Other(x)].output = <<>> /\ c[x].input = <<>>
        BY <1>5, <1>9, <3>1 DEF SameBuffers
      <4>3. peer[Other(x)].got = Bytes(peer[x].sent)
        BY <1>1, <4>1, <4>2, LineEmpty
      <4>4. QED
        BY <1>3, <4>3 DEF Whole
    <3>2. CASE be[x].input # <<>>
      <4>1. x # "relay"
        BY <1>1, <1>2, <3>2 DEF Tended
      <4>2. o = "relay"
        BY <4>1 DEF Other, Sides
      <4>3. e
        BY <3>2 DEF e
      <4>4. QED
        BY <4>2, <4>3 DEF Whole
    <3>3. QED
      BY <3>1, <3>2
  <2>9. WriteEnds(d, peer, e)
    <3>1. d["relay"].suspended = c["relay"].suspended
      BY <2>3, TwoSides
    <3>2. ~d["relay"].suspended
      BY <2>5, <3>1 DEF WriteEnds
    <3>3. QED
      BY <1>1, <1>3, <2>5, <2>8, <2>14, <3>2 DEF WriteEnds
  <2>10. Flow(d, peer, server, state)
    BY <1>2, <2>6, <2>7 DEF Flow, Lines
  <2>11. Sound(d, peer, server, e)
    BY <1>2, <1>4, <2>2, <2>9 DEF Sound
  <2>12. Becomes(d)
    BY <1>1, <2>1
  <2>13. QED
    BY <1>1, <1>2, <2>10, <2>11, <2>12, BecomesFlow
<1>10. QED
  BY <1>8, <1>9

LEMMA Sums ==
  /\ \A a, m, k \in Nat : (a - k) + m = (a + m) - k
  /\ \A g, t \in Nat : (g - t) - 1 = g - (t + 1)
OBVIOUS

LEMMA OneIsAsked == Asking(<<0>>, 1) /\ Asking(<<>>, 0)
<1>1. Asking(<<0>>, 1)
  BY Zenon DEF Asking
<1>2. Asking(<<>>, 0)
  BY Zenon DEF Asking
<1>3. QED
  BY <1>1, <1>2

(* A part of an answer is taken off the input, and redsocks goes on.       *)
LEMMA ReadAnswerFlow ==
  ASSUME NEW full, NEW b, b = [full EXCEPT !["relay"].input = <<>>],
         NEW p, NEW z, NEW u, Sound(b, p, server, early), ReadEnds(b, p),
         b["relay"].input = <<>>, TwoLines(b, p, z, u), OnlyMessages(b, z),
         z = Asked(server, state) - server.told, u = Given(server) - Taken(server, state) - 1,
         Answered(server, p, state), state \in Handshake,
         ReadAnswer(full), peer' = p, server' = server, early' = early
  PROVE  FlowInv'
<1> DEFINE c == [full EXCEPT !["relay"].input = <<>>]
<1>1. b \in Pair /\ server \in Asks
  BY DEF Sound
<1>2. c = b
  OBVIOUS
<1>3. ReadAnswer(full) =
        \/ DropClient(c)
        \/ /\ state = "method_sent"
           /\ WriteHelper(c, <<0>>, IF server.password THEN "auth_sent" ELSE "request_sent")
        \/ state = "auth_sent" /\ WriteHelper(c, <<0>>, "request_sent")
        \/ /\ state = "request_sent"
           /\ WriteHelper(c, <<>>, IF server.domain THEN "skip_domain" ELSE "skip_address")
        \/ state = "skip_domain" /\ WriteHelper(c, <<>>, "skip_address")
        \/ state = "skip_address" /\ be' = StartRelay(c) /\ state' = "relaying"
  BY DEF ReadAnswer
<1> HIDE DEF c
<1>4. /\ MessagesOf(server) \in 2..3 /\ Parts(server) \in 3..5
      /\ server.told \in 0..3 /\ server.answered \in 0..3 /\ Given(server) \in 0..5
  BY <1>1, Amounts DEF States
<1>5. /\ MessagesOf(server) = IF server.password THEN 3 ELSE 2
      /\ Parts(server) = MessagesOf(server) + (IF server.domain THEN 2 ELSE 1)
  BY DEF MessagesOf, Parts
<1>6. /\ server.answered <= server.told
      /\ server.answered < MessagesOf(server) => p["relay"].sent = 0
      /\ state = "auth_sent" => server.password
      /\ state = "skip_domain" => server.domain
  BY DEF Answered
<1>7. ASSUME NEW units, NEW m, Asking(units, m), NEW next, next \in Handshake,
             Asked(server, next) = Asked(server, state) + m,
             Taken(server, next) = Taken(server, state) + 1, Answered(server, p, next),
             WriteHelper(b, units, next)
      PROVE  FlowInv'
  <2>1. Asked(server, state) \in Nat /\ Taken(server, state) \in Nat /\ m \in Nat
    <3>1. state \in States
      BY DEF Handshake, States
    <3>2. Asked(server, state) \in 0..3 /\ Taken(server, state) \in 0..5
      BY <1>1, <3>1, Amounts
    <3>3. m \in Nat
      BY <1>7 DEF Asking
    <3>4. QED
      BY <3>2, <3>3
  <2>2. z + m = Asked(server, next) - server.told /\ u = Given(server) - Taken(server, next)
    <3> DEFINE a == Asked(server, state)
               t == Taken(server, state)
               k == server.told
               g == Given(server)
    <3>1. a \in Nat /\ t \in Nat /\ k \in Nat /\ g \in Nat /\ m \in Nat
      BY <1>4, <2>1
    <3>2. z = a - k /\ u = (g - t) - 1
      OBVIOUS
    <3>3. Asked(server, next) = a + m /\ Taken(server, next) = t + 1
      BY <1>7
    <3> HIDE DEF a, t, k, g
    <3>4. z + m = (a + m) - k /\ u = g - (t + 1)
      <4>1. (a - k) + m = (a + m) - k
        BY <3>1, Sums, Zenon
      <4>2. (g - t) - 1 = g - (t + 1)
        BY <3>1, Sums, Zenon
      <4>3. QED
        BY <3>2, <4>1, <4>2
    <3>5. QED
      BY <3>3, <3>4 DEF k, g
  <2>3. QED
    BY <1>7, <2>2, WriteHelperFlow
<1>8. CASE DropClient(b)
  BY <1>8, DropClientFlow
<1>9. CASE state = "method_sent" /\ server.password /\ WriteHelper(b, <<0>>, "auth_sent")
  <2>1. /\ Asked(server, "auth_sent") = Asked(server, state) + 1
        /\ Taken(server, "auth_sent") = Taken(server, state) + 1
    BY <1>9 DEF Asked, Taken
  <2>2. Answered(server, p, "auth_sent") /\ "auth_sent" \in Handshake /\ Asking(<<0>>, 1)
    BY <1>6, <1>9, OneIsAsked DEF Answered, Handshake
  <2>3. QED
    BY <1>7, <1>9, <2>1, <2>2
<1>10. CASE \/ state = "method_sent" /\ ~server.password
            \/ state = "auth_sent"
  <2>1. CASE WriteHelper(b, <<0>>, "request_sent")
    <3>1. /\ Asked(server, "request_sent") = Asked(server, state) + 1
          /\ Taken(server, "request_sent") = Taken(server, state) + 1
      BY <1>5, <1>6, <1>10 DEF Asked, Taken
    <3>2. Answered(server, p, "request_sent") /\ "request_sent" \in Handshake /\ Asking(<<0>>, 1)
      BY <1>6, OneIsAsked DEF Answered, Handshake
    <3>3. QED
      BY <1>7, <2>1, <3>1, <3>2
  <2>2. QED
    BY <1>2, <1>3, <1>8, <1>10, <2>1
<1>11. CASE state = "request_sent" /\ server.domain /\ WriteHelper(b, <<>>, "skip_domain")
  <2>1. /\ Asked(server, "skip_domain") = Asked(server, state) + 0
        /\ Taken(server, "skip_domain") = Taken(server, state) + 1
    BY <1>4, <1>11 DEF Asked, Taken
  <2>2. Answered(server, p, "skip_domain") /\ "skip_domain" \in Handshake /\ Asking(<<>>, 0)
    BY <1>6, <1>11, OneIsAsked DEF Answered, Handshake
  <2>3. QED
    BY <1>7, <1>11, <2>1, <2>2
<1>12. CASE \/ state = "request_sent" /\ ~server.domain
            \/ state = "skip_domain"
  <2>1. ASSUME WriteHelper(b, <<>>, "skip_address") PROVE FlowInv'
    <3>1. /\ Asked(server, "skip_address") = Asked(server, state) + 0
          /\ Taken(server, "skip_address") = Taken(server, state) + 1
      BY <1>4, <1>5, <1>6, <1>12 DEF Asked, Taken
    <3>2. Answered(server, p, "skip_address") /\ "skip_address" \in Handshake /\ Asking(<<>>, 0)
      BY <1>6, OneIsAsked DEF Answered, Handshake
    <3>3. QED
      BY <1>7, <2>1, <3>1, <3>2
  <2>2. QED
    BY <1>2, <1>3, <1>8, <1>12, <2>1
<1>13. CASE state = "skip_address" /\ be' = StartRelay(b) /\ state' = "relaying"
  <2> DEFINE d == StartRelay(b)
  <2>1. /\ d \in Pair /\ SameBuffers(b, d)
        /\ \A y \in Sides : d[y].shut = b[y].shut /\ d[y].suspended = b[y].suspended
    BY <1>1, StartRelayMakes
  <2>2. be' = d
    BY <1>13
  <2> HIDE DEF d
  <2>3. WriteEnds(d, p, early) /\ ReadEnds(d, p)
    BY <2>1, TwoSides DEF WriteEnds, ReadEnds, Sound
  <2>4. TwoLines(d, p, z, u)
    BY <2>1, TwoLinesStay
  <2>5. d["relay"].input = <<>>
    BY <2>1, TwoSides DEF SameBuffers
  <2>6. z = Asked(server, "relaying") - server.told /\ u = Given(server) - Taken(server, "relaying")
    BY <1>4, <1>13 DEF Asked, Taken
  <2>7. Answered(server, p, "relaying") /\ Tended(d, "relaying")
    BY <1>6, <2>5 DEF Answered, Tended, Handshake
  <2>8. Flow(d, p, server, "relaying")
    BY <2>3, <2>4, <2>6, <2>7 DEF Flow, Lines
  <2>9. Sound(d, p, server, early) /\ "relaying" \in States
    BY <2>1, <2>3 DEF Sound, States
  <2>10. QED
    BY <1>13, <2>2, <2>8, <2>9 DEF FlowInv
<1>14. QED
  BY <1>2, <1>3, <1>8, <1>9, <1>10, <1>11, <1>12, <1>13

(* What the state tells of the lines while a side is read.                 *)
LEMMA UnreadParts ==
  ASSUME FlowInv, Live, state \in Handshake, peer["relay"].unread # <<>>
  PROVE  Given(server) - Taken(server, state) >= 1
<1> DEFINE u == Given(server) - Taken(server, state)
<1>1. /\ be \in Pair /\ peer \in Peers /\ server \in Asks /\ state \in States
      /\ Lines(be, peer, server, state) /\ Answered(server, peer, state)
  BY LiveFlow
<1>2. /\ MessagesOf(server) \in 2..3 /\ Parts(server) \in 3..5 /\ Parts(server) > MessagesOf(server)
      /\ server.told \in 0..3 /\ server.answered \in 0..3 /\ Given(server) \in 0..5
  BY <1>1, Amounts
<1>3. Line("relay", be, peer, 0, u)
  BY <1>1 DEF Lines, TwoLines
<1>4. CASE server.answered < MessagesOf(server)
  <2>1. peer["relay"].sent = 0
    BY <1>1, <1>4 DEF Answered
  <2> HIDE DEF u
  <2>2. PICK i, j, k : Span(u, k, 0) /\ peer["relay"].unread = Units(u, k, 0)
    BY <1>3, <2>1, TwoSides DEF Line, Flows
  <2>3. k = 0 /\ u \in Nat
    BY <2>2 DEF Span
  <2>4. Units(0, 0, 0) = <<>>
    BY NoUnits
  <2>5. u # 0
    BY <2>2, <2>3, <2>4
  <2>6. u >= 1
    BY <2>3, <2>5
  <2>7. QED
    BY <2>6 DEF u
<1>5. CASE ~(server.answered < MessagesOf(server))
  <2>1. Given(server) = Parts(server)
    BY <1>5 DEF Given
  <2>2. Taken(server, state) <= Parts(server) - 1 /\ Taken(server, state) \in Nat
    BY <1>2 DEF Taken, Handshake
  <2>3. QED
    BY <1>2, <2>1, <2>2
<1>6. QED
  BY <1>4, <1>5

(* What is left of a stream when n units of it were read.                  *)
Advanced(q, p, x, n) ==
  /\ q \in Peers /\ q[x].unread = Drop(p[x].unread, n) /\ q[Other(x)] = p[Other(x)]
  /\ \A y \in Sides : q[y].got = p[y].got /\ q[y].fin = p[y].fin /\ q[y].sent = p[y].sent

LEMMA Advance ==
  ASSUME NEW p, p \in Peers, NEW x \in Sides, NEW n, n \in 1..Len(p[x].unread)
  PROVE  Advanced([p EXCEPT ![x].unread = Drop(@, n)], p, x, n)
<1> DEFINE r == Drop(p[x].unread, n)
           q == [p EXCEPT ![x].unread = r]
<1>1. p[x].unread \in Seq(Nat) /\ n \in Nat /\ n >= 1 /\ n <= Len(p[x].unread)
  BY DEF Peers, Peer
<1>2. r \in Seq(Nat)
  <2> DEFINE t == p[x].unread
  <2>1. t \in Seq(Nat) /\ n \in Nat /\ n <= Len(t) /\ r = Drop(t, n)
    BY <1>1
  <2> HIDE DEF t, r
  <2>2. QED
    BY <2>1 DEF Drop
<1>3. [p EXCEPT ![x].unread = Drop(@, n)] = q
  OBVIOUS
<1> HIDE DEF r
<1>4. /\ q \in Peers /\ q[x].unread = r
      /\ \A y \in Sides : q[y].got = p[y].got /\ q[y].fin = p[y].fin /\ q[y].sent = p[y].sent
  BY <1>2 DEF Peers, Peer
<1>5. q[Other(x)] = p[Other(x)]
  BY OtherSide DEF Peers
<1> HIDE DEF q
<1>6. QED
  BY <1>3, <1>4, <1>5 DEF Advanced, r

LEMMA AdvancedEnds ==
  ASSUME NEW b, NEW p, NEW q, NEW x \in Sides, NEW n, NEW e, Advanced(q, p, x, n),
         ReadEnds(b, p), WriteEnds(b, p, e), p[x].unread # <<>>
  PROVE  ReadEnds(b, q) /\ WriteEnds(b, q, e)
<1>1. \A y \in Sides : y = x \/ y = Other(x)
  BY DEF Sides, Other
<1>2. "read" \notin b[x].shut
  BY DEF ReadEnds
<1>3. ReadEnds(b, q)
  BY <1>1, <1>2 DEF ReadEnds, Advanced
<1>4. \A y \in Sides : Whole(y, p, e) => Whole(y, q, e)
  BY OtherSide DEF Whole, Advanced
<1>5. WriteEnds(b, q, e)
  BY <1>4, OtherSide DEF WriteEnds, Advanced
<1>6. QED
  BY <1>3, <1>5

(* The input grows by what was read.                                       *)
Filled(c, b, x, units) ==
  /\ c \in Pair /\ SameFlags(b, c) /\ c[x].input = Joined(b[x].input, units)
  /\ c[Other(x)].input = b[Other(x)].input
  /\ \A y \in Sides : c[y].output = b[y].output

LEMMA Fill ==
  ASSUME NEW b, b \in Pair, NEW x \in Sides, NEW units, IsStream(units)
  PROVE  Filled([b EXCEPT ![x].input = @ \o units], b, x, units)
<1> DEFINE i == b[x].input \o units
           c == [b EXCEPT ![x].input = i]
<1>1. i \in Seq(Nat)
  <2>1. b[x].input \in Seq(Nat)
    BY DEF Pair, Event
  <2>2. QED
    BY <2>1 DEF IsStream
<1>2. [b EXCEPT ![x].input = @ \o units] = c
  OBVIOUS
<1> HIDE DEF i
<1>3. c \in Pair /\ c[x].input = i
  BY <1>1 DEF Pair, Event
<1>4. SameFlags(b, c) /\ \A y \in Sides : c[y].output = b[y].output
  BY DEF Pair, Event, SameFlags
<1>5. c[Other(x)].input = b[Other(x)].input
  BY OtherSide DEF Pair
<1> HIDE DEF c
<1>6. QED
  BY <1>2, <1>3, <1>4, <1>5 DEF Filled, Joined, i

(* bufferevent_readcb with something to read.                              *)
LEMMA ReadDataFlow ==
  ASSUME FlowInv, NEW x \in Sides, ReadData(x)
  PROVE  FlowInv'
<1> DEFINE room == IF be[x].high = 0 THEN MaxUp ELSE be[x].high - Len(be[x].input)
           B(k) == [be EXCEPT ![x].input = @ \o SubSeq(peer[x].unread, 1, k)]
           z == Asked(server, state) - server.told
           u == Given(server) - Taken(server, state)
<1>1. /\ Live /\ be[x].read /\ ~Full(x) /\ UNCHANGED <<server, early>>
  BY DEF ReadData, Readable
<1>2. /\ be \in Pair /\ peer \in Peers /\ server \in Asks /\ early \in BOOLEAN
      /\ state \in States /\ WriteEnds(be, peer, early)
      /\ Lines(be, peer, server, state) /\ Answered(server, peer, state)
      /\ Tended(be, state) /\ ReadEnds(be, peer)
  BY <1>1, LiveFlow
<1>3. PICK n \in 1..Lesser(Len(peer[x].unread), room) :
        /\ peer' = [peer EXCEPT ![x].unread = Drop(@, n)]
        /\ CASE state = "relaying" -> Becomes(RelayRead(B(n), x))
             [] state # "relaying" /\ x = "relay" -> ReadAnswer(B(n))
             [] OTHER -> Becomes(B(n))
  BY DEF ReadData
<1> DEFINE b == B(n)
           units == SubSeq(peer[x].unread, 1, n)
<1>4. \/ state = "relaying" /\ Becomes(RelayRead(b, x))
      \/ state # "relaying" /\ x = "relay" /\ ReadAnswer(b)
      \/ state # "relaying" /\ x = "client" /\ Becomes(b)
  BY <1>3 DEF Sides
<1>5. /\ peer[x].unread \in Seq(Nat) /\ be[x].input \in Seq(Nat)
      /\ be[x].high \in Nat /\ MaxUp \in Nat
  BY <1>2, SizesAssumption DEF Peers, Peer, Pair, Event
<1>6. n \in 1..Len(peer[x].unread) /\ n <= room
  <2> DEFINE l == Len(peer[x].unread)
  <2>1. l \in Nat /\ room \in Int
    BY <1>5
  <2>2. n \in 1..Lesser(l, room)
    BY <1>3
  <2> HIDE DEF l, room
  <2>3. n \in 1..l /\ n <= room
    BY <2>1, <2>2 DEF Lesser
  <2>4. QED
    BY <2>3 DEF l
<1>7. units \in Seq(Nat) /\ peer[x].unread # <<>>
  <2>1. n \in Nat /\ 1 <= n /\ n <= Len(peer[x].unread)
    BY <1>5, <1>6
  <2>2. units \in Seq(Nat)
    <3> DEFINE t == peer[x].unread
    <3>1. t \in Seq(Nat) /\ n <= Len(t)
      BY <1>5, <2>1
    <3> HIDE DEF t
    <3>2. SubSeq(t, 1, n) \in Seq(Nat)
      BY <2>1, <3>1
    <3>3. QED
      BY <3>2 DEF t
  <2>3. peer[x].unread # <<>>
    BY <2>1
  <2>4. QED
    BY <2>2, <2>3
<1>8. Filled(b, be, x, units)
  <2>1. IsStream(units)
    BY <1>7 DEF IsStream
  <2>2. b = [be EXCEPT ![x].input = @ \o units]
    OBVIOUS
  <2> HIDE DEF units, b
  <2>3. QED
    BY <1>2, <2>1, <2>2, Fill
<1>9. Advanced(peer', peer, x, n)
  BY <1>2, <1>3, <1>6, Advance
<1> HIDE DEF b
<1>10. ReadEnds(be, peer') /\ WriteEnds(be, peer', early)
  BY <1>2, <1>7, <1>9, AdvancedEnds
<1>11. ReadEnds(b, peer') /\ WriteEnds(b, peer', early)
  BY <1>8, <1>10, FlagsKeep DEF Filled
<1>12. Sound(b, peer', server, early)
  BY <1>2, <1>8, <1>9, <1>11 DEF Sound, Filled, Advanced
<1>13. ASSUME NEW v, Line(x, be, peer, v, 0)
       PROVE  Line(x, b, peer', v, 0)
  <2>1. /\ n \in 0..Len(peer[x].unread)
        /\ b[Other(x)].output = be[Other(x)].output
        /\ b[x].input = Joined(be[x].input, SubSeq(peer[x].unread, 1, n))
        /\ peer'[Other(x)].got = peer[Other(x)].got /\ peer'[x].sent = peer[x].sent
        /\ peer'[x].unread = Drop(peer[x].unread, n)
    BY <1>6, <1>8, <1>9, OtherSide DEF Filled, Advanced
  <2>2. QED
    BY <1>13, <2>1, LineReads
<1>14. ASSUME NEW v, NEW w, Line(Other(x), be, peer, v, w)
       PROVE  Line(Other(x), b, peer', v, w)
  BY <1>8, <1>9, <1>14, OtherSide DEF Filled, Advanced, Line
<1>15. TwoLines(be, peer, z, u) /\ (state # "relaying" => OnlyMessages(be, z))
  BY <1>2 DEF Lines
<1>16. Answered(server, peer', state)
  BY <1>2, <1>9, TwoSides DEF Answered, Advanced
<1>17. CASE state = "relaying" /\ Becomes(RelayRead(b, x))
  <2>1. Relays(be, peer, server, early) /\ Tended(be, "relaying")
    <3>1. Flow(be, peer, server, "relaying") /\ Sound(be, peer, server, early)
      BY <1>2, <1>17 DEF Flow, Sound
    <3>2. QED
      BY <3>1, RelaysFlow
  <2>2. TwoLines(b, peer', 0, 0)
    <3>1. TwoLines(be, peer, 0, 0)
      BY <2>1 DEF Relays
    <3>2. QED
      BY <1>13, <1>14, <3>1, TwoSides DEF TwoLines, Sides
  <2>3. Relays(b, peer', server, early)
    BY <1>11, <1>12, <2>1, <2>2 DEF Relays
  <2>4. x = "relay" \/ Tended(b, "relaying")
    <3>1. ASSUME x = "client"
          PROVE  /\ b["relay"].read = be["relay"].read /\ b["relay"].input = be["relay"].input
      BY <1>8, <3>1, TwoSides DEF Filled, SameFlags
    <3>2. QED
      BY <2>1, <3>1 DEF Tended, Sides, Handshake
  <2> DEFINE c == RelayRead(b, x)
  <2>5. Relays(c, peer', server, early) /\ Tended(c, "relaying")
    BY <2>3, <2>4, RelayReadRelays
  <2> HIDE DEF c
  <2>6. Flow(c, peer', server, state) /\ Sound(c, peer', server, early)
    BY <1>17, <2>5, RelaysFlow DEF Relays
  <2>7. Becomes(c)
    BY <1>17 DEF c
  <2>8. QED
    BY <1>1, <1>2, <2>6, <2>7, BecomesFlow
<1>18. CASE state # "relaying" /\ x = "client" /\ Becomes(b)
  <2>1. TwoLines(b, peer', z, u)
    <3> HIDE DEF z, u
    <3>1. QED
      BY <1>13, <1>14, <1>15, <1>18, TwoSides DEF TwoLines
  <2>2. OnlyMessages(b, z)
    BY <1>8, <1>15, <1>18, TwoSides DEF OnlyMessages, Filled
  <2>3. Tended(b, state)
    <3>1. /\ b["relay"].read = be["relay"].read /\ b["relay"].input = be["relay"].input
          /\ b["relay"].high = be["relay"].high
      BY <1>8, <1>18, TwoSides DEF Filled, SameFlags
    <3>2. QED
      BY <1>2, <3>1 DEF Tended
  <2>4. Flow(b, peer', server, state)
    BY <1>11, <1>16, <2>1, <2>2, <2>3 DEF Flow, Lines
  <2>5. QED
    BY <1>1, <1>2, <1>12, <1>18, <2>4, BecomesFlow
<1>19. CASE state # "relaying" /\ x = "relay" /\ ReadAnswer(b)
  <2> DEFINE c == [b EXCEPT !["relay"].input = <<>>]
  <2>1. state \in Handshake
    BY <1>1, <1>2, <1>19 DEF States, Handshake, Live, Tended
  <2>2. be["relay"].input = <<>> /\ be["relay"].high = 1
    BY <1>2, <1>19, <2>1 DEF Tended
  <2>3. n = 1
    <3>1. room = 1
      BY <1>19, <2>2
    <3>2. QED
      BY <1>5, <1>6, <3>1
  <2>4. u >= 1
    BY <1>1, <1>7, <1>19, <2>1, UnreadParts
  <2>5. /\ c \in Pair /\ c["relay"].input = <<>> /\ SameFlags(be, c)
        /\ c["client"].input = be["client"].input
        /\ \A y \in Sides : c[y].output = be[y].output
    <3>1. b \in Pair /\ <<>> \in Seq(Nat)
      BY <1>8 DEF Filled
    <3>2. c \in Pair /\ c["relay"].input = <<>>
      BY <3>1, TwoSides DEF Pair, Event
    <3>3. SameFlags(b, c) /\ \A y \in Sides : c[y].output = b[y].output
      BY <3>1 DEF Pair, Event, SameFlags
    <3>4. c["client"].input = b["client"].input
      BY <3>1, TwoSides DEF Pair
    <3> HIDE DEF c
    <3>5. SameFlags(be, c)
      BY <1>8, <3>3 DEF Filled, SameFlags
    <3>6. QED
      BY <1>8, <1>19, <3>2, <3>3, <3>4, <3>5, TwoSides DEF Filled
  <2>6. c = [b EXCEPT !["relay"].input = <<>>]
    OBVIOUS
  <2> HIDE DEF c
  <2>7. SameBuffers(be, c)
    BY <2>2, <2>5, TwoSides DEF SameBuffers, Sides
  <2>8. ReadEnds(c, peer') /\ WriteEnds(c, peer', early)
    BY <1>10, <2>5, FlagsKeep
  <2>9. Sound(c, peer', server, early)
    BY <1>2, <1>9, <2>5, <2>8 DEF Sound, Advanced
  <2>10. TwoLines(c, peer', z, u - 1) /\ OnlyMessages(c, z)
    <3>1. TwoLines(be, peer, z, u) /\ OnlyMessages(be, z)
      BY <1>15, <1>19
    <3>2. /\ peer'["relay"].unread = Drop(peer["relay"].unread, 1)
          /\ peer'["client"] = peer["client"]
          /\ peer'["relay"].got = peer["relay"].got /\ peer'["relay"].sent = peer["relay"].sent
      BY <1>9, <1>19, <2>3, TwoSides DEF Advanced
    <3>3. /\ c["client"].output = be["client"].output /\ c["relay"].output = be["relay"].output
          /\ c["client"].input = be["client"].input /\ c["relay"].input = be["relay"].input
      BY <2>7, TwoSides DEF SameBuffers
    <3> HIDE DEF z
    <3>4. Line("client", c, peer', z, 0) /\ OnlyMessages(c, z)
      BY <3>1, <3>2, <3>3, TwoSides DEF TwoLines, Line, OnlyMessages
    <3>5. Line("relay", c, peer', 0, u - 1)
      <4>1. Line("relay", be, peer, 0, u)
        BY <3>1 DEF TwoLines
      <4>2. /\ c[Other("relay")].output = be[Other("relay")].output
            /\ peer'[Other("relay")].got = peer[Other("relay")].got /\ "relay" \in Sides
        BY <3>2, <3>3, TwoSides
      <4> HIDE DEF u
      <4>3. QED
        BY <2>4, <3>2, <3>3, <4>1, <4>2, LineTakes
    <3>6. QED
      BY <3>4, <3>5 DEF TwoLines
  <2> DEFINE w == u - 1
  <2>11. w = Given(server) - Taken(server, state) - 1
    OBVIOUS
  <2>12. TwoLines(c, peer', z, w)
    BY <2>10
  <2>13. z = Asked(server, state) - server.told
    OBVIOUS
  <2> HIDE DEF z, u, w
  <2>14. QED
    BY <1>1, <1>16, <1>19, <2>1, <2>5, <2>6, <2>8, <2>9, <2>10, <2>11, <2>12, <2>13, ReadAnswerFlow
<1>20. QED
  BY <1>4, <1>17, <1>18, <1>19

(* What is left of the output when n units of it were written, and what    *)
(* the peer has got.                                                       *)
Emptied(c, b, x, n) ==
  /\ c \in Pair /\ SameFlags(b, c) /\ c[x].output = Drop(b[x].output, n)
  /\ c[Other(x)].output = b[Other(x)].output
  /\ \A y \in Sides : c[y].input = b[y].input

LEMMA Empty ==
  ASSUME NEW b, b \in Pair, NEW x \in Sides, NEW n, n \in 0..Len(b[x].output),
         NEW w, w \in BOOLEAN
  PROVE  Emptied([b EXCEPT ![x].output = Drop(@, n), ![x].write = w], b, x, n)
<1> DEFINE r == Drop(b[x].output, n)
           c == [b EXCEPT ![x].output = r, ![x].write = w]
<1>1. b[x].output \in Seq(Nat) /\ n \in Nat /\ n <= Len(b[x].output)
  BY DEF Pair, Event
<1>2. r \in Seq(Nat)
  <2> DEFINE t == b[x].output
  <2>1. t \in Seq(Nat) /\ n \in Nat /\ n <= Len(t) /\ r = Drop(t, n)
    BY <1>1
  <2> HIDE DEF t, r
  <2>2. QED
    BY <2>1 DEF Drop
<1>3. [b EXCEPT ![x].output = Drop(@, n), ![x].write = w] = c
  OBVIOUS
<1> HIDE DEF r
<1>4. c \in Pair /\ c[x].output = r
  BY <1>2 DEF Pair, Event
<1>5. SameFlags(b, c) /\ \A y \in Sides : c[y].input = b[y].input
  BY DEF Pair, Event, SameFlags
<1>6. c[Other(x)].output = b[Other(x)].output
  BY OtherSide DEF Pair
<1> HIDE DEF c
<1>7. QED
  BY <1>3, <1>4, <1>5, <1>6 DEF Emptied, r

Received(q, p, x, units) ==
  /\ q \in Peers /\ q[x].got = Joined(p[x].got, units) /\ q[Other(x)] = p[Other(x)]
  /\ \A y \in Sides : q[y].unread = p[y].unread /\ q[y].fin = p[y].fin /\ q[y].sent = p[y].sent

LEMMA Receive ==
  ASSUME NEW p, p \in Peers, NEW x \in Sides, NEW units, IsStream(Joined(p[x].got, units))
  PROVE  Received([p EXCEPT ![x].got = @ \o units], p, x, units)
<1> DEFINE g == p[x].got \o units
           q == [p EXCEPT ![x].got = g]
<1>1. g \in Seq(Nat)
  BY DEF IsStream, Joined
<1>2. [p EXCEPT ![x].got = @ \o units] = q
  OBVIOUS
<1> HIDE DEF g
<1>3. /\ q \in Peers /\ q[x].got = g
      /\ \A y \in Sides : q[y].unread = p[y].unread /\ q[y].fin = p[y].fin /\ q[y].sent = p[y].sent
  BY <1>1 DEF Peers, Peer
<1>4. q[Other(x)] = p[Other(x)]
  BY OtherSide DEF Peers
<1> HIDE DEF q
<1>5. QED
  BY <1>2, <1>3, <1>4 DEF Received, Joined, g

LEMMA FlowsStream ==
  ASSUME NEW got, NEW out, NEW in, NEW unread, NEW n, NEW z, NEW u,
         Flows(got, out, in, unread, n, z, u)
  PROVE  IsStream(got)
<1>1. PICK i : Span(0, 0, i) /\ got = Units(0, 0, i)
  BY DEF Flows
<1>2. QED
  BY <1>1, SpanIs DEF IsStream

(* The lines when n units of the output of x are written, t of them        *)
(* messages: only the server is told any.                                  *)
LEMMA TwoLinesWrite ==
  ASSUME NEW b, NEW c, NEW p, p \in Peers, NEW x \in Sides, NEW z, NEW u, TwoLines(b, p, z, u),
         NEW n, NEW out, NEW t, Written(b[x].output, n, out, t), Emptied(c, b, x, n)
  PROVE  LET q == [p EXCEPT ![x].got = @ \o Payload(out)] IN
         /\ Received(q, p, x, Payload(out)) /\ TwoLines(c, q, z - t, u) /\ t \in 0..z
         /\ x = "client" => t = 0
         /\ OnlyMessages(b, z) => OnlyMessages(c, z - t)
<1> DEFINE q == [p EXCEPT ![x].got = @ \o Payload(out)]
           y == Other(x)
           v == IF x = "relay" THEN z ELSE 0
           w == IF x = "relay" THEN 0 ELSE u
<1>1. y \in Sides /\ Other(y) = x /\ (x = "relay" => y = "client") /\ (x = "client" => y = "relay")
  BY DEF Other, Sides
<1>2. Line(y, b, p, v, w)
  BY <1>1 DEF TwoLines, Sides
<1> HIDE DEF v, w
<1>3. Flows(p[x].got, b[x].output, b[y].input, p[y].unread, p[y].sent, v, w)
  BY <1>1, <1>2 DEF Line
<1>4. /\ t \in 0..v /\ (Len(b[x].output) = v => t = n)
      /\ Flows(Joined(p[x].got, Payload(out)), Drop(b[x].output, n), b[y].input,
               p[y].unread, p[y].sent, v - t, w)
  BY <1>3, FlowsWrite
<1>5. IsStream(Joined(p[x].got, Payload(out)))
  BY <1>4, FlowsStream
<1>6. Received(q, p, x, Payload(out))
  BY <1>5, Receive
<1> HIDE DEF q
<1>7. Line(y, c, q, v - t, w)
  BY <1>1, <1>4, <1>6 DEF Received, Emptied, Line
<1>8. ASSUME NEW k, NEW l, Line(x, b, p, k, l)
      PROVE  Line(x, c, q, k, l)
  BY <1>6, <1>8 DEF Received, Emptied, Line
<1>9. z \in Nat /\ u \in Nat
  BY FlowsTyped DEF TwoLines, Line
<1>10. CASE x = "relay"
  <2>1. v = z /\ w = 0
    BY <1>10 DEF v, w
  <2>2. TwoLines(c, q, z - t, u) /\ t \in 0..z
    BY <1>1, <1>4, <1>7, <1>8, <1>10, <2>1 DEF TwoLines
  <2>3. ASSUME OnlyMessages(b, z) PROVE OnlyMessages(c, z - t)
    <3> DEFINE s == b[x].output
    <3>1. Len(s) = z /\ t = n /\ c["relay"].output = Drop(s, n)
      BY <1>4, <1>10, <2>1, <2>3 DEF OnlyMessages, Emptied
    <3>2. n \in 0..Len(s) /\ s \in Seq(Nat)
      <4>1. PICK i, j : Span(v, i, j) /\ s = Units(v, i, j)
        BY <1>3 DEF Flows
      <4>2. QED
        BY <4>1, SpanIs DEF Written
    <3> HIDE DEF s
    <3>3. Len(Drop(s, n)) = z - n
      BY <1>9, <3>1, <3>2 DEF Drop
    <3>4. QED
      BY <3>1, <3>3 DEF OnlyMessages
  <2>4. QED
    BY <1>6, <1>10, <2>2, <2>3 DEF q
<1>11. CASE x = "client"
  <2>1. v = 0 /\ w = u
    BY <1>11 DEF v, w
  <2>2. t = 0 /\ z - t = z /\ v - t = 0
    <3>1. t \in 0..v
      BY <1>4
    <3>2. t \in 0..0
      BY <2>1, <3>1
    <3>3. t = 0
      BY <3>2
    <3>4. QED
      BY <1>9, <2>1, <3>3
  <2>3. TwoLines(c, q, z, u)
    BY <1>1, <1>7, <1>8, <1>11, <2>1, <2>2 DEF TwoLines
  <2>4. c["relay"].output = b["relay"].output
    BY <1>1, <1>11 DEF Emptied
  <2>5. OnlyMessages(b, z) => OnlyMessages(c, z)
    BY <2>4 DEF OnlyMessages
  <2>6. t \in 0..z
    BY <1>9, <2>2
  <2>7. QED
    BY <1>6, <2>2, <2>3, <2>5, <2>6 DEF q
<1>12. QED
  BY <1>10, <1>11 DEF Sides

(* bufferevent_writecb, until the callback of redsocks: out is written.    *)
LEMMA WrittenFlow ==
  ASSUME FlowInv, Live, NEW x \in Sides, NEW n, NEW out, NEW t, Written(be[x].output, n, out, t),
         NEW b, Emptied(b, be, x, n), ~(out # <<>> /\ "write" \in be[x].shut),
         peer' = [peer EXCEPT ![x].got = @ \o Payload(out)],
         server' = [server EXCEPT !.told = @ + Len(out) - Len(Payload(out))],
         early' = early
  PROVE  Sound(b, peer', server', early) /\ Flow(b, peer', server', state)
<1> DEFINE z == Asked(server, state) - server.told
           u == Given(server) - Taken(server, state)
<1>1. /\ be \in Pair /\ peer \in Peers /\ server \in Asks /\ early \in BOOLEAN
      /\ state \in States /\ WriteEnds(be, peer, early)
      /\ Lines(be, peer, server, state) /\ Answered(server, peer, state)
      /\ Tended(be, state) /\ ReadEnds(be, peer)
  BY LiveFlow
<1>2. TwoLines(be, peer, z, u) /\ (state # "relaying" => OnlyMessages(be, z))
  BY <1>1 DEF Lines
<1>3. /\ Received(peer', peer, x, Payload(out)) /\ TwoLines(b, peer', z - t, u) /\ t \in 0..z
      /\ OnlyMessages(be, z) => OnlyMessages(b, z - t)
  <2> DEFINE q == [peer EXCEPT ![x].got = @ \o Payload(out)]
  <2>1. peer' = q
    OBVIOUS
  <2> HIDE DEF z, u
  <2>2. /\ Received(q, peer, x, Payload(out)) /\ TwoLines(b, q, z - t, u) /\ t \in 0..z
        /\ OnlyMessages(be, z) => OnlyMessages(b, z - t)
    BY <1>1, <1>2, TwoLinesWrite
  <2>3. QED
    BY <2>1, <2>2
<1>4. /\ server.told \in 0..3 /\ server.answered \in 0..3
      /\ Asked(server, state) \in 0..3 /\ MessagesOf(server) \in 2..3
  BY <1>1, Amounts
<1>5. t = Len(out) - Len(Payload(out)) /\ t \in Nat /\ Len(out) \in Nat /\ Len(Payload(out)) \in Nat
  <2>1. t = Len(out) - Len(Payload(out))
    BY DEF Written
  <2>2. z \in Nat
    <3> HIDE DEF z, u
    <3>1. QED
      BY <1>2, FlowsTyped DEF TwoLines, Line
  <2>3. t \in Nat
    BY <1>3, <2>2
  <2>4. PICK v, i, j : Span(v, i, j) /\ be[x].output = Units(v, i, j)
    BY <1>2, TwoSides DEF TwoLines, Line, Flows, Sides
  <2>5. n \in 0..Len(Units(v, i, j)) /\ out = SubSeq(Units(v, i, j), 1, n)
    BY <2>4 DEF Written
  <2>6. v \in Nat /\ n \in Nat
    BY <2>4, <2>5, SpanIs DEF Span
  <2>7. PICK k, e : Span(k, i, e) /\ out = Units(k, i, e)
    <3>1. CASE n <= v
      <4>1. SubSeq(Units(v, i, j), 1, n) = Units(n, i, i) /\ Span(n, i, i)
        BY <2>4, <2>5, <3>1, SpanCutMessages
      <4>2. QED
        BY <2>5, <4>1
    <3>2. CASE n >= v
      BY <2>4, <2>5, <3>2, SpanCutBytes
    <3>3. QED
      BY <2>6, <3>1, <3>2
  <2>8. Payload(out) = Units(0, i, e) /\ Span(0, i, e)
    BY <2>7, SpanPayload
  <2>9. Len(out) \in Nat /\ Len(Payload(out)) \in Nat
    BY <2>7, <2>8, SpanIs
  <2>10. QED
    BY <2>1, <2>3, <2>9
<1>6. /\ server' \in Asks /\ server'.told = server.told + t
      /\ server'.answered = server.answered
      /\ server'.password = server.password /\ server'.domain = server.domain
  <2> DEFINE k == server.told + Len(out) - Len(Payload(out))
  <2>1. k = server.told + t /\ k \in 0..3
    <3>1. t <= Asked(server, state) - server.told
      BY <1>3
    <3>2. k = server.told + t
      BY <1>4, <1>5
    <3> HIDE DEF k
    <3>3. QED
      BY <1>4, <1>5, <3>1, <3>2
  <2>2. server' = [server EXCEPT !.told = k]
    OBVIOUS
  <2> HIDE DEF k
  <2>3. QED
    BY <1>1, <2>1, <2>2 DEF Asks
<1>7. /\ MessagesOf(server') = MessagesOf(server) /\ Parts(server') = Parts(server)
      /\ Asked(server', state) = Asked(server, state) /\ Taken(server', state) = Taken(server, state)
      /\ Given(server') = Given(server)
  BY <1>6 DEF MessagesOf, Parts, Asked, Taken, Given
<1>8. Lines(b, peer', server', state)
  <2>1. Asked(server', state) - server'.told = z - t
    BY <1>4, <1>5, <1>6, <1>7
  <2>2. Given(server') - Taken(server', state) = u
    BY <1>7
  <2> HIDE DEF z, u
  <2>3. QED
    BY <1>2, <1>3, <2>1, <2>2 DEF Lines
<1>9. Answered(server', peer', state)
  <2>1. server'.answered <= server'.told
    BY <1>1, <1>4, <1>5, <1>6 DEF Answered
  <2>2. peer'["relay"].sent = peer["relay"].sent
    BY <1>3, TwoSides DEF Received
  <2>3. QED
    BY <1>1, <1>6, <1>7, <2>1, <2>2 DEF Answered
<1>10. Tended(b, state)
  <2>1. /\ b["relay"].read = be["relay"].read /\ b["relay"].input = be["relay"].input
        /\ b["relay"].high = be["relay"].high
    BY TwoSides DEF Emptied, SameFlags
  <2>2. QED
    BY <1>1, <2>1 DEF Tended
<1>11. ReadEnds(b, peer')
  <2>1. ReadEnds(be, peer')
    BY <1>1, <1>3 DEF ReadEnds, Received
  <2>2. \A y \in Sides : b[y].shut = be[y].shut
    BY DEF Emptied, SameFlags
  <2>3. QED
    BY <2>1, <2>2 DEF ReadEnds
<1>12. WriteEnds(b, peer', early)
  <2>1. ASSUME NEW y \in Sides, "write" \in be[y].shut
        PROVE  peer'[y].got = peer[y].got
    <3>1. CASE y = x
      <4>1. out = <<>>
        BY <2>1, <3>1
      <4>2. Payload(out) = <<>>
        <5>1. <<>> = Units(0, 0, 0) /\ Span(0, 0, 0)
          BY NoUnits
        <5>2. QED
          BY <4>1, <5>1, SpanPayload
      <4>3. peer'[x].got = Joined(peer[x].got, <<>>) /\ peer[x].got \in Seq(Nat)
        BY <1>1, <1>3, <4>2 DEF Received, Peers, Peer
      <4>4. QED
        BY <3>1, <4>3 DEF Joined
    <3>2. CASE y # x
      <4>1. y = Other(x)
        BY <3>2 DEF Other, Sides
      <4>2. QED
        BY <1>3, <4>1 DEF Received
    <3>3. QED
      BY <3>1, <3>2
  <2>2. \A y \in Sides : peer'[y].fin = peer[y].fin /\ peer'[y].sent = peer[y].sent
    BY <1>3 DEF Received
  <2>3. \A y \in Sides : "write" \in be[y].shut => peer[Other(y)].fin /\ Whole(y, peer, early)
    BY <1>1 DEF WriteEnds
  <2>4. ASSUME NEW y \in Sides, "write" \in be[y].shut
        PROVE  peer'[Other(y)].fin /\ Whole(y, peer', early)
    BY <2>1, <2>2, <2>3, <2>4, OtherSide DEF Whole
  <2>5. b["relay"].suspended = be["relay"].suspended
    BY TwoSides DEF Emptied, SameFlags
  <2>6. ~b["relay"].suspended
    BY <1>1, <2>5 DEF WriteEnds
  <2>7. \A y \in Sides : b[y].shut = be[y].shut
    BY DEF Emptied, SameFlags
  <2>8. QED
    BY <2>4, <2>6, <2>7 DEF WriteEnds
<1>13. b \in Pair /\ peer' \in Peers
  BY <1>3 DEF Emptied, Received
<1>14. QED
  BY <1>1, <1>6, <1>8, <1>9, <1>10, <1>11, <1>12, <1>13 DEF Sound, Flow

LEMMA WriteFlow ==
  ASSUME FlowInv, NEW x \in Sides, Write(x)
  PROVE  FlowInv'
<1> DEFINE O(k) == SubSeq(be[x].output, 1, k)
           B(k) == [be EXCEPT ![x].output = Drop(@, k), ![x].write = k < Len(be[x].output)]
<1>1. Live /\ early' = early
  BY DEF Write
<1>2. Sound(be, peer, server, early) /\ be \in Pair /\ state \in States
  BY DEF FlowInv, Sound
<1>3. PICK n \in 0..Len(be[x].output) :
        IF O(n) # <<>> /\ "write" \in be[x].shut
          THEN DropClient(be) /\ UNCHANGED <<peer, server>>
          ELSE /\ peer' = [peer EXCEPT ![x].got = @ \o Payload(O(n))]
               /\ server' = [server EXCEPT !.told = @ + Len(O(n)) - Len(Payload(O(n)))]
               /\ CASE state = "relaying" /\ ~B(n)[x].write -> Becomes(RelayWrite(B(n), x))
                    [] state = "connecting" -> Connected(B(n))
                    [] OTHER -> Becomes(B(n))
  BY DEF Write
<1>4. CASE O(n) # <<>> /\ "write" \in be[x].shut
  <2>1. DropClient(be) /\ UNCHANGED <<peer, server>>
    BY <1>3, <1>4
  <2>2. QED
    BY <1>1, <1>2, <2>1, DropClientFlow
<1>5. CASE ~(O(n) # <<>> /\ "write" \in be[x].shut)
  <2> DEFINE out == O(n)
             b == B(n)
             t == Len(out) - Len(Payload(out))
             w == n < Len(be[x].output)
  <2>1. /\ peer' = [peer EXCEPT ![x].got = @ \o Payload(out)]
        /\ server' = [server EXCEPT !.told = @ + Len(out) - Len(Payload(out))]
        /\ \/ state = "relaying" /\ ~b[x].write /\ Becomes(RelayWrite(b, x))
           \/ state = "connecting" /\ Connected(b)
           \/ Becomes(b)
    BY <1>3, <1>5
  <2>2. Written(be[x].output, n, out, t)
    BY DEF Written
  <2>3. Emptied(b, be, x, n) /\ (~b[x].write => ~w)
    <3>1. w \in BOOLEAN /\ b = [be EXCEPT ![x].output = Drop(@, n), ![x].write = w]
      OBVIOUS
    <3>2. ~b[x].write => ~w
      BY <1>2 DEF Pair, Event
    <3> HIDE DEF w, b
    <3>3. QED
      BY <1>2, <3>1, <3>2, Empty
  <2>4. ~(out # <<>> /\ "write" \in be[x].shut)
    BY <1>5
  <2> HIDE DEF out, b, t
  <2>5. Sound(b, peer', server', early) /\ Flow(b, peer', server', state)
    BY <1>1, <2>1, <2>2, <2>3, <2>4, WrittenFlow
  <2>6. CASE state = "relaying" /\ ~b[x].write /\ Becomes(RelayWrite(b, x))
    <3> DEFINE c == RelayWrite(b, x)
    <3>1. b[x].output = <<>>
      <4> DEFINE s == be[x].output
      <4>1. s \in Seq(Nat) /\ n \in 0..Len(s) /\ ~(n < Len(s)) /\ b[x].output = Drop(s, n)
        BY <1>2, <1>3, <2>3, <2>6 DEF Pair, Event, Emptied
      <4> HIDE DEF s
      <4>2. n = Len(s)
        BY <4>1
      <4>3. QED
        BY <4>1, <4>2 DEF Drop
    <3>2. Relays(b, peer', server', early) /\ Tended(b, "relaying")
      BY <2>5, <2>6, RelaysFlow
    <3>3. Relays(c, peer', server', early) /\ Tended(c, "relaying")
      BY <3>1, <3>2, RelayWriteRelays
    <3> HIDE DEF c
    <3>4. Flow(c, peer', server', state) /\ Sound(c, peer', server', early)
      BY <2>6, <3>3, RelaysFlow DEF Relays
    <3>5. Becomes(c)
      BY <2>6 DEF c
    <3>6. QED
      BY <1>1, <1>2, <3>4, <3>5, BecomesFlow
  <2>7. CASE state = "connecting" /\ Connected(b)
    <3>1. CASE DropClient(b)
      BY <1>1, <2>5, <3>1, DropClientFlow
    <3>2. CASE WriteHelper(b, <<0>>, "method_sent")
      <4> DEFINE z == Asked(server', state) - server'.told
                 u == Given(server') - Taken(server', state)
      <4>1. /\ TwoLines(b, peer', z, u) /\ OnlyMessages(b, z)
            /\ Answered(server', peer', state) /\ Tended(b, state) /\ ReadEnds(b, peer')
        BY <2>5, <2>7 DEF Flow, Lines
      <4>2. z + 1 = Asked(server', "method_sent") - server'.told
        <5>1. server'.told \in 0..3
          BY <2>5 DEF Sound, Asks
        <5>2. Asked(server', state) = 0 /\ Asked(server', "method_sent") = 1
          BY <2>7 DEF Asked
        <5>3. QED
          BY <5>1, <5>2
      <4>3. u = Given(server') - Taken(server', "method_sent")
        BY <2>7 DEF Taken
      <4>4. Answered(server', peer', "method_sent") /\ b["relay"].input = <<>>
        BY <2>7, <4>1 DEF Answered, Tended
      <4>5. "method_sent" \in Handshake
        BY DEF Handshake
      <4> HIDE DEF z, u
      <4>6. QED
        BY <1>1, <2>5, <3>2, <4>1, <4>2, <4>3, <4>4, <4>5, OneIsAsked, WriteHelperFlow
    <3>3. QED
      BY <2>7, <3>1, <3>2 DEF Connected
  <2>8. CASE Becomes(b)
    BY <1>1, <1>2, <2>5, <2>8, BecomesFlow
  <2>9. QED
    BY <2>1, <2>6, <2>7, <2>8
<1>6. QED
  BY <1>4, <1>5

-----------------------------------------------------------------------------
LEMMA InitFlow == Init => FlowInv
<1> SUFFICES ASSUME Init PROVE FlowInv
  OBVIOUS
<1>1. /\ state = "connecting" /\ early = FALSE
      /\ be = [x \in Sides |-> NewEvent(x = "client")]
      /\ peer = [x \in Sides |-> [sent |-> 0, unread |-> <<>>, fin |-> FALSE, got |-> <<>>]]
      /\ server \in [password : BOOLEAN, domain : BOOLEAN, told : {0}, answered : {0}]
  BY DEF Init
<1>2. \A x \in Sides : /\ be[x] \in Event /\ be[x].input = <<>> /\ be[x].output = <<>>
                       /\ be[x].shut = {} /\ ~be[x].suspended
  BY <1>1 DEF NewEvent, Event
<1>3. be \in Pair /\ ~be["relay"].read
  BY <1>1, <1>2, TwoSides DEF Pair, NewEvent
<1>4. peer \in Peers
  BY <1>1 DEF Peers, Peer
<1>5. server \in Asks /\ server.told = 0 /\ server.answered = 0
  BY <1>1 DEF Asks
<1>6. Asked(server, state) - server.told = 0 /\ Given(server) - Taken(server, state) = 0
  <2>1. MessagesOf(server) \in 2..3
    BY DEF MessagesOf
  <2>2. QED
    BY <1>1, <1>5, <2>1 DEF Asked, Given, Taken
<1>7. TwoLines(be, peer, 0, 0) /\ OnlyMessages(be, 0)
  <2>1. \A x \in Sides : Line(x, be, peer, 0, 0)
    BY <1>1, <1>2, FlowsStart, OtherSide DEF Line
  <2>2. Len(be["relay"].output) = 0
    BY <1>2, TwoSides
  <2>3. QED
    BY <2>1, <2>2, TwoSides DEF TwoLines, OnlyMessages
<1>8. Lines(be, peer, server, state)
  BY <1>6, <1>7 DEF Lines
<1>9. Answered(server, peer, state) /\ Tended(be, state) /\ ReadEnds(be, peer)
  <2>1. Answered(server, peer, state)
    BY <1>1, <1>5, TwoSides DEF Answered
  <2>2. Tended(be, state)
    BY <1>1, <1>2, <1>3, TwoSides DEF Tended, Handshake
  <2>3. ReadEnds(be, peer)
    BY <1>2 DEF ReadEnds
  <2>4. QED
    BY <2>1, <2>2, <2>3
<1>10. WriteEnds(be, peer, early)
  BY <1>2, TwoSides DEF WriteEnds
<1>11. early \in BOOLEAN /\ state \in States
  BY <1>1 DEF States
<1>12. QED
  BY <1>3, <1>4, <1>5, <1>8, <1>9, <1>10, <1>11 DEF FlowInv, Sound, Flow

LEMMA NextFlow == FlowInv /\ [Next]_vars => FlowInv'
<1> SUFFICES ASSUME FlowInv, [Next]_vars PROVE FlowInv'
  OBVIOUS
<1>1. ASSUME NEW x \in Sides, Read(x) PROVE FlowInv'
  BY <1>1, ReadSuspendsFlow, ReadDataFlow, ReadEndFlow DEF Read
<1>2. ASSUME NEW x \in Sides, Write(x) PROVE FlowInv'
  BY <1>2, WriteFlow
<1>3. ASSUME NEW x \in Sides, EventError(x) PROVE FlowInv'
  BY <1>3, EventErrorFlow
<1>4. ASSUME NEW x \in Sides, PeerSends(x) PROVE FlowInv'
  BY <1>4, PeerSendsFlow
<1>5. ASSUME NEW x \in Sides, PeerEnds(x) PROVE FlowInv'
  BY <1>5, PeerEndsFlow
<1>6. CASE Answer
  BY <1>6, AnswerFlow
<1>7. CASE UNCHANGED vars
  BY <1>7 DEF FlowInv, Live, vars
<1>8. QED
  BY <1>1, <1>2, <1>3, <1>4, <1>5, <1>6, <1>7 DEF Next

(* A side that is shut for writing has been given everything the other one *)
(* sent, however long ago it sent it: the end of a stream never overtakes  *)
(* the bytes that redsocks_relay_readcb and redsocks_relay_writecb keep in *)
(* its buffers, for any watermark and any number of bytes.                 *)
LEMMA FlowHalfClose == FlowInv /\ IInv => HalfClose
<1> SUFFICES ASSUME FlowInv, IInv PROVE HalfClose
  OBVIOUS
<1>1. /\ be \in Pair /\ peer \in Peers /\ server \in Asks /\ early \in BOOLEAN
      /\ state \in States /\ WriteEnds(be, peer, early)
  BY DEF FlowInv, Sound
<1>2. TypeOK
  BY <1>1 DEF TypeOK, Pair, Event, Peers, Peer, Asks, States
<1>3. Paired
  BY DEF IInv
<1>4. /\ ~be["relay"].suspended
      /\ \A x \in Sides : "write" \in be[x].shut =>
           /\ peer[Other(x)].fin
           /\ peer[x].got = Bytes(peer[Other(x)].sent) \/ (x = "relay" /\ early)
  BY <1>1 DEF WriteEnds, Whole
<1> QED
  BY <1>2, <1>3, <1>4 DEF HalfClose

THEOREM SpecHalfClose == Spec => []HalfClose
<1>1. Init => FlowInv /\ IInv
  BY InitFlow, InitIInv
<1>2. FlowInv /\ IInv /\ [Next]_vars => FlowInv' /\ IInv'
  BY NextFlow, NextIInv
<1> QED
  BY <1>1, <1>2, FlowHalfClose, PTL DEF Spec

-----------------------------------------------------------------------------
(***************************************************************************)
(* Each direction is a pipe: what a peer has got is the first bytes of     *)
(* what the other one has sent, and only grows.                            *)
(***************************************************************************)

(* What is written of an output makes what was got a longer prefix.        *)
LEMMA FlowsArrive ==
  ASSUME NEW got, NEW out, NEW in, NEW unread, NEW n, NEW z, NEW u, NEW m, NEW s, NEW t,
         Flows(got, out, in, unread, n, z, u), Written(out, m, s, t)
  PROVE  \E e \in Len(got)..n : Joined(got, Payload(s)) = Bytes(e)
<1>1. PICK i, j, k :
        /\ Span(0, 0, i) /\ Span(z, i, j) /\ Span(0, j, k) /\ Span(u, k, n)
        /\ got = Units(0, 0, i) /\ out = Units(z, i, j)
  BY DEF Flows
<1>2. /\ z \in Nat /\ i \in Nat /\ j \in Nat /\ k \in Nat /\ n \in Nat
      /\ i <= j /\ j <= k /\ k <= n
  BY <1>1 DEF Span
<1>3. m \in 0..Len(Units(z, i, j))
  BY <1>1 DEF Written
<1>4. s = SubSeq(Units(z, i, j), 1, m)
  BY <1>1 DEF Written
<1>5. m \in Nat /\ m <= z + (j - i)
  <2>1. Len(Units(z, i, j)) = z + (j - i)
    BY <1>1, SpanIs
  <2> QED
    BY <1>2, <1>3, <2>1
<1>6. PICK l, e : Span(l, i, e) /\ s = Units(l, i, e) /\ e <= j
  <2>0. Span(z, i, j)
    BY <1>1
  <2>1. CASE m <= z
    <3>1. SubSeq(Units(z, i, j), 1, m) = Units(m, i, i) /\ Span(m, i, i)
      BY <1>3, <2>0, <2>1, SpanCutMessages
    <3> QED
      BY <1>2, <1>4, <3>1
  <2>2. CASE m >= z
    <3> DEFINE c == i + (m - z)
    <3>1. SubSeq(Units(z, i, j), 1, m) = Units(z, i, c) /\ Span(z, i, c)
      BY <1>3, <2>0, <2>2, SpanCutBytes
    <3>2. c <= j
      BY <1>2, <1>5
    <3> HIDE DEF c
    <3> QED
      BY <1>4, <3>1, <3>2
  <2> QED
    BY <1>2, <1>5, <2>1, <2>2
<1>7. e \in Nat /\ i <= e
  BY <1>6 DEF Span
<1>8. Payload(Units(l, i, e)) = Units(0, i, e) /\ Span(0, i, e)
  BY <1>6, SpanPayload
<1>9. Units(0, 0, i) \o Units(0, i, e) = Units(0, 0, e)
  BY <1>1, <1>8, SpanJoin, ZenonT(30)
<1>10. Joined(got, Payload(s)) = Units(0, 0, e)
  BY <1>1, <1>6, <1>8, <1>9 DEF Joined
<1>11. Len(got) = 0 + (i - 0)
  BY <1>1, SpanIs
<1>12. e \in Len(got)..n
  BY <1>2, <1>6, <1>7, <1>11
<1>13. Units(0, 0, e) = Bytes(e)
  <2>1. \A h \in 1..e : ~(h <= 0) /\ 0 + h - 0 = h
    BY <1>7
  <2>2. 0 + (e - 0) = e
    BY <1>7
  <2> QED
    BY <2>1, <2>2 DEF Units, Bytes
<1> QED
  BY <1>10, <1>12, <1>13

(* x sends more, or more of what it sent arrives at the other side.        *)
PipeMoves(x) ==
  \/ peer'[Other(x)].got = peer[Other(x)].got /\ peer'[x].sent >= peer[x].sent
  \/ /\ peer'[x].sent = peer[x].sent
     /\ \E e \in Len(peer[Other(x)].got)..peer[x].sent : peer'[Other(x)].got = Bytes(e)

LEMMA StaysMoves ==
  ASSUME FlowInv, NEW x \in Sides,
         peer'[Other(x)].got = peer[Other(x)].got, peer'[x].sent = peer[x].sent
  PROVE  PipeMoves(x)
<1>1. peer[x].sent \in Nat
  BY DEF FlowInv, Sound, Peers, Peer
<1>2. peer'[x].sent >= peer[x].sent
  BY <1>1
<1> QED
  BY <1>2 DEF PipeMoves

LEMMA ReadDataMoves ==
  ASSUME FlowInv, NEW y \in Sides, ReadData(y), NEW x \in Sides
  PROVE  PipeMoves(x)
<1>1. PICK n : peer' = [peer EXCEPT ![y].unread = Drop(@, n)]
  BY DEF ReadData
<1>2. peer \in [Sides -> Peer]
  BY DEF FlowInv, Sound, Peers
<1>3. \A w \in Sides : peer'[w].got = peer[w].got /\ peer'[w].sent = peer[w].sent
  BY <1>1, <1>2 DEF Peer
<1> QED
  BY <1>3, OtherSide, StaysMoves

LEMMA PeerSendsMoves ==
  ASSUME FlowInv, NEW y \in Sides, PeerSends(y), NEW x \in Sides
  PROVE  PipeMoves(x)
<1>1. peer' = [peer EXCEPT ![y].sent = @ + 1, ![y].unread = @ \o <<peer[y].sent + 1>>]
  BY DEF PeerSends
<1>2. peer \in [Sides -> Peer]
  BY DEF FlowInv, Sound, Peers
<1> DEFINE r == peer[y].unread \o <<peer[y].sent + 1>>
<1>3. peer' = [peer EXCEPT ![y].sent = @ + 1, ![y].unread = r]
  BY <1>1
<1> HIDE DEF r
<1>4. \A w \in Sides : peer'[w].got = peer[w].got
  BY <1>2, <1>3 DEF Peer
<1>5. \A w \in Sides : peer'[w].sent >= peer[w].sent
  <2>1. \A w \in Sides : peer[w].sent \in Nat
    BY <1>2 DEF Peer
  <2>2. \A w \in Sides : peer'[w].sent = IF w = y THEN peer[w].sent + 1 ELSE peer[w].sent
    BY <1>2, <1>3 DEF Peer
  <2> QED
    BY <2>1, <2>2
<1> QED
  BY <1>4, <1>5, OtherSide DEF PipeMoves

LEMMA AnswerMoves ==
  ASSUME FlowInv, Answer, NEW x \in Sides
  PROVE  PipeMoves(x)
<1>1. PICK parts : peer' = [peer EXCEPT !["relay"].unread = @ \o parts]
  BY DEF Answer
<1>2. peer \in [Sides -> Peer]
  BY DEF FlowInv, Sound, Peers
<1> DEFINE r == peer["relay"].unread \o parts
<1>3. peer' = [peer EXCEPT !["relay"].unread = r]
  BY <1>1
<1> HIDE DEF r
<1>4. \A w \in Sides : peer'[w].got = peer[w].got /\ peer'[w].sent = peer[w].sent
  BY <1>2, <1>3, TwoSides DEF Peer
<1> QED
  BY <1>4, OtherSide, StaysMoves

LEMMA PeerEndsMoves ==
  ASSUME FlowInv, NEW y \in Sides, PeerEnds(y), NEW x \in Sides
  PROVE  PipeMoves(x)
<1>1. peer' = [peer EXCEPT ![y].fin = TRUE]
  BY DEF PeerEnds
<1>2. peer \in [Sides -> Peer]
  BY DEF FlowInv, Sound, Peers
<1>3. \A w \in Sides : peer'[w].got = peer[w].got /\ peer'[w].sent = peer[w].sent
  BY <1>1, <1>2 DEF Peer
<1> QED
  BY <1>3, OtherSide, StaysMoves

(* Only bufferevent_writecb hands bytes over.                              *)
LEMMA WriteMoves ==
  ASSUME FlowInv, NEW y \in Sides, Write(y), NEW x \in Sides
  PROVE  PipeMoves(x)
<1> DEFINE O(n) == SubSeq(be[y].output, 1, n)
<1>1. Live
  BY DEF Write
<1>2. PICK n \in 0..Len(be[y].output) :
        peer' = peer \/ peer' = [peer EXCEPT ![y].got = @ \o Payload(O(n))]
  BY DEF Write
<1>3. peer \in Peers
  BY DEF FlowInv, Sound
<1>4. CASE peer' = peer
  BY <1>4, StaysMoves
<1>5. CASE peer' = [peer EXCEPT ![y].got = @ \o Payload(O(n))]
  <2> DEFINE out == O(n)
             g == peer[y].got \o Payload(out)
             t == Len(out) - Len(Payload(out))
  <2>1. Written(be[y].output, n, out, t)
    BY <1>2 DEF Written
  <2>2. peer' = [peer EXCEPT ![y].got = g]
    BY <1>5
  <2>3. g = Joined(peer[y].got, Payload(out))
    BY DEF Joined
  <2> HIDE DEF out, g, t
  <2>4. /\ \A w \in Sides : peer'[w].sent = peer[w].sent
        /\ peer'[y].got = g
        /\ \A w \in Sides : w # y => peer'[w].got = peer[w].got
    BY <1>3, <2>2 DEF Peers, Peer
  <2>5. CASE x = y
    <3>1. Other(x) # y /\ Other(x) \in Sides
      BY <2>5, OtherSide
    <3> QED
      BY <2>4, <3>1, StaysMoves
  <2>6. CASE x # y
    <3>1. y = Other(x)
      BY <2>6 DEF Other, Sides
    <3>2. PICK z, u : Line(x, be, peer, z, u)
      <4>1. Lines(be, peer, server, state)
        BY <1>1 DEF FlowInv, Flow
      <4> QED
        BY <4>1 DEF Lines, TwoLines, Sides
    <3>3. Flows(peer[y].got, be[y].output, be[x].input, peer[x].unread, peer[x].sent, z, u)
      BY <3>1, <3>2 DEF Line
    <3>4. \E e \in Len(peer[y].got)..peer[x].sent : Joined(peer[y].got, Payload(out)) = Bytes(e)
      BY <2>1, <3>3, FlowsArrive
    <3> QED
      BY <2>3, <2>4, <3>1, <3>4 DEF PipeMoves
  <2> QED
    BY <2>5, <2>6
<1> QED
  BY <1>2, <1>4, <1>5

LEMMA NextMoves ==
  ASSUME FlowInv, [Next]_vars, NEW x \in Sides
  PROVE  PipeMoves(x)
<1>1. CASE UNCHANGED peer
  BY <1>1, StaysMoves
<1>2. ASSUME NEW y \in Sides, Read(y) PROVE PipeMoves(x)
  <2>1. CASE ReadData(y)
    BY <2>1, ReadDataMoves
  <2>2. CASE ReadSuspends(y) \/ ReadEnd(y)
    BY <1>1, <2>2 DEF ReadSuspends, ReadEnd
  <2> QED
    BY <1>2, <2>1, <2>2 DEF Read
<1>3. ASSUME NEW y \in Sides, Write(y) PROVE PipeMoves(x)
  BY <1>3, WriteMoves
<1>4. ASSUME NEW y \in Sides, EventError(y) PROVE PipeMoves(x)
  BY <1>1, <1>4 DEF EventError
<1>5. ASSUME NEW y \in Sides, PeerSends(y) PROVE PipeMoves(x)
  BY <1>5, PeerSendsMoves
<1>6. ASSUME NEW y \in Sides, PeerEnds(y) PROVE PipeMoves(x)
  BY <1>6, PeerEndsMoves
<1>7. CASE Answer
  BY <1>7, AnswerMoves
<1>8. CASE UNCHANGED vars
  BY <1>1, <1>8 DEF vars
<1> QED
  BY <1>2, <1>3, <1>4, <1>5, <1>6, <1>7, <1>8 DEF Next

LEMMA InitRefines == Init => Up!Init /\ Down!Init
BY TwoSides DEF Init, Up!Init, Down!Init

LEMMA NextRefines ==
  FlowInv /\ FlowInv' /\ [Next]_vars => [Up!Next]_(Up!vars) /\ [Down!Next]_(Down!vars)
<1> SUFFICES ASSUME FlowInv, FlowInv', [Next]_vars
             PROVE  [Up!Next]_(Up!vars) /\ [Down!Next]_(Down!vars)
  OBVIOUS
<1>1. PipeMoves("client") /\ PipeMoves("relay")
  BY NextMoves, TwoSides
<1>2. Other("client") = "relay" /\ Other("relay") = "client"
  BY DEF Other
<1>3. peer'["client"].sent \in Nat /\ peer'["relay"].sent \in Nat
  BY TwoSides DEF FlowInv, Sound, Peers, Peer
<1>4. \A n : Bytes(n) = Up!Stream(n) /\ Bytes(n) = Down!Stream(n)
  BY DEF Bytes, Up!Stream, Down!Stream
<1>5. Up!Next
  BY <1>1, <1>2, <1>3, <1>4 DEF PipeMoves, Up!Next, Up!Write, Up!Deliver
<1>6. Down!Next
  BY <1>1, <1>2, <1>3, <1>4 DEF PipeMoves, Down!Next, Down!Write, Down!Deliver
<1> QED
  BY <1>5, <1>6

(* Each direction of a connection is a pipe that keeps the order: what     *)
(* redsocks moves from the input of one bufferevent to the output of the   *)
(* other comes out as it went in, behind the messages of the handshake and *)
(* whoever ends when, for any watermark and any number of bytes.           *)
THEOREM SpecImplements == Spec => Implements
<1> QED
  BY InitFlow, NextFlow, InitRefines, NextRefines, PTL DEF Spec, Implements, Up!Spec, Down!Spec

=============================================================================
