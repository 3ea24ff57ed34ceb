---------------------- MODULE TrafficAccountingProofs ----------------------
(***************************************************************************)
(* Proofs about TrafficAccounting, for any profiles and any bounds.        *)
(***************************************************************************)
EXTENDS TrafficAccounting, TLAPS

Row == [name : Nat, tx : Nat]
BusyPlaces == {"kill", "sum", "load", "reset", "thread", "post", "forget"}
Stop == [at : {"idle"} \cup BusyPlaces, sum : Nat, id : {NoProfile}]
          \cup [at : {"store"}, sum : Nat, id : Profiles, row : Row]
RowOrNone == [id : {NoProfile}] \cup [id : Profiles, row : Row]
Reports == [session : Nat, launch : Nat, tx : Nat]

Types ==
  /\ txTotal \in Nat /\ profile \in RowOrNone
  /\ starting \in {"no", "reset", "thread"} /\ up \in BOOLEAN
  /\ stopping \in [Stops -> Stop]
  /\ path \in Sessions \cup {None} /\ reported \in [Sessions -> Seq(Reports)]
  /\ sslocal \in Nat \cup {Dead}
  /\ rows \in [Profiles -> Row] /\ edit \in RowOrNone
  /\ uses \in Nat /\ owner \in Profiles \cup {NoProfile}
  /\ carried \in [Profiles -> Nat] /\ session \in Nat /\ launch \in Nat
  /\ named \in [Profiles -> Nat]
  /\ mixed \in BOOLEAN /\ lost \in BOOLEAN /\ raced \in BOOLEAN

(* A row that a stop is about to write has the last name.                  *)
Names ==
  ~raced =>
    /\ \A p \in Profiles : rows[p].name = named[p]
    /\ \A t \in Stops : At(t, "store") => stopping[t].row.name = named[stopping[t].id]

(* The bytes of the session are not yet in the row of its profile.         *)
Pending == up /\ \A t \in Stops : stopping[t].at \in {"idle", "kill", "sum", "load", "store"}

(* What the total of a profile may be.                                     *)
Room(p) == carried[p] - (IF p = owner /\ Pending THEN session ELSE 0)

(* Only one stop is under way, and none during a start.                    *)
OneAtATime ==
  /\ \A t, u \in Stops : ~At(t, "idle") /\ ~At(u, "idle") => t = u
  /\ starting # "no" => up /\ \A t \in Stops : At(t, "idle")
  /\ up => owner \in Profiles
  /\ \A t \in Stops : At(t, "forget") => ~up
  /\ profile.id # NoProfile =>
       profile.id = owner /\ (up \/ \E t \in Stops : At(t, "forget"))

(* ss-local runs in its session only, and no report of the session, nor    *)
(* the total, exceeds what it has carried.                                 *)
Reported ==
  /\ sslocal <= session /\ (~up => sslocal = Dead)
  /\ \A t \in Stops : stopping[t].at \notin {"idle", "kill"} => sslocal = Dead
  /\ \A k \in Sessions : \A i \in 1..Len(reported[k]) :
       /\ reported[k][i].session <= uses
       /\ reported[k][i].session = uses => reported[k][i].tx <= session
  /\ up /\ starting # "reset" => txTotal <= session

(* Each row, in the table or in the hands of somebody, leaves room for the *)
(* bytes that are still to be added.                                       *)
RowsHaveRoom ==
  /\ \A p \in Profiles :
       /\ rows[p].tx <= Room(p)
       /\ edit.id = p => edit.row.tx <= Room(p)
       /\ \A t \in Stops : At(t, "store") /\ stopping[t].id = p => stopping[t].row.tx <= Room(p)
  /\ \A t \in Stops :
       /\ At(t, "load") /\ up => stopping[t].sum <= session
       /\ At(t, "store") => stopping[t].id = owner /\ up /\ stopping[t].sum <= session

Sums == ~mixed => OneAtATime /\ Reported /\ RowsHaveRoom

IInv == Types /\ Names /\ Sums

(* ss-local is silent outside of its session and while a stop goes on, so  *)
(* every report stays within the bounds.                                   *)
Silent ==
  /\ sslocal <= session /\ session <= MaxBytes /\ txTotal <= MaxBytes
  /\ uses <= MaxUses /\ trafficMonitorThread \in Sessions \cup {None}
  /\ starting # "no" => uses > 0
  /\ ~up \/ starting # "no" => sslocal = Dead
  /\ \A t \in Stops : stopping[t].at \notin {"idle", "kill"} => sslocal = Dead
  /\ \A k \in Sessions : \A i \in 1..Len(reported[k]) :
       /\ reported[k][i].session <= uses /\ reported[k][i].tx <= MaxBytes
       /\ starting # "no" => reported[k][i].session # uses

(* A report names a launch of the session.                                 *)
ToldTypes ==
  /\ told \in [Launches -> Nat] /\ applied \in [Profiles -> Nat] /\ setBack \in BOOLEAN
  /\ launch <= MaxLaunches /\ (sslocal # Dead => launch > 0)
  /\ \A k \in Sessions : \A i \in 1..Len(reported[k]) : reported[k][i].launch \in Launches

(* The total that the program has is not more than what was reported, and  *)
(* is that as long as no report was set back.                              *)
Agrees(total, all) == total <= all /\ (~setBack => total = all)

Saved(p) == Agrees(rows[p].tx, applied[p])

(* What each launch has told is a part of what was reported, and is the    *)
(* total of TrafficMonitor if no other launch has told anything.           *)
Remembered ==
  \A l \in Launches :
    /\ rows[owner].tx + told[l] <= applied[owner]
    /\ ~setBack /\ (\A m \in Launches \ {l} : told[m] = 0) => txTotal = told[l]

(* The bytes reported in time are in the row of the profile, except those  *)
(* of the session: they are the total until a stop reads it, then its sum, *)
(* until it has written the row.                                           *)
Counted ==
  /\ up => profile.id = owner
  /\ starting = "thread" => txTotal = 0
  /\ starting # "no" => told = NothingTold
  /\ \A p \in Profiles : p # owner \/ ~up \/ starting # "no" => Saved(p)
  /\ InTime => Agrees(rows[owner].tx + txTotal, applied[owner]) /\ Remembered
  /\ \A t \in Stops :
       /\ stopping[t].at \in {"load", "store"} /\ up =>
            Agrees(rows[owner].tx + stopping[t].sum, applied[owner])
       /\ At(t, "store") => stopping[t].row.tx = rows[owner].tx
       /\ stopping[t].at \in {"reset", "thread", "post", "forget"} =>
            \A p \in Profiles : Saved(p)

Exact == Silent /\ ToldTypes /\ (~mixed /\ ~lost => Counted)

-----------------------------------------------------------------------------
(* A stop that does not hold a row goes on to another place.               *)
LEMMA GoOnType ==
  ASSUME NEW s \in [Stops -> Stop], NEW t \in Stops, s[t].at # "store",
         NEW place \in {"idle"} \cup BusyPlaces
  PROVE  /\ [s EXCEPT ![t].at = place] \in [Stops -> Stop]
         /\ [s EXCEPT ![t].at = place][t].at = place
         /\ s[t].id = NoProfile /\ s[t].sum \in Nat
<1>1. s[t] \in [at : {"idle"} \cup BusyPlaces, sum : Nat, id : {NoProfile}]
  BY DEF Stop
<1>2. [s[t] EXCEPT !.at = place] \in [at : {"idle"} \cup BusyPlaces, sum : Nat, id : {NoProfile}]
  BY <1>1
<1> QED
  BY <1>1, <1>2 DEF Stop

LEMMA NotStoppingType == NotStopping \in Stop /\ [NotStopping EXCEPT !.at = "reset"] \in Stop
BY DEF NotStopping, Stop, BusyPlaces

LEMMA StoringType ==
  ASSUME NEW s \in Stop, s.at = "store"
  PROVE  s.id \in Profiles /\ s.row \in Row /\ s.sum \in Nat
BY DEF Stop, BusyPlaces

LEMMA RowType ==
  ASSUME NEW r \in RowOrNone, r.id # NoProfile
  PROVE  r.id \in Profiles /\ r.row \in Row
BY DEF RowOrNone

(* A row gets a name, or bytes are added to it.                            *)
LEMMA RowChanges ==
  ASSUME NEW r \in Row, NEW n \in Nat
  PROVE  /\ r.name \in Nat /\ r.tx \in Nat /\ r.name + 1 \in Nat
         /\ [r EXCEPT !.name = @ + 1] \in Row /\ [r EXCEPT !.tx = @ + n] \in Row
         /\ [r EXCEPT !.name = @ + 1].name = r.name + 1 /\ [r EXCEPT !.name = @ + 1].tx = r.tx
         /\ [r EXCEPT !.tx = @ + n].name = r.name /\ [r EXCEPT !.tx = @ + n].tx = r.tx + n
<1>1. r.name \in Nat /\ r.tx \in Nat
  BY DEF Row
<1>2. r.name + 1 \in Nat /\ r.tx + n \in Nat
  BY <1>1
<1>3. [r EXCEPT !.name = r.name + 1] \in Row /\ [r EXCEPT !.tx = r.tx + n] \in Row
  BY <1>2 DEF Row
<1> QED
  BY <1>1, <1>2, <1>3 DEF Row

LEMMA RowTxType == \A r \in Row : r.tx \in Nat
BY DEF Row

LEMMA NotLater == \A m, n \in Nat : m <= n => m <= n + 1 /\ m # n + 1
OBVIOUS

LEMMA BothFit ==
  ASSUME NEW a \in Nat, NEW b \in Nat, NEW c \in Nat, NEW s \in Nat, a <= c - s, b <= s
  PROVE  a + b <= c
OBVIOUS

(* Reports come and go.                                                    *)
LEMMA AppendType ==
  ASSUME NEW s \in Seq(Reports), NEW r \in Reports
  PROVE  Append(s, r) \in Seq(Reports)
OBVIOUS

LEMMA TailType ==
  ASSUME NEW s \in Seq(Reports), s # << >>
  PROVE  Tail(s) \in Seq(Reports) /\ Head(s) \in Reports
OBVIOUS

LEMMA TypesStep == Types /\ [Next]_vars => Types'
<1> SUFFICES ASSUME Types, [Next]_vars PROVE Types'
  OBVIOUS
<1> USE DEF Types, At, GoOn, StopUnchanged, Dead, None, Sessions, Stops,
           serviceVars, serverVars, editVars, countVars, boundVars
<1>1. ASSUME NEW p \in Profiles, Use(p) PROVE Types'
  <2>1. profile' \in RowOrNone
    BY <1>1 DEF Use, RowOrNone
  <2> QED
    BY <1>1, <2>1 DEF Use
<1>2. CASE StartReset
  BY <1>2 DEF StartReset
<1>3. CASE StartThread
  BY <1>3 DEF StartThread
<1>4. CASE Launch
  BY <1>4 DEF Launch
<1>5. CASE Die
  BY <1>5 DEF Die
<1>6. CASE Carry
  <2>1. sslocal' \in Nat /\ session' \in Nat
    BY <1>6 DEF Carry
  <2>2. carried' \in [Profiles -> Nat]
    <3>1. CASE owner \in Profiles
      BY <1>6, <3>1 DEF Carry
    <3>2. CASE owner \notin Profiles
      BY <1>6, <3>2 DEF Carry
    <3> QED
      BY <3>1, <3>2
  <2> QED
    BY <1>6, <2>1, <2>2 DEF Carry
<1>7. CASE Report
  <2>1. [session |-> uses, launch |-> launch, tx |-> sslocal] \in Reports
    BY <1>7 DEF Report, Reports
  <2>2. reported' \in [Sessions -> Seq(Reports)]
    BY <1>7, <2>1, AppendType DEF Report
  <2> QED
    BY <1>7, <2>2 DEF Report
<1>8. ASSUME NEW k \in Sessions, Bind(k) PROVE Types'
  BY <1>8 DEF Bind
<1>9. ASSUME NEW k \in Sessions, Update(k) PROVE Types'
  <2>1. Tail(reported[k]) \in Seq(Reports) /\ Head(reported[k]) \in Reports
    BY <1>9, TailType DEF Update
  <2>2. reported' \in [Sessions -> Seq(Reports)]
    BY <1>9, <2>1 DEF Update
  <2>3. Head(reported[k]).tx \in Nat
    BY <2>1 DEF Reports
  <2> QED
    BY <1>9, <2>2, <2>3 DEF Update
<1>10. ASSUME NEW k \in Sessions, ReportFails(k) PROVE Types'
  <2>1. Tail(reported[k]) \in Seq(Reports) /\ Head(reported[k]) \in Reports
    BY <1>10, TailType DEF ReportFails
  <2>2. reported' \in [Sessions -> Seq(Reports)]
    BY <1>10, <2>1 DEF ReportFails
  <2> QED
    BY <1>10, <2>2 DEF ReportFails
<1>11. ASSUME NEW t \in Stops, BeginStop(t) PROVE Types'
  <2>1. stopping' \in [Stops -> Stop]
    BY <1>11, GoOnType DEF BusyPlaces, BeginStop
  <2> QED
    BY <1>11, <2>1 DEF BeginStop
<1>12. ASSUME NEW t \in Stops, StopKill(t) PROVE Types'
  <2>1. stopping' \in [Stops -> Stop]
    BY <1>12, GoOnType DEF BusyPlaces, StopKill
  <2> QED
    BY <1>12, <2>1 DEF StopKill
<1>13. ASSUME NEW t \in Stops, StopSum(t) PROVE Types'
  <2>1. stopping[t] \in [at : {"idle"} \cup BusyPlaces, sum : Nat, id : {NoProfile}]
    BY <1>13 DEF StopSum, Stop
  <2>2. [stopping[t] EXCEPT !.at = "load", !.sum = txTotal] \in Stop
    BY <2>1 DEF Stop, BusyPlaces
  <2>3. stopping' \in [Stops -> Stop]
    BY <1>13, <2>2 DEF StopSum
  <2> QED
    BY <1>13, <2>3 DEF StopSum
<1>14. ASSUME NEW t \in Stops, StopLoad(t) PROVE Types'
  <2>1. stopping[t].sum \in Nat
    BY <1>14, GoOnType DEF StopLoad, BusyPlaces
  <2>2. ASSUME profile.id # NoProfile
        PROVE  [at |-> "store", sum |-> stopping[t].sum, id |-> profile.id,
                row |-> rows[profile.id]] \in Stop
    <3>1. profile.id \in Profiles /\ rows[profile.id] \in Row
      BY <2>2, RowType
    <3> QED
      BY <2>1, <3>1 DEF Stop
  <2>3. [stopping EXCEPT ![t].at = "reset"] \in [Stops -> Stop]
    BY <1>14, GoOnType DEF StopLoad, BusyPlaces
  <2>4. stopping' \in [Stops -> Stop]
    BY <1>14, <2>2, <2>3 DEF StopLoad
  <2> QED
    BY <1>14, <2>4 DEF StopLoad
<1>15. ASSUME NEW t \in Stops, StopStore(t) PROVE Types'
  <2>1. stopping[t].row \in Row /\ stopping[t].sum \in Nat
    BY <1>15, StoringType DEF StopStore
  <2>2. [stopping[t].row EXCEPT !.tx = @ + stopping[t].sum] \in Row
    BY <2>1, RowChanges
  <2>3. rows' \in [Profiles -> Row]
    BY <1>15, <2>2 DEF StopStore
  <2>4. stopping' \in [Stops -> Stop]
    BY <1>15, NotStoppingType DEF StopStore
  <2> QED
    BY <1>15, <2>3, <2>4 DEF StopStore
<1>16. ASSUME NEW t \in Stops, StopReset(t) PROVE Types'
  <2>1. stopping' \in [Stops -> Stop]
    BY <1>16, GoOnType DEF BusyPlaces, StopReset
  <2> QED
    BY <1>16, <2>1 DEF StopReset
<1>17. ASSUME NEW t \in Stops, StopThread(t) PROVE Types'
  <2>1. stopping' \in [Stops -> Stop]
    BY <1>17, GoOnType DEF BusyPlaces, StopThread
  <2> QED
    BY <1>17, <2>1 DEF StopThread
<1>18. ASSUME NEW t \in Stops, StopPost(t) PROVE Types'
  <2>1. stopping' \in [Stops -> Stop]
    BY <1>18, GoOnType DEF BusyPlaces, StopPost
  <2> QED
    BY <1>18, <2>1 DEF StopPost
<1>19. ASSUME NEW t \in Stops, StopForget(t) PROVE Types'
  <2>1. stopping' \in [Stops -> Stop]
    BY <1>19, NotStoppingType DEF StopForget
  <2>2. profile' \in RowOrNone
    BY <1>19 DEF StopForget, RowOrNone
  <2> QED
    BY <1>19, <2>1, <2>2 DEF StopForget
<1>20. ASSUME NEW p \in Profiles, EditLoad(p) PROVE Types'
  <2>1. edit' \in RowOrNone
    BY <1>20 DEF EditLoad, RowOrNone
  <2> QED
    BY <1>20, <2>1 DEF EditLoad
<1>21. CASE EditStore
  <2>1. edit.id \in Profiles /\ edit.row \in Row
    BY <1>21, RowType DEF EditStore
  <2>2. [edit.row EXCEPT !.name = @ + 1] \in Row /\ edit.row.name + 1 \in Nat
    BY <2>1, RowChanges, 0 \in Nat
  <2>3. rows' \in [Profiles -> Row] /\ named' \in [Profiles -> Nat]
    BY <1>21, <2>1, <2>2 DEF EditStore
  <2>4. edit' \in RowOrNone
    BY <1>21 DEF EditStore, RowOrNone
  <2> QED
    BY <1>21, <2>3, <2>4 DEF EditStore
<1>22. CASE UNCHANGED vars
  BY <1>22 DEF vars
<1> QED
  BY <1>1, <1>2, <1>3, <1>4, <1>5, <1>6, <1>7, <1>8, <1>9, <1>10, <1>11, <1>12, <1>13, <1>14, <1>15, <1>16, <1>17, <1>18, <1>19, <1>20, <1>21, <1>22 DEF Next, Request, StopStep

LEMMA NamesStep == Types /\ Names /\ [Next]_vars => Names'
<1> SUFFICES ASSUME Types /\ Names, [Next]_vars PROVE Names'
  OBVIOUS
<1> USE DEF Types, Names, At, GoOn, StopUnchanged, serviceVars, serverVars, editVars, countVars, boundVars
<1>1. ASSUME NEW p \in Profiles, Use(p) PROVE Names'
  BY <1>1 DEF Use
<1>2. CASE StartReset
  BY <1>2 DEF StartReset
<1>3. CASE StartThread
  BY <1>3 DEF StartThread
<1>4. CASE Launch
  BY <1>4 DEF Launch
<1>5. CASE Die
  BY <1>5 DEF Die
<1>6. CASE Carry
  BY <1>6 DEF Carry
<1>7. CASE Report
  BY <1>7 DEF Report
<1>8. ASSUME NEW k \in Sessions, Bind(k) PROVE Names'
  BY <1>8 DEF Bind
<1>9. ASSUME NEW k \in Sessions, Update(k) PROVE Names'
  BY <1>9 DEF Update
<1>10. ASSUME NEW k \in Sessions, ReportFails(k) PROVE Names'
  BY <1>10 DEF ReportFails
<1>11. ASSUME NEW t \in Stops, BeginStop(t) PROVE Names'
  BY <1>11 DEF BeginStop
<1>12. ASSUME NEW t \in Stops, StopKill(t) PROVE Names'
  BY <1>12 DEF StopKill
<1>13. ASSUME NEW t \in Stops, StopSum(t) PROVE Names'
  BY <1>13 DEF StopSum
<1>14. ASSUME NEW t \in Stops, StopLoad(t) PROVE Names'
  <2>1. \A u \in Stops \ {t} : stopping'[u] = stopping[u]
    BY <1>14 DEF StopLoad
  <2>2. \/ /\ profile.id \in Profiles
           /\ stopping'[t] = [at |-> "store", sum |-> stopping[t].sum, id |-> profile.id,
                              row |-> rows[profile.id]]
        \/ ~At(t, "store")'
    <3>1. CASE GoOn(t, "reset")
      <4>1. stopping'[t].at = "reset"
        BY <1>14, <3>1, GoOnType DEF StopLoad, BusyPlaces
      <4> QED
        BY <4>1
    <3>2. CASE /\ profile.id # NoProfile
               /\ stopping' = [stopping EXCEPT ![t] =
                    [at |-> "store", sum |-> @.sum, id |-> profile.id, row |-> rows[profile.id]]]
      BY <3>2, RowType
    <3> QED
      BY <1>14, <3>1, <3>2 DEF StopLoad
  <2>3. At(t, "store")' => stopping'[t].row = rows[stopping'[t].id] /\ stopping'[t].id \in Profiles
    BY <2>2
  <2>4. UNCHANGED <<rows, named, raced>>
    BY <1>14 DEF StopLoad
  <2> HIDE DEF Types
  <2> QED
    BY <2>1, <2>3, <2>4
<1>15. ASSUME NEW t \in Stops, StopStore(t) PROVE Names'
  <2>1. stopping[t].row \in Row /\ stopping[t].id \in Profiles /\ stopping[t].sum \in Nat
    BY <1>15, StoringType DEF StopStore
  <2>2. [stopping[t].row EXCEPT !.tx = @ + stopping[t].sum].name = stopping[t].row.name
    BY <2>1, RowChanges
  <2>3. ~raced => \A p \in Profiles : rows'[p].name = named[p]
    BY <1>15, <2>1, <2>2 DEF StopStore
  <2>4. /\ \A u \in Stops \ {t} : stopping'[u] = stopping[u]
        /\ ~At(t, "store")'
    BY <1>15 DEF StopStore, NotStopping
  <2> QED
    BY <1>15, <2>3, <2>4 DEF StopStore
<1>16. ASSUME NEW t \in Stops, StopReset(t) PROVE Names'
  BY <1>16 DEF StopReset
<1>17. ASSUME NEW t \in Stops, StopThread(t) PROVE Names'
  BY <1>17 DEF StopThread
<1>18. ASSUME NEW t \in Stops, StopPost(t) PROVE Names'
  BY <1>18 DEF StopPost
<1>19. ASSUME NEW t \in Stops, StopForget(t) PROVE Names'
  <2>1. /\ \A u \in Stops \ {t} : stopping'[u] = stopping[u]
        /\ ~At(t, "store")'
    BY <1>19 DEF StopForget, NotStopping
  <2> QED
    BY <1>19, <2>1 DEF StopForget
<1>20. ASSUME NEW p \in Profiles, EditLoad(p) PROVE Names'
  BY <1>20 DEF EditLoad
<1>21. CASE EditStore
  <2>1. edit.id \in Profiles /\ edit.row \in Row
    BY <1>21, RowType DEF EditStore
  <2>2. [edit.row EXCEPT !.name = @ + 1].name = edit.row.name + 1
    BY <2>1, RowChanges, 0 \in Nat
  <2>3. /\ rows' = [rows EXCEPT ![edit.id] = [edit.row EXCEPT !.name = @ + 1]]
        /\ named' = [named EXCEPT ![edit.id] = edit.row.name + 1]
        /\ stopping' = stopping
    BY <1>21 DEF EditStore
  <2>4. \A p \in Profiles : rows[p].name = named[p] => rows'[p].name = named'[p]
    BY <2>1, <2>2, <2>3
  <2>5. ~raced' => ~raced /\ \A t \in Stops : At(t, "store") => stopping[t].id # edit.id
    BY <1>21 DEF EditStore
  <2>6. ~raced' => \A t \in Stops : At(t, "store") => stopping[t].row.name = named'[stopping[t].id]
    BY <2>1, <2>3, <2>5, StoringType
  <2> QED
    BY <2>3, <2>4, <2>5, <2>6
<1>22. CASE UNCHANGED vars
  BY <1>22 DEF vars
<1> QED
  BY <1>1, <1>2, <1>3, <1>4, <1>5, <1>6, <1>7, <1>8, <1>9, <1>10, <1>11, <1>12, <1>13, <1>14, <1>15, <1>16, <1>17, <1>18, <1>19, <1>20, <1>21, <1>22 DEF Next, Request, StopStep

LEMMA ReportTypes ==
  ASSUME Types, NEW k \in Sessions, NEW i \in 1..Len(reported[k])
  PROVE  reported[k][i].session \in Nat /\ reported[k][i].tx \in Nat
<1>1. reported[k] \in Seq(Reports)
  BY DEF Types
<1>2. reported[k][i] \in Reports
  BY <1>1
<1> QED
  BY <1>2 DEF Reports

(* Where the steps of a stop lead, and what they leave alone.              *)
LEMMA Stepped ==
  ASSUME Types, NEW t \in Stops, stopping[t].at # "store",
         NEW place \in {"idle"} \cup BusyPlaces, GoOn(t, place)
  PROVE  /\ \A u \in Stops \ {t} : stopping'[u] = stopping[u]
         /\ stopping'[t].at = place /\ stopping'[t].sum = stopping[t].sum
<1>1. stopping[t] \in [at : {"idle"} \cup BusyPlaces, sum : Nat, id : {NoProfile}]
  BY DEF Stop, Types
<1> QED
  BY <1>1 DEF GoOn, Types

LEMMA StopSumStep ==
  ASSUME Types, NEW t \in Stops, StopSum(t)
  PROVE  /\ \A u \in Stops \ {t} : stopping'[u] = stopping[u]
         /\ stopping[t].at = "sum" /\ stopping'[t].at = "load" /\ stopping'[t].sum = txTotal
<1>1. stopping[t] \in [at : {"idle"} \cup BusyPlaces, sum : Nat, id : {NoProfile}]
  BY DEF StopSum, Stop, Types, At
<1> QED
  BY <1>1 DEF StopSum, Types, At

LEMMA StopLoadStep ==
  ASSUME Types, NEW t \in Stops, StopLoad(t)
  PROVE  /\ \A u \in Stops \ {t} : stopping'[u] = stopping[u]
         /\ \/ stopping'[t].at = "reset"
            \/ /\ profile.id \in Profiles
               /\ stopping'[t] = [at |-> "store", sum |-> stopping[t].sum, id |-> profile.id,
                                  row |-> rows[profile.id]]
<1>1. stopping[t].at = "load"
  BY DEF StopLoad, At
<1>2. CASE GoOn(t, "reset")
  BY <1>1, <1>2, Stepped DEF BusyPlaces
<1>3. CASE /\ profile.id # NoProfile
           /\ stopping' = [stopping EXCEPT ![t] =
                [at |-> "store", sum |-> @.sum, id |-> profile.id, row |-> rows[profile.id]]]
  BY <1>3, RowType DEF Types
<1> QED
  BY <1>2, <1>3 DEF StopLoad

(* What may be in a row does not become less while the session goes on.    *)
LEMMA RoomGrows ==
  ASSUME Types, UNCHANGED <<carried, owner, session>>, Pending' => Pending
  PROVE  \A p \in Profiles : Room(p) \in Int /\ Room(p)' \in Int /\ Room(p) <= Room(p)'
BY DEF Room, Types

(* Neither the table nor the row that is edited outgrows it.               *)
LEMMA RowsKeepRoom ==
  ASSUME Types, RowsHaveRoom,
         \A p \in Profiles : Room(p) \in Int /\ Room(p)' \in Int /\ Room(p) <= Room(p)'
  PROVE  \A p \in Profiles : /\ rows[p].tx <= Room(p)'
                             /\ edit.id = p => edit.row.tx <= Room(p)'
<1> SUFFICES ASSUME NEW p \in Profiles
             PROVE  rows[p].tx <= Room(p)' /\ (edit.id = p => edit.row.tx <= Room(p)')
  OBVIOUS
<1>1. Room(p) \in Int /\ Room(p)' \in Int /\ Room(p) <= Room(p)'
  OBVIOUS
<1>2. rows[p].tx \in Nat /\ rows[p].tx <= Room(p)
  BY RowTxType DEF Types, RowsHaveRoom
<1>3. ASSUME edit.id = p PROVE edit.row.tx <= Room(p)'
  <2>1. edit.id # NoProfile
    BY <1>3, ProfilesAssumption
  <2>2. edit.row.tx <= Room(p)
    BY <1>3 DEF RowsHaveRoom
  <2>3. edit.row.tx \in Nat
    BY <2>1, RowType, RowTxType DEF Types
  <2> QED
    BY <1>1, <2>2, <2>3
<1> QED
  BY <1>1, <1>2, <1>3

LEMMA OneAtATimeStep ==
  ASSUME Types, Types', ~mixed, ~mixed', OneAtATime, Reported, RowsHaveRoom, [Next]_vars
  PROVE  OneAtATime'
<1> USE DEF Types, At, GoOn, StopUnchanged, Dead, None, serviceVars, serverVars, editVars, countVars, boundVars, OneAtATime, NotStopping, BusyPlaces
<1>1. ASSUME NEW p \in Profiles, Use(p) PROVE OneAtATime'
  BY <1>1 DEF Use
<1>2. CASE StartReset
  BY <1>2 DEF StartReset
<1>3. CASE StartThread
  BY <1>3 DEF StartThread
<1>4. CASE Launch
  BY <1>4 DEF Launch
<1>5. CASE Die
  BY <1>5 DEF Die
<1>6. CASE Carry
  BY <1>6 DEF Carry
<1>7. CASE Report
  BY <1>7 DEF Report
<1>8. ASSUME NEW k \in Sessions, Bind(k) PROVE OneAtATime'
  BY <1>8 DEF Bind
<1>9. ASSUME NEW k \in Sessions, Update(k) PROVE OneAtATime'
  BY <1>9 DEF Update
<1>10. ASSUME NEW k \in Sessions, ReportFails(k) PROVE OneAtATime'
  BY <1>10 DEF ReportFails
<1>11. ASSUME NEW t \in Stops, BeginStop(t) PROVE OneAtATime'
  <2>1. GoOn(t, "kill") /\ stopping[t].at = "idle"
    BY <1>11 DEF BeginStop
  <2>2. (\A u \in Stops \ {t} : stopping'[u] = stopping[u]) /\ stopping'[t].at = "kill"
    BY <2>1, Stepped
  <2>3. \A u \in Stops : At(u, "idle")
    BY <1>11 DEF BeginStop
  <2> QED
    BY <1>11, <2>2, <2>3 DEF BeginStop
<1>12. ASSUME NEW t \in Stops, StopKill(t) PROVE OneAtATime'
  BY <1>12, Stepped DEF StopKill
<1>13. ASSUME NEW t \in Stops, StopSum(t) PROVE OneAtATime'
  BY <1>13, StopSumStep DEF StopSum
<1>14. ASSUME NEW t \in Stops, StopLoad(t) PROVE OneAtATime'
  <2>1. UNCHANGED <<profile, up, starting, owner>> /\ stopping[t].at = "load"
    BY <1>14 DEF StopLoad
  <2>2. \A u \in Stops \ {t} : stopping'[u] = stopping[u] /\ stopping[u].at = "idle"
    BY <1>14, <2>1, StopLoadStep
  <2>3. stopping'[t].at \in {"reset", "store"}
    <3>1. CASE stopping'[t].at = "reset"
      BY <3>1
    <3>2. CASE stopping'[t] = [at |-> "store", sum |-> stopping[t].sum, id |-> profile.id,
                               row |-> rows[profile.id]]
      BY <3>2
    <3> QED
      BY <1>14, <3>1, <3>2, StopLoadStep
  <2>4. starting = "no" /\ (profile.id # NoProfile => profile.id = owner /\ up)
    BY <2>1, <2>2
  <2> QED
    BY <2>1, <2>2, <2>3, <2>4
<1>15. ASSUME NEW t \in Stops, StopStore(t) PROVE OneAtATime'
  BY <1>15, Stepped DEF StopStore
<1>16. ASSUME NEW t \in Stops, StopReset(t) PROVE OneAtATime'
  BY <1>16, Stepped DEF StopReset
<1>17. ASSUME NEW t \in Stops, StopThread(t) PROVE OneAtATime'
  BY <1>17, Stepped DEF StopThread
<1>18. ASSUME NEW t \in Stops, StopPost(t) PROVE OneAtATime'
  BY <1>18, Stepped DEF StopPost
<1>19. ASSUME NEW t \in Stops, StopForget(t) PROVE OneAtATime'
  BY <1>19, Stepped DEF StopForget
<1>20. ASSUME NEW p \in Profiles, EditLoad(p) PROVE OneAtATime'
  BY <1>20 DEF EditLoad
<1>21. CASE EditStore
  BY <1>21 DEF EditStore
<1>22. CASE UNCHANGED vars
  BY <1>22 DEF vars
<1> QED
  BY <1>1, <1>2, <1>3, <1>4, <1>5, <1>6, <1>7, <1>8, <1>9, <1>10, <1>11, <1>12, <1>13, <1>14, <1>15, <1>16, <1>17, <1>18, <1>19, <1>20, <1>21, <1>22 DEF Next, Request, StopStep

LEMMA ReportedStep ==
  ASSUME Types, Types', ~mixed, ~mixed', OneAtATime, Reported, RowsHaveRoom, [Next]_vars
  PROVE  Reported'
<1> USE DEF Types, At, StopUnchanged, Dead, None, serviceVars, serverVars, editVars, countVars, boundVars,
           Reported, NotStopping, BusyPlaces
<1>1. ASSUME NEW p \in Profiles, Use(p) PROVE Reported'
  <2>1. sslocal' = Dead /\ reported' = reported /\ uses' = uses + 1
    BY <1>1 DEF Use
  <2>2. \A k \in Sessions : \A i \in 1..Len(reported[k]) :
          reported[k][i].session <= uses' /\ reported[k][i].session # uses'
    <3> SUFFICES ASSUME NEW k \in Sessions, NEW i \in 1..Len(reported[k])
                 PROVE  reported[k][i].session <= uses' /\ reported[k][i].session # uses'
      OBVIOUS
    <3>1. reported[k][i].session \in Nat /\ uses \in Nat
      BY ReportTypes
    <3>2. reported[k][i].session <= uses /\ uses' = uses + 1
      BY <2>1
    <3> HIDE DEF Types
    <3> QED
      BY <3>1, <3>2, NotLater
  <2>3. starting' = "reset" /\ session' = 0 /\ stopping' = stopping
    BY <1>1 DEF Use
  <2> QED
    BY <2>1, <2>2, <2>3
<1>2. CASE StartReset
  BY <1>2 DEF StartReset
<1>3. CASE StartThread
  BY <1>3 DEF StartThread
<1>4. CASE Launch
  BY <1>4 DEF Launch
<1>5. CASE Die
  BY <1>5 DEF Die
<1>6. CASE Carry
  <2>1. /\ session' = session + 1 /\ sslocal' = sslocal + 1 /\ sslocal \in Nat
        /\ UNCHANGED <<reported, uses, stopping, up, starting, txTotal>>
    BY <1>6 DEF Carry
  <2>2. \A k \in Sessions : \A i \in 1..Len(reported[k]) :
          /\ reported[k][i].session <= uses
          /\ reported[k][i].session = uses => reported[k][i].tx <= session + 1
    <3> SUFFICES ASSUME NEW k \in Sessions, NEW i \in 1..Len(reported[k])
                 PROVE  /\ reported[k][i].session <= uses
                        /\ reported[k][i].session = uses => reported[k][i].tx <= session + 1
      OBVIOUS
    <3>1. reported[k][i].tx \in Nat /\ session \in Nat
      BY ReportTypes
    <3>2. /\ reported[k][i].session <= uses
          /\ reported[k][i].session = uses => reported[k][i].tx <= session
      OBVIOUS
    <3> QED
      BY <3>1, <3>2
  <2>3. sslocal' <= session' /\ (~up' => sslocal' = Dead)
    BY <2>1
  <2>4. \A t \in Stops : stopping'[t].at \notin {"idle", "kill"} => sslocal' = Dead
    BY <2>1
  <2>5. up' /\ starting' # "reset" => txTotal' <= session'
    BY <2>1
  <2> HIDE DEF Types
  <2> QED
    BY <2>1, <2>2, <2>3, <2>4, <2>5
<1>7. CASE Report
  BY <1>7 DEF Report
<1>8. ASSUME NEW k \in Sessions, Bind(k) PROVE Reported'
  BY <1>8 DEF Bind
<1>9. ASSUME NEW k \in Sessions, Update(k) PROVE Reported'
  BY <1>9 DEF Update
<1>10. ASSUME NEW k \in Sessions, ReportFails(k) PROVE Reported'
  BY <1>10 DEF ReportFails
<1>11. ASSUME NEW t \in Stops, BeginStop(t) PROVE Reported'
  <2>1. GoOn(t, "kill") /\ stopping[t].at # "store"
    BY <1>11 DEF BeginStop
  <2>2. (\A u \in Stops \ {t} : stopping'[u] = stopping[u]) /\ stopping'[t].at = "kill"
    BY <2>1, Stepped
  <2> QED
    BY <1>11, <2>2 DEF BeginStop
<1>12. ASSUME NEW t \in Stops, StopKill(t) PROVE Reported'
  BY <1>12, Stepped DEF StopKill
<1>13. ASSUME NEW t \in Stops, StopSum(t) PROVE Reported'
  BY <1>13, Stepped DEF StopSum
<1>14. ASSUME NEW t \in Stops, StopLoad(t) PROVE Reported'
  BY <1>14, Stepped DEF StopLoad
<1>15. ASSUME NEW t \in Stops, StopStore(t) PROVE Reported'
  BY <1>15, Stepped DEF StopStore
<1>16. ASSUME NEW t \in Stops, StopReset(t) PROVE Reported'
  <2>1. GoOn(t, "thread") /\ stopping[t].at = "reset" /\ txTotal' = 0
    BY <1>16 DEF StopReset
  <2>2. (\A u \in Stops \ {t} : stopping'[u] = stopping[u]) /\ stopping'[t].at = "thread"
    BY <2>1, Stepped
  <2>3. UNCHANGED <<sslocal, up, reported, uses, session, starting>>
    BY <1>16 DEF StopReset
  <2>4. sslocal = Dead
    BY <2>1
  <2> QED
    BY <2>1, <2>2, <2>3, <2>4
<1>17. ASSUME NEW t \in Stops, StopThread(t) PROVE Reported'
  BY <1>17, Stepped DEF StopThread
<1>18. ASSUME NEW t \in Stops, StopPost(t) PROVE Reported'
  BY <1>18, Stepped DEF StopPost
<1>19. ASSUME NEW t \in Stops, StopForget(t) PROVE Reported'
  BY <1>19, Stepped DEF StopForget
<1>20. ASSUME NEW p \in Profiles, EditLoad(p) PROVE Reported'
  BY <1>20 DEF EditLoad
<1>21. CASE EditStore
  BY <1>21 DEF EditStore
<1>22. CASE UNCHANGED vars
  BY <1>22 DEF vars
<1> QED
  BY <1>1, <1>2, <1>3, <1>4, <1>5, <1>6, <1>7, <1>8, <1>9, <1>10, <1>11, <1>12, <1>13, <1>14, <1>15, <1>16, <1>17, <1>18, <1>19, <1>20, <1>21, <1>22 DEF Next, Request, StopStep

LEMMA RowsStep ==
  ASSUME Types, Types', ~mixed, ~mixed', OneAtATime, Reported, RowsHaveRoom, [Next]_vars
  PROVE  RowsHaveRoom'
<1> USE DEF Types, At, GoOn, StopUnchanged, Dead, None, serviceVars, serverVars, editVars, countVars, boundVars,
           OneAtATime, Reported, RowsHaveRoom, Room, Pending, NotStopping, BusyPlaces
<1>1. ASSUME NEW p \in Profiles, Use(p) PROVE RowsHaveRoom'
  BY <1>1 DEF Use
<1>2. CASE StartReset
  BY <1>2 DEF StartReset
<1>3. CASE StartThread
  BY <1>3 DEF StartThread
<1>4. CASE Launch
  BY <1>4 DEF Launch
<1>5. CASE Die
  BY <1>5 DEF Die
<1>6. CASE Carry
  BY <1>6 DEF Carry
<1>7. CASE Report
  BY <1>7 DEF Report
<1>8. ASSUME NEW k \in Sessions, Bind(k) PROVE RowsHaveRoom'
  BY <1>8 DEF Bind
<1>9. ASSUME NEW k \in Sessions, Update(k) PROVE RowsHaveRoom'
  BY <1>9 DEF Update
<1>10. ASSUME NEW k \in Sessions, ReportFails(k) PROVE RowsHaveRoom'
  BY <1>10 DEF ReportFails
<1>11. ASSUME NEW t \in Stops, BeginStop(t) PROVE RowsHaveRoom'
  BY <1>11 DEF BeginStop
<1>12. ASSUME NEW t \in Stops, StopKill(t) PROVE RowsHaveRoom'
  BY <1>12, Stepped DEF StopKill
<1>13. ASSUME NEW t \in Stops, StopSum(t) PROVE RowsHaveRoom'
  <2>1. /\ \A u \in Stops \ {t} : stopping'[u] = stopping[u]
        /\ stopping[t].at = "sum" /\ stopping'[t].at = "load" /\ stopping'[t].sum = txTotal
    BY <1>13, StopSumStep
  <2>2. Pending' = Pending
    BY <1>13, <2>1 DEF StopSum
  <2>3. up => txTotal <= session
    BY <2>1
  <2> QED
    BY <1>13, <2>1, <2>2, <2>3 DEF StopSum
<1>14. ASSUME NEW t \in Stops, StopLoad(t) PROVE RowsHaveRoom'
  <2> HIDE DEF Room, Pending
  <2>1. UNCHANGED <<rows, edit, up, session, carried, owner>>
    BY <1>14 DEF StopLoad
  <2>2. \A u \in Stops \ {t} : stopping'[u] = stopping[u] /\ At(u, "idle")
    BY <1>14 DEF StopLoad
  <2>3. At(t, "load") /\ Pending' => Pending
    BY <1>14, <2>1, <2>2 DEF StopLoad, Pending
  <2>4. \A p \in Profiles : Room(p) \in Int /\ Room(p)' \in Int /\ Room(p) <= Room(p)'
    BY <1>14, <2>1, <2>3, RoomGrows DEF StopLoad
  <2>5. \A p \in Profiles : rows[p].tx <= Room(p)'
    BY <2>4, RowsKeepRoom
  <2>6. \A p \in Profiles : rows'[p].tx <= Room(p)'
    BY <2>1, <2>5
  <2>7. \A p \in Profiles : edit.id = p => edit.row.tx <= Room(p)'
    BY <2>4, RowsKeepRoom
  <2>8. \A u \in Stops \ {t} : stopping'[u].at = "idle"
    BY <2>2
  <2>9. stopping[t].at = "load" /\ owner' = owner /\ up' = up /\ session' = session
    BY <1>14 DEF StopLoad
  <2>10. profile.id # NoProfile => profile.id = owner /\ up /\ stopping[t].sum <= session
    BY <2>2, <2>9
  <2>11. CASE stopping'[t].at = "reset"
    <3>1. \A u \in Stops : stopping'[u].at \in {"idle", "reset"}
      BY <2>8, <2>11
    <3> QED
      BY <2>1, <2>6, <2>7, <3>1
  <2>12. CASE /\ profile.id \in Profiles
              /\ stopping'[t] = [at |-> "store", sum |-> stopping[t].sum, id |-> profile.id,
                                 row |-> rows[profile.id]]
    <3>1. profile.id = owner /\ up /\ stopping[t].sum <= session
      BY <2>10, <2>12, ProfilesAssumption
    <3>2. /\ stopping'[t].at = "store" /\ stopping'[t].id = owner /\ owner \in Profiles
          /\ stopping'[t].sum = stopping[t].sum /\ stopping'[t].row = rows'[owner]
      BY <2>1, <2>12, <3>1
    <3>3. \A p \in Profiles : stopping'[t].id = p => stopping'[t].row.tx <= Room(p)'
      BY <2>6, <3>2
    <3>4. stopping'[t].id = owner' /\ up' /\ stopping'[t].sum <= session'
      BY <2>9, <3>1, <3>2
    <3>5. \A u \in Stops : ~At(u, "load")' /\ (At(u, "store")' => u = t)
      BY <2>8, <3>2
    <3> QED
      BY <2>1, <2>6, <2>7, <3>3, <3>4, <3>5
  <2> QED
    BY <1>14, <2>11, <2>12, StopLoadStep
<1>15. ASSUME NEW t \in Stops, StopStore(t) PROVE RowsHaveRoom'
  <2> HIDE DEF Room, Pending
  <2>1. UNCHANGED <<edit, up, session, carried, owner>>
    BY <1>15 DEF StopStore
  <2>2. \A u \in Stops \ {t} : stopping'[u] = stopping[u] /\ At(u, "idle")
    BY <1>15 DEF StopStore
  <2>3. stopping[t].at = "store" /\ stopping'[t].at = "reset"
    BY <1>15 DEF StopStore
  <2>4. Pending /\ ~Pending'
    BY <2>2, <2>3 DEF Pending
  <2>5. /\ stopping[t].id = owner /\ owner \in Profiles
        /\ stopping[t].row \in Row /\ stopping[t].sum \in Nat
    BY <2>3, StoringType
  <2>6. \A p \in Profiles : Room(p) \in Int /\ Room(p)' \in Int /\ Room(p) <= Room(p)'
    BY <2>1, <2>4, RoomGrows
  <2>7. \A p \in Profiles : p = owner => /\ Room(p) = carried[owner] - session
                                         /\ Room(p)' = carried[owner]
    BY <2>1, <2>4, <2>5 DEF Room
  <2>8. \A p \in Profiles : rows'[p].tx <= Room(p)'
    <3>1. [stopping[t].row EXCEPT !.tx = @ + stopping[t].sum].tx
            = stopping[t].row.tx + stopping[t].sum
      BY <2>5, RowChanges
    <3>2. /\ stopping[t].row.tx <= carried[owner] - session /\ stopping[t].sum <= session
          /\ stopping[t].row.tx \in Nat /\ carried[owner] \in Nat /\ session \in Nat
      BY <2>3, <2>5, <2>7, RowTxType
    <3>3. stopping[t].row.tx + stopping[t].sum <= carried[owner]
      BY <2>5, <3>2, BothFit
    <3>4. rows' = rows \/ rows' = [rows EXCEPT ![owner] =
                                    [stopping[t].row EXCEPT !.tx = @ + stopping[t].sum]]
      BY <1>15, <2>5 DEF StopStore
    <3>5. \A p \in Profiles : rows[p].tx <= Room(p)'
      BY <2>6, RowsKeepRoom
    <3>6. CASE rows' = rows
      BY <3>5, <3>6
    <3>7. CASE rows' = [rows EXCEPT ![owner] =
                         [stopping[t].row EXCEPT !.tx = @ + stopping[t].sum]]
      <4>1. rows'[owner].tx <= carried[owner]
        BY <2>5, <3>1, <3>3, <3>7
      <4>2. \A p \in Profiles \ {owner} : rows'[p] = rows[p]
        BY <3>7
      <4> QED
        BY <2>7, <3>5, <4>1, <4>2
    <3> QED
      BY <3>4, <3>6, <3>7
  <2>9. \A p \in Profiles : edit.id = p => edit.row.tx <= Room(p)'
    BY <2>6, RowsKeepRoom
  <2> QED
    BY <2>1, <2>2, <2>3, <2>8, <2>9
<1>16. ASSUME NEW t \in Stops, StopReset(t) PROVE RowsHaveRoom'
  BY <1>16, Stepped DEF StopReset
<1>17. ASSUME NEW t \in Stops, StopThread(t) PROVE RowsHaveRoom'
  BY <1>17, Stepped DEF StopThread
<1>18. ASSUME NEW t \in Stops, StopPost(t) PROVE RowsHaveRoom'
  <2>1. UNCHANGED <<rows, edit, session, carried, owner>> /\ ~up'
    BY <1>18 DEF StopPost
  <2>2. \A u \in Stops \ {t} : stopping'[u] = stopping[u] /\ At(u, "idle")
    BY <1>18 DEF StopPost
  <2>3. stopping[t].at = "post" /\ stopping'[t].at = "forget"
    BY <1>18, Stepped DEF StopPost
  <2>4. ~Pending /\ ~Pending'
    BY <2>1, <2>3
  <2> QED
    BY <2>1, <2>2, <2>3, <2>4
<1>19. ASSUME NEW t \in Stops, StopForget(t) PROVE RowsHaveRoom'
  <2>1. UNCHANGED <<rows, edit, session, carried, owner, up>> /\ ~up
    BY <1>19 DEF StopForget
  <2>2. (\A u \in Stops \ {t} : stopping'[u] = stopping[u]) /\ stopping'[t].at = "idle"
    BY <1>19 DEF StopForget
  <2>3. ~Pending /\ ~Pending'
    BY <2>1
  <2> QED
    BY <2>1, <2>2, <2>3
<1>20. ASSUME NEW p \in Profiles, EditLoad(p) PROVE RowsHaveRoom'
  BY <1>20 DEF EditLoad
<1>21. CASE EditStore
  <2>1. edit.id \in Profiles /\ edit.row \in Row
    BY <1>21, RowType DEF EditStore
  <2>2. [edit.row EXCEPT !.name = @ + 1].tx = edit.row.tx
    BY <2>1, RowChanges, 0 \in Nat
  <2>3. /\ rows' = [rows EXCEPT ![edit.id] = [edit.row EXCEPT !.name = @ + 1]]
        /\ UNCHANGED <<stopping, carried, owner, session, up>> /\ edit'.id = NoProfile
    BY <1>21 DEF EditStore
  <2>4. \A p \in Profiles : Room(p)' = Room(p) /\ edit'.id # p
    BY <2>3, ProfilesAssumption
  <2>5. \A p \in Profiles : rows'[p].tx <= Room(p)
    <3> HIDE DEF Room
    <3>1. \A p \in Profiles : edit.id = p => rows'[p].tx <= Room(p)
      BY <2>1, <2>2, <2>3
    <3>2. \A p \in Profiles : edit.id # p => rows'[p].tx <= Room(p)
      BY <2>3
    <3> QED
      BY <3>1, <3>2
  <2> HIDE DEF Room, Pending, Types
  <2> QED
    BY <2>3, <2>4, <2>5
<1>22. CASE UNCHANGED vars
  BY <1>22 DEF vars
<1> QED
  BY <1>1, <1>2, <1>3, <1>4, <1>5, <1>6, <1>7, <1>8, <1>9, <1>10, <1>11, <1>12, <1>13, <1>14, <1>15, <1>16, <1>17, <1>18, <1>19, <1>20, <1>21, <1>22 DEF Next, Request, StopStep

LEMMA Start == Init => IInv
<1> SUFFICES ASSUME Init PROVE IInv
  OBVIOUS
<1> USE DEF Init, At, NotStopping, Sessions, Stops, Dead, None
<1>1. Types
  <2>1. NotStopping \in Stop
    BY NotStoppingType
  <2>2. stopping \in [Stops -> Stop]
    BY <2>1
  <2>3. rows \in [Profiles -> Row] /\ profile \in RowOrNone /\ edit \in RowOrNone
    BY DEF Row, RowOrNone
  <2>4. reported \in [Sessions -> Seq(Reports)]
    OBVIOUS
  <2>5. carried \in [Profiles -> Nat] /\ named \in [Profiles -> Nat]
    OBVIOUS
  <2>6. mixed \in BOOLEAN /\ lost \in BOOLEAN /\ raced \in BOOLEAN /\ up \in BOOLEAN
    OBVIOUS
  <2> QED
    BY <2>2, <2>3, <2>4, <2>5, <2>6 DEF Types
<1>2. Names
  BY DEF Names
<1>3. OneAtATime /\ Reported
  BY DEF OneAtATime, Reported
<1>4. RowsHaveRoom
  BY ProfilesAssumption DEF RowsHaveRoom, Room, Pending
<1> QED
  BY <1>1, <1>2, <1>3, <1>4 DEF IInv, Sums

(* What went wrong once is not forgotten.                                  *)
LEMMA MixedStays ==
  /\ mixed \in BOOLEAN /\ [Next]_vars /\ mixed => mixed'
  /\ lost \in BOOLEAN /\ [Next]_vars /\ lost => lost'
BY DEF Next, Request, StopStep, vars, serviceVars, serverVars, editVars, countVars, boundVars,
       StopUnchanged, Use, StartReset, StartThread, Launch, Die, Carry, Report, Bind, Update,
       ReportFails, BeginStop, StopKill, StopSum, StopLoad, StopStore, StopReset, StopThread,
       StopPost, StopForget, EditLoad, EditStore

(* The invariant holds in every state.                                     *)
LEMMA SpecIInv == Spec => []IInv
<1>1. IInv /\ [Next]_vars => IInv'
  <2> SUFFICES ASSUME IInv, [Next]_vars PROVE IInv'
    OBVIOUS
  <2>1. Types' /\ Names'
    BY TypesStep, NamesStep DEF IInv
  <2>2. ASSUME ~mixed' PROVE OneAtATime' /\ Reported' /\ RowsHaveRoom'
    <3>1. ~mixed
      BY <2>2, MixedStays DEF IInv, Types
    <3>2. Types /\ OneAtATime /\ Reported /\ RowsHaveRoom
      BY <3>1 DEF IInv, Sums
    <3> QED
      BY <2>1, <2>2, <3>1, <3>2, OneAtATimeStep, ReportedStep, RowsStep
  <2> QED
    BY <2>1, <2>2 DEF IInv, Sums
<1> QED
  BY <1>1, Start, PTL DEF Spec

LEMMA SilentStep ==
  ASSUME Types, Types', Silent, [Next]_vars
  PROVE  Silent'
<1> USE DEF Types, At, StopUnchanged, Dead, None, Sessions, serviceVars, serverVars, editVars, countVars, boundVars,
           Silent, NotStopping, BusyPlaces
<1>b. MaxBytes \in Nat /\ MaxUses \in Nat
  BY BoundsAssumption
<1>1. ASSUME NEW p \in Profiles, Use(p) PROVE Silent'
  <2>1. /\ sslocal = Dead /\ starting' = "reset" /\ session' = 0 /\ uses' = uses + 1
        /\ uses < MaxUses
        /\ UNCHANGED <<sslocal, reported, txTotal, stopping, trafficMonitorThread>>
    BY <1>1 DEF Use
  <2>2. \A k \in Sessions : \A i \in 1..Len(reported[k]) :
          reported[k][i].session <= uses' /\ reported[k][i].session # uses'
    <3> SUFFICES ASSUME NEW k \in Sessions, NEW i \in 1..Len(reported[k])
                 PROVE  reported[k][i].session <= uses' /\ reported[k][i].session # uses'
      OBVIOUS
    <3>1. reported[k][i].session \in Nat /\ uses \in Nat
      BY ReportTypes
    <3>2. reported[k][i].session <= uses /\ uses' = uses + 1
      BY <2>1
    <3> HIDE DEF Types
    <3> QED
      BY <3>1, <3>2, NotLater
  <2>3. uses' <= MaxUses /\ uses' > 0 /\ sslocal' <= session' /\ session' <= MaxBytes
    BY <1>b, <2>1
  <2> HIDE DEF Types
  <2> QED
    BY <2>1, <2>2, <2>3
<1>2. CASE StartReset
  BY <1>2, <1>b DEF StartReset
<1>3. CASE StartThread
  BY <1>3 DEF StartThread
<1>4. CASE Launch
  BY <1>4 DEF Launch
<1>5. CASE Die
  BY <1>5 DEF Die
<1>6. CASE Carry
  BY <1>6, <1>b DEF Carry
<1>7. CASE Report
  BY <1>7, <1>b DEF Report
<1>8. ASSUME NEW k \in Sessions, Bind(k) PROVE Silent'
  BY <1>8 DEF Bind
<1>9. ASSUME NEW k \in Sessions, Update(k) PROVE Silent'
  <2>1. reported[k] \in Seq(Reports) /\ reported[k] # <<>>
    BY <1>9 DEF Update
  <2>2. Head(reported[k]) = reported[k][1] /\ 1 \in 1..Len(reported[k])
    BY <2>1
  <2>3. Head(reported[k]).tx <= MaxBytes
    BY <2>2
  <2> QED
    BY <1>9, <2>1, <2>3 DEF Update
<1>10. ASSUME NEW k \in Sessions, ReportFails(k) PROVE Silent'
  BY <1>10 DEF ReportFails
<1>11. ASSUME NEW t \in Stops, BeginStop(t) PROVE Silent'
  <2>1. GoOn(t, "kill") /\ stopping[t].at # "store"
    BY <1>11 DEF BeginStop
  <2>2. (\A u \in Stops \ {t} : stopping'[u] = stopping[u]) /\ stopping'[t].at = "kill"
    BY <2>1, Stepped
  <2> QED
    BY <1>11, <2>2 DEF BeginStop
<1>12. ASSUME NEW t \in Stops, StopKill(t) PROVE Silent'
  BY <1>12, Stepped DEF StopKill
<1>13. ASSUME NEW t \in Stops, StopSum(t) PROVE Silent'
  BY <1>13, StopSumStep DEF StopSum
<1>14. ASSUME NEW t \in Stops, StopLoad(t) PROVE Silent'
  BY <1>14, StopLoadStep DEF StopLoad
<1>15. ASSUME NEW t \in Stops, StopStore(t) PROVE Silent'
  BY <1>15, Stepped DEF StopStore
<1>16. ASSUME NEW t \in Stops, StopReset(t) PROVE Silent'
  <2>1. GoOn(t, "thread") /\ stopping[t].at = "reset" /\ txTotal' = 0
    BY <1>16 DEF StopReset
  <2>2. (\A u \in Stops \ {t} : stopping'[u] = stopping[u]) /\ stopping'[t].at = "thread"
    BY <2>1, Stepped
  <2>3. UNCHANGED <<sslocal, up, reported, uses, session, starting, trafficMonitorThread>>
    BY <1>16 DEF StopReset
  <2>4. sslocal = Dead
    BY <2>1
  <2> QED
    BY <1>b, <2>1, <2>2, <2>3, <2>4
<1>17. ASSUME NEW t \in Stops, StopThread(t) PROVE Silent'
  BY <1>17, Stepped DEF StopThread
<1>18. ASSUME NEW t \in Stops, StopPost(t) PROVE Silent'
  BY <1>18, Stepped DEF StopPost
<1>19. ASSUME NEW t \in Stops, StopForget(t) PROVE Silent'
  BY <1>19, Stepped DEF StopForget
<1>20. ASSUME NEW p \in Profiles, EditLoad(p) PROVE Silent'
  BY <1>20 DEF EditLoad
<1>21. CASE EditStore
  BY <1>21 DEF EditStore
<1>22. CASE UNCHANGED vars
  BY <1>22 DEF vars
<1> QED
  BY <1>1, <1>2, <1>3, <1>4, <1>5, <1>6, <1>7, <1>8, <1>9, <1>10, <1>11, <1>12, <1>13, <1>14, <1>15, <1>16, <1>17, <1>18, <1>19, <1>20, <1>21, <1>22 DEF Next, Request, StopStep

(* A report adds to what was reported what its launch had not told before, *)
(* which is never less than nothing.                                       *)
LEMMA CountTypes ==
  ASSUME ToldTypes, NEW report, report.launch \in Launches, report.tx \in Nat, Count(report)
  PROVE  /\ told' \in [Launches -> Nat] /\ applied' \in [Profiles -> Nat] /\ setBack' \in BOOLEAN
         /\ told'[report.launch] = IF report.tx > told[report.launch] THEN report.tx
                                                                     ELSE told[report.launch]
         /\ \A l \in Launches \ {report.launch} : told'[l] = told[l]
         /\ \A p \in Profiles : applied'[p] =
              IF p = owner THEN applied[p] + (told'[report.launch] - told[report.launch])
                           ELSE applied[p]
<1> DEFINE l == report.launch
<1>1. told[l] \in Nat
  BY DEF ToldTypes
<1>2. /\ told' \in [Launches -> Nat]
      /\ told'[l] = IF report.tx > told[l] THEN report.tx ELSE told[l]
      /\ \A m \in Launches \ {l} : told'[m] = told[m]
  BY <1>1 DEF Count, ToldTypes
<1>3. told'[l] - told[l] \in Nat
  BY <1>1, <1>2
<1>4. applied' = [applied EXCEPT ![owner] = @ + told'[l] - told[l]]
  BY DEF Count
<1>5. \A n \in Nat : n + told'[l] - told[l] = n + (told'[l] - told[l])
  BY <1>1, <1>2
<1>6. \A p \in Profiles : applied[p] \in Nat
  BY DEF ToldTypes
<1>7. \A p \in Profiles : applied'[p] =
        IF p = owner THEN applied[p] + (told'[l] - told[l]) ELSE applied[p]
  BY <1>4, <1>5, <1>6 DEF ToldTypes
<1>8. applied' \in [Profiles -> Nat]
  <2>1. \A p \in Profiles : applied'[p] \in Nat
    BY <1>3, <1>6, <1>7
  <2> QED
    BY <1>4, <2>1 DEF ToldTypes
<1>9. setBack' \in BOOLEAN
  BY DEF Count, ToldTypes
<1> QED
  BY <1>2, <1>7, <1>8, <1>9

LEMMA ToldTypesStep ==
  ASSUME Types, Types', Silent, ToldTypes, [Next]_vars
  PROVE  ToldTypes'
<1> USE DEF Types, ToldTypes, StopUnchanged, Dead, None, serviceVars, serverVars, editVars, countVars,
           toldVars, boundVars
<1>b. MaxLaunches \in Nat
  BY BoundsAssumption
<1>1. ASSUME NEW p \in Profiles, Use(p) PROVE ToldTypes'
  BY <1>1, <1>b DEF Use, Silent, NothingTold
<1>2. CASE StartReset
  BY <1>2 DEF StartReset
<1>3. CASE StartThread
  BY <1>3 DEF StartThread
<1>4. CASE Launch
  BY <1>4, <1>b DEF Launch
<1>5. CASE Die
  BY <1>5 DEF Die
<1>6. CASE Carry
  BY <1>6 DEF Carry
<1>7. CASE Report
  <2>1. [session |-> uses, launch |-> launch, tx |-> sslocal] \in Reports
    BY <1>7 DEF Report, Reports
  <2>2. launch \in Launches /\ path \in Sessions /\ UNCHANGED <<toldVars, sslocal, launch>>
    BY <1>7, <1>b DEF Report, Launches
  <2>3. reported[path] \in Seq(Reports)
    BY <2>2
  <2>4. reported' = [reported EXCEPT ![path] =
                      Append(@, [session |-> uses, launch |-> launch, tx |-> sslocal])]
    BY <1>7 DEF Report
  <2>5. \A j \in Sessions : \A i \in 1..Len(reported'[j]) : reported'[j][i].launch \in Launches
    <3> DEFINE report == [session |-> uses, launch |-> launch, tx |-> sslocal]
    <3>1. report.launch \in Launches
      BY <2>2
    <3> HIDE DEF report
    <3>2. \A i \in 1..Len(Append(reported[path], report)) :
            Append(reported[path], report)[i].launch \in Launches
      <4>1. \A i \in 1..Len(reported[path]) : reported[path][i].launch \in Launches
        BY <2>2
      <4> HIDE DEF Types, ToldTypes
      <4> QED
        BY <2>1, <2>3, <3>1, <4>1 DEF report
    <3>3. reported' = [reported EXCEPT ![path] = Append(@, report)]
      BY <2>4 DEF report
    <3> QED
      BY <2>2, <3>2, <3>3
  <2> QED
    BY <2>2, <2>5
<1>8. ASSUME NEW k \in Sessions, Bind(k) PROVE ToldTypes'
  BY <1>8 DEF Bind
<1>9. ASSUME NEW k \in Sessions, Update(k) PROVE ToldTypes'
  <2> DEFINE report == Head(reported[k])
  <2>1. reported[k] \in Seq(Reports) /\ reported[k] # <<>>
    BY <1>9 DEF Update
  <2>2. report = reported[k][1] /\ 1 \in 1..Len(reported[k]) /\ report \in Reports
    BY <2>1, TailType
  <2>3. report.launch \in Launches /\ report.tx \in Nat
    BY <2>2 DEF Reports
  <2>4. reported' = [reported EXCEPT ![k] = Tail(@)] /\ launch' = launch /\ sslocal' = sslocal
    BY <1>9 DEF Update
  <2>5. \A j \in Sessions : \A i \in 1..Len(reported'[j]) : reported'[j][i].launch \in Launches
    BY <2>1, <2>4
  <2>6. told' \in [Launches -> Nat] /\ applied' \in [Profiles -> Nat] /\ setBack' \in BOOLEAN
    <3> HIDE DEF report
    <3>1. CASE Count(report)
      BY <2>3, <3>1, CountTypes
    <3>2. CASE UNCHANGED toldVars
      BY <3>2
    <3> QED
      BY <1>9, <3>1, <3>2 DEF Update, report
  <2> QED
    BY <2>4, <2>5, <2>6
<1>10. ASSUME NEW k \in Sessions, ReportFails(k) PROVE ToldTypes'
  BY <1>10 DEF ReportFails
<1>11. ASSUME NEW t \in Stops, BeginStop(t) PROVE ToldTypes'
  BY <1>11 DEF BeginStop
<1>12. ASSUME NEW t \in Stops, StopStep(t) PROVE ToldTypes'
  BY <1>12 DEF StopStep, StopKill, StopSum, StopLoad, StopStore, StopReset, StopThread, StopPost,
               StopForget
<1>13. ASSUME NEW p \in Profiles, EditLoad(p) PROVE ToldTypes'
  BY <1>13 DEF EditLoad
<1>14. CASE EditStore
  BY <1>14 DEF EditStore
<1>15. CASE UNCHANGED vars
  BY <1>15 DEF vars
<1> QED
  BY <1>1, <1>2, <1>3, <1>4, <1>5, <1>6, <1>7, <1>8, <1>9, <1>10, <1>11, <1>12, <1>13, <1>14, <1>15 DEF Next, Request

LEMMA CountedStep ==
  ASSUME Types, Types', ToldTypes, ToldTypes', ~mixed', ~lost', OneAtATime, RowsHaveRoom, Silent, Counted,
         [Next]_vars
  PROVE  Counted'
<1> USE DEF Types, At, StopUnchanged, Dead, None, serviceVars, serverVars, editVars, countVars, toldVars,
           boundVars, OneAtATime, Counted, Saved, Agrees, Remembered, InTime, NotStopping, BusyPlaces
<1>1. ASSUME NEW p \in Profiles, Use(p) PROVE Counted'
  BY <1>1 DEF Use
<1>2. CASE StartReset
  BY <1>2 DEF StartReset
<1>3. CASE StartThread
  <2>1. /\ txTotal = 0 /\ told = NothingTold /\ up /\ owner \in Profiles
        /\ \A p \in Profiles : Saved(p)
        /\ UNCHANGED <<rows, toldVars, owner, profile, up, stopping, txTotal>> /\ starting' = "no"
    BY <1>3 DEF StartThread
  <2>2. rows[owner].tx \in Nat /\ \A l \in Launches : told[l] = 0
    BY <2>1, RowTxType DEF NothingTold
  <2>3. Saved(owner)
    BY <2>1
  <2>4. Agrees(rows[owner].tx + txTotal, applied[owner])'
    BY <2>1, <2>2, <2>3
  <2>5. Remembered'
    BY <2>1, <2>2, <2>3
  <2>6. \A p \in Profiles : Saved(p)'
    BY <2>1
  <2>7. \A t \in Stops : stopping'[t].at = "idle"
    BY <1>3, <2>1 DEF StartThread
  <2> HIDE DEF Types, Agrees, Saved, Remembered, InTime
  <2> QED
    BY <2>1, <2>4, <2>5, <2>6, <2>7
<1>4. CASE Launch
  BY <1>4 DEF Launch
<1>5. CASE Die
  BY <1>5 DEF Die
<1>6. CASE Carry
  BY <1>6 DEF Carry
<1>7. CASE Report
  BY <1>7 DEF Report
<1>8. ASSUME NEW k \in Sessions, Bind(k) PROVE Counted'
  BY <1>8 DEF Bind
<1>9. ASSUME NEW k \in Sessions, Update(k) PROVE Counted'
  <2>1. /\ Head(reported[k]).session = uses /\ txTotal' = Head(reported[k]).tx
        /\ UNCHANGED <<rows, stopping, up, starting, owner, profile>>
    BY <1>9 DEF Update
  <2>2. /\ Head(reported[k]) = reported[k][1] /\ 1 \in 1..Len(reported[k])
        /\ Head(reported[k]).tx \in Nat
    <3>1. reported[k] \in Seq(Reports) /\ reported[k] # <<>>
      BY <1>9 DEF Update
    <3>2. Head(reported[k]) \in Reports
      BY <3>1, TailType
    <3>3. Head(reported[k]).tx \in Nat
      BY <3>2 DEF Reports
    <3>4. Head(reported[k]) = reported[k][1] /\ 1 \in 1..Len(reported[k])
      BY <3>1
    <3> QED
      BY <3>3, <3>4
  <2>3. starting = "no"
    BY <2>1, <2>2 DEF Silent
  <2>4. CASE InTime
    <3> DEFINE report == Head(reported[k])
               l == report.launch
    <3>1. Count(report) /\ l \in Launches
      BY <1>9, <2>1, <2>2, <2>4 DEF Update, ToldTypes
    <3>2. /\ owner \in Profiles /\ rows[owner].tx \in Nat /\ applied[owner] \in Nat
          /\ \A m \in Launches : told[m] \in Nat
      BY <2>4, RowTxType DEF ToldTypes
    <3>3. /\ told'[l] = IF report.tx > told[l] THEN report.tx ELSE told[l]
          /\ \A m \in Launches \ {l} : told'[m] = told[m]
          /\ applied'[owner] = applied[owner] + (told'[l] - told[l])
          /\ \A p \in Profiles \ {owner} : applied'[p] = applied[p]
      BY <2>2, <3>1, <3>2, CountTypes
    <3>a. report.tx \in Nat /\ told[l] \in Nat
      BY <2>2, <3>1, <3>2
    <3>4. ~setBack' => /\ ~setBack /\ ~(report.tx < told[l])
                       /\ \A m \in Launches \ {l} : ~(told[m] > 0)
      BY <3>1 DEF Count
    <3>5. \A m \in Launches : rows[owner].tx + told'[m] <= applied'[owner]
      <4>1. \A m \in Launches : rows[owner].tx + told[m] <= applied[owner]
        BY <2>4
      <4> HIDE DEF Types, Counted, Remembered, Agrees, report, l
      <4>2. told'[l] >= told[l] /\ told'[l] \in Nat
        BY <3>a, <3>3
      <4>3. rows[owner].tx + told'[l] <= applied'[owner]
        BY <3>1, <3>2, <3>3, <4>1, <4>2
      <4>4. \A m \in Launches \ {l} : rows[owner].tx + told'[m] <= applied'[owner]
        BY <3>1, <3>2, <3>3, <4>1, <4>2
      <4> QED
        BY <4>3, <4>4
    <3>6. ~setBack' => /\ told'[l] = report.tx /\ txTotal = told[l]
                       /\ \A m \in Launches \ {l} : told'[m] = 0
      <4>a. ~setBack /\ (\A m \in Launches \ {l} : told[m] = 0) => txTotal = told[l]
        BY <2>4, <3>1
      <4> HIDE DEF Types, Counted, Remembered, Agrees, report, l
      <4>1. ~setBack' => \A m \in Launches \ {l} : told[m] = 0
        BY <3>2, <3>4
      <4>2. ~setBack' => txTotal = told[l]
        BY <3>4, <4>a, <4>1
      <4>3. ~setBack' => told'[l] = report.tx
        BY <3>a, <3>3, <3>4
      <4> QED
        BY <3>3, <4>1, <4>2, <4>3
    <3>7. Agrees(rows[owner].tx + txTotal, applied[owner])'
      <4>1. told'[l] \in Nat /\ report.tx <= told'[l] /\ report.tx \in Nat
        <5> HIDE DEF Types, Counted, Remembered, Agrees, report, l
        <5> QED
          BY <3>a, <3>3
      <4>2. txTotal' = report.tx /\ rows' = rows /\ owner' = owner
        BY <2>1
      <4>3. ~setBack' => rows[owner].tx + told[l] = applied[owner]
        BY <2>4, <3>4, <3>6
      <4> HIDE DEF Types, Counted, Remembered, report, l
      <4>4. rows[owner].tx + report.tx <= applied'[owner]
        <5>1. rows[owner].tx + told'[l] <= applied'[owner] /\ applied'[owner] \in Int
          BY <3>1, <3>2, <3>3, <3>5, <4>1
        <5> QED
          BY <3>2, <4>1, <5>1
      <4>5. ~setBack' => rows[owner].tx + report.tx = applied'[owner]
        BY <3>1, <3>2, <3>3, <3>6, <4>1, <4>3
      <4> QED
        BY <4>2, <4>4, <4>5
    <3>8. Remembered'
      <4>1. txTotal' = report.tx /\ rows' = rows /\ owner' = owner
        BY <2>1
      <4>2. ASSUME ~setBack', NEW m \in Launches, \A n \in Launches \ {m} : told'[n] = 0
            PROVE  report.tx = told'[m]
        <5> HIDE DEF Types, Counted, Remembered, Agrees, report, l
        <5>1. CASE m = l
          BY <3>6, <4>2, <5>1
        <5>2. CASE m # l
          BY <3>1, <3>6, <4>2, <5>2
        <5> QED
          BY <5>1, <5>2
      <4> HIDE DEF Types, Counted, Agrees, report, l
      <4> QED
        BY <3>5, <4>1, <4>2
    <3>9. up' /\ starting' = "no" /\ \A t \in Stops : stopping'[t].at \in {"idle", "kill", "sum"}
      BY <2>1, <2>4
    <3>10. \A p \in Profiles : p # owner => Saved(p)'
      <4>1. \A p \in Profiles : p # owner => Saved(p)
        OBVIOUS
      <4> HIDE DEF Types, Counted, Remembered, report, l
      <4> QED
        BY <2>1, <3>3, <3>4, <4>1
    <3>11. up => profile.id = owner
      OBVIOUS
    <3> HIDE DEF Types, Agrees, Remembered, Saved, InTime, report, l
    <3> QED
      BY <2>1, <3>7, <3>8, <3>9, <3>10, <3>11
  <2>5. CASE ~InTime
    <3>1. UNCHANGED toldVars /\ ~InTime'
      BY <1>9, <2>1, <2>5 DEF Update
    <3> QED
      BY <2>1, <2>3, <3>1
  <2> QED
    BY <2>4, <2>5
<1>10. ASSUME NEW k \in Sessions, ReportFails(k) PROVE Counted'
  BY <1>10 DEF ReportFails
<1>11. ASSUME NEW t \in Stops, BeginStop(t) PROVE Counted'
  <2>1. GoOn(t, "kill") /\ stopping[t].at = "idle"
    BY <1>11 DEF BeginStop
  <2>2. (\A u \in Stops \ {t} : stopping'[u] = stopping[u]) /\ stopping'[t].at = "kill"
    BY <2>1, Stepped
  <2>3. UNCHANGED <<rows, toldVars, owner, profile, up, starting, txTotal>>
    BY <1>11 DEF BeginStop
  <2>4. InTime' => InTime
    BY <2>1, <2>2, <2>3
  <2> HIDE DEF Types, InTime
  <2> QED
    BY <2>2, <2>3, <2>4
<1>12. ASSUME NEW t \in Stops, StopKill(t) PROVE Counted'
  <2>1. GoOn(t, "sum") /\ stopping[t].at = "kill"
    BY <1>12 DEF StopKill
  <2>2. (\A u \in Stops \ {t} : stopping'[u] = stopping[u]) /\ stopping'[t].at = "sum"
    BY <2>1, Stepped
  <2>3. UNCHANGED <<rows, toldVars, owner, profile, up, starting, txTotal>>
    BY <1>12 DEF StopKill
  <2>4. InTime' => InTime
    BY <2>1, <2>2, <2>3
  <2> HIDE DEF Types, InTime
  <2> QED
    BY <2>2, <2>3, <2>4
<1>13. ASSUME NEW t \in Stops, StopSum(t) PROVE Counted'
  BY <1>13, StopSumStep DEF StopSum
<1>14. ASSUME NEW t \in Stops, StopLoad(t) PROVE Counted'
  <2>1. /\ UNCHANGED <<rows, toldVars, owner, profile, up, starting, txTotal>>
        /\ stopping[t].at = "load"
    BY <1>14 DEF StopLoad
  <2>2. \A u \in Stops \ {t} : stopping'[u] = stopping[u] /\ stopping'[u].at = "idle"
    BY <2>1, <1>14, StopLoadStep
  <2>3. starting = "no" /\ (profile.id # NoProfile => profile.id = owner /\ up)
    BY <2>1, <2>2
  <2>4. CASE stopping'[t].at = "reset"
    <3>1. profile.id = NoProfile
      <4>1. CASE GoOn(t, "reset") /\ lost' = (lost \/ profile.id # NoProfile)
        BY <4>1
      <4>2. CASE stopping' = [stopping EXCEPT ![t] =
                   [at |-> "store", sum |-> @.sum, id |-> profile.id, row |-> rows[profile.id]]]
        BY <2>4, <4>2
      <4> QED
        BY <1>14, <4>1, <4>2 DEF StopLoad
    <3>2. ~up
      BY <3>1, ProfilesAssumption
    <3>3. \A p \in Profiles : Agrees(rows[p].tx, applied[p])'
      BY <2>1, <3>2
    <3> HIDE DEF Types
    <3> QED
      BY <2>1, <2>2, <2>3, <2>4, <3>2, <3>3
  <2>5. CASE /\ profile.id \in Profiles
             /\ stopping'[t] = [at |-> "store", sum |-> stopping[t].sum, id |-> profile.id,
                                row |-> rows[profile.id]]
    <3>1. profile.id = owner /\ up /\ owner \in Profiles
      BY <2>3, <2>5, ProfilesAssumption
    <3>2. /\ stopping'[t].at = "store" /\ stopping'[t].sum = stopping[t].sum
          /\ stopping'[t].row.tx = rows'[owner'].tx
      BY <2>1, <2>5, <3>1
    <3>3. Agrees(rows[owner].tx + stopping[t].sum, applied[owner])'
      BY <2>1, <3>1, <3>2
    <3>4. ~InTime'
      BY <3>2
    <3> HIDE DEF Types, InTime
    <3> QED
      BY <2>1, <2>2, <2>3, <3>1, <3>2, <3>3, <3>4
  <2> QED
    BY <1>14, <2>4, <2>5, StopLoadStep
<1>15. ASSUME NEW t \in Stops, StopStore(t) PROVE Counted'
  <2>1. /\ UNCHANGED <<toldVars, owner, profile, up, starting, txTotal>>
        /\ stopping[t].at = "store" /\ stopping'[t].at = "reset"
    BY <1>15 DEF StopStore
  <2>2. \A u \in Stops \ {t} : stopping'[u] = stopping[u] /\ stopping'[u].at = "idle"
    BY <1>15, <2>1 DEF StopStore
  <2>3. /\ stopping[t].id = owner /\ up /\ starting = "no" /\ owner \in Profiles
        /\ stopping[t].row \in Row /\ stopping[t].sum \in Nat
    BY <2>1, <2>2, StoringType DEF RowsHaveRoom
  <2>4. rows' = [rows EXCEPT ![owner] = [stopping[t].row EXCEPT !.tx = @ + stopping[t].sum]]
    BY <1>15, <2>3 DEF StopStore
  <2>5. [stopping[t].row EXCEPT !.tx = @ + stopping[t].sum].tx = stopping[t].row.tx + stopping[t].sum
    BY <2>3, RowChanges
  <2>6. Agrees(rows'[owner].tx, applied[owner])
    BY <2>1, <2>3, <2>4, <2>5
  <2>7. \A p \in Profiles \ {owner} : Agrees(rows'[p].tx, applied[p])
    BY <2>4
  <2>8. \A p \in Profiles : Agrees(rows[p].tx, applied[p])'
    BY <2>1, <2>6, <2>7
  <2>9. ~InTime'
    BY <2>1
  <2> HIDE DEF Types, InTime
  <2> QED
    BY <2>1, <2>2, <2>3, <2>8, <2>9
<1>16. ASSUME NEW t \in Stops, StopReset(t) PROVE Counted'
  <2>1. GoOn(t, "thread") /\ stopping[t].at = "reset"
    BY <1>16 DEF StopReset
  <2>2. \A u \in Stops \ {t} : stopping'[u] = stopping[u] /\ stopping'[u].at = "idle"
    <3>1. \A u \in Stops \ {t} : stopping'[u] = stopping[u]
      BY <2>1, Stepped
    <3> QED
      BY <2>1, <3>1
  <2>3. stopping'[t].at = "thread"
    BY <2>1, Stepped
  <2>4. UNCHANGED <<rows, toldVars, owner, profile, up, starting>> /\ starting = "no"
    BY <1>16, <2>1 DEF StopReset
  <2>5. \A p \in Profiles : Agrees(rows[p].tx, applied[p])'
    BY <2>1, <2>4
  <2>6. ~InTime'
    BY <2>3
  <2> HIDE DEF Types, InTime
  <2> QED
    BY <2>2, <2>3, <2>4, <2>5, <2>6
<1>17. ASSUME NEW t \in Stops, StopThread(t) PROVE Counted'
  <2>1. GoOn(t, "post") /\ stopping[t].at = "thread"
    BY <1>17 DEF StopThread
  <2>2. \A u \in Stops \ {t} : stopping'[u] = stopping[u] /\ stopping'[u].at = "idle"
    <3>1. \A u \in Stops \ {t} : stopping'[u] = stopping[u]
      BY <2>1, Stepped
    <3> QED
      BY <2>1, <3>1
  <2>3. stopping'[t].at = "post"
    BY <2>1, Stepped
  <2>4. UNCHANGED <<rows, toldVars, owner, profile, up, starting>> /\ starting = "no"
    BY <1>17, <2>1 DEF StopThread
  <2>5. \A p \in Profiles : Agrees(rows[p].tx, applied[p])'
    BY <2>1, <2>4
  <2>6. ~InTime'
    BY <2>3
  <2> HIDE DEF Types, InTime
  <2> QED
    BY <2>2, <2>3, <2>4, <2>5, <2>6
<1>18. ASSUME NEW t \in Stops, StopPost(t) PROVE Counted'
  <2>1. GoOn(t, "forget") /\ stopping[t].at = "post" /\ ~up'
    BY <1>18 DEF StopPost
  <2>2. \A u \in Stops \ {t} : stopping'[u] = stopping[u] /\ stopping'[u].at = "idle"
    <3>1. \A u \in Stops \ {t} : stopping'[u] = stopping[u]
      BY <2>1, Stepped
    <3> QED
      BY <2>1, <3>1
  <2>3. stopping'[t].at = "forget"
    BY <2>1, Stepped
  <2>4. UNCHANGED <<rows, toldVars, starting>> /\ starting = "no"
    BY <1>18, <2>1 DEF StopPost
  <2>5. \A p \in Profiles : Agrees(rows[p].tx, applied[p])'
    BY <2>1, <2>4
  <2> HIDE DEF Types
  <2> QED
    BY <2>1, <2>2, <2>3, <2>4, <2>5
<1>19. ASSUME NEW t \in Stops, StopForget(t) PROVE Counted'
  BY <1>19, Stepped DEF StopForget
<1>20. ASSUME NEW p \in Profiles, EditLoad(p) PROVE Counted'
  BY <1>20 DEF EditLoad
<1>21. CASE EditStore
  <2>1. edit.id \in Profiles /\ edit.row \in Row
    BY <1>21, RowType DEF EditStore
  <2>2. [edit.row EXCEPT !.name = @ + 1].tx = edit.row.tx
    BY <2>1, RowChanges, 0 \in Nat
  <2>3. /\ rows' = [rows EXCEPT ![edit.id] = [edit.row EXCEPT !.name = @ + 1]]
        /\ rows[edit.id].tx = edit.row.tx
        /\ UNCHANGED <<stopping, toldVars, owner, profile, up, starting, txTotal>>
    BY <1>21 DEF EditStore
  <2>4. \A p \in Profiles : rows'[p].tx = rows[p].tx
    BY <2>1, <2>2, <2>3
  <2>5. InTime' = InTime
    BY <2>3
  <2>6. up => owner \in Profiles
    OBVIOUS
  <2>7. \A u \in Stops : At(u, "store") => up
    BY DEF RowsHaveRoom
  <2> HIDE DEF Types, InTime
  <2> QED
    BY <2>3, <2>4, <2>5, <2>6, <2>7 DEF InTime
<1>22. CASE UNCHANGED vars
  BY <1>22 DEF vars
<1> QED
  BY <1>1, <1>2, <1>3, <1>4, <1>5, <1>6, <1>7, <1>8, <1>9, <1>10, <1>11, <1>12, <1>13, <1>14, <1>15, <1>16, <1>17, <1>18, <1>19, <1>20, <1>21, <1>22 DEF Next, Request, StopStep

LEMMA SpecExact == Spec => []Exact
<1>1. Init => Exact
  <2>1. MaxBytes \in Nat /\ MaxUses \in Nat
    BY BoundsAssumption
  <2>2. Init => Silent
    BY <2>1 DEF Init, Silent, NotStopping, None, Dead
  <2>3. Init => Counted
    BY DEF Init, Counted, Saved, Agrees, InTime, At, NotStopping
  <2>4. Init => ToldTypes
    <3>1. MaxLaunches \in Nat
      BY BoundsAssumption
    <3>2. Init => /\ told = NothingTold /\ applied = [p \in Profiles |-> 0]
                  /\ launch = 0 /\ sslocal = Dead /\ reported = [k \in Sessions |-> << >>]
      BY DEF Init
    <3>3. NothingTold \in [Launches -> Nat]
      BY DEF NothingTold
    <3>4. Init => \A k \in Sessions : Len(reported[k]) = 0
      BY <3>2
    <3>5. Init => \A k \in Sessions : \A i \in 1..Len(reported[k]) : reported[k][i].launch \in Launches
      BY <3>4
    <3>6. Init => told \in [Launches -> Nat] /\ applied \in [Profiles -> Nat]
      BY <3>2, <3>3
    <3>7. Init => setBack \in BOOLEAN
      BY DEF Init
    <3>8. Init => launch <= MaxLaunches /\ (sslocal # Dead => launch > 0)
      BY <3>1, <3>2
    <3> QED
      BY <3>5, <3>6, <3>7, <3>8 DEF ToldTypes
  <2> QED
    BY <2>2, <2>3, <2>4 DEF Exact
<1>2. IInv /\ IInv' /\ Exact /\ [Next]_vars => Exact'
  <2> SUFFICES ASSUME IInv, IInv', Exact, [Next]_vars PROVE Exact'
    OBVIOUS
  <2>1. Types /\ Types' /\ Silent /\ ToldTypes
    BY DEF IInv, Exact
  <2>2. Silent' /\ ToldTypes'
    BY <2>1, SilentStep, ToldTypesStep
  <2>3. ASSUME ~mixed', ~lost' PROVE Counted'
    <3>1. ~mixed /\ ~lost
      BY <2>1, <2>3, MixedStays DEF Types
    <3>2. OneAtATime /\ RowsHaveRoom /\ Counted
      BY <3>1 DEF IInv, Sums, Exact
    <3> QED
      BY <2>1, <2>2, <2>3, <3>2, CountedStep
  <2> QED
    BY <2>2, <2>3 DEF Exact
<1> QED
  BY <1>1, <1>2, SpecIInv, PTL DEF Spec

-----------------------------------------------------------------------------
(* No stop undoes an edit of a profile by the main process, except one     *)
(* that is stored between the read and the write of updateTrafficTotal.    *)
THEOREM SpecEditsSurvive == Spec => []EditsSurvive
<1>1. IInv => EditsSurvive
  BY DEF IInv, Names, EditsSurvive
<1> QED
  BY <1>1, SpecIInv, PTL

(* As long as stops and starts do not overlap and no report reaches a      *)
(* later session, neither the total that is shown nor that of a profile is *)
(* more than ss-local has carried.                                         *)
THEOREM SpecNeverTooMuch == Spec => []NeverTooMuch
<1>1. IInv => NeverTooMuch
  <2> SUFFICES ASSUME IInv, ~mixed PROVE NeverTooMuch
    BY DEF NeverTooMuch
  <2>1. Types /\ Reported /\ RowsHaveRoom
    BY DEF IInv, Sums
  <2>2. ASSUME NEW p \in Profiles PROVE rows[p].tx <= carried[p]
    <3>1. rows[p].tx \in Nat /\ carried[p] \in Nat /\ session \in Nat
      BY <2>1, RowTxType DEF Types
    <3>2. rows[p].tx <= Room(p)
      BY <2>1 DEF RowsHaveRoom
    <3> QED
      BY <3>1, <3>2 DEF Room
  <2> QED
    BY <2>1, <2>2 DEF NeverTooMuch, Reported
<1> QED
  BY <1>1, SpecIInv, PTL

(* Unless stops overlap, a report reaches a later session, the row cannot  *)
(* be read or written, or the main process writes an older one back: a     *)
(* profile at rest has not got more than ss-local reported before its      *)
(* stops read the total, and exactly that, once, unless a report took the  *)
(* place of one of an earlier launch or of a later one; and the variables  *)
(* keep within their bounds.                                               *)
THEOREM SpecCountedOnce == Spec => []CountedOnce
<1>1. IInv /\ Exact => TrafficTypeOK
  <2> SUFFICES ASSUME Types, Silent PROVE TrafficTypeOK
    BY DEF IInv, Exact
  <2>1. MaxBytes \in Nat
    BY BoundsAssumption
  <2> QED
    BY <2>1 DEF TrafficTypeOK, Types, Silent, Dead, None
<1>2. IInv /\ Exact /\ AtRest /\ ~mixed /\ ~lost =>
        \A p \in Profiles : rows[p].tx <= applied[p] /\ (~setBack => rows[p].tx = applied[p])
  BY DEF Exact, Counted, Saved, Agrees, AtRest
<1>3. Spec => []NeverTooMuch
  BY SpecNeverTooMuch
<1>4. IInv /\ Exact /\ NeverTooMuch => CountedOnce
  BY <1>1, <1>2 DEF CountedOnce
<1> QED
  BY <1>3, <1>4, SpecIInv, SpecExact, PTL

=============================================================================
