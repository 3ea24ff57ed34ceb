------------------------- MODULE BaseServiceProofs -------------------------
(***************************************************************************)
(* What the steps of the trait BaseService keep, for any profiles, any     *)
(* executables and any number of requests: the lemmas that the proofs      *)
(* about a service rest on.                                                *)
(***************************************************************************)
EXTENDS BaseService, TLAPS

(* The sequence s goes through the set S, each element once.               *)
Orders(s, S) ==
  /\ s \in Seq(S)
  /\ \A i, j \in 1..Len(s) : s[i] = s[j] => i = j
  /\ \A x \in S : \E i \in 1..Len(s) : s[i] = x

(* The places of killProcesses and of stopRunner.                          *)
Kills == Executables \cup (IF IsNat THEN {"flush"} ELSE {})
Stops ==
  Kills \cup {"notification", "stopping", "receiver", "trafficMonitor", "stopped", "forget"}
        \cup (IF IsNat THEN {"su"} ELSE {"vpnThread", "conn"})

(* Where a thread may be.                                                  *)
Starting == {<<"start", x>> : x \in {"profile", "trafficMonitor", "run", "receiver",
                                     "connecting", "future"}}
Fresh == {<<"start", "profile">>, <<"start", "trafficMonitor">>}
StopPlaces == {Idle} \cup {<<"stop", x>> : x \in Stops}
StarterPlaces ==
  StopPlaces \cup Starting \cup {<<"use", "switch">>}
    \cup {<<"start", x>> : x \in {"prepare", "shell", "su", "result", "failed"}}
RunPlaces ==
  StopPlaces \cup {<<"kill", x>> : x \in Kills}
    \cup {<<"connect", x>> : x \in {"request", "vpnThread", "run", "establish", "fd", "resolve",
                                    "rules", "connected", "notify", "assign"}}
    \cup {<<m, x>> : m \in {"launch", "store"}, x \in Executables}
PlacesOf(t) ==
  IF t \in Runs THEN RunPlaces ELSE IF t \in Starters THEN StarterPlaces ELSE StopPlaces

Shapes ==
  /\ DOMAIN at = Threads /\ at = [t \in Threads |-> at[t]]
  /\ DOMAIN phase = Threads /\ DOMAIN next = Starters
  /\ DOMAIN field = Resources /\ DOMAIN live = Resources
  /\ runs \in Nat
  /\ \A t \in Threads : at[t] \in PlacesOf(t)

(* The place of an executable in the order of the launches.                *)
Rank(x) == CHOOSE j \in DOMAIN LaunchOrder : LaunchOrder[j] = x

(* What a connect() at a place of its own is still to make.                *)
ToMake(place) ==
  {r \in Resources \ {"trafficMonitor"} :
    \/ place = <<"connect", "vpnThread">>
    \/ r # "vpnThread" /\ place[1] = "kill"
    \/ r # "vpnThread" /\ place \in {<<"connect", x>> : x \in {"run", "establish", "request"}}
    \/ /\ r \in Executables
       /\ \/ place \in {<<"connect", "fd">>, <<"connect", "resolve">>}
          \/ place[1] = "launch" /\ Rank(place[2]) <= Rank(r)
          \/ place[1] = "store" /\ Rank(place[2]) < Rank(r)}

(* What the run that is starting or at work is still to make.              *)
Ahead ==
  {r \in Resources :
    \/ r = "trafficMonitor" /\ \E t \in Starters :
         at[t] \in Fresh
    \/ r # "trafficMonitor" /\ \E t \in Starters : at[t] \in Starting
    \/ \E c \in Runs : r \in ToMake(at[c])}

(* The run that is starting, or else the last one.                         *)
Current == IF \E t \in Starters : at[t] \in Starting THEN runs + 1 ELSE runs

(* One run at a time: only the last run has a thread, and none when the    *)
(* next one starts.                                                        *)
OneRun ==
  /\ \A c \in Runs : c # runs => at[c] = Idle
  /\ \A t \in Starters : at[t] \in Starting =>
       /\ \A u \in Starters : at[u] \in Starting => u = t
       /\ \A c \in Runs : at[c] = Idle

(* Resources are those of the current run.                                 *)
Owned == \A r \in Resources : field[r] \in {None, Current} /\ live[r] \subseteq {Current} \ {None}

(* Nothing is there before it is made.                                     *)
Unmade ==
  /\ \A r \in Ahead : field[r] = None /\ live[r] = {}
  /\ \A c \in Runs, r \in Resources : at[c] = <<"store", r>> => field[r] = None

(* Who releases a resource works on one that was made, and that is not at  *)
(* work any more when its field is cleared.                                *)
Released ==
  \A t \in Threads, r \in Resources :
    Releases(t, r) /\ phase[t] \in {"call", "clear"} =>
      /\ r \notin Ahead
      /\ \A c \in Runs : at[c] # <<"store", r>>
      /\ phase[t] = "clear" => live[r] = {}

(* What is at work is in its field, or about to be.                        *)
Found ==
  \A r \in Resources : \A c \in live[r] :
    field[r] = c \/ (c \in Runs /\ at[c] = <<"store", r>>)

Tracked == OneRun /\ Owned /\ Unmade /\ Released /\ Found
Kept == ~startedDirty => Tracked

(* A thread that goes to a place starts nothing, and then takes nothing in *)
(* hand and puts nothing in a field.                                       *)
Continues(t, place) ==
  /\ t \in Starters =>
       (place \in Starting <=> at[t] \in Starting) /\ (place \in Fresh => at[t] \in Fresh)
  /\ t \in Runs => (at[t] = Idle => place = Idle) /\ ToMake(place) \subseteq ToMake(at[t])

Advances(t, place) ==
  Continues(t, place) /\ place[1] # "store" /\ at[t][1] # "store"

-----------------------------------------------------------------------------
(* The orders of the code.                                                 *)

LEMMA AddedLast ==
  ASSUME NEW S, NEW s, Orders(s, S), NEW x, x \notin S
  PROVE  Orders(s \o <<x>>, S \cup {x})
<1> DEFINE u == s \o <<x>>
<1>1. s \in Seq(S) /\ Len(s) \in Nat
  BY DEF Orders
<1>2. u \in Seq(S \cup {x}) /\ Len(u) = Len(s) + 1 /\ u[Len(s) + 1] = x
      /\ \A i \in 1..Len(s) : u[i] = s[i] /\ s[i] \in S
  BY <1>1
<1>3. \A i \in 1..Len(u) : i \in 1..Len(s) \/ i = Len(s) + 1
  BY <1>1, <1>2
<1>4. \A i \in 1..Len(s) : i \in 1..Len(u)
  BY <1>1, <1>2
<1>5. Len(s) + 1 \in 1..Len(u)
  BY <1>1, <1>2
<1> HIDE DEF u
<1>6. ASSUME NEW i \in 1..Len(u), NEW j \in 1..Len(u), u[i] = u[j] PROVE i = j
  BY <1>2, <1>3, <1>6 DEF Orders
<1>7. ASSUME NEW y \in S \cup {x} PROVE \E i \in 1..Len(u) : u[i] = y
  BY <1>2, <1>4, <1>5 DEF Orders
<1>8. Orders(u, S \cup {x})
  BY <1>2, <1>6, <1>7 DEF Orders
<1>9. QED
  BY <1>8 DEF u

(* An executable that the instance may have not.                           *)
LEMMA PresentLast ==
  ASSUME NEW S, NEW s, Orders(s, S), NEW x, x \notin S
  PROVE  Orders(s \o Present(x), S \cup (Executables \cap {x}))
<1>1. CASE x \in Executables
  <2>1. Executables \cap {x} = {x} /\ Present(x) = <<x>>
    BY <1>1 DEF Present
  <2>2. QED
    BY <2>1, AddedLast
<1>2. CASE x \notin Executables
  <2>1. Executables \cap {x} = {} /\ Present(x) = <<>>
    BY <1>2 DEF Present
  <2>2. s \o <<>> = s /\ S \cup {} = S
    BY DEF Orders
  <2>3. QED
    BY <2>1, <2>2
<1>3. QED
  BY <1>1, <1>2

LEMMA PresentAll ==
  ASSUME NEW a, NEW b, NEW c, NEW d, a # b, a # c, a # d, b # c, b # d, c # d
  PROVE  Orders(Present(a) \o Present(b) \o Present(c) \o Present(d),
                Executables \cap {a, b, c, d})
<1>1. Orders(<<>>, {})
  BY DEF Orders
<1>2. Orders(<<>> \o Present(a), {} \cup (Executables \cap {a}))
  BY <1>1, PresentLast
<1>3. <<>> \o Present(a) = Present(a)
  BY DEF Present
<1>4. Orders(Present(a), Executables \cap {a})
  BY <1>2, <1>3
<1>5. Orders(Present(a) \o Present(b), (Executables \cap {a}) \cup (Executables \cap {b}))
  BY <1>4, PresentLast
<1>6. Orders(Present(a) \o Present(b) \o Present(c),
             (Executables \cap {a}) \cup (Executables \cap {b}) \cup (Executables \cap {c}))
  BY <1>5, PresentLast
<1>7. Orders(Present(a) \o Present(b) \o Present(c) \o Present(d),
             (Executables \cap {a}) \cup (Executables \cap {b}) \cup (Executables \cap {c})
               \cup (Executables \cap {d}))
  BY <1>6, PresentLast
<1>8. (Executables \cap {a}) \cup (Executables \cap {b}) \cup (Executables \cap {c})
        \cup (Executables \cap {d}) = Executables \cap {a, b, c, d}
  OBVIOUS
<1>9. QED
  BY <1>7, <1>8

LEMMA LaunchesInOrder == Orders(LaunchOrder, Executables)
<1>1. CASE IsNat
  <2>1. Executables \cap {"sstunnel", "pdnsd", "redsocks", "sslocal"} = Executables
    BY <1>1, ExecutablesAssumption
  <2>2. Orders(NatLaunches, Executables \cap {"sstunnel", "pdnsd", "redsocks", "sslocal"})
    BY PresentAll DEF NatLaunches
  <2>3. QED
    BY <1>1, <2>1, <2>2 DEF LaunchOrder
<1>2. CASE ~IsNat
  <2>1. Executables \cap {"tun2socks", "sslocal", "pdnsd", "sstunnel"} = Executables
    BY <1>2, ExecutablesAssumption
  <2>2. Orders(VpnLaunches, Executables \cap {"tun2socks", "sslocal", "pdnsd", "sstunnel"})
    BY PresentAll DEF VpnLaunches
  <2>3. QED
    BY <1>2, <2>1, <2>2 DEF LaunchOrder
<1>3. QED
  BY <1>1, <1>2

LEMMA KillsInOrder == Orders(KillOrder, Kills)
<1>1. CASE IsNat
  <2>1. Executables \cap {"sslocal", "sstunnel", "redsocks", "pdnsd"} = Executables
        /\ "flush" \notin Executables
    BY <1>1, ExecutablesAssumption
  <2>2. Orders(Present("sslocal") \o Present("sstunnel") \o Present("redsocks") \o Present("pdnsd"),
               Executables \cap {"sslocal", "sstunnel", "redsocks", "pdnsd"})
    BY PresentAll
  <2>3. Orders(NatKills, Executables \cup {"flush"})
    BY <2>1, <2>2, AddedLast DEF NatKills
  <2>4. QED
    BY <1>1, <2>3 DEF KillOrder, Kills
<1>2. CASE ~IsNat
  <2>1. Executables \cap {"sslocal", "sstunnel", "tun2socks", "pdnsd"} = Executables
    BY <1>2, ExecutablesAssumption
  <2>2. Orders(VpnKills, Executables \cap {"sslocal", "sstunnel", "tun2socks", "pdnsd"})
    BY PresentAll DEF VpnKills
  <2>3. QED
    BY <1>2, <2>1, <2>2 DEF KillOrder, Kills
<1>3. QED
  BY <1>1, <1>2

(* One order behind another.                                               *)
LEMMA Joined ==
  ASSUME NEW S, NEW s, Orders(s, S), NEW U, NEW u, Orders(u, U), S \cap U = {}
  PROVE  Orders(s \o u, S \cup U)
<1> DEFINE v == s \o u
           m == Len(s)
           n == Len(u)
<1>1. s \in Seq(S) /\ u \in Seq(U) /\ m \in Nat /\ n \in Nat
  BY DEF Orders
<1>2. v \in Seq(S \cup U) /\ Len(v) = m + n
      /\ (\A i \in 1..m : v[i] = s[i] /\ s[i] \in S)
      /\ (\A i \in 1..n : v[m + i] = u[i] /\ u[i] \in U)
  BY <1>1
<1>3. (\A i \in 1..m : \A j \in 1..m : s[i] = s[j] => i = j)
      /\ (\A i \in 1..n : \A j \in 1..n : u[i] = u[j] => i = j)
      /\ (\A x \in S : \E i \in 1..m : s[i] = x)
      /\ (\A x \in U : \E i \in 1..n : u[i] = x)
  BY DEF Orders
<1> HIDE DEF v, m, n
<1>4. \A i \in 1..(m + n) : i \in 1..m \/ (i - m \in 1..n /\ i = m + (i - m))
  BY <1>1
<1>5. (\A i \in 1..m : i \in 1..(m + n)) /\ (\A i \in 1..n : m + i \in 1..(m + n))
  BY <1>1
<1>6. ASSUME NEW i \in 1..(m + n), NEW j \in 1..(m + n), v[i] = v[j] PROVE i = j
  <2>1. CASE i \in 1..m /\ j \in 1..m
    BY <1>2, <1>3, <1>6, <2>1
  <2>2. CASE i \notin 1..m /\ j \notin 1..m
    <3>1. i - m \in 1..n /\ j - m \in 1..n /\ i = m + (i - m) /\ j = m + (j - m)
      BY <1>4, <2>2
    <3>2. i - m = j - m
      BY <1>2, <1>3, <1>6, <3>1
    <3>3. QED
      BY <3>1, <3>2
  <2>3. CASE i \in 1..m /\ j \notin 1..m
    BY <1>2, <1>4, <1>6, <2>3
  <2>4. CASE i \notin 1..m /\ j \in 1..m
    BY <1>2, <1>4, <1>6, <2>4
  <2>5. QED
    BY <2>1, <2>2, <2>3, <2>4
<1>7. ASSUME NEW x \in S \cup U PROVE \E i \in 1..(m + n) : v[i] = x
  <2>1. CASE x \in S
    BY <1>2, <1>3, <1>5, <2>1
  <2>2. CASE x \in U
    BY <1>2, <1>3, <1>5, <2>2
  <2>3. QED
    BY <2>1, <2>2
<1>8. Orders(v, S \cup U)
  BY <1>2, <1>6, <1>7 DEF Orders
<1>9. QED
  BY <1>8 DEF v

LEMMA TailInOrder ==
  /\ Orders(BaseStop, {"receiver", "trafficMonitor", "stopped", "forget"})
  /\ Orders(<<"notification", "stopping">>, {"notification", "stopping"})
  /\ Orders(<<"vpnThread", "notification", "stopping">>, {"vpnThread", "notification", "stopping"})
  /\ Orders(<<"conn">>, {"conn"}) /\ Orders(<<"su">>, {"su"})
BY DEF Orders, BaseStop

LEMMA StopsInOrder == Orders(StopOrder, Stops)
<1>0. Kills \subseteq {"sslocal", "sstunnel", "pdnsd", "redsocks", "tun2socks", "flush"}
  BY ExecutablesAssumption DEF Kills
<1>1. CASE IsNat
  <2>1. Orders(<<"notification", "stopping">> \o KillOrder, {"notification", "stopping"} \cup Kills)
    BY <1>0, TailInOrder, KillsInOrder, Joined
  <2>2. Orders(<<"notification", "stopping">> \o KillOrder \o <<"su">>,
               {"notification", "stopping"} \cup Kills \cup {"su"})
    BY <1>0, <2>1, TailInOrder, Joined
  <2>3. Orders(NatStop, {"notification", "stopping"} \cup Kills \cup {"su"}
                          \cup {"receiver", "trafficMonitor", "stopped", "forget"})
    BY <1>0, <2>2, TailInOrder, Joined DEF NatStop
  <2>4. Stops = {"notification", "stopping"} \cup Kills \cup {"su"}
                  \cup {"receiver", "trafficMonitor", "stopped", "forget"}
    BY <1>1 DEF Stops
  <2>5. QED
    BY <1>1, <2>3, <2>4 DEF StopOrder
<1>2. CASE ~IsNat
  <2>1. Orders(<<"vpnThread", "notification", "stopping">> \o KillOrder,
               {"vpnThread", "notification", "stopping"} \cup Kills)
    BY <1>0, TailInOrder, KillsInOrder, Joined
  <2>2. Orders(<<"vpnThread", "notification", "stopping">> \o KillOrder \o <<"conn">>,
               {"vpnThread", "notification", "stopping"} \cup Kills \cup {"conn"})
    BY <1>0, <2>1, TailInOrder, Joined
  <2>3. Orders(VpnStop, {"vpnThread", "notification", "stopping"} \cup Kills \cup {"conn"}
                          \cup {"receiver", "trafficMonitor", "stopped", "forget"})
    BY <1>0, <2>2, TailInOrder, Joined DEF VpnStop
  <2>4. Stops = {"vpnThread", "notification", "stopping"} \cup Kills \cup {"conn"}
                  \cup {"receiver", "trafficMonitor", "stopped", "forget"}
    BY <1>2 DEF Stops
  <2>5. QED
    BY <1>2, <2>3, <2>4 DEF StopOrder
<1>3. QED
  BY <1>1, <1>2

(* The place after the i-th one.                                           *)
LEMMA AfterIs ==
  ASSUME NEW S, NEW s, Orders(s, S), NEW i \in 1..Len(s), NEW m, NEW o
  PROVE  After(m, s, s[i], o) = IF i = Len(s) THEN o ELSE <<m, s[i + 1]>>
<1>1. DOMAIN s = 1..Len(s)
  BY DEF Orders
<1>2. (CHOOSE j \in DOMAIN s : s[j] = s[i]) = i
  BY <1>1 DEF Orders
<1> DEFINE k == CHOOSE j \in DOMAIN s : s[j] = s[i]
<1>3. After(m, s, s[i], o) = IF k = Len(s) THEN o ELSE <<m, s[k + 1]>>
  BY DEF After
<1>4. k = i
  BY <1>2
<1> HIDE DEF k
<1>5. QED
  BY <1>3, <1>4

LEMMA AfterIn ==
  ASSUME NEW S, NEW s, Orders(s, S), NEW x \in S, NEW m, NEW o
  PROVE  After(m, s, x, o) = o \/ \E y \in S : After(m, s, x, o) = <<m, y>>
<1>1. PICK i \in 1..Len(s) : s[i] = x
  BY DEF Orders
<1>2. i # Len(s) => s[i + 1] \in S
  BY DEF Orders
<1>3. After(m, s, x, o) = IF i = Len(s) THEN o ELSE <<m, s[i + 1]>>
  BY <1>1, AfterIs
<1>4. QED
  BY <1>2, <1>3

LEMMA FirstIn ==
  ASSUME NEW S, NEW s, Orders(s, S), S # {}
  PROVE  Head(s) \in S
<1>1. Len(s) # 0
  BY DEF Orders
<1>2. QED
  BY <1>1 DEF Orders

-----------------------------------------------------------------------------
(* Threads and places.                                                     *)

LEMMA ThreadKinds ==
  /\ Binder \in Starters /\ Main \in Threads
  /\ Starters \subseteq Threads /\ Runs \subseteq Threads
  /\ Starters \cap Runs = {} /\ Main \notin Starters /\ Main \notin Runs
  /\ Threads \subseteq Int /\ Runs \subseteq Nat /\ None \notin Runs
<1>1. Runs \subseteq Nat /\ \A k \in Runs : k > 0
  BY BoundsAssumption DEF Runs
<1>2. \A k \in 1..MaxUses : Shell(k) \in Int /\ Shell(k) < -2
  BY BoundsAssumption DEF Shell, Main
<1>3. \A t \in Shells : t \in Int /\ t < -2
  BY <1>2 DEF Shells
<1>4. \A t \in Starters : t \in Int /\ t < 0 /\ t # -2
  BY <1>3 DEF Starters, Binder
<1>5. Binder \in Starters
  BY DEF Starters
<1>6. Main = -2 /\ None = 0 /\ Threads = Starters \cup {Main} \cup Runs
  BY DEF Main, None, Threads
<1>7. Starters \cap Runs = {} /\ Starters \subseteq Int /\ Runs \subseteq Int
  BY <1>1, <1>4
<1>8. -2 \notin Starters /\ -2 \notin Runs /\ 0 \notin Runs
  BY <1>1, <1>4
<1>9. QED
  BY <1>1, <1>5, <1>6, <1>7, <1>8

LEMMA RankIs ==
  /\ \A x \in Executables : Rank(x) \in 1..Len(LaunchOrder) /\ LaunchOrder[Rank(x)] = x
  /\ \A i \in 1..Len(LaunchOrder) : LaunchOrder[i] \in Executables /\ Rank(LaunchOrder[i]) = i
<1>1. Orders(LaunchOrder, Executables)
  BY LaunchesInOrder
<1>2. DOMAIN LaunchOrder = 1..Len(LaunchOrder)
  BY <1>1 DEF Orders
<1>3. ASSUME NEW i \in 1..Len(LaunchOrder)
      PROVE  LaunchOrder[i] \in Executables /\ Rank(LaunchOrder[i]) = i
  BY <1>1, <1>2 DEF Orders, Rank
<1>4. ASSUME NEW x \in Executables
      PROVE  Rank(x) \in 1..Len(LaunchOrder) /\ LaunchOrder[Rank(x)] = x
  <2>1. PICK i \in 1..Len(LaunchOrder) : LaunchOrder[i] = x
    BY <1>1 DEF Orders
  <2>2. QED
    BY <1>3, <2>1
<1>5. QED
  BY <1>3, <1>4

LEMMA Names ==
  /\ "trafficMonitor" \notin Executables /\ "vpnThread" \notin Executables
  /\ "conn" \notin Executables /\ "flush" \notin Executables /\ Executables \subseteq Resources
  /\ "flush" \notin Resources
BY ExecutablesAssumption DEF Resources

(* Nothing is made in stopRunner.                                          *)
LEMMA StopMakesNothing == \A p \in StopPlaces : ToMake(p) = {}
<1> SUFFICES ASSUME NEW p \in StopPlaces PROVE ToMake(p) = {}
  OBVIOUS
<1>1. p = <<"idle", "">> \/ \E x \in Stops : p = <<"stop", x>>
  BY DEF StopPlaces, Idle
<1>2. CASE p = <<"idle", "">>
  <2>1. p[1] = "idle"
    BY <1>2
  <2>2. QED
    BY <1>2, <2>1 DEF ToMake
<1>3. ASSUME NEW x \in Stops, p = <<"stop", x>> PROVE ToMake(p) = {}
  <2>1. p[1] = "stop"
    BY <1>3
  <2>2. QED
    BY <1>3, <2>1 DEF ToMake
<1>4. QED
  BY <1>1, <1>2, <1>3

(* A connect() goes on with the next executable.                           *)
LEMMA NextLaunch ==
  ASSUME NEW x \in Executables
  PROVE  LET p == After("launch", LaunchOrder, x, AfterLaunch) IN
         /\ p \in RunPlaces /\ p[1] # "store" /\ p # Idle
         /\ ToMake(p) = {r \in Executables : Rank(x) < Rank(r)}
<1> DEFINE n == Len(LaunchOrder)
           i == Rank(x)
           p == After("launch", LaunchOrder, x, AfterLaunch)
<1>0. n \in Nat
  BY LaunchesInOrder DEF Orders
<1>1. i \in 1..n /\ LaunchOrder[i] = x /\ \A r \in Executables : Rank(r) \in 1..n
  BY RankIs
<1>2. p = IF i = n THEN AfterLaunch ELSE <<"launch", LaunchOrder[i + 1]>>
  BY <1>1, LaunchesInOrder, AfterIs
<1>3. CASE i = n
  <2>1. p = AfterLaunch
    BY <1>2, <1>3
  <2>2. ToMake(AfterLaunch) = {}
    BY DEF AfterLaunch, ToMake
  <2>3. \A r \in Executables : ~(i < Rank(r))
    BY <1>0, <1>1, <1>3
  <2>4. AfterLaunch \in RunPlaces /\ AfterLaunch[1] # "store" /\ AfterLaunch # Idle
    BY DEF AfterLaunch, RunPlaces, Idle
  <2>5. QED
    BY <2>1, <2>2, <2>3, <2>4
<1>4. CASE i # n
  <2> DEFINE y == LaunchOrder[i + 1]
  <2>1. i + 1 \in 1..n
    BY <1>0, <1>1, <1>4
  <2>2. y \in Executables /\ Rank(y) = i + 1
    BY <2>1, RankIs
  <2>3. p = <<"launch", y>>
    BY <1>2, <1>4
  <2> HIDE DEF y
  <2>4. ToMake(<<"launch", y>>) = {r \in Executables : Rank(y) <= Rank(r)}
    BY Names DEF ToMake
  <2>5. \A r \in Executables : Rank(y) <= Rank(r) <=> i < Rank(r)
    BY <1>0, <1>1, <2>2
  <2>6. <<"launch", y>> \in RunPlaces /\ <<"launch", y>> # Idle
    BY <2>2 DEF RunPlaces, Idle
  <2>7. QED
    BY <2>3, <2>4, <2>5, <2>6
<1>5. QED
  BY <1>3, <1>4

-----------------------------------------------------------------------------
(* A step of one thread, which goes to a place p.                          *)

LEMMA MoveShapes ==
  ASSUME Shapes, NEW t \in Threads, NEW p \in PlacesOf(t), at' = [at EXCEPT ![t] = p],
         DOMAIN phase' = Threads, DOMAIN next' = Starters,
         DOMAIN field' = Resources, DOMAIN live' = Resources, runs' \in Nat
  PROVE  Shapes'
BY DEF Shapes, PlacesOf

LEMMA StoreMoves ==
  ASSUME Shapes, NEW t \in Threads, NEW p, at' = [at EXCEPT ![t] = p], Advances(t, p)
  PROVE  \A c \in Runs : \A r : at'[c] = <<"store", r>> <=> at[c] = <<"store", r>>
<1> SUFFICES ASSUME NEW c \in Runs, NEW r
             PROVE  at'[c] = <<"store", r>> <=> at[c] = <<"store", r>>
  OBVIOUS
<1>1. c \in Threads
  BY ThreadKinds
<1>2. CASE c = t
  <2>1. at'[c] = p /\ p[1] # "store" /\ at[c][1] # "store"
    BY <1>1, <1>2 DEF Shapes, Advances
  <2>2. QED
    BY <2>1
<1>3. CASE c # t
  BY <1>1, <1>3 DEF Shapes
<1>4. QED
  BY <1>2, <1>3

LEMMA MoveAhead ==
  ASSUME Shapes, OneRun, NEW t \in Threads, NEW p, at' = [at EXCEPT ![t] = p], Continues(t, p),
         runs' = runs
  PROVE  OneRun' /\ Ahead' \subseteq Ahead /\ Current' = Current
<1>1. \A u \in Threads : at'[u] = IF u = t THEN p ELSE at[u]
  BY DEF Shapes
<1>2. \A u \in Starters : (at'[u] \in Starting <=> at[u] \in Starting)
                            /\ (at'[u] \in Fresh => at[u] \in Fresh)
  BY <1>1, ThreadKinds DEF Continues
<1>3. \A c \in Runs : (at[c] = Idle => at'[c] = Idle) /\ ToMake(at'[c]) \subseteq ToMake(at[c])
  BY <1>1, ThreadKinds DEF Continues
<1>4. OneRun'
  BY <1>2, <1>3 DEF OneRun
<1>5. Current' = Current
  BY <1>2 DEF Current
<1>6. Ahead' \subseteq Ahead
  BY <1>2, <1>3 DEF Ahead
<1>7. QED
  BY <1>4, <1>5, <1>6

(* Resources may go, where nothing is made.                                *)
LEMMA ShrinkOwned ==
  ASSUME Owned, Unmade, Ahead' \subseteq Ahead, Current' = Current,
         \A r \in Resources : field'[r] \in {field[r], None} /\ live'[r] \subseteq live[r],
         \A c \in Runs, r \in Resources : at'[c] = <<"store", r>> => at[c] = <<"store", r>>
  PROVE  Owned' /\ Unmade'
<1>1. Owned'
  BY DEF Owned
<1>2. Ahead \subseteq Resources
  BY DEF Ahead
<1>3. \A r \in Ahead' : field'[r] = None /\ live'[r] = {}
  BY <1>2 DEF Unmade
<1>4. QED
  BY <1>1, <1>3 DEF Unmade

(* The others hold what they held.                                         *)
LEMMA OthersRelease ==
  ASSUME Shapes, Released, NEW t \in Threads, NEW p, at' = [at EXCEPT ![t] = p],
         NEW q, phase' = [phase EXCEPT ![t] = q],
         Ahead' \subseteq Ahead,
         \A c \in Runs, r \in Resources : at'[c] = <<"store", r>> => at[c] = <<"store", r>>,
         \A r \in Resources : live'[r] \subseteq live[r],
         q \in {"call", "clear"} => \A r \in Resources :
           p \in {<<"stop", r>>, <<"kill", r>>} =>
             /\ r \notin Ahead
             /\ \A c \in Runs : at[c] # <<"store", r>>
             /\ q = "clear" => live'[r] = {}
  PROVE  Released'
<1> SUFFICES ASSUME NEW u \in Threads, NEW r \in Resources, Releases(u, r)',
                    phase'[u] \in {"call", "clear"}
             PROVE  /\ r \notin Ahead'
                    /\ \A c \in Runs : at'[c] # <<"store", r>>
                    /\ phase'[u] = "clear" => live'[r] = {}
  BY DEF Released
<1>1. CASE u = t
  <2>1. at'[u] = p /\ phase'[u] = q
    BY <1>1 DEF Shapes
  <2>2. p \in {<<"stop", r>>, <<"kill", r>>}
    BY <2>1 DEF Releases
  <2>3. QED
    BY <2>1, <2>2
<1>2. CASE u # t
  <2>1. at'[u] = at[u] /\ phase'[u] = phase[u]
    BY <1>2 DEF Shapes
  <2>2. Releases(u, r)
    BY <2>1 DEF Releases
  <2>3. r \notin Ahead /\ (\A c \in Runs : at[c] # <<"store", r>>)
        /\ (phase[u] = "clear" => live[r] = {})
    BY <2>1, <2>2 DEF Released
  <2>4. QED
    BY <2>1, <2>3
<1>3. QED
  BY <1>1, <1>2

(* A step makes nothing and loses the field of nothing at work.            *)
Shrinks ==
  \A r \in Resources :
    /\ field'[r] \in {field[r], None} /\ live'[r] \subseteq live[r]
    /\ live'[r] # {} => field'[r] = field[r]

(* A thread that comes to a place p is so far with what it releases there. *)
Holds(p, q) ==
  q \in {"call", "clear"} => \A r \in Resources :
    p \in {<<"stop", r>>, <<"kill", r>>} =>
      /\ r \notin Ahead
      /\ \A c \in Runs : at[c] # <<"store", r>>
      /\ q = "clear" => live'[r] = {}

LEMMA MoveTracked ==
  ASSUME Shapes, Tracked, NEW t \in Threads, NEW p, at' = [at EXCEPT ![t] = p], Advances(t, p),
         NEW q, phase' = [phase EXCEPT ![t] = q], runs' = runs, Shrinks, Holds(p, q)
  PROVE  Tracked'
<1>1. OneRun' /\ Ahead' \subseteq Ahead /\ Current' = Current
  BY MoveAhead DEF Tracked, Advances
<1>2. \A c \in Runs : \A r : at'[c] = <<"store", r>> <=> at[c] = <<"store", r>>
  BY StoreMoves
<1>3. Owned' /\ Unmade'
  <2>1. \A r \in Resources : field'[r] \in {field[r], None} /\ live'[r] \subseteq live[r]
    BY DEF Shrinks
  <2>2. QED
    BY <1>1, <1>2, <2>1, ShrinkOwned DEF Tracked
<1>4. Released'
  <2>1. \A r \in Resources : live'[r] \subseteq live[r]
    BY DEF Shrinks
  <2>2. \A c \in Runs, r \in Resources : at'[c] = <<"store", r>> => at[c] = <<"store", r>>
    BY <1>2
  <2>3. QED
    BY <1>1, <2>1, <2>2, OthersRelease DEF Tracked, Holds
<1>5. Found'
  BY <1>2 DEF Tracked, Found, Shrinks
<1>6. QED
  BY <1>1, <1>3, <1>4, <1>5 DEF Tracked

(* A thread goes on with the code.                                         *)
LEMMA GoTracked ==
  ASSUME Shapes, NEW t \in Threads, NEW p \in PlacesOf(t), Advances(t, p), Go(t, p),
         DOMAIN next' = Starters, UNCHANGED <<field, live, runs>>
  PROVE  Shapes' /\ (Tracked => Tracked')
<1>1. Shapes'
  BY MoveShapes DEF Go, Shapes
<1>2. Shrinks /\ Holds(p, "check")
  BY DEF Shrinks, Holds
<1>3. ASSUME Tracked PROVE Tracked'
  BY <1>2, <1>3, MoveTracked DEF Go
<1>4. QED
  BY <1>1, <1>3

(* It stays where it is, and is farther with the object it works on.       *)
LEMMA PhaseTracked ==
  ASSUME Shapes, NEW t \in Threads, NEW q, Phase(t, q), UNCHANGED <<field, live, runs>>,
         at[t][1] # "store",
         Tracked /\ q \in {"call", "clear"} => \A r \in Resources : Releases(t, r) =>
             /\ r \notin Ahead
             /\ \A c \in Runs : at[c] # <<"store", r>>
             /\ q = "clear" => live[r] = {}
  PROVE  Shapes' /\ (Tracked => Tracked')
<1>1. at' = [at EXCEPT ![t] = at[t]] /\ phase' = [phase EXCEPT ![t] = q] /\ next' = next
  BY DEF Phase, Shapes
<1>2. at[t] \in PlacesOf(t) /\ Advances(t, at[t])
  BY DEF Shapes, Advances, Continues
<1>3. Shapes'
  BY <1>1, <1>2, MoveShapes DEF Shapes
<1>4. ASSUME Tracked PROVE Tracked'
  <2>1. Holds(at[t], q) /\ Shrinks
    BY <1>4 DEF Releases, Holds, Shrinks
  <2>2. QED
    BY <1>1, <1>2, <1>4, <2>1, MoveTracked
<1>5. QED
  BY <1>3, <1>4

(* The places of stopRunner, and its way in.                               *)
LEMMA StopFits ==
  ASSUME Shapes, NEW t \in Threads, NEW p \in StopPlaces, at[t] \notin Starting,
         at[t][1] # "store", t \in Runs /\ at[t] = Idle => p = Idle
  PROVE  p \in PlacesOf(t) /\ Advances(t, p)
<1>1. p \in PlacesOf(t)
  BY DEF PlacesOf, RunPlaces, StarterPlaces
<1>2. p = <<"idle", "">> \/ \E x \in Stops : p = <<"stop", x>>
  BY DEF StopPlaces, Idle
<1>3. p \notin Starting /\ p \notin Fresh /\ p[1] # "store"
  <2>1. CASE p = <<"idle", "">>
    BY <2>1 DEF Starting, Fresh
  <2>2. ASSUME NEW x \in Stops, p = <<"stop", x>> PROVE p \notin Starting /\ p \notin Fresh /\ p[1] # "store"
    BY <2>2 DEF Starting, Fresh
  <2>3. QED
    BY <1>2, <2>1, <2>2
<1>4. ToMake(p) = {}
  BY StopMakesNothing
<1>5. QED
  BY <1>1, <1>3, <1>4 DEF Advances, Continues

LEMMA BeginStopFits == BeginStop \in StopPlaces /\ Idle \in StopPlaces
<1>1. Stops # {}
  BY DEF Stops
<1>2. QED
  BY <1>1, StopsInOrder, FirstIn DEF BeginStop, StopPlaces

LEMMA BeginKillFits == IsNat \/ Executables # {} => \E x \in Kills : BeginKill = <<"kill", x>>
<1>1. Kills # {}
  BY ExecutablesAssumption DEF Kills
<1>2. QED
  BY <1>1, KillsInOrder, FirstIn DEF BeginKill

(* An exception that is not in a start.                                    *)
LEMMA ThrowTracked ==
  ASSUME Shapes, NEW t \in Threads, Throw(t), UNCHANGED <<field, live, runs>>,
         at[t] \notin Starting, at[t][1] # "store", at[t] # Idle
  PROVE  Shapes' /\ (Tracked => Tracked')
<1> DEFINE p == IF t \in Runs /\ ~InStop(t) THEN BeginStop ELSE Idle
<1>1. p \in StopPlaces
  BY BeginStopFits
<1>2. Go(t, p) /\ DOMAIN next' = Starters
  BY DEF Throw, Leave, Shapes
<1> HIDE DEF p
<1>3. p \in PlacesOf(t) /\ Advances(t, p)
  BY <1>1, StopFits
<1>4. QED
  BY <1>2, <1>3, GoTracked

(* A thread that leaves the start of a run without it.                     *)
LEMMA LeaveTracked ==
  ASSUME Shapes, NEW t \in Threads, NEW p \in StopPlaces, Leave(t, p),
         UNCHANGED <<field, live, runs>>, at[t] \notin Starting, at[t][1] # "store", at[t] # Idle
  PROVE  Shapes' /\ (Tracked => Tracked')
<1>1. Go(t, p) /\ DOMAIN next' = Starters
  BY DEF Leave, Shapes
<1>2. p \in PlacesOf(t) /\ Advances(t, p)
  BY StopFits
<1>3. QED
  BY <1>1, <1>2, GoTracked

(* From a place of stopRunner or killProcesses to the next.                *)
LEMMA OnwardFits ==
  ASSUME Shapes, NEW t \in Threads, NEW x, at[t] \in {<<"stop", x>>, <<"kill", x>>}
  PROVE  Onward(t) \in PlacesOf(t) /\ Advances(t, Onward(t))
<1>1. CASE at[t] = <<"stop", x>>
  <2>1. x \in Stops
    <3>1. at[t] \in RunPlaces \/ at[t] \in StarterPlaces \/ at[t] \in StopPlaces
      BY DEF Shapes, PlacesOf
    <3>2. at[t] \in StopPlaces
      BY <1>1, <3>1 DEF RunPlaces, StarterPlaces, Starting
    <3>3. QED
      BY <1>1, <3>2 DEF StopPlaces, Idle
  <2>2. Onward(t) = After("stop", StopOrder, x, Idle)
    BY <1>1 DEF Onward, InStop
  <2>3. Onward(t) = Idle \/ \E y \in Stops : Onward(t) = <<"stop", y>>
    BY <2>1, <2>2, StopsInOrder, AfterIn
  <2>4. Onward(t) \in StopPlaces
    BY <2>3 DEF StopPlaces
  <2>5. at[t] \notin Starting /\ at[t][1] # "store" /\ at[t] # Idle
    BY <1>1 DEF Starting, Idle
  <2>6. QED
    BY <2>4, <2>5, StopFits
<1>2. CASE at[t] = <<"kill", x>>
  <2>1. t \in Runs /\ x \in Kills
    <3>1. at[t] \in PlacesOf(t)
      BY DEF Shapes
    <3>2. at[t] \notin StopPlaces /\ at[t] \notin StarterPlaces
      BY <1>2 DEF StarterPlaces, StopPlaces, Starting, Idle
    <3>3. t \in Runs /\ at[t] \in RunPlaces
      BY <3>1, <3>2 DEF PlacesOf
    <3>4. QED
      BY <1>2, <3>2, <3>3 DEF RunPlaces
  <2>2. Onward(t) = After("kill", KillOrder, x, AfterKill)
    BY <1>2 DEF Onward, InStop
  <2>3. Onward(t) = AfterKill \/ \E y \in Kills : Onward(t) = <<"kill", y>>
    BY <2>1, <2>2, KillsInOrder, AfterIn
  <2>4. Onward(t) \in RunPlaces /\ Onward(t)[1] # "store"
    BY <2>3 DEF RunPlaces, AfterKill
  <2>5. ToMake(at[t]) = Resources \ {"trafficMonitor", "vpnThread"}
    BY <1>2 DEF ToMake
  <2>6. ToMake(Onward(t)) \subseteq Resources \ {"trafficMonitor", "vpnThread"}
    BY <2>3, Names DEF ToMake, AfterKill
  <2>7. t \notin Starters /\ at[t] # Idle /\ at[t][1] # "store"
    BY <1>2, <2>1, ThreadKinds DEF Idle
  <2>8. Onward(t) \in PlacesOf(t)
    BY <2>1, <2>4 DEF PlacesOf
  <2>9. QED
    BY <2>4, <2>5, <2>6, <2>7, <2>8 DEF Advances, Continues
<1>3. QED
  BY <1>1, <1>2

-----------------------------------------------------------------------------
(* The steps of stopRunner and killProcesses.                              *)

LEMMA InStopFits ==
  ASSUME NEW t, NEW x, at[t] \in {<<"stop", x>>, <<"kill", x>>}
  PROVE  at[t] \notin Starting /\ at[t][1] # "store" /\ at[t] # Idle /\ at[t][2] = x
<1>1. CASE at[t] = <<"stop", x>>
  BY <1>1 DEF Starting, Idle
<1>2. CASE at[t] = <<"kill", x>>
  BY <1>2 DEF Starting, Idle
<1>3. QED
  BY <1>1, <1>2

LEMMA ReleaseCheckTracked ==
  ASSUME Shapes, NEW t \in Threads, NEW r \in Resources, ReleaseCheck(t, r)
  PROVE  Shapes' /\ (Tracked => Tracked')
<1>1. at[t] \in {<<"stop", r>>, <<"kill", r>>} /\ UNCHANGED <<field, live, runs>>
  BY DEF ReleaseCheck, Releases, fieldVars
<1>2. CASE field[r] = None
  <2>1. Go(t, Onward(t)) /\ DOMAIN next' = Starters
    BY <1>2 DEF ReleaseCheck, GoOn, Shapes
  <2>2. QED
    BY <1>1, <2>1, OnwardFits, GoTracked
<1>3. CASE field[r] # None
  <2>1. Phase(t, "call") /\ at[t][1] # "store"
    BY <1>1, <1>3, InStopFits DEF ReleaseCheck
  <2>2. \A s \in Resources : Releases(t, s) => s = r
    BY <1>1, InStopFits DEF Releases
  <2>3. Tracked => r \notin Ahead /\ \A c \in Runs : at[c] # <<"store", r>>
    BY <1>3 DEF Tracked, Unmade
  <2>4. QED
    BY <1>1, <2>1, <2>2, <2>3, PhaseTracked
<1>4. QED
  BY <1>2, <1>3

LEMMA ReleaseCallTracked ==
  ASSUME Shapes, NEW t \in Threads, NEW r \in Resources, ReleaseCall(t, r)
  PROVE  Shapes' /\ (Tracked => Tracked')
<1>1. at[t] \in {<<"stop", r>>, <<"kill", r>>} /\ UNCHANGED <<field, runs>>
      /\ live' = [live EXCEPT ![r] = @ \ {field[r]}] /\ phase[t] = "call" /\ Releases(t, r)
  BY DEF ReleaseCall, Releases
<1>2. DOMAIN live' = Resources /\ DOMAIN field' = Resources /\ runs' \in Nat
      /\ \A s \in Resources : live'[s] = IF s = r THEN live[r] \ {field[r]} ELSE live[s]
  BY <1>1 DEF Shapes
<1>3. at[t] \notin Starting /\ at[t][1] # "store" /\ at[t] # Idle
      /\ \A s \in Resources : at[t] \in {<<"stop", s>>, <<"kill", s>>} => s = r
  BY <1>1, InStopFits
<1>4. CASE field[r] = None
  <2> DEFINE p == IF t \in Runs /\ ~InStop(t) THEN BeginStop ELSE Idle
  <2>1. p \in StopPlaces /\ at' = [at EXCEPT ![t] = p] /\ phase' = [phase EXCEPT ![t] = "check"]
        /\ DOMAIN next' = Starters
    BY <1>4, BeginStopFits DEF ReleaseCall, Throw, Leave, Go, Shapes
  <2> HIDE DEF p
  <2>2. p \in PlacesOf(t) /\ Advances(t, p)
    BY <1>3, <2>1, StopFits
  <2>3. DOMAIN phase' = Threads
    BY <2>1 DEF Shapes
  <2>4. Shapes'
    BY <1>2, <2>1, <2>2, <2>3, MoveShapes
  <2>5. Shrinks /\ Holds(p, "check")
    BY <1>1, <1>2 DEF Shrinks, Holds
  <2>6. Tracked => Tracked'
    BY <1>1, <2>1, <2>2, <2>5, MoveTracked
  <2>7. QED
    BY <2>4, <2>6
<1>5. CASE field[r] # None
  <2>1. at' = [at EXCEPT ![t] = at[t]] /\ phase' = [phase EXCEPT ![t] = "clear"] /\ next' = next
    BY <1>5 DEF ReleaseCall, Phase, Shapes
  <2>2. at[t] \in PlacesOf(t) /\ Advances(t, at[t]) /\ DOMAIN phase' = Threads
        /\ DOMAIN next' = Starters
    BY <1>3, <2>1 DEF Shapes, Advances, Continues
  <2>3. Shapes'
    BY <1>2, <2>1, <2>2, MoveShapes
  <2>4. Shrinks
    BY <1>1, <1>2 DEF Shrinks
  <2>5. ASSUME Tracked PROVE Tracked'
    <3>1. r \notin Ahead /\ \A c \in Runs : at[c] # <<"store", r>>
      BY <1>1, <2>5 DEF Tracked, Released
    <3>2. live[r] \subseteq {field[r]}
      BY <1>5, <2>5 DEF Tracked, Owned
    <3>3. live'[r] = {}
      BY <1>2, <3>2
    <3>4. Holds(at[t], "clear")
      BY <1>3, <3>1, <3>3 DEF Holds
    <3>5. QED
      BY <1>1, <2>1, <2>2, <2>4, <2>5, <3>4, MoveTracked
  <2>6. QED
    BY <2>3, <2>5
<1>6. QED
  BY <1>4, <1>5

LEMMA ReleaseClearTracked ==
  ASSUME Shapes, NEW t \in Threads, NEW r \in Resources, ReleaseClear(t, r)
  PROVE  Shapes' /\ (Tracked => Tracked')
<1>1. at[t] \in {<<"stop", r>>, <<"kill", r>>} /\ UNCHANGED <<live, runs>>
      /\ field' = [field EXCEPT ![r] = None] /\ phase[t] = "clear" /\ Releases(t, r)
      /\ at' = [at EXCEPT ![t] = Onward(t)] /\ phase' = [phase EXCEPT ![t] = "check"]
      /\ next' = next
  BY DEF ReleaseClear, Releases, GoOn, Go
<1>2. Onward(t) \in PlacesOf(t) /\ Advances(t, Onward(t))
  BY <1>1, OnwardFits
<1>3. DOMAIN field' = Resources /\ DOMAIN live' = Resources /\ runs' \in Nat
      /\ DOMAIN phase' = Threads /\ DOMAIN next' = Starters
      /\ \A s \in Resources : field'[s] = IF s = r THEN None ELSE field[s]
  BY <1>1 DEF Shapes
<1>4. Shapes'
  BY <1>1, <1>2, <1>3, MoveShapes
<1>5. ASSUME Tracked PROVE Tracked'
  <2>1. live[r] = {}
    BY <1>1, <1>5 DEF Tracked, Released
  <2>2. Shrinks /\ Holds(Onward(t), "check")
    BY <1>1, <1>3, <2>1 DEF Shrinks, Holds
  <2>3. QED
    BY <1>1, <1>2, <1>5, <2>2, MoveTracked
<1>6. QED
  BY <1>4, <1>5

(* The steps of stopRunner that release no resource.                       *)
LEMMA StopOtherTracked ==
  ASSUME Shapes, NEW t \in Threads,
         \/ StopNotificationCheck(t) \/ StopNotificationCall(t) \/ StopPost(t)
         \/ StopReceiverCheck(t) \/ StopReceiverCall(t) \/ StopReceiverClear(t)
  PROVE  Shapes' /\ (Tracked => Tracked')
<1>1. PICK x \in {"notification", "stopping", "stopped", "receiver"} : at[t] = <<"stop", x>>
  BY DEF StopNotificationCheck, StopNotificationCall, StopPost, StopReceiverCheck,
         StopReceiverCall, StopReceiverClear
<1>2. UNCHANGED <<field, live, runs>>
  BY DEF StopNotificationCheck, StopNotificationCall, StopPost, StopReceiverCheck,
         StopReceiverCall, StopReceiverClear, fieldVars
<1>3. GoOn(t, Onward(t)) \/ Throw(t) \/ Phase(t, "call") \/ Phase(t, "clear")
  BY DEF StopNotificationCheck, StopNotificationCall, StopPost, StopReceiverCheck,
         StopReceiverCall, StopReceiverClear
<1>4. at[t] \notin Starting /\ at[t][1] # "store" /\ at[t] # Idle
  BY <1>1, InStopFits
<1>5. CASE GoOn(t, Onward(t))
  <2>1. Go(t, Onward(t)) /\ DOMAIN next' = Starters
    BY <1>5 DEF GoOn, Shapes
  <2>2. QED
    BY <1>1, <1>2, <2>1, OnwardFits, GoTracked
<1>6. CASE Throw(t)
  BY <1>2, <1>4, <1>6, ThrowTracked
<1>7. ASSUME NEW q, Phase(t, q) PROVE Shapes' /\ (Tracked => Tracked')
  <2>1. x \notin Resources
    BY <1>1, ExecutablesAssumption DEF Resources
  <2>2. \A r \in Resources : ~Releases(t, r)
    BY <1>1, <2>1 DEF Releases
  <2>3. QED
    BY <1>2, <1>4, <1>7, <2>2, PhaseTracked
<1>8. QED
  BY <1>3, <1>5, <1>6, <1>7

(* StopForget, which may go on to start.                                   *)
LEMMA StopForgetTracked ==
  ASSUME Shapes, NEW t \in Threads, StopForget(t)
  PROVE  Shapes' /\ (Tracked => Tracked')
<1> DEFINE p == IF t = Binder /\ next[t] # NoProfile THEN BeginStart ELSE Idle
<1>1. at[t] = <<"stop", "forget">> /\ Go(t, p) /\ UNCHANGED <<field, live, runs>>
      /\ DOMAIN next' = Starters
  BY DEF StopForget, GoOn, Shapes
<1>2. at[t] \notin Starting /\ at[t][1] # "store" /\ at[t] # Idle
  BY <1>1, InStopFits
<1>3. CASE p = Idle
  <2>1. p \in PlacesOf(t) /\ Advances(t, p)
    BY <1>2, <1>3, BeginStopFits, StopFits
  <2>2. QED
    BY <1>1, <2>1, GoTracked
<1>4. CASE t = Binder /\ p = BeginStart
  <2>1. p \in StarterPlaces /\ p \notin Starting /\ p \notin Fresh /\ p[1] # "store"
    BY <1>4 DEF BeginStart, StarterPlaces, Starting, Fresh
  <2>2. t \in Starters /\ t \notin Runs
    BY <1>4, ThreadKinds
  <2>3. p \in PlacesOf(t) /\ Advances(t, p)
    BY <1>2, <2>1, <2>2 DEF PlacesOf, Advances, Continues
  <2>4. QED
    BY <1>1, <2>3, GoTracked
<1>5. QED
  BY <1>3, <1>4

LEMMA StopRunnerTracked ==
  ASSUME Shapes, NEW t \in Threads, StopRunner(t)
  PROVE  Shapes' /\ (Tracked => Tracked')
BY ReleaseCheckTracked, ReleaseCallTracked, ReleaseClearTracked, StopOtherTracked, StopForgetTracked
   DEF StopRunner, Release

-----------------------------------------------------------------------------
(* The start of a run, and what it makes.                                  *)

LEMMA ConnectMakesOther == \A p : "trafficMonitor" \notin ToMake(p)
BY DEF ToMake

(* A resource is made and assigned to its field in one step.               *)
LEMMA MakeTracked ==
  ASSUME Shapes, Tracked, NEW t \in Threads, NEW p, at' = [at EXCEPT ![t] = p], Advances(t, p),
         phase' = [phase EXCEPT ![t] = "check"], runs' = runs, NEW r \in Ahead, r \notin Ahead',
         Current # None, \A c \in Runs : at[c] # <<"store", r>>,
         field' = [field EXCEPT ![r] = Current], live' = [live EXCEPT ![r] = @ \cup {Current}]
  PROVE  Tracked'
<1>1. OneRun' /\ Ahead' \subseteq Ahead /\ Current' = Current
  BY MoveAhead DEF Tracked, Advances
<1>2. \A c \in Runs : \A s : at'[c] = <<"store", s>> <=> at[c] = <<"store", s>>
  BY StoreMoves
<1>3. r \in Resources
  BY DEF Ahead
<1>4. \A s \in Resources : /\ field'[s] = IF s = r THEN Current ELSE field[s]
                           /\ live'[s] = IF s = r THEN live[r] \cup {Current} ELSE live[s]
  BY <1>3 DEF Shapes
<1>5. live[r] = {} /\ field[r] = None /\ \A s \in Ahead : s \in Resources
  BY DEF Tracked, Unmade, Ahead
<1>6. Owned'
  BY <1>1, <1>4, <1>5 DEF Tracked, Owned
<1>7. Unmade'
  <2>1. \A s \in Ahead' : field'[s] = None /\ live'[s] = {}
    BY <1>1, <1>4, <1>5 DEF Tracked, Unmade
  <2>2. \A c \in Runs : at'[c] # <<"store", r>>
    BY <1>2
  <2>3. QED
    BY <1>2, <1>4, <2>1, <2>2 DEF Tracked, Unmade
<1>8. Released'
  <2> SUFFICES ASSUME NEW u \in Threads, NEW s \in Resources, Releases(u, s)',
                      phase'[u] \in {"call", "clear"}
               PROVE  /\ s \notin Ahead'
                      /\ \A c \in Runs : at'[c] # <<"store", s>>
                      /\ phase'[u] = "clear" => live'[s] = {}
    BY DEF Released
  <2>1. u # t /\ at'[u] = at[u] /\ phase'[u] = phase[u]
    BY DEF Shapes
  <2>2. Releases(u, s)
    BY <2>1 DEF Releases
  <2>3. s \notin Ahead /\ (\A c \in Runs : at[c] # <<"store", s>>)
        /\ (phase[u] = "clear" => live[s] = {})
    BY <2>1, <2>2 DEF Tracked, Released
  <2>4. QED
    BY <1>1, <1>2, <1>4, <2>1, <2>3
<1>9. Found'
  BY <1>2, <1>4, <1>5 DEF Tracked, Found
<1>10. QED
  BY <1>1, <1>6, <1>7, <1>8, <1>9 DEF Tracked

(* A starting thread goes on inside the start.                             *)
LEMMA StartFits ==
  ASSUME Shapes, NEW t \in Starters, at[t] \in Starting, NEW p \in Starting,
         p \in Fresh => at[t] \in Fresh
  PROVE  p \in PlacesOf(t) /\ Advances(t, p) /\ at[t][1] # "store"
<1>1. t \notin Runs /\ t \in Threads
  BY ThreadKinds
<1>2. p[1] = "start" /\ at[t][1] = "start"
  BY DEF Starting
<1>3. p \in StarterPlaces
  BY DEF StarterPlaces
<1>4. QED
  BY <1>1, <1>2, <1>3 DEF PlacesOf, Advances, Continues

(* A starting thread is the only one of its kind.                          *)
LEMMA StartersAlone ==
  ASSUME Shapes, OneRun, NEW t \in Starters, at[t] \in Starting
  PROVE  /\ \A c \in Runs : at[c] = Idle /\ ToMake(at[c]) = {}
         /\ \A u \in Starters : at[u] \in Starting => u = t
         /\ Current = runs + 1 /\ Current # None
         /\ \A r \in Resources \ {"trafficMonitor"} : r \in Ahead
<1>1. ToMake(Idle) = {}
  BY StopMakesNothing, BeginStopFits
<1>2. Current = runs + 1 /\ runs + 1 # 0
  BY DEF Current, Shapes
<1>3. QED
  BY <1>1, <1>2 DEF OneRun, Ahead, None

(* The steps of the start that make nothing.                               *)
LEMMA StartOtherTracked ==
  ASSUME Shapes, NEW t \in Starters,
         \/ StartProfile(t) \/ StartReceiverCheck(t) \/ StartReceiverCall(t)
         \/ StartReceiverSet(t) \/ StartPost(t)
  PROVE  Shapes' /\ (Tracked => Tracked')
<1>1. at[t] \in Starting
  BY DEF StartProfile, StartReceiverCheck, StartReceiverCall, StartReceiverSet, StartPost, Starting
<1>2. UNCHANGED <<field, live, runs>>
  BY DEF StartProfile, StartReceiverCheck, StartReceiverCall, StartReceiverSet, StartPost, fieldVars
<1>3. \/ \E x \in {"connecting", "future"} : GoOn(t, <<"start", x>>)
      \/ at[t] \in Fresh /\ GoOn(t, <<"start", "trafficMonitor">>)
      \/ Phase(t, "call") \/ Phase(t, "set")
  BY DEF StartProfile, StartReceiverCheck, StartReceiverCall, StartReceiverSet, StartPost, Fresh
<1>4. t \in Threads
  BY ThreadKinds
<1>5. ASSUME NEW p \in Starting, p \in Fresh => at[t] \in Fresh, GoOn(t, p)
      PROVE  Shapes' /\ (Tracked => Tracked')
  <2>1. p \in PlacesOf(t) /\ Advances(t, p)
    BY <1>1, <1>5, StartFits
  <2>2. Go(t, p) /\ DOMAIN next' = Starters
    BY <1>5 DEF GoOn, Shapes
  <2>3. QED
    BY <1>2, <1>4, <2>1, <2>2, GoTracked
<1>6. ASSUME NEW x \in {"connecting", "future"}, GoOn(t, <<"start", x>>)
      PROVE  Shapes' /\ (Tracked => Tracked')
  <2>1. <<"start", x>> \in Starting /\ <<"start", x>> \notin Fresh
    BY DEF Starting, Fresh
  <2>2. QED
    BY <1>5, <1>6, <2>1
<1>7. CASE at[t] \in Fresh /\ GoOn(t, <<"start", "trafficMonitor">>)
  <2>1. <<"start", "trafficMonitor">> \in Starting
    BY DEF Starting
  <2>2. QED
    BY <1>5, <1>7, <2>1
<1>8. ASSUME NEW q, Phase(t, q) PROVE Shapes' /\ (Tracked => Tracked')
  <2>1. at[t][1] # "store"
    BY <1>1 DEF Starting
  <2>2. \A r \in Resources : ~Releases(t, r)
    BY <1>1, InStopFits DEF Releases
  <2>3. QED
    BY <1>2, <1>4, <1>8, <2>1, <2>2, PhaseTracked
<1>9. QED
  BY <1>3, <1>6, <1>7, <1>8

LEMMA IdleIs ==
  /\ Idle \in StarterPlaces /\ Idle \in RunPlaces /\ Idle \notin Starting /\ ToMake(Idle) = {}
  /\ \A r : Idle \notin {<<"store", r>>, <<"stop", r>>, <<"kill", r>>}
<1>1. Idle \notin Starting /\ \A r : Idle \notin {<<"store", r>>, <<"stop", r>>, <<"kill", r>>}
  BY DEF Starting, Idle
<1>2. QED
  BY <1>1, BeginStopFits, StopMakesNothing DEF StarterPlaces, RunPlaces

LEMMA StartTrafficMonitorTracked ==
  ASSUME Shapes, NEW t \in Starters, StartTrafficMonitor(t)
  PROVE  Shapes' /\ (Tracked => Tracked')
<1> DEFINE p == <<"start", "run">>
           r == "trafficMonitor"
<1>1. /\ at' = [at EXCEPT ![t] = p] /\ phase' = [phase EXCEPT ![t] = "check"] /\ next' = next
      /\ field' = [field EXCEPT ![r] = runs + 1] /\ live' = [live EXCEPT ![r] = @ \cup {runs + 1}]
      /\ runs' = runs /\ at[t] \in Fresh /\ at[t] \in Starting
  BY DEF StartTrafficMonitor, GoOn, Go, Fresh, Starting
<1>2. p \in Starting /\ p \notin Fresh /\ r \in Resources /\ t \in Threads
  BY ThreadKinds DEF Starting, Fresh, Resources
<1> HIDE DEF p
<1>3. p \in PlacesOf(t) /\ Advances(t, p)
  BY <1>1, <1>2, StartFits
<1>4. Shapes'
  <2>1. DOMAIN phase' = Threads /\ DOMAIN next' = Starters /\ DOMAIN field' = Resources
        /\ DOMAIN live' = Resources /\ runs' \in Nat
    BY <1>1 DEF Shapes
  <2>2. QED
    BY <1>1, <1>2, <1>3, <2>1, MoveShapes
<1>5. ASSUME Tracked PROVE Tracked'
  <2>1. OneRun
    BY <1>5 DEF Tracked
  <2>2. Current = runs + 1 /\ Current # None /\ (\A c \in Runs : at[c] = Idle)
        /\ \A u \in Starters : at[u] \in Starting => u = t
    BY <1>1, <2>1, StartersAlone
  <2>3. r \in Ahead
    BY <1>1, <1>2 DEF Ahead
  <2>4. \A u \in Starters : at'[u] \notin Fresh
    <3>1. \A u \in Starters : at'[u] = IF u = t THEN p ELSE at[u]
      BY <1>1, ThreadKinds DEF Shapes
    <3>2. Fresh \subseteq Starting
      BY DEF Fresh, Starting
    <3>3. QED
      BY <1>2, <2>2, <3>1, <3>2
  <2>5. r \notin Ahead'
    BY <2>4, ConnectMakesOther DEF Ahead
  <2>6. \A c \in Runs : at[c] # <<"store", r>>
    BY <2>2, IdleIs
  <2>7. field' = [field EXCEPT ![r] = Current] /\ live' = [live EXCEPT ![r] = @ \cup {Current}]
    BY <1>1, <2>2
  <2>8. QED
    BY <1>1, <1>2, <1>3, <1>5, <2>2, <2>3, <2>5, <2>6, <2>7, MakeTracked
<1>6. QED
  BY <1>4, <1>5

(* trafficMonitorThread.start() throws only when another thread has        *)
(* stopped what little there was.                                          *)
LEMMA StartTrafficMonitorRunTracked ==
  ASSUME Shapes, NEW t \in Starters, StartTrafficMonitorRun(t)
  PROVE  Shapes' /\ (Tracked => Tracked')
<1>1. at[t] = <<"start", "run">> /\ UNCHANGED <<field, live, runs>>
      /\ at[t] \in Starting /\ at[t] \notin Fresh /\ t \in Threads /\ t \notin Runs
  BY ThreadKinds DEF StartTrafficMonitorRun, Starting, Fresh, fieldVars
<1>2. CASE field["trafficMonitor"] # None
  <2> DEFINE p == <<"start", "receiver">>
  <2>1. Go(t, p) /\ DOMAIN next' = Starters
    BY <1>2 DEF StartTrafficMonitorRun, GoOn, Shapes
  <2>2. p \in Starting /\ p \notin Fresh
    BY DEF Starting, Fresh
  <2> HIDE DEF p
  <2>3. p \in PlacesOf(t) /\ Advances(t, p)
    BY <1>1, <2>2, StartFits
  <2>4. QED
    BY <1>1, <2>1, <2>3, GoTracked
<1>3. CASE field["trafficMonitor"] = None
  <2>1. at' = [at EXCEPT ![t] = Idle] /\ phase' = [phase EXCEPT ![t] = "check"]
        /\ DOMAIN next' = Starters
    BY <1>1, <1>3 DEF StartTrafficMonitorRun, Throw, Leave, Go, Shapes
  <2>2. Idle \in PlacesOf(t)
    BY BeginStopFits DEF PlacesOf, StarterPlaces, RunPlaces
  <2>3. Shapes'
    BY <1>1, <2>1, <2>2, MoveShapes DEF Shapes
  <2>4. ASSUME Tracked PROVE Tracked'
    <3>1. OneRun
      BY <2>4 DEF Tracked
    <3>2. (\A c \in Runs : at[c] = Idle) /\ (\A u \in Starters : at[u] \in Starting => u = t)
          /\ \A r \in Resources \ {"trafficMonitor"} : r \in Ahead
      BY <1>1, <3>1, StartersAlone
    <3>3. \A u \in Threads : at'[u] = IF u = t THEN Idle ELSE at[u]
      BY <2>1 DEF Shapes
    <3>4. \A c \in Runs : at'[c] = Idle
      BY <3>2, <3>3, ThreadKinds
    <3>5. \A u \in Starters : at'[u] \notin Starting
      BY <3>2, <3>3, ThreadKinds, IdleIs
    <3>6. \A r \in Resources : field[r] = None /\ live[r] = {}
      <4>1. \A r \in Resources \ {"trafficMonitor"} : field[r] = None /\ live[r] = {}
        BY <2>4, <3>2 DEF Tracked, Unmade
      <4>2. ASSUME NEW c \in live["trafficMonitor"] PROVE FALSE
        <5>1. "trafficMonitor" \in Resources
          BY DEF Resources
        <5>2. c # None
          BY <2>4, <5>1 DEF Tracked, Owned
        <5>3. c \in Runs /\ at[c] = <<"store", "trafficMonitor">>
          BY <1>3, <2>4, <5>1, <5>2 DEF Tracked, Found
        <5>4. QED
          BY <3>2, <5>3, IdleIs
      <4>3. QED
        BY <1>3, <4>1, <4>2
    <3>7. OneRun' /\ Owned' /\ Found'
      BY <1>1, <3>4, <3>5, <3>6 DEF OneRun, Owned, Found
    <3>8. \A c \in Runs : \A r : at'[c] # <<"store", r>>
      BY <3>4, IdleIs
    <3>9. Ahead' = {}
      <4>1. ToMake(Idle) = {} /\ Fresh \subseteq Starting
        BY IdleIs DEF Fresh, Starting
      <4>2. QED
        BY <3>4, <3>5, <4>1 DEF Ahead
    <3>10. Unmade'
      BY <3>8, <3>9 DEF Unmade
    <3>11. Released'
      BY <1>1, <3>6, <3>8, <3>9 DEF Released
    <3>12. QED
      BY <3>7, <3>10, <3>11 DEF Tracked
  <2>5. QED
    BY <2>3, <2>4
<1>4. QED
  BY <1>2, <1>3

(* The thread of a new run is none of the others.                          *)
LEMMA NewRun ==
  ASSUME runs \in Nat
  PROVE  /\ runs + 1 \notin Starters /\ runs + 1 # Main
         /\ runs + 1 \in Threads => runs + 1 \in Runs
<1>1. Main = -2 /\ Binder = -1 /\ \A k \in 1..MaxUses : Shell(k) = -2 - k
  BY DEF Binder, Shell, Main
<1>2. \A u \in Starters : u \in Int /\ u < 0
  BY <1>1, BoundsAssumption DEF Starters, Shells
<1>3. QED
  BY <1>1, <1>2 DEF Threads

(* The Future of the new run gets its thread, and startRunner returns.     *)
LEMMA StartFutureTracked ==
  ASSUME Shapes, NEW t \in Starters, StartFuture(t)
  PROVE  Shapes' /\ (Tracked => Tracked')
<1>1. /\ at[t] = <<"start", "future">> /\ at[t] \in Starting /\ t \in Threads /\ t \notin Runs
      /\ at' = [at EXCEPT ![t] = Idle, ![runs + 1] = BeginConnect]
      /\ runs' = runs + 1 /\ next' = [next EXCEPT ![t] = NoProfile]
      /\ UNCHANGED <<field, live, phase>>
  BY ThreadKinds DEF StartFuture, Starting, fieldVars
<1>2. runs \in Nat /\ runs + 1 \notin Starters /\ runs + 1 # Main
      /\ (runs + 1 \in Threads => runs + 1 \in Runs)
  BY NewRun DEF Shapes
<1>3. \A u \in Threads : at'[u] = IF u = runs + 1 THEN BeginConnect ELSE IF u = t THEN Idle ELSE at[u]
  BY <1>1, <1>2 DEF Shapes
<1>4. BeginConnect \in RunPlaces /\ BeginConnect \notin Starting /\ BeginConnect # Idle
      /\ \A r : BeginConnect \notin {<<"store", r>>, <<"stop", r>>, <<"kill", r>>}
  BY DEF BeginConnect, RunPlaces, Starting, Idle
<1>5. Idle \in StarterPlaces /\ Idle \notin Starting
      /\ \A r : Idle \notin {<<"store", r>>, <<"stop", r>>, <<"kill", r>>}
  BY IdleIs
<1>6. Shapes'
  <2>1. \A u \in Threads : at'[u] \in PlacesOf(u)
    BY <1>1, <1>2, <1>3, <1>4, <1>5 DEF Shapes, PlacesOf
  <2>2. DOMAIN at' = Threads /\ at' = [u \in Threads |-> at'[u]] /\ DOMAIN next' = Starters
    BY <1>1 DEF Shapes
  <2>3. QED
    BY <1>1, <1>2, <2>1, <2>2 DEF Shapes
<1>7. ASSUME Tracked PROVE Tracked'
  <2>1. OneRun
    BY <1>7 DEF Tracked
  <2>2. (\A c \in Runs : at[c] = Idle) /\ (\A u \in Starters : at[u] \in Starting => u = t)
        /\ Current = runs + 1 /\ \A r \in Resources \ {"trafficMonitor"} : r \in Ahead
    BY <1>1, <2>1, StartersAlone
  <2>3. \A c \in Runs : at'[c] = IF c = runs + 1 THEN BeginConnect ELSE Idle
    BY <1>1, <1>3, <2>2, ThreadKinds
  <2>4. \A u \in Starters : at'[u] \notin Starting
    BY <1>2, <1>3, <1>5, <2>2, ThreadKinds
  <2>5. OneRun' /\ Current' = Current
    BY <1>1, <2>2, <2>3, <2>4 DEF OneRun, Current
  <2>6. Ahead' \subseteq Ahead
    <3>1. Fresh \subseteq Starting
      BY DEF Fresh, Starting
    <3>2. \A c \in Runs : ToMake(at'[c]) \subseteq Resources \ {"trafficMonitor"}
      BY DEF ToMake
    <3>3. QED
      BY <2>2, <2>4, <3>1, <3>2 DEF Ahead
  <2>7. \A c \in Runs : \A r : at'[c] # <<"store", r>>
    BY <1>4, <1>5, <2>3
  <2>8. Owned' /\ Unmade'
    <3>1. \A r \in Resources : field'[r] \in {field[r], None} /\ live'[r] \subseteq live[r]
      BY <1>1
    <3>2. \A c \in Runs, r \in Resources : at'[c] = <<"store", r>> => at[c] = <<"store", r>>
      BY <2>7
    <3>3. QED
      BY <1>7, <2>5, <2>6, <3>1, <3>2, ShrinkOwned DEF Tracked
  <2>9. Released'
    <3> SUFFICES ASSUME NEW u \in Threads, NEW s \in Resources, Releases(u, s)',
                        phase'[u] \in {"call", "clear"}
                 PROVE  s \notin Ahead' /\ (phase'[u] = "clear" => live'[s] = {})
      BY <2>7 DEF Released
    <3>1. at'[u] \in {<<"stop", s>>, <<"kill", s>>}
      BY DEF Releases
    <3>2. at'[u] = at[u]
      BY <1>3, <1>4, <1>5, <3>1
    <3>3. Releases(u, s)
      BY <3>2 DEF Releases
    <3>4. QED
      BY <1>1, <1>7, <2>6, <3>3 DEF Tracked, Released
  <2>10. Found'
    <3>1. \A c \in Runs : \A r : at[c] # <<"store", r>>
      BY <2>2, IdleIs
    <3>2. QED
      BY <1>1, <1>7, <3>1 DEF Tracked, Found
  <2>11. QED
    BY <2>5, <2>8, <2>9, <2>10 DEF Tracked
<1>8. QED
  BY <1>6, <1>7

(* A start that finds everything as it must be (Clean).                    *)
LEMMA BeginProfileTracked ==
  ASSUME Shapes, NEW t \in Starters, at' = [at EXCEPT ![t] = <<"start", "profile">>],
         UNCHANGED <<field, live, runs>>, Clean(t)
  PROVE  Tracked'
<1> DEFINE p == <<"start", "profile">>
<1>1. \A u \in Threads : at'[u] = IF u = t THEN p ELSE Idle
  BY DEF Shapes, Clean, Active
<1>2. p \in Starting /\ \A r : p \notin {<<"store", r>>, <<"stop", r>>, <<"kill", r>>}
  BY DEF Starting
<1> HIDE DEF p
<1>3. (\A c \in Runs : at'[c] = Idle) /\ (\A u \in Starters : at'[u] \in Starting => u = t)
  BY <1>1, ThreadKinds, IdleIs
<1>4. \A r \in Resources : field'[r] = None /\ live'[r] = {}
  BY DEF Clean
<1>5. OneRun' /\ Owned' /\ Found'
  BY <1>3, <1>4 DEF OneRun, Owned, Found
<1>6. Unmade'
  BY <1>3, <1>4, IdleIs DEF Unmade, Ahead
<1>7. Released'
  BY <1>1, <1>2, IdleIs DEF Released, Releases
<1>8. QED
  BY <1>5, <1>6, <1>7 DEF Tracked

-----------------------------------------------------------------------------
(* connect().                                                              *)

LEMMA ConnectFits ==
  ASSUME Shapes, NEW c \in Runs, NEW m \in {"connect", "launch", "store"}, at[c][1] = m
  PROVE  /\ c \in Threads /\ c \notin Starters /\ at[c] # Idle /\ at[c] \notin Starting
         /\ m # "connect" => at[c] = <<m, at[c][2]>> /\ at[c][2] \in Executables
         /\ \A r : at[c] \notin {<<"stop", r>>, <<"kill", r>>}
<1>1. c \in Threads /\ c \notin Starters /\ at[c] \in RunPlaces
  BY ThreadKinds DEF Shapes, PlacesOf
<1>2. at[c] # Idle /\ at[c] \notin Starting /\ \A r : at[c] \notin {<<"stop", r>>, <<"kill", r>>}
  <2>1. at[c] # Idle
    <3>1. Idle[1] = "idle"
      BY DEF Idle
    <3>2. at[c][1] # "idle"
      OBVIOUS
    <3>3. QED
      BY <3>1, <3>2
  <2>2. \A r : at[c] # <<"start", r>> /\ at[c] # <<"stop", r>> /\ at[c] # <<"kill", r>>
    OBVIOUS
  <2>3. QED
    BY <2>1, <2>2 DEF Starting
<1>3. at[c] \notin StopPlaces
  BY <1>2 DEF StopPlaces
<1>4. m # "connect" => at[c] = <<m, at[c][2]>> /\ at[c][2] \in Executables
  BY <1>1, <1>2, <1>3 DEF RunPlaces
<1>5. QED
  BY <1>1, <1>2, <1>4

(* A connect() that goes on to a place with nothing more to make.          *)
LEMMA ConnectGoes ==
  ASSUME Shapes, NEW c \in Runs, NEW m \in {"connect", "launch"}, at[c][1] = m, NEW p \in RunPlaces,
         p[1] # "store", ToMake(p) \subseteq ToMake(at[c]), GoOn(c, p),
         UNCHANGED <<field, live, runs>>
  PROVE  Shapes' /\ (Tracked => Tracked')
<1>1. c \in Threads /\ c \notin Starters /\ at[c] # Idle
  BY ConnectFits
<1>2. p \in PlacesOf(c) /\ Advances(c, p)
  BY <1>1 DEF PlacesOf, Advances, Continues
<1>3. Go(c, p) /\ DOMAIN next' = Starters
  BY DEF GoOn, Shapes
<1>4. QED
  BY <1>1, <1>2, <1>3, GoTracked

LEMMA ConnectReadTracked ==
  ASSUME Shapes, NEW c \in Runs, ConnectRead(c)
  PROVE  Shapes' /\ (Tracked => Tracked')
<1>1. PICK m \in {"connect", "launch"} : at[c][1] = m
  BY DEF ConnectRead
<1>2. UNCHANGED <<field, live, runs>>
  BY DEF ConnectRead, fieldVars
<1>3. c \in Threads /\ at[c] # Idle /\ at[c] \notin Starting /\ at[c][1] # "store"
      /\ \A r : ~Releases(c, r)
  BY <1>1, ConnectFits DEF Releases
<1>4. CASE Throw(c)
  BY <1>2, <1>3, <1>4, ThrowTracked
<1>5. CASE Phase(c, "call")
  BY <1>2, <1>3, <1>5, PhaseTracked
<1>6. CASE at[c] = <<"launch", "pdnsd">>
           /\ GoOn(c, After("launch", LaunchOrder, "pdnsd", AfterLaunch))
  <2> DEFINE p == After("launch", LaunchOrder, "pdnsd", AfterLaunch)
  <2>1. at[c][1] = "launch"
    BY <1>6
  <2>2. "pdnsd" \in Executables
    BY <1>6, <2>1, ConnectFits
  <2>3. p \in RunPlaces /\ p[1] # "store" /\ ToMake(p) = {r \in Executables : Rank("pdnsd") < Rank(r)}
    BY <2>2, NextLaunch
  <2>4. \A r \in Executables : Rank(r) \in Int
    BY RankIs
  <2>5. ToMake(<<"launch", "pdnsd">>) = {r \in Executables : Rank("pdnsd") <= Rank(r)}
    BY Names DEF ToMake
  <2>6. ToMake(p) \subseteq ToMake(at[c])
    BY <1>6, <2>2, <2>3, <2>4, <2>5
  <2> HIDE DEF p
  <2>7. GoOn(c, p)
    BY <1>6 DEF p
  <2>8. QED
    BY <1>2, <2>1, <2>3, <2>6, <2>7, ConnectGoes
<1>7. QED
  BY <1>4, <1>5, <1>6 DEF ConnectRead

LEMMA ConnectFailsTracked ==
  ASSUME Shapes, NEW c \in Runs, ConnectFails(c)
  PROVE  Shapes' /\ (Tracked => Tracked')
<1>1. PICK m \in {"connect", "launch"} : at[c][1] = m
  BY DEF ConnectFails
<1>2. UNCHANGED <<field, live, runs>> /\ Throw(c)
  BY DEF ConnectFails, fieldVars
<1>3. c \in Threads /\ at[c] # Idle /\ at[c] \notin Starting /\ at[c][1] # "store"
  BY <1>1, ConnectFits
<1>4. QED
  BY <1>2, <1>3, ThrowTracked

LEMMA ConnectOtherTracked ==
  ASSUME Shapes, NEW c \in Runs, ConnectPost(c) \/ ConnectNotify(c) \/ ConnectAssign(c)
  PROVE  Shapes' /\ (Tracked => Tracked')
<1>1. PICK p \in {<<"connect", "notify">>, <<"connect", "assign">>, Idle} : GoOn(c, p)
  BY DEF ConnectPost, ConnectNotify, ConnectAssign
<1>2. UNCHANGED <<field, live, runs>>
  BY DEF ConnectPost, ConnectNotify, ConnectAssign, fieldVars
<1>3. at[c][1] = "connect"
  BY DEF ConnectPost, ConnectNotify, ConnectAssign, Reached
<1>4. p \in RunPlaces /\ p[1] # "store"
  <2>1. CASE p = Idle
    BY <2>1, IdleIs DEF Idle
  <2>2. CASE p = <<"connect", "notify">> \/ p = <<"connect", "assign">>
    BY <2>2 DEF RunPlaces
  <2>3. QED
    BY <2>1, <2>2
<1>5. ToMake(p) = {}
  <2>1. \A x \in {"notify", "assign"} : ToMake(<<"connect", x>>) = {}
    BY DEF ToMake
  <2>2. QED
    BY <2>1, IdleIs
<1>6. QED
  BY <1>1, <1>2, <1>3, <1>4, <1>5, ConnectGoes

(* The run at work is the last one, and no other is starting.              *)
LEMMA RunAlone ==
  ASSUME Shapes, OneRun, NEW c \in Runs, at[c] # Idle
  PROVE  /\ c = runs /\ Current = c /\ c # None
         /\ \A d \in Runs : d # c => at[d] = Idle
         /\ \A u \in Starters : at[u] \notin Starting
         /\ Ahead = {r \in Resources : r \in ToMake(at[c])}
<1>1. c = runs /\ c # None /\ (\A d \in Runs : d # c => at[d] = Idle)
      /\ \A u \in Starters : at[u] \notin Starting
  BY ThreadKinds DEF OneRun
<1>2. Current = c
  BY <1>1 DEF Current
<1>3. Ahead = {r \in Resources : r \in ToMake(at[c])}
  <2>1. Fresh \subseteq Starting
    BY DEF Fresh, Starting
  <2>2. QED
    BY <1>1, <2>1, IdleIs DEF Ahead
<1>4. QED
  BY <1>1, <1>2, <1>3

(* The guard works before its field refers to it.                          *)
LEMMA ConnectLaunchTracked ==
  ASSUME Shapes, NEW c \in Runs, ConnectLaunch(c)
  PROVE  Shapes' /\ (Tracked => Tracked')
<1> DEFINE x == at[c][2]
           p == <<"store", x>>
<1>0. at[c][1] = "launch"
  BY DEF ConnectLaunch
<1>1. /\ at' = [at EXCEPT ![c] = p] /\ phase' = [phase EXCEPT ![c] = "check"] /\ next' = next
      /\ live' = [live EXCEPT ![x] = @ \cup {c}] /\ UNCHANGED <<field, runs>>
  BY DEF ConnectLaunch, GoOn, Go
<1>2. c \in Threads /\ c \notin Starters /\ at[c] # Idle /\ at[c] = <<"launch", x>>
      /\ x \in Executables /\ x \in Resources
  BY <1>0, ConnectFits, Names
<1> HIDE DEF x
<1>3. p \in RunPlaces /\ p \notin Starting /\ p \notin Fresh /\ p # Idle
      /\ \A r : p \notin {<<"stop", r>>, <<"kill", r>>}
  BY <1>2 DEF RunPlaces, Starting, Fresh, Idle
<1>4. Shapes'
  <2>1. p \in PlacesOf(c)
    BY <1>3 DEF PlacesOf
  <2>2. DOMAIN phase' = Threads /\ DOMAIN next' = Starters /\ DOMAIN field' = Resources
        /\ DOMAIN live' = Resources /\ runs' \in Nat
    BY <1>1 DEF Shapes
  <2>3. QED
    BY <1>1, <1>2, <2>1, <2>2, MoveShapes
<1>5. ASSUME Tracked PROVE Tracked'
  <2>1. ToMake(p) = {r \in Executables : Rank(x) < Rank(r)}
    BY Names DEF ToMake
  <2>2. ToMake(at[c]) = {r \in Executables : Rank(x) <= Rank(r)}
    BY <1>2, Names DEF ToMake
  <2>3. \A r \in Executables : Rank(r) \in Int
    BY RankIs
  <2>4. ToMake(p) \subseteq ToMake(at[c]) /\ x \in ToMake(at[c]) /\ x \notin ToMake(p)
    BY <1>2, <2>1, <2>2, <2>3
  <2>5. Continues(c, p)
    BY <1>2, <2>4 DEF Continues
  <2>6. OneRun' /\ Ahead' \subseteq Ahead /\ Current' = Current
    BY <1>1, <1>2, <1>5, <2>5, MoveAhead DEF Tracked
  <2>7. Current = c /\ c # None /\ (\A d \in Runs : d # c => at[d] = Idle)
        /\ Ahead = {r \in Resources : r \in ToMake(at[c])}
        /\ \A u \in Starters : at[u] \notin Starting
    BY <1>2, <1>5, RunAlone DEF Tracked
  <2>8. \A u \in Threads : at'[u] = IF u = c THEN p ELSE at[u]
    BY <1>1 DEF Shapes
  <2>9. x \in Ahead /\ x \notin Ahead'
    <3>1. \A d \in Runs : x \notin ToMake(at'[d])
      BY <2>4, <2>7, <2>8, ThreadKinds, IdleIs
    <3>2. \A u \in Starters : at'[u] \notin Starting
      BY <2>7, <2>8, <1>3, ThreadKinds
    <3>3. x # "trafficMonitor"
      BY <1>2, Names
    <3>4. QED
      BY <1>2, <2>4, <2>7, <3>1, <3>2, <3>3 DEF Ahead
  <2>10. \A d \in Runs : \A r : at'[d] = <<"store", r>> => d = c /\ r = x
    BY <2>7, <2>8, ThreadKinds, IdleIs
  <2>11. field[x] = None /\ live[x] = {}
         /\ \A r \in Resources : live'[r] = IF r = x THEN {c} ELSE live[r]
    <3>1. field[x] = None /\ live[x] = {}
      BY <1>5, <2>9 DEF Tracked, Unmade
    <3>2. \A r \in Resources : live'[r] = IF r = x THEN live[r] \cup {c} ELSE live[r]
      BY <1>1 DEF Shapes
    <3>3. QED
      BY <3>1, <3>2
  <2>12. Owned'
    BY <1>1, <1>5, <2>6, <2>7, <2>11 DEF Tracked, Owned
  <2>13. Unmade'
    <3>1. \A r \in Ahead' : r \in Resources /\ r # x
      BY <2>9 DEF Ahead
    <3>2. \A r \in Ahead' : field'[r] = None /\ live'[r] = {}
      BY <1>1, <1>5, <2>6, <2>11, <3>1 DEF Tracked, Unmade
    <3>3. QED
      BY <1>1, <2>10, <2>11, <3>2 DEF Unmade
  <2>14. Released'
    <3> SUFFICES ASSUME NEW u \in Threads, NEW s \in Resources, Releases(u, s)',
                        phase'[u] \in {"call", "clear"}
                 PROVE  /\ s \notin Ahead'
                        /\ \A d \in Runs : at'[d] # <<"store", s>>
                        /\ phase'[u] = "clear" => live'[s] = {}
      BY DEF Released
    <3>1. at'[u] \in {<<"stop", s>>, <<"kill", s>>}
      BY DEF Releases
    <3>2. u # c
      BY <1>3, <2>8, <3>1
    <3>3. at'[u] = at[u] /\ phase'[u] = phase[u]
      BY <1>1, <2>8, <3>2 DEF Shapes
    <3>4. Releases(u, s)
      BY <3>3 DEF Releases
    <3>5. s \notin Ahead /\ (phase[u] = "clear" => live[s] = {})
      BY <1>5, <3>3, <3>4 DEF Tracked, Released
    <3>6. s # x
      BY <2>9, <3>5
    <3>7. QED
      BY <2>6, <2>10, <2>11, <3>3, <3>5, <3>6
  <2>15. Found'
    <3> SUFFICES ASSUME NEW r \in Resources, NEW d \in live'[r]
                 PROVE  field'[r] = d \/ (d \in Runs /\ at'[d] = <<"store", r>>)
      BY DEF Found
    <3>1. CASE r = x
      <4>1. d = c /\ at'[c] = p
        BY <1>2, <2>8, <2>11, <3>1
      <4>2. QED
        BY <3>1, <4>1
    <3>2. CASE r # x
      <4>1. field[r] = d \/ (d \in Runs /\ at[d] = <<"store", r>>)
        BY <1>5, <2>11, <3>2 DEF Tracked, Found
      <4>2. d \in Runs => at[d] # <<"store", r>>
        BY <1>2, <2>7, IdleIs
      <4>3. QED
        BY <1>1, <4>1, <4>2
    <3>3. QED
      BY <3>1, <3>2
  <2>16. QED
    BY <2>6, <2>12, <2>13, <2>14, <2>15 DEF Tracked
<1>6. QED
  BY <1>4, <1>5

LEMMA ConnectStoreTracked ==
  ASSUME Shapes, NEW c \in Runs, ConnectStore(c)
  PROVE  Shapes' /\ (Tracked => Tracked')
<1> DEFINE x == at[c][2]
           p == After("launch", LaunchOrder, x, AfterLaunch)
<1>0. at[c][1] = "store"
  BY DEF ConnectStore
<1>1. /\ at' = [at EXCEPT ![c] = p] /\ phase' = [phase EXCEPT ![c] = "check"] /\ next' = next
      /\ field' = [field EXCEPT ![x] = c] /\ UNCHANGED <<live, runs>>
  BY DEF ConnectStore, GoOn, Go
<1>2. c \in Threads /\ c \notin Starters /\ at[c] # Idle /\ at[c] = <<"store", x>>
      /\ x \in Executables /\ x \in Resources
  BY <1>0, ConnectFits, Names
<1> HIDE DEF x
<1>3. p \in RunPlaces /\ p[1] # "store" /\ p # Idle
      /\ ToMake(p) = {r \in Executables : Rank(x) < Rank(r)}
  BY <1>2, NextLaunch
<1> HIDE DEF p
<1>4. Shapes'
  <2>1. p \in PlacesOf(c)
    BY <1>3 DEF PlacesOf
  <2>2. DOMAIN phase' = Threads /\ DOMAIN next' = Starters /\ DOMAIN field' = Resources
        /\ DOMAIN live' = Resources /\ runs' \in Nat
    BY <1>1 DEF Shapes
  <2>3. QED
    BY <1>1, <1>2, <2>1, <2>2, MoveShapes
<1>5. ASSUME Tracked PROVE Tracked'
  <2>2. ToMake(at[c]) = {r \in Executables : Rank(x) < Rank(r)}
    BY <1>2, Names DEF ToMake
  <2>3. x \notin ToMake(at[c])
    BY <1>2, <2>2, RankIs
  <2>5. Continues(c, p)
    BY <1>2, <1>3, <2>2 DEF Continues
  <2>6. OneRun' /\ Ahead' \subseteq Ahead /\ Current' = Current
    BY <1>1, <1>2, <1>5, <2>5, MoveAhead DEF Tracked
  <2>7. Current = c /\ c # None /\ (\A d \in Runs : d # c => at[d] = Idle)
        /\ Ahead = {r \in Resources : r \in ToMake(at[c])}
    BY <1>2, <1>5, RunAlone DEF Tracked
  <2>8. \A u \in Threads : at'[u] = IF u = c THEN p ELSE at[u]
    BY <1>1 DEF Shapes
  <2>9. x \notin Ahead
    BY <2>3, <2>7
  <2>10. \A d \in Runs : \A r : at'[d] # <<"store", r>>
    <3>1. \A r : p # <<"store", r>>
      BY <1>3
    <3>2. QED
      BY <2>7, <2>8, <3>1, ThreadKinds, IdleIs
  <2>11. \A r \in Resources : field'[r] = IF r = x THEN c ELSE field[r]
    BY <1>1 DEF Shapes
  <2>12. Owned'
    BY <1>1, <1>5, <2>6, <2>7, <2>11 DEF Tracked, Owned
  <2>13. Unmade'
    <3>1. \A r \in Ahead' : r \in Resources /\ r # x
      BY <2>6, <2>9 DEF Ahead
    <3>2. \A r \in Ahead' : field'[r] = None /\ live'[r] = {}
      BY <1>1, <1>5, <2>6, <2>11, <3>1 DEF Tracked, Unmade
    <3>3. QED
      BY <2>10, <3>2 DEF Unmade
  <2>14. Released'
    <3>1. \A c1 \in Runs, r \in Resources : at'[c1] = <<"store", r>> => at[c1] = <<"store", r>>
      BY <2>10
    <3>2. \A r \in Resources : live'[r] \subseteq live[r]
      BY <1>1
    <3>3. "check" \notin {"call", "clear"}
      OBVIOUS
    <3>4. QED
      BY <1>1, <1>2, <1>5, <2>6, <3>1, <3>2, <3>3, OthersRelease DEF Tracked
  <2>15. Found'
    <3> SUFFICES ASSUME NEW r \in Resources, NEW d \in live'[r] PROVE field'[r] = d
      BY DEF Found
    <3>1. CASE r = x
      <4>1. d = c
        BY <1>1, <1>5, <2>7 DEF Tracked, Owned
      <4>2. QED
        BY <2>11, <3>1, <4>1
    <3>2. CASE r # x
      <4>1. field[r] = d \/ (d \in Runs /\ at[d] = <<"store", r>>)
        BY <1>1, <1>5 DEF Tracked, Found
      <4>2. d \in Runs => at[d] # <<"store", r>>
        BY <1>2, <2>7, <3>2, IdleIs
      <4>3. QED
        BY <2>11, <3>2, <4>1, <4>2
    <3>3. QED
      BY <3>1, <3>2
  <2>16. QED
    BY <2>6, <2>12, <2>13, <2>14, <2>15 DEF Tracked
<1>6. QED
  BY <1>4, <1>5

LEMMA ConnectTracked ==
  ASSUME Shapes, NEW c \in Runs, Connect(c)
  PROVE  Shapes' /\ (Tracked => Tracked')
BY ConnectReadTracked, ConnectFailsTracked, ConnectLaunchTracked, ConnectStoreTracked,
   ConnectOtherTracked DEF Connect

-----------------------------------------------------------------------------
(* Requests, messages, and all steps of the trait.                         *)

(* An idle thread that is not that of a run enters stopRunner.             *)
LEMMA EnterStopTracked ==
  ASSUME Shapes, NEW t \in Threads \ Runs, at[t] = Idle, GoOn(t, BeginStop),
         UNCHANGED <<field, live, runs>>
  PROVE  Shapes' /\ (Tracked => Tracked')
<1>1. at[t] \notin Starting /\ at[t][1] # "store"
  <2>1. Idle[1] = "idle"
    BY DEF Idle
  <2>2. QED
    BY <2>1, IdleIs
<1>2. BeginStop \in PlacesOf(t) /\ Advances(t, BeginStop)
  BY <1>1, BeginStopFits, StopFits
<1>3. Go(t, BeginStop) /\ DOMAIN next' = Starters
  BY DEF GoOn, Shapes
<1>4. QED
  BY <1>2, <1>3, GoTracked

LEMMA BinderFits ==
  ASSUME Shapes, NEW p \in {BeginStart, <<"use", "switch">>}, at[Binder] \notin Starting,
         at[Binder][1] # "store"
  PROVE  p \in PlacesOf(Binder) /\ Advances(Binder, p)
<1>1. p \in StarterPlaces /\ p \notin Starting /\ p \notin Fresh /\ p[1] # "store"
  BY DEF BeginStart, StarterPlaces, Starting, Fresh
<1>2. Binder \in Starters /\ Binder \notin Runs
  BY ThreadKinds
<1>3. QED
  BY <1>1, <1>2 DEF PlacesOf, Advances, Continues

LEMMA UseTracked ==
  ASSUME Shapes, Use
  PROVE  Shapes' /\ (Tracked => Tracked')
<1>1. at[Binder] = Idle /\ UNCHANGED <<field, live, runs>> /\ Binder \in Threads \ Runs
  BY ThreadKinds DEF Use, UseStop, UseProfile, Active, fieldVars
<1>2. at[Binder] \notin Starting /\ at[Binder][1] # "store"
  <2>1. Idle[1] = "idle"
    BY DEF Idle
  <2>2. QED
    BY <1>1, <2>1, IdleIs
<1>3. CASE GoOn(Binder, BeginStop)
  BY <1>1, <1>3, EnterStopTracked
<1>4. ASSUME NEW p \in {BeginStart, <<"use", "switch">>}, NEW q,
             Go(Binder, p), next' = [next EXCEPT ![Binder] = q]
      PROVE  Shapes' /\ (Tracked => Tracked')
  <2>1. p \in PlacesOf(Binder) /\ Advances(Binder, p)
    BY <1>2, BinderFits
  <2>2. DOMAIN next' = Starters
    BY <1>4 DEF Shapes
  <2>3. QED
    BY <1>1, <1>4, <2>1, <2>2, GoTracked
<1>5. CASE UNCHANGED <<at, phase, next, crashed>>
  <2>1. Shapes'
    BY <1>1, <1>5 DEF Shapes
  <2>2. Tracked => Tracked'
    BY <1>1, <1>5 DEF Tracked, OneRun, Owned, Unmade, Released, Found, Ahead, Current, Releases
  <2>3. QED
    BY <2>1, <2>2
<1>6. QED
  BY <1>3, <1>4, <1>5 DEF Use, UseStop, UseProfile

LEMMA UseSwitchTracked ==
  ASSUME Shapes, UseSwitch
  PROVE  Shapes' /\ (Tracked => Tracked')
<1>1. at[Binder] = <<"use", "switch">> /\ UNCHANGED <<field, live, runs>> /\ Binder \in Threads
      /\ Binder \notin Runs
  BY ThreadKinds DEF UseSwitch, fieldVars
<1>2. at[Binder] \notin Starting /\ at[Binder][1] # "store" /\ at[Binder] # Idle
  BY <1>1 DEF Starting, Idle
<1>3. CASE Throw(Binder)
  BY <1>1, <1>2, <1>3, ThrowTracked
<1>4. CASE Leave(Binder, Idle) \/ Leave(Binder, BeginStop)
  BY <1>1, <1>2, <1>4, BeginStopFits, LeaveTracked
<1>5. CASE GoOn(Binder, BeginStop)
  <2>1. BeginStop \in PlacesOf(Binder) /\ Advances(Binder, BeginStop)
    BY <1>1, <1>2, BeginStopFits, StopFits
  <2>2. Go(Binder, BeginStop) /\ DOMAIN next' = Starters
    BY <1>5 DEF GoOn, Shapes
  <2>3. QED
    BY <1>1, <2>1, <2>2, GoTracked
<1>6. QED
  BY <1>3, <1>4, <1>5 DEF UseSwitch

LEMMA CloseTracked ==
  ASSUME Shapes, Close
  PROVE  Shapes' /\ (Tracked => Tracked')
BY ThreadKinds, EnterStopTracked DEF Close, Active, fieldVars

LEMMA HandleMessageTracked ==
  ASSUME Shapes, UNCHANGED <<field, live, threadVars>>
  PROVE  Shapes' /\ (Tracked => Tracked')
<1>1. UNCHANGED <<field, live, at, phase, next, runs>>
  BY DEF threadVars
<1>2. Shapes'
  BY <1>1 DEF Shapes
<1>3. Tracked => Tracked'
  BY <1>1 DEF Tracked, OneRun, Owned, Unmade, Released, Found, Ahead, Current, Releases
<1>4. QED
  BY <1>2, <1>3

LEMMA BaseStepTracked ==
  ASSUME Shapes, NEW t \in Threads, BaseStep(t)
  PROVE  Shapes' /\ (Tracked => Tracked')
<1>1. CASE t \in Starters /\ StartRunner(t)
  BY <1>1, StartOtherTracked, StartTrafficMonitorTracked, StartTrafficMonitorRunTracked,
     StartFutureTracked DEF StartRunner
<1>2. CASE HandleMessage
  BY <1>2, HandleMessageTracked DEF HandleMessage
<1>3. QED
  BY <1>1, <1>2, StopRunnerTracked, UseSwitchTracked, ConnectTracked DEF BaseStep

LEMMA BaseInitShapes == BaseInit => Shapes /\ Kept
<1> SUFFICES ASSUME BaseInit PROVE Shapes /\ Tracked
  BY DEF Kept
<1>1. (\A t \in Threads : at[t] = Idle) /\ DOMAIN at = Threads /\ at = [t \in Threads |-> at[t]]
      /\ runs = 0
  BY DEF BaseInit
<1>2. DOMAIN phase = Threads /\ DOMAIN next = Starters /\ DOMAIN field = Resources
      /\ DOMAIN live = Resources /\ \A r \in Resources : field[r] = None /\ live[r] = {}
  BY DEF BaseInit
<1>3. Shapes
  BY <1>1, <1>2, BeginStopFits, IdleIs DEF Shapes, PlacesOf
<1>4. \A t \in Threads : \A r : at[t] \notin {<<"store", r>>, <<"stop", r>>, <<"kill", r>>}
      /\ at[t] \notin Starting
  BY <1>1, IdleIs
<1>5. OneRun /\ Owned /\ Found
  BY <1>1, <1>2, <1>4, ThreadKinds DEF OneRun, Owned, Found
<1>6. Unmade /\ Released
  BY <1>2, <1>4, ThreadKinds DEF Unmade, Ahead, Released, Releases
<1>7. QED
  BY <1>3, <1>5, <1>6 DEF Tracked

(* The invariant is about the run that is at work.                         *)
LEMMA KeptFinds == Kept => NothingLost
BY DEF Kept, Tracked, Found, NothingLost

=============================================================================
