------------------------- MODULE MasterPagesProofs -------------------------
(***************************************************************************)
(* The page of the master is where the server is (MasterPages), for any    *)
(* pages, connections and devices, and however often connections break.    *)
(*                                                                         *)
(* What a page will be once it handled what is on its way to it is given   *)
(* by a run of views, one for each packet.  The invariant says of every    *)
(* view what may still be on its way, in both directions; of the last one  *)
(* of the master, that it fits the server or what was sent to it makes it  *)
(* fit; and of those at the setup, that the device has no game running.    *)
(***************************************************************************)
EXTENDS MasterPages, GameServiceProofs, SequenceTheorems

Has(s, type) == \E i \in 1 .. Len(s) : s[i].type = type

IsSeq(q) == \E S : q \in Seq(S)

LEMMA EmptyLemma == IsSeq(<<>>) /\ Len(<<>>) = 0 /\ \A t : ~Has(<<>>, t)
<1>1. <<>> \in Seq({}) /\ Len(<<>>) = 0
  OBVIOUS
<1> QED
  BY <1>1 DEF IsSeq, Has

LEMMA OneLemma == \A m : IsSeq(<<m>>) /\ Len(<<m>>) = 1 /\ <<m>>[1] = m /\ \A t : Has(<<m>>, t) <=> m.type = t
<1> SUFFICES ASSUME NEW m
             PROVE  IsSeq(<<m>>) /\ Len(<<m>>) = 1 /\ <<m>>[1] = m /\ \A t : Has(<<m>>, t) <=> m.type = t
  OBVIOUS
<1>1. <<m>> \in Seq({m}) /\ Len(<<m>>) = 1 /\ <<m>>[1] = m
  OBVIOUS
<1>2. \A t : Has(<<m>>, t) <=> \E i \in {1} : <<m>>[i].type = t
  <2>1. 1 .. Len(<<m>>) = {1}
    BY <1>1
  <2> QED
    BY <2>1 DEF Has
<1> QED
  BY <1>1, <1>2 DEF IsSeq

LEMMA LenLemma ==
  ASSUME NEW q, IsSeq(q)
  PROVE  Len(q) \in Nat /\ (q = <<>> <=> Len(q) = 0)
<1>1. PICK S : q \in Seq(S)
  BY DEF IsSeq
<1>2. q = <<>> => Len(q) = 0
  BY EmptyLemma
<1>3. Len(q) = 0 => q = <<>>
  BY <1>1, EmptySeq
<1> QED
  BY <1>1, <1>2, <1>3

LEMMA TailLemma ==
  ASSUME NEW q, IsSeq(q), q # <<>>
  PROVE  /\ IsSeq(Tail(q)) /\ Len(Tail(q)) = Len(q) - 1 /\ Head(q) = q[1] /\ Len(q) >= 1
         /\ \A i \in 1 .. Len(q) - 1 : Tail(q)[i] = q[i + 1]
         /\ \A t : Has(q, t) <=> Head(q).type = t \/ Has(Tail(q), t)
<1>1. PICK S : q \in Seq(S)
  BY DEF IsSeq
<1>2. Tail(q) \in Seq(S) /\ Len(Tail(q)) = Len(q) - 1 /\ Head(q) = q[1] /\ Len(q) \in Nat /\ Len(q) >= 1
  BY <1>1
<1>3. \A i \in 1 .. Len(q) - 1 : Tail(q)[i] = q[i + 1]
  BY <1>1
<1>4. ASSUME NEW t PROVE Has(q, t) <=> Head(q).type = t \/ Has(Tail(q), t)
  <2>1. ASSUME Has(q, t) PROVE Head(q).type = t \/ Has(Tail(q), t)
    <3>1. PICK i \in 1 .. Len(q) : q[i].type = t
      BY <2>1 DEF Has
    <3>2. CASE i = 1
      BY <3>1, <3>2, <1>2
    <3>3. CASE i # 1
      <4>1. i - 1 \in 1 .. Len(q) - 1 /\ (i - 1) + 1 = i
        BY <3>3, <1>2
      <4> QED
        BY <4>1, <3>1, <1>2, <1>3 DEF Has
    <3> QED
      BY <3>2, <3>3
  <2>2. ASSUME Has(Tail(q), t) PROVE Has(q, t)
    <3>1. PICK i \in 1 .. Len(q) - 1 : Tail(q)[i].type = t
      BY <2>2, <1>2 DEF Has
    <3>2. i + 1 \in 1 .. Len(q)
      BY <1>2
    <3> QED
      BY <3>1, <3>2, <1>3 DEF Has
  <2>3. ASSUME Head(q).type = t PROVE Has(q, t)
    <3>1. 1 \in 1 .. Len(q)
      BY <1>2
    <3> QED
      BY <2>3, <3>1, <1>2 DEF Has
  <2> QED
    BY <2>1, <2>2, <2>3
<1> QED
  BY <1>2, <1>3, <1>4 DEF IsSeq

LEMMA ConcatLemma ==
  ASSUME NEW q, IsSeq(q), NEW x, IsSeq(x)
  PROVE  /\ IsSeq(q \o x) /\ Len(q \o x) = Len(q) + Len(x)
         /\ \A i \in 1 .. Len(q) : (q \o x)[i] = q[i]
         /\ \A i \in 1 .. Len(x) : (q \o x)[Len(q) + i] = x[i]
         /\ \A t : Has(q \o x, t) <=> Has(q, t) \/ Has(x, t)
<1>1. PICK S, T : q \in Seq(S) /\ x \in Seq(T)
  BY DEF IsSeq
<1>2. q \in Seq(S \cup T) /\ x \in Seq(S \cup T)
  BY <1>1
<1>3. q \o x \in Seq(S \cup T) /\ Len(q \o x) = Len(q) + Len(x) /\ Len(q) \in Nat /\ Len(x) \in Nat
  BY <1>2
<1>4. \A i \in 1 .. Len(q) : (q \o x)[i] = q[i]
  BY <1>2
<1>5. \A i \in 1 .. Len(x) : (q \o x)[Len(q) + i] = x[i]
  BY <1>2
<1>6. ASSUME NEW t PROVE Has(q \o x, t) <=> Has(q, t) \/ Has(x, t)
  <2>1. ASSUME Has(q \o x, t) PROVE Has(q, t) \/ Has(x, t)
    <3>1. PICK i \in 1 .. Len(q) + Len(x) : (q \o x)[i].type = t
      BY <2>1, <1>3 DEF Has
    <3>2. CASE i <= Len(q)
      <4>1. i \in 1 .. Len(q)
        BY <3>2, <1>3
      <4> QED
        BY <4>1, <3>1, <1>4 DEF Has
    <3>3. CASE ~(i <= Len(q))
      <4>1. PICK j \in 1 .. Len(x) : i = Len(q) + j
        <5>1. i - Len(q) \in 1 .. Len(x) /\ i = Len(q) + (i - Len(q))
          BY <3>3, <1>3
        <5> QED
          BY <5>1
      <4> QED
        BY <4>1, <3>1, <1>5 DEF Has
    <3> QED
      BY <3>2, <3>3
  <2>2. ASSUME Has(q, t) PROVE Has(q \o x, t)
    <3>1. PICK i \in 1 .. Len(q) : q[i].type = t
      BY <2>2 DEF Has
    <3>2. i \in 1 .. Len(q \o x)
      BY <1>3
    <3> QED
      BY <3>1, <3>2, <1>4 DEF Has
  <2>3. ASSUME Has(x, t) PROVE Has(q \o x, t)
    <3>1. PICK i \in 1 .. Len(x) : x[i].type = t
      BY <2>3 DEF Has
    <3>2. Len(q) + i \in 1 .. Len(q \o x)
      BY <1>3
    <3> QED
      BY <3>1, <3>2, <1>5 DEF Has
  <2> QED
    BY <2>1, <2>2, <2>3
<1> QED
  BY <1>3, <1>4, <1>5, <1>6 DEF IsSeq
----------------------------------------------------------------------------
(* What a page shows, and what the packets on their way make of it. *)

AtSetup == {"MASTER_ACCEPTED", "RESETTING", "RECEIVED_PRESETUP_DATA", "SETTING_UP"}
Early   == {"STARTING"} \cup AtSetup
InGame  == {"READY_TO_START", "PLAYING", "END"}
Views   == Early \cup InGame \cup {"REJECTED"}

\* a page's state, and whether it waits for the answer to a setup or a reset
View(pg) == CASE pg.asked /\ pg.state = "MASTER_ACCEPTED"        -> "RESETTING"
              [] pg.asked /\ pg.state = "RECEIVED_PRESETUP_DATA" -> "SETTING_UP"
              [] OTHER                                           -> pg.state

\* what of a packet changes the view
KindOfResponse(m) ==
  CASE m.responseTo = "REGISTER_MASTER" /\ m.wasSuccessful  -> "REGISTERED"
    [] m.responseTo = "REGISTER_MASTER" /\ ~m.wasSuccessful -> "REFUSED"
    [] m.responseTo = "SETUP_GAME" /\ m.wasSuccessful       -> "SET_UP"
    [] m.responseTo = "START_GAME" /\ m.wasSuccessful       -> "STARTED"
    [] OTHER                                                -> "NOTHING"
Kind(m) ==
  CASE m.type = "MASTER_TAKEN_OVER"       -> "TAKEN_OVER"
    [] m.type = "PRESETUP_AVAILABLE_INFO" -> "PRESETUP"
    [] m.type = "NEW_MASTER_ACCEPTED"     -> "NEW_MASTER"
    [] m.type = "RESPONSE_PACKET"         -> KindOfResponse(m)
    [] OTHER                              -> "NOTHING"

After(v, k) ==
  CASE k = "TAKEN_OVER" \/ (k = "REFUSED" /\ v \in Early) -> "REJECTED"
    [] k = "REGISTERED" /\ v = "STARTING" -> "MASTER_ACCEPTED"
    [] k = "NEW_MASTER" /\ v = "STARTING" -> "READY_TO_START"
    [] k = "PRESETUP" /\ v \in {"MASTER_ACCEPTED", "RESETTING"} -> "RECEIVED_PRESETUP_DATA"
    [] k = "SET_UP" /\ v \in {"RECEIVED_PRESETUP_DATA", "SETTING_UP"} -> "READY_TO_START"
    [] k = "STARTED" /\ v = "READY_TO_START" -> "PLAYING"
    [] OTHER -> v

PageRecord ==
  [state : PageState, conn : MasterConn \cup {None}, wasConnected : BOOLEAN, takeOverRequested : BOOLEAN,
   takenOver : BOOLEAN, timer : BOOLEAN, paused : BOOLEAN, token : MasterConn \cup {None},
   asked : BOOLEAN, interrupted : BOOLEAN]

GoodPage(pg) ==
  /\ pg \in PageRecord
  /\ pg.asked => pg.state \in {"MASTER_ACCEPTED", "RECEIVED_PRESETUP_DATA"}
  /\ pg.takeOverRequested => pg.state \in {"STARTING", "REJECTED"}
  /\ ~pg.wasConnected => pg.conn = None /\ pg.state = "STARTING"

LEMMA ViewLemma ==
  ASSUME NEW pg, GoodPage(pg)
  PROVE  /\ View(pg) \in Views
         /\ \A v \in {"STARTING", "READY_TO_START", "PLAYING", "END", "REJECTED"} : View(pg) = v <=> pg.state = v
         /\ View(pg) = "RESETTING" <=> pg.asked /\ pg.state = "MASTER_ACCEPTED"
         /\ View(pg) = "SETTING_UP" <=> pg.asked /\ pg.state = "RECEIVED_PRESETUP_DATA"
         /\ View(pg) = "MASTER_ACCEPTED" <=> ~pg.asked /\ pg.state = "MASTER_ACCEPTED"
         /\ View(pg) = "RECEIVED_PRESETUP_DATA" <=> ~pg.asked /\ pg.state = "RECEIVED_PRESETUP_DATA"
BY DEF GoodPage, PageRecord, PageState, View, Views, Early, AtSetup, InGame

LEMMA AfterLemma ==
  ASSUME NEW v \in Views, NEW k
  PROVE  /\ After(v, k) \in Views
         /\ v \in InGame => After(v, k) \in InGame \cup {"REJECTED"}
         /\ v \in {"PLAYING", "END"} => After(v, k) \in {v, "REJECTED"}
         /\ After(v, k) = "PLAYING" => v \in {"READY_TO_START", "PLAYING"}
         /\ After(v, k) = "END" => v = "END"
         /\ k \in {"TAKEN_OVER"} => After(v, k) = "REJECTED"
         /\ v # "REJECTED" /\ After(v, k) = "REJECTED" => k \in {"TAKEN_OVER", "REFUSED"}
BY DEF After, Views, Early, AtSetup, InGame

OnMessage(pg, m, after) ==
  /\ GoodPage(after) /\ View(after) = After(View(pg), Kind(m))
  /\ after.conn = pg.conn /\ after.wasConnected = pg.wasConnected
  /\ after.state # "REJECTED" => after.interrupted = pg.interrupted
  /\ m.type = "STORAGE_ACCESS" => after.token = pg.conn
  /\ m.type # "STORAGE_ACCESS" /\ after.state # "REJECTED" => after.token = pg.token

LEMMA ResponseLemma ==
  ASSUME NEW pg, GoodPage(pg), pg.conn # None, pg.state # "REJECTED", NEW m, m.type = "RESPONSE_PACKET"
  PROVE  OnMessage(pg, m, handleResponsePackets(pg, m))
<1> DEFINE after == handleResponsePackets(pg, m)
<1> USE DEF Kind, KindOfResponse
<1>1. CASE m.responseTo = "REGISTER_MASTER" /\ pg.state \in Registering
  <2>1. CASE m.wasSuccessful
    <3>1. after = [pg EXCEPT !.takeOverRequested = FALSE,
                             !.state = IF pg.state = "STARTING" THEN "MASTER_ACCEPTED" ELSE pg.state]
      BY <1>1, <2>1 DEF handleResponsePackets, handleMasterRegistrationResponse
    <3>2. Kind(m) = "REGISTERED"
      BY <1>1, <2>1
    <3> QED
      BY <3>1, <3>2, <1>1 DEF OnMessage, GoodPage, PageRecord, PageState, View, After, Registering, Early, AtSetup
  <2>2. CASE ~m.wasSuccessful
    <3>1. after = [pg EXCEPT !.state = "REJECTED", !.asked = FALSE, !.interrupted = FALSE,
                             !.takeOverRequested = FALSE, !.takenOver = FALSE]
      BY <1>1, <2>2 DEF handleResponsePackets, handleMasterRegistrationResponse, Refused, GoodPage, PageRecord
    <3>2. Kind(m) = "REFUSED"
      BY <1>1, <2>2
    <3> QED
      BY <3>1, <3>2, <1>1 DEF OnMessage, GoodPage, PageRecord, PageState, View, After, Registering, Early, AtSetup
  <2> QED
    BY <2>1, <2>2
<1>2. CASE m.responseTo = "SETUP_GAME" /\ pg.state = "RECEIVED_PRESETUP_DATA" /\ m.wasSuccessful
  <2>1. after = [pg EXCEPT !.state = "READY_TO_START", !.asked = FALSE] /\ Kind(m) = "SET_UP"
    BY <1>2 DEF handleResponsePackets
  <2> QED
    BY <2>1, <1>2 DEF OnMessage, GoodPage, PageRecord, PageState, View, After, Early, AtSetup
<1>3. CASE m.responseTo = "START_GAME" /\ pg.state = "READY_TO_START" /\ m.wasSuccessful
  <2>1. after = [pg EXCEPT !.state = "PLAYING"] /\ Kind(m) = "STARTED"
    BY <1>3 DEF handleResponsePackets
  <2> QED
    BY <2>1, <1>3 DEF OnMessage, GoodPage, PageRecord, PageState, View, After, Early, AtSetup
<1>4. CASE /\ ~(m.responseTo = "REGISTER_MASTER" /\ pg.state \in Registering)
           /\ ~(m.responseTo = "SETUP_GAME" /\ pg.state = "RECEIVED_PRESETUP_DATA" /\ m.wasSuccessful)
           /\ ~(m.responseTo = "START_GAME" /\ pg.state = "READY_TO_START" /\ m.wasSuccessful)
  <2>1. after = pg
    BY <1>4 DEF handleResponsePackets
  <2>2. After(View(pg), Kind(m)) = View(pg)
    BY <1>4 DEF GoodPage, PageRecord, PageState, View, After, Registering, Early, AtSetup
  <2> QED
    BY <2>1, <2>2 DEF OnMessage
<1> QED
  BY <1>1, <1>2, <1>3, <1>4

LEMMA OnMessageLemma ==
  ASSUME NEW pg, GoodPage(pg), pg.conn # None, pg.state # "REJECTED", NEW m
  PROVE  OnMessage(pg, m, onMessage(pg, m))
<1> DEFINE after == onMessage(pg, m)
<1>1. CASE m.type = "RESPONSE_PACKET"
  <2>1. after = handleResponsePackets(pg, m)
    BY <1>1 DEF onMessage
  <2> QED
    BY <2>1, <1>1, ResponseLemma
<1>2. CASE m.type = "PRESETUP_AVAILABLE_INFO"
  <2>1. after = IF pg.state = "MASTER_ACCEPTED" THEN [pg EXCEPT !.state = "RECEIVED_PRESETUP_DATA", !.asked = FALSE] ELSE pg
    BY <1>2 DEF onMessage, handlePresetupAvailableInfo
  <2> QED
    BY <2>1, <1>2 DEF OnMessage, GoodPage, PageRecord, PageState, View, After, Kind, Early, AtSetup
<1>3. CASE m.type = "NEW_MASTER_ACCEPTED"
  <2>1. after = IF pg.state = "STARTING" THEN [pg EXCEPT !.state = "READY_TO_START", !.takeOverRequested = FALSE] ELSE pg
    BY <1>3 DEF onMessage, handleNewMasterAccepted
  <2> QED
    BY <2>1, <1>3 DEF OnMessage, GoodPage, PageRecord, PageState, View, After, Kind, Early, AtSetup
<1>4. CASE m.type = "STORAGE_ACCESS"
  <2>1. after = [pg EXCEPT !.token = pg.conn] /\ Kind(m) = "NOTHING"
    BY <1>4 DEF onMessage, Kind
  <2>2. GoodPage(after) /\ View(after) = View(pg)
    BY <2>1 DEF GoodPage, PageRecord, View
  <2> QED
    BY <2>1, <2>2, <1>4 DEF OnMessage, GoodPage, PageRecord, After
<1>5. CASE m.type = "MASTER_TAKEN_OVER"
  <2>1. after = [pg EXCEPT !.state = "REJECTED", !.asked = FALSE, !.interrupted = FALSE, !.takenOver = TRUE, !.token = None]
    BY <1>5 DEF onMessage, handleMasterTakenOver, Refused, GoodPage, PageRecord
  <2>2. Kind(m) = "TAKEN_OVER"
    BY <1>5 DEF Kind
  <2>3. pg.wasConnected \/ (pg.conn = None /\ pg.state = "STARTING")
    BY DEF GoodPage
  <2> QED
    BY <2>1, <2>2, <1>5 DEF OnMessage, GoodPage, PageRecord, PageState, View, After
<1>6. CASE m.type \notin {"RESPONSE_PACKET", "PRESETUP_AVAILABLE_INFO", "NEW_MASTER_ACCEPTED", "STORAGE_ACCESS", "MASTER_TAKEN_OVER"}
  <2>1. after = pg /\ Kind(m) = "NOTHING"
    BY <1>6 DEF onMessage, Kind
  <2>2. After(View(pg), "NOTHING") = View(pg)
    BY DEF After
  <2> QED
    BY <2>1, <2>2, <1>6 DEF OnMessage
<1> QED
  BY <1>1, <1>2, <1>3, <1>4, <1>5, <1>6
----------------------------------------------------------------------------
(* The invariant of a page pg: q is on its way to it, s to the server or waits; isMaster says      *)
(* whether its connection is the master's, live whether that carries anything; safe, that its      *)
(* device has no game running; st is the server's state.                                           *)

RunOf(r, v, q) == r[0] = v /\ \A n \in 1 .. Len(q) : r[n] = After(r[n - 1], Kind(q[n]))

\* what is sent from a view is not answered yet
Meets(s, v) ==
  /\ Has(s, "RESET_SERVER") => v \in {"RESETTING", "RECEIVED_PRESETUP_DATA", "REJECTED"}
  /\ Has(s, "SETUP_GAME")   => v \in {"SETTING_UP", "REJECTED"}
  /\ Has(s, "START_GAME")   => v \in {"READY_TO_START", "REJECTED"}
  /\ Has(s, "END_GAME")     => v \in {"END", "REJECTED"}

Sound(r, q, s) ==
  /\ \A n \in 0 .. Len(q) :
       /\ r[n] \in Views /\ Meets(s, r[n])
       /\ r[n] = "REJECTED" => n = Len(q)
       /\ r[n] = "PLAYING" => r[0] \in {"READY_TO_START", "PLAYING"}
       /\ r[n] = "END" => r[0] = "END"
  /\ \A n \in 1 .. Len(q) : Kind(q[n]) \in {"TAKEN_OVER", "REFUSED"} => r[n] = "REJECTED"
  /\ \A n, k \in 0 .. Len(q) : n <= k =>
       /\ r[n] \in InGame => r[k] \in InGame \cup {"REJECTED"} /\ (n < k => Kind(q[k]) # "PRESETUP")
       /\ r[n] \in {"RECEIVED_PRESETUP_DATA", "PLAYING", "END"} => r[k] \in {r[n], "REJECTED"}

\* once it registers in this view it must not be given a game
Danger(pg, s, isMaster, v) ==
  /\ v \in AtSetup /\ ~pg.interrupted
  /\ IF pg.conn = None
     THEN ~Has(s, "RESET_SERVER")
     ELSE \/ v \in {"MASTER_ACCEPTED", "RECEIVED_PRESETUP_DATA"}
          \/ ~isMaster /\ Has(s, "REGISTER_MASTER") /\ ~Has(s, "RESET_SERVER")

\* the master's last view is where the server is, or will be once it handled what is sent to it
InStep(pg, s, st, v) ==
  \/ v \in {"RECEIVED_PRESETUP_DATA", "SETTING_UP"} /\ st = "WAITING_FOR_SETUP"
  \/ v = "RESETTING" /\ Has(s, "RESET_SERVER")
  \/ v = "READY_TO_START" /\ st = "WAITING_FOR_START" /\ (pg.state = "READY_TO_START" => Has(s, "START_GAME"))
  \/ v = "PLAYING" /\ st = "PLAYING"
  \/ v = "END" /\ (st = "END" \/ (st = "PLAYING" /\ Has(s, "END_GAME")))
  \/ pg.interrupted /\ v \in AtSetup

GoodRun(pg, q, s, isMaster, live, safe, st, r) ==
  /\ RunOf(r, View(pg), q) /\ Sound(r, q, s)
  /\ \A n \in 0 .. Len(q) : Danger(pg, s, isMaster, r[n]) => safe
  /\ live /\ isMaster =>
       /\ pg.token = pg.conn \/ Has(q, "STORAGE_ACCESS")
       /\ InStep(pg, s, st, r[Len(q)])

Sendable == {"REGISTER_MASTER", "SETUP_GAME", "START_GAME", "END_GAME", "RESET_SERVER"}

GoodOut(pg, q, s) ==
  /\ IsSeq(q) /\ IsSeq(s)
  /\ \A i \in 1 .. Len(s) :
       /\ s[i].type \in Sendable
       /\ i < Len(s) => s[i].type = "REGISTER_MASTER"
       /\ s[i].type = "REGISTER_MASTER" => s[i].takeOver \in BOOLEAN
       /\ s[i].type = "REGISTER_MASTER" /\ s[i].takeOver => i = 1 /\ q = <<>> /\ pg.state = "STARTING"
  /\ pg.conn = None =>
       /\ q = <<>> /\ Len(s) <= 1
       /\ s # <<>> =>
            /\ pg.state # "REJECTED"
            /\ s[1].type = "REGISTER_MASTER" =>
                 ~s[1].takeOver /\ pg.state = "STARTING" /\ ~pg.takeOverRequested
            /\ s[1].type = "RESET_SERVER" => View(pg) = "RESETTING"
       /\ ~pg.wasConnected => s # <<>> /\ s[1].type = "REGISTER_MASTER"

\* a page that is not the master registers first, or was refused
Newcomer(pg, q, s) ==
  /\ q = <<>> /\ View(pg) \in Early \cup {"REJECTED"}
  /\ View(pg) = "REJECTED" => s = <<>>
  /\ View(pg) # "REJECTED" => s # <<>> /\ s[1].type = "REGISTER_MASTER"
  /\ Has(s, "RESET_SERVER") => View(pg) = "RESETTING"

Good(pg, q, s, isMaster, live, safe, st) ==
  /\ GoodPage(pg) /\ GoodOut(pg, q, s)
  /\ live /\ ~isMaster => Newcomer(pg, q, s)
  /\ \E r : GoodRun(pg, q, s, isMaster, live, safe, st, r)

----------------------------------------------------------------------------
(* One more packet on its way, one less. *)

LEMMA LessSent ==
  ASSUME NEW r, NEW q, NEW s, NEW s2, Sound(r, q, s), \A t : Has(s2, t) => Has(s, t)
  PROVE  Sound(r, q, s2)
<1>1. \A n \in 0 .. Len(q) : Meets(s, r[n]) => Meets(s2, r[n])
  BY DEF Meets
<1> QED
  BY <1>1 DEF Sound

LEMMA AppendView ==
  ASSUME NEW r, NEW v, NEW q, IsSeq(q), NEW s, RunOf(r, v, q), Sound(r, q, s),
         NEW m, NEW w, w = After(r[Len(q)], Kind(m)), Meets(s, w),
         r[Len(q)] # "REJECTED",
         w = "PLAYING" => v \in {"READY_TO_START", "PLAYING"},
         Kind(m) = "REFUSED" => r[Len(q)] \in Early,
         Kind(m) = "PRESETUP" => r[Len(q)] \notin InGame,
         Kind(m) = "SET_UP" => r[Len(q)] # "RECEIVED_PRESETUP_DATA"
  PROVE  \E r2 : /\ RunOf(r2, v, q \o <<m>>) /\ Sound(r2, q \o <<m>>, s)
                 /\ r2[Len(q) + 1] = w /\ \A n \in 0 .. Len(q) : r2[n] = r[n]
<1> DEFINE L  == Len(q)
           q2 == q \o <<m>>
           r2 == [n \in 0 .. L + 1 |-> IF n <= L THEN r[n] ELSE w]
<1>1. L \in Nat
  BY LenLemma
<1>2. /\ IsSeq(<<m>>) /\ Len(<<m>>) = 1 /\ <<m>>[1] = m
  BY OneLemma
<1>3. Len(q2) = L + 1 /\ (\A n \in 1 .. L : q2[n] = q[n]) /\ q2[L + 1] = m
  <2>1. /\ Len(q2) = Len(q) + Len(<<m>>) /\ (\A n \in 1 .. Len(q) : q2[n] = q[n])
        /\ \A n \in 1 .. Len(<<m>>) : q2[Len(q) + n] = <<m>>[n]
    BY <1>2, ConcatLemma
  <2> QED
    BY <1>2, <2>1
<1>4. (\A n \in 0 .. L : r2[n] = r[n]) /\ r2[L + 1] = w
  BY <1>1
<1>5. r[0] = v /\ \A n \in 1 .. L : r[n] = After(r[n - 1], Kind(q[n]))
  BY DEF RunOf
<1>6. r[L] \in Views
  BY <1>1 DEF Sound
<1>7. PICK last, k : last = r[L] /\ k = Kind(m)
  OBVIOUS
<1>8. /\ w \in Views
      /\ last \in InGame => w \in InGame \cup {"REJECTED"}
      /\ last \in {"PLAYING", "END"} => w \in {last, "REJECTED"}
      /\ w = "END" => last = "END"
      /\ k = "TAKEN_OVER" => w = "REJECTED"
      /\ k = "REFUSED" => w = "REJECTED"
      /\ last = "RECEIVED_PRESETUP_DATA" => w \in {last, "REJECTED"}
  BY <1>6, <1>7 DEF After, Views, Early, AtSetup, InGame
<1>9. RunOf(r2, v, q2)
  <2>1. r2[0] = v
    BY <1>1, <1>4, <1>5
  <2>2. ASSUME NEW n \in 1 .. L + 1 PROVE r2[n] = After(r2[n - 1], Kind(q2[n]))
    <3>1. CASE n = L + 1
      <4>1. n - 1 = L /\ n - 1 \in 0 .. L
        BY <3>1, <1>1
      <4> QED
        BY <3>1, <4>1, <1>3, <1>4
    <3>2. CASE n # L + 1
      <4>1. n \in 1 .. L /\ n \in 0 .. L /\ n - 1 \in 0 .. L
        BY <3>2, <1>1
      <4> QED
        BY <4>1, <1>3, <1>4, <1>5
    <3> QED
      BY <3>1, <3>2
  <2> HIDE DEF r2, q2
  <2> QED
    BY <2>1, <2>2, <1>3 DEF RunOf
<1> HIDE DEF q2, r2
<1>10. Sound(r2, q2, s)
  <2>1. ASSUME NEW n \in 0 .. L + 1
        PROVE  /\ r2[n] \in Views /\ Meets(s, r2[n])
               /\ r2[n] = "REJECTED" => n = L + 1
               /\ r2[n] = "PLAYING" => r2[0] \in {"READY_TO_START", "PLAYING"}
               /\ r2[n] = "END" => r2[0] = "END"
    <3>1. r2[0] = v /\ r[0] = v
      BY <1>1, <1>4, <1>5
    <3>2. CASE n = L + 1
      <4>1. w = "END" => r[0] = "END"
        BY <1>1, <1>7, <1>8 DEF Sound
      <4> QED
        BY <3>1, <3>2, <4>1, <1>4, <1>8
    <3>3. CASE n # L + 1
      <4>1. n \in 0 .. L
        BY <3>3, <1>1
      <4>2. r[n] = "REJECTED" => FALSE
        BY <4>1 DEF Sound
      <4> QED
        BY <3>1, <4>1, <4>2, <1>4 DEF Sound
    <3> QED
      BY <3>2, <3>3
  <2>2. ASSUME NEW n \in 1 .. L + 1, Kind(q2[n]) \in {"TAKEN_OVER", "REFUSED"}
        PROVE  r2[n] = "REJECTED"
    <3>1. CASE n = L + 1
      BY <3>1, <2>2, <1>3, <1>4, <1>7, <1>8
    <3>2. CASE n # L + 1
      <4>1. n \in 1 .. L /\ n \in 0 .. L
        BY <3>2, <1>1
      <4> QED
        BY <4>1, <2>2, <1>3, <1>4 DEF Sound
    <3> QED
      BY <3>1, <3>2
  <2>3. ASSUME NEW n \in 0 .. L + 1, NEW j \in 0 .. L + 1, n <= j
        PROVE  /\ r2[n] \in InGame => r2[j] \in InGame \cup {"REJECTED"} /\ (n < j => Kind(q2[j]) # "PRESETUP")
               /\ r2[n] \in {"RECEIVED_PRESETUP_DATA", "PLAYING", "END"} => r2[j] \in {r2[n], "REJECTED"}
    <3>1. CASE j # L + 1
      <4>1. n \in 0 .. L /\ j \in 0 .. L /\ (n < j => j \in 1 .. L)
        BY <3>1, <2>3, <1>1
      <4> QED
        BY <4>1, <2>3, <1>3, <1>4 DEF Sound
    <3>2. CASE j = L + 1 /\ n = L + 1
      BY <3>2, <1>1, <1>4, <1>8
    <3>3. CASE j = L + 1 /\ n # L + 1
      <4>1. n \in 0 .. L /\ L \in 0 .. L /\ n <= L
        BY <3>3, <1>1
      <4>2. /\ r[n] \in InGame => last \in InGame
            /\ r[n] \in {"RECEIVED_PRESETUP_DATA", "PLAYING", "END"} => last = r[n]
        BY <4>1, <1>7 DEF Sound, InGame
      <4> QED
        BY <3>3, <4>1, <4>2, <1>3, <1>4, <1>7, <1>8
    <3> QED
      BY <3>1, <3>2, <3>3
  <2> QED
    BY <2>1, <2>2, <2>3, <1>3 DEF Sound
<1> QED
  BY <1>4, <1>9, <1>10 DEF q2
LEMMA ConcatEmpty ==
  ASSUME NEW q, IsSeq(q)
  PROVE  q \o <<>> = q /\ <<>> \o q = q
<1>1. PICK S : q \in Seq(S)
  BY DEF IsSeq
<1> QED
  BY <1>1, ConcatEmptySeq

LEMMA Associative ==
  ASSUME NEW a, IsSeq(a), NEW b, IsSeq(b), NEW c, IsSeq(c)
  PROVE  (a \o b) \o c = a \o (b \o c)
<1>1. PICK S, T, U : a \in Seq(S) /\ b \in Seq(T) /\ c \in Seq(U)
  BY DEF IsSeq
<1>2. a \in Seq(S \cup T \cup U) /\ b \in Seq(S \cup T \cup U) /\ c \in Seq(S \cup T \cup U)
  BY <1>1, SeqMonotonic
<1> QED
  BY <1>2, ConcatAssociative

LEMMA ShiftRun ==
  ASSUME NEW r, NEW v, NEW q, IsSeq(q), q # <<>>, NEW s, RunOf(r, v, q), Sound(r, q, s)
  PROVE  \E r2 : /\ RunOf(r2, r[1], Tail(q)) /\ Sound(r2, Tail(q), s)
                 /\ \A n \in 0 .. Len(q) - 1 : r2[n] = r[n + 1]
<1> DEFINE L  == Len(q)
           q2 == Tail(q)
           r2 == [n \in 0 .. L - 1 |-> r[n + 1]]
<1>1. L \in Nat /\ L >= 1 /\ Len(q2) = L - 1 /\ \A n \in 1 .. L - 1 : q2[n] = q[n + 1]
  BY TailLemma, LenLemma
<1>2. \A n \in 0 .. L - 1 : r2[n] = r[n + 1]
  BY <1>1
<1> HIDE DEF q2, r2
<1>3. RunOf(r2, r[1], q2)
  <2>1. r2[0] = r[1]
    BY <1>1, <1>2
  <2>2. ASSUME NEW n \in 1 .. L - 1 PROVE r2[n] = After(r2[n - 1], Kind(q2[n]))
    <3>1. n \in 0 .. L - 1 /\ n - 1 \in 0 .. L - 1 /\ n + 1 \in 1 .. L /\ (n + 1) - 1 = n /\ (n - 1) + 1 = n
      BY <1>1
    <3>2. r[n + 1] = After(r[(n + 1) - 1], Kind(q[n + 1]))
      BY <3>1 DEF RunOf
    <3> QED
      BY <3>1, <3>2, <1>1, <1>2
  <2> QED
    BY <2>1, <2>2, <1>1 DEF RunOf
<1>4. r[1] = After(r[0], Kind(q[1])) /\ r[0] \in Views /\ r[0] # "REJECTED" /\ (r[1] = "REJECTED" => L = 1)
  BY <1>1 DEF RunOf, Sound
<1>5. ASSUME NEW n \in 0 .. L - 1
      PROVE  /\ r2[n] \in Views /\ Meets(s, r2[n])
             /\ r2[n] = "REJECTED" => n = L - 1
             /\ r2[n] = "PLAYING" => r2[0] \in {"READY_TO_START", "PLAYING"}
             /\ r2[n] = "END" => r2[0] = "END"
  <2>1. n + 1 \in 0 .. L /\ 0 \in 0 .. L /\ 1 \in 0 .. L /\ 0 <= 1 /\ (n + 1 = L <=> n = L - 1)
    BY <1>1
  <2>2. r2[0] = r[1] /\ r2[n] = r[n + 1] /\ (L = 1 => n = 0)
    <3>1. 0 \in 0 .. L - 1 /\ 0 + 1 = 1 /\ (L = 1 => n = 0)
      BY <1>1
    <3> QED
      BY <3>1, <1>2
  <2>3. r2[n] = "PLAYING" => r2[0] \in {"READY_TO_START", "PLAYING"}
    <3>1. SUFFICES ASSUME r[n + 1] = "PLAYING" PROVE r[1] \in {"READY_TO_START", "PLAYING"}
      BY <2>2
    <3>2. r[0] \in {"READY_TO_START", "PLAYING"}
      BY <3>1, <2>1 DEF Sound
    <3>3. r[1] # "REJECTED"
      BY <3>1, <2>1, <2>2, <1>4
    <3>4. r[1] \in {"READY_TO_START", "PLAYING"}
      BY <3>2, <3>3, <1>4 DEF After, Early, AtSetup
    <3> QED
      BY <3>4
  <2>4. r2[n] = "END" => r2[0] = "END"
    <3>1. SUFFICES ASSUME r[n + 1] = "END" PROVE r[1] = "END"
      BY <2>2
    <3>2. r[0] = "END"
      BY <3>1, <2>1 DEF Sound
    <3>3. r[1] # "REJECTED"
      BY <3>1, <2>1, <2>2, <1>4
    <3> QED
      BY <3>2, <3>3, <1>4 DEF After, Early, AtSetup
  <2> QED
    BY <2>1, <2>2, <2>3, <2>4 DEF Sound
<1>6. ASSUME NEW n \in 1 .. L - 1, Kind(q2[n]) \in {"TAKEN_OVER", "REFUSED"}
      PROVE  r2[n] = "REJECTED"
  <2>1. n + 1 \in 1 .. L /\ n \in 0 .. L - 1
    BY <1>1
  <2> QED
    BY <2>1, <1>1, <1>2, <1>6 DEF Sound
<1>7. ASSUME NEW n \in 0 .. L - 1, NEW k \in 0 .. L - 1, n <= k
      PROVE  /\ r2[n] \in InGame => r2[k] \in InGame \cup {"REJECTED"} /\ (n < k => Kind(q2[k]) # "PRESETUP")
             /\ r2[n] \in {"RECEIVED_PRESETUP_DATA", "PLAYING", "END"} => r2[k] \in {r2[n], "REJECTED"}
  <2>1. n + 1 \in 0 .. L /\ k + 1 \in 0 .. L /\ n + 1 <= k + 1 /\ (n < k => k \in 1 .. L - 1 /\ n + 1 < k + 1)
    BY <1>1, <1>7
  <2>2. /\ r[n + 1] \in InGame => r[k + 1] \in InGame \cup {"REJECTED"} /\ (n + 1 < k + 1 => Kind(q[k + 1]) # "PRESETUP")
        /\ r[n + 1] \in {"RECEIVED_PRESETUP_DATA", "PLAYING", "END"} => r[k + 1] \in {r[n + 1], "REJECTED"}
    BY <2>1 DEF Sound
  <2> QED
    BY <2>1, <2>2, <1>1, <1>2
<1>8. Sound(r2, q2, s)
  BY <1>1, <1>5, <1>6, <1>7 DEF Sound
<1> QED
  BY <1>2, <1>3, <1>8 DEF q2

----------------------------------------------------------------------------
(* What a page does. *)

\* A packet arrives.
LEMMA ReceivesGood ==
  ASSUME NEW pg, NEW q, NEW s, NEW isMaster \in BOOLEAN, NEW live \in BOOLEAN, NEW safe, NEW st,
         Good(pg, q, s, isMaster, live, safe, st), pg.conn # None, q # <<>>,
         NEW s2, s2 = s \o Answers(pg, onMessage(pg, Head(q))) \/ (~live /\ s2 = s)
  PROVE  Good(onMessage(pg, Head(q)), Tail(q), s2, isMaster, live, safe, st)
<1> DEFINE L == Len(q)
<1>1. /\ IsSeq(q) /\ IsSeq(s) /\ GoodPage(pg)
      /\ L \in Nat /\ L >= 1 /\ IsSeq(Tail(q)) /\ Len(Tail(q)) = L - 1 /\ Head(q) = q[1]
      /\ \A t : Has(q, t) <=> Head(q).type = t \/ Has(Tail(q), t)
  BY TailLemma, LenLemma DEF Good, GoodOut
<1>2. PICK r : GoodRun(pg, q, s, isMaster, live, safe, st, r)
  BY DEF Good
<1>0. 0 \in 0 .. L /\ 1 \in 0 .. L /\ 1 \in 1 .. L /\ 1 - 1 = 0 /\ L # 0
  BY <1>1
<1>3. r[0] = View(pg) /\ r[1] = After(r[0], Kind(q[1])) /\ r[0] # "REJECTED"
  <2>1. r[1] = After(r[1 - 1], Kind(q[1]))
    BY <1>0, <1>2 DEF GoodRun, RunOf
  <2> QED
    BY <2>1, <1>0, <1>2 DEF GoodRun, RunOf, Sound
<1>4. pg.state # "REJECTED"
  BY <1>1, <1>3, ViewLemma
<1>5. PICK m, after : m = Head(q) /\ after = onMessage(pg, m)
  OBVIOUS
<1>6. OnMessage(pg, m, after)
  BY <1>1, <1>4, <1>5, OnMessageLemma
<1>7. GoodPage(after) /\ View(after) = r[1] /\ after.conn = pg.conn /\ after.conn # None
  BY <1>1, <1>3, <1>5, <1>6 DEF OnMessage
<1>8. PICK r2 : /\ RunOf(r2, r[1], Tail(q)) /\ Sound(r2, Tail(q), s)
                /\ \A n \in 0 .. L - 1 : r2[n] = r[n + 1]
  BY <1>1, <1>2, ShiftRun DEF GoodRun
<1>9. live => isMaster
  BY DEF Good, Newcomer
<1> DEFINE starts == after.state = "READY_TO_START" /\ pg.state # "READY_TO_START"
<1>10. Answers(pg, after) = IF starts THEN <<Packet("START_GAME")>> ELSE <<>>
  BY DEF Answers
<1>11. s2 = s \/ (starts /\ s2 = s \o <<Packet("START_GAME")>>)
  BY <1>1, <1>5, <1>10, ConcatEmpty
<1>12. live => s2 = IF starts THEN s \o <<Packet("START_GAME")>> ELSE s
  BY <1>1, <1>5, <1>10, ConcatEmpty
<1>13. starts => /\ \A n \in 1 .. L : r[n] \in {"READY_TO_START", "REJECTED"}
                 /\ \A t \in {"SETUP_GAME", "START_GAME", "END_GAME", "RESET_SERVER"} : ~Has(s, t)
  <2>1. SUFFICES ASSUME starts
                 PROVE  /\ \A n \in 1 .. L : r[n] \in {"READY_TO_START", "REJECTED"}
                        /\ \A t \in {"SETUP_GAME", "START_GAME", "END_GAME", "RESET_SERVER"} : ~Has(s, t)
    OBVIOUS
  <2>2. r[1] = "READY_TO_START" /\ r[0] # "READY_TO_START" /\ r[0] \in Views
    BY <2>1, <1>1, <1>3, <1>7, ViewLemma
  <2>3. r[0] \notin {"READY_TO_START", "PLAYING", "END"}
    BY <2>2, <1>3 DEF After, Early, AtSetup
  <2>4. ASSUME NEW n \in 1 .. L PROVE r[n] \in {"READY_TO_START", "REJECTED"}
    <3>1. n \in 0 .. L /\ 1 \in 0 .. L /\ 1 <= n
      BY <1>1
    <3>2. r[n] \in InGame \cup {"REJECTED"}
      BY <3>1, <2>2, <1>2 DEF GoodRun, Sound, InGame
    <3>3. r[n] # "PLAYING" /\ r[n] # "END"
      BY <3>1, <2>3, <1>2 DEF GoodRun, Sound
    <3> QED
      BY <3>2, <3>3 DEF InGame
  <2>5. Meets(s, r[0]) /\ Meets(s, r[1])
    BY <1>0, <1>2 DEF GoodRun, Sound
  <2> QED
    BY <2>2, <2>3, <2>4, <2>5, <1>3 DEF Meets
<1>14. IsSeq(s2) /\ \A t : Has(s2, t) <=> Has(s, t) \/ (s2 # s /\ t = "START_GAME")
  <2>1. CASE s2 = s
    BY <2>1, <1>1
  <2>2. CASE s2 # s
    <3>1. PICK x : x = Packet("START_GAME")
      OBVIOUS
    <3>2. x.type = "START_GAME" /\ s2 = s \o <<x>>
      BY <3>1, <2>2, <1>11 DEF Packet
    <3>3. IsSeq(<<x>>) /\ \A t : Has(<<x>>, t) <=> x.type = t
      BY OneLemma
    <3>4. IsSeq(s \o <<x>>) /\ \A t : Has(s \o <<x>>, t) <=> Has(s, t) \/ Has(<<x>>, t)
      BY <1>1, <3>3, ConcatLemma
    <3> QED
      BY <2>2, <3>2, <3>3, <3>4
  <2> QED
    BY <2>1, <2>2
<1>15. Sound(r2, Tail(q), s2)
  <2>1. CASE s2 = s
    BY <2>1, <1>8
  <2>2. CASE s2 # s
    <3>1. starts
      BY <2>2, <1>11
    <3>2. ASSUME NEW n \in 0 .. L - 1 PROVE Meets(s2, r2[n])
      <4>1. n + 1 \in 1 .. L
        BY <1>1
      <4>2. r2[n] \in {"READY_TO_START", "REJECTED"}
        BY <4>1, <3>1, <1>8, <1>13
      <4> QED
        BY <4>2, <3>1, <1>13, <1>14 DEF Meets
    <3> QED
      BY <3>2, <1>1, <1>8 DEF Sound
  <2> QED
    BY <2>1, <2>2
<1>16. /\ \A n \in 0 .. L - 1 : Danger(after, s2, isMaster, r2[n]) => safe
  <2>1. SUFFICES ASSUME NEW n \in 0 .. L - 1, Danger(after, s2, isMaster, r2[n]) PROVE safe
    OBVIOUS
  <2>2. n + 1 \in 0 .. L /\ r2[n] = r[n + 1] /\ 1 \in 0 .. L /\ (L = 1 => n = 0) /\ r2[0] = r[1]
    BY <1>1, <1>8
  <2>3. r[1] # "REJECTED"
    <3>1. r[1] = "REJECTED" => L = 1
      BY <2>2, <1>2 DEF GoodRun, Sound
    <3>2. r2[n] # "REJECTED"
      BY <2>1 DEF Danger, AtSetup
    <3> QED
      BY <3>1, <3>2, <2>2
  <2>4. after.interrupted = pg.interrupted
    BY <2>3, <1>6, <1>7, ViewLemma DEF OnMessage
  <2>5. Danger(pg, s, isMaster, r[n + 1])
    <3>1. Has(s2, "REGISTER_MASTER") <=> Has(s, "REGISTER_MASTER")
      BY <1>14
    <3>2. Has(s2, "RESET_SERVER") <=> Has(s, "RESET_SERVER")
      BY <1>14
    <3> QED
      BY <3>1, <3>2, <2>1, <2>2, <2>4, <1>7 DEF Danger
  <2> QED
    BY <2>2, <2>5, <1>2 DEF GoodRun
<1>17. live /\ isMaster => /\ after.token = after.conn \/ Has(Tail(q), "STORAGE_ACCESS")
                           /\ InStep(after, s2, st, r2[L - 1])
  <2>1. SUFFICES ASSUME live, isMaster
                 PROVE  /\ after.token = after.conn \/ Has(Tail(q), "STORAGE_ACCESS")
                        /\ InStep(after, s2, st, r2[L - 1])
    OBVIOUS
  <2>2. /\ pg.token = pg.conn \/ Has(q, "STORAGE_ACCESS")
        /\ InStep(pg, s, st, r[L])
    BY <2>1, <1>2 DEF GoodRun
  <2>3. r2[L - 1] = r[L] /\ r[L] # "REJECTED"
    <3>1. L - 1 \in 0 .. L - 1 /\ (L - 1) + 1 = L
      BY <1>1
    <3> QED
      BY <3>1, <2>2, <1>8 DEF InStep, AtSetup
  <2>4. after.state # "REJECTED"
    <3>1. r[1] # "REJECTED"
      <4>1. r[1] = "REJECTED" => 1 = L
        BY <1>0, <1>2 DEF GoodRun, Sound
      <4> QED
        BY <4>1, <2>3
    <3> QED
      BY <3>1, <1>7, ViewLemma
  <2>5. after.token = after.conn \/ Has(Tail(q), "STORAGE_ACCESS")
    BY <2>2, <2>4, <1>1, <1>5, <1>6, <1>7 DEF OnMessage
  <2>6. after.interrupted = pg.interrupted
    BY <2>4, <1>6 DEF OnMessage
  <2>7. r[L] = "READY_TO_START" /\ after.state = "READY_TO_START" =>
          Has(s2, "START_GAME") \/ (pg.state = "READY_TO_START" /\ s2 = s)
    <3>1. CASE starts
      <4>1. s2 = s \o <<Packet("START_GAME")>>
        BY <2>1, <3>1, <1>12
      <4>2. s2 # s
        <5>1. Has(s2, "START_GAME")
          <6>1. PICK x : x = Packet("START_GAME")
            OBVIOUS
          <6>2. x.type = "START_GAME" /\ Has(<<x>>, "START_GAME") /\ IsSeq(<<x>>)
            BY <6>1, OneLemma DEF Packet
          <6> QED
            BY <6>1, <6>2, <4>1, <1>1, ConcatLemma
        <5> QED
          BY <5>1, <3>1, <1>13
      <4> QED
        BY <4>2, <1>14
    <3>2. CASE ~starts
      BY <3>2, <2>1, <1>12
    <3> QED
      BY <3>1, <3>2
  <2> QED
    BY <2>2, <2>3, <2>5, <2>6, <2>7, <1>14 DEF InStep
<1>18. GoodOut(after, Tail(q), s2)
  <2>1. \A i \in 1 .. Len(s) :
          /\ s[i].type \in Sendable
          /\ i < Len(s) => s[i].type = "REGISTER_MASTER"
          /\ s[i].type = "REGISTER_MASTER" => s[i].takeOver \in BOOLEAN
          /\ s[i].type = "REGISTER_MASTER" => ~s[i].takeOver
    BY DEF Good, GoodOut
  <2>2. CASE s2 = s
    BY <2>1, <2>2, <1>1, <1>7 DEF GoodOut
  <2>3. CASE s2 # s
    <3>1. PICK x : x = Packet("START_GAME")
      OBVIOUS
    <3>2. x.type = "START_GAME" /\ s2 = s \o <<x>> /\ starts
      BY <3>1, <2>3, <1>11 DEF Packet
    <3>3. IsSeq(<<x>>) /\ Len(<<x>>) = 1 /\ <<x>>[1] = x
      BY OneLemma
    <3>4. /\ Len(s2) = Len(s) + 1 /\ (\A i \in 1 .. Len(s) : s2[i] = s[i])
          /\ s2[Len(s) + 1] = x /\ Len(s) \in Nat
      <4>1. /\ Len(s2) = Len(s) + Len(<<x>>) /\ (\A i \in 1 .. Len(s) : s2[i] = s[i])
            /\ \A i \in 1 .. Len(<<x>>) : s2[Len(s) + i] = <<x>>[i]
        BY <3>2, <3>3, <1>1, ConcatLemma
      <4> QED
        BY <4>1, <3>3, <1>1, LenLemma
    <3>5. ASSUME NEW i \in 1 .. Len(s) PROVE s[i].type = "REGISTER_MASTER"
      <4>1. Has(s, s[i].type)
        BY DEF Has
      <4> QED
        BY <4>1, <3>2, <2>1, <1>13 DEF Sendable
    <3>6. ASSUME NEW i \in 1 .. Len(s2)
          PROVE  /\ s2[i].type \in Sendable
                 /\ i < Len(s2) => s2[i].type = "REGISTER_MASTER"
                 /\ s2[i].type = "REGISTER_MASTER" => s2[i].takeOver \in BOOLEAN
                 /\ s2[i].type = "REGISTER_MASTER" => ~s2[i].takeOver
      <4>1. CASE i = Len(s) + 1
        BY <4>1, <3>2, <3>4 DEF Sendable
      <4>2. CASE i # Len(s) + 1
        <5>1. i \in 1 .. Len(s) /\ s2[i] = s[i]
          BY <4>2, <3>4
        <5> QED
          BY <5>1, <3>5, <2>1
      <4> QED
        BY <4>1, <4>2
    <3> QED
      BY <3>6, <1>1, <1>7, <1>14 DEF GoodOut
  <2> QED
    BY <2>2, <2>3
<1>19. GoodRun(after, Tail(q), s2, isMaster, live, safe, st, r2)
  BY <1>1, <1>7, <1>8, <1>15, <1>16, <1>17 DEF GoodRun
<1> QED
  BY <1>5, <1>7, <1>9, <1>18, <1>19 DEF Good
\* The user sets up, ends or resets a game, which replaces the views of what is on its way.
LEMMA ActsRun ==
  ASSUME NEW r, NEW q, IsSeq(q), NEW s, NEW v \in {"RECEIVED_PRESETUP_DATA", "PLAYING", "END"},
         RunOf(r, v, q), Sound(r, q, s),
         NEW w \in {"SETTING_UP", "END", "RESETTING"}, NEW s2, Meets(s2, w),
         w = "SETTING_UP" => v = "RECEIVED_PRESETUP_DATA",
         w = "END" => v = "PLAYING",
         w = "RESETTING" => Meets(s2, "RECEIVED_PRESETUP_DATA")
  PROVE  \E r2 : /\ RunOf(r2, w, q) /\ Sound(r2, q, s2)
                 /\ \A n \in 0 .. Len(q) :
                      IF r[n] = "REJECTED" THEN r2[n] = "REJECTED"
                      ELSE \/ r2[n] = w
                           \/ w = "RESETTING" /\ v = "RECEIVED_PRESETUP_DATA" /\ r2[n] = "RECEIVED_PRESETUP_DATA"
<1> DEFINE L == Len(q)
           told(n) == w = "RESETTING" /\ \E k \in 1 .. n : Kind(q[k]) = "PRESETUP"
           r2 == [n \in 0 .. L |-> IF r[n] = "REJECTED" THEN "REJECTED"
                                   ELSE IF told(n) THEN "RECEIVED_PRESETUP_DATA" ELSE w]
<1>1. L \in Nat /\ 0 \in 0 .. L
  BY LenLemma
<1>2. \A n \in 0 .. L : r2[n] = IF r[n] = "REJECTED" THEN "REJECTED"
                                ELSE IF told(n) THEN "RECEIVED_PRESETUP_DATA" ELSE w
  OBVIOUS
<1> HIDE DEF r2
<1>3. \A n \in 0 .. L : r[n] \in {v, "REJECTED"}
  BY <1>1 DEF RunOf, Sound
<1>4. ASSUME NEW n \in 0 .. L, told(n) PROVE w = "RESETTING" /\ v = "RECEIVED_PRESETUP_DATA"
  <2>1. PICK k \in 1 .. n : Kind(q[k]) = "PRESETUP"
    BY <1>4
  <2>2. k \in 0 .. L /\ 0 <= k /\ 0 < k
    BY <1>1
  <2>3. r[0] \notin InGame
    BY <2>1, <2>2, <1>1 DEF Sound
  <2> QED
    BY <2>3, <1>4 DEF RunOf, InGame
<1>5. RunOf(r2, w, q)
  <2>1. r2[0] = w
    <3>1. r[0] = v /\ ~told(0)
      BY DEF RunOf
    <3> QED
      BY <3>1, <1>1, <1>2
  <2>2. ASSUME NEW n \in 1 .. L PROVE r2[n] = After(r2[n - 1], Kind(q[n]))
    <3>1. n \in 0 .. L /\ n - 1 \in 0 .. L /\ n - 1 # L
      BY <1>1
    <3>2. PICK k : k = Kind(q[n])
      OBVIOUS
    <3>3. r[n - 1] = v
      BY <3>1, <1>3 DEF Sound
    <3>4. r[n] = After(v, k) /\ (k \in {"TAKEN_OVER", "REFUSED"} => r[n] = "REJECTED")
      BY <3>2, <3>3 DEF RunOf, Sound
    <3>5. told(n) <=> told(n - 1) \/ (w = "RESETTING" /\ k = "PRESETUP")
      <4>1. 1 .. n = (1 .. n - 1) \cup {n}
        OBVIOUS
      <4> QED
        BY <4>1, <3>2
    <3>6. r2[n - 1] = IF told(n - 1) THEN "RECEIVED_PRESETUP_DATA" ELSE w
      BY <3>1, <3>3, <1>2
    <3>7. r2[n] = IF r[n] = "REJECTED" THEN "REJECTED" ELSE IF told(n) THEN "RECEIVED_PRESETUP_DATA" ELSE w
      BY <3>1, <1>2
    <3>8. told(n) => w = "RESETTING" /\ v = "RECEIVED_PRESETUP_DATA"
      BY <3>1, <1>4
    <3>9. PICK was, now \in BOOLEAN : (was <=> told(n - 1)) /\ (now <=> told(n))
      OBVIOUS
    <3>10. r[n] \in {v, "REJECTED"}
      BY <3>1, <1>3
    <3> HIDE DEF told
    <3>11. r2[n] = After(r2[n - 1], k)
      <4>1. CASE r[n] = "REJECTED"
        <5>1. k \in {"TAKEN_OVER", "REFUSED"} /\ (w = "END" => k = "TAKEN_OVER")
          BY <4>1, <3>4 DEF After, Early, AtSetup
        <5> QED
          BY <4>1, <5>1, <3>6, <3>7 DEF After, Early, AtSetup
      <4>2. CASE r[n] = v /\ r[n] # "REJECTED"
        <5>1. k \notin {"TAKEN_OVER", "REFUSED"} /\ (v = "RECEIVED_PRESETUP_DATA" => k # "SET_UP")
          BY <4>2, <3>4 DEF After, Early, AtSetup
        <5> QED
          BY <4>2, <5>1, <3>5, <3>6, <3>7, <3>8 DEF After, Early, AtSetup
      <4> QED
        BY <4>1, <4>2, <3>10
    <3> QED
      BY <3>2, <3>11
  <2> QED
    BY <2>1, <2>2 DEF RunOf
<1>6. r2[0] = w
  BY <1>5 DEF RunOf
<1>7. \A n \in 0 .. L : r2[n] \in {w, "REJECTED"} \/ (told(n) /\ w = "RESETTING" /\ r2[n] = "RECEIVED_PRESETUP_DATA")
  BY <1>2
<1>8. ASSUME NEW n \in 0 .. L
      PROVE  /\ r2[n] \in Views /\ Meets(s2, r2[n])
             /\ r2[n] = "REJECTED" => n = L
             /\ r2[n] = "PLAYING" => r2[0] \in {"READY_TO_START", "PLAYING"}
             /\ r2[n] = "END" => r2[0] = "END"
  <2>1. r2[n] \in Views /\ r2[n] # "PLAYING" /\ (r2[n] = "END" => w = "END")
    BY <1>7 DEF Views, Early, AtSetup, InGame
  <2>2. Meets(s2, "REJECTED")
    BY DEF Meets
  <2>3. r2[n] = "REJECTED" => n = L
    BY <1>2 DEF Sound
  <2> QED
    BY <2>1, <2>2, <2>3, <1>6, <1>7
<1>9. ASSUME NEW n \in 1 .. L, Kind(q[n]) \in {"TAKEN_OVER", "REFUSED"} PROVE r2[n] = "REJECTED"
  <2>1. n \in 0 .. L /\ r[n] = "REJECTED"
    BY <1>9, <1>1 DEF Sound
  <2> QED
    BY <2>1, <1>2
<1>10. ASSUME NEW n \in 0 .. L, NEW k \in 0 .. L, n <= k
       PROVE  /\ r2[n] \in InGame => r2[k] \in InGame \cup {"REJECTED"} /\ (n < k => Kind(q[k]) # "PRESETUP")
              /\ r2[n] \in {"RECEIVED_PRESETUP_DATA", "PLAYING", "END"} => r2[k] \in {r2[n], "REJECTED"}
  <2>1. r2[n] \in InGame => r2[n] = "END" /\ w = "END" /\ r[n] # "REJECTED"
    BY <1>2, <1>7 DEF InGame
  <2>2. w = "END" => ~told(k) /\ r2[k] \in {"END", "REJECTED"}
    BY <1>7
  <2>3. r2[n] \in InGame /\ n < k => Kind(q[k]) # "PRESETUP"
    <3>1. r2[n] \in InGame => r[n] \in InGame
      BY <2>1, <1>3 DEF InGame
    <3> QED
      BY <3>1, <1>10 DEF Sound
  <2>4. r2[n] = "RECEIVED_PRESETUP_DATA" => r2[k] \in {"RECEIVED_PRESETUP_DATA", "REJECTED"}
    <3>1. SUFFICES ASSUME r2[n] = "RECEIVED_PRESETUP_DATA"
                   PROVE  r2[k] \in {"RECEIVED_PRESETUP_DATA", "REJECTED"}
      OBVIOUS
    <3>2. told(n)
      BY <3>1, <1>7
    <3>3. told(k)
      <4>1. PICK j \in 1 .. n : Kind(q[j]) = "PRESETUP"
        BY <3>2
      <4>2. j \in 1 .. k
        BY <1>1, <1>10
      <4> QED
        BY <4>1, <4>2, <3>2
    <3> QED
      BY <3>3, <1>2
  <2> QED
    BY <2>1, <2>2, <2>3, <2>4, <1>7 DEF InGame
<1>11. Sound(r2, q, s2)
  BY <1>8, <1>9, <1>10 DEF Sound
<1>12. ASSUME NEW n \in 0 .. L
       PROVE  IF r[n] = "REJECTED" THEN r2[n] = "REJECTED"
              ELSE \/ r2[n] = w
                   \/ w = "RESETTING" /\ v = "RECEIVED_PRESETUP_DATA" /\ r2[n] = "RECEIVED_PRESETUP_DATA"
  BY <1>2, <1>4
<1> QED
  BY <1>5, <1>11, <1>12
\* a packet of the page itself, alone on its way
LEMMA OneSent ==
  ASSUME NEW m
  PROVE  /\ IsSeq(<<m>>) /\ Len(<<m>>) = 1 /\ <<m>>[1] = m /\ <<m>> # <<>>
         /\ \A t : Has(<<m>>, t) <=> m.type = t
<1>1. IsSeq(<<m>>) /\ Len(<<m>>) = 1 /\ <<m>>[1] = m /\ \A t : Has(<<m>>, t) <=> m.type = t
  BY OneLemma
<1> QED
  BY <1>1, LenLemma

LEMMA MessageLemma ==
  ASSUME NEW type
  PROVE  /\ IsSeq(<<Packet(type)>>) /\ Len(<<Packet(type)>>) = 1 /\ <<Packet(type)>>[1].type = type
         /\ <<Packet(type)>> # <<>> /\ \A t : Has(<<Packet(type)>>, t) <=> type = t
<1>1. PICK m : m = Packet(type)
  OBVIOUS
<1>2. m.type = type
  BY <1>1 DEF Packet
<1>3. IsSeq(<<m>>) /\ Len(<<m>>) = 1 /\ <<m>>[1] = m /\ <<m>> # <<>> /\ \A t : Has(<<m>>, t) <=> m.type = t
  BY OneSent
<1> QED
  BY <1>1, <1>2, <1>3

\* Everything on its way is lost with the connection, in both directions.
LEMMA CutGood ==
  ASSUME NEW pg, NEW q, NEW s, NEW isMaster, NEW live, NEW safe, NEW st,
         Good(pg, q, s, isMaster, live, safe, st), pg.conn # None
  PROVE  Good(pg, <<>>, <<>>, isMaster, FALSE, safe, st)
<1>1. PICK r : GoodRun(pg, q, s, isMaster, live, safe, st, r)
  BY DEF Good
<1>2. Len(q) \in Nat /\ 0 \in 0 .. Len(q)
  BY LenLemma DEF Good, GoodOut
<1>3. IsSeq(<<>>) /\ Len(<<>>) = 0 /\ \A t : ~Has(<<>>, t)
  BY EmptyLemma
<1>4. \A n \in 0 .. 0 : n = 0
  OBVIOUS
<1>5. r[0] = View(pg) /\ r[0] \in Views
  BY <1>1, <1>2 DEF GoodRun, RunOf, Sound
<1>6. RunOf(r, View(pg), <<>>)
  BY <1>3, <1>5 DEF RunOf
<1>7. Sound(r, <<>>, <<>>)
  <2>1. Meets(<<>>, r[0])
    BY <1>3 DEF Meets
  <2> QED
    BY <2>1, <1>3, <1>4, <1>5 DEF Sound
<1>8. Danger(pg, <<>>, isMaster, r[0]) => safe
  <2>1. Danger(pg, <<>>, isMaster, r[0]) => Danger(pg, s, isMaster, r[0])
    BY <1>3 DEF Danger
  <2> QED
    BY <2>1, <1>1, <1>2 DEF GoodRun
<1>9. GoodRun(pg, <<>>, <<>>, isMaster, FALSE, safe, st, r)
  BY <1>3, <1>4, <1>6, <1>7, <1>8 DEF GoodRun
<1>10. GoodOut(pg, <<>>, <<>>)
  BY <1>3 DEF GoodOut
<1> QED
  BY <1>9, <1>10 DEF Good

\* A run of no packets.
LEMMA StillRun ==
  ASSUME NEW pg, GoodPage(pg), NEW s, NEW isMaster, NEW live, NEW safe, NEW st,
         Meets(s, View(pg)), Danger(pg, s, isMaster, View(pg)) => safe, ~(live /\ isMaster)
  PROVE  \E r : GoodRun(pg, <<>>, s, isMaster, live, safe, st, r)
<1> DEFINE r == [n \in {0} |-> View(pg)]
<1>1. Len(<<>>) = 0
  BY EmptyLemma
<1>2. (\A n \in 0 .. 0 : n = 0) /\ r[0] = View(pg) /\ View(pg) \in Views
  BY ViewLemma
<1> HIDE DEF r
<1>3. RunOf(r, View(pg), <<>>)
  BY <1>1, <1>2 DEF RunOf
<1>4. Sound(r, <<>>, s)
  BY <1>1, <1>2 DEF Sound
<1>5. \A n \in 0 .. Len(<<>>) : Danger(pg, s, isMaster, r[n]) => safe
  BY <1>1, <1>2
<1>6. GoodRun(pg, <<>>, s, isMaster, live, safe, st, r)
  BY <1>3, <1>4, <1>5 DEF GoodRun
<1> QED
  BY <1>6

\* The page notices.
LEMMA NoticesGood ==
  ASSUME NEW pg, NEW isMaster, NEW live, NEW safe, NEW st,
         Good(pg, <<>>, <<>>, isMaster, live, safe, st), pg.conn # None
  PROVE  Good([pg EXCEPT !.conn = None, !.interrupted = pg.interrupted \/ pg.asked], <<>>, <<>>, FALSE, FALSE, safe, st)
<1>1. PICK after : after = [pg EXCEPT !.conn = None, !.interrupted = pg.interrupted \/ pg.asked]
  OBVIOUS
<1>2. GoodPage(pg) /\ pg.wasConnected
  BY DEF Good, GoodPage
<1>3. /\ GoodPage(after) /\ View(after) = View(pg) /\ after.wasConnected /\ after.conn = None
      /\ after.interrupted = (pg.interrupted \/ pg.asked)
  BY <1>1, <1>2 DEF GoodPage, PageRecord, View
<1>4. IsSeq(<<>>) /\ Len(<<>>) = 0 /\ \A t : ~Has(<<>>, t)
  BY EmptyLemma
<1>5. Meets(<<>>, View(after))
  BY <1>4 DEF Meets
<1>6. Danger(after, <<>>, FALSE, View(after)) => safe
  <2>1. SUFFICES ASSUME Danger(after, <<>>, FALSE, View(after)) PROVE safe
    OBVIOUS
  <2>2. View(pg) \in AtSetup /\ ~pg.interrupted /\ ~pg.asked
    BY <2>1, <1>3 DEF Danger
  <2>3. View(pg) \in {"MASTER_ACCEPTED", "RECEIVED_PRESETUP_DATA"}
    BY <2>2, <1>2, ViewLemma DEF AtSetup
  <2>4. Danger(pg, <<>>, isMaster, View(pg))
    BY <2>2, <2>3 DEF Danger
  <2>5. PICK r : GoodRun(pg, <<>>, <<>>, isMaster, live, safe, st, r)
    BY DEF Good
  <2>6. r[0] = View(pg) /\ 0 \in 0 .. Len(<<>>)
    BY <2>5, <1>4 DEF GoodRun, RunOf
  <2> QED
    BY <2>4, <2>5, <2>6 DEF GoodRun
<1>7. \E r : GoodRun(after, <<>>, <<>>, FALSE, FALSE, safe, st, r)
  BY <1>3, <1>5, <1>6, StillRun
<1>8. GoodOut(after, <<>>, <<>>)
  BY <1>3, <1>4 DEF GoodOut
<1> QED
  BY <1>1, <1>3, <1>7, <1>8 DEF Good

\* It is loaded, or loaded again.
LEMMA LoadedGood ==
  ASSUME NEW safe, NEW st
  PROVE  Good(LoadedPage, <<>>, <<RegisterPacket(LoadedPage)>>, FALSE, FALSE, safe, st)
<1>1. PICK m, pg : m = RegisterPacket(LoadedPage) /\ pg = LoadedPage
  OBVIOUS
<1>2. m.type = "REGISTER_MASTER" /\ m.takeOver = FALSE
  BY <1>1 DEF RegisterPacket, LoadedPage
<1>3. /\ GoodPage(pg) /\ View(pg) = "STARTING" /\ pg.state = "STARTING" /\ pg.takeOverRequested = FALSE
      /\ pg.conn = None
  BY <1>1 DEF GoodPage, PageRecord, PageState, View, LoadedPage
<1>4. IsSeq(<<m>>) /\ Len(<<m>>) = 1 /\ <<m>>[1] = m /\ <<m>> # <<>> /\ \A t : Has(<<m>>, t) <=> m.type = t
  BY OneSent
<1>5. Meets(<<m>>, View(pg)) /\ ~Danger(pg, <<m>>, FALSE, View(pg))
  BY <1>2, <1>3, <1>4 DEF Meets, Danger, AtSetup
<1>6. \E r : GoodRun(pg, <<>>, <<m>>, FALSE, FALSE, safe, st, r)
  BY <1>3, <1>5, StillRun
<1>7. IsSeq(<<>>)
  BY EmptyLemma
<1>8. GoodOut(pg, <<>>, <<m>>)
  <2>1. PICK s : s = <<m>>
    OBVIOUS
  <2>2. IsSeq(s) /\ Len(s) = 1 /\ s[1] = m /\ s # <<>> /\ \A i \in 1 .. Len(s) : i = 1
    BY <2>1, <1>4
  <2>3. ASSUME NEW i \in 1 .. Len(s)
        PROVE  /\ s[i].type \in Sendable /\ ~(i < Len(s))
               /\ s[i].takeOver \in BOOLEAN /\ ~s[i].takeOver
    <3>1. i = 1 /\ s[i] = m /\ ~(i < Len(s))
      BY <2>2
    <3>2. s[i].type = "REGISTER_MASTER" /\ s[i].takeOver = FALSE
      BY <3>1, <1>2
    <3> QED
      BY <3>1, <3>2 DEF Sendable
  <2>4. GoodOut(pg, <<>>, s)
    BY <2>2, <2>3, <1>2, <1>3, <1>7 DEF GoodOut
  <2> QED
    BY <2>1, <2>4
<1> QED
  BY <1>1, <1>3, <1>6, <1>8 DEF Good

\* Nothing that counts changes: it asks whether to take over, or does not.
LEMMA SameGood ==
  ASSUME NEW pg, NEW q, NEW s, NEW isMaster, NEW live, NEW safe, NEW st,
         Good(pg, q, s, isMaster, live, safe, st), NEW pg2 \in PageRecord,
         pg2.state = pg.state, pg2.conn = pg.conn, pg2.wasConnected = pg.wasConnected,
         pg2.takeOverRequested = pg.takeOverRequested, pg2.token = pg.token,
         pg2.asked = pg.asked, pg2.interrupted = pg.interrupted
  PROVE  Good(pg2, q, s, isMaster, live, safe, st)
<1>1. GoodPage(pg2) /\ View(pg2) = View(pg)
  BY DEF Good, GoodPage, View
<1>2. GoodOut(pg2, q, s)
  BY <1>1 DEF Good, GoodOut
<1>3. \A v : Danger(pg2, s, isMaster, v) <=> Danger(pg, s, isMaster, v)
  BY DEF Danger
<1>4. \A v : InStep(pg2, s, st, v) <=> InStep(pg, s, st, v)
  BY DEF InStep
<1>5. \A r : GoodRun(pg, q, s, isMaster, live, safe, st, r) => GoodRun(pg2, q, s, isMaster, live, safe, st, r)
  BY <1>1, <1>3, <1>4 DEF GoodRun
<1> QED
  BY <1>1, <1>2, <1>5 DEF Good, Newcomer

\* It connects: what it registers with goes ahead.
LEMMA ConnectsGood ==
  ASSUME NEW pg, NEW s, NEW safe, NEW st, NEW anyMaster, NEW anyLive,
         Good(pg, <<>>, s, anyMaster, anyLive, safe, st), pg.conn = None, ~Reloads(pg),
         NEW c \in MasterConn, NEW pg2 \in PageRecord,
         pg2.state = pg.state, pg2.conn = c, pg2.wasConnected = TRUE,
         pg2.takeOverRequested = pg.takeOverRequested, pg2.token = pg.token,
         pg2.asked = pg.asked, pg2.interrupted = pg.interrupted
  PROVE  Good(pg2, <<>>, (IF Registers(pg) THEN <<RegisterPacket(pg)>> ELSE <<>>) \o s, FALSE, TRUE, safe, st)
<1> DEFINE s2 == (IF Registers(pg) THEN <<RegisterPacket(pg)>> ELSE <<>>) \o s
<1>1. GoodPage(pg) /\ GoodOut(pg, <<>>, s) /\ IsSeq(s) /\ Len(s) \in {0, 1} /\ (s = <<>> <=> Len(s) = 0)
  <2>1. IsSeq(s) /\ Len(s) <= 1
    BY DEF Good, GoodOut
  <2>2. Len(s) \in Nat /\ (s = <<>> <=> Len(s) = 0)
    BY <2>1, LenLemma
  <2>3. GoodPage(pg) /\ GoodOut(pg, <<>>, s)
    BY DEF Good
  <2>4. Len(s) \in {0, 1}
    <3>1. PICK n : n = Len(s)
      OBVIOUS
    <3>2. n \in Nat /\ n <= 1
      BY <3>1, <2>1, <2>2
    <3>3. n \in {0, 1}
      BY <3>2
    <3> QED
      BY <3>1, <3>3
  <2> QED
    BY <2>1, <2>2, <2>3, <2>4
<1>2. c # None
  BY ConnAssumption DEF Conn
<1>3. GoodPage(pg2) /\ View(pg2) = View(pg)
  BY <1>1, <1>2 DEF GoodPage, View
<1>4. PICK m : m = RegisterPacket(pg)
  OBVIOUS
<1>5. m.type = "REGISTER_MASTER" /\ m.takeOver = pg.takeOverRequested /\ m.takeOver \in BOOLEAN
  BY <1>1, <1>4 DEF RegisterPacket, GoodPage, PageRecord
<1>6. IsSeq(<<m>>) /\ Len(<<m>>) = 1 /\ <<m>>[1] = m /\ <<m>> # <<>> /\ \A t : Has(<<m>>, t) <=> m.type = t
  BY OneSent
<1>7. \A i \in 1 .. Len(s) : i = 1
  <2>1. CASE Len(s) = 0
    BY <2>1
  <2>2. CASE Len(s) = 1
    BY <2>2
  <2> QED
    BY <2>1, <2>2, <1>1
<1>8. s # <<>> => Len(s) = 1 /\ \A t : Has(s, t) <=> s[1].type = t
  <2>1. SUFFICES ASSUME s # <<>> PROVE Len(s) = 1 /\ \A t : Has(s, t) <=> s[1].type = t
    OBVIOUS
  <2>2. Len(s) = 1
    BY <2>1, <1>1, LenLemma
  <2>3. 1 .. Len(s) = {1}
    BY <2>2
  <2> QED
    BY <2>2, <2>3 DEF Has
<1>9. s = <<>> => \A t : ~Has(s, t)
  BY EmptyLemma
<1>10. PICK r : GoodRun(pg, <<>>, s, anyMaster, anyLive, safe, st, r)
  BY DEF Good
<1>11. Len(<<>>) = 0 /\ 0 \in 0 .. Len(<<>>) /\ IsSeq(<<>>)
  BY EmptyLemma
<1>12. r[0] = View(pg) /\ Meets(s, View(pg)) /\ View(pg) \in Views /\ (Danger(pg, s, anyMaster, View(pg)) => safe)
  BY <1>10, <1>11 DEF GoodRun, RunOf, Sound
\* what it waits to send, if anything, and what it is
<1>13. /\ s # <<>> => s[1].type \in Sendable /\ pg.state # "REJECTED"
       /\ s # <<>> /\ s[1].type = "REGISTER_MASTER" =>
            s[1].takeOver = FALSE /\ pg.state = "STARTING" /\ pg.takeOverRequested = FALSE
       /\ s # <<>> /\ s[1].type = "RESET_SERVER" => View(pg) = "RESETTING"
       /\ ~pg.wasConnected => s # <<>> /\ s[1].type = "REGISTER_MASTER" /\ pg.state = "STARTING"
  BY <1>1, <1>8 DEF GoodOut, GoodPage, PageRecord
<1>14. pg.state \in Registering \cup {"REJECTED"}
  BY <1>1, <1>13 DEF Reloads, GoodPage, PageRecord, PageState, Registering
<1>15. View(pg) \in Early \cup {"REJECTED"} /\ (View(pg) = "REJECTED" <=> pg.state = "REJECTED")
  BY <1>1, <1>14, <1>12, ViewLemma DEF Registering, Early, AtSetup, Views, InGame
<1>16. Registers(pg) <=> pg.wasConnected /\ pg.state # "REJECTED"
  BY <1>14 DEF Registers, Registering
<1>17. s2 = IF Registers(pg) THEN <<m>> \o s ELSE s
  BY <1>1, <1>4, ConcatEmpty
<1>18. Registers(pg) => /\ IsSeq(<<m>> \o s) /\ Len(<<m>> \o s) = 1 + Len(s) /\ (<<m>> \o s)[1] = m
                        /\ \A i \in 1 .. Len(s) : (<<m>> \o s)[1 + i] = s[i]
                        /\ \A t : Has(<<m>> \o s, t) <=> Has(<<m>>, t) \/ Has(s, t)
  <2>1. /\ IsSeq(<<m>> \o s) /\ Len(<<m>> \o s) = Len(<<m>>) + Len(s)
        /\ \A i \in 1 .. Len(<<m>>) : (<<m>> \o s)[i] = <<m>>[i]
        /\ \A i \in 1 .. Len(s) : (<<m>> \o s)[Len(<<m>>) + i] = s[i]
        /\ \A t : Has(<<m>> \o s, t) <=> Has(<<m>>, t) \/ Has(s, t)
    BY <1>1, <1>6, ConcatLemma
  <2> QED
    BY <2>1, <1>6
<1> HIDE DEF s2
<1>19. \A t : Has(s2, t) <=> Has(s, t) \/ (Registers(pg) /\ t = "REGISTER_MASTER")
  BY <1>5, <1>6, <1>17, <1>18
<1>20. GoodOut(pg2, <<>>, s2)
  <2>1. CASE Registers(pg)
    <3>1. /\ s2 = <<m>> \o s /\ Len(s2) = 1 + Len(s) /\ s2[1] = m /\ IsSeq(s2)
          /\ \A i \in 1 .. Len(s) : s2[1 + i] = s[i]
      BY <2>1, <1>17, <1>18
    <3>2. m.takeOver => pg.state = "STARTING"
      BY <2>1, <1>1, <1>5, <1>16 DEF GoodPage
    <3>3. ASSUME NEW i \in 1 .. Len(s2)
          PROVE  /\ s2[i].type \in Sendable
                 /\ i < Len(s2) => s2[i].type = "REGISTER_MASTER"
                 /\ s2[i].type = "REGISTER_MASTER" => s2[i].takeOver \in BOOLEAN
                 /\ s2[i].type = "REGISTER_MASTER" /\ s2[i].takeOver => i = 1 /\ pg2.state = "STARTING"
      <4>1. CASE i = 1
        BY <4>1, <3>1, <3>2, <1>5 DEF Sendable
      <4>2. CASE i # 1
        <5>1. i = 2 /\ Len(s) = 1 /\ Len(s2) = 2
          <6>1. CASE Len(s) = 0
            BY <6>1, <4>2, <3>1
          <6>2. CASE Len(s) = 1
            BY <6>2, <4>2, <3>1
          <6> QED
            BY <6>1, <6>2, <1>1
        <5>2. s # <<>> /\ 1 \in 1 .. Len(s) /\ s2[1 + 1] = s[1]
          BY <5>1, <3>1, <1>1
        <5>3. s2[i] = s[1] /\ ~(i < Len(s2))
          BY <5>1, <5>2
        <5>4. PICK x : x = s[1]
          OBVIOUS
        <5> QED
          BY <5>2, <5>3, <5>4, <1>13
      <4> QED
        BY <4>1, <4>2
    <3> QED
      BY <3>1, <3>3, <1>2, <1>11 DEF GoodOut
  <2>2. CASE ~Registers(pg)
    <3>1. s2 = s
      BY <2>2, <1>17
    <3>2. \A i \in 1 .. Len(s) : /\ s[i].type \in Sendable /\ i = 1 /\ i = Len(s)
                                 /\ s[i].type = "REGISTER_MASTER" => s[i].takeOver = FALSE
      <4>1. SUFFICES ASSUME NEW i \in 1 .. Len(s)
                     PROVE  /\ s[i].type \in Sendable /\ i = 1 /\ i = Len(s)
                            /\ s[i].type = "REGISTER_MASTER" => s[i].takeOver = FALSE
        OBVIOUS
      <4>2. i = 1 /\ Len(s) = 1 /\ s # <<>>
        <5>1. CASE Len(s) = 0
          BY <5>1
        <5>2. CASE Len(s) = 1
          BY <5>2, <1>1
        <5> QED
          BY <5>1, <5>2, <1>1
      <4> QED
        BY <4>2, <1>13
    <3> QED
      BY <3>1, <3>2, <1>1, <1>2, <1>11 DEF GoodOut
  <2> QED
    BY <2>1, <2>2
<1>21. Newcomer(pg2, <<>>, s2)
  <2>1. View(pg) = "REJECTED" => s2 = <<>>
    BY <1>13, <1>15, <1>16, <1>17
  <2>2. View(pg) # "REJECTED" => s2 # <<>> /\ s2[1].type = "REGISTER_MASTER"
    <3>1. CASE Registers(pg)
      <4>1. Len(s2) = 1 + Len(s) /\ s2[1] = m /\ IsSeq(s2)
        BY <3>1, <1>17, <1>18
      <4>2. Len(s2) # 0
        BY <4>1, <1>1
      <4> QED
        BY <4>1, <4>2, <1>5, LenLemma
    <3>2. CASE ~Registers(pg)
      BY <3>2, <1>13, <1>15, <1>16, <1>17
    <3> QED
      BY <3>1, <3>2
  <2>3. Has(s2, "RESET_SERVER") => View(pg) = "RESETTING"
    <3>1. Has(s2, "RESET_SERVER") => Has(s, "RESET_SERVER")
      BY <1>19
    <3>2. Has(s, "RESET_SERVER") => s # <<>> /\ s[1].type = "RESET_SERVER"
      BY <1>8, <1>9
    <3> QED
      BY <3>1, <3>2, <1>13
  <2> QED
    BY <2>1, <2>2, <2>3, <1>3, <1>15 DEF Newcomer
<1>22. Meets(s2, View(pg2))
  BY <1>3, <1>12, <1>19 DEF Meets
<1>23. Danger(pg2, s2, FALSE, View(pg2)) => safe
  <2>1. SUFFICES ASSUME Danger(pg2, s2, FALSE, View(pg2)) PROVE safe
    OBVIOUS
  <2>2. View(pg) \in AtSetup /\ ~pg.interrupted
    BY <2>1, <1>3 DEF Danger
  <2>3. ~Has(s, "RESET_SERVER")
    <3>1. Has(s, "RESET_SERVER") => View(pg) = "RESETTING"
      BY <1>8, <1>9, <1>13
    <3>2. Has(s, "RESET_SERVER") => Has(s2, "RESET_SERVER")
      BY <1>19
    <3> QED
      BY <3>1, <3>2, <2>1, <1>2, <1>3 DEF Danger
  <2> QED
    BY <2>2, <2>3, <1>12 DEF Danger
<1>24. \E r2 : GoodRun(pg2, <<>>, s2, FALSE, TRUE, safe, st, r2)
  BY <1>3, <1>22, <1>23, StillRun
<1> QED
  BY <1>3, <1>20, <1>21, <1>24 DEF Good, s2
LEMMA NothingOut ==
  ASSUME NEW pg, NEW q, IsSeq(q), pg.conn = None => q = <<>> /\ pg.wasConnected
  PROVE  GoodOut(pg, q, <<>>)
<1>1. IsSeq(<<>>) /\ Len(<<>>) = 0 /\ \A t : ~Has(<<>>, t)
  BY EmptyLemma
<1> QED
  BY <1>1 DEF GoodOut

LEMMA OneOut ==
  ASSUME NEW pg, NEW q, IsSeq(q), NEW m, m.type \in Sendable,
         m.type = "REGISTER_MASTER" => m.takeOver \in BOOLEAN /\ (m.takeOver => q = <<>> /\ pg.state = "STARTING"),
         pg.conn = None =>
           /\ q = <<>> /\ pg.wasConnected /\ pg.state # "REJECTED"
           /\ m.type = "REGISTER_MASTER" => ~m.takeOver /\ pg.state = "STARTING" /\ ~pg.takeOverRequested
           /\ m.type = "RESET_SERVER" => View(pg) = "RESETTING"
  PROVE  GoodOut(pg, q, <<m>>)
<1>1. PICK s : s = <<m>>
  OBVIOUS
<1>2. IsSeq(s) /\ Len(s) = 1 /\ s[1] = m /\ s # <<>>
  BY <1>1, OneSent
<1>3. ASSUME NEW i \in 1 .. Len(s) PROVE i = 1 /\ s[i] = m /\ ~(i < Len(s))
  BY <1>2
<1>4. GoodOut(pg, q, s)
  BY <1>2, <1>3 DEF GoodOut
<1> QED
  BY <1>1, <1>4

\* It was refused, and tries again.
LEMMA TriesGood ==
  ASSUME NEW pg, NEW q, NEW isMaster \in BOOLEAN, NEW live \in BOOLEAN, NEW safe, NEW st,
         Good(pg, q, <<>>, isMaster, live, safe, st), pg.state = "REJECTED",
         NEW pg2 \in PageRecord, pg2.state = "STARTING", pg2.conn = pg.conn,
         pg2.wasConnected = pg.wasConnected, pg2.asked = pg.asked, pg2.conn = None => ~pg2.takeOverRequested,
         NEW s2, s2 = <<RegisterPacket(pg2)>> \/ (~live /\ pg.conn # None /\ s2 = <<>>)
  PROVE  Good(pg2, q, s2, isMaster, live, safe, st)
<1>1. GoodPage(pg) /\ pg.asked = FALSE /\ pg.wasConnected /\ IsSeq(q) /\ Len(q) \in Nat /\ View(pg) = "REJECTED"
  <2>1. GoodPage(pg) /\ IsSeq(q)
    BY DEF Good, GoodOut
  <2> QED
    BY <2>1, LenLemma, ViewLemma DEF GoodPage, PageRecord
<1>2. PICK r : GoodRun(pg, q, <<>>, isMaster, live, safe, st, r)
  BY DEF Good
<1>3. q = <<>> /\ r[Len(q)] = "REJECTED"
  <2>1. 0 \in 0 .. Len(q) /\ r[0] = "REJECTED"
    BY <1>1, <1>2 DEF GoodRun, RunOf
  <2>2. 0 = Len(q)
    BY <2>1, <1>2 DEF GoodRun, Sound
  <2> QED
    BY <2>1, <2>2, <1>1, LenLemma
<1>4. ~(live /\ isMaster)
  BY <1>2, <1>3 DEF GoodRun, InStep, AtSetup
<1>5. PICK m : m = RegisterPacket(pg2)
  OBVIOUS
<1>6. m.type = "REGISTER_MASTER" /\ m.takeOver = pg2.takeOverRequested /\ m.takeOver \in BOOLEAN
  BY <1>5 DEF RegisterPacket, PageRecord
<1>7. GoodPage(pg2) /\ View(pg2) = "STARTING" /\ pg2.wasConnected
  BY <1>1 DEF GoodPage, View
<1>8. GoodOut(pg2, q, s2)
  <2>1. CASE s2 = <<m>>
    BY <2>1, <1>1, <1>3, <1>6, <1>7, OneOut DEF Sendable
  <2>2. CASE s2 # <<m>>
    BY <2>2, <1>1, <1>5, <1>7, NothingOut
  <2> QED
    BY <2>1, <2>2
<1>9. \A t : Has(s2, t) => t = "REGISTER_MASTER"
  <2>1. CASE s2 = <<m>>
    BY <2>1, <1>6, OneSent
  <2>2. CASE s2 # <<m>>
    BY <2>2, <1>5, EmptyLemma
  <2> QED
    BY <2>1, <2>2
<1>10. live => s2 = <<m>> /\ Newcomer(pg2, q, s2)
  <2>1. SUFFICES ASSUME live PROVE s2 = <<m>> /\ Newcomer(pg2, q, s2)
    OBVIOUS
  <2>2. s2 = <<m>> /\ s2 # <<>> /\ s2[1] = m
    BY <2>1, <1>5, OneSent
  <2> QED
    BY <2>2, <1>3, <1>6, <1>7, <1>9 DEF Newcomer, Early
<1>11. Meets(s2, View(pg2)) /\ ~Danger(pg2, s2, isMaster, View(pg2))
  BY <1>7, <1>9 DEF Meets, Danger, AtSetup
<1>12. \E r2 : GoodRun(pg2, <<>>, s2, isMaster, live, safe, st, r2)
  BY <1>4, <1>7, <1>11, StillRun
<1> QED
  BY <1>3, <1>7, <1>8, <1>10, <1>12 DEF Good

\* The user sets up, ends or resets a game.
Request(v, w, type) ==
  \/ v = "RECEIVED_PRESETUP_DATA" /\ w = "SETTING_UP" /\ type = "SETUP_GAME"
  \/ v = "PLAYING" /\ w = "END" /\ type = "END_GAME"
  \/ v \in {"RECEIVED_PRESETUP_DATA", "PLAYING", "END"} /\ w = "RESETTING" /\ type = "RESET_SERVER"

LEMMA ActsGood ==
  ASSUME NEW pg, NEW q, NEW isMaster \in BOOLEAN, NEW live \in BOOLEAN, NEW safe, NEW st,
         Good(pg, q, <<>>, isMaster, live, safe, st),
         NEW pg2, GoodPage(pg2), NEW type, Request(View(pg), View(pg2), type), pg2.conn = pg.conn,
         pg2.token = pg.token, pg2.interrupted = pg.interrupted,
         NEW s2, s2 = <<Packet(type)>> \/ (~live /\ pg.conn # None /\ s2 = <<>>)
  PROVE  Good(pg2, q, s2, isMaster, live, safe, st)
<1> DEFINE L == Len(q)
<1>1. PICK v, w : v = View(pg) /\ w = View(pg2)
  OBVIOUS
<1>2. Request(v, w, type)
  BY <1>1
<1>3. /\ GoodPage(pg) /\ GoodPage(pg2) /\ GoodOut(pg, q, <<>>) /\ IsSeq(q) /\ L \in Nat
      /\ 0 \in 0 .. L /\ L \in 0 .. L
  <2>1. GoodPage(pg) /\ GoodOut(pg, q, <<>>) /\ IsSeq(q)
    BY DEF Good, GoodOut
  <2> QED
    BY <2>1, LenLemma
<1>4. PICK r : GoodRun(pg, q, <<>>, isMaster, live, safe, st, r)
  BY DEF Good
<1>5. r[0] = v /\ RunOf(r, v, q) /\ Sound(r, q, <<>>)
  BY <1>1, <1>4 DEF GoodRun, RunOf
<1>6. live => isMaster
  <2>1. View(pg) # "REJECTED"
    BY <1>1, <1>2 DEF Request
  <2> QED
    BY <2>1 DEF Good, Newcomer
<1>7. PICK m : m = Packet(type)
  OBVIOUS
<1>8. m.type = type
  BY <1>7 DEF Packet
<1>9. /\ \A t : Has(s2, t) => t = type
      /\ live \/ pg.conn = None => Has(s2, type)
  <2>1. CASE s2 = <<m>>
    BY <2>1, <1>8, OneSent
  <2>2. CASE s2 # <<m>>
    BY <2>2, <1>7, EmptyLemma
  <2> QED
    BY <2>1, <2>2
<1>10. Meets(s2, w) /\ (w = "RESETTING" => Meets(s2, "RECEIVED_PRESETUP_DATA"))
  BY <1>2, <1>9 DEF Meets, Request
<1>11. PICK r2 : /\ RunOf(r2, w, q) /\ Sound(r2, q, s2)
                 /\ \A n \in 0 .. L :
                      IF r[n] = "REJECTED" THEN r2[n] = "REJECTED"
                      ELSE \/ r2[n] = w
                           \/ w = "RESETTING" /\ v = "RECEIVED_PRESETUP_DATA" /\ r2[n] = "RECEIVED_PRESETUP_DATA"
  BY <1>2, <1>3, <1>5, <1>10, ActsRun DEF Request
<1>12. ASSUME NEW n \in 0 .. L, Danger(pg2, s2, isMaster, r2[n]) PROVE safe
  <2>1. r2[n] \in AtSetup /\ ~pg.interrupted
    BY <1>12 DEF Danger
  <2>2. ~Has(s2, "REGISTER_MASTER")
    BY <1>2, <1>9 DEF Request
  <2>3. v = "RECEIVED_PRESETUP_DATA"
    <3>1. CASE w = "SETTING_UP"
      BY <3>1, <1>2 DEF Request
    <3>2. CASE w = "END"
      BY <3>2, <2>1, <1>11 DEF AtSetup
    <3>3. CASE w = "RESETTING"
      <4>1. pg.conn = None => FALSE
        BY <3>3, <1>2, <1>9, <1>12 DEF Danger, Request
      <4>2. r2[n] \in {"MASTER_ACCEPTED", "RECEIVED_PRESETUP_DATA"}
        BY <4>1, <2>2, <1>12 DEF Danger
      <4> QED
        BY <4>2, <3>3, <1>11
    <3> QED
      BY <3>1, <3>2, <3>3, <1>2 DEF Request
  <2>4. Danger(pg, <<>>, isMaster, r[0])
    BY <2>1, <2>3, <1>5, EmptyLemma DEF Danger, AtSetup
  <2> QED
    BY <2>4, <1>3, <1>4 DEF GoodRun
<1>13. live /\ isMaster => /\ pg2.token = pg2.conn \/ Has(q, "STORAGE_ACCESS")
                           /\ InStep(pg2, s2, st, r2[L])
  <2>1. SUFFICES ASSUME live, isMaster PROVE /\ pg2.token = pg2.conn \/ Has(q, "STORAGE_ACCESS")
                                             /\ InStep(pg2, s2, st, r2[L])
    OBVIOUS
  <2>2. /\ pg.token = pg.conn \/ Has(q, "STORAGE_ACCESS")
        /\ InStep(pg, <<>>, st, r[L])
    BY <2>1, <1>4 DEF GoodRun
  <2>3. r[L] = v
    <3>1. r[L] # "REJECTED"
      BY <2>2 DEF InStep, AtSetup
    <3>2. r[L] \in {v, "REJECTED"}
      <4>1. 0 <= L /\ r[0] \in {"RECEIVED_PRESETUP_DATA", "PLAYING", "END"}
        BY <1>2, <1>3, <1>5 DEF Request
      <4> QED
        BY <4>1, <1>3, <1>5 DEF Sound
    <3> QED
      BY <3>1, <3>2
  <2>4. r2[L] = w \/ (w = "RESETTING" /\ v = "RECEIVED_PRESETUP_DATA" /\ r2[L] = "RECEIVED_PRESETUP_DATA")
    <3>1. v # "REJECTED"
      BY <1>2 DEF Request
    <3> QED
      BY <3>1, <2>3, <1>3, <1>11
  <2>5. Has(s2, type)
    BY <2>1, <1>9
  <2>6. \/ v = "RECEIVED_PRESETUP_DATA" /\ (st = "WAITING_FOR_SETUP" \/ pg.interrupted)
        \/ v = "PLAYING" /\ st = "PLAYING"
        \/ v = "END"
    BY <2>2, <2>3, <1>2 DEF InStep, Request, AtSetup
  <2>7. InStep(pg2, s2, st, r2[L])
    <3>1. CASE w = "SETTING_UP"
      BY <3>1, <2>4, <2>6, <1>2 DEF InStep, Request, AtSetup
    <3>2. CASE w = "END"
      BY <3>2, <2>4, <2>5, <2>6, <1>2 DEF InStep, Request, AtSetup
    <3>3. CASE w = "RESETTING"
      BY <3>3, <2>4, <2>5, <2>6, <1>2 DEF InStep, Request, AtSetup
    <3> QED
      BY <3>1, <3>2, <3>3, <1>2 DEF Request
  <2> QED
    BY <2>2, <2>7
<1>14. GoodRun(pg2, q, s2, isMaster, live, safe, st, r2)
  BY <1>1, <1>11, <1>12, <1>13 DEF GoodRun
<1>15. pg2.state # "REJECTED" /\ pg2.wasConnected
  <2>1. View(pg2) # "REJECTED" /\ View(pg2) # "STARTING"
    BY <1>1, <1>2 DEF Request
  <2>2. pg2.state # "REJECTED" /\ pg2.state # "STARTING"
    BY <2>1, <1>3, ViewLemma
  <2> QED
    BY <2>2, <1>3 DEF GoodPage
<1>16. GoodOut(pg2, q, s2)
  <2>1. pg.conn = None => q = <<>>
    BY <1>3 DEF GoodOut
  <2>2. CASE s2 = <<m>>
    <3>1. type \in Sendable /\ type # "REGISTER_MASTER" /\ (type = "RESET_SERVER" => View(pg2) = "RESETTING")
      BY <1>1, <1>2 DEF Request, Sendable
    <3> QED
      BY <2>1, <2>2, <3>1, <1>3, <1>8, <1>15, OneOut
  <2>3. CASE s2 # <<m>>
    BY <2>1, <2>3, <1>3, <1>7, <1>15, NothingOut
  <2> QED
    BY <2>2, <2>3
<1> QED
  BY <1>3, <1>6, <1>14, <1>16 DEF Good
----------------------------------------------------------------------------
(* What the server does with a packet of the page: what it sends gets on its way behind q.         *)

\* the views from v over what is on its way, up to w, are all in D
Reach(v, q, s, w, D) ==
  \E r : RunOf(r, v, q) /\ Sound(r, q, s) /\ r[Len(q)] = w /\ \A n \in 0 .. Len(q) : r[n] \in D

SafeViews(pg, s, isMaster, safe) ==
  {x \in Views : Meets(s, x) /\ (Danger(pg, s, isMaster, x) => safe)}

LEMMA ReachFacts ==
  ASSUME NEW v, NEW q, IsSeq(q), NEW s, NEW w, NEW D, Reach(v, q, s, w, D)
  PROVE  /\ w \in Views /\ v \in Views /\ w \in D /\ v \in D /\ Meets(s, w)
         /\ w = "PLAYING" => v \in {"READY_TO_START", "PLAYING"}
         /\ v \in InGame => w \in InGame \cup {"REJECTED"}
         /\ v = "REJECTED" => w = "REJECTED"
         /\ q = <<>> => w = v
<1>1. PICK r : RunOf(r, v, q) /\ Sound(r, q, s) /\ r[Len(q)] = w /\ \A n \in 0 .. Len(q) : r[n] \in D
  BY DEF Reach
<1>2. PICK L : L = Len(q)
  OBVIOUS
<1>3. L \in Nat /\ (q = <<>> => L = 0)
  BY <1>2, LenLemma
<1>4. 0 \in 0 .. L /\ L \in 0 .. L /\ 0 <= L
  BY <1>3
<1>5. r[0] = v
  BY <1>1 DEF RunOf
<1>6. /\ w \in Views /\ v \in Views /\ w \in D /\ v \in D /\ Meets(s, w)
      /\ w = "PLAYING" => v \in {"READY_TO_START", "PLAYING"}
      /\ v = "REJECTED" => 0 = L
  BY <1>1, <1>2, <1>4, <1>5 DEF Sound
<1>7. v \in InGame => w \in InGame \cup {"REJECTED"}
  BY <1>1, <1>2, <1>4, <1>5 DEF Sound
<1> QED
  BY <1>1, <1>2, <1>3, <1>5, <1>6, <1>7

LEMMA ReachLess ==
  ASSUME NEW v, NEW q, NEW s, NEW w, NEW D, Reach(v, q, s, w, D),
         NEW s2, \A t : Has(s2, t) => Has(s, t), NEW D2, D \subseteq D2
  PROVE  Reach(v, q, s2, w, D2)
<1>1. PICK r : RunOf(r, v, q) /\ Sound(r, q, s) /\ r[Len(q)] = w /\ \A n \in 0 .. Len(q) : r[n] \in D
  BY DEF Reach
<1>2. Sound(r, q, s2)
  BY <1>1, LessSent
<1> QED
  BY <1>1, <1>2 DEF Reach

LEMMA ReachOne ==
  ASSUME NEW v, NEW q, IsSeq(q), NEW s, NEW w, NEW D, Reach(v, q, s, w, D), w # "REJECTED",
         NEW m, NEW w2, w2 = After(w, Kind(m)), Meets(s, w2),
         w2 = "PLAYING" => v \in {"READY_TO_START", "PLAYING"},
         Kind(m) = "REFUSED" => w \in Early,
         Kind(m) = "PRESETUP" => w \notin InGame,
         Kind(m) = "SET_UP" => w # "RECEIVED_PRESETUP_DATA"
  PROVE  /\ IsSeq(q \o <<m>>) /\ \A t : Has(q \o <<m>>, t) <=> Has(q, t) \/ m.type = t
         /\ Reach(v, q \o <<m>>, s, w2, D \cup {w2})
<1>1. PICK r : RunOf(r, v, q) /\ Sound(r, q, s) /\ r[Len(q)] = w /\ \A n \in 0 .. Len(q) : r[n] \in D
  BY DEF Reach
<1>2. PICK r2 : /\ RunOf(r2, v, q \o <<m>>) /\ Sound(r2, q \o <<m>>, s)
                /\ r2[Len(q) + 1] = w2 /\ \A n \in 0 .. Len(q) : r2[n] = r[n]
  BY <1>1, AppendView
<1>3. IsSeq(<<m>>) /\ Len(<<m>>) = 1 /\ \A t : Has(<<m>>, t) <=> m.type = t
  BY OneLemma
<1>4. /\ IsSeq(q \o <<m>>) /\ Len(q \o <<m>>) = Len(q) + Len(<<m>>)
      /\ \A t : Has(q \o <<m>>, t) <=> Has(q, t) \/ Has(<<m>>, t)
  BY <1>3, ConcatLemma
<1>5. Len(q) \in Nat
  BY LenLemma
<1>6. ASSUME NEW n \in 0 .. Len(q) + 1 PROVE r2[n] \in D \cup {w2}
  <2>1. n \in 0 .. Len(q) \/ n = Len(q) + 1
    BY <1>5
  <2> QED
    BY <2>1, <1>1, <1>2
<1> QED
  BY <1>2, <1>3, <1>4, <1>6 DEF Reach

LEMMA ReachSilent ==
  ASSUME NEW v, NEW q, IsSeq(q), NEW s, NEW w, NEW D, Reach(v, q, s, w, D), w # "REJECTED",
         NEW m, Kind(m) = "NOTHING"
  PROVE  /\ IsSeq(q \o <<m>>) /\ \A t : Has(q \o <<m>>, t) <=> Has(q, t) \/ m.type = t
         /\ Reach(v, q \o <<m>>, s, w, D)
<1>1. /\ w \in D /\ Meets(s, w)
      /\ w = "PLAYING" => v \in {"READY_TO_START", "PLAYING"}
  BY ReachFacts
<1>2. w = After(w, Kind(m))
  BY DEF After
<1>3. /\ IsSeq(q \o <<m>>) /\ \A t : Has(q \o <<m>>, t) <=> Has(q, t) \/ m.type = t
      /\ Reach(v, q \o <<m>>, s, w, D \cup {w})
  BY <1>1, <1>2, ReachOne
<1>4. D \cup {w} = D
  BY <1>1
<1> QED
  BY <1>3, <1>4

LEMMA GoodReach ==
  ASSUME NEW pg, NEW q, NEW s, NEW isMaster, NEW live, NEW safe, NEW st,
         Good(pg, q, s, isMaster, live, safe, st)
  PROVE  \E w : /\ Reach(View(pg), q, s, w, SafeViews(pg, s, isMaster, safe))
                /\ live /\ isMaster =>
                     /\ pg.token = pg.conn \/ Has(q, "STORAGE_ACCESS")
                     /\ InStep(pg, s, st, w)
<1>1. PICK r : GoodRun(pg, q, s, isMaster, live, safe, st, r)
  BY DEF Good
<1>2. \A n \in 0 .. Len(q) : r[n] \in SafeViews(pg, s, isMaster, safe)
  BY <1>1 DEF GoodRun, Sound, SafeViews
<1>3. Reach(View(pg), q, s, r[Len(q)], SafeViews(pg, s, isMaster, safe))
  BY <1>1, <1>2 DEF GoodRun, Reach
<1> QED
  BY <1>1, <1>3 DEF GoodRun

LEMMA ReachGood ==
  ASSUME NEW pg, NEW q, NEW s, NEW isMaster, NEW live, NEW safe, NEW st, NEW w, NEW D,
         GoodPage(pg), GoodOut(pg, q, s), live /\ ~isMaster => Newcomer(pg, q, s),
         Reach(View(pg), q, s, w, D), \A x \in D : Danger(pg, s, isMaster, x) => safe,
         live /\ isMaster => (pg.token = pg.conn \/ Has(q, "STORAGE_ACCESS")) /\ InStep(pg, s, st, w)
  PROVE  Good(pg, q, s, isMaster, live, safe, st)
<1>1. PICK r : /\ RunOf(r, View(pg), q) /\ Sound(r, q, s) /\ r[Len(q)] = w
               /\ \A n \in 0 .. Len(q) : r[n] \in D
  BY DEF Reach
<1>2. GoodRun(pg, q, s, isMaster, live, safe, st, r)
  BY <1>1 DEF GoodRun
<1> QED
  BY <1>2 DEF Good

LEMMA KeepGood ==
  ASSUME NEW pg, NEW q, NEW s, NEW isMaster, NEW live, NEW safe, NEW st,
         Good(pg, q, s, isMaster, live, safe, st),
         NEW safe2, safe => safe2, NEW st2, isMaster => st2 = st
  PROVE  Good(pg, q, s, isMaster, live, safe2, st2)
<1>1. PICK r : GoodRun(pg, q, s, isMaster, live, safe, st, r)
  BY DEF Good
<1>2. GoodRun(pg, q, s, isMaster, live, safe2, st2, r)
  BY <1>1 DEF GoodRun
<1> QED
  BY <1>2 DEF Good

\* the packet that the server handles, and those that follow it
LEMMA HeadLemma ==
  ASSUME NEW pg, NEW q, NEW s, GoodOut(pg, q, s), pg.conn # None, s # <<>>
  PROVE  /\ Head(s).type \in Sendable /\ Has(s, Head(s).type)
         /\ Head(s).type = "REGISTER_MASTER" /\ Head(s).takeOver => q = <<>> /\ pg.state = "STARTING"
         /\ Head(s).type = "REGISTER_MASTER" => Head(s).takeOver \in BOOLEAN
         /\ Head(s).type # "REGISTER_MASTER" => Tail(s) = <<>> /\ (\A t : Has(s, t) <=> t = Head(s).type)
         /\ \A t : Has(Tail(s), t) => Has(s, t)
         /\ \A t : Has(s, t) /\ t # Head(s).type => Has(Tail(s), t)
         /\ \A q2 : IsSeq(q2) => GoodOut(pg, q2, Tail(s))
<1>1. IsSeq(s)
  BY DEF GoodOut
<1>2. /\ IsSeq(Tail(s)) /\ Len(Tail(s)) = Len(s) - 1 /\ Head(s) = s[1] /\ Len(s) >= 1
      /\ \A i \in 1 .. Len(s) - 1 : Tail(s)[i] = s[i + 1]
      /\ \A t : Has(s, t) <=> Head(s).type = t \/ Has(Tail(s), t)
  BY <1>1, TailLemma
<1>3. Len(s) \in Nat /\ 1 \in 1 .. Len(s)
  BY <1>1, <1>2, LenLemma
<1>4. /\ Head(s).type \in Sendable
      /\ Head(s).type = "REGISTER_MASTER" /\ Head(s).takeOver => q = <<>> /\ pg.state = "STARTING"
      /\ Head(s).type = "REGISTER_MASTER" => Head(s).takeOver \in BOOLEAN
      /\ 1 < Len(s) => Head(s).type = "REGISTER_MASTER"
  BY <1>2, <1>3 DEF GoodOut
<1>5. ASSUME Head(s).type # "REGISTER_MASTER"
      PROVE  Tail(s) = <<>> /\ (\A t : Has(s, t) <=> t = Head(s).type)
  <2>1. Len(Tail(s)) = 0
    BY <1>2, <1>3, <1>4, <1>5
  <2>2. Tail(s) = <<>>
    BY <2>1, <1>2, LenLemma
  <2> QED
    BY <2>2, <1>2, EmptyLemma
<1>6. ASSUME NEW q2, IsSeq(q2) PROVE GoodOut(pg, q2, Tail(s))
  <2>1. PICK s2 : s2 = Tail(s)
    OBVIOUS
  <2>2. ASSUME NEW i \in 1 .. Len(s2)
        PROVE  /\ s2[i].type \in Sendable
               /\ i < Len(s2) => s2[i].type = "REGISTER_MASTER"
               /\ s2[i].type = "REGISTER_MASTER" => s2[i].takeOver \in BOOLEAN
               /\ ~(s2[i].type = "REGISTER_MASTER" /\ s2[i].takeOver)
    <3>1. /\ i \in 1 .. Len(s) - 1 /\ i + 1 \in 1 .. Len(s) /\ i + 1 # 1
          /\ i < Len(s2) => i + 1 < Len(s)
      BY <2>1, <1>2, <1>3
    <3>2. s2[i] = s[i + 1]
      BY <3>1, <2>1, <1>2
    <3> QED
      BY <3>1, <3>2 DEF GoodOut
  <2>3. GoodOut(pg, q2, s2)
    BY <2>1, <2>2, <1>2, <1>6 DEF GoodOut
  <2> QED
    BY <2>1, <2>3
<1> QED
  BY <1>2, <1>4, <1>5, <1>6
LEMMA NoDanger ==
  ASSUME NEW pg, pg.conn # None, NEW isMaster, NEW x
  PROVE  /\ Danger(pg, <<>>, isMaster, x) => x \in {"MASTER_ACCEPTED", "RECEIVED_PRESETUP_DATA"}
         /\ \A s : Danger(pg, <<>>, isMaster, x) => Danger(pg, s, isMaster, x) /\ Danger(pg, s, TRUE, x) /\ Danger(pg, s, FALSE, x)
<1>1. ~Has(<<>>, "REGISTER_MASTER")
  BY EmptyLemma
<1> QED
  BY <1>1 DEF Danger

\* the views from which the server may get what it handles, once nothing else is on its way to it
HandledViews(pg, s, isMaster, safe) ==
  {x \in Views : Meets(s, x) /\ (Danger(pg, <<>>, isMaster, x) => safe)}

Handled(pg, q, s, isMaster, live, safe, st, w) ==
  /\ GoodPage(pg) /\ IsSeq(q) /\ Tail(s) = <<>> /\ Head(s).type \in Sendable /\ (live => isMaster)
  /\ \A q2 : IsSeq(q2) => GoodOut(pg, q2, <<>>)
  /\ Reach(View(pg), q, <<>>, w, HandledViews(pg, s, isMaster, safe)) /\ w \in Views /\ Meets(s, w)
  /\ live => (pg.token = pg.conn \/ Has(q, "STORAGE_ACCESS")) /\ InStep(pg, s, st, w) /\ w # "REJECTED"
  /\ Has(s, Head(s).type)

LEMMA NonRegister ==
  ASSUME NEW pg, NEW q, NEW s, NEW isMaster, NEW live \in BOOLEAN, NEW safe, NEW st,
         Good(pg, q, s, isMaster, live, safe, st), pg.conn # None, s # <<>>,
         Head(s).type # "REGISTER_MASTER"
  PROVE  \E w : Handled(pg, q, s, isMaster, live, safe, st, w)
<1>0. PICK type : type = Head(s).type
  OBVIOUS
<1>1. GoodPage(pg) /\ GoodOut(pg, q, s)
  BY DEF Good
<1>2. IsSeq(q) /\ IsSeq(s)
  BY <1>1 DEF GoodOut
<1>3. /\ type \in Sendable /\ Has(s, type) /\ Tail(s) = <<>> /\ (\A t : Has(s, t) <=> t = type)
      /\ \A q2 : IsSeq(q2) => GoodOut(pg, q2, <<>>)
  <2>1. /\ Head(s).type \in Sendable /\ Has(s, Head(s).type)
        /\ Head(s).type # "REGISTER_MASTER" => Tail(s) = <<>> /\ (\A t : Has(s, t) <=> t = Head(s).type)
        /\ \A q2 : IsSeq(q2) => GoodOut(pg, q2, Tail(s))
    BY <1>1, HeadLemma
  <2> QED
    BY <1>0, <2>1
<1>4. live => isMaster
  <2>1. ASSUME live, ~isMaster PROVE FALSE
    <3>1. Newcomer(pg, q, s)
      BY <2>1 DEF Good
    <3>2. Head(s) = s[1]
      BY <1>2, TailLemma
    <3> QED
      BY <1>0, <3>1, <3>2 DEF Newcomer
  <2> QED
    BY <2>1
<1>5. PICK w : /\ Reach(View(pg), q, s, w, SafeViews(pg, s, isMaster, safe))
               /\ live /\ isMaster => (pg.token = pg.conn \/ Has(q, "STORAGE_ACCESS")) /\ InStep(pg, s, st, w)
  BY GoodReach
<1>6. w \in Views /\ Meets(s, w)
  BY <1>2, <1>5, ReachFacts
<1>7. SafeViews(pg, s, isMaster, safe) \subseteq HandledViews(pg, s, isMaster, safe)
  BY NoDanger DEF SafeViews, HandledViews
<1>8. \A t : Has(<<>>, t) => Has(s, t)
  BY EmptyLemma
<1>9. Reach(View(pg), q, <<>>, w, HandledViews(pg, s, isMaster, safe))
  BY <1>5, <1>7, <1>8, ReachLess
<1>10. InStep(pg, s, st, w) => w # "REJECTED"
  BY DEF InStep, AtSetup
<1> QED
  BY <1>0, <1>1, <1>2, <1>3, <1>4, <1>5, <1>6, <1>9, <1>10 DEF Handled

\* the game is not set up: the packet is ignored, or it is answered that it is not
LEMMA NotSetUpGood ==
  ASSUME NEW pg, NEW q, NEW s, NEW isMaster \in BOOLEAN, NEW live \in BOOLEAN, NEW safe, NEW st,
         Good(pg, q, s, isMaster, live, safe, st), pg.conn # None, s # <<>>,
         Head(s).type # "REGISTER_MASTER", isMaster => Head(s).type = "SETUP_GAME",
         NEW m, Kind(m) = "NOTHING", NEW q2, q2 = q \/ (live /\ q2 = q \o <<m>>)
  PROVE  Good(pg, q2, Tail(s), isMaster, live, safe, st)
<1>0. PICK w : Handled(pg, q, s, isMaster, live, safe, st, w)
  BY NonRegister
<1>1. /\ GoodPage(pg) /\ IsSeq(q) /\ Tail(s) = <<>> /\ (live => isMaster)
      /\ \A x : IsSeq(x) => GoodOut(pg, x, <<>>)
      /\ isMaster => Has(s, "SETUP_GAME")
  BY <1>0 DEF Handled
<1>2. /\ Reach(View(pg), q, <<>>, w, HandledViews(pg, s, isMaster, safe)) /\ w \in Views /\ Meets(s, w)
      /\ live => (pg.token = pg.conn \/ Has(q, "STORAGE_ACCESS")) /\ InStep(pg, s, st, w) /\ w # "REJECTED"
  BY <1>0 DEF Handled
<1> DEFINE D == HandledViews(pg, s, isMaster, safe)
<1>3. /\ IsSeq(q2) /\ Reach(View(pg), q2, <<>>, w, D)
      /\ Has(q, "STORAGE_ACCESS") => Has(q2, "STORAGE_ACCESS")
  <2>1. CASE q2 = q
    BY <2>1, <1>1, <1>2
  <2>2. CASE live /\ q2 = q \o <<m>>
    <3>1. /\ IsSeq(q2) /\ \A t : Has(q2, t) <=> Has(q, t) \/ m.type = t
          /\ Reach(View(pg), q2, <<>>, w, D)
      BY <2>2, <1>1, <1>2, ReachSilent
    <3> QED
      BY <3>1
  <2> QED
    BY <2>1, <2>2
<1>4. live => InStep(pg, <<>>, st, w)
  <2>1. ASSUME live PROVE InStep(pg, <<>>, st, w)
    <3>1. Has(s, "SETUP_GAME")
      BY <2>1, <1>1
    <3>2. w = "SETTING_UP"
      BY <3>1, <2>1, <1>2 DEF Meets
    <3> QED
      BY <3>2, <2>1, <1>2 DEF InStep
  <2> QED
    BY <2>1
<1>5. /\ \A x \in D : Danger(pg, <<>>, isMaster, x) => safe
      /\ live /\ ~isMaster => Newcomer(pg, q2, <<>>)
      /\ live /\ isMaster => (pg.token = pg.conn \/ Has(q2, "STORAGE_ACCESS")) /\ InStep(pg, <<>>, st, w)
  BY <1>1, <1>2, <1>3, <1>4 DEF HandledViews
<1>6. GoodOut(pg, q2, <<>>)
  BY <1>1, <1>3
<1>7. Good(pg, q2, <<>>, isMaster, live, safe, st)
  <2> HIDE DEF D
  <2> QED
    BY <1>1, <1>3, <1>5, <1>6, ReachGood
<1> QED
  BY <1>7, <1>1

LEMMA SetUpGood ==
  ASSUME NEW pg, NEW q, NEW s, NEW live \in BOOLEAN, NEW safe, NEW st,
         Good(pg, q, s, TRUE, live, safe, st), pg.conn # None, s # <<>>,
         Head(s).type = "SETUP_GAME",
         NEW m, Kind(m) = "SET_UP", NEW q2, q2 = (IF live THEN q \o <<m>> ELSE q), NEW safe2
  PROVE  Good(pg, q2, Tail(s), TRUE, live, safe2, "WAITING_FOR_START")
<1> DEFINE D == HandledViews(pg, s, TRUE, safe)
<1>0. PICK w : Handled(pg, q, s, TRUE, live, safe, st, w)
  BY NonRegister
<1>1. /\ GoodPage(pg) /\ IsSeq(q) /\ Tail(s) = <<>>
      /\ \A x : IsSeq(x) => GoodOut(pg, x, <<>>)
      /\ Has(s, "SETUP_GAME")
  BY <1>0 DEF Handled
<1>2. /\ Reach(View(pg), q, <<>>, w, D) /\ w \in Views /\ Meets(s, w)
      /\ live => (pg.token = pg.conn \/ Has(q, "STORAGE_ACCESS")) /\ InStep(pg, s, st, w) /\ w # "REJECTED"
  BY <1>0 DEF Handled
<1>3. \A x \in D : x \in {"SETTING_UP", "REJECTED"}
  BY <1>1 DEF Meets, HandledViews
<1>4. /\ Meets(<<>>, "READY_TO_START") /\ \A x \in D \cup {"READY_TO_START"} : ~Danger(pg, <<>>, TRUE, x)
  BY <1>3, NoDanger, EmptyLemma DEF Meets
<1>5. CASE live
  <2>1. w = "SETTING_UP"
    BY <1>5, <1>1, <1>2 DEF Meets
  <2>2. After(w, Kind(m)) = "READY_TO_START"
    BY <2>1 DEF After
  <2>3. View(pg) # "READY_TO_START"
    <3> HIDE DEF D
    <3>1. View(pg) \in InGame => w \in InGame \cup {"REJECTED"}
      <4>1. IsSeq(q) /\ Reach(View(pg), q, <<>>, w, D)
        BY <1>1, <1>2
      <4> QED
        BY ONLY <4>1, ReachFacts
    <3> QED
      BY <3>1, <2>1 DEF InGame
  <2>4. pg.state # "READY_TO_START"
    BY <2>3, <1>1, ViewLemma
  <2>5. /\ IsSeq(q2) /\ \A t : Has(q2, t) <=> Has(q, t) \/ m.type = t
        /\ Reach(View(pg), q2, <<>>, "READY_TO_START", D \cup {"READY_TO_START"})
    <3> HIDE DEF D
    <3>1. q2 = q \o <<m>>
      BY <1>5
    <3>2. /\ IsSeq(q \o <<m>>) /\ \A t : Has(q \o <<m>>, t) <=> Has(q, t) \/ m.type = t
          /\ Reach(View(pg), q \o <<m>>, <<>>, "READY_TO_START", D \cup {"READY_TO_START"})
      BY <2>1, <2>2, <1>1, <1>2, <1>4, ReachOne
    <3> QED
      BY <3>1, <3>2
  <2>6. InStep(pg, <<>>, "WAITING_FOR_START", "READY_TO_START")
    BY <2>4 DEF InStep
  <2>7. GoodOut(pg, q2, <<>>)
    BY <2>5, <1>1
  <2>8. Good(pg, q2, <<>>, TRUE, live, safe2, "WAITING_FOR_START")
    <3> HIDE DEF D
    <3> QED
      BY <1>1, <1>2, <1>4, <1>5, <2>5, <2>6, <2>7, ReachGood
  <2> QED
    BY <2>8, <1>1
<1>6. CASE ~live
  <2>1. q2 = q /\ GoodOut(pg, q2, <<>>)
    BY <1>6, <1>1
  <2>2. Good(pg, q2, <<>>, TRUE, live, safe2, "WAITING_FOR_START")
    <3> HIDE DEF D
    <3> QED
      BY <1>1, <1>2, <1>4, <1>6, <2>1, ReachGood
  <2> QED
    BY <2>2, <1>1
<1> QED
  BY <1>5, <1>6

\* the packets that follow change nothing
LEMMA StartedGood ==
  ASSUME NEW pg, NEW q, NEW s, NEW live \in BOOLEAN, NEW safe, NEW st,
         Good(pg, q, s, TRUE, live, safe, st), pg.conn # None, s # <<>>,
         Head(s).type = "START_GAME",
         NEW m, Kind(m) = "STARTED", NEW a, Kind(a) = "NOTHING", NEW b, Kind(b) = "NOTHING",
         NEW x, x = <<m>> \o <<b>> \/ x = <<m>> \o (<<a>> \o <<b>>),
         NEW q2, q2 = (IF live THEN q \o x ELSE q), NEW safe2
  PROVE  Good(pg, q2, Tail(s), TRUE, live, safe2, "PLAYING")
<1> DEFINE D == HandledViews(pg, s, TRUE, safe)
           E == D \cup {"PLAYING"}
<1>0. PICK w : Handled(pg, q, s, TRUE, live, safe, st, w)
  BY NonRegister
<1>1. /\ GoodPage(pg) /\ IsSeq(q) /\ Tail(s) = <<>>
      /\ \A y : IsSeq(y) => GoodOut(pg, y, <<>>)
      /\ Has(s, "START_GAME")
  BY <1>0 DEF Handled
<1>2. /\ Reach(View(pg), q, <<>>, w, D) /\ w \in Views /\ Meets(s, w)
      /\ live => (pg.token = pg.conn \/ Has(q, "STORAGE_ACCESS")) /\ InStep(pg, s, st, w) /\ w # "REJECTED"
  BY <1>0 DEF Handled
<1>3. \A y \in D : y \in {"READY_TO_START", "REJECTED"}
  BY <1>1 DEF Meets, HandledViews
<1>4. /\ Meets(<<>>, "PLAYING") /\ \A y \in D \cup {"PLAYING"} : ~Danger(pg, <<>>, TRUE, y)
  BY <1>3, NoDanger, EmptyLemma DEF Meets
<1>5. CASE live
  <2>1. w = "READY_TO_START"
    BY <1>5, <1>1, <1>2 DEF Meets
  <2>2. After(w, Kind(m)) = "PLAYING"
    BY <2>1 DEF After
  <2>3. View(pg) = "READY_TO_START"
    <3>1. View(pg) \in D /\ (View(pg) = "REJECTED" => w = "REJECTED")
      <4> HIDE DEF D
      <4>1. IsSeq(q) /\ Reach(View(pg), q, <<>>, w, D)
        BY <1>1, <1>2
      <4> QED
        BY ONLY <4>1, ReachFacts
    <3> QED
      BY <3>1, <1>3, <2>1
  <2> HIDE DEF D
  <2>4. /\ IsSeq(q \o <<m>>) /\ (\A t : Has(q \o <<m>>, t) <=> Has(q, t) \/ m.type = t)
        /\ Reach(View(pg), q \o <<m>>, <<>>, "PLAYING", E)
    BY <2>1, <2>2, <2>3, <1>1, <1>2, <1>4, ReachOne
  <2> HIDE DEF E
  <2>5. IsSeq(<<m>>) /\ IsSeq(<<a>>) /\ IsSeq(<<b>>)
    BY OneLemma
  <2>6. IsSeq(<<a>> \o <<b>>)
    BY <2>5, ConcatLemma
  <2>7. /\ IsSeq(q2) /\ Reach(View(pg), q2, <<>>, "PLAYING", E)
        /\ Has(q, "STORAGE_ACCESS") => Has(q2, "STORAGE_ACCESS")
    <3>1. PICK qm : qm = q \o <<m>>
      OBVIOUS
    <3>2. CASE x = <<m>> \o <<b>>
      <4>1. q2 = qm \o <<b>>
        BY <3>1, <3>2, <1>5, <1>1, <2>5, Associative
      <4>2. /\ IsSeq(qm \o <<b>>) /\ (\A t : Has(qm \o <<b>>, t) <=> Has(qm, t) \/ b.type = t)
            /\ Reach(View(pg), qm \o <<b>>, <<>>, "PLAYING", E)
        BY <3>1, <2>4, ReachSilent
      <4> QED
        BY <4>1, <4>2, <3>1, <2>4
    <3>3. CASE x = <<m>> \o (<<a>> \o <<b>>)
      <4>1. q2 = qm \o (<<a>> \o <<b>>)
        <5>1. PICK ab : ab = <<a>> \o <<b>>
          OBVIOUS
        <5>2. IsSeq(ab) /\ q2 = q \o (<<m>> \o ab)
          BY <5>1, <3>3, <1>5, <2>6
        <5>3. (q \o <<m>>) \o ab = q \o (<<m>> \o ab)
          <6>1. IsSeq(q) /\ IsSeq(<<m>>) /\ IsSeq(ab)
            BY <5>2, <1>1, <2>5
          <6> QED
            BY ONLY <6>1, Associative
        <5> QED
          BY <5>1, <5>2, <5>3, <3>1
      <4>2. /\ IsSeq(qm \o <<a>>) /\ (\A t : Has(qm \o <<a>>, t) <=> Has(qm, t) \/ a.type = t)
            /\ Reach(View(pg), qm \o <<a>>, <<>>, "PLAYING", E)
        BY <3>1, <2>4, ReachSilent
      <4>3. PICK qa : qa = qm \o <<a>>
        OBVIOUS
      <4>4. q2 = qa \o <<b>>
        BY <4>1, <4>3, <3>1, <2>4, <2>5, Associative
      <4>5. /\ IsSeq(qa \o <<b>>) /\ (\A t : Has(qa \o <<b>>, t) <=> Has(qa, t) \/ b.type = t)
            /\ Reach(View(pg), qa \o <<b>>, <<>>, "PLAYING", E)
        BY <4>2, <4>3, ReachSilent
      <4> QED
        BY <4>2, <4>3, <4>4, <4>5, <3>1, <2>4
    <3> QED
      BY <3>2, <3>3
  <2>8. InStep(pg, <<>>, "PLAYING", "PLAYING")
    BY DEF InStep
  <2>9. GoodOut(pg, q2, <<>>)
    BY <2>7, <1>1
  <2>10. \A y \in E : ~Danger(pg, <<>>, TRUE, y)
    BY <1>4 DEF E
  <2>11. Good(pg, q2, <<>>, TRUE, live, safe2, "PLAYING")
    BY <1>1, <1>2, <1>5, <2>7, <2>8, <2>9, <2>10, ReachGood
  <2> QED
    BY <2>11, <1>1
<1>6. CASE ~live
  <2>1. q2 = q /\ GoodOut(pg, q2, <<>>)
    BY <1>6, <1>1
  <2>2. Good(pg, q2, <<>>, TRUE, live, safe2, "PLAYING")
    <3> HIDE DEF D
    <3> QED
      BY <1>1, <1>2, <1>4, <1>6, <2>1, ReachGood
  <2> QED
    BY <2>2, <1>1
<1> QED
  BY <1>5, <1>6

\* the server refuses to start only a game of a page whose connection is about to close
LEMMA NotStartedGood ==
  ASSUME NEW pg, NEW q, NEW s, NEW live \in BOOLEAN, NEW safe, NEW st,
         Good(pg, q, s, TRUE, live, safe, st), pg.conn # None, s # <<>>,
         Head(s).type = "START_GAME", st # "WAITING_FOR_START",
         NEW q2, live \/ q2 = q
  PROVE  Good(pg, q2, Tail(s), TRUE, live, safe, st)
<1> DEFINE D == HandledViews(pg, s, TRUE, safe)
<1>0. PICK w : Handled(pg, q, s, TRUE, live, safe, st, w)
  BY NonRegister
<1>1. /\ GoodPage(pg) /\ IsSeq(q) /\ Tail(s) = <<>>
      /\ GoodOut(pg, q, <<>>)
      /\ Has(s, "START_GAME")
  BY <1>0 DEF Handled
<1>2. /\ Reach(View(pg), q, <<>>, w, D) /\ w \in Views /\ Meets(s, w)
      /\ live => (pg.token = pg.conn \/ Has(q, "STORAGE_ACCESS")) /\ InStep(pg, s, st, w) /\ w # "REJECTED"
  BY <1>0 DEF Handled
<1>3. ~live
  BY <1>1, <1>2 DEF Meets, InStep, AtSetup
<1>4. \A x \in D : Danger(pg, <<>>, TRUE, x) => safe
  BY DEF HandledViews
<1>5. Good(pg, q, <<>>, TRUE, live, safe, st)
  <2> HIDE DEF D
  <2> QED
    BY <1>1, <1>2, <1>3, <1>4, ReachGood
<1> QED
  BY <1>1, <1>3, <1>5

LEMMA EndedGood ==
  ASSUME NEW pg, NEW q, NEW s, NEW live \in BOOLEAN, NEW safe, NEW st,
         Good(pg, q, s, TRUE, live, safe, st), pg.conn # None, s # <<>>,
         Head(s).type = "END_GAME", NEW safe2
  PROVE  Good(pg, q, Tail(s), TRUE, live, safe2, "END")
<1> DEFINE D == HandledViews(pg, s, TRUE, safe)
<1>0. PICK w : Handled(pg, q, s, TRUE, live, safe, st, w)
  BY NonRegister
<1>1. /\ GoodPage(pg) /\ IsSeq(q) /\ Tail(s) = <<>>
      /\ GoodOut(pg, q, <<>>)
      /\ Has(s, "END_GAME")
  BY <1>0 DEF Handled
<1>2. /\ Reach(View(pg), q, <<>>, w, D) /\ w \in Views /\ Meets(s, w)
      /\ live => (pg.token = pg.conn \/ Has(q, "STORAGE_ACCESS")) /\ InStep(pg, s, st, w) /\ w # "REJECTED"
  BY <1>0 DEF Handled
<1>3. \A x \in D : x \in {"END", "REJECTED"}
  BY <1>1 DEF Meets, HandledViews
<1>4. \A x \in D : Danger(pg, <<>>, TRUE, x) => safe2
  BY <1>3, NoDanger
<1>5. live => InStep(pg, <<>>, "END", w)
  BY <1>1, <1>2 DEF Meets, InStep
<1>6. Good(pg, q, <<>>, TRUE, live, safe2, "END")
  <2> HIDE DEF D
  <2> QED
    BY <1>1, <1>2, <1>4, <1>5, ReachGood
<1> QED
  BY <1>1, <1>6

LEMMA ResetGood ==
  ASSUME NEW pg, NEW q, NEW s, NEW live \in BOOLEAN, NEW safe, NEW st,
         Good(pg, q, s, TRUE, live, safe, st), pg.conn # None, s # <<>>,
         Head(s).type = "RESET_SERVER",
         NEW m, Kind(m) = "PRESETUP", NEW a, Kind(a) = "NOTHING",
         NEW q2, q2 = (IF live THEN q \o (<<m>> \o <<a>>) ELSE q), NEW safe2, safe2
  PROVE  Good(pg, q2, Tail(s), TRUE, live, safe2, "WAITING_FOR_SETUP")
<1> DEFINE D == HandledViews(pg, s, TRUE, safe)
           E == D \cup {"RECEIVED_PRESETUP_DATA"}
<1>0. PICK w : Handled(pg, q, s, TRUE, live, safe, st, w)
  BY NonRegister
<1>1. /\ GoodPage(pg) /\ IsSeq(q) /\ Tail(s) = <<>>
      /\ \A x : IsSeq(x) => GoodOut(pg, x, <<>>)
      /\ Has(s, "RESET_SERVER")
  BY <1>0 DEF Handled
<1>2. /\ Reach(View(pg), q, <<>>, w, D) /\ w \in Views /\ Meets(s, w)
      /\ live => (pg.token = pg.conn \/ Has(q, "STORAGE_ACCESS")) /\ InStep(pg, s, st, w) /\ w # "REJECTED"
  BY <1>0 DEF Handled
<1>3. Meets(<<>>, "RECEIVED_PRESETUP_DATA")
  BY EmptyLemma DEF Meets
<1> HIDE DEF D
<1>4. CASE live
  <2>1. w \in {"RESETTING", "RECEIVED_PRESETUP_DATA"}
    BY <1>4, <1>1, <1>2 DEF Meets
  <2>2. After(w, Kind(m)) = "RECEIVED_PRESETUP_DATA" /\ w \notin InGame
    BY <2>1 DEF After, InGame
  <2>3. /\ IsSeq(q \o <<m>>) /\ (\A t : Has(q \o <<m>>, t) <=> Has(q, t) \/ m.type = t)
        /\ Reach(View(pg), q \o <<m>>, <<>>, "RECEIVED_PRESETUP_DATA", E)
    BY <2>1, <2>2, <1>1, <1>2, <1>3, ReachOne
  <2> HIDE DEF E
  <2>4. IsSeq(<<m>>) /\ IsSeq(<<a>>)
    BY OneLemma
  <2>5. PICK qm : qm = q \o <<m>>
    OBVIOUS
  <2>6. q2 = qm \o <<a>>
    BY <2>4, <2>5, <1>4, <1>1, Associative
  <2>7. /\ IsSeq(qm \o <<a>>) /\ (\A t : Has(qm \o <<a>>, t) <=> Has(qm, t) \/ a.type = t)
        /\ Reach(View(pg), qm \o <<a>>, <<>>, "RECEIVED_PRESETUP_DATA", E)
    BY <2>3, <2>5, ReachSilent
  <2>8. Has(q, "STORAGE_ACCESS") => Has(q2, "STORAGE_ACCESS")
    BY <2>3, <2>5, <2>6, <2>7
  <2>9. InStep(pg, <<>>, "WAITING_FOR_SETUP", "RECEIVED_PRESETUP_DATA")
    BY DEF InStep
  <2>10. GoodOut(pg, q2, <<>>) /\ Reach(View(pg), q2, <<>>, "RECEIVED_PRESETUP_DATA", E)
    BY <2>6, <2>7, <1>1
  <2>11. Good(pg, q2, <<>>, TRUE, live, safe2, "WAITING_FOR_SETUP")
    BY <1>1, <1>2, <1>4, <2>8, <2>9, <2>10, ReachGood
  <2> QED
    BY <2>11, <1>1
<1>5. CASE ~live
  <2>1. q2 = q /\ GoodOut(pg, q2, <<>>)
    BY <1>5, <1>1
  <2>2. Good(pg, q2, <<>>, TRUE, live, safe2, "WAITING_FOR_SETUP")
    BY <1>1, <1>2, <1>5, <2>1, ReachGood
  <2> QED
    BY <2>2, <1>1
<1> QED
  BY <1>4, <1>5
LEMMA ReachEmpty ==
  ASSUME NEW v, NEW s, NEW w, NEW D, Reach(v, <<>>, s, w, D)
  PROVE  w = v /\ v \in D /\ Reach(v, <<>>, s, v, {v})
<1>1. PICK r : RunOf(r, v, <<>>) /\ Sound(r, <<>>, s) /\ r[Len(<<>>)] = w /\ \A n \in 0 .. Len(<<>>) : r[n] \in D
  BY DEF Reach
<1>2. Len(<<>>) = 0 /\ 0 \in 0 .. 0 /\ \A n \in 0 .. 0 : n = 0
  BY EmptyLemma
<1>3. r[0] = v
  BY <1>1 DEF RunOf
<1>4. w = v /\ v \in D /\ r[Len(<<>>)] = v /\ \A n \in 0 .. Len(<<>>) : r[n] \in {v}
  BY <1>1, <1>2, <1>3
<1> QED
  BY <1>1, <1>4 DEF Reach

LEMMA ClosedGood ==
  ASSUME NEW pg, NEW q, NEW s, NEW isMaster, NEW live, NEW safe, NEW st,
         Good(pg, q, s, isMaster, live, safe, st), pg.conn # None
  PROVE  Good(pg, q, <<>>, FALSE, FALSE, safe, st)
<1>1. GoodPage(pg) /\ IsSeq(q)
  BY DEF Good, GoodOut
<1>2. GoodOut(pg, q, <<>>)
  BY <1>1, NothingOut
<1>3. PICK w : Reach(View(pg), q, s, w, SafeViews(pg, s, isMaster, safe))
  BY GoodReach
<1>4. \A t : Has(<<>>, t) => Has(s, t)
  BY EmptyLemma
<1>5. Reach(View(pg), q, <<>>, w, SafeViews(pg, s, isMaster, safe))
  BY <1>3, <1>4, ReachLess
<1>6. ASSUME NEW x \in SafeViews(pg, s, isMaster, safe), Danger(pg, <<>>, FALSE, x) PROVE safe
  <2>1. x \in {"MASTER_ACCEPTED", "RECEIVED_PRESETUP_DATA"}
    BY <1>6, NoDanger
  <2>2. Danger(pg, s, isMaster, x)
    BY <1>6, <2>1 DEF Danger
  <2> QED
    BY <1>6, <2>2 DEF SafeViews
<1> QED
  BY <1>1, <1>2, <1>5, <1>6, ReachGood

LEMMA RefusedGood ==
  ASSUME NEW pg, NEW q, NEW s, NEW live \in BOOLEAN, NEW safe, NEW st,
         Good(pg, q, s, FALSE, live, safe, st), pg.conn # None, s # <<>>, Head(s).type = "REGISTER_MASTER",
         NEW m, Kind(m) = "REFUSED", NEW q2, q2 = (IF live THEN q \o <<m>> ELSE q)
  PROVE  Good(pg, q2, <<>>, FALSE, FALSE, safe, st)
<1>1. CASE ~live
  <2>1. q2 = q
    BY <1>1
  <2> QED
    BY <2>1, ClosedGood
<1>2. CASE live
  <2>1. GoodPage(pg) /\ Newcomer(pg, q, s)
    BY <1>2 DEF Good
  <2>2. /\ q = <<>> /\ View(pg) \in Early \cup {"REJECTED"}
        /\ View(pg) # "REJECTED"
    BY <2>1 DEF Newcomer
  <2>3. PICK v : v = View(pg)
    OBVIOUS
  <2>4. v \in Early /\ v # "REJECTED"
    BY <2>2, <2>3
  <2>5. Good(pg, <<>>, <<>>, FALSE, FALSE, safe, st)
    BY <2>2, ClosedGood
  <2>6. PICK w : Reach(View(pg), <<>>, <<>>, w, SafeViews(pg, <<>>, FALSE, safe))
    BY <2>5, GoodReach
  <2>7. Reach(v, <<>>, <<>>, v, {v}) /\ v \in SafeViews(pg, <<>>, FALSE, safe)
    BY <2>3, <2>6, ReachEmpty
  <2>8. After(v, Kind(m)) = "REJECTED" /\ Meets(<<>>, "REJECTED")
    BY <2>4 DEF After, Meets
  <2>9. IsSeq(<<>>)
    BY EmptyLemma
  <2>10. IsSeq(<<>> \o <<m>>) /\ Reach(v, <<>> \o <<m>>, <<>>, "REJECTED", {v} \cup {"REJECTED"})
    BY <2>4, <2>7, <2>8, <2>9, ReachOne
  <2>11. q2 = <<>> \o <<m>>
    BY <1>2, <2>2
  <2>12. GoodOut(pg, q2, <<>>)
    BY <2>10, <2>11, NothingOut
  <2>13. \A x \in {v} \cup {"REJECTED"} : Danger(pg, <<>>, FALSE, x) => safe
    BY <2>7, NoDanger DEF SafeViews
  <2> QED
    BY <2>1, <2>3, <2>10, <2>11, <2>12, <2>13, ReachGood
<1> QED
  BY <1>1, <1>2

LEMMA TakenOverGood ==
  ASSUME NEW pg, NEW q, NEW s, NEW live \in BOOLEAN, NEW safe, NEW st,
         Good(pg, q, s, TRUE, live, safe, st), pg.conn # None,
         NEW m, Kind(m) = "TAKEN_OVER", NEW q2, q2 = (IF live THEN q \o <<m>> ELSE q),
         NEW safe2, safe2, NEW st2
  PROVE  Good(pg, q2, s, FALSE, FALSE, safe2, st2)
<1>1. GoodPage(pg) /\ GoodOut(pg, q, s)
  BY DEF Good
<1>2. IsSeq(q)
  BY <1>1 DEF GoodOut
<1>3. PICK w : /\ Reach(View(pg), q, s, w, SafeViews(pg, s, TRUE, safe))
               /\ live => InStep(pg, s, st, w)
  BY GoodReach
<1>4. CASE ~live
  <2>1. q2 = q
    BY <1>4
  <2> QED
    BY <1>1, <1>3, <2>1, ReachGood
<1>5. CASE live
  <2>1. w # "REJECTED" /\ w # "STARTING"
    BY <1>3, <1>5 DEF InStep, AtSetup
  <2>2. After(w, Kind(m)) = "REJECTED" /\ Meets(s, "REJECTED")
    BY DEF After, Meets
  <2>3. /\ IsSeq(q \o <<m>>)
        /\ Reach(View(pg), q \o <<m>>, s, "REJECTED", SafeViews(pg, s, TRUE, safe) \cup {"REJECTED"})
    BY <1>2, <1>3, <2>1, <2>2, ReachOne
  <2>4. IsSeq(q2) /\ Reach(View(pg), q2, s, "REJECTED", SafeViews(pg, s, TRUE, safe) \cup {"REJECTED"})
    BY <1>5, <2>3
  <2>5. ~(q = <<>> /\ pg.state = "STARTING")
    <3>1. ASSUME q = <<>> PROVE w = View(pg)
      <4>1. Reach(View(pg), <<>>, s, w, SafeViews(pg, s, TRUE, safe))
        BY <1>3, <3>1
      <4> QED
        BY <4>1, ReachEmpty
    <3>2. pg.state = "STARTING" => View(pg) = "STARTING"
      BY <1>1, ViewLemma
    <3> QED
      BY <3>1, <3>2, <2>1
  <2>6. GoodOut(pg, q2, s)
    BY <1>1, <2>4, <2>5 DEF GoodOut
  <2> QED
    BY <1>1, <2>4, <2>6, ReachGood
<1> QED
  BY <1>4, <1>5

LEMMA RegisterAgainGood ==
  ASSUME NEW pg, NEW q, NEW s, NEW live \in BOOLEAN, NEW safe, NEW st,
         Good(pg, q, s, TRUE, live, safe, st), pg.conn # None, s # <<>>, Head(s).type = "REGISTER_MASTER",
         NEW m, Kind(m) = "REGISTERED", NEW a, Kind(a) = "PRESETUP",
         NEW x, x = (IF st = "WAITING_FOR_SETUP" THEN <<m>> \o <<a>> ELSE <<m>>),
         NEW q2, q2 = (IF live THEN q \o x ELSE q), st = "WAITING_FOR_SETUP" => safe
  PROVE  Good(pg, q2, Tail(s), TRUE, live, safe, st)
<1> DEFINE D == SafeViews(pg, s, TRUE, safe)
<1>1. GoodPage(pg) /\ GoodOut(pg, q, s)
  BY DEF Good
<1>2. IsSeq(q)
  BY <1>1 DEF GoodOut
<1>3. PICK w : /\ Reach(View(pg), q, s, w, D)
               /\ live => (pg.token = pg.conn \/ Has(q, "STORAGE_ACCESS")) /\ InStep(pg, s, st, w)
  BY GoodReach
<1> HIDE DEF D
<1>4. /\ w \in Views /\ w \in D /\ Meets(s, w)
      /\ w = "PLAYING" => View(pg) \in {"READY_TO_START", "PLAYING"}
  BY <1>2, <1>3, ReachFacts
<1>5. PICK s2 : s2 = Tail(s)
  OBVIOUS
<1>6. /\ \A t : Has(s2, t) => Has(s, t)
      /\ \A t : Has(s, t) /\ t # "REGISTER_MASTER" => Has(s2, t)
      /\ \A q3 : IsSeq(q3) => GoodOut(pg, q3, s2)
  BY <1>1, <1>5, HeadLemma
<1>7. ASSUME NEW y, InStep(pg, s, st, y) PROVE InStep(pg, s2, st, y)
  <2>1. /\ Has(s, "RESET_SERVER") => Has(s2, "RESET_SERVER")
        /\ Has(s, "START_GAME") => Has(s2, "START_GAME")
        /\ Has(s, "END_GAME") => Has(s2, "END_GAME")
    BY <1>6
  <2> QED
    BY <1>7, <2>1 DEF InStep
<1>8. \A y \in D : Danger(pg, s2, TRUE, y) => safe
  <2>1. \A y : Danger(pg, s2, TRUE, y) => Danger(pg, s, TRUE, y)
    BY DEF Danger
  <2> QED
    BY <2>1 DEF D, SafeViews
<1>9. CASE ~live
  <2>1. q2 = q /\ GoodOut(pg, q, s2)
    BY <1>9, <1>2, <1>6
  <2>2. Reach(View(pg), q, s2, w, D)
    BY <1>3, <1>6, ReachLess
  <2>3. Good(pg, q, s2, TRUE, live, safe, st)
    BY <1>1, <1>8, <1>9, <2>1, <2>2, ReachGood
  <2> QED
    BY <2>1, <2>3, <1>5
<1>10. CASE live
  <2>1. w # "REJECTED" /\ w # "STARTING" /\ InStep(pg, s, st, w)
    BY <1>3, <1>10 DEF InStep, AtSetup
  <2>2. After(w, Kind(m)) = w
    BY <2>1 DEF After
  <2>3. PICK q1 : q1 = q \o <<m>>
    OBVIOUS
  <2>4. IsSeq(q1) /\ (\A t : Has(q1, t) <=> Has(q, t) \/ m.type = t) /\ Reach(View(pg), q1, s, w, D)
    <3>1. /\ IsSeq(q \o <<m>>) /\ (\A t : Has(q \o <<m>>, t) <=> Has(q, t) \/ m.type = t)
          /\ Reach(View(pg), q \o <<m>>, s, w, D \cup {w})
      BY <1>2, <1>3, <1>4, <2>1, <2>2, ReachOne
    <3>2. D \cup {w} = D
      BY <1>4
    <3> QED
      BY <2>3, <3>1, <3>2
  <2>5. CASE st # "WAITING_FOR_SETUP"
    <3>1. q2 = q1 /\ GoodOut(pg, q1, s2)
      BY <2>3, <2>4, <2>5, <1>6, <1>10
    <3>2. Reach(View(pg), q1, s2, w, D)
      BY <2>4, <1>6, ReachLess
    <3>3. Has(q, "STORAGE_ACCESS") => Has(q1, "STORAGE_ACCESS")
      BY <2>4
    <3>4. Good(pg, q1, s2, TRUE, live, safe, st)
      BY <1>1, <1>3, <1>7, <1>8, <1>10, <2>1, <3>1, <3>2, <3>3, ReachGood
    <3> QED
      BY <3>1, <3>4, <1>5
  <2>6. CASE st = "WAITING_FOR_SETUP"
    <3>1. w \notin InGame
      BY <2>1, <2>6 DEF InStep, InGame, AtSetup
    <3>2. PICK w2 : w2 = After(w, Kind(a))
      OBVIOUS
    <3>3. w2 = (IF w \in {"MASTER_ACCEPTED", "RESETTING"} THEN "RECEIVED_PRESETUP_DATA" ELSE w)
      BY <3>2 DEF After
    <3>4. Meets(s, w2) /\ w2 # "PLAYING"
      BY <3>1, <3>3, <1>4 DEF Meets, InGame
    <3>5. InStep(pg, s, st, w2)
      BY <3>3, <2>1, <2>6 DEF InStep, AtSetup
    <3>6. /\ IsSeq(q1 \o <<a>>) /\ (\A t : Has(q1 \o <<a>>, t) <=> Has(q1, t) \/ a.type = t)
          /\ Reach(View(pg), q1 \o <<a>>, s, w2, D \cup {w2})
      <4>1. /\ IsSeq(q1) /\ Reach(View(pg), q1, s, w, D) /\ w # "REJECTED"
            /\ w2 = After(w, Kind(a)) /\ Meets(s, w2) /\ w2 # "PLAYING"
            /\ Kind(a) = "PRESETUP" /\ w \notin InGame
        BY <2>1, <2>4, <3>1, <3>2, <3>4
      <4> QED
        BY ONLY <4>1, ReachOne
    <3>7. q2 = q1 \o <<a>>
      <4>1. IsSeq(q) /\ IsSeq(<<m>>) /\ IsSeq(<<a>>)
        BY <1>2, OneLemma
      <4>2. (q \o <<m>>) \o <<a>> = q \o (<<m>> \o <<a>>)
        BY ONLY <4>1, Associative
      <4> QED
        BY <4>2, <2>3, <2>6, <1>10
    <3>8. GoodOut(pg, q2, s2) /\ (Has(q, "STORAGE_ACCESS") => Has(q2, "STORAGE_ACCESS"))
      BY <3>6, <3>7, <2>4, <1>6
    <3>9. Reach(View(pg), q2, s2, w2, D \cup {w2})
      BY <3>6, <3>7, <1>6, ReachLess
    <3>10. InStep(pg, s2, st, w2)
      BY <3>5, <1>7
    <3>11. Good(pg, q2, s2, TRUE, live, safe, st)
      BY <1>1, <1>3, <1>10, <2>6, <3>8, <3>9, <3>10, ReachGood
    <3> QED
      BY <3>11, <1>5
  <2> QED
    BY <2>5, <2>6
<1> QED
  BY <1>9, <1>10

\* a page whose device may have its game running gets a setup only by taking over
MayTake(s, safe, st2) == Head(s).takeOver \/ (safe => st2 = "WAITING_FOR_SETUP")

\* the page's device gets the seat: a game that was not its own only if its user took over
LEMMA TakesSeatGood ==
  ASSUME NEW pg, NEW q, NEW s, NEW live \in BOOLEAN, NEW safe, NEW st,
         Good(pg, q, s, FALSE, live, safe, st), pg.conn # None, s # <<>>, Head(s).type = "REGISTER_MASTER",
         NEW st2 \in {"WAITING_FOR_SETUP", "WAITING_FOR_START"},
         NEW safe2, st2 = "WAITING_FOR_SETUP" => safe2,
         MayTake(s, safe, st2),
         NEW k, k.type = "STORAGE_ACCESS", NEW m, Kind(m) = "REGISTERED", NEW a, Kind(a) = "PRESETUP",
         NEW n, Kind(n) = "NEW_MASTER",
         NEW x, x = (IF st2 = "WAITING_FOR_SETUP" THEN <<k>> \o (<<m>> \o <<a>>) ELSE <<k>> \o <<n>>),
         NEW q2, q2 = (IF live THEN q \o x ELSE q)
  PROVE  Good(pg, q2, Tail(s), TRUE, live, safe2, st2)
<1>1. GoodPage(pg) /\ GoodOut(pg, q, s)
  BY DEF Good
<1>2. IsSeq(q)
  BY <1>1 DEF GoodOut
<1>3. PICK w : Reach(View(pg), q, s, w, SafeViews(pg, s, FALSE, safe))
  BY GoodReach
<1>4. PICK s2, v : s2 = Tail(s) /\ v = View(pg)
  OBVIOUS
<1>5. /\ \A t : Has(s2, t) => Has(s, t)
      /\ \A t : Has(s, t) /\ t # "REGISTER_MASTER" => Has(s2, t)
      /\ \A q3 : IsSeq(q3) => GoodOut(pg, q3, s2)
      /\ Has(s, "REGISTER_MASTER")
      /\ Head(s).takeOver => q = <<>> /\ pg.state = "STARTING"
  BY <1>1, <1>4, HeadLemma
<1>6. pg.state = "STARTING" => v = "STARTING"
  BY <1>1, <1>4, ViewLemma
<1>7. ASSUME NEW y, Danger(pg, s2, TRUE, y)
      PROVE  y \in {"MASTER_ACCEPTED", "RECEIVED_PRESETUP_DATA"} /\ Danger(pg, s, FALSE, y)
  BY <1>7 DEF Danger
<1>8. CASE ~live
  <2>1. q2 = q /\ GoodOut(pg, q, s2)
    BY <1>2, <1>5, <1>8
  <2>2. CASE Head(s).takeOver
    <3>1. q = <<>> /\ v = "STARTING"
      BY <2>2, <1>5, <1>6
    <3>2. Reach(v, <<>>, s, w, SafeViews(pg, s, FALSE, safe))
      BY <3>1, <1>3, <1>4
    <3>3. Reach(v, <<>>, s, v, {v})
      BY <3>2, ReachEmpty
    <3>4. Reach(View(pg), q, s2, v, {v})
      BY <3>1, <3>3, <1>4, <1>5, ReachLess
    <3>5. \A y \in {v} : Danger(pg, s2, TRUE, y) => safe2
      BY <3>1, <1>7
    <3>6. Good(pg, q, s2, TRUE, live, safe2, st2)
      BY <1>1, <1>8, <2>1, <3>4, <3>5, ReachGood
    <3> QED
      BY <2>1, <3>6, <1>4
  <2>3. CASE ~Head(s).takeOver
    <3>1. Reach(View(pg), q, s2, w, SafeViews(pg, s, FALSE, safe))
      BY <1>3, <1>5, ReachLess
    <3>2. safe => safe2
      BY <2>3 DEF MayTake
    <3>3. \A y \in SafeViews(pg, s, FALSE, safe) : Danger(pg, s2, TRUE, y) => safe2
      BY <3>2, <1>7 DEF SafeViews
    <3>4. Good(pg, q, s2, TRUE, live, safe2, st2)
      BY <1>1, <1>8, <2>1, <3>1, <3>3, ReachGood
    <3> QED
      BY <2>1, <3>4, <1>4
  <2> QED
    BY <2>2, <2>3
<1>9. CASE live
  <2>1. /\ q = <<>> /\ v \in Early
        /\ Has(s, "RESET_SERVER") => v = "RESETTING"
    BY <1>1, <1>4, <1>9 DEF Good, Newcomer
  <2>2. Reach(v, <<>>, s, w, SafeViews(pg, s, FALSE, safe))
    BY <2>1, <1>3, <1>4
  <2>3. Reach(v, <<>>, s, v, {v}) /\ v \in SafeViews(pg, s, FALSE, safe)
    BY <2>2, ReachEmpty
  <2>4. v \in Views /\ Meets(s, v) /\ (Danger(pg, s, FALSE, v) => safe) /\ v # "REJECTED"
    BY <2>1, <2>3 DEF SafeViews, Early, AtSetup
  <2>5. Kind(k) = "NOTHING" /\ IsSeq(<<>>)
    BY EmptyLemma DEF Kind
  <2>6. PICK q1 : q1 = <<>> \o <<k>>
    OBVIOUS
  <2>7. /\ IsSeq(q1) /\ (\A t : Has(q1, t) <=> Has(<<>>, t) \/ k.type = t)
        /\ Reach(v, q1, s, v, {v})
    BY <2>3, <2>4, <2>5, <2>6, ReachSilent
  <2>8. Has(q1, "STORAGE_ACCESS")
    BY <2>7
  <2>9. IsSeq(<<k>>) /\ IsSeq(<<m>>) /\ IsSeq(<<a>>) /\ IsSeq(<<n>>)
    BY OneLemma
  <2>10. q1 = <<k>>
    BY <2>6, <2>9, ConcatEmpty
  <2>11. q2 = x
    <3>1. PICK y : y = x
      OBVIOUS
    <3>2. IsSeq(y)
      <4>1. IsSeq(<<m>> \o <<a>>)
        BY <2>9, ConcatLemma
      <4>2. IsSeq(<<k>> \o (<<m>> \o <<a>>))
        BY <2>9, <4>1, ConcatLemma
      <4>3. IsSeq(<<k>> \o <<n>>)
        BY <2>9, ConcatLemma
      <4> QED
        BY <3>1, <4>2, <4>3
    <3>3. <<>> \o y = y
      BY <3>2, ConcatEmpty
    <3> QED
      BY <3>1, <3>3, <2>1, <1>9
  <2>12. CASE st2 = "WAITING_FOR_SETUP"
    <3>1. PICK v1, v2 : v1 = After(v, Kind(m)) /\ v2 = After(v1, Kind(a))
      OBVIOUS
    <3>2. v1 = (IF v = "STARTING" THEN "MASTER_ACCEPTED" ELSE v)
      BY <3>1 DEF After
    <3>3. v2 = (IF v1 \in {"MASTER_ACCEPTED", "RESETTING"} THEN "RECEIVED_PRESETUP_DATA" ELSE v1)
      BY <3>1 DEF After
    <3>4. /\ Meets(s, v1) /\ v1 \notin {"PLAYING", "REJECTED"} /\ v1 \notin InGame
          /\ Meets(s, v2) /\ v2 # "PLAYING" /\ v2 \in {"RECEIVED_PRESETUP_DATA", "SETTING_UP"}
      BY <3>2, <3>3, <2>1, <2>4 DEF Meets, Early, AtSetup, InGame
    <3>5. PICK q3 : q3 = q1 \o <<m>>
      OBVIOUS
    <3>6. /\ IsSeq(q3) /\ (\A t : Has(q3, t) <=> Has(q1, t) \/ m.type = t)
          /\ Reach(v, q3, s, v1, {v} \cup {v1})
      <4>1. /\ IsSeq(q1) /\ Reach(v, q1, s, v, {v}) /\ v # "REJECTED"
            /\ v1 = After(v, Kind(m)) /\ Meets(s, v1) /\ v1 # "PLAYING" /\ Kind(m) = "REGISTERED"
        BY <2>4, <2>7, <3>1, <3>4
      <4>2. /\ IsSeq(q1 \o <<m>>) /\ (\A t : Has(q1 \o <<m>>, t) <=> Has(q1, t) \/ m.type = t)
            /\ Reach(v, q1 \o <<m>>, s, v1, {v} \cup {v1})
        BY ONLY <4>1, ReachOne
      <4> QED
        BY <4>2, <3>5
    <3>7. /\ IsSeq(q3 \o <<a>>) /\ (\A t : Has(q3 \o <<a>>, t) <=> Has(q3, t) \/ a.type = t)
          /\ Reach(v, q3 \o <<a>>, s, v2, ({v} \cup {v1}) \cup {v2})
      <4>1. /\ IsSeq(q3) /\ Reach(v, q3, s, v1, {v} \cup {v1}) /\ v1 # "REJECTED"
            /\ v2 = After(v1, Kind(a)) /\ Meets(s, v2) /\ v2 # "PLAYING"
            /\ Kind(a) = "PRESETUP" /\ v1 \notin InGame
        BY <3>1, <3>4, <3>6
      <4> QED
        BY ONLY <4>1, ReachOne
    <3>8. q2 = q3 \o <<a>>
      <4>1. (<<k>> \o <<m>>) \o <<a>> = <<k>> \o (<<m>> \o <<a>>)
        BY ONLY <2>9, Associative
      <4> QED
        BY <4>1, <3>5, <2>10, <2>11, <2>12
    <3>9. GoodOut(pg, q2, s2) /\ Has(q2, "STORAGE_ACCESS")
      BY <3>6, <3>7, <3>8, <2>8, <1>5
    <3>10. Reach(View(pg), q2, s2, v2, ({v} \cup {v1}) \cup {v2})
      BY <3>7, <3>8, <1>4, <1>5, ReachLess
    <3>11. InStep(pg, s2, st2, v2)
      BY <3>4, <2>12 DEF InStep
    <3>12. Good(pg, q2, s2, TRUE, live, safe2, st2)
      BY <1>1, <1>9, <2>12, <3>9, <3>10, <3>11, ReachGood
    <3> QED
      BY <3>12, <1>4
  <2>13. CASE st2 = "WAITING_FOR_START"
    <3>1. PICK w2 : w2 = After(v, Kind(n))
      OBVIOUS
    <3>2. w2 = (IF v = "STARTING" THEN "READY_TO_START" ELSE v)
      BY <3>1 DEF After
    <3>3. Meets(s, w2) /\ w2 # "PLAYING"
      BY <3>2, <2>1, <2>4 DEF Meets, Early, AtSetup
    <3>4. q2 = q1 \o <<n>>
      BY <2>10, <2>11, <2>13
    <3>5. /\ IsSeq(q2) /\ (\A t : Has(q2, t) <=> Has(q1, t) \/ n.type = t)
          /\ Reach(v, q2, s, w2, {v} \cup {w2})
      <4>1. /\ IsSeq(q1) /\ Reach(v, q1, s, v, {v}) /\ v # "REJECTED"
            /\ w2 = After(v, Kind(n)) /\ Meets(s, w2) /\ w2 # "PLAYING" /\ Kind(n) = "NEW_MASTER"
        BY <2>4, <2>7, <3>1, <3>3
      <4>2. /\ IsSeq(q1 \o <<n>>) /\ (\A t : Has(q1 \o <<n>>, t) <=> Has(q1, t) \/ n.type = t)
            /\ Reach(v, q1 \o <<n>>, s, w2, {v} \cup {w2})
        BY ONLY <4>1, ReachOne
      <4> QED
        BY <4>2, <3>4
    <3>6. GoodOut(pg, q2, s2) /\ Has(q2, "STORAGE_ACCESS")
      BY <3>5, <2>8, <1>5
    <3>7. Reach(View(pg), q2, s2, w2, {v} \cup {w2})
      BY <3>5, <1>4, <1>5, ReachLess
    <3>8. pg.state # "READY_TO_START"
      <4>1. pg.state = "READY_TO_START" => v = "READY_TO_START"
        BY <1>1, <1>4, ViewLemma
      <4> QED
        BY <4>1, <2>1 DEF Early, AtSetup
    <3>9. ASSUME v # "STARTING"
          PROVE  v \in AtSetup /\ w2 = v /\ (pg.interrupted \/ Has(s2, "RESET_SERVER"))
      <4>1. v \in AtSetup /\ w2 = v
        BY <3>2, <3>9, <2>1 DEF Early
      <4>2. ~safe
        BY <2>13, <3>9, <1>5, <1>6 DEF MayTake
      <4>3. ~Danger(pg, s, FALSE, v)
        BY <4>2, <2>4
      <4>4. pg.interrupted \/ Has(s, "RESET_SERVER")
        BY <4>1, <4>3, <1>5 DEF Danger
      <4> QED
        BY <4>1, <4>4, <1>5
    <3>10. InStep(pg, s2, st2, w2)
      <4>1. CASE v = "STARTING"
        BY <4>1, <3>2, <3>8, <2>13 DEF InStep
      <4>2. CASE v # "STARTING"
        <5>1. Has(s2, "RESET_SERVER") => v = "RESETTING"
          BY <2>1, <1>5
        <5> QED
          BY <4>2, <3>9, <5>1 DEF InStep
      <4> QED
        BY <4>1, <4>2
    <3>11. \A y \in {v} \cup {w2} : ~Danger(pg, s2, TRUE, y)
      <4>1. CASE v = "STARTING"
        BY <4>1, <3>2, <1>7
      <4>2. CASE v # "STARTING"
        <5>1. Has(s2, "RESET_SERVER") => v = "RESETTING"
          BY <2>1, <1>5
        <5>2. ~Danger(pg, s2, TRUE, v)
          BY <4>2, <3>9, <5>1 DEF Danger
        <5> QED
          BY <4>2, <3>9, <5>2
      <4> QED
        BY <4>1, <4>2
    <3>12. Good(pg, q2, s2, TRUE, live, safe2, st2)
      BY <1>1, <1>9, <3>6, <3>7, <3>10, <3>11, ReachGood
    <3> QED
      BY <3>12, <1>4
  <2> QED
    BY <2>12, <2>13
<1> QED
  BY <1>8, <1>9
----------------------------------------------------------------------------
(* The invariant of the system: each page is good with what is on its way, and the server's seat   *)
(* is (SeatInv); nothing is on its way from a page that is gone or over a connection that is.       *)

InBox(p)    == IF page[p].conn = None THEN <<>> ELSE toPage[page[p].conn]
OutBox(p)   == IF page[p].conn = None THEN waiting[p] ELSE toServer[page[p].conn]
IsMaster(p) == page[p].conn # None /\ page[p].conn = master
Live(p)     == page[p].conn # None /\ page[p].conn \in open \ (broken \cup dropped)
NoGame      == state \in {"WAITING_FOR_MASTER", "WAITING_FOR_SETUP"}
Safe(p)     == (\E c \in ConnsOf[p] : lastMasterId = DeviceOf[c]) => NoGame

PageOK(p) == Good(page[p], InBox(p), OutBox(p), IsMaster(p), Live(p), Safe(p), state)

LinksInv ==
  /\ DOMAIN page = Page /\ DOMAIN waiting = Page /\ DOMAIN toServer = MasterConn /\ DOMAIN toPage = MasterConn
  /\ \A p \in Page : page[p].conn \in ConnsOf[p] \cup {None} /\ (page[p].conn # None => waiting[p] = <<>>)
  /\ broken \subseteq open /\ dropped \subseteq open
  /\ \A c \in MasterConn : c \notin open \/ c \in broken \/ PageIsGone(c) => toServer[c] = <<>>
  /\ master # None => lastMasterId = DeviceOf[master]

PagesInv == SeatInv /\ LinksInv /\ \A p \in Page : PageOK(p)

LEMMA NoneLemma == None \notin MasterConn /\ \A p \in Page : ConnsOf[p] \subseteq MasterConn
  BY ConnAssumption, PageAssumption DEF Conn

\* a connection is one page's
LEMMA ApartLemma ==
  ASSUME LinksInv, NEW p \in Page, NEW o \in Page, o # p, page[p].conn # None
  PROVE  page[o].conn # page[p].conn /\ page[p].conn \notin ConnsOf[o]
<1>1. page[p].conn \in ConnsOf[p] /\ page[o].conn \in ConnsOf[o] \cup {None}
  BY DEF LinksInv
<1>2. page[p].conn \notin ConnsOf[o]
  BY <1>1, PageAssumption
<1> QED
  BY <1>1, <1>2

LEMMA ConnLemma ==
  ASSUME LinksInv, NEW p \in Page, page[p].conn # None
  PROVE  /\ page[p].conn \in MasterConn /\ waiting[p] = <<>>
         /\ InBox(p) = toPage[page[p].conn] /\ OutBox(p) = toServer[page[p].conn]
  BY NoneLemma DEF LinksInv, InBox, OutBox

LEMMA UntouchedOK ==
  ASSUME NEW p \in Page, PageOK(p), page'[p] = page[p], InBox(p)' = InBox(p), OutBox(p)' = OutBox(p),
         IsMaster(p)' = IsMaster(p), Live(p)' = Live(p), Safe(p) => Safe(p)', IsMaster(p) => state' = state
  PROVE  PageOK(p)'
<1>1. PICK pg, q, s, isMaster, live, safe, st :
        /\ pg = page[p] /\ q = InBox(p) /\ s = OutBox(p) /\ isMaster = IsMaster(p) /\ live = Live(p)
        /\ safe = Safe(p) /\ st = state
  OBVIOUS
<1>2. PICK safe2, st2 : safe2 = Safe(p)' /\ st2 = state'
  OBVIOUS
<1>3. Good(pg, q, s, isMaster, live, safe, st)
  BY <1>1 DEF PageOK
<1>4. (safe => safe2) /\ (isMaster => st2 = st)
  BY <1>1, <1>2
<1>5. Good(pg, q, s, isMaster, live, safe2, st2)
  BY ONLY <1>3, <1>4, KeepGood
<1> QED
  BY <1>1, <1>2, <1>5 DEF PageOK

\* what a page that keeps its connection sends
LEMMA SendLemma ==
  ASSUME LinksInv, NEW p \in Page, page'[p].conn = page[p].conn, NEW packets, Send(p, packets)
  PROVE  /\ \/ OutBox(p)' = OutBox(p) \o packets
            \/ page[p].conn # None /\ ~Live(p) /\ OutBox(p)' = OutBox(p)
         /\ DOMAIN waiting' = Page /\ DOMAIN toServer' = MasterConn
         /\ page[p].conn # None => waiting'[p] = <<>>
         /\ \A o \in Page : o # p => waiting'[o] = waiting[o]
         /\ \A c \in MasterConn : c # page[p].conn \/ c \notin open \/ c \in broken => toServer'[c] = toServer[c]
<1>1. CASE page[p].conn = None
  <2>1. waiting' = [waiting EXCEPT ![p] = waiting[p] \o packets] /\ toServer' = toServer
    BY <1>1 DEF Send
  <2> QED
    BY <1>1, <2>1 DEF LinksInv, OutBox
<1>2. CASE page[p].conn # None
  <2>1. PICK c : c = page[p].conn
    OBVIOUS
  <2>2. c \in MasterConn /\ waiting[p] = <<>> /\ OutBox(p) = toServer[c] /\ waiting' = waiting
    BY <1>2, <2>1, ConnLemma DEF Send
  <2>3. OutBox(p)' = toServer'[c]
    BY <1>2, <2>1 DEF OutBox
  <2>4. CASE c \in open \ broken
    <3>1. toServer' = [toServer EXCEPT ![c] = toServer[c] \o packets]
      BY <1>2, <2>1, <2>4 DEF Send
    <3> QED
      BY <2>1, <2>2, <2>3, <2>4, <3>1 DEF LinksInv
  <2>5. CASE c \notin open \ broken
    <3>1. toServer' = toServer /\ ~Live(p)
      BY <1>2, <2>1, <2>5 DEF Send, Live
    <3> QED
      BY <1>2, <2>1, <2>2, <2>3, <3>1 DEF LinksInv
  <2> QED
    BY <2>4, <2>5
<1> QED
  BY <1>1, <1>2

LEMMA StepsAlone ==
  ASSUME PagesInv, NEW p \in Page, NEW pg2, pg2.conn = page[p].conn, page' = [page EXCEPT ![p] = pg2],
         NEW packets, Send(p, packets), UNCHANGED <<vars, broken, dropped>>,
         \/ toPage' = toPage
         \/ page[p].conn # None /\ toPage' = [toPage EXCEPT ![page[p].conn] = Tail(@)],
         \A s2 : s2 = OutBox(p) \o packets \/ (page[p].conn # None /\ ~Live(p) /\ s2 = OutBox(p)) =>
                   Good(pg2, InBox(p)', s2, IsMaster(p), Live(p), Safe(p), state)
  PROVE  LinksInv' /\ \A o \in Page : PageOK(o)'
<1>1. LinksInv
  BY DEF PagesInv
<1>2. page'[p] = pg2 /\ (\A o \in Page : o # p => page'[o] = page[o]) /\ DOMAIN page' = Page
  BY <1>1 DEF LinksInv
<1>3. \A o \in Page : page'[o].conn = page[o].conn
  BY <1>2
<1>4. /\ \/ OutBox(p)' = OutBox(p) \o packets
         \/ page[p].conn # None /\ ~Live(p) /\ OutBox(p)' = OutBox(p)
      /\ DOMAIN waiting' = Page /\ DOMAIN toServer' = MasterConn
      /\ page[p].conn # None => waiting'[p] = <<>>
      /\ \A o \in Page : o # p => waiting'[o] = waiting[o]
      /\ \A c \in MasterConn : c # page[p].conn \/ c \notin open \/ c \in broken => toServer'[c] = toServer[c]
  BY <1>1, <1>3, SendLemma
<1>5. UNCHANGED <<master, state, open, broken, dropped, lastMasterId>>
  BY DEF vars, seat, automaton
<1>6. DOMAIN toPage' = MasterConn /\ \A c \in MasterConn : c # page[p].conn => toPage'[c] = toPage[c]
  BY <1>1 DEF LinksInv
<1>7. ASSUME NEW c \in MasterConn PROVE PageIsGone(c)' => PageIsGone(c)
  BY <1>3 DEF PageIsGone
<1>8. LinksInv'
  <2>1. ASSUME NEW c \in MasterConn, (c \notin open \/ c \in broken \/ PageIsGone(c))'
        PROVE  toServer'[c] = <<>>
    <3>1. c \notin open \/ c \in broken \/ PageIsGone(c)
      BY <2>1, <1>5, <1>7
    <3>2. PageIsGone(c) => c # page[p].conn
      BY DEF PageIsGone
    <3> QED
      BY <3>1, <3>2, <1>1, <1>4 DEF LinksInv
  <2>2. \A o \in Page : page'[o].conn \in ConnsOf[o] \cup {None} /\ (page'[o].conn # None => waiting'[o] = <<>>)
    BY <1>1, <1>3, <1>4 DEF LinksInv
  <2>3. /\ (broken \subseteq open /\ dropped \subseteq open)'
        /\ (master # None => lastMasterId = DeviceOf[master])'
    BY <1>1, <1>5 DEF LinksInv
  <2> QED
    BY <1>2, <1>4, <1>6, <2>1, <2>2, <2>3 DEF LinksInv
<1>9. ASSUME NEW o \in Page PROVE IsMaster(o)' = IsMaster(o) /\ Live(o)' = Live(o) /\ Safe(o)' = Safe(o)
  BY <1>3, <1>5 DEF IsMaster, Live, Safe, NoGame
<1>10. PageOK(p)'
  <2>1. Good(pg2, InBox(p)', OutBox(p)', IsMaster(p), Live(p), Safe(p), state)
    BY <1>4
  <2> QED
    BY <2>1, <1>2, <1>5, <1>9 DEF PageOK
<1>11. ASSUME NEW o \in Page, o # p PROVE PageOK(o)'
  <2>1. PageOK(o) /\ page'[o] = page[o]
    BY <1>2, <1>11 DEF PagesInv
  <2>2. InBox(o)' = InBox(o) /\ OutBox(o)' = OutBox(o)
    <3>1. CASE page[o].conn = None
      BY <3>1, <2>1, <1>4, <1>11 DEF InBox, OutBox
    <3>2. CASE page[o].conn # None
      <4>1. page[o].conn \in MasterConn /\ page[p].conn # page[o].conn
        BY <3>2, <1>1, <1>11, ConnLemma, ApartLemma
      <4> QED
        BY <3>2, <4>1, <2>1, <1>4, <1>6 DEF InBox, OutBox
    <3> QED
      BY <3>1, <3>2
  <2> QED
    BY <2>1, <2>2, <1>5, <1>9, UntouchedOK
<1> QED
  BY <1>8, <1>10, <1>11
LEMMA LeavesAlone ==
  ASSUME PagesInv, NEW p \in Page, NEW pg2, pg2.conn = None, page' = [page EXCEPT ![p] = pg2],
         page[p].conn # None => toServer[page[p].conn] = <<>>,
         DOMAIN waiting' = Page, \A o \in Page : o # p => waiting'[o] = waiting[o],
         UNCHANGED <<vars, toServer, toPage, broken, dropped>>,
         Good(pg2, <<>>, waiting'[p], FALSE, FALSE, Safe(p), state)
  PROVE  LinksInv' /\ \A o \in Page : PageOK(o)'
<1>1. LinksInv
  BY DEF PagesInv
<1>2. page'[p] = pg2 /\ (\A o \in Page : o # p => page'[o] = page[o]) /\ DOMAIN page' = Page
  BY <1>1 DEF LinksInv
<1>3. UNCHANGED <<master, state, open, lastMasterId, broken, dropped, toServer, toPage>>
  BY DEF vars, seat, automaton
<1>4. LinksInv'
  <2>1. ASSUME NEW c \in MasterConn, (c \notin open \/ c \in broken \/ PageIsGone(c))'
        PROVE  toServer'[c] = <<>>
    <3>1. CASE PageIsGone(c) \/ c \notin open \/ c \in broken
      BY <3>1, <1>1, <1>3 DEF LinksInv
    <3>2. CASE ~PageIsGone(c) /\ PageIsGone(c)'
      <4>1. c = page[p].conn
        BY <3>2, <1>2 DEF PageIsGone
      <4>2. c # None
        BY NoneLemma
      <4> QED
        BY <4>1, <4>2, <1>3
    <3> QED
      BY <2>1, <3>1, <3>2, <1>3
  <2>2. \A o \in Page : page'[o].conn \in ConnsOf[o] \cup {None} /\ (page'[o].conn # None => waiting'[o] = <<>>)
    BY <1>1, <1>2 DEF LinksInv
  <2>3. /\ (broken \subseteq open /\ dropped \subseteq open)'
        /\ (master # None => lastMasterId = DeviceOf[master])'
    BY <1>1, <1>3 DEF LinksInv
  <2>4. DOMAIN toServer' = MasterConn /\ DOMAIN toPage' = MasterConn
    BY <1>1, <1>3 DEF LinksInv
  <2> QED
    BY <1>2, <2>1, <2>2, <2>3, <2>4 DEF LinksInv
<1>5. PageOK(p)'
  <2>1. /\ InBox(p)' = <<>> /\ OutBox(p)' = waiting'[p] /\ IsMaster(p)' = FALSE /\ Live(p)' = FALSE
        /\ Safe(p)' = Safe(p)
    BY <1>2, <1>3 DEF InBox, OutBox, IsMaster, Live, Safe, NoGame
  <2> QED
    BY <2>1, <1>2, <1>3 DEF PageOK
<1>6. ASSUME NEW o \in Page, o # p PROVE PageOK(o)'
  <2>1. PageOK(o) /\ page'[o] = page[o]
    BY <1>2, <1>6 DEF PagesInv
  <2>2. /\ InBox(o)' = InBox(o) /\ OutBox(o)' = OutBox(o) /\ IsMaster(o)' = IsMaster(o)
        /\ Live(o)' = Live(o) /\ Safe(o)' = Safe(o)
    BY <2>1, <1>3, <1>6 DEF InBox, OutBox, IsMaster, Live, Safe, NoGame
  <2> QED
    BY <2>1, <2>2, <1>3, UntouchedOK
<1> QED
  BY <1>4, <1>5, <1>6

LEMMA KeepsConn ==
  ASSUME NEW pg \in PageRecord, NEW m
  PROVE  onMessage(pg, m).conn = pg.conn
<1>1. handleResponsePackets(pg, m).conn = pg.conn
  BY DEF handleResponsePackets, handleMasterRegistrationResponse, Refused, PageRecord
<1>2. handlePresetupAvailableInfo(pg).conn = pg.conn /\ handleNewMasterAccepted(pg).conn = pg.conn
  BY DEF handlePresetupAvailableInfo, handleNewMasterAccepted, PageRecord
<1>3. handleMasterTakenOver(pg).conn = pg.conn
  BY DEF handleMasterTakenOver, Refused, PageRecord
<1>4. [pg EXCEPT !.token = pg.conn].conn = pg.conn
  BY DEF PageRecord
<1> QED
  BY <1>1, <1>2, <1>3, <1>4 DEF onMessage

LEMMA BoxLemma ==
  ASSUME PagesInv, NEW p \in Page
  PROVE  /\ IsMaster(p) \in BOOLEAN /\ Live(p) \in BOOLEAN
         /\ Good(page[p], InBox(p), OutBox(p), IsMaster(p), Live(p), Safe(p), state)
         /\ page[p] \in PageRecord /\ GoodPage(page[p]) /\ IsSeq(InBox(p)) /\ IsSeq(OutBox(p))
<1>1. Good(page[p], InBox(p), OutBox(p), IsMaster(p), Live(p), Safe(p), state)
  BY DEF PagesInv, PageOK
<1>2. GoodPage(page[p]) /\ GoodOut(page[p], InBox(p), OutBox(p))
  BY <1>1 DEF Good
<1> QED
  BY <1>1, <1>2 DEF IsMaster, Live, GoodPage, GoodOut

LEMMA PageReceivesStep ==
  ASSUME PagesInv, NEW p \in Page, PageReceives(p)
  PROVE  LinksInv' /\ \A o \in Page : PageOK(o)'
<1>1. PICK c, pg, q, s, isMaster, live, safe, st :
        /\ c = page[p].conn /\ pg = page[p] /\ q = InBox(p) /\ s = OutBox(p) /\ isMaster = IsMaster(p)
        /\ live = Live(p) /\ safe = Safe(p) /\ st = state
  OBVIOUS
<1>2. PICK pg2 : pg2 = onMessage(pg, Head(q))
  OBVIOUS
<1>3. c # None /\ q = toPage[c] /\ q # <<>> /\ pg.conn = c
  BY <1>1 DEF PageReceives, InBox
<1>4. /\ Good(pg, q, s, isMaster, live, safe, st) /\ pg \in PageRecord
      /\ isMaster \in BOOLEAN /\ live \in BOOLEAN
  BY <1>1, BoxLemma
<1>5. pg2.conn = page[p].conn
  BY <1>1, <1>2, <1>4, KeepsConn
<1>6. page' = [page EXCEPT ![p] = pg2] /\ Send(p, Answers(pg, pg2))
  BY <1>1, <1>2, <1>3 DEF PageReceives
<1>7. toPage' = [toPage EXCEPT ![c] = Tail(@)] /\ UNCHANGED <<vars, broken, dropped>>
  BY <1>1 DEF PageReceives
<1>8. InBox(p)' = Tail(q)
  <2>1. page'[p] = pg2 /\ toPage'[c] = Tail(q)
    <3>1. DOMAIN page = Page /\ DOMAIN toPage = MasterConn /\ c \in MasterConn
      BY <1>1, <1>3, ConnLemma DEF PagesInv, LinksInv
    <3> QED
      BY <3>1, <1>3, <1>6, <1>7
  <2> QED
    BY <2>1, <1>1, <1>3, <1>5 DEF InBox
<1>9. ASSUME NEW s2, s2 = s \o Answers(pg, pg2) \/ (~live /\ s2 = s)
      PROVE  Good(pg2, Tail(q), s2, isMaster, live, safe, st)
  BY <1>2, <1>3, <1>4, <1>9, ReceivesGood
<1>10. \A s2 : s2 = OutBox(p) \o Answers(pg, pg2) \/ (page[p].conn # None /\ ~Live(p) /\ s2 = OutBox(p)) =>
                 Good(pg2, InBox(p)', s2, IsMaster(p), Live(p), Safe(p), state)
  BY <1>1, <1>8, <1>9
<1> QED
  BY <1>1, <1>3, <1>5, <1>6, <1>7, <1>10, StepsAlone

LEMMA PageNoticesLossStep ==
  ASSUME PagesInv, NEW p \in Page, PageNoticesLoss(p)
  PROVE  LinksInv' /\ \A o \in Page : PageOK(o)'
<1>1. PICK c, pg, isMaster, live, safe, st :
        /\ c = page[p].conn /\ pg = page[p] /\ isMaster = IsMaster(p)
        /\ live = Live(p) /\ safe = Safe(p) /\ st = state
  OBVIOUS
<1>2. PICK pg2 : pg2 = [pg EXCEPT !.conn = None, !.interrupted = pg.interrupted \/ pg.asked]
  OBVIOUS
<1>3. c # None /\ c \in MasterConn /\ InBox(p) = toPage[c] /\ OutBox(p) = toServer[c] /\ waiting[p] = <<>>
  BY <1>1, ConnLemma DEF PageNoticesLoss, PagesInv
<1>4. toPage[c] = <<>> /\ (c \in broken \/ c \notin open)
  BY <1>1 DEF PageNoticesLoss
<1>5. toServer[c] = <<>>
  BY <1>3, <1>4 DEF PagesInv, LinksInv
<1>6. Good(pg, <<>>, <<>>, isMaster, live, safe, st) /\ pg \in PageRecord
  BY <1>1, <1>3, <1>4, <1>5, BoxLemma
<1>7. Good(pg2, <<>>, <<>>, FALSE, FALSE, safe, st)
  BY <1>1, <1>2, <1>3, <1>6, NoticesGood
<1>8. pg2.conn = None
  BY <1>2, <1>6 DEF PageRecord
<1>9. page' = [page EXCEPT ![p] = pg2] /\ UNCHANGED <<vars, waiting, toServer, toPage, broken, dropped>>
  BY <1>1, <1>2, <1>6 DEF PageNoticesLoss, PageRecord, links
<1>10. DOMAIN waiting' = Page /\ waiting'[p] = <<>>
  BY <1>3, <1>9 DEF PagesInv, LinksInv
<1> QED
  BY <1>1, <1>5, <1>7, <1>8, <1>9, <1>10, LeavesAlone

LEMMA PageLoadsStep ==
  ASSUME PagesInv, NEW p \in Page, PageLoads(p), page[p].conn = None \/ Ready(p)
  PROVE  LinksInv' /\ \A o \in Page : PageOK(o)'
<1>1. page' = [page EXCEPT ![p] = LoadedPage] /\ waiting' = [waiting EXCEPT ![p] = <<RegisterPacket(LoadedPage)>>]
  BY DEF PageLoads
<1>2. UNCHANGED <<vars, toServer, toPage, broken, dropped>>
  BY DEF PageLoads
<1>3. DOMAIN waiting = Page
  BY DEF PagesInv, LinksInv
<1>4. /\ DOMAIN waiting' = Page /\ waiting'[p] = <<RegisterPacket(LoadedPage)>>
      /\ \A o \in Page : o # p => waiting'[o] = waiting[o]
  BY <1>1, <1>3
<1>5. page[p].conn # None => toServer[page[p].conn] = <<>>
  BY DEF Ready
<1>6. LoadedPage.conn = None
  BY DEF LoadedPage
<1>7. Good(LoadedPage, <<>>, waiting'[p], FALSE, FALSE, Safe(p), state)
  BY <1>4, LoadedGood
<1> QED
  BY <1>1, <1>2, <1>4, <1>5, <1>6, <1>7, LeavesAlone

LEMMA DoesStep ==
  ASSUME PagesInv, NEW p \in Page, NEW pg2, NEW packets, Does(p, pg2, packets), pg2.conn = page[p].conn,
         \A s2 : s2 = <<>> \o packets \/ (page[p].conn # None /\ ~Live(p) /\ s2 = <<>>) =>
                   Good(pg2, InBox(p), s2, IsMaster(p), Live(p), Safe(p), state)
  PROVE  LinksInv' /\ \A o \in Page : PageOK(o)'
<1>1. /\ page' = [page EXCEPT ![p] = pg2] /\ Send(p, packets) /\ toPage' = toPage
      /\ UNCHANGED <<vars, broken, dropped>>
  BY DEF Does
<1>2. OutBox(p) = <<>>
  BY DEF Does, Ready, OutBox
<1>3. InBox(p)' = InBox(p)
  <2>1. page'[p] = pg2
    BY <1>1 DEF PagesInv, LinksInv
  <2> QED
    BY <2>1, <1>1 DEF InBox
<1>4. \A s2 : s2 = OutBox(p) \o packets \/ (page[p].conn # None /\ ~Live(p) /\ s2 = OutBox(p)) =>
                Good(pg2, InBox(p)', s2, IsMaster(p), Live(p), Safe(p), state)
  BY <1>2, <1>3
<1> QED
  BY <1>1, <1>4, StepsAlone
LEMMA AsksStep ==
  ASSUME PagesInv, NEW p \in Page, NEW pg2, GoodPage(pg2), NEW type,
         Request(View(page[p]), View(pg2), type), Does(p, pg2, <<Packet(type)>>),
         pg2.conn = page[p].conn, pg2.token = page[p].token, pg2.interrupted = page[p].interrupted
  PROVE  LinksInv' /\ \A o \in Page : PageOK(o)'
<1>1. PICK pg, q, isMaster, live, safe, st :
        /\ pg = page[p] /\ q = InBox(p) /\ isMaster = IsMaster(p)
        /\ live = Live(p) /\ safe = Safe(p) /\ st = state
  OBVIOUS
<1>2. OutBox(p) = <<>>
  BY DEF Does, Ready, OutBox
<1>3. Good(pg, q, <<>>, isMaster, live, safe, st) /\ isMaster \in BOOLEAN /\ live \in BOOLEAN
  BY <1>1, <1>2, BoxLemma
<1>4. PICK packets : packets = <<Packet(type)>>
  OBVIOUS
<1>5. <<>> \o packets = packets
  <2>1. IsSeq(packets)
    BY <1>4, OneLemma
  <2> QED
    BY <2>1, ConcatEmpty
<1>6. ASSUME NEW s2, s2 = <<>> \o packets \/ (pg.conn # None /\ ~live /\ s2 = <<>>)
      PROVE  Good(pg2, q, s2, isMaster, live, safe, st)
  <2>1. s2 = <<Packet(type)>> \/ (~live /\ pg.conn # None /\ s2 = <<>>)
    BY <1>4, <1>5, <1>6
  <2>2. Request(View(pg), View(pg2), type) /\ pg2.conn = pg.conn /\ pg2.token = pg.token /\ pg2.interrupted = pg.interrupted
    BY <1>1
  <2> QED
    BY <1>3, <2>1, <2>2, ActsGood
<1>7. Does(p, pg2, packets)
  BY <1>4
<1>8. \A s2 : s2 = <<>> \o packets \/ (page[p].conn # None /\ ~Live(p) /\ s2 = <<>>) =>
                Good(pg2, InBox(p), s2, IsMaster(p), Live(p), Safe(p), state)
  BY <1>1, <1>6
<1> QED
  BY <1>7, <1>8, DoesStep

LEMMA TriesStep ==
  ASSUME PagesInv, NEW p \in Page, NEW pg, pg \in PageRecord, pg.conn = page[p].conn, pg.wasConnected = page[p].wasConnected,
         pg.asked = page[p].asked, NEW takeOver \in BOOLEAN, takeOver => page[p].conn # None,
         tryAgainAsMaster(p, pg, takeOver)
  PROVE  LinksInv' /\ \A o \in Page : PageOK(o)'
<1>1. PICK pg1, q, isMaster, live, safe, st :
        /\ pg1 = page[p] /\ q = InBox(p) /\ isMaster = IsMaster(p)
        /\ live = Live(p) /\ safe = Safe(p) /\ st = state
  OBVIOUS
<1>2. PICK pg2 : pg2 = [pg EXCEPT !.state = "STARTING", !.timer = FALSE, !.takeOverRequested = takeOver]
  OBVIOUS
<1>3. pg1.state = "REJECTED" /\ Does(p, pg2, <<RegisterPacket(pg2)>>)
  BY <1>1, <1>2 DEF tryAgainAsMaster
<1>4. OutBox(p) = <<>>
  BY <1>3 DEF Does, Ready, OutBox
<1>5. Good(pg1, q, <<>>, isMaster, live, safe, st) /\ isMaster \in BOOLEAN /\ live \in BOOLEAN
  BY <1>1, <1>4, BoxLemma
<1>6. /\ pg2 \in PageRecord /\ pg2.state = "STARTING" /\ pg2.conn = pg1.conn
      /\ pg2.wasConnected = pg1.wasConnected /\ pg2.asked = pg1.asked
      /\ pg2.conn = None => ~pg2.takeOverRequested
  BY <1>1, <1>2 DEF PageRecord, PageState
<1>7. PICK packets : packets = <<RegisterPacket(pg2)>>
  OBVIOUS
<1>8. <<>> \o packets = packets
  <2>1. IsSeq(packets)
    BY <1>7, OneLemma
  <2> QED
    BY <2>1, ConcatEmpty
<1>9. ASSUME NEW s2, s2 = <<>> \o packets \/ (pg1.conn # None /\ ~live /\ s2 = <<>>)
      PROVE  Good(pg2, q, s2, isMaster, live, safe, st)
  <2>1. s2 = <<RegisterPacket(pg2)>> \/ (~live /\ pg1.conn # None /\ s2 = <<>>)
    BY <1>7, <1>8, <1>9
  <2> QED
    BY <1>3, <1>5, <1>6, <2>1, TriesGood
<1>10. Does(p, pg2, packets) /\ pg2.conn = page[p].conn
  BY <1>1, <1>3, <1>6, <1>7
<1>11. \A s2 : s2 = <<>> \o packets \/ (page[p].conn # None /\ ~Live(p) /\ s2 = <<>>) =>
                 Good(pg2, InBox(p), s2, IsMaster(p), Live(p), Safe(p), state)
  BY <1>1, <1>9
<1> QED
  BY <1>10, <1>11, DoesStep

LEMMA PausesStep ==
  ASSUME PagesInv, NEW p \in Page, NEW paused \in BOOLEAN, Does(p, pauseMasterRetry(page[p], paused), <<>>)
  PROVE  LinksInv' /\ \A o \in Page : PageOK(o)'
<1>1. PICK pg, q, isMaster, live, safe, st :
        /\ pg = page[p] /\ q = InBox(p) /\ isMaster = IsMaster(p)
        /\ live = Live(p) /\ safe = Safe(p) /\ st = state
  OBVIOUS
<1>2. PICK pg2 : pg2 = pauseMasterRetry(pg, paused)
  OBVIOUS
<1>3. OutBox(p) = <<>>
  BY DEF Does, Ready, OutBox
<1>4. Good(pg, q, <<>>, isMaster, live, safe, st) /\ pg \in PageRecord
  BY <1>1, <1>3, BoxLemma
<1>5. /\ pg2 \in PageRecord /\ pg2.state = pg.state /\ pg2.conn = pg.conn /\ pg2.wasConnected = pg.wasConnected
      /\ pg2.takeOverRequested = pg.takeOverRequested /\ pg2.token = pg.token
      /\ pg2.asked = pg.asked /\ pg2.interrupted = pg.interrupted
  BY <1>2, <1>4 DEF pauseMasterRetry, ScheduleRetry, PageRecord
<1>6. Good(pg2, q, <<>>, isMaster, live, safe, st)
  BY <1>4, <1>5, SameGood
<1>7. PICK none : none = <<>> /\ <<>> \o none = <<>>
  BY EmptyLemma, ConcatEmpty
<1>8. Does(p, pg2, none) /\ pg2.conn = page[p].conn
  BY <1>1, <1>2, <1>5, <1>7
<1>9. \A s2 : s2 = <<>> \o none \/ (page[p].conn # None /\ ~Live(p) /\ s2 = <<>>) =>
                Good(pg2, InBox(p), s2, IsMaster(p), Live(p), Safe(p), state)
  BY <1>1, <1>6, <1>7
<1> QED
  BY <1>8, <1>9, DoesStep

LEMMA UserStep ==
  ASSUME PagesInv, NEW p \in Page, UserDoes(p) \/ RetryTimerFires(p)
  PROVE  LinksInv' /\ \A o \in Page : PageOK(o)'
<1>1. GoodPage(page[p]) /\ page[p] \in PageRecord
  BY BoxLemma
<1>2. CASE setupGame(p)
  <2>1. PICK pg2 : pg2 = [page[p] EXCEPT !.asked = TRUE]
    OBVIOUS
  <2>2. GoodPage(pg2) /\ pg2.conn = page[p].conn /\ pg2.token = page[p].token /\ pg2.interrupted = page[p].interrupted
    BY <1>1, <1>2, <2>1 DEF setupGame, GoodPage, PageRecord
  <2>3. View(page[p]) = "RECEIVED_PRESETUP_DATA" /\ View(pg2) = "SETTING_UP"
    BY <1>1, <1>2, <2>1 DEF setupGame, View, PageRecord
  <2>4. Request(View(page[p]), View(pg2), "SETUP_GAME") /\ Does(p, pg2, <<Packet("SETUP_GAME")>>)
    BY <1>2, <2>1, <2>3 DEF setupGame, Request
  <2> QED
    BY <2>2, <2>4, AsksStep
<1>3. CASE endGame(p)
  <2>1. PICK pg2 : pg2 = [page[p] EXCEPT !.state = "END"]
    OBVIOUS
  <2>2. GoodPage(pg2) /\ pg2.conn = page[p].conn /\ pg2.token = page[p].token /\ pg2.interrupted = page[p].interrupted
    BY <1>1, <1>3, <2>1 DEF endGame, GoodPage, PageRecord, PageState
  <2>3. View(page[p]) = "PLAYING" /\ View(pg2) = "END"
    BY <1>1, <1>3, <2>1 DEF endGame, View, PageRecord
  <2>4. Request(View(page[p]), View(pg2), "END_GAME") /\ Does(p, pg2, <<Packet("END_GAME")>>)
    BY <1>3, <2>1, <2>3 DEF endGame, Request
  <2> QED
    BY <2>2, <2>4, AsksStep
<1>4. CASE resetServer(p)
  <2>1. PICK pg2 : pg2 = [page[p] EXCEPT !.state = "MASTER_ACCEPTED", !.asked = TRUE]
    OBVIOUS
  <2>2. GoodPage(pg2) /\ pg2.conn = page[p].conn /\ pg2.token = page[p].token /\ pg2.interrupted = page[p].interrupted
    BY <1>1, <1>4, <2>1 DEF resetServer, GoodPage, PageRecord, PageState
  <2>3. View(page[p]) \in {"RECEIVED_PRESETUP_DATA", "PLAYING", "END"} /\ View(pg2) = "RESETTING"
    BY <1>1, <1>4, <2>1 DEF resetServer, View, PageRecord
  <2>4. Request(View(page[p]), View(pg2), "RESET_SERVER") /\ Does(p, pg2, <<Packet("RESET_SERVER")>>)
    BY <1>4, <2>1, <2>3 DEF resetServer, Request
  <2> QED
    BY <2>2, <2>4, AsksStep
<1>5. CASE registerAgainAsMaster(p) \/ RetryTimerFires(p)
  BY <1>1, <1>5, TriesStep DEF registerAgainAsMaster, RetryTimerFires
<1>6. CASE AsksToTakeOver(p) \/ DoesNotTakeOver(p)
  BY <1>6, PausesStep DEF AsksToTakeOver, DoesNotTakeOver
<1>7. CASE UserReloads(p)
  BY <1>7, PageLoadsStep DEF UserReloads
<1>8. CASE TakesOver(p)
  <2>1. PICK pg : pg = [page[p] EXCEPT !.paused = FALSE]
    OBVIOUS
  <2>2. /\ pg \in PageRecord /\ pg.conn = page[p].conn /\ pg.wasConnected = page[p].wasConnected
        /\ pg.asked = page[p].asked
    BY <1>1, <2>1 DEF PageRecord
  <2>3. tryAgainAsMaster(p, pg, TRUE) /\ page[p].conn # None
    BY <1>8, <2>1 DEF TakesOver
  <2> QED
    BY <2>2, <2>3, TriesStep
<1> QED
  BY <1>2, <1>3, <1>4, <1>5, <1>6, <1>7, <1>8 DEF UserDoes

LEMMA PageConnectsStep ==
  ASSUME PagesInv, NEW p \in Page, PageConnects(p)
  PROVE  LinksInv' /\ \A o \in Page : PageOK(o)'
<1>1. PICK pg, s, isMaster, live, safe, st :
        /\ pg = page[p] /\ s = waiting[p] /\ isMaster = IsMaster(p)
        /\ live = Live(p) /\ safe = Safe(p) /\ st = state
  OBVIOUS
<1>2. pg.conn = None /\ ~Reloads(pg) /\ InBox(p) = <<>> /\ OutBox(p) = s
  BY <1>1 DEF PageConnects, InBox, OutBox
<1>3. LinksInv /\ SeatInv
  BY DEF PagesInv
<1>4. PICK c \in ConnsOf[p] :
        /\ Connect(c)
        /\ page' = [page EXCEPT ![p] = [IF pg.wasConnected THEN ScheduleRetry(pg) ELSE pg
                                        EXCEPT !.conn = c, !.wasConnected = TRUE]]
        /\ toServer' = [toServer EXCEPT ![c] = (IF Registers(pg) THEN <<RegisterPacket(pg)>> ELSE <<>>) \o s]
        /\ toPage' = [toPage EXCEPT ![c] = <<>>]
  BY <1>1 DEF PageConnects
<1>5. waiting' = [waiting EXCEPT ![p] = <<>>] /\ UNCHANGED <<broken, dropped>>
  BY DEF PageConnects
<1>6. PICK pg2 : pg2 = [IF pg.wasConnected THEN ScheduleRetry(pg) ELSE pg EXCEPT !.conn = c, !.wasConnected = TRUE]
  OBVIOUS
<1>7. PICK s2 : s2 = (IF Registers(pg) THEN <<RegisterPacket(pg)>> ELSE <<>>) \o s
  OBVIOUS
<1>8. Good(pg, <<>>, s, isMaster, live, safe, st) /\ pg \in PageRecord
  BY <1>1, <1>2, BoxLemma
<1>9. c \in MasterConn /\ c # None
  BY NoneLemma
<1>10. /\ pg2 \in PageRecord /\ pg2.state = pg.state /\ pg2.conn = c /\ pg2.wasConnected = TRUE
       /\ pg2.takeOverRequested = pg.takeOverRequested /\ pg2.token = pg.token
       /\ pg2.asked = pg.asked /\ pg2.interrupted = pg.interrupted
  BY <1>6, <1>8, <1>9 DEF ScheduleRetry, PageRecord
<1>11. Good(pg2, <<>>, s2, FALSE, TRUE, safe, st)
  BY <1>2, <1>7, <1>8, <1>9, <1>10, ConnectsGood
<1>12. c \notin open /\ open' = open \cup {c} /\ UNCHANGED <<master, lastMasterId, state>>
  BY <1>4 DEF Connect, automaton
<1>13. c # master
  BY <1>3, <1>9, <1>12 DEF SeatInv, SeatMatchesState
<1>14. /\ page'[p] = pg2 /\ (\A o \in Page : o # p => page'[o] = page[o]) /\ DOMAIN page' = Page
       /\ waiting'[p] = <<>> /\ (\A o \in Page : o # p => waiting'[o] = waiting[o]) /\ DOMAIN waiting' = Page
       /\ toServer'[c] = s2 /\ (\A d \in MasterConn : d # c => toServer'[d] = toServer[d]) /\ DOMAIN toServer' = MasterConn
       /\ toPage'[c] = <<>> /\ (\A d \in MasterConn : d # c => toPage'[d] = toPage[d]) /\ DOMAIN toPage' = MasterConn
  BY <1>3, <1>4, <1>5, <1>6, <1>7, <1>9 DEF LinksInv
<1>15. c \notin broken /\ c \notin dropped
  BY <1>3, <1>12 DEF LinksInv
<1>16. LinksInv'
  <2>1. ASSUME NEW d \in MasterConn, (d \notin open \/ d \in broken \/ PageIsGone(d))'
        PROVE  toServer'[d] = <<>>
    <3>1. d # c
      BY <2>1, <1>5, <1>10, <1>12, <1>14, <1>15 DEF PageIsGone
    <3>2. PageIsGone(d)' => PageIsGone(d)
      BY <1>1, <1>2, <1>14, NoneLemma DEF PageIsGone
    <3>3. d \notin open \/ d \in broken \/ PageIsGone(d)
      BY <2>1, <3>2, <1>5, <1>12
    <3> QED
      BY <3>1, <3>3, <1>3, <1>14 DEF LinksInv
  <2>2. \A o \in Page : page'[o].conn \in ConnsOf[o] \cup {None} /\ (page'[o].conn # None => waiting'[o] = <<>>)
    BY <1>3, <1>10, <1>14 DEF LinksInv
  <2>3. /\ (broken \subseteq open /\ dropped \subseteq open)'
        /\ (master # None => lastMasterId = DeviceOf[master])'
    BY <1>3, <1>5, <1>12 DEF LinksInv
  <2> QED
    BY <1>14, <2>1, <2>2, <2>3 DEF LinksInv
<1>17. PageOK(p)'
  <2>1. /\ InBox(p)' = <<>> /\ OutBox(p)' = s2 /\ IsMaster(p)' = FALSE /\ Live(p)' = TRUE /\ Safe(p)' = safe
    BY <1>1, <1>5, <1>9, <1>10, <1>12, <1>13, <1>14, <1>15 DEF InBox, OutBox, IsMaster, Live, Safe, NoGame
  <2> QED
    BY <2>1, <1>1, <1>11, <1>12, <1>14 DEF PageOK
<1>18. ASSUME NEW o \in Page, o # p PROVE PageOK(o)'
  <2>1. PageOK(o) /\ page'[o] = page[o]
    BY <1>14, <1>18 DEF PagesInv
  <2>2. page[o].conn \in ConnsOf[o] \cup {None} /\ page[o].conn # c
    BY <1>3, <1>9, <1>18, PageAssumption DEF LinksInv
  <2>3. page[o].conn # None => page[o].conn \in MasterConn
    BY <2>2, NoneLemma
  <2>4. /\ InBox(o)' = InBox(o) /\ OutBox(o)' = OutBox(o) /\ IsMaster(o)' = IsMaster(o)
        /\ Live(o)' = Live(o) /\ Safe(o)' = Safe(o)
    BY <2>1, <2>2, <2>3, <1>5, <1>12, <1>14, <1>18 DEF InBox, OutBox, IsMaster, Live, Safe, NoGame
  <2> QED
    BY <2>1, <2>4, <1>12, UntouchedOK
<1> QED
  BY <1>16, <1>17, <1>18

LEMMA BreaksStep ==
  ASSUME PagesInv, NEW p \in Page, Breaks(p)
  PROVE  LinksInv' /\ \A o \in Page : PageOK(o)'
<1>1. PICK c, pg, q, s, isMaster, live, safe, st :
        /\ c = page[p].conn /\ pg = page[p] /\ q = InBox(p) /\ s = OutBox(p) /\ isMaster = IsMaster(p)
        /\ live = Live(p) /\ safe = Safe(p) /\ st = state
  OBVIOUS
<1>2. LinksInv /\ SeatInv
  BY DEF PagesInv
<1>3. /\ c \in open \ broken /\ broken' = broken \cup {c}
      /\ toServer' = [toServer EXCEPT ![c] = <<>>] /\ toPage' = [toPage EXCEPT ![c] = <<>>]
      /\ UNCHANGED <<vars, page, waiting, dropped>>
  BY <1>1 DEF Breaks
<1>4. None \notin open
  BY <1>2, ConnAssumption DEF SeatInv, ServerTypeOK
<1>5. c # None /\ c \in MasterConn
  BY <1>1, <1>2, <1>3, <1>4, ConnLemma
<1>6. UNCHANGED <<master, state, open, lastMasterId>>
  BY <1>3 DEF vars, seat, automaton
<1>7. /\ toServer'[c] = <<>> /\ (\A d \in MasterConn : d # c => toServer'[d] = toServer[d]) /\ DOMAIN toServer' = MasterConn
      /\ toPage'[c] = <<>> /\ (\A d \in MasterConn : d # c => toPage'[d] = toPage[d]) /\ DOMAIN toPage' = MasterConn
  BY <1>2, <1>3, <1>5 DEF LinksInv
<1>8. LinksInv'
  <2>1. ASSUME NEW d \in MasterConn, (d \notin open \/ d \in broken \/ PageIsGone(d))'
        PROVE  toServer'[d] = <<>>
    BY <2>1, <1>2, <1>3, <1>6, <1>7 DEF LinksInv, PageIsGone
  <2>2. /\ DOMAIN page' = Page /\ DOMAIN waiting' = Page
        /\ \A o \in Page : page'[o].conn \in ConnsOf[o] \cup {None} /\ (page'[o].conn # None => waiting'[o] = <<>>)
    BY <1>2, <1>3 DEF LinksInv
  <2>3. /\ (broken \subseteq open /\ dropped \subseteq open)'
        /\ (master # None => lastMasterId = DeviceOf[master])'
    BY <1>2, <1>3, <1>6 DEF LinksInv
  <2> QED
    BY <1>7, <2>1, <2>2, <2>3 DEF LinksInv
<1>9. PageOK(p)'
  <2>1. Good(pg, q, s, isMaster, live, safe, st) /\ pg.conn # None
    BY <1>1, <1>5, BoxLemma
  <2>2. Good(pg, <<>>, <<>>, isMaster, FALSE, safe, st)
    BY <2>1, CutGood
  <2>3. /\ InBox(p)' = <<>> /\ OutBox(p)' = <<>> /\ IsMaster(p)' = isMaster /\ Live(p)' = FALSE /\ Safe(p)' = safe
        /\ page'[p] = pg /\ state' = st
    BY <1>1, <1>3, <1>5, <1>6, <1>7 DEF InBox, OutBox, IsMaster, Live, Safe, NoGame
  <2> QED
    BY <2>2, <2>3 DEF PageOK
<1>10. ASSUME NEW o \in Page, o # p PROVE PageOK(o)'
  <2>1. PageOK(o) /\ page'[o] = page[o]
    BY <1>3 DEF PagesInv
  <2>2. page[o].conn # c /\ (page[o].conn # None => page[o].conn \in MasterConn)
    BY <1>1, <1>2, <1>5, <1>10, ApartLemma, ConnLemma
  <2>3. /\ InBox(o)' = InBox(o) /\ OutBox(o)' = OutBox(o) /\ IsMaster(o)' = IsMaster(o)
        /\ Live(o)' = Live(o) /\ Safe(o)' = Safe(o)
    BY <2>1, <2>2, <1>3, <1>6, <1>7 DEF InBox, OutBox, IsMaster, Live, Safe, NoGame
  <2> QED
    BY <2>1, <2>3, <1>6, UntouchedOK
<1> QED
  BY <1>8, <1>9, <1>10
----------------------------------------------------------------------------
(* The server's steps: what becomes of the page of connection c, and of the others.                *)

\* the connection that is the master's, if any, is another one afterwards or is not
SeatStays(c) ==
  /\ UNCHANGED <<master, lastMasterId>>
  /\ c = master \/ state' = state
  /\ open' = open \/ (open' = open \ {c} /\ c # master)
  /\ \A d \in MasterConn : d # c => sent'[d] = <<>>
SeatPasses(c) ==
  /\ c # master /\ master' = c /\ lastMasterId' = DeviceOf[c] /\ open' = open
  /\ \A d \in MasterConn : d \notin {c, master} => sent'[d] = <<>>
  /\ master # None => sent'[master] = <<Packet("MASTER_TAKEN_OVER")>>

LEMMA DeliveredLemma ==
  ASSUME PagesInv, Delivered, page' = page, NEW o \in Page, page[o].conn # None
  PROVE  /\ InBox(o)' = (IF Live(o) THEN InBox(o) \o sent'[page[o].conn] ELSE InBox(o))
         /\ sent'[page[o].conn] = <<>> => InBox(o)' = InBox(o)
<1>1. PICK d : d = page[o].conn
  OBVIOUS
<1>2. d \in MasterConn /\ InBox(o) = toPage[d]
  BY <1>1, ConnLemma DEF PagesInv
<1>3. InBox(o)' = toPage'[d]
  BY <1>1 DEF InBox
<1>4. ~PageIsGone(d)
  BY <1>1 DEF PageIsGone
<1>5. Live(o) <=> d \in open \ (broken \cup dropped)
  BY <1>1 DEF Live
<1>6. toPage'[d] = (IF Live(o) THEN toPage[d] \o sent'[d] ELSE toPage[d])
  BY <1>2, <1>4, <1>5 DEF Delivered
<1>7. IsSeq(InBox(o))
  BY BoxLemma
<1>8. InBox(o) \o <<>> = InBox(o)
  BY <1>7, ConcatEmpty
<1>9. sent'[d] = <<>> => InBox(o)' = InBox(o)
  BY <1>2, <1>3, <1>6, <1>8
<1> QED
  BY <1>1, <1>2, <1>3, <1>6, <1>9

LEMMA ReceivesFrame ==
  ASSUME OneTabEach, PagesInv, NEW c \in MasterConn, NEW p \in Page, page[p].conn = c, ServerReceives(c),
         SeatStays(c) \/ SeatPasses(c),
         Good(page[p], IF Live(p) THEN InBox(p) \o sent'[c] ELSE InBox(p),
              IF c \in open' THEN Tail(OutBox(p)) ELSE <<>>, c = master', Live(p) /\ c \in open', Safe(p)', state')
  PROVE  LinksInv' /\ \A o \in Page : PageOK(o)'
<1>1. LinksInv /\ SeatInv
  BY DEF PagesInv
<1>2. /\ c \in open /\ toServer[c] # <<>> /\ Delivered
      /\ toServer' = [toServer EXCEPT ![c] = IF c \in open' THEN Tail(@) ELSE <<>>]
      /\ dropped' = (IF master' # master /\ master # None THEN dropped \cup {master} ELSE dropped) \cap open'
      /\ UNCHANGED <<page, waiting, broken>>
  BY DEF ServerReceives
<1>3. c # None /\ OutBox(p) = toServer[c] /\ c \notin broken
  BY <1>1, <1>2, NoneLemma, ConnLemma DEF LinksInv
<1>4. /\ toServer'[c] = (IF c \in open' THEN Tail(toServer[c]) ELSE <<>>)
      /\ (\A d \in MasterConn : d # c => toServer'[d] = toServer[d]) /\ DOMAIN toServer' = MasterConn
  BY <1>1, <1>2 DEF LinksInv
<1>5. open' \subseteq open /\ open \subseteq open' \cup {c}
  BY DEF SeatStays, SeatPasses
<1>6. LinksInv'
  <2>1. ASSUME NEW d \in MasterConn, (d \notin open \/ d \in broken \/ PageIsGone(d))'
        PROVE  toServer'[d] = <<>>
    <3>1. PageIsGone(d)' = PageIsGone(d)
      BY <1>2 DEF PageIsGone
    <3>2. CASE d = c
      <4>1. ~PageIsGone(c)
        BY DEF PageIsGone
      <4>2. c \notin open'
        BY <2>1, <3>1, <3>2, <4>1, <1>2, <1>3
      <4> QED
        BY <3>2, <4>2, <1>4
    <3>3. CASE d # c
      <4>1. d \notin open \/ d \in broken \/ PageIsGone(d)
        BY <2>1, <3>1, <3>3, <1>2, <1>5
      <4> QED
        BY <3>3, <4>1, <1>1, <1>4 DEF LinksInv
    <3> QED
      BY <3>2, <3>3
  <2>2. /\ DOMAIN page' = Page /\ DOMAIN waiting' = Page
        /\ \A o \in Page : page'[o].conn \in ConnsOf[o] \cup {None} /\ (page'[o].conn # None => waiting'[o] = <<>>)
    BY <1>1, <1>2 DEF LinksInv
  <2>3. (broken \subseteq open /\ dropped \subseteq open)'
    BY <1>1, <1>2, <1>3, <1>5 DEF LinksInv
  <2>4. (master # None => lastMasterId = DeviceOf[master])'
    BY <1>1 DEF LinksInv, SeatStays, SeatPasses
  <2>5. DOMAIN toPage' = MasterConn
    BY <1>2 DEF Delivered
  <2> QED
    BY <1>4, <2>1, <2>2, <2>3, <2>4, <2>5 DEF LinksInv
<1>7. PageOK(p)'
  <2>1. InBox(p)' = (IF Live(p) THEN InBox(p) \o sent'[c] ELSE InBox(p))
    BY <1>2, <1>3, DeliveredLemma
  <2>2. OutBox(p)' = (IF c \in open' THEN Tail(OutBox(p)) ELSE <<>>)
    BY <1>2, <1>3, <1>4 DEF OutBox
  <2>3. IsMaster(p)' = (c = master')
    BY <1>2, <1>3 DEF IsMaster
  <2>4. Live(p)' = (Live(p) /\ c \in open')
    BY <1>2, <1>3, <1>5 DEF Live, SeatStays, SeatPasses
  <2> QED
    BY <2>1, <2>2, <2>3, <2>4, <1>2 DEF PageOK
<1>8. ASSUME NEW o \in Page, o # p PROVE PageOK(o)'
  <2>1. page[o].conn # c /\ (page[o].conn # None => page[o].conn \in MasterConn)
    BY <1>1, <1>3, <1>8, ApartLemma, ConnLemma
  <2>2. lastMasterId' = DeviceOf[c] => Safe(o)'
    <3>1. c \in ConnsOf[p]
      BY <1>1, <1>3 DEF LinksInv
    <3>2. \A d \in ConnsOf[o] : DeviceOf[c] # DeviceOf[d]
      BY <3>1, <1>8 DEF OneTabEach
    <3>3. lastMasterId' = DeviceOf[c] => ~(\E d \in ConnsOf[o] : lastMasterId' = DeviceOf[d])
      BY <3>2
    <3> QED
      BY <3>3 DEF Safe
  <2>3. OutBox(o)' = OutBox(o) /\ page'[o] = page[o]
    BY <2>1, <1>2, <1>4 DEF OutBox
  <2>4. PageOK(o)
    BY DEF PagesInv
  <2>5. page[o].conn = None => InBox(o)' = InBox(o)
    BY <1>2 DEF InBox
  <2>6. CASE SeatStays(c)
    <3>1. IsMaster(o)' = IsMaster(o) /\ (IsMaster(o) => state' = state)
      BY <2>1, <2>6, <1>2 DEF IsMaster, SeatStays
    <3>2. Live(o)' = Live(o)
      BY <2>1, <2>6, <1>2, <1>5 DEF Live, SeatStays
    <3>3. Safe(o) => Safe(o)'
      <4>1. CASE state' = state
        BY <4>1, <2>6 DEF Safe, NoGame, SeatStays
      <4>2. CASE c = master
        BY <4>2, <2>2, <2>6, <1>1, <1>3 DEF LinksInv, SeatStays
      <4> QED
        BY <4>1, <4>2, <2>6 DEF SeatStays
    <3>4. InBox(o)' = InBox(o)
      BY <2>1, <2>5, <2>6, <1>2, DeliveredLemma DEF SeatStays
    <3> QED
      BY <2>3, <2>4, <3>1, <3>2, <3>3, <3>4, UntouchedOK
  <2>7. CASE SeatPasses(c) /\ ~IsMaster(o)
    <3>1. IsMaster(o)' = IsMaster(o) /\ (IsMaster(o) => state' = state)
      BY <2>1, <2>7, <1>2 DEF IsMaster, SeatPasses
    <3>2. Live(o)' = Live(o)
      BY <2>1, <2>7, <1>2, <1>5 DEF Live, SeatPasses, IsMaster
    <3>3. Safe(o) => Safe(o)'
      BY <2>2, <2>7 DEF SeatPasses
    <3>4. InBox(o)' = InBox(o)
      BY <2>1, <2>5, <2>7, <1>2, DeliveredLemma DEF SeatPasses, IsMaster
    <3> QED
      BY <2>3, <2>4, <3>1, <3>2, <3>3, <3>4, UntouchedOK
  <2>8. CASE SeatPasses(c) /\ IsMaster(o)
    <3>1. PICK pg, q, s, live, safe, st, q2, safe2, st2 :
            /\ pg = page[o] /\ q = InBox(o) /\ s = OutBox(o) /\ live = Live(o) /\ safe = Safe(o) /\ st = state
            /\ q2 = InBox(o)' /\ safe2 = Safe(o)' /\ st2 = state'
      OBVIOUS
    <3>2. PICK m : m = Packet("MASTER_TAKEN_OVER")
      OBVIOUS
    <3>3. Kind(m) = "TAKEN_OVER"
      BY <3>2 DEF Kind, Packet
    <3>4. Good(pg, q, s, TRUE, live, safe, st) /\ pg.conn # None /\ live \in BOOLEAN
      BY <2>8, <3>1, BoxLemma DEF IsMaster
    <3>5. q2 = (IF live THEN q \o <<m>> ELSE q)
      BY <2>8, <3>1, <3>2, <1>2, DeliveredLemma DEF SeatPasses, IsMaster
    <3>6. safe2
      BY <2>2, <2>8, <3>1 DEF SeatPasses
    <3>7. Good(pg, q2, s, FALSE, FALSE, safe2, st2)
      BY <3>3, <3>4, <3>5, <3>6, TakenOverGood
    <3>8. IsMaster(o)' = FALSE /\ Live(o)' = FALSE
      <4>1. page[o].conn = master /\ master # None /\ master' # master /\ open' = open
        BY <2>8 DEF SeatPasses, IsMaster
      <4>2. master \in open
        BY <4>1, <1>1 DEF SeatInv, SeatMatchesState
      <4>3. master \in dropped'
        BY <4>1, <4>2, <1>2
      <4> QED
        BY <4>1, <4>3, <1>2 DEF IsMaster, Live
    <3> QED
      BY <2>3, <3>1, <3>7, <3>8 DEF PageOK
  <2> QED
    BY <2>6, <2>7, <2>8
<1> QED
  BY <1>6, <1>7, <1>8
LEMMA KindsLemma ==
  /\ Kind(ResponsePacket("REGISTER_MASTER", TRUE)) = "REGISTERED"
  /\ Kind(ResponsePacket("REGISTER_MASTER", FALSE)) = "REFUSED"
  /\ Kind(ResponsePacket("SETUP_GAME", TRUE)) = "SET_UP"
  /\ Kind(ResponsePacket("SETUP_GAME", FALSE)) = "NOTHING"
  /\ Kind(ResponsePacket("START_GAME", TRUE)) = "STARTED"
  /\ Kind(Packet("PRESETUP_AVAILABLE_INFO")) = "PRESETUP"
  /\ Kind(NewMasterAccepted) = "NEW_MASTER"
  /\ Packet("STORAGE_ACCESS").type = "STORAGE_ACCESS"
  /\ \A b : Kind(BuzzerLockPacket(b)) = "NOTHING"
  /\ \A media : Kind(MediaStatePacket(media)) = "NOTHING"
<1>1. /\ Kind(ResponsePacket("REGISTER_MASTER", TRUE)) = "REGISTERED"
      /\ Kind(ResponsePacket("REGISTER_MASTER", FALSE)) = "REFUSED"
      /\ Kind(ResponsePacket("SETUP_GAME", TRUE)) = "SET_UP"
      /\ Kind(ResponsePacket("SETUP_GAME", FALSE)) = "NOTHING"
      /\ Kind(ResponsePacket("START_GAME", TRUE)) = "STARTED"
  BY DEF Kind, KindOfResponse, ResponsePacket
<1>2. /\ Kind(Packet("PRESETUP_AVAILABLE_INFO")) = "PRESETUP"
      /\ Packet("STORAGE_ACCESS").type = "STORAGE_ACCESS"
  BY DEF Kind, Packet
<1>3. /\ \A b : Kind(BuzzerLockPacket(b)) = "NOTHING"
      /\ \A media : Kind(MediaStatePacket(media)) = "NOTHING"
  BY DEF Kind, BuzzerLockPacket, MediaStatePacket
<1>4. Kind(NewMasterAccepted) = "NEW_MASTER"
  BY DEF Kind, NewMasterAccepted, DataForScreen
<1> QED
  BY <1>1, <1>2, <1>3, <1>4

LEMMA PairLemma == \A a, b : <<a, b>> = <<a>> \o <<b>>
<1> SUFFICES ASSUME NEW a, NEW b PROVE <<a, b>> = <<a>> \o <<b>>
  OBVIOUS
<1>1. <<a>> \in Seq({a, b}) /\ <<b>> \in Seq({a, b}) /\ <<a, b>> \in Seq({a, b})
  OBVIOUS
<1>2. PICK q : q = <<a>> \o <<b>>
  OBVIOUS
<1>3. q \in Seq({a, b}) /\ Len(q) = 2 /\ q[1] = a /\ q[2] = b
  BY <1>1, <1>2
<1>4. PICK r : r = <<a, b>>
  OBVIOUS
<1>5. r \in Seq({a, b}) /\ Len(r) = 2 /\ r[1] = a /\ r[2] = b
  BY <1>1, <1>4
<1>6. \A i \in 1 .. Len(r) : r[i] = q[i]
  BY <1>3, <1>5
<1>7. Len(r) = Len(q)
  BY <1>3, <1>5
<1>8. r = q
  BY ONLY <1>3, <1>5, <1>6, <1>7, SeqEqual
<1> QED
  BY <1>2, <1>4, <1>8

LEMMA TellLemma ==
  ASSUME SeatInv, NEW c \in MasterConn, NEW x, NEW y
  PROVE  /\ Tell(x, y) /\ c = master => sent'[c] = x /\ \A d \in MasterConn : d # c => sent'[d] = <<>>
         /\ TellOne(c, x) => sent'[c] = x /\ \A d \in MasterConn : d # c => sent'[d] = <<>>
         /\ TellNobody => \A d \in MasterConn : sent'[d] = <<>>
<1>1. MasterConn \subseteq Conn /\ screens \cap MasterConn = {}
  BY ConnAssumption DEF Conn, SeatInv, ServerTypeOK
<1>2. ASSUME Tell(x, y), c = master PROVE sent'[c] = x /\ \A d \in MasterConn : d # c => sent'[d] = <<>>
  <2>1. \A d \in Conn : sent'[d] = CASE d = master -> x [] d \in screens -> y [] OTHER -> <<>>
    BY <1>2 DEF Tell
  <2>2. sent'[c] = x
    BY <1>1, <1>2, <2>1
  <2>3. ASSUME NEW d \in MasterConn, d # c PROVE sent'[d] = <<>>
    BY <1>1, <1>2, <2>1, <2>3
  <2> QED
    BY <2>2, <2>3
<1>3. ASSUME TellOne(c, x) PROVE sent'[c] = x /\ \A d \in MasterConn : d # c => sent'[d] = <<>>
  BY <1>1, <1>3 DEF TellOne
<1>4. ASSUME TellNobody PROVE \A d \in MasterConn : sent'[d] = <<>>
  BY <1>1, <1>4 DEF TellNobody
<1> QED
  BY <1>2, <1>3, <1>4

LEMMA HandlesLemma ==
  ASSUME NEW c, NEW m, m.type \in Sendable, Handles(c, m)
  PROVE  \/ m.type = "REGISTER_MASTER" /\ RegisterAgain(c)
         \/ m.type = "REGISTER_MASTER" /\ RegisterMaster(c, TRUE) /\ m.takeOver
         \/ m.type = "REGISTER_MASTER" /\ RegisterMaster(c, FALSE)
         \/ m.type = "REGISTER_MASTER" /\ TakeOver(c) /\ m.takeOver
         \/ m.type = "REGISTER_MASTER" /\ RefuseMaster(c, FALSE)
         \/ m.type = "SETUP_GAME" /\ c = master /\ SetupGame(Team, None, FALSE, FALSE)
         \/ m.type = "START_GAME" /\ c = master /\ StartGame
         \/ m.type = "START_GAME" /\ c = master /\ StartGameRefused
         \/ m.type = "END_GAME" /\ c = master /\ EndGame
         \/ m.type = "RESET_SERVER" /\ c = master /\ ResetServer
         \/ m.type # "REGISTER_MASTER" /\ (c = master => m.type = "SETUP_GAME") /\ IgnorePacket
<1>1. CASE m.type = "REGISTER_MASTER"
  <2>1. IF m.takeOver THEN RegisterAgain(c) \/ RegisterMaster(c, TRUE) \/ TakeOver(c)
                      ELSE RegisterAgain(c) \/ RegisterMaster(c, FALSE) \/ RefuseMaster(c, FALSE)
    BY <1>1 DEF Handles
  <2> QED
    BY <1>1, <2>1
<1>2. CASE m.type = "SETUP_GAME"
  <2>1. IF c = master /\ state = "WAITING_FOR_SETUP" THEN SetupGame(Team, None, FALSE, FALSE) ELSE IgnorePacket
    BY <1>2 DEF Handles
  <2> QED
    BY <1>2, <2>1
<1>3. CASE m.type = "START_GAME"
  <2>1. IF c = master THEN StartGame \/ StartGameRefused ELSE IgnorePacket
    BY <1>3 DEF Handles
  <2> QED
    BY <1>3, <2>1
<1>4. CASE m.type = "END_GAME"
  <2>1. IF c = master THEN EndGame ELSE IgnorePacket
    BY <1>4 DEF Handles
  <2> QED
    BY <1>4, <2>1
<1>5. CASE m.type = "RESET_SERVER"
  <2>1. IF c = master THEN ResetServer ELSE IgnorePacket
    BY <1>5 DEF Handles
  <2> QED
    BY <1>5, <2>1
<1> QED
  BY <1>1, <1>2, <1>3, <1>4, <1>5 DEF Sendable

\* a device that gets a free seat is welcomed to a setup or to the game that goes on
LEMMA WelcomeLemma ==
  ASSUME NEW c, NEW s, NEW p, BecomeMaster(c, s, p),
         s = "WAITING_FOR_MASTER" \/ (s = "LOST_MASTER" /\ p \in {"WAITING_FOR_START", "PLAYING"})
  PROVE  /\ state' = IF s = "WAITING_FOR_MASTER" THEN "WAITING_FOR_SETUP" ELSE "WAITING_FOR_START"
         /\ master' = c /\ lastMasterId' = DeviceOf[c]
         /\ Welcome(s, p) =
              IF s = "WAITING_FOR_MASTER"
              THEN <<Packet("STORAGE_ACCESS")>> \o
                     (<<ResponsePacket("REGISTER_MASTER", TRUE)>> \o <<Packet("PRESETUP_AVAILABLE_INFO")>>)
              ELSE <<Packet("STORAGE_ACCESS")>> \o <<NewMasterAccepted>>
<1>1. <<ResponsePacket("REGISTER_MASTER", TRUE), Packet("PRESETUP_AVAILABLE_INFO")>> =
        <<ResponsePacket("REGISTER_MASTER", TRUE)>> \o <<Packet("PRESETUP_AVAILABLE_INFO")>>
  BY PairLemma
<1>2. CASE s = "WAITING_FOR_MASTER"
  BY <1>1, <1>2 DEF BecomeMaster, Welcome, Rejoins
<1>3. CASE s = "LOST_MASTER" /\ p \in {"WAITING_FOR_START", "PLAYING"}
  BY <1>3 DEF BecomeMaster, Welcome, Rejoins
<1> QED
  BY <1>2, <1>3
\* what the handler is called with
LEMMA ReceivesLemma ==
  ASSUME PagesInv, NEW c \in MasterConn, NEW p \in Page, page[p].conn = c, ServerReceives(c)
  PROVE  /\ Good(page[p], InBox(p), OutBox(p), IsMaster(p), Live(p), Safe(p), state)
         /\ IsMaster(p) = (c = master) /\ Live(p) \in BOOLEAN
         /\ c # None /\ page[p].conn # None /\ OutBox(p) # <<>> /\ c \in open
         /\ IsSeq(InBox(p)) /\ InBox(p) \o <<>> = InBox(p)
         /\ Head(OutBox(p)).type \in Sendable /\ Handles(c, Head(OutBox(p)))
         /\ NoGame => Safe(p)
         /\ c = master => (Safe(p) <=> NoGame)
         /\ Safe(p) /\ lastMasterId = DeviceOf[c] => NoGame
         /\ NoGame' => Safe(p)'
         /\ UNCHANGED <<lastMasterId, state>> => Safe(p)' = Safe(p)
<1>1. LinksInv /\ SeatInv
  BY DEF PagesInv
<1>2. c # None /\ page[p].conn # None
  BY NoneLemma
<1>3. c \in ConnsOf[p]
  BY <1>1, <1>2 DEF LinksInv
<1>4. OutBox(p) = toServer[c]
  BY <1>1, <1>2, ConnLemma
<1>5. OutBox(p) # <<>> /\ Handles(c, Head(OutBox(p))) /\ c \in open
  BY <1>4 DEF ServerReceives
<1>6. /\ Good(page[p], InBox(p), OutBox(p), IsMaster(p), Live(p), Safe(p), state)
      /\ Live(p) \in BOOLEAN /\ IsSeq(InBox(p))
  BY BoxLemma
<1>7. GoodOut(page[p], InBox(p), OutBox(p))
  BY <1>6 DEF Good
<1>8. Head(OutBox(p)).type \in Sendable
  BY <1>2, <1>5, <1>7, HeadLemma
<1>9. InBox(p) \o <<>> = InBox(p)
  BY <1>6, ConcatEmpty
<1>10. IsMaster(p) = (c = master)
  BY <1>2 DEF IsMaster
<1>11. /\ NoGame => Safe(p)
       /\ c = master => (Safe(p) <=> NoGame)
       /\ Safe(p) /\ lastMasterId = DeviceOf[c] => NoGame
  BY <1>1, <1>2, <1>3 DEF Safe, LinksInv
<1>12. (NoGame' => Safe(p)') /\ (UNCHANGED <<lastMasterId, state>> => Safe(p)' = Safe(p))
  BY DEF Safe, NoGame
<1> QED
  BY <1>2, <1>5, <1>6, <1>8, <1>9, <1>10, <1>11, <1>12

\* what is to be shown of a handler that leaves the connection open
LEMMA ReceivesOpen ==
  ASSUME OneTabEach, PagesInv, NEW c \in MasterConn, NEW p \in Page, page[p].conn = c, ServerReceives(c),
         SeatStays(c) \/ SeatPasses(c), open' = open, c = master',
         Good(page[p], IF Live(p) THEN InBox(p) \o sent'[c] ELSE InBox(p),
              Tail(OutBox(p)), TRUE, Live(p), Safe(p)', state')
  PROVE  LinksInv' /\ \A o \in Page : PageOK(o)'
<1>1. PICK pg, q, s, isMaster, live, safe, st :
        /\ pg = page[p] /\ q = (IF Live(p) THEN InBox(p) \o sent'[c] ELSE InBox(p))
        /\ s = (IF c \in open' THEN Tail(OutBox(p)) ELSE <<>>) /\ isMaster = (c = master')
        /\ live = (Live(p) /\ c \in open') /\ safe = Safe(p)' /\ st = state'
  OBVIOUS
<1>2. c \in open /\ Live(p) \in BOOLEAN
  BY ReceivesLemma
<1>3. s = Tail(OutBox(p)) /\ isMaster = TRUE /\ live = Live(p)
  BY <1>1, <1>2
<1>4. Good(pg, q, s, isMaster, live, safe, st)
  BY <1>1, <1>3
<1> QED
  BY <1>1, <1>4, ReceivesFrame

LEMMA IgnoreStep ==
  ASSUME OneTabEach, PagesInv, NEW c \in MasterConn, NEW p \in Page, page[p].conn = c, ServerReceives(c),
         Head(OutBox(p)).type # "REGISTER_MASTER", c = master => Head(OutBox(p)).type = "SETUP_GAME",
         IgnorePacket
  PROVE  LinksInv' /\ \A o \in Page : PageOK(o)'
<1>1. PICK pg, q, s, isMaster, live, safe, st :
        /\ pg = page[p] /\ q = InBox(p) /\ s = OutBox(p) /\ isMaster = (c = master)
        /\ live = Live(p) /\ safe = Safe(p) /\ st = state
  OBVIOUS
<1>2. /\ Good(pg, q, s, isMaster, live, safe, st) /\ pg.conn # None /\ s # <<>>
      /\ isMaster \in BOOLEAN /\ live \in BOOLEAN /\ q \o <<>> = q /\ c \in open
  BY <1>1, ReceivesLemma
<1>3. Head(s).type # "REGISTER_MASTER" /\ (isMaster => Head(s).type = "SETUP_GAME")
  BY <1>1
<1>4. /\ TellNobody /\ UNCHANGED <<master, lastMasterId, state, open>>
  BY DEF IgnorePacket, seat, automaton
<1>5. \A d \in MasterConn : sent'[d] = <<>>
  BY <1>4, TellLemma DEF PagesInv
<1>6. SeatStays(c)
  BY <1>4, <1>5 DEF SeatStays
<1>7. PICK m : m = Packet("STORAGE_ACCESS")
  OBVIOUS
<1>8. Kind(m) = "NOTHING"
  BY <1>7 DEF Kind, Packet
<1>9. Good(pg, q, Tail(s), isMaster, live, safe, st)
  BY <1>2, <1>3, <1>8, NotSetUpGood
<1>10. PICK q2, s2, isM2, live2, safe2, st2 :
         /\ q2 = (IF Live(p) THEN InBox(p) \o sent'[c] ELSE InBox(p))
         /\ s2 = (IF c \in open' THEN Tail(OutBox(p)) ELSE <<>>) /\ isM2 = (c = master')
         /\ live2 = (Live(p) /\ c \in open') /\ safe2 = Safe(p)' /\ st2 = state'
  OBVIOUS
<1>11. q2 = q /\ s2 = Tail(s) /\ isM2 = isMaster /\ live2 = live /\ safe2 = safe /\ st2 = st
  BY <1>1, <1>2, <1>4, <1>5, <1>10, ReceivesLemma
<1>12. Good(pg, q2, s2, isM2, live2, safe2, st2)
  BY <1>9, <1>11
<1> QED
  BY <1>1, <1>6, <1>10, <1>12, ReceivesFrame

\* the master's packets that are handled
LEMMA MasterFrame ==
  ASSUME OneTabEach, PagesInv, NEW c \in MasterConn, NEW p \in Page, page[p].conn = c, ServerReceives(c), c = master,
         NEW x, NEW y, Tell(x, y), UNCHANGED seat,
         \A safe2, q2 : (NoGame' => safe2) /\ (state' = state => safe2 = Safe(p))
                        /\ q2 = (IF Live(p) THEN InBox(p) \o x ELSE InBox(p)) =>
           Good(page[p], q2, Tail(OutBox(p)), TRUE, Live(p), safe2, state')
  PROVE  LinksInv' /\ \A o \in Page : PageOK(o)'
<1>1. UNCHANGED <<master, lastMasterId, open>>
  BY DEF seat
<1>2. sent'[c] = x /\ \A d \in MasterConn : d # c => sent'[d] = <<>>
  BY TellLemma DEF PagesInv
<1>3. SeatStays(c)
  BY <1>1, <1>2 DEF SeatStays
<1>4. PICK q2, safe2 : safe2 = Safe(p)' /\ q2 = (IF Live(p) THEN InBox(p) \o sent'[c] ELSE InBox(p))
  OBVIOUS
<1>5. (NoGame' => safe2) /\ (state' = state => safe2 = Safe(p))
  BY <1>1, <1>4, ReceivesLemma
<1>6. q2 = (IF Live(p) THEN InBox(p) \o x ELSE InBox(p))
  BY <1>2, <1>4
<1>7. Good(page[p], q2, Tail(OutBox(p)), TRUE, Live(p), safe2, state')
  BY <1>5, <1>6
<1> QED
  BY <1>1, <1>3, <1>4, <1>7, ReceivesOpen
\* what the lemmas about a page ask of a packet of the master
LEMMA MasterLemma ==
  ASSUME PagesInv, NEW c \in MasterConn, NEW p \in Page, page[p].conn = c, ServerReceives(c), c = master,
         NEW pg, pg = page[p], NEW q, q = InBox(p), NEW s, s = OutBox(p), NEW live, live = Live(p),
         NEW safe, safe = Safe(p), NEW st, st = state
  PROVE  /\ Good(pg, q, s, TRUE, live, safe, st) /\ pg.conn # None /\ s # <<>> /\ live \in BOOLEAN
         /\ q \o <<>> = q
<1>1. IsMaster(p) = TRUE
  BY ReceivesLemma
<1> QED
  BY <1>1, ReceivesLemma

LEMMA SetupGameStep ==
  ASSUME OneTabEach, PagesInv, NEW c \in MasterConn, NEW p \in Page, page[p].conn = c, ServerReceives(c), c = master,
         Head(OutBox(p)).type = "SETUP_GAME", SetupGame(Team, None, FALSE, FALSE)
  PROVE  LinksInv' /\ \A o \in Page : PageOK(o)'
<1>1. PICK pg, q, s, live, safe, st :
        pg = page[p] /\ q = InBox(p) /\ s = OutBox(p) /\ live = Live(p) /\ safe = Safe(p) /\ st = state
  OBVIOUS
<1>2. Good(pg, q, s, TRUE, live, safe, st) /\ pg.conn # None /\ s # <<>> /\ live \in BOOLEAN
  BY <1>1, MasterLemma
<1>3. PICK m, y, x : m = ResponsePacket("SETUP_GAME", TeamsOk(Team)) /\ y = <<DataForScreen'>> /\ x = <<m>>
  OBVIOUS
<1>4. Tell(x, y) /\ UNCHANGED seat
  BY <1>3 DEF SetupGame
<1>5. CASE TeamsOk(Team) = TRUE
  <2>1. Kind(m) = "SET_UP"
    BY <1>3, <1>5, KindsLemma
  <2>2. state' = "WAITING_FOR_START"
    BY <1>5 DEF SetupGame
  <2>3. ASSUME NEW safe2, NEW q2, q2 = (IF live THEN q \o <<m>> ELSE q)
        PROVE  Good(pg, q2, Tail(s), TRUE, live, safe2, "WAITING_FOR_START")
    BY <1>1, <1>2, <2>1, <2>3, SetUpGood
  <2> QED
    BY <1>1, <1>3, <1>4, <2>2, <2>3, MasterFrame
<1>6. CASE TeamsOk(Team) = FALSE
  <2>1. Kind(m) = "NOTHING"
    BY <1>3, <1>6, KindsLemma
  <2>2. state' = st
    BY <1>1, <1>6 DEF SetupGame, automaton
  <2>3. ASSUME NEW q2, q2 = (IF live THEN q \o <<m>> ELSE q)
        PROVE  Good(pg, q2, Tail(s), TRUE, live, safe, st)
    <3>1. Head(s).type = "SETUP_GAME" /\ Head(s).type # "REGISTER_MASTER"
      BY <1>1
    <3>2. q2 = q \/ (live /\ q2 = q \o <<m>>)
      BY <2>3, <1>2
    <3> QED
      BY <1>2, <2>1, <3>1, <3>2, NotSetUpGood
  <2> QED
    BY <1>1, <1>3, <1>4, <2>2, <2>3, MasterFrame
<1> QED
  BY <1>5, <1>6 DEF TeamsOk, SomeTwo, isMixed

LEMMA StartGameStep ==
  ASSUME OneTabEach, PagesInv, NEW c \in MasterConn, NEW p \in Page, page[p].conn = c, ServerReceives(c), c = master,
         Head(OutBox(p)).type = "START_GAME", StartGame
  PROVE  LinksInv' /\ \A o \in Page : PageOK(o)'
<1>1. PICK pg, q, s, live, safe, st :
        pg = page[p] /\ q = InBox(p) /\ s = OutBox(p) /\ live = Live(p) /\ safe = Safe(p) /\ st = state
  OBVIOUS
<1>2. Good(pg, q, s, TRUE, live, safe, st) /\ pg.conn # None /\ s # <<>> /\ live \in BOOLEAN
  BY <1>1, MasterLemma
<1>3. PICK m, a, b, locks, y, x :
        /\ m = ResponsePacket("START_GAME", TRUE) /\ a = BuzzerLockPacket(TRUE) /\ b = MediaStatePacket(FirstMedia)
        /\ locks = (game.welcome /\ ~resumesRunningGame) /\ y = (IF locks THEN <<a>> ELSE <<>>) \o <<b>>
        /\ x = <<m>> \o y
  OBVIOUS
<1>4. Tell(x, y) /\ state' = "PLAYING" /\ UNCHANGED seat
  BY <1>3 DEF StartGame
<1>5. Kind(m) = "STARTED" /\ Kind(a) = "NOTHING" /\ Kind(b) = "NOTHING"
  BY <1>3, KindsLemma
<1>6. x = <<m>> \o <<b>> \/ x = <<m>> \o (<<a>> \o <<b>>)
  <2>1. IsSeq(<<b>>)
    BY OneLemma
  <2>2. <<>> \o <<b>> = <<b>>
    BY <2>1, ConcatEmpty
  <2>3. y = <<b>> \/ y = <<a>> \o <<b>>
    BY <1>3, <2>2
  <2> QED
    BY <1>3, <2>3
<1>7. ASSUME NEW safe2, NEW q2, q2 = (IF live THEN q \o x ELSE q)
      PROVE  Good(pg, q2, Tail(s), TRUE, live, safe2, "PLAYING")
  <2>1. Head(s).type = "START_GAME"
    BY <1>1
  <2> QED
    BY <1>2, <1>5, <1>6, <1>7, <2>1, StartedGood
<1> QED
  BY <1>1, <1>4, <1>7, MasterFrame

LEMMA StartRefusedStep ==
  ASSUME OneTabEach, PagesInv, NEW c \in MasterConn, NEW p \in Page, page[p].conn = c, ServerReceives(c), c = master,
         Head(OutBox(p)).type = "START_GAME", StartGameRefused
  PROVE  LinksInv' /\ \A o \in Page : PageOK(o)'
<1>1. PICK pg, q, s, live, safe, st :
        pg = page[p] /\ q = InBox(p) /\ s = OutBox(p) /\ live = Live(p) /\ safe = Safe(p) /\ st = state
  OBVIOUS
<1>2. Good(pg, q, s, TRUE, live, safe, st) /\ pg.conn # None /\ s # <<>> /\ live \in BOOLEAN
  BY <1>1, MasterLemma
<1>3. PICK x, y : x = <<ResponsePacket("START_GAME", FALSE)>> /\ y = <<>>
  OBVIOUS
<1>4. Tell(x, y) /\ state' = st /\ st # "WAITING_FOR_START" /\ UNCHANGED seat
  BY <1>1, <1>3 DEF StartGameRefused, automaton
<1>5. ASSUME NEW q2, q2 = (IF live THEN q \o x ELSE q)
      PROVE  Good(pg, q2, Tail(s), TRUE, live, safe, st)
  <2>1. Head(s).type = "START_GAME" /\ (live \/ q2 = q)
    BY <1>1, <1>5
  <2> QED
    BY <1>2, <1>4, <2>1, NotStartedGood
<1> QED
  BY <1>1, <1>4, <1>5, MasterFrame

LEMMA EndGameStep ==
  ASSUME OneTabEach, PagesInv, NEW c \in MasterConn, NEW p \in Page, page[p].conn = c, ServerReceives(c), c = master,
         Head(OutBox(p)).type = "END_GAME", EndGame
  PROVE  LinksInv' /\ \A o \in Page : PageOK(o)'
<1>1. PICK pg, q, s, live, safe, st :
        pg = page[p] /\ q = InBox(p) /\ s = OutBox(p) /\ live = Live(p) /\ safe = Safe(p) /\ st = state
  OBVIOUS
<1>2. Good(pg, q, s, TRUE, live, safe, st) /\ pg.conn # None /\ s # <<>> /\ live \in BOOLEAN /\ q \o <<>> = q
  BY <1>1, MasterLemma
<1>3. PICK x, y : x = <<>> /\ y = <<Packet("END_GAME")>>
  OBVIOUS
<1>4. Tell(x, y) /\ state' = "END" /\ UNCHANGED seat
  BY <1>3 DEF EndGame
<1>5. ASSUME NEW safe2, NEW q2, q2 = (IF live THEN q \o x ELSE q)
      PROVE  Good(pg, q2, Tail(s), TRUE, live, safe2, "END")
  <2>1. Head(s).type = "END_GAME" /\ q2 = q
    BY <1>1, <1>2, <1>3, <1>5
  <2>2. Good(pg, q, Tail(s), TRUE, live, safe2, "END")
    BY <1>2, <2>1, EndedGood
  <2> QED
    BY <2>1, <2>2
<1> QED
  BY <1>1, <1>4, <1>5, MasterFrame

LEMMA ResetServerStep ==
  ASSUME OneTabEach, PagesInv, NEW c \in MasterConn, NEW p \in Page, page[p].conn = c, ServerReceives(c), c = master,
         Head(OutBox(p)).type = "RESET_SERVER", ResetServer
  PROVE  LinksInv' /\ \A o \in Page : PageOK(o)'
<1>1. PICK pg, q, s, live, safe, st :
        pg = page[p] /\ q = InBox(p) /\ s = OutBox(p) /\ live = Live(p) /\ safe = Safe(p) /\ st = state
  OBVIOUS
<1>2. Good(pg, q, s, TRUE, live, safe, st) /\ pg.conn # None /\ s # <<>> /\ live \in BOOLEAN
  BY <1>1, MasterLemma
<1>3. PICK m, a, x, y :
        /\ m = Packet("PRESETUP_AVAILABLE_INFO") /\ a = BuzzerLockPacket(FALSE) /\ x = <<m>> \o <<a>>
        /\ y = <<Packet("RESET_SERVER"), BuzzerLockPacket(FALSE)>>
  OBVIOUS
<1>4. x = <<m, a>>
  BY <1>3, PairLemma
<1>5. Tell(x, y) /\ state' = "WAITING_FOR_SETUP" /\ UNCHANGED seat
  BY <1>3, <1>4 DEF ResetServer
<1>6. Kind(m) = "PRESETUP" /\ Kind(a) = "NOTHING"
  BY <1>3, KindsLemma
<1>7. NoGame'
  BY <1>5 DEF NoGame
<1>8. ASSUME NEW safe2, safe2, NEW q2, q2 = (IF live THEN q \o x ELSE q)
      PROVE  Good(pg, q2, Tail(s), TRUE, live, safe2, "WAITING_FOR_SETUP")
  <2>1. Head(s).type = "RESET_SERVER" /\ q2 = (IF live THEN q \o (<<m>> \o <<a>>) ELSE q)
    BY <1>1, <1>3, <1>8
  <2> QED
    BY <1>2, <1>6, <1>8, <2>1, ResetGood
<1> QED
  BY <1>1, <1>5, <1>7, <1>8, MasterFrame

LEMMA RegisterAgainStep ==
  ASSUME OneTabEach, PagesInv, NEW c \in MasterConn, NEW p \in Page, page[p].conn = c, ServerReceives(c),
         Head(OutBox(p)).type = "REGISTER_MASTER", RegisterAgain(c)
  PROVE  LinksInv' /\ \A o \in Page : PageOK(o)'
<1>1. PICK pg, q, s, live, safe, st :
        pg = page[p] /\ q = InBox(p) /\ s = OutBox(p) /\ live = Live(p) /\ safe = Safe(p) /\ st = state
  OBVIOUS
<1>2. c = master
  BY DEF RegisterAgain
<1>3. Good(pg, q, s, TRUE, live, safe, st) /\ pg.conn # None /\ s # <<>> /\ live \in BOOLEAN
  BY <1>1, <1>2, MasterLemma
<1>4. PICK m, a, x, y :
        /\ m = ResponsePacket("REGISTER_MASTER", TRUE) /\ a = Packet("PRESETUP_AVAILABLE_INFO")
        /\ x = <<m>> \o (IF st = "WAITING_FOR_SETUP" THEN <<a>> ELSE <<>>) /\ y = <<>>
  OBVIOUS
<1>5. Tell(x, y) /\ state' = st /\ UNCHANGED seat
  BY <1>1, <1>4 DEF RegisterAgain, automaton
<1>6. Kind(m) = "REGISTERED" /\ Kind(a) = "PRESETUP"
  BY <1>4, KindsLemma
<1>7. x = (IF st = "WAITING_FOR_SETUP" THEN <<m>> \o <<a>> ELSE <<m>>)
  <2>1. IsSeq(<<m>>)
    BY OneLemma
  <2>2. <<m>> \o <<>> = <<m>>
    BY <2>1, ConcatEmpty
  <2> QED
    BY <1>4, <2>2
<1>8. st = "WAITING_FOR_SETUP" => safe
  BY <1>1, ReceivesLemma DEF NoGame
<1>9. ASSUME NEW q2, q2 = (IF live THEN q \o x ELSE q)
      PROVE  Good(pg, q2, Tail(s), TRUE, live, safe, st)
  <2>1. Head(s).type = "REGISTER_MASTER"
    BY <1>1
  <2> QED
    BY <1>3, <1>6, <1>7, <1>8, <1>9, <2>1, RegisterAgainGood
<1> QED
  BY <1>1, <1>2, <1>5, <1>9, MasterFrame
\* the packets with which c becomes the master, and its page
LEMMA NewMasterStep ==
  ASSUME OneTabEach, PagesInv, NEW c \in MasterConn, NEW p \in Page, page[p].conn = c, ServerReceives(c), c # master,
         Head(OutBox(p)).type = "REGISTER_MASTER", SeatPasses(c), NEW s1, NEW p1, BecomeMaster(c, s1, p1),
         s1 = "WAITING_FOR_MASTER" \/ (s1 = "LOST_MASTER" /\ p1 \in {"WAITING_FOR_START", "PLAYING"}),
         sent'[c] = Welcome(s1, p1),
         Head(OutBox(p)).takeOver \/ (Safe(p) => s1 = "WAITING_FOR_MASTER")
  PROVE  LinksInv' /\ \A o \in Page : PageOK(o)'
<1>1. PICK pg, q, s, live, safe, st :
        pg = page[p] /\ q = InBox(p) /\ s = OutBox(p) /\ live = Live(p) /\ safe = Safe(p) /\ st = state
  OBVIOUS
<1>2. Good(pg, q, s, FALSE, live, safe, st) /\ pg.conn # None /\ s # <<>> /\ live \in BOOLEAN
  <2>1. IsMaster(p) = FALSE
    BY ReceivesLemma
  <2> QED
    BY <1>1, <2>1, ReceivesLemma
<1>3. PICK k, m, a, n, x :
        /\ k = Packet("STORAGE_ACCESS") /\ m = ResponsePacket("REGISTER_MASTER", TRUE)
        /\ a = Packet("PRESETUP_AVAILABLE_INFO") /\ n = NewMasterAccepted /\ x = Welcome(s1, p1)
  OBVIOUS
<1>4. k.type = "STORAGE_ACCESS" /\ Kind(m) = "REGISTERED" /\ Kind(a) = "PRESETUP" /\ Kind(n) = "NEW_MASTER"
  BY <1>3, KindsLemma
<1>5. PICK st2, safe2, q2 :
        st2 = state' /\ safe2 = Safe(p)' /\ q2 = (IF Live(p) THEN InBox(p) \o sent'[c] ELSE InBox(p))
  OBVIOUS
<1>6. /\ st2 = (IF s1 = "WAITING_FOR_MASTER" THEN "WAITING_FOR_SETUP" ELSE "WAITING_FOR_START")
      /\ master' = c
      /\ x = (IF s1 = "WAITING_FOR_MASTER" THEN <<k>> \o (<<m>> \o <<a>>) ELSE <<k>> \o <<n>>)
  BY <1>3, <1>5, WelcomeLemma
<1>7. /\ st2 \in {"WAITING_FOR_SETUP", "WAITING_FOR_START"}
      /\ st2 = "WAITING_FOR_SETUP" <=> s1 = "WAITING_FOR_MASTER"
  BY <1>6
<1>8. st2 = "WAITING_FOR_SETUP" => safe2
  BY <1>5, ReceivesLemma DEF NoGame
<1>9. x = (IF st2 = "WAITING_FOR_SETUP" THEN <<k>> \o (<<m>> \o <<a>>) ELSE <<k>> \o <<n>>)
  BY <1>6, <1>7
<1>10. q2 = (IF live THEN q \o x ELSE q)
  BY <1>1, <1>3, <1>5
<1>11. Head(s).type = "REGISTER_MASTER" /\ MayTake(s, safe, st2)
  BY <1>1, <1>7 DEF MayTake
<1>12. Good(pg, q2, Tail(s), TRUE, live, safe2, st2)
  BY ONLY <1>2, <1>4, <1>7, <1>8, <1>9, <1>10, <1>11, TakesSeatGood
<1>13. open' = open
  BY DEF SeatPasses
<1> QED
  BY <1>1, <1>5, <1>6, <1>12, <1>13, ReceivesOpen

LEMMA RegisterMasterStep ==
  ASSUME OneTabEach, PagesInv, NEW c \in MasterConn, NEW p \in Page, page[p].conn = c, ServerReceives(c),
         Head(OutBox(p)).type = "REGISTER_MASTER", NEW takeOver, RegisterMaster(c, takeOver),
         takeOver => Head(OutBox(p)).takeOver
  PROVE  LinksInv' /\ \A o \in Page : PageOK(o)'
<1>1. LinksInv /\ SeatInv
  BY DEF PagesInv
<1>2. /\ master = None /\ mayBecomeMaster(c, takeOver) /\ BecomeMaster(c, state, previous)
      /\ TellOne(c, Welcome(state, previous)) /\ open' = open
  BY DEF RegisterMaster
<1>3. c # master
  BY <1>2, NoneLemma
<1>4. state = "WAITING_FOR_MASTER" \/ (state = "LOST_MASTER" /\ previous \in {"WAITING_FOR_START", "PLAYING"})
  BY <1>1, <1>2 DEF SeatInv, SeatMatchesState
<1>5. sent'[c] = Welcome(state, previous) /\ \A d \in MasterConn : d # c => sent'[d] = <<>>
  BY <1>1, <1>2, TellLemma
<1>6. SeatPasses(c)
  BY <1>2, <1>3, <1>5 DEF SeatPasses, BecomeMaster
<1>7. Head(OutBox(p)).takeOver \/ (Safe(p) => state = "WAITING_FOR_MASTER")
  <2>1. CASE takeOver
    BY <2>1
  <2>2. CASE ~takeOver
    <3>1. state # "LOST_MASTER" \/ DeviceOf[c] = lastMasterId
      BY <1>2, <2>2 DEF mayBecomeMaster
    <3>2. Safe(p) /\ lastMasterId = DeviceOf[c] => NoGame
      BY ReceivesLemma
    <3> QED
      BY <1>4, <3>1, <3>2 DEF NoGame
  <2> QED
    BY <2>1, <2>2
<1> QED
  BY <1>2, <1>3, <1>4, <1>5, <1>6, <1>7, NewMasterStep

LEMMA TakeOverStep ==
  ASSUME OneTabEach, PagesInv, NEW c \in MasterConn, NEW p \in Page, page[p].conn = c, ServerReceives(c),
         Head(OutBox(p)).type = "REGISTER_MASTER", TakeOver(c), Head(OutBox(p)).takeOver
  PROVE  LinksInv' /\ \A o \in Page : PageOK(o)'
<1>1. SeatInv
  BY DEF PagesInv
<1>2. /\ master \notin {None, c} /\ BecomeMaster(c, StateWithoutMaster, PreviousWithoutMaster) /\ open' = open
      /\ sent' = [x \in Conn |-> CASE x = c -> Welcome(StateWithoutMaster, PreviousWithoutMaster)
                                   [] x = master -> <<Packet("MASTER_TAKEN_OVER")>>
                                   [] x \in screens /\ state = "END" ->
                                        <<BuzzerLockPacket(FALSE), Packet("RESET_SERVER")>>
                                   [] OTHER -> <<>>]
  BY DEF TakeOver
<1>3. PICK s1, p1 : s1 = StateWithoutMaster /\ p1 = PreviousWithoutMaster
  OBVIOUS
<1>4. s1 = "WAITING_FOR_MASTER" \/ (s1 = "LOST_MASTER" /\ p1 \in {"WAITING_FOR_START", "PLAYING"})
  BY <1>1, <1>2, <1>3 DEF SeatInv, ServerTypeOK, State, SeatMatchesState, StateWithoutMaster, PreviousWithoutMaster
<1>5. MasterConn \subseteq Conn /\ screens \cap MasterConn = {} /\ master \in MasterConn
  BY <1>1, <1>2, ConnAssumption DEF Conn, SeatInv, ServerTypeOK
<1>6. sent'[c] = Welcome(s1, p1)
  BY <1>2, <1>3, <1>5
<1>7. sent'[master] = <<Packet("MASTER_TAKEN_OVER")>>
  BY <1>2, <1>5
<1>8. \A d \in MasterConn : d \notin {c, master} => sent'[d] = <<>>
  BY <1>2, <1>5
<1>9. SeatPasses(c)
  BY <1>2, <1>7, <1>8 DEF SeatPasses, BecomeMaster
<1>10. BecomeMaster(c, s1, p1)
  BY <1>2, <1>3
<1> QED
  BY <1>2, <1>4, <1>6, <1>9, <1>10, NewMasterStep

LEMMA RefuseMasterStep ==
  ASSUME OneTabEach, PagesInv, NEW c \in MasterConn, NEW p \in Page, page[p].conn = c, ServerReceives(c),
         Head(OutBox(p)).type = "REGISTER_MASTER", RefuseMaster(c, FALSE)
  PROVE  LinksInv' /\ \A o \in Page : PageOK(o)'
<1>1. PICK pg, q, s, live, safe, st :
        pg = page[p] /\ q = InBox(p) /\ s = OutBox(p) /\ live = Live(p) /\ safe = Safe(p) /\ st = state
  OBVIOUS
<1>2. /\ c # master /\ open' = open \ {c} /\ TellOne(c, <<ResponsePacket("REGISTER_MASTER", FALSE)>>)
      /\ UNCHANGED <<master, lastMasterId, state>>
  BY DEF RefuseMaster, automaton
<1>3. Good(pg, q, s, FALSE, live, safe, st) /\ pg.conn # None /\ s # <<>> /\ live \in BOOLEAN
  <2>1. IsMaster(p) = FALSE
    BY <1>2, ReceivesLemma
  <2> QED
    BY <1>1, <2>1, ReceivesLemma
<1>4. PICK m : m = ResponsePacket("REGISTER_MASTER", FALSE)
  OBVIOUS
<1>5. Kind(m) = "REFUSED" /\ Head(s).type = "REGISTER_MASTER"
  BY <1>1, <1>4, KindsLemma
<1>6. sent'[c] = <<m>> /\ \A d \in MasterConn : d # c => sent'[d] = <<>>
  BY <1>2, <1>4, TellLemma DEF PagesInv
<1>7. SeatStays(c)
  BY <1>2, <1>6 DEF SeatStays
<1>8. PICK q2, s2, isM2, live2, safe2, st2 :
        /\ q2 = (IF Live(p) THEN InBox(p) \o sent'[c] ELSE InBox(p))
        /\ s2 = (IF c \in open' THEN Tail(OutBox(p)) ELSE <<>>) /\ isM2 = (c = master')
        /\ live2 = (Live(p) /\ c \in open') /\ safe2 = Safe(p)' /\ st2 = state'
  OBVIOUS
<1>9. /\ q2 = (IF live THEN q \o <<m>> ELSE q) /\ s2 = <<>> /\ isM2 = FALSE /\ live2 = FALSE
      /\ safe2 = safe /\ st2 = st
  BY <1>1, <1>2, <1>6, <1>8, ReceivesLemma
<1>10. Good(pg, q2, <<>>, FALSE, FALSE, safe, st)
  BY <1>3, <1>5, <1>9, RefusedGood
<1>11. Good(pg, q2, s2, isM2, live2, safe2, st2)
  BY <1>9, <1>10
<1> QED
  BY <1>1, <1>7, <1>8, <1>11, ReceivesFrame

LEMMA ServerReceivesStep ==
  ASSUME OneTabEach, PagesInv, NEW c \in MasterConn, ServerReceives(c)
  PROVE  LinksInv' /\ \A o \in Page : PageOK(o)'
<1>1. PICK p \in Page : page[p].conn = c
  BY DEF PagesInv, LinksInv, ServerReceives, PageIsGone
<1>2. PICK m : m = Head(OutBox(p))
  OBVIOUS
<1>3. m.type \in Sendable /\ Handles(c, m)
  BY <1>1, <1>2, ReceivesLemma
<1>4. \/ m.type = "REGISTER_MASTER" /\ RegisterAgain(c)
      \/ m.type = "REGISTER_MASTER" /\ RegisterMaster(c, TRUE) /\ m.takeOver
      \/ m.type = "REGISTER_MASTER" /\ RegisterMaster(c, FALSE)
      \/ m.type = "REGISTER_MASTER" /\ TakeOver(c) /\ m.takeOver
      \/ m.type = "REGISTER_MASTER" /\ RefuseMaster(c, FALSE)
      \/ m.type = "SETUP_GAME" /\ c = master /\ SetupGame(Team, None, FALSE, FALSE)
      \/ m.type = "START_GAME" /\ c = master /\ StartGame
      \/ m.type = "START_GAME" /\ c = master /\ StartGameRefused
      \/ m.type = "END_GAME" /\ c = master /\ EndGame
      \/ m.type = "RESET_SERVER" /\ c = master /\ ResetServer
      \/ m.type # "REGISTER_MASTER" /\ (c = master => m.type = "SETUP_GAME") /\ IgnorePacket
  BY <1>3, HandlesLemma
<1>5. CASE m.type = "REGISTER_MASTER" /\ RegisterAgain(c)
  BY <1>1, <1>2, <1>5, RegisterAgainStep
<1>6. CASE m.type = "REGISTER_MASTER" /\ RegisterMaster(c, TRUE) /\ m.takeOver
  BY <1>1, <1>2, <1>6, RegisterMasterStep
<1>7. CASE m.type = "REGISTER_MASTER" /\ RegisterMaster(c, FALSE)
  BY <1>1, <1>2, <1>7, RegisterMasterStep
<1>8. CASE m.type = "REGISTER_MASTER" /\ TakeOver(c) /\ m.takeOver
  BY <1>1, <1>2, <1>8, TakeOverStep
<1>9. CASE m.type = "REGISTER_MASTER" /\ RefuseMaster(c, FALSE)
  BY <1>1, <1>2, <1>9, RefuseMasterStep
<1>10. CASE m.type = "SETUP_GAME" /\ c = master /\ SetupGame(Team, None, FALSE, FALSE)
  BY <1>1, <1>2, <1>10, SetupGameStep
<1>11. CASE m.type = "START_GAME" /\ c = master /\ StartGame
  BY <1>1, <1>2, <1>11, StartGameStep
<1>12. CASE m.type = "START_GAME" /\ c = master /\ StartGameRefused
  BY <1>1, <1>2, <1>12, StartRefusedStep
<1>13. CASE m.type = "END_GAME" /\ c = master /\ EndGame
  BY <1>1, <1>2, <1>13, EndGameStep
<1>14. CASE m.type = "RESET_SERVER" /\ c = master /\ ResetServer
  BY <1>1, <1>2, <1>14, ResetServerStep
<1>15. CASE m.type # "REGISTER_MASTER" /\ (c = master => m.type = "SETUP_GAME") /\ IgnorePacket
  BY <1>1, <1>2, <1>15, IgnoreStep
<1> QED
  BY <1>4, <1>5, <1>6, <1>7, <1>8, <1>9, <1>10, <1>11, <1>12, <1>13, <1>14, <1>15
----------------------------------------------------------------------------
(* The server closes a connection; then the initial states and all steps together. *)

LEMMA ClosesLemma ==
  ASSUME PagesInv, NEW c \in MasterConn, ServerCloses(c)
  PROVE  /\ open' = open \ {c} /\ lastMasterId' = lastMasterId
         /\ master' = (IF c = master THEN None ELSE master) /\ (c # master => state' = state)
         /\ NoGame => NoGame'
         /\ \A d \in MasterConn : sent'[d] = <<>>
         /\ UNCHANGED <<page, waiting>> /\ Delivered
         /\ broken' = broken \ {c} /\ dropped' = dropped \ {c}
         /\ toServer'[c] = <<>> /\ (\A d \in MasterConn : d # c => toServer'[d] = toServer[d])
         /\ DOMAIN toServer' = MasterConn /\ DOMAIN toPage' = MasterConn
<1>1. LinksInv /\ SeatInv
  BY DEF PagesInv
<1>2. /\ UNCHANGED <<page, waiting>> /\ Delivered /\ broken' = broken \ {c} /\ dropped' = dropped \ {c}
      /\ toServer' = [toServer EXCEPT ![c] = <<>>]
  BY DEF ServerCloses
<1>3. /\ toServer'[c] = <<>> /\ (\A d \in MasterConn : d # c => toServer'[d] = toServer[d])
      /\ DOMAIN toServer' = MasterConn /\ DOMAIN toPage' = MasterConn
  BY <1>1, <1>2 DEF LinksInv, Delivered
<1>4. CASE c = master
  <2>1. CloseMaster
    BY <1>4 DEF ServerCloses
  <2>2. /\ open' = open \ {c} /\ lastMasterId' = lastMasterId /\ master' = None
        /\ NoGame => NoGame'
    <3>1. /\ open' = open \ {master} /\ lastMasterId' = lastMasterId /\ master' = None /\ master # None
          /\ state' = StateWithoutMaster
      BY <2>1 DEF CloseMaster
    <3>2. NoGame => state = "WAITING_FOR_SETUP"
      BY <3>1, <1>1 DEF NoGame, SeatInv, SeatMatchesState
    <3>3. NoGame => state' = "WAITING_FOR_MASTER"
      BY <3>1, <3>2 DEF StateWithoutMaster
    <3> QED
      BY <3>1, <3>3, <1>4 DEF NoGame
  <2>3. CASE TellNobody
    <3>1. \A d \in MasterConn : sent'[d] = <<>>
      BY <2>3, <1>1, TellLemma
    <3> QED
      BY <1>2, <1>3, <1>4, <2>2, <3>1
  <2>4. CASE Tell(<<>>, <<BuzzerLockPacket(FALSE), Packet("RESET_SERVER")>>)
    <3>1. PICK x, y : x = <<>> /\ y = <<BuzzerLockPacket(FALSE), Packet("RESET_SERVER")>>
      OBVIOUS
    <3>2. Tell(x, y)
      BY <2>4, <3>1
    <3>3. sent'[c] = x /\ \A d \in MasterConn : d # c => sent'[d] = <<>>
      BY <3>2, <1>1, <1>4, TellLemma
    <3>4. \A d \in MasterConn : sent'[d] = <<>>
      BY <3>1, <3>3
    <3> QED
      BY <1>2, <1>3, <1>4, <2>2, <3>4
  <2> QED
    BY <2>1, <2>3, <2>4 DEF CloseMaster
<1>5. CASE c # master
  <2>1. CloseOther(c)
    BY <1>5 DEF ServerCloses
  <2>2. open' = open \ {c} /\ UNCHANGED <<lastMasterId, master, state>> /\ TellNobody
    BY <2>1 DEF CloseOther, automaton
  <2>3. \A d \in MasterConn : sent'[d] = <<>>
    BY <2>2, <1>1, TellLemma
  <2>4. NoGame => NoGame'
    BY <2>2 DEF NoGame
  <2> QED
    BY <1>2, <1>3, <1>5, <2>2, <2>3, <2>4
<1> QED
  BY <1>4, <1>5

LEMMA ServerClosesStep ==
  ASSUME PagesInv, NEW c \in MasterConn, ServerCloses(c)
  PROVE  LinksInv' /\ \A o \in Page : PageOK(o)'
<1>1. /\ open' = open \ {c} /\ lastMasterId' = lastMasterId
      /\ master' = (IF c = master THEN None ELSE master) /\ (c # master => state' = state)
      /\ NoGame => NoGame'
      /\ \A d \in MasterConn : sent'[d] = <<>>
      /\ UNCHANGED <<page, waiting>> /\ Delivered
      /\ broken' = broken \ {c} /\ dropped' = dropped \ {c}
      /\ toServer'[c] = <<>> /\ (\A d \in MasterConn : d # c => toServer'[d] = toServer[d])
      /\ DOMAIN toServer' = MasterConn /\ DOMAIN toPage' = MasterConn
  BY ClosesLemma
<1>2. LinksInv
  BY DEF PagesInv
<1>3. LinksInv'
  <2>1. ASSUME NEW d \in MasterConn, (d \notin open \/ d \in broken \/ PageIsGone(d))'
        PROVE  toServer'[d] = <<>>
    <3>1. PageIsGone(d)' = PageIsGone(d)
      BY <1>1 DEF PageIsGone
    <3>2. CASE d # c
      BY <2>1, <3>1, <3>2, <1>1, <1>2 DEF LinksInv
    <3> QED
      BY <3>2, <1>1
  <2>2. /\ DOMAIN page' = Page /\ DOMAIN waiting' = Page
        /\ \A o \in Page : page'[o].conn \in ConnsOf[o] \cup {None} /\ (page'[o].conn # None => waiting'[o] = <<>>)
    BY <1>1, <1>2 DEF LinksInv
  <2>3. /\ (broken \subseteq open /\ dropped \subseteq open)'
        /\ (master # None => lastMasterId = DeviceOf[master])'
    BY <1>1, <1>2 DEF LinksInv
  <2> QED
    BY <1>1, <2>1, <2>2, <2>3 DEF LinksInv
<1>4. ASSUME NEW o \in Page PROVE PageOK(o)'
  <2>1. PageOK(o) /\ page'[o] = page[o] /\ (Safe(o) => Safe(o)')
    BY <1>1 DEF PagesInv, Safe
  <2>2. page[o].conn # None => page[o].conn \in MasterConn
    BY <1>2, ConnLemma
  <2>3. InBox(o)' = InBox(o)
    <3>1. CASE page[o].conn = None
      BY <3>1, <1>1 DEF InBox
    <3>2. CASE page[o].conn # None
      BY <3>2, <2>2, <1>1, DeliveredLemma
    <3> QED
      BY <3>1, <3>2
  <2>4. CASE page[o].conn # c
    <3>1. OutBox(o)' = OutBox(o)
      BY <2>2, <2>4, <1>1 DEF OutBox
    <3>2. IsMaster(o)' = IsMaster(o) /\ Live(o)' = Live(o) /\ (IsMaster(o) => state' = state)
      BY <2>4, <1>1 DEF IsMaster, Live
    <3> QED
      BY <2>1, <2>3, <3>1, <3>2, UntouchedOK
  <2>5. CASE page[o].conn = c
    <3>1. PICK pg, q, s, isMaster, live, safe, st, safe2, st2 :
            /\ pg = page[o] /\ q = InBox(o) /\ s = OutBox(o) /\ isMaster = IsMaster(o) /\ live = Live(o)
            /\ safe = Safe(o) /\ st = state /\ safe2 = Safe(o)' /\ st2 = state'
      OBVIOUS
    <3>2. c # None
      BY NoneLemma
    <3>3. Good(pg, q, s, isMaster, live, safe, st) /\ pg.conn # None
      BY <2>1, <2>5, <3>1, <3>2 DEF PageOK
    <3>4. Good(pg, q, <<>>, FALSE, FALSE, safe, st)
      BY <3>3, ClosedGood
    <3>5. safe => safe2
      BY <2>1, <3>1
    <3>6. Good(pg, q, <<>>, FALSE, FALSE, safe2, st2)
      BY ONLY <3>4, <3>5, KeepGood
    <3>7. OutBox(o)' = <<>> /\ IsMaster(o)' = FALSE /\ Live(o)' = FALSE
      BY <2>5, <3>2, <1>1 DEF OutBox, IsMaster, Live
    <3> QED
      BY <2>1, <2>3, <3>1, <3>6, <3>7 DEF PageOK
  <2> QED
    BY <2>4, <2>5
<1> QED
  BY <1>3, <1>4

LEMMA PagesStart == PagesInit => PagesInv
<1> SUFFICES ASSUME PagesInit PROVE PagesInv
  OBVIOUS
<1>1. /\ page = [p \in Page |-> LoadedPage] /\ waiting = [p \in Page |-> <<RegisterPacket(LoadedPage)>>]
      /\ toServer = [c \in MasterConn |-> <<>>] /\ toPage = [c \in MasterConn |-> <<>>]
      /\ broken = {} /\ dropped = {}
  BY DEF PagesInit
<1>2. SeatInv
  BY SeatInit DEF PagesInit
<1>3. LoadedPage.conn = None
  BY DEF LoadedPage
<1>4. LinksInv
  BY <1>1, <1>3 DEF PagesInit, Init, LinksInv
<1>5. ASSUME NEW p \in Page PROVE PageOK(p)
  <2>1. page[p] = LoadedPage /\ waiting[p] = <<RegisterPacket(LoadedPage)>>
    BY <1>1
  <2>2. InBox(p) = <<>> /\ OutBox(p) = waiting[p] /\ IsMaster(p) = FALSE /\ Live(p) = FALSE
    BY <2>1, <1>3 DEF InBox, OutBox, IsMaster, Live
  <2> QED
    BY <2>1, <2>2, LoadedGood DEF PageOK
<1> QED
  BY <1>2, <1>4, <1>5 DEF PagesInv
\* Every step is one of the server's, or is not seen by it.
LEMMA ServersNext ==
  ASSUME PagesInv, [PagesNext]_world
  PROVE  [Next]_vars
<1>1. ASSUME UNCHANGED world PROVE UNCHANGED vars
  BY <1>1 DEF world
<1>2. ASSUME NEW p \in Page, UserDoes(p) \/ PageSteps(p) \/ Breaks(p) PROVE [Next]_vars
  <2>1. CASE PageConnects(p)
    <3>1. PICK c \in ConnsOf[p] : Connect(c)
      BY <2>1 DEF PageConnects
    <3>2. c \in Conn
      BY <3>1, NoneLemma DEF Conn
    <3> QED
      BY <3>1, <3>2 DEF Next, Connections
  <2>2. CASE UserDoes(p) \/ RetryTimerFires(p)
    BY <2>2 DEF UserDoes, RetryTimerFires, setupGame, endGame, resetServer, registerAgainAsMaster, AsksToTakeOver,
       DoesNotTakeOver, UserReloads, TakesOver, tryAgainAsMaster, Does, PageLoads
  <2>3. CASE PageReceives(p) \/ PageNoticesLoss(p) \/ PageReloads(p) \/ Breaks(p)
    BY <2>3 DEF PageReceives, PageNoticesLoss, PageReloads, PageLoads, Breaks
  <2> QED
    BY <1>2, <2>1, <2>2, <2>3 DEF PageSteps
<1>3. ASSUME NEW c \in MasterConn, ServerReceives(c) PROVE Next
  <2>1. PICK p \in Page : page[p].conn = c
    BY <1>3 DEF PagesInv, LinksInv, ServerReceives, PageIsGone
  <2>2. PICK m : m = Head(OutBox(p))
    OBVIOUS
  <2>3. m.type \in Sendable /\ Handles(c, m)
    BY <1>3, <2>1, <2>2, ReceivesLemma
  <2>4. \/ RegisterAgain(c) \/ RegisterMaster(c, TRUE) \/ RegisterMaster(c, FALSE) \/ TakeOver(c)
        \/ RefuseMaster(c, FALSE) \/ SetupGame(Team, None, FALSE, FALSE) \/ StartGame \/ StartGameRefused
        \/ EndGame \/ ResetServer \/ IgnorePacket
    BY <2>3, HandlesLemma
  <2>5. CASE \/ RegisterAgain(c) \/ RegisterMaster(c, TRUE) \/ RegisterMaster(c, FALSE) \/ TakeOver(c)
             \/ RefuseMaster(c, FALSE)
    BY <2>5 DEF Next, Connections
  <2>6. CASE SetupGame(Team, None, FALSE, FALSE) \/ StartGame \/ StartGameRefused \/ EndGame \/ ResetServer
    <3>1. Team \in SUBSET Team /\ None \in SavedGame \cup {None} /\ FALSE \in BOOLEAN
      OBVIOUS
    <3>2. Setup
      BY <2>6, <3>1 DEF Setup
    <3> QED
      BY <3>2 DEF Next
  <2>7. CASE IgnorePacket
    BY <2>7 DEF Next
  <2> QED
    BY <2>4, <2>5, <2>6, <2>7
<1>4. ASSUME NEW c \in MasterConn, ServerCloses(c) PROVE Next
  <2>1. c \in Conn /\ (CloseMaster \/ CloseOther(c))
    BY <1>4 DEF ServerCloses, Conn
  <2> QED
    BY <2>1 DEF Next, Connections
<1> QED
  BY <1>1, <1>2, <1>3, <1>4 DEF PagesNext

LEMMA PagesStep ==
  ASSUME OneTabEach, PagesInv, [PagesNext]_world
  PROVE  PagesInv'
<1>0. SeatInv'
  BY ServersNext, SeatStep DEF PagesInv
<1>1. CASE UNCHANGED world
  <2>1. UNCHANGED <<vars, page, waiting, toServer, toPage, broken, dropped>>
    BY <1>1 DEF world, links
  <2>2. UNCHANGED <<master, state, open, lastMasterId>>
    BY <2>1 DEF vars, seat, automaton
  <2>3. LinksInv'
    BY <2>1, <2>2 DEF PagesInv, LinksInv, PageIsGone
  <2>4. ASSUME NEW p \in Page PROVE PageOK(p)'
    <3>1. PageOK(p) /\ page'[p] = page[p]
      BY <2>1 DEF PagesInv
    <3>2. /\ InBox(p)' = InBox(p) /\ OutBox(p)' = OutBox(p) /\ IsMaster(p)' = IsMaster(p)
          /\ Live(p)' = Live(p) /\ Safe(p)' = Safe(p) /\ state' = state
      BY <2>1, <2>2 DEF InBox, OutBox, IsMaster, Live, Safe, NoGame
    <3> QED
      BY <3>1, <3>2, UntouchedOK
  <2> QED
    BY <1>0, <2>3, <2>4 DEF PagesInv
<1>2. ASSUME NEW p \in Page, UserDoes(p) \/ PageSteps(p) \/ Breaks(p)
      PROVE  LinksInv' /\ \A o \in Page : PageOK(o)'
  <2>1. CASE PageReloads(p)
    <3>1. PageLoads(p) /\ page[p].conn = None
      BY <2>1 DEF PageReloads
    <3> QED
      BY <3>1, PageLoadsStep
  <2> QED
    BY <1>2, <2>1, UserStep, PageReceivesStep, PageNoticesLossStep, PageConnectsStep, BreaksStep DEF PageSteps
<1>3. ASSUME NEW c \in MasterConn, ServerReceives(c) \/ ServerCloses(c)
      PROVE  LinksInv' /\ \A o \in Page : PageOK(o)'
  BY <1>3, ServerReceivesStep, ServerClosesStep
<1> QED
  BY <1>0, <1>1, <1>2, <1>3 DEF PagesNext, PagesInv

\* What the invariant says of a page that nothing is on its way to or from.
LEMMA SettledFits ==
  ASSUME PagesInv, NEW p \in Page, Settled(p), page[p].conn = master, ~page[p].interrupted
  PROVE  Fits(p) /\ state # "WAITING_FOR_START"
<1>1. PICK pg, q, s, isMaster, live, safe, st :
        /\ pg = page[p] /\ q = InBox(p) /\ s = OutBox(p) /\ isMaster = IsMaster(p) /\ live = Live(p)
        /\ safe = Safe(p) /\ st = state
  OBVIOUS
<1>2. SeatInv /\ LinksInv
  BY DEF PagesInv
<1>3. page[p].conn # None
  BY <1>2, ConnAssumption DEF Settled, SeatInv, ServerTypeOK
<1>4. q = <<>> /\ s = <<>> /\ isMaster = TRUE /\ live = TRUE
  BY <1>1, <1>3 DEF Settled, InBox, OutBox, IsMaster, Live
<1>5. Good(pg, q, s, isMaster, live, safe, st) /\ GoodPage(pg)
  BY <1>1, BoxLemma
<1>6. PICK w : /\ Reach(View(pg), q, s, w, SafeViews(pg, s, isMaster, safe))
               /\ live /\ isMaster =>
                    /\ pg.token = pg.conn \/ Has(q, "STORAGE_ACCESS")
                    /\ InStep(pg, s, st, w)
  BY <1>5, GoodReach
<1>7. Reach(View(pg), <<>>, s, w, SafeViews(pg, s, isMaster, safe))
  BY <1>4, <1>6
<1>8. w = View(pg)
  BY <1>7, ReachEmpty
<1>9. pg.token = pg.conn /\ InStep(pg, <<>>, st, View(pg)) /\ \A t : ~Has(<<>>, t)
  BY <1>4, <1>6, <1>8, EmptyLemma
<1>10. ~pg.interrupted
  BY <1>1
<1>11. \/ View(pg) \in {"RECEIVED_PRESETUP_DATA", "SETTING_UP"} /\ st = "WAITING_FOR_SETUP"
       \/ View(pg) = "READY_TO_START" /\ st = "WAITING_FOR_START" /\ pg.state # "READY_TO_START"
       \/ View(pg) = "PLAYING" /\ st = "PLAYING"
       \/ View(pg) = "END" /\ st = "END"
  BY <1>9, <1>10 DEF InStep
<1>12. \/ pg.state = "RECEIVED_PRESETUP_DATA" /\ st = "WAITING_FOR_SETUP"
       \/ pg.state = "PLAYING" /\ st = "PLAYING"
       \/ pg.state = "END" /\ st = "END"
  BY <1>5, <1>11, ViewLemma
<1>13. page[p].token = token
  BY <1>1, <1>2, <1>9 DEF SeatInv, SeatMatchesState
<1> QED
  BY <1>1, <1>12, <1>13 DEF Fits

\* If each device shows the master's pages in one tab: whenever nothing is on its way between the
\* master's page and the server, the page is where the server is and has its storage token, whatever
\* connections broke and whoever took over meanwhile (client/src/app/services/game.service.ts:
\* onReconnected, onMessage, handleMasterTakenOver; server/services/game.service.ts:
\* onRegisterMasterPacket, dropMaster).
THEOREM MasterPageFits ==
  ASSUME OneTabEach
  PROVE  PagesSpec => []PageFitsServer
<1>1. PagesInv => PageFitsServer
  BY SettledFits DEF PageFitsServer
<1> QED
  BY PagesStart, PagesStep, <1>1, PTL DEF PagesSpec
LEMMA SettledRejected ==
  ASSUME PagesInv, NEW p \in Page, Settled(p), page[p].conn # master
  PROVE  page[p].state = "REJECTED"
<1>1. PICK pg, q, s, isMaster, live, safe, st :
        /\ pg = page[p] /\ q = InBox(p) /\ s = OutBox(p) /\ isMaster = IsMaster(p) /\ live = Live(p)
        /\ safe = Safe(p) /\ st = state
  OBVIOUS
<1>2. page[p].conn # None
  BY ConnAssumption DEF PagesInv, Settled, SeatInv, ServerTypeOK
<1>3. q = <<>> /\ s = <<>> /\ isMaster = FALSE /\ live = TRUE
  BY <1>1, <1>2 DEF Settled, InBox, OutBox, IsMaster, Live
<1>4. Good(pg, q, s, isMaster, live, safe, st) /\ GoodPage(pg)
  BY <1>1, BoxLemma
<1>5. Newcomer(pg, q, s)
  BY <1>3, <1>4 DEF Good
<1>6. View(pg) = "REJECTED"
  BY <1>3, <1>5 DEF Newcomer
<1> QED
  BY <1>1, <1>4, <1>6, ViewLemma

\* Two devices, of one tab each, never both show the master's pages: whenever nothing is on its way to or from the
\* page of a device that is not the master, it shows that it is rejected (onRegisterMasterPacket,
\* dropMaster, handleMasterTakenOver).
THEOREM OthersAreTold ==
  ASSUME OneTabEach
  PROVE  PagesSpec => []OthersAreRejected
<1>1. PagesInv => OthersAreRejected
  BY SettledRejected DEF OthersAreRejected
<1> QED
  BY PagesStart, PagesStep, <1>1, PTL DEF PagesSpec

\* Each page uses its device's connections, and nothing is on its way over one that is closed.
THEOREM PagesTypes ==
  ASSUME OneTabEach
  PROVE  PagesSpec => []PagesTypeOK
<1>1. ASSUME PagesInv PROVE PagesTypeOK
  <2>1. ASSUME NEW p \in Page PROVE page[p].state \in PageState /\ page[p].conn \in ConnsOf[p] \cup {None}
    <3>1. page[p] \in PageRecord
      BY <1>1, BoxLemma
    <3> QED
      BY <1>1, <3>1 DEF PageRecord, PagesInv, LinksInv
  <2> QED
    BY <1>1, <2>1 DEF PagesInv, LinksInv, PagesTypeOK
<1> QED
  BY PagesStart, PagesStep, <1>1, PTL DEF PagesSpec

\* The server among its pages does what the server alone may do, so what is proved of it
\* (GameServiceProofs) holds here too.
THEOREM PagesImplementServer ==
  ASSUME OneTabEach
  PROVE  PagesSpec => Spec
<1>1. PagesInit => Init
  BY DEF PagesInit
<1> QED
  BY PagesStart, PagesStep, <1>1, ServersNext, PTL DEF PagesSpec, Spec
=============================================================================
