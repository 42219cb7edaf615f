-------------------------- MODULE GamePagesProofs --------------------------
(***************************************************************************)
(* What holds of the pages that show the server's game: of screens, for    *)
(* any number of them, of packets on their way and of connections that     *)
(* close.                                                                  *)
(***************************************************************************)
EXTENDS MasterPlay, GameServiceProofs, SequenceTheorems, FiniteSetTheorems, WellFoundedInduction

----------------------------------------------------------------------------
(* What a page makes of a queue of packets. *)

\* the pages after each packet
IsRun(f, v, q) == f = [n \in 0 .. Len(q) |-> IF n = 0 THEN v ELSE onMessage(f[n - 1], q[n])]

\* The least natural number of a set that is not empty.
LEMMA LeastOf ==
  ASSUME NEW S, S \subseteq Nat, S # {}
  PROVE  \E n \in S : \A m \in S : n <= m
<1>1. PICK n \in S : \A m \in S : ~(<<m, n>> \in OpToRel(<, Nat))
  BY WFMin, NatLessThanWellFounded, Zenon
<1>2. \A m \in S : ~(m < n)
  BY <1>1 DEF OpToRel
<1> QED
  BY <1>2

LEMMA RunExists ==
  ASSUME NEW v, NEW S, NEW q \in Seq(S)
  PROVE  \E f : IsRun(f, v, q)
<1> DEFINE Upto(f, k) == f = [n \in 0 .. k |-> IF n = 0 THEN v ELSE onMessage(f[n - 1], q[n])]
           Bad == {k \in 0 .. Len(q) : ~\E f : Upto(f, k)}
<1>1. Len(q) \in Nat
  OBVIOUS
<1>2. SUFFICES Bad = {}
  BY <1>1 DEF IsRun
<1>3. SUFFICES ASSUME Bad # {}
               PROVE  FALSE
  OBVIOUS
<1>4. PICK k \in Bad : \A j \in Bad : k <= j
  <2>1. Bad \subseteq Nat
    BY <1>1
  <2> HIDE DEF Bad
  <2> QED
    BY <1>3, <2>1, LeastOf
<1>5. CASE k = 0
  <2>1. Upto([n \in 0 .. 0 |-> v], 0)
    OBVIOUS
  <2> QED
    BY <1>5, <2>1
<1>6. CASE k # 0
  <2>1. k - 1 \in 0 .. Len(q) /\ k - 1 \notin Bad /\ k \in Nat
    <3>1. k \in 0 .. Len(q)
      BY <1>4
    <3>2. k - 1 \in 0 .. Len(q) /\ k \in Nat /\ ~(k <= k - 1)
      BY <1>1, <1>6, <3>1
    <3> HIDE DEF Bad
    <3> QED
      BY <1>4, <3>2
  <2>2. PICK f : Upto(f, k - 1)
    BY <2>1
  <2> DEFINE g == [n \in 0 .. k |-> IF n = k THEN onMessage(f[k - 1], q[k]) ELSE f[n]]
  <2>3. \A n \in 0 .. k - 1 : g[n] = f[n]
    BY <2>1
  <2>4. \A n \in 0 .. k : g[n] = IF n = 0 THEN v ELSE onMessage(g[n - 1], q[n])
    <3> SUFFICES ASSUME NEW n \in 0 .. k
                 PROVE  g[n] = IF n = 0 THEN v ELSE onMessage(g[n - 1], q[n])
      OBVIOUS
    <3>1. CASE n = k
      BY <1>6, <2>1, <2>3, <3>1
    <3>2. CASE n # k
      <4>1. n \in 0 .. k - 1 /\ (n # 0 => n - 1 \in 0 .. k - 1)
        BY <2>1, <3>2
      <4>2. f[n] = IF n = 0 THEN v ELSE onMessage(f[n - 1], q[n])
        BY <2>2, <4>1
      <4> QED
        BY <2>3, <4>1, <4>2
    <3> QED
      BY <3>1, <3>2
  <2>5. Upto(g, k)
    BY <2>4
  <2> QED
    BY <1>4, <2>5
<1> QED
  BY <1>5, <1>6

LEMMA HandledIsRun ==
  ASSUME NEW v, NEW S, NEW q \in Seq(S)
  PROVE  \E f : IsRun(f, v, q) /\ Handled(v, q) = f[Len(q)]
<1> DEFINE after == CHOOSE f : IsRun(f, v, q)
<1>1. IsRun(after, v, q)
  BY RunExists
<1>2. Handled(v, q) = after[Len(q)]
  BY DEF Handled, IsRun
<1> QED
  BY <1>1, <1>2

\* Whatever goes on from v by each packet in turn ends where the page does.
LEMMA HandledBy ==
  ASSUME NEW v, NEW S, NEW q \in Seq(S), NEW b, b[0] = v,
         \A n \in 1 .. Len(q) : b[n] = onMessage(b[n - 1], q[n])
  PROVE  Handled(v, q) = b[Len(q)]
<1>1. PICK f : IsRun(f, v, q) /\ Handled(v, q) = f[Len(q)]
  BY HandledIsRun
<1>2. Len(q) \in Nat
  OBVIOUS
<1>3. f[0] = v /\ \A n \in 1 .. Len(q) : f[n] = onMessage(f[n - 1], q[n])
  <2>1. \A n \in 0 .. Len(q) : f[n] = IF n = 0 THEN v ELSE onMessage(f[n - 1], q[n])
    BY <1>1 DEF IsRun
  <2>2. 0 \in 0 .. Len(q) /\ \A n \in 1 .. Len(q) : n \in 0 .. Len(q) /\ n # 0
    BY <1>2
  <2> QED
    BY <2>1, <2>2
<1> DEFINE Apart == {n \in 0 .. Len(q) : f[n] # b[n]}
<1>4. SUFFICES Apart = {}
  BY <1>1, <1>2
<1>5. SUFFICES ASSUME Apart # {}
               PROVE  FALSE
  OBVIOUS
<1>6. PICK k \in Apart : \A j \in Apart : k <= j
  <2>1. Apart \subseteq Nat
    BY <1>2
  <2> HIDE DEF Apart
  <2> QED
    BY <1>5, <2>1, LeastOf
<1>7. k \in 1 .. Len(q) /\ k - 1 \in 0 .. Len(q) /\ ~(k <= k - 1)
  BY <1>2, <1>3, <1>6
<1>8. f[k - 1] = b[k - 1]
  BY <1>6, <1>7
<1> QED
  BY <1>3, <1>6, <1>7, <1>8

LEMMA HandledNone ==
  ASSUME NEW v
  PROVE  Handled(v, <<>>) = v
<1>1. <<>> \in Seq({}) /\ Len(<<>>) = 0
  OBVIOUS
<1>2. PICK f : IsRun(f, v, <<>>) /\ Handled(v, <<>>) = f[Len(<<>>)]
  BY <1>1, HandledIsRun
<1> QED
  BY <1>1, <1>2 DEF IsRun

\* What came first is handled first.
LEMMA HandledMore ==
  ASSUME NEW v, NEW S, NEW q \in Seq(S), NEW r \in Seq(S)
  PROVE  Handled(v, q \o r) = Handled(Handled(v, q), r)
<1>1. PICK both : both = q \o r
  OBVIOUS
<1>2. /\ both \in Seq(S) /\ Len(both) = Len(q) + Len(r) /\ Len(q) \in Nat /\ Len(r) \in Nat
      /\ \A n \in 1 .. Len(q) : both[n] = q[n]
      /\ \A n \in 1 .. Len(r) : both[Len(q) + n] = r[n]
  BY <1>1
<1>3. PICK h : IsRun(h, v, both) /\ Handled(v, both) = h[Len(both)]
  BY <1>2, HandledIsRun
<1>4. h[0] = v /\ \A n \in 1 .. Len(both) : h[n] = onMessage(h[n - 1], both[n])
  BY <1>2, <1>3 DEF IsRun
<1>5. Handled(v, q) = h[Len(q)]
  <2>1. \A n \in 1 .. Len(q) : h[n] = onMessage(h[n - 1], q[n])
    BY <1>2, <1>4
  <2> QED
    BY <1>4, <2>1, HandledBy
<1>6. PICK b : b = [n \in 0 .. Len(r) |-> h[Len(q) + n]]
  OBVIOUS
<1>7. PICK w : w = h[Len(q)]
  OBVIOUS
<1>8. Handled(w, r) = b[Len(r)]
  <2>1. b[0] = w
    BY <1>2, <1>6, <1>7
  <2>2. \A n \in 1 .. Len(r) : b[n] = onMessage(b[n - 1], r[n])
    <3> SUFFICES ASSUME NEW n \in 1 .. Len(r)
                 PROVE  b[n] = onMessage(b[n - 1], r[n])
      OBVIOUS
    <3>1. PICK m : m = Len(q) + n
      OBVIOUS
    <3>2. m \in 1 .. Len(both) /\ m - 1 = Len(q) + (n - 1) /\ both[m] = r[n]
      BY <1>2, <3>1
    <3>3. h[m] = onMessage(h[m - 1], both[m])
      BY <1>4, <3>2
    <3>4. b[n] = h[m] /\ b[n - 1] = h[m - 1]
      BY <1>2, <1>6, <3>1, <3>2
    <3> QED
      BY <3>2, <3>3, <3>4
  <2> QED
    BY <2>1, <2>2, HandledBy
<1> QED
  BY <1>1, <1>2, <1>3, <1>5, <1>6, <1>7, <1>8

LEMMA HandledHead ==
  ASSUME NEW v, NEW S, NEW q \in Seq(S), q # <<>>
  PROVE  Handled(v, q) = Handled(onMessage(v, Head(q)), Tail(q))
<1>1. PICK r : r = Tail(q)
  OBVIOUS
<1>2. /\ r \in Seq(S) /\ Len(q) \in Nat /\ Len(q) # 0 /\ Len(r) = Len(q) - 1 /\ Head(q) = q[1]
      /\ \A n \in 1 .. Len(r) : r[n] = q[n + 1]
  BY <1>1
<1>3. PICK h : IsRun(h, v, q) /\ Handled(v, q) = h[Len(q)]
  BY HandledIsRun
<1>4. h[0] = v /\ \A n \in 1 .. Len(q) : h[n] = onMessage(h[n - 1], q[n])
  BY <1>2, <1>3 DEF IsRun
<1>5. PICK w : w = onMessage(v, Head(q))
  OBVIOUS
<1>6. w = h[1]
  BY <1>2, <1>4, <1>5
<1>7. PICK b : b = [n \in 0 .. Len(r) |-> h[n + 1]]
  OBVIOUS
<1>8. Handled(w, r) = b[Len(r)]
  <2>1. b[0] = w
    BY <1>2, <1>6, <1>7
  <2>2. \A n \in 1 .. Len(r) : b[n] = onMessage(b[n - 1], r[n])
    <3> SUFFICES ASSUME NEW n \in 1 .. Len(r)
                 PROVE  b[n] = onMessage(b[n - 1], r[n])
      OBVIOUS
    <3>1. n + 1 \in 1 .. Len(q) /\ (n + 1) - 1 = n /\ r[n] = q[n + 1] /\ n - 1 \in 0 .. Len(r) /\ n \in 0 .. Len(r)
      BY <1>2
    <3>2. h[n + 1] = onMessage(h[n], q[n + 1])
      BY <1>4, <3>1
    <3>3. b[n] = h[n + 1] /\ b[n - 1] = h[n]
      BY <1>7, <3>1
    <3> QED
      BY <3>1, <3>2, <3>3
  <2> QED
    BY <1>2, <2>1, <2>2, HandledBy
<1>9. b[Len(r)] = h[Len(q)]
  BY <1>2, <1>7
<1> QED
  BY <1>1, <1>3, <1>5, <1>8, <1>9

LEMMA HandledOne ==
  ASSUME NEW v, NEW p
  PROVE  Handled(v, <<p>>) = onMessage(v, p)
<1>1. <<p>> \in Seq({p}) /\ <<p>> # <<>> /\ Head(<<p>>) = p /\ Tail(<<p>>) = <<>>
  OBVIOUS
<1> QED
  BY <1>1, HandledHead, HandledNone

LEMMA HandledTwo ==
  ASSUME NEW v, NEW p, NEW q
  PROVE  Handled(v, <<p, q>>) = onMessage(onMessage(v, p), q)
<1>1. <<p, q>> \in Seq({p, q}) /\ <<p, q>> # <<>> /\ Head(<<p, q>>) = p /\ Tail(<<p, q>>) = <<q>>
  OBVIOUS
<1> QED
  BY <1>1, HandledHead, HandledOne

LEMMA HandledThree ==
  ASSUME NEW v, NEW p, NEW q, NEW r
  PROVE  Handled(v, <<p, q, r>>) = onMessage(onMessage(onMessage(v, p), q), r)
<1>1. PICK s : s = <<p, q, r>>
  OBVIOUS
<1>2. PICK S : S = {p, q, r}
  OBVIOUS
<1>3. s \in Seq(S) /\ s # <<>> /\ Head(s) = p /\ Tail(s) = <<q, r>>
  BY <1>1, <1>2
<1>4. Handled(v, s) = Handled(onMessage(v, Head(s)), Tail(s))
  BY <1>3, HandledHead
<1>5. PICK w : w = onMessage(v, p)
  OBVIOUS
<1>6. Handled(w, <<q, r>>) = onMessage(onMessage(w, q), r)
  BY HandledTwo
<1> QED
  BY <1>1, <1>3, <1>4, <1>5, <1>6

Queue(q) == \E S : q \in Seq(S)

LEMMA Queues ==
  /\ Queue(<<>>)
  /\ \A p : Queue(<<p>>)
  /\ \A p, q : Queue(<<p, q>>)
  /\ \A p, q, r : Queue(<<p, q, r>>)
<1>1. <<>> \in Seq({})
  OBVIOUS
<1>2. ASSUME NEW p PROVE <<p>> \in Seq({p})
  OBVIOUS
<1>3. ASSUME NEW p, NEW q PROVE <<p, q>> \in Seq({p, q})
  OBVIOUS
<1>4. ASSUME NEW p, NEW q, NEW r PROVE <<p, q, r>> \in Seq({p, q, r})
  OBVIOUS
<1> QED
  BY <1>1, <1>2, <1>3, <1>4 DEF Queue

LEMMA HandledThen ==
  ASSUME NEW v, NEW q, NEW r, Queue(q), Queue(r)
  PROVE  Queue(q \o r) /\ Handled(v, q \o r) = Handled(Handled(v, q), r)
<1>1. PICK S : q \in Seq(S)
  BY DEF Queue
<1>2. PICK T : r \in Seq(T)
  BY DEF Queue
<1>3. PICK U : U = S \cup T
  OBVIOUS
<1>4. q \in Seq(U) /\ r \in Seq(U) /\ q \o r \in Seq(U)
  BY <1>1, <1>2, <1>3
<1> QED
  BY <1>4, HandledMore DEF Queue

----------------------------------------------------------------------------
(* What a page makes of each packet. *)

Page(st, ts, ps, g) == [status |-> st, teams |-> ts, points |-> ps, game |-> g]
IsPage(v) == v = Page(v.status, v.teams, v.points, v.game)
Live == {"shown", "ended"}

\* What each packet makes of the game, and of the points.
WithLock(g, b)   == [g EXCEPT !.lock = b]
WithMedia(g, m)  == [g EXCEPT !.media = m]
WithVolume(g, n) == [g EXCEPT !.volume = n]
WithoutMarks(g)  == [g EXCEPT !.marked = {}]
WithMark(g, t, b) == [g EXCEPT !.marked = IF b THEN @ \cup {t} ELSE @ \ {t}]
WithTeams(g, ts) == [g EXCEPT !.marked = @ \cap ts]
WithQuestion(g, q) ==
  [g EXCEPT !.welcome = FALSE, !.question = q, !.marked = {}, !.logged = {}, !.activated = {}]
WithPoints(ps, ts, t, p) == IF t \in ts THEN [ps EXCEPT ![t] = p] ELSE ps

LEMMA OnPacket ==
  ASSUME NEW st \in Live, NEW ts, NEW ps, NEW g, NEW v, v = Page(st, ts, ps, g)
  PROVE  /\ \A b : onMessage(v, BuzzerLockPacket(b)) = Page(st, ts, ps, WithLock(g, b))
         /\ \A m : onMessage(v, MediaStatePacket(m)) = Page(st, ts, ps, WithMedia(g, m))
         /\ \A n : onMessage(v, VolumePacket(n)) = Page(st, ts, ps, WithVolume(g, n))
         /\ \A q : onMessage(v, SetQuestionPacket(q)) =
                     Page(st, ts, ps, WithQuestion(g, q))
         /\ \A t, r : onMessage(v, GradePacket(t, r)) = v
         /\ onMessage(v, UnmarkAllPacket) = Page(st, ts, ps, WithoutMarks(g))
<1>1. v.status \notin {"deaf", "reloading", "blank"} /\ v.game = g
  BY DEF Page, Live
<1>2. ASSUME NEW p, p.type \notin {"RESET_SERVER", "DATA_FOR_SCREEN"} PROVE onMessage(v, p) = OnShownPage(v, p)
  BY <1>1, <1>2 DEF onMessage
<1>3. ASSUME NEW b PROVE onMessage(v, BuzzerLockPacket(b)) = Page(st, ts, ps, WithLock(g, b))
  <2>1. PICK p : p = BuzzerLockPacket(b)
    OBVIOUS
  <2>2. p.type = "SET_BUZZER_LOCK" /\ p.setLock = b
    BY <2>1 DEF BuzzerLockPacket
  <2>3. onMessage(v, p) = OnShownPage(v, p)
    BY <1>2, <2>2
  <2>4. OnShownPage(v, p) = [v EXCEPT !.game.lock = b]
    BY <1>1, <2>2 DEF OnShownPage
  <2> QED
    BY <1>1, <2>1, <2>3, <2>4 DEF Page, WithLock
<1>4. ASSUME NEW m PROVE onMessage(v, MediaStatePacket(m)) = Page(st, ts, ps, WithMedia(g, m))
  <2>1. PICK p : p = MediaStatePacket(m)
    OBVIOUS
  <2>2. p.type = "UPDATE_MEDIA_STATE" /\ p.media = m
    BY <2>1 DEF MediaStatePacket
  <2>3. onMessage(v, p) = OnShownPage(v, p)
    BY <1>2, <2>2
  <2>4. OnShownPage(v, p) = [v EXCEPT !.game.media = m]
    BY <1>1, <2>2 DEF OnShownPage
  <2> QED
    BY <1>1, <2>1, <2>3, <2>4 DEF Page, WithMedia
<1>5. ASSUME NEW n PROVE onMessage(v, VolumePacket(n)) = Page(st, ts, ps, WithVolume(g, n))
  <2>1. PICK p : p = VolumePacket(n)
    OBVIOUS
  <2>2. p.type = "SET_MEDIA_VOLUME" /\ p.volume = n
    BY <2>1 DEF VolumePacket
  <2>3. onMessage(v, p) = OnShownPage(v, p)
    BY <1>2, <2>2
  <2>4. OnShownPage(v, p) = [v EXCEPT !.game.volume = n]
    BY <1>1, <2>2 DEF OnShownPage
  <2> QED
    BY <1>1, <2>1, <2>3, <2>4 DEF Page, WithVolume
<1>6. ASSUME NEW q
      PROVE  onMessage(v, SetQuestionPacket(q)) =
                     Page(st, ts, ps, WithQuestion(g, q))
  <2>1. PICK p : p = SetQuestionPacket(q)
    OBVIOUS
  <2>2. p.type = "SET_QUESTION" /\ p.set = q
    BY <2>1 DEF SetQuestionPacket
  <2>3. onMessage(v, p) = OnShownPage(v, p)
    BY <1>2, <2>2
  <2>4. OnShownPage(v, p) = [v EXCEPT !.game.welcome = FALSE, !.game.question = q,
                                  !.game.marked = {}, !.game.logged = {}, !.game.activated = {}]
    BY <1>1, <2>2 DEF OnShownPage, handleSetQuestion
  <2>5. PICK g1, v1 : g1 = [g EXCEPT !.welcome = FALSE] /\ v1 = [v EXCEPT !.game.welcome = FALSE]
    OBVIOUS
  <2>6. v1 = Page(st, ts, ps, g1)
    BY <2>5 DEF Page
  <2>7. PICK g2, v2 : g2 = [g1 EXCEPT !.question = q] /\ v2 = [v1 EXCEPT !.game.question = q]
    OBVIOUS
  <2>8. v2 = Page(st, ts, ps, g2)
    BY <2>7, <2>6 DEF Page
  <2>9. PICK g3, v3 : g3 = [g2 EXCEPT !.marked = {}] /\ v3 = [v2 EXCEPT !.game.marked = {}]
    OBVIOUS
  <2>10. v3 = Page(st, ts, ps, g3)
    BY <2>9, <2>8 DEF Page
  <2>11. PICK g4, v4 : g4 = [g3 EXCEPT !.logged = {}] /\ v4 = [v3 EXCEPT !.game.logged = {}]
    OBVIOUS
  <2>12. v4 = Page(st, ts, ps, g4)
    BY <2>11, <2>10 DEF Page
  <2>13. PICK g5, v5 : g5 = [g4 EXCEPT !.activated = {}] /\ v5 = [v4 EXCEPT !.game.activated = {}]
    OBVIOUS
  <2>14. v5 = Page(st, ts, ps, g5)
    BY <2>13, <2>12 DEF Page
  <2>15. g5 = WithQuestion(g, q)
    BY <2>5, <2>7, <2>9, <2>11, <2>13 DEF WithQuestion
  <2>16. v5 = OnShownPage(v, p)
    BY <2>4, <2>5, <2>7, <2>9, <2>11, <2>13
  <2> QED
    BY <2>1, <2>3, <2>14, <2>15, <2>16
<1>7. ASSUME NEW t, NEW r PROVE onMessage(v, GradePacket(t, r)) = v
  <2>1. PICK p : p = GradePacket(t, r)
    OBVIOUS
  <2>2. p.type = "GRADE_ANSWER"
    BY <2>1 DEF GradePacket
  <2> QED
    BY <1>2, <2>1, <2>2 DEF OnShownPage
<1>8. onMessage(v, UnmarkAllPacket) = Page(st, ts, ps, WithoutMarks(g))
  <2>1. PICK p : p = UnmarkAllPacket
    OBVIOUS
  <2>2. p.type = "MARK_TEAM" /\ p.unmarkAll = TRUE
    BY <2>1 DEF UnmarkAllPacket
  <2>3. onMessage(v, p) = OnShownPage(v, p)
    BY <1>2, <2>2
  <2>4. OnShownPage(v, p) = [v EXCEPT !.game.marked = {}]
    BY <1>1, <2>2 DEF OnShownPage, applyMarkTeam
  <2> QED
    BY <1>1, <2>1, <2>3, <2>4 DEF Page, WithoutMarks
<1> QED
  BY <1>3, <1>4, <1>5, <1>6, <1>7, <1>8

LEMMA OnAnswers ==
  ASSUME NEW st \in Live, NEW ts, NEW ps, NEW g, NEW v, NEW s, NEW some,
         v = Page(st, ts, ps, g)
  PROVE  onMessage(v, AnswersPacket(s, some)) = Page(st, ts, ps, ApplyAnswers(g, s, some))
<1>1. v.status \notin {"deaf", "reloading", "blank"} /\ v.game = g
  BY DEF Page, Live
<1>2. PICK p : p = AnswersPacket(s, some)
  OBVIOUS
<1>3. p.type = "ANSWER_SET_STATE" /\ p.answerState = s /\ p.answers = some
  BY <1>2 DEF AnswersPacket
<1>4. onMessage(v, p) = OnShownPage(v, p)
  BY <1>1, <1>3 DEF onMessage
<1>5. OnShownPage(v, p) = [v EXCEPT !.game = ApplyAnswers(@, s, some)]
  BY <1>1, <1>3 DEF OnShownPage
<1> QED
  BY <1>1, <1>2, <1>4, <1>5 DEF Page

LEMMA OnTeamPacket ==
  ASSUME NEW st \in Live, NEW ts, NEW ps, NEW g, NEW v, v = Page(st, ts, ps, g)
  PROVE  /\ \A t, p : onMessage(v, PointsPacket(t, p)) =
                       Page(st, ts, WithPoints(ps, ts, t, p), g)
         /\ \A t, b : onMessage(v, MarkTeamPacket(t, b)) =
                       Page(st, ts, ps, WithMark(g, t, b))
         /\ \A us, p : onMessage(v, TeamsPacket(us, p)) = Page(st, us, p, WithTeams(g, us))
<1>1. v.status \notin {"deaf", "reloading", "blank"} /\ v.game = g /\ v.points = ps /\ v.teams = ts
  BY DEF Page, Live
<1>2. ASSUME NEW p, p.type \notin {"RESET_SERVER", "DATA_FOR_SCREEN"} PROVE onMessage(v, p) = OnShownPage(v, p)
  BY <1>1, <1>2 DEF onMessage
<1>3. ASSUME NEW t, NEW q
      PROVE  onMessage(v, PointsPacket(t, q)) = Page(st, ts, WithPoints(ps, ts, t, q), g)
  <2>1. PICK p : p = PointsPacket(t, q)
    OBVIOUS
  <2>2. p.type = "TEAM_SET_POINTS" /\ p.team = t /\ p.total = q
    BY <2>1 DEF PointsPacket
  <2>3. onMessage(v, p) = OnShownPage(v, p)
    BY <1>2, <2>2
  <2>4. OnShownPage(v, p) = IF t \in ts THEN [v EXCEPT !.points[t] = q] ELSE v
    BY <1>1, <2>2 DEF OnShownPage, handleTeamSetPoints
  <2> QED
    BY <1>1, <2>1, <2>3, <2>4 DEF Page, WithPoints
<1>4. ASSUME NEW t, NEW b
      PROVE  onMessage(v, MarkTeamPacket(t, b)) =
                       Page(st, ts, ps, WithMark(g, t, b))
  <2>1. PICK p : p = MarkTeamPacket(t, b)
    OBVIOUS
  <2>2. p.type = "MARK_TEAM" /\ p.unmarkAll = FALSE /\ p.team = t /\ p.mark = b
    BY <2>1 DEF MarkTeamPacket
  <2>3. onMessage(v, p) = OnShownPage(v, p)
    BY <1>2, <2>2
  <2>4. OnShownPage(v, p) = [v EXCEPT !.game.marked = IF b THEN @ \cup {t} ELSE @ \ {t}]
    BY <1>1, <2>2 DEF OnShownPage, applyMarkTeam
  <2> QED
    BY <1>1, <2>1, <2>3, <2>4 DEF Page, WithMark
<1>5. ASSUME NEW us, NEW q
      PROVE  onMessage(v, TeamsPacket(us, q)) = Page(st, us, q, WithTeams(g, us))
  <2>1. PICK p : p = TeamsPacket(us, q)
    OBVIOUS
  <2>2. p.type = "UPDATE_TEAMS" /\ p.teams = us /\ p.points = q
    BY <2>1 DEF TeamsPacket
  <2>3. onMessage(v, p) = OnShownPage(v, p)
    BY <1>2, <2>2
  <2>4. OnShownPage(v, p) = [v EXCEPT !.teams = us, !.points = q, !.game.marked = @ \cap us]
    BY <1>1, <2>2 DEF OnShownPage, handleUpdateTeams
  <2> QED
    BY <1>1, <2>1, <2>3, <2>4 DEF Page, WithTeams
<1> QED
  BY <1>3, <1>4, <1>5

\* What packets that change a game do not change: whether a page shows one, and that it has no teams; a page
\* without one may go deaf of them.
NextStatus(v, w) == w.status = v.status \/ (v.status = "blank" /\ w.status = "deaf")
Stays(v, w) == IsPage(w) /\ NextStatus(v, w) /\ (v.teams = {} => w.teams = {})

LEMMA StaysOne ==
  ASSUME NEW v, NEW p, IsPage(v),
         p.type \notin {"RESET_SERVER", "DATA_FOR_SCREEN", "END_GAME", "UPDATE_TEAMS"}
  PROVE  Stays(v, onMessage(v, p))
<1>1. PICK st, ts, ps, g : v = Page(st, ts, ps, g)
  BY DEF IsPage
<1>2. v.status = st /\ v.teams = ts /\ v.points = ps /\ v.game = g
  BY <1>1 DEF Page
<1>3. \E qs, h, nt : onMessage(v, p) = Page(nt, ts, qs, h) /\ (nt = st \/ (st = "blank" /\ nt = "deaf"))
  <2>1. CASE st \in {"deaf", "reloading"}
    BY <1>1, <1>2, <2>1 DEF onMessage
  <2>3. CASE st = "blank"
    BY <1>1, <1>2, <2>3 DEF onMessage, Page
  <2>2. CASE st \notin {"deaf", "reloading", "blank"}
    <3>1. onMessage(v, p) = OnShownPage(v, p)
      BY <1>2, <2>2 DEF onMessage
    <3>2. CASE p.type = "TEAM_SET_POINTS"
      BY <1>1, <1>2, <3>1, <3>2 DEF OnShownPage, handleTeamSetPoints, Page
    <3>3. CASE p.type = "SET_QUESTION"
      BY <1>1, <1>2, <3>1, <3>3 DEF OnShownPage, handleSetQuestion, Page
    <3>4. CASE p.type \in {"MARK_TEAM", "ANSWER_SET_STATE", "SET_BUZZER_LOCK", "UPDATE_MEDIA_STATE", "SET_MEDIA_VOLUME"}
      BY <1>1, <1>2, <3>1, <3>4 DEF OnShownPage, Page
    <3>5. CASE p.type \notin {"TEAM_SET_POINTS", "SET_QUESTION", "MARK_TEAM", "ANSWER_SET_STATE", "SET_BUZZER_LOCK",
                              "UPDATE_MEDIA_STATE", "SET_MEDIA_VOLUME"}
      BY <1>1, <3>1, <3>5 DEF OnShownPage
    <3> QED
      BY <3>2, <3>3, <3>4, <3>5
  <2> QED
    BY <2>1, <2>2, <2>3
<1> QED
  BY <1>1, <1>2, <1>3 DEF Stays, NextStatus, IsPage, Page

\* A page that shows g becomes one that shows h.
Makes(v, w, g, h) ==
  Stays(v, w) /\ \A st \in Live : \A ts, ps : v = Page(st, ts, ps, g) => w = Page(st, ts, ps, h)

LEMMA MakesThen ==
  ASSUME NEW u, NEW v, NEW w, NEW f, NEW g, NEW h, Makes(u, v, f, g), Makes(v, w, g, h)
  PROVE  Makes(u, w, f, h)
  BY DEF Makes, Stays, NextStatus

LEMMA MakesOne ==
  ASSUME NEW v, NEW g, IsPage(v)
  PROVE  /\ \A b : Makes(v, onMessage(v, BuzzerLockPacket(b)), g, WithLock(g, b))
         /\ \A m : Makes(v, onMessage(v, MediaStatePacket(m)), g, WithMedia(g, m))
         /\ \A n : Makes(v, onMessage(v, VolumePacket(n)), g, WithVolume(g, n))
         /\ \A s, some : Makes(v, onMessage(v, AnswersPacket(s, some)), g, ApplyAnswers(g, s, some))
         /\ \A q : Makes(v, onMessage(v, SetQuestionPacket(q)), g,
                          WithQuestion(g, q))
         /\ \A t, r : Makes(v, onMessage(v, GradePacket(t, r)), g, g)
         /\ Makes(v, onMessage(v, UnmarkAllPacket), g, WithoutMarks(g))
         /\ \A t, b : Makes(v, onMessage(v, MarkTeamPacket(t, b)), g,
                            WithMark(g, t, b))
<1>1. ASSUME NEW p, p.type \notin {"RESET_SERVER", "DATA_FOR_SCREEN", "END_GAME", "UPDATE_TEAMS"}
      PROVE  Stays(v, onMessage(v, p))
  BY <1>1, StaysOne
<1>2. ASSUME NEW b PROVE Makes(v, onMessage(v, BuzzerLockPacket(b)), g, WithLock(g, b))
  <2>1. PICK p : p = BuzzerLockPacket(b)
    OBVIOUS
  <2>2. Stays(v, onMessage(v, p))
    BY <1>1, <2>1 DEF BuzzerLockPacket
  <2>3. ASSUME NEW st \in Live, NEW ts, NEW ps, v = Page(st, ts, ps, g)
        PROVE  onMessage(v, p) = Page(st, ts, ps, WithLock(g, b))
    BY <2>1, <2>3, OnPacket
  <2> QED
    BY <2>1, <2>2, <2>3 DEF Makes
<1>3. ASSUME NEW m PROVE Makes(v, onMessage(v, MediaStatePacket(m)), g, WithMedia(g, m))
  <2>1. PICK p : p = MediaStatePacket(m)
    OBVIOUS
  <2>2. Stays(v, onMessage(v, p))
    BY <1>1, <2>1 DEF MediaStatePacket
  <2>3. ASSUME NEW st \in Live, NEW ts, NEW ps, v = Page(st, ts, ps, g)
        PROVE  onMessage(v, p) = Page(st, ts, ps, WithMedia(g, m))
    BY <2>1, <2>3, OnPacket
  <2> QED
    BY <2>1, <2>2, <2>3 DEF Makes
<1>4. ASSUME NEW n PROVE Makes(v, onMessage(v, VolumePacket(n)), g, WithVolume(g, n))
  <2>1. PICK p : p = VolumePacket(n)
    OBVIOUS
  <2>2. Stays(v, onMessage(v, p))
    BY <1>1, <2>1 DEF VolumePacket
  <2>3. ASSUME NEW st \in Live, NEW ts, NEW ps, v = Page(st, ts, ps, g)
        PROVE  onMessage(v, p) = Page(st, ts, ps, WithVolume(g, n))
    BY <2>1, <2>3, OnPacket
  <2> QED
    BY <2>1, <2>2, <2>3 DEF Makes
<1>5. ASSUME NEW s, NEW some PROVE Makes(v, onMessage(v, AnswersPacket(s, some)), g, ApplyAnswers(g, s, some))
  <2>1. PICK p : p = AnswersPacket(s, some)
    OBVIOUS
  <2>2. Stays(v, onMessage(v, p))
    BY <1>1, <2>1 DEF AnswersPacket
  <2>3. ASSUME NEW st \in Live, NEW ts, NEW ps, v = Page(st, ts, ps, g)
        PROVE  onMessage(v, AnswersPacket(s, some)) = Page(st, ts, ps, ApplyAnswers(g, s, some))
    BY <2>3, OnAnswers
  <2> QED
    BY <2>1, <2>2, <2>3 DEF Makes
<1>6. ASSUME NEW q
      PROVE  Makes(v, onMessage(v, SetQuestionPacket(q)), g,
                   WithQuestion(g, q))
  <2>1. PICK p : p = SetQuestionPacket(q)
    OBVIOUS
  <2>2. Stays(v, onMessage(v, p))
    BY <1>1, <2>1 DEF SetQuestionPacket
  <2>3. ASSUME NEW st \in Live, NEW ts, NEW ps, v = Page(st, ts, ps, g)
        PROVE  onMessage(v, p) = Page(st, ts, ps, WithQuestion(g, q))
    BY <2>1, <2>3, OnPacket
  <2> QED
    BY <2>1, <2>2, <2>3 DEF Makes
<1>7. ASSUME NEW t, NEW r PROVE Makes(v, onMessage(v, GradePacket(t, r)), g, g)
  <2>1. PICK p : p = GradePacket(t, r)
    OBVIOUS
  <2>2. Stays(v, onMessage(v, p))
    BY <1>1, <2>1 DEF GradePacket
  <2>3. ASSUME NEW st \in Live, NEW ts, NEW ps, v = Page(st, ts, ps, g)
        PROVE  onMessage(v, p) = Page(st, ts, ps, g)
    BY <2>1, <2>3, OnPacket
  <2> QED
    BY <2>1, <2>2, <2>3 DEF Makes
<1>8. Makes(v, onMessage(v, UnmarkAllPacket), g, WithoutMarks(g))
  <2>1. PICK p : p = UnmarkAllPacket
    OBVIOUS
  <2>2. Stays(v, onMessage(v, p))
    BY <1>1, <2>1 DEF UnmarkAllPacket
  <2>3. ASSUME NEW st \in Live, NEW ts, NEW ps, v = Page(st, ts, ps, g)
        PROVE  onMessage(v, p) = Page(st, ts, ps, WithoutMarks(g))
    BY <2>1, <2>3, OnPacket
  <2> QED
    BY <2>1, <2>2, <2>3 DEF Makes
<1>9. ASSUME NEW t, NEW b
      PROVE  Makes(v, onMessage(v, MarkTeamPacket(t, b)), g, WithMark(g, t, b))
  <2>1. PICK p : p = MarkTeamPacket(t, b)
    OBVIOUS
  <2>2. Stays(v, onMessage(v, p))
    BY <1>1, <2>1 DEF MarkTeamPacket
  <2>3. ASSUME NEW st \in Live, NEW ts, NEW ps, v = Page(st, ts, ps, g)
        PROVE  onMessage(v, p) = Page(st, ts, ps, WithMark(g, t, b))
    BY <2>1, <2>3, OnTeamPacket
  <2> QED
    BY <2>1, <2>2, <2>3 DEF Makes
<1> QED
  BY <1>2, <1>3, <1>4, <1>5, <1>6, <1>7, <1>8, <1>9

LEMMA MakesIsPage ==
  ASSUME NEW v, NEW w, NEW g, NEW h, Makes(v, w, g, h)
  PROVE  IsPage(w)
  BY DEF Makes, Stays

\* The packets that release the buzzers.
LEMMA MakesReleased ==
  ASSUME NEW v, NEW g \in Game, IsPage(v)
  PROVE  Queue(ReleasePackets) /\ Makes(v, Handled(v, ReleasePackets), g, Released(g))
<1>1. PICK p, q : p = UnmarkAllPacket /\ q = BuzzerLockPacket(FALSE)
  OBVIOUS
<1>2. PICK f : f = WithoutMarks(g)
  OBVIOUS
<1>3. PICK x : x = onMessage(v, p)
  OBVIOUS
<1>4. PICK w : w = onMessage(x, q)
  OBVIOUS
<1>5. Makes(v, x, g, f)
  BY <1>1, <1>2, <1>3, MakesOne
<1>6. IsPage(x)
  BY <1>5, MakesIsPage
<1>7. PICK h : h = WithLock(f, FALSE)
  OBVIOUS
<1>8. h = Released(g)
  BY <1>2, <1>7 DEF Released, WithoutMarks, WithLock
<1>9. Makes(v, w, g, Released(g))
  <2>1. Makes(x, w, f, h)
    BY <1>1, <1>4, <1>6, <1>7, MakesOne
  <2>2. Makes(v, w, g, h)
    BY <1>5, <2>1, MakesThen
  <2> QED
    BY <1>8, <2>2
<1>10. ReleasePackets = <<p, q>>
  BY <1>1 DEF ReleasePackets
<1>11. Handled(v, ReleasePackets) = w /\ Queue(ReleasePackets)
  BY <1>3, <1>4, <1>10, HandledTwo, Queues
<1> QED
  BY <1>9, <1>11

----------------------------------------------------------------------------
(* The server's game, and a screen that follows it.                                               *)

\* A game that runs has questions, and only a game with questions has teams.
GameHasQuestions == (isGameRunning => questions # 0) /\ (questions = 0 => teams = {})

Known ==
  /\ PlayInv /\ SeatInv /\ NoGameNoData /\ GameHasQuestions
  /\ game.marked \subseteq teams /\ screens \subseteq open

PageFollows(v) == IsPage(v) /\ (FollowsGame(v) \/ v.status = "deaf")

\* A page v that became w follows the game; it is only deaf when it was, or when no game runs.
KeepsUp(v, w) ==
  IsPage(w) /\ (FollowsGame(w) \/ (w.status = "deaf" /\ (v.status = "deaf" \/ ~isGameRunning)))

\* A page keeps up once it handled what c was sent.
Told(c, v) == Queue(sent[c]) /\ KeepsUp(v, Handled(v, sent[c]))

LEMMA KnownTypes ==
  ASSUME Known
  PROVE  /\ state \in State /\ game \in Game /\ teams \subseteq Team /\ points \in [Team -> Points]
         /\ screens \subseteq ScreenConn /\ master \in MasterConn \cup {None}
         /\ questions \in {0, LastQuestion + 1} /\ keypressLocked \in BOOLEAN
         /\ resumesRunningGame \in BOOLEAN
  BY DEF Known, PlayInv, PlayTypeOK, SeatInv, ServerTypeOK

LEMMA ScreenIsNoMaster ==
  ASSUME Known, NEW c \in ScreenConn
  PROVE  c # master /\ c \notin MasterConn /\ c \in Conn
  BY KnownTypes, ConnAssumption DEF Conn

\* What a screen hears.
LEMMA ScreensHear ==
  ASSUME Known, NEW c \in ScreenConn, NEW a, NEW b, Tell(a, b)
  PROVE  sent'[c] = IF c \in screens THEN b ELSE <<>>
<1>1. sent' = [x \in Conn |-> CASE x = master -> a [] x \in screens -> b [] OTHER -> <<>>]
  BY DEF Tell
<1>2. c # master /\ c \in Conn
  BY ScreenIsNoMaster
<1> QED
  BY <1>1, <1>2

\* Without a game that runs, or ran until it ended, there are no teams.
LEMMA NoTeams ==
  ASSUME Known, ~isGameRunning, ~(state = "END" /\ questions # 0)
  PROVE  teams = {}
<1>1. CASE state = "END"
  BY <1>1 DEF Known, GameHasQuestions
<1>2. CASE state # "END"
  BY <1>2, KnownTypes DEF Known, NoGameNoData, State, isGameRunning, RunningState
<1> QED
  BY <1>1, <1>2

\* The step neither begins nor ends the game.
PhaseStays ==
  /\ isGameRunning' <=> isGameRunning
  /\ state' = "END" <=> state = "END"
  /\ UNCHANGED questions

LEMMA SameState ==
  ASSUME UNCHANGED <<state, questions>>
  PROVE  PhaseStays
  BY DEF PhaseStays, isGameRunning

\* A page without data, in a game that runs, is no page that follows it.
LEMMA DeafKeeping ==
  ASSUME isGameRunning' => isGameRunning, NEW v, NEW w, PageFollows(v), IsPage(w), NextStatus(v, w),
         w.status = "deaf"
  PROVE  KeepsUp(v, w)'
<1>1. v.status = "blank" /\ FollowsGame(v) => ~isGameRunning
  BY DEF FollowsGame, isGameRunning, RunningState
<1>2. v.status = "deaf" \/ ~isGameRunning'
  BY <1>1 DEF PageFollows, NextStatus
<1> QED
  BY <1>2 DEF KeepsUp

LEMMA Keeping ==
  ASSUME Known, PhaseStays, NEW v, NEW w, PageFollows(v), IsPage(w), NextStatus(v, w),
         teams = {} /\ v.teams = {} => w.teams = {},
         \A st \in Live : v = Page(st, teams, points, game) => w = Page(st, teams', points', game')
  PROVE  KeepsUp(v, w)'
<1>0. CASE w.status = "deaf"
  BY <1>0, DeafKeeping DEF PhaseStays
<1> SUFFICES ASSUME w.status # "deaf" PROVE KeepsUp(v, w)'
  BY <1>0
<1>a. w.status = v.status /\ FollowsGame(v)
  BY DEF PageFollows, NextStatus
<1>1. ASSUME v.status \in Live, SameGame(v) PROVE SameGame(w)'
  <2>1. v = Page(v.status, teams, points, game)
    BY <1>1 DEF PageFollows, IsPage, SameGame
  <2>2. w = Page(v.status, teams', points', game')
    BY <1>1, <2>1
  <2> QED
    BY <2>2 DEF Page, SameGame
<1>2. CASE isGameRunning
  <2>1. isGameRunning'
    BY <1>2 DEF PhaseStays
  <2>2. v.status = "reloading" \/ (v.status = "shown" /\ SameGame(v))
    BY <1>2, <1>a DEF FollowsGame, isGameRunning, RunningState
  <2>3. w.status = "reloading" \/ (w.status = "shown" /\ SameGame(w)')
    BY <1>1, <1>a, <2>2 DEF Live
  <2> QED
    BY <2>1, <2>3 DEF KeepsUp, FollowsGame, isGameRunning, RunningState
<1>3. CASE ~isGameRunning /\ state = "END" /\ questions # 0
  <2>1. ~isGameRunning' /\ state' = "END" /\ questions' # 0
    BY <1>3 DEF PhaseStays
  <2>2. v.status \in {"blank", "reloading"} \/ (v.status = "ended" /\ SameGame(v))
    BY <1>3, <1>a DEF FollowsGame
  <2>3. w.status \in {"blank", "reloading"} \/ (w.status = "ended" /\ SameGame(w)')
    BY <1>1, <1>a, <2>2 DEF Live
  <2> QED
    BY <2>1, <2>3 DEF KeepsUp, FollowsGame
<1>4. CASE ~isGameRunning /\ ~(state = "END" /\ questions # 0)
  <2>1. ~isGameRunning' /\ ~(state' = "END" /\ questions' # 0)
    BY <1>4 DEF PhaseStays
  <2>2. teams = {}
    BY <1>4, NoTeams
  <2>3. v.status \in {"blank", "reloading"} \/ v.teams = {}
    BY <1>4, <1>a DEF FollowsGame
  <2>4. w.status \in {"blank", "reloading"} \/ w.teams = {}
    BY <1>a, <2>2, <2>3
  <2> QED
    BY <2>1, <2>4 DEF KeepsUp, FollowsGame
<1> QED
  BY <1>2, <1>3, <1>4

\* A handler that changes the game only, and tells it.
LEMMA GameKeeping ==
  ASSUME Known, PhaseStays, UNCHANGED <<teams, points>>,
         NEW v, NEW w, PageFollows(v), Makes(v, w, game, game')
  PROVE  KeepsUp(v, w)'
<1>1. IsPage(w) /\ NextStatus(v, w) /\ (v.teams = {} => w.teams = {})
  BY DEF Makes, Stays
<1>2. \A st \in Live : v = Page(st, teams, points, game) => w = Page(st, teams, points, game')
  BY DEF Makes
<1> QED
  BY <1>1, <1>2, Keeping

\* A handler of which screens hear nothing.
LEMMA SilentKeeping ==
  ASSUME Known, PhaseStays, UNCHANGED play, NEW c, NEW v, PageFollows(v), sent'[c] = <<>>
  PROVE  Told(c, v)'
<1>1. KeepsUp(v, v)'
  BY Keeping DEF play, PageFollows, NextStatus
<1> QED
  BY <1>1, HandledNone, Queues DEF Told

----------------------------------------------------------------------------
(* What a screen is told by each handler.                                                         *)

\* One packet that makes of the game what the server's became.
LEMMA OneTold ==
  ASSUME Known, PhaseStays, UNCHANGED <<teams, points>>, NEW c, NEW v, NEW p, PageFollows(v),
         sent'[c] = <<p>>, Makes(v, onMessage(v, p), game, game')
  PROVE  Told(c, v)'
<1>1. PICK w : w = onMessage(v, p)
  OBVIOUS
<1>2. KeepsUp(v, w)'
  BY <1>1, GameKeeping
<1>3. Handled(v, sent'[c]) = w /\ Queue(sent'[c])
  BY <1>1, HandledOne, Queues
<1> QED
  BY <1>2, <1>3 DEF Told

\* Two of them.
LEMMA TwoTold ==
  ASSUME Known, PhaseStays, UNCHANGED <<teams, points>>, NEW c, NEW v, NEW w, NEW p, NEW q, PageFollows(v),
         sent'[c] = <<p, q>>, w = onMessage(onMessage(v, p), q), Makes(v, w, game, game')
  PROVE  Told(c, v)'
<1>1. KeepsUp(v, w)'
  BY GameKeeping
<1>2. Handled(v, sent'[c]) = w /\ Queue(sent'[c])
  BY HandledTwo, Queues
<1> QED
  BY <1>1, <1>2 DEF Told

LEMMA ReleaseTold ==
  ASSUME Known, PhaseStays, UNCHANGED <<teams, points>>, NEW c \in screens, NEW v, PageFollows(v),
         game' = Released(game), TellAll(ReleasePackets)
  PROVE  Told(c, v)'
<1>1. sent'[c] = ReleasePackets
  BY KnownTypes, ScreensHear DEF TellAll
<1>2. PICK w : w = Handled(v, ReleasePackets)
  OBVIOUS
<1>3. Queue(ReleasePackets) /\ Makes(v, w, game, game')
  BY <1>2, KnownTypes, MakesReleased DEF PageFollows
<1>4. KeepsUp(v, w)'
  BY <1>3, GameKeeping
<1> QED
  BY <1>1, <1>2, <1>3, <1>4 DEF Told

LEMMA KeypressReleaseTold ==
  ASSUME Known, NEW c \in screens, NEW v, PageFollows(v), KeypressRelease
  PROVE  Told(c, v)'
<1>1. PICK p, q : p = BuzzerLockPacket(FALSE) /\ q = UnmarkAllPacket
  OBVIOUS
<1>2. /\ game' = Released(game) /\ UNCHANGED <<state, questions, teams, points>> /\ PhaseStays
      /\ sent'[c] = <<p, q>>
  BY <1>1, KnownTypes, ScreensHear, SameState DEF KeypressRelease, TellAll, automaton
<1>3. PICK x : x = onMessage(v, p)
  OBVIOUS
<1>4. PICK w : w = onMessage(x, q)
  OBVIOUS
<1>5. PICK g : g = WithLock(game, FALSE)
  OBVIOUS
<1>6. Makes(v, x, game, g)
  BY <1>1, <1>3, <1>5, MakesOne DEF PageFollows
<1>7. Makes(x, w, g, WithoutMarks(g))
  BY <1>1, <1>4, <1>6, MakesIsPage, MakesOne
<1>8. WithoutMarks(g) = game'
  BY <1>2, <1>5, KnownTypes DEF Game, Released, WithoutMarks, WithLock
<1>9. Makes(v, w, game, game')
  BY <1>6, <1>7, <1>8, MakesThen
<1> QED
  BY <1>2, <1>3, <1>4, <1>9, TwoTold

LEMMA SetBuzzerLockTold ==
  ASSUME Known, NEW c \in screens, NEW v, NEW setLock \in BOOLEAN, PageFollows(v), SetBuzzerLock(setLock)
  PROVE  Told(c, v)'
<1>1. UNCHANGED <<state, questions, teams, points>> /\ PhaseStays
  BY SameState DEF SetBuzzerLock, automaton
<1>2. CASE setLock
  <2>1. PICK p : p = BuzzerLockPacket(TRUE)
    OBVIOUS
  <2>2. game' = WithLock(game, TRUE) /\ TellAll(<<p>>)
    BY <1>2, <2>1 DEF SetBuzzerLock, WithLock
  <2>3. sent'[c] = <<p>>
    BY <2>2, KnownTypes, ScreensHear DEF TellAll
  <2>4. Makes(v, onMessage(v, p), game, game')
    BY <2>1, <2>2, MakesOne DEF PageFollows
  <2> QED
    BY <1>1, <2>3, <2>4, OneTold
<1>3. CASE ~setLock
  BY <1>1, <1>3, ReleaseTold DEF SetBuzzerLock
<1> QED
  BY <1>2, <1>3

LEMMA SerialReleaseTold ==
  ASSUME Known, NEW c \in screens, NEW v, PageFollows(v), SerialRelease
  PROVE  Told(c, v)'
<1>1. UNCHANGED <<state, questions, teams, points>> /\ PhaseStays
  BY SameState DEF SerialRelease, automaton
<1> QED
  BY <1>1, ReleaseTold DEF SerialRelease

\* MARK_TEAM, and what else is one packet.
LEMMA OnePacketTold ==
  ASSUME Known, NEW c \in screens, NEW v, PageFollows(v),
         \/ \E t \in Team, mark \in BOOLEAN : MarkTeam(t, mark)
         \/ UnmarkAllTeams
         \/ \E n \in Volume : SetMediaVolume(n)
         \/ \E m \in Media : UpdateMediaState(m)
  PROVE  Told(c, v)'
<1>1. UNCHANGED <<state, questions, teams, points>> /\ PhaseStays
  BY SameState DEF MarkTeam, UnmarkAllTeams, SetMediaVolume, UpdateMediaState, automaton
<1>2. ASSUME NEW p, TellAll(<<p>>), Makes(v, onMessage(v, p), game, game') PROVE Told(c, v)'
  <2>1. sent'[c] = <<p>>
    BY <1>2, KnownTypes, ScreensHear DEF TellAll
  <2> QED
    BY <1>1, <1>2, <2>1, OneTold
<1>3. ASSUME NEW t, NEW mark, MarkTeam(t, mark) PROVE Told(c, v)'
  <2>1. PICK p : p = MarkTeamPacket(t, mark)
    OBVIOUS
  <2>2. TellAll(<<p>>) /\ game' = WithMark(game, t, mark)
    BY <1>3, <2>1 DEF MarkTeam, WithMark
  <2> QED
    BY <1>2, <2>1, <2>2, MakesOne DEF PageFollows
<1>4. ASSUME UnmarkAllTeams PROVE Told(c, v)'
  <2>1. PICK p : p = UnmarkAllPacket
    OBVIOUS
  <2>2. TellAll(<<p>>) /\ game' = WithoutMarks(game)
    BY <1>4, <2>1 DEF UnmarkAllTeams, WithoutMarks
  <2> QED
    BY <1>2, <2>1, <2>2, MakesOne DEF PageFollows
<1>5. ASSUME NEW n, SetMediaVolume(n) PROVE Told(c, v)'
  <2>1. PICK p : p = VolumePacket(n)
    OBVIOUS
  <2>2. TellAll(<<p>>) /\ game' = WithVolume(game, n)
    BY <1>5, <2>1 DEF SetMediaVolume, WithVolume
  <2> QED
    BY <1>2, <2>1, <2>2, MakesOne DEF PageFollows
<1>6. ASSUME NEW m, UpdateMediaState(m) PROVE Told(c, v)'
  <2>1. PICK p : p = MediaStatePacket(m)
    OBVIOUS
  <2>2. TellAll(<<p>>) /\ game' = WithMedia(game, m)
    BY <1>6, <2>1 DEF UpdateMediaState, WithMedia
  <2> QED
    BY <1>2, <2>1, <2>2, MakesOne DEF PageFollows
<1> QED
  BY <1>3, <1>4, <1>5, <1>6


LEMMA OneAndTwo ==
  ASSUME NEW p, NEW q, NEW r
  PROVE  <<p>> \o <<q, r>> = <<p, q, r>>
<1>1. PICK S : S = {p, q, r}
  OBVIOUS
<1>2. PICK a, b, d, e : a = <<p>> /\ b = <<q, r>> /\ d = <<p, q, r>> /\ e = a \o b
  OBVIOUS
<1>3. a \in Seq(S) /\ b \in Seq(S) /\ d \in Seq(S) /\ Len(a) = 1 /\ Len(b) = 2 /\ Len(d) = 3
  BY <1>1, <1>2
<1>4. e \in Seq(S) /\ Len(e) = 3
  BY <1>2, <1>3
<1>5. e[1] = p /\ e[2] = q /\ e[3] = r
  BY <1>2, <1>3
<1>6. d[1] = p /\ d[2] = q /\ d[3] = r
  BY <1>2
<1>7. \A i \in 1 .. 3 : e[i] = d[i]
  BY <1>5, <1>6
<1>8. e = d
  BY <1>3, <1>4, <1>7, SeqEqual
<1> QED
  BY <1>2, <1>8

\* Three packets.
LEMMA ThreeTold ==
  ASSUME Known, PhaseStays, UNCHANGED <<teams, points>>, NEW c, NEW v, NEW w, NEW p, NEW q, NEW r,
         PageFollows(v), sent'[c] = <<p, q, r>>, w = onMessage(onMessage(onMessage(v, p), q), r),
         Makes(v, w, game, game')
  PROVE  Told(c, v)'
<1>1. KeepsUp(v, w)'
  BY GameKeeping
<1>2. Handled(v, sent'[c]) = w /\ Queue(sent'[c])
  BY HandledThree, Queues
<1> QED
  BY <1>1, <1>2 DEF Told

\* A press: the media pause, then the team is marked and the buzzers are locked.
LEMMA LockOnTeamTold ==
  ASSUME Known, PhaseStays, UNCHANGED <<teams, points>>, NEW c \in screens, NEW v, NEW t,
         PageFollows(v), LockOnTeam(t)
  PROVE  Told(c, v)'
<1>1. PICK m : /\ game' = [game EXCEPT !.lock = TRUE, !.marked = @ \cup {t}, !.media = m]
               /\ Tell(Append(<<MarkTeamPacket(t, TRUE), BuzzerLockPacket(TRUE)>>, MediaStatePacket(m)),
                       <<MediaStatePacket(m)>> \o <<MarkTeamPacket(t, TRUE), BuzzerLockPacket(TRUE)>>)
  BY DEF LockOnTeam
<1>2. PICK p, q, r : p = MediaStatePacket(m) /\ q = MarkTeamPacket(t, TRUE) /\ r = BuzzerLockPacket(TRUE)
  OBVIOUS
<1>3. sent'[c] = <<p, q, r>>
  <2>1. PICK a, b : /\ a = Append(<<MarkTeamPacket(t, TRUE), BuzzerLockPacket(TRUE)>>, MediaStatePacket(m))
                    /\ b = <<MediaStatePacket(m)>> \o <<MarkTeamPacket(t, TRUE), BuzzerLockPacket(TRUE)>>
    OBVIOUS
  <2>2. b = <<p, q, r>>
    <3>1. b = <<p>> \o <<q, r>>
      BY <1>2, <2>1, Zenon
    <3>2. <<p>> \o <<q, r>> = <<p, q, r>>
      BY OneAndTwo
    <3> QED
      BY <3>1, <3>2
  <2>3. Tell(a, b)
    BY <1>1, <2>1
  <2>4. c \in ScreenConn
    BY KnownTypes
  <2> QED
    BY <2>2, <2>3, <2>4, ScreensHear
<1>4. PICK f : f = WithMedia(game, m)
  OBVIOUS
<1>5. PICK g : g = WithMark(f, t, TRUE)
  OBVIOUS
<1>6. WithLock(g, TRUE) = game'
  BY <1>1, <1>4, <1>5, KnownTypes DEF WithMedia, WithMark, WithLock, Game
<1>7. PICK x : x = onMessage(v, p)
  OBVIOUS
<1>8. PICK y : y = onMessage(x, q)
  OBVIOUS
<1>9. PICK w : w = onMessage(y, r)
  OBVIOUS
<1>10. Makes(v, x, game, f)
  BY <1>2, <1>4, <1>7, MakesOne DEF PageFollows
<1>11. Makes(x, y, f, g)
  BY <1>2, <1>5, <1>8, <1>10, MakesOne, MakesIsPage
<1>12. Makes(y, w, g, game')
  BY <1>2, <1>6, <1>9, <1>11, MakesOne, MakesIsPage
<1>13. Makes(v, w, game, game')
  BY <1>10, <1>11, <1>12, MakesThen
<1> QED
  BY <1>3, <1>7, <1>8, <1>9, <1>13, ThreeTold

LEMMA PressTold ==
  ASSUME Known, NEW c \in screens, NEW v, PageFollows(v),
         \/ \E t \in Team : KeypressTeam(t) \/ SerialPress(t)
         \/ \E pressed : UdpBuzzerPress(pressed)
  PROVE  Told(c, v)'
<1>1. UNCHANGED <<state, questions, teams, points>> /\ PhaseStays
  BY SameState DEF KeypressTeam, SerialPress, UdpBuzzerPress, automaton
<1>2. CASE \E t : LockOnTeam(t)
  BY <1>1, <1>2, LockOnTeamTold
<1>3. CASE TellNobody /\ UNCHANGED <<game, keypressLocked>>
  <2>1. sent'[c] = <<>>
    BY <1>3, ScreenIsNoMaster, KnownTypes DEF TellNobody
  <2> QED
    BY <1>1, <1>3, <2>1, SilentKeeping DEF play
<1> QED
  BY <1>2, <1>3 DEF KeypressTeam, SerialPress, UdpBuzzerPress

\* Without a game the pages' game does not matter.
LEMMA NoGameKeeping ==
  ASSUME Known, PhaseStays, ~isGameRunning, ~(state = "END" /\ questions # 0),
         NEW v, NEW w, PageFollows(v), Stays(v, w)
  PROVE  KeepsUp(v, w)'
<1>1. ~isGameRunning' /\ ~(state' = "END" /\ questions' # 0)
  BY DEF PhaseStays
<1>2. CASE w.status = "deaf"
  BY <1>2, DeafKeeping DEF Stays, PhaseStays
<1>3. CASE w.status # "deaf"
  <2>1. w.status = v.status /\ FollowsGame(v) /\ IsPage(w) /\ (v.teams = {} => w.teams = {})
    BY <1>3 DEF PageFollows, Stays, NextStatus
  <2>2. w.status \in {"blank", "reloading"} \/ w.teams = {}
    BY <2>1 DEF FollowsGame
  <2> QED
    BY <1>1, <2>1, <2>2 DEF KeepsUp, FollowsGame
<1> QED
  BY <1>2, <1>3

LEMMA SetQuestionTold ==
  ASSUME Known, NEW c \in screens, NEW v, NEW n \in Question, PageFollows(v), SetQuestion(n)
  PROVE  Told(c, v)'
<1>1. UNCHANGED <<state, questions, teams, points>> /\ PhaseStays
  BY SameState DEF SetQuestion, automaton
<1>2. PICK p, q : p = BuzzerLockPacket(FALSE) /\ q = SetQuestionPacket(n)
  OBVIOUS
<1>3. PICK f : f = WithLock(game, FALSE)
  OBVIOUS
<1>4. PICK g : g = WithQuestion(f, n)
  OBVIOUS
<1>5. PICK x : x = onMessage(v, p)
  OBVIOUS
<1>6. PICK y : y = onMessage(x, q)
  OBVIOUS
<1>7. Makes(v, x, game, f)
  BY <1>2, <1>3, <1>5, MakesOne DEF PageFollows
<1>8. Makes(x, y, f, g)
  BY <1>2, <1>4, <1>6, <1>7, MakesOne, MakesIsPage
<1>9. Makes(v, y, game, g)
  BY <1>7, <1>8, MakesThen
<1>10. CASE questions = 0
  <2>1. Tell(<<p>>, <<p, q>>)
    BY <1>2, <1>10 DEF SetQuestion
  <2>2. sent'[c] = <<p, q>>
    BY <2>1, KnownTypes, ScreensHear
  <2>3. KeepsUp(v, y)'
    BY <1>1, <1>9, <1>10, NoGameKeeping DEF Known, GameHasQuestions, Makes
  <2>4. Handled(v, sent'[c]) = y /\ Queue(sent'[c])
    BY <1>5, <1>6, <2>2, HandledTwo, Queues
  <2> QED
    BY <2>3, <2>4 DEF Told
<1>11. CASE questions # 0
  <2>1. PICK m : m = InitialMedia[n]
    OBVIOUS
  <2>2. PICK r : r = MediaStatePacket(m)
    OBVIOUS
  <2>3. Tell(<<p, r>>, <<p, q, r>>)
    BY <1>2, <1>11, <2>1, <2>2 DEF SetQuestion
  <2>4. sent'[c] = <<p, q, r>>
    BY <2>3, KnownTypes, ScreensHear
  <2>5. game' = WithMedia(g, m)
    <3>1. game' = [[game EXCEPT !.welcome = FALSE, !.lock = FALSE, !.question = n,
                                !.marked = {}, !.logged = {}, !.activated = {}] EXCEPT !.media = m]
      BY <1>11, <2>1 DEF SetQuestion
    <3> QED
      BY <1>3, <1>4, <3>1, KnownTypes DEF Game, WithLock, WithQuestion, WithMedia
  <2>6. PICK w : w = onMessage(y, r)
    OBVIOUS
  <2>7. Makes(y, w, g, game')
    BY <1>8, <2>2, <2>5, <2>6, MakesOne, MakesIsPage
  <2>8. Makes(v, w, game, game')
    BY <1>9, <2>7, MakesThen
  <2> QED
    BY <1>1, <1>5, <1>6, <2>4, <2>6, <2>8, ThreeTold
<1> QED
  BY <1>10, <1>11

LEMMA AnswerSetStateTold ==
  ASSUME Known, NEW c \in screens, NEW v, NEW s, NEW a, PageFollows(v), AnswerSetState(s, a)
  PROVE  Told(c, v)'
<1>1. UNCHANGED <<state, questions, teams, points>> /\ PhaseStays
  BY SameState DEF AnswerSetState, automaton
<1>2. PICK p : p = AnswersPacket(s, {a})
  OBVIOUS
<1>3. PICK f : f = ApplyAnswers(game, s, {a})
  OBVIOUS
<1>4. CASE FreesBuzzers(s, f)
  <2>1. game' = Released(f) /\ Tell(ReleasePackets, Append(ReleasePackets, p))
    BY <1>2, <1>3, <1>4 DEF AnswerSetState
  <2>2. PICK x, h : x = Handled(v, ReleasePackets) /\ h = Released(game)
    OBVIOUS
  <2>3. Queue(ReleasePackets) /\ Makes(v, x, game, h)
    BY <2>2, KnownTypes, MakesReleased DEF PageFollows
  <2>4. ApplyAnswers(h, s, {a}) = game'
    BY <1>3, <2>1, <2>2, KnownTypes DEF Game, Released, ApplyAnswers
  <2>5. PICK w : w = onMessage(x, p)
    OBVIOUS
  <2>6. Makes(x, w, h, game')
    BY <1>2, <2>3, <2>4, <2>5, MakesOne, MakesIsPage
  <2>7. Makes(v, w, game, game')
    BY <2>3, <2>6, MakesThen
  <2>8. KeepsUp(v, w)'
    BY <1>1, <2>7, GameKeeping
  <2>9. PICK b : b = Append(ReleasePackets, p)
    OBVIOUS
  <2>10. sent'[c] = b
    BY <2>1, <2>9, KnownTypes, ScreensHear
  <2>11. b = ReleasePackets \o <<p>>
    <3>1. PICK S : ReleasePackets \in Seq(S)
      BY <2>3 DEF Queue
    <3> QED
      BY <2>9, <3>1
  <2>12. Queue(b) /\ Handled(v, b) = Handled(x, <<p>>)
    BY <2>2, <2>3, <2>11, HandledThen, Queues
  <2> QED
    BY <2>5, <2>8, <2>10, <2>12, HandledOne DEF Told
<1>5. CASE ~FreesBuzzers(s, f)
  <2>1. game' = f /\ Tell(<<>>, Append(<<>>, p))
    BY <1>2, <1>3, <1>5 DEF AnswerSetState
  <2>2. PICK b : b = Append(<<>>, p)
    OBVIOUS
  <2>3. b = <<p>>
    BY <2>2
  <2>4. sent'[c] = <<p>>
    BY <2>1, <2>2, <2>3, KnownTypes, ScreensHear
  <2>5. Makes(v, onMessage(v, p), game, game')
    BY <1>2, <1>3, <2>1, MakesOne DEF PageFollows
  <2> QED
    BY <1>1, <2>4, <2>5, OneTold
<1> QED
  BY <1>4, <1>5

\* A handler that changes a team's points first.
LEMMA ScoreKeeping ==
  ASSUME Known, PhaseStays, UNCHANGED teams, NEW v, NEW w, NEW x, NEW t, NEW n, PageFollows(v),
         w = onMessage(v, PointsPacket(t, n)), points' = WithPoints(points, teams, t, n),
         Makes(w, x, game, game')
  PROVE  KeepsUp(v, x)'
<1>1. Stays(v, w)
  <2>1. PICK p : p = PointsPacket(t, n)
    OBVIOUS
  <2>2. p.type \notin {"RESET_SERVER", "DATA_FOR_SCREEN", "END_GAME", "UPDATE_TEAMS"}
    BY <2>1 DEF PointsPacket
  <2> QED
    BY <2>1, <2>2, StaysOne DEF PageFollows
<1>2. IsPage(x) /\ NextStatus(v, x) /\ (v.teams = {} => x.teams = {})
  BY <1>1 DEF Stays, Makes, NextStatus
<1>3. ASSUME NEW st \in Live, v = Page(st, teams, points, game)
      PROVE  x = Page(st, teams', points', game')
  <2>1. w = Page(st, teams, WithPoints(points, teams, t, n), game)
    BY <1>3, OnTeamPacket
  <2> QED
    BY <2>1 DEF Makes
<1> QED
  BY <1>2, <1>3, Keeping

LEMMA TeamSetPointsTold ==
  ASSUME Known, NEW c \in screens, NEW v, NEW t \in Team, NEW n \in Points, PageFollows(v), TeamSetPoints(t, n)
  PROVE  Told(c, v)'
<1>1. UNCHANGED <<state, questions, teams, game>> /\ PhaseStays
  BY SameState DEF TeamSetPoints, automaton
<1>2. PICK p : p = PointsPacket(t, n)
  OBVIOUS
<1>3. PICK w : w = onMessage(v, p)
  OBVIOUS
<1>4. Tell(<<>>, <<p>>) /\ points' = WithPoints(points, teams, t, n)
  BY <1>2 DEF TeamSetPoints, WithPoints
<1>5. sent'[c] = <<p>>
  BY <1>4, KnownTypes, ScreensHear
<1>6. Stays(v, w)
  BY <1>2, <1>3, StaysOne DEF PageFollows, PointsPacket
<1>7. Makes(w, w, game, game')
  BY <1>1, <1>6 DEF Makes, Stays, NextStatus
<1>8. KeepsUp(v, w)'
  BY <1>1, <1>2, <1>3, <1>4, <1>7, ScoreKeeping
<1>9. Handled(v, sent'[c]) = w /\ Queue(sent'[c])
  BY <1>3, <1>5, HandledOne, Queues
<1> QED
  BY <1>8, <1>9 DEF Told

LEMMA GradeAnswerTold ==
  ASSUME Known, NEW c \in screens, NEW v, NEW t \in Team, NEW result, NEW a, NEW reveal,
         PageFollows(v), GradeAnswer(t, result, a, reveal)
  PROVE  Told(c, v)'
<1>1. UNCHANGED <<state, questions, teams>> /\ PhaseStays /\ t \in teams
  BY SameState DEF GradeAnswer, automaton
<1>2. PICK n, some : LET graded == ApplyAnswers(game, "ACTIVATE", some)
                         wrong  == result = "WRONG"
                     IN  /\ some \in SUBSET Answer
                         /\ points' = [points EXCEPT ![t] = n]
                         /\ game' = IF wrong THEN Released(graded) ELSE graded
                         /\ TellAll(<<PointsPacket(t, n), AnswersPacket("ACTIVATE", some)>>
                                    \o (IF wrong THEN ReleasePackets ELSE <<>>) \o <<GradePacket(t, result)>>)
  <2>1. Options \subseteq Answer
    BY KnownTypes, DataAssumption DEF Options, Game
  <2> QED
    BY <2>1 DEF GradeAnswer
<1>3. PICK p, q, r : p = PointsPacket(t, n) /\ q = AnswersPacket("ACTIVATE", some) /\ r = GradePacket(t, result)
  OBVIOUS
<1>4. PICK w, x : w = onMessage(v, p) /\ x = onMessage(w, q)
  OBVIOUS
<1>5. PICK f : f = ApplyAnswers(game, "ACTIVATE", some)
  OBVIOUS
<1>6. IsPage(w)
  BY <1>3, <1>4, StaysOne DEF PageFollows, PointsPacket, Stays
<1>7. Makes(w, x, game, f)
  BY <1>3, <1>4, <1>5, <1>6, MakesOne
<1>8. Queue(<<p, q>>) /\ Handled(v, <<p, q>>) = x
  BY <1>4, HandledTwo, Queues
<1>9. PICK unlocking : unlocking = IF result = "WRONG" THEN ReleasePackets ELSE <<>>
  OBVIOUS
<1>10. PICK y : y = Handled(x, unlocking)
  OBVIOUS
<1>11. Queue(unlocking) /\ Makes(x, y, f, game')
  <2>1. CASE result = "WRONG"
    <3>1. f \in Game
      BY <1>2, <1>5, KnownTypes, ApplyAnswersLemma
    <3> QED
      BY <1>2, <1>5, <1>7, <1>9, <1>10, <2>1, <3>1, MakesIsPage, MakesReleased
  <2>2. CASE result # "WRONG"
    <3>1. unlocking = <<>> /\ y = x /\ game' = f
      BY <1>2, <1>5, <1>9, <1>10, <2>2, HandledNone
    <3> QED
      BY <1>7, <3>1, Queues DEF Makes, Stays, NextStatus
  <2> QED
    BY <2>1, <2>2
<1>12. PICK z : z = onMessage(y, r)
  OBVIOUS
<1>13. Makes(y, z, game', game')
  <2>1. PICK g : g = game'
    OBVIOUS
  <2> QED
    BY <1>3, <1>11, <1>12, <2>1, MakesOne, MakesIsPage
<1>14. Makes(w, z, game, game')
  BY <1>7, <1>11, <1>13, MakesThen
<1>15. points' = WithPoints(points, teams, t, n)
  BY <1>1, <1>2 DEF WithPoints
<1>16. KeepsUp(v, z)'
  BY <1>1, <1>3, <1>4, <1>14, <1>15, ScoreKeeping
<1>17. PICK b : b = <<p, q>> \o unlocking \o <<r>>
  OBVIOUS
<1>18. Queue(b) /\ Handled(v, b) = z
  <2>1. PICK d : d = <<p, q>> \o unlocking
    OBVIOUS
  <2>2. Queue(d) /\ Handled(v, d) = y
    BY <1>8, <1>10, <1>11, <2>1, HandledThen
  <2>3. Queue(d \o <<r>>) /\ Handled(v, d \o <<r>>) = Handled(y, <<r>>)
    BY <2>2, HandledThen, Queues
  <2> QED
    BY <1>12, <1>17, <2>1, <2>3, HandledOne
<1>19. sent'[c] = b
  BY <1>2, <1>3, <1>9, <1>17, KnownTypes, ScreensHear DEF TellAll
<1> QED
  BY <1>16, <1>18, <1>19 DEF Told

LEMMA OnTeams ==
  ASSUME NEW v, NEW ts, NEW n, IsPage(v)
  PROVE  LET w == onMessage(v, TeamsPacket(ts, n))
         IN  IsPage(w) /\ w.status = v.status /\ (ts = {} /\ v.teams = {} => w.teams = {})
<1>1. PICK p : p = TeamsPacket(ts, n)
  OBVIOUS
<1>2. p.type = "UPDATE_TEAMS" /\ p.teams = ts /\ p.points = n
  BY <1>1 DEF TeamsPacket
<1>3. PICK w : w = onMessage(v, p)
  OBVIOUS
<1>4. w = v \/ \E g : w = Page(v.status, ts, n, g)
  <2>1. CASE v.status \in {"deaf", "reloading", "blank"}
    BY <1>2, <1>3, <2>1 DEF onMessage, NeedsGame
  <2>2. CASE v.status \notin {"deaf", "reloading", "blank"}
    <3>1. w = [v EXCEPT !.teams = ts, !.points = n, !.game.marked = @ \cap ts]
      BY <1>2, <1>3, <2>2 DEF onMessage, OnShownPage, handleUpdateTeams
    <3> QED
      BY <3>1 DEF IsPage, Page
  <2> QED
    BY <2>1, <2>2
<1> QED
  BY <1>1, <1>3, <1>4 DEF IsPage, Page

\* A game that runs, and goes on running.
LEMMA RunningKeeping ==
  ASSUME isGameRunning, isGameRunning', NEW v, NEW w, PageFollows(v), IsPage(w), NextStatus(v, w),
         v = Page("shown", teams, points, game) => w = Page("shown", teams', points', game')
  PROVE  KeepsUp(v, w)'
<1>1. CASE w.status = "deaf"
  BY <1>1, DeafKeeping
<1>2. CASE w.status # "deaf"
  <2>1. w.status = v.status /\ FollowsGame(v)
    BY <1>2 DEF PageFollows, NextStatus
  <2>2. v.status = "reloading" \/ (v.status = "shown" /\ v = Page("shown", teams, points, game))
    BY <2>1 DEF PageFollows, FollowsGame, IsPage, SameGame, isGameRunning, RunningState
  <2>3. w.status = "reloading" \/ (w.status = "shown" /\ SameGame(w)')
    BY <2>1, <2>2 DEF SameGame, Page
  <2> QED
    BY <2>3 DEF KeepsUp, FollowsGame, isGameRunning, RunningState
<1> QED
  BY <1>1, <1>2

LEMMA UpdateTeamsTold ==
  ASSUME Known, NEW c \in screens, NEW v, NEW ts \in SUBSET Team, PageFollows(v), UpdateTeams(ts)
  PROVE  Told(c, v)'
<1>1. UNCHANGED <<state, questions>> /\ PhaseStays /\ isGameRunning /\ isGameRunning'
  BY SameState DEF UpdateTeams, automaton, isGameRunning, RunningState
<1>2. CASE TeamsOk(ts)
  <2>1. PICK n : n = PointsOf(ts)
    OBVIOUS
  <2>2. PICK unlocking : unlocking = IF game.marked \subseteq ts THEN <<>> ELSE ReleasePackets
    OBVIOUS
  <2>3. PICK p : p = TeamsPacket(ts, n)
    OBVIOUS
  <2>4. /\ teams' = ts /\ points' = n
        /\ game' = IF game.marked \subseteq ts THEN game ELSE Released(game)
        /\ TellAll(unlocking \o <<p>>)
    BY <1>2, <2>1, <2>2, <2>3 DEF UpdateTeams
  <2>5. PICK x : x = Handled(v, unlocking)
    OBVIOUS
  <2>6. Queue(unlocking) /\ Makes(v, x, game, game')
    <3>1. CASE game.marked \subseteq ts
      <4>1. unlocking = <<>> /\ x = v /\ game' = game
        BY <2>2, <2>4, <2>5, <3>1, HandledNone
      <4> QED
        BY <4>1, Queues DEF Makes, Stays, PageFollows, NextStatus
    <3>2. CASE ~(game.marked \subseteq ts)
      BY <2>2, <2>4, <2>5, <3>2, KnownTypes, MakesReleased DEF PageFollows
    <3> QED
      BY <3>1, <3>2
  <2>7. PICK w : w = onMessage(x, p)
    OBVIOUS
  <2>8. IsPage(w) /\ NextStatus(v, w)
    BY <2>3, <2>6, <2>7, OnTeams DEF Makes, Stays, NextStatus
  <2>9. ASSUME v = Page("shown", teams, points, game)
        PROVE  w = Page("shown", teams', points', game')
    <3>1. PICK g : g = game'
      OBVIOUS
    <3>2. x = Page("shown", teams, points, g)
      BY <2>6, <2>9, <3>1 DEF Makes, Live
    <3>3. w = Page("shown", ts, n, WithTeams(g, ts))
      BY <2>3, <2>7, <3>2, OnTeamPacket DEF Live
    <3>4. WithTeams(g, ts) = g
      <4>1. g \in Game /\ g.marked \subseteq ts
        BY <2>4, <3>1, KnownTypes, ReleasedLemma DEF Released, Game
      <4> QED
        BY <4>1 DEF WithTeams, Game
    <3> QED
      BY <2>4, <3>1, <3>3, <3>4
  <2>10. KeepsUp(v, w)'
    BY <1>1, <2>8, <2>9, RunningKeeping
  <2>11. PICK b : b = unlocking \o <<p>>
    OBVIOUS
  <2>12. sent'[c] = b
    BY <2>4, <2>11, KnownTypes, ScreensHear DEF TellAll
  <2>13. Queue(b) /\ Handled(v, b) = w
    BY <2>5, <2>6, <2>7, <2>11, HandledThen, HandledOne, Queues
  <2> QED
    BY <2>10, <2>12, <2>13 DEF Told
<1>3. CASE ~TeamsOk(ts)
  <2>1. UNCHANGED play /\ Tell(<<TeamsPacket(teams, points)>>, <<>>)
    BY <1>1, <1>3 DEF UpdateTeams, play
  <2>2. sent'[c] = <<>>
    BY <2>1, KnownTypes, ScreensHear
  <2> QED
    BY <1>1, <2>1, <2>2, SilentKeeping
<1> QED
  BY <1>2, <1>3

LEMMA BuzzerColorTold ==
  ASSUME Known, NEW c \in screens, NEW v, PageFollows(v), BuzzerColorChanged
  PROVE  Told(c, v)'
<1>1. UNCHANGED <<state, questions, teams, points, game>> /\ PhaseStays
  BY SameState DEF BuzzerColorChanged, automaton, play
<1>2. PICK p : p = TeamsPacket(teams, points)
  OBVIOUS
<1>3. PICK w : w = onMessage(v, p)
  OBVIOUS
<1>4. teams # {} /\ TellAll(<<p>>)
  BY <1>2 DEF BuzzerColorChanged
<1>5. sent'[c] = <<p>>
  BY <1>4, KnownTypes, ScreensHear DEF TellAll
<1>6. IsPage(w) /\ NextStatus(v, w)
  BY <1>2, <1>3, OnTeams DEF PageFollows, NextStatus
<1>7. WithTeams(game, teams) = game
  BY KnownTypes DEF Known, WithTeams, Game
<1>8. ASSUME NEW st \in Live, v = Page(st, teams, points, game)
      PROVE  w = Page(st, teams', points', game')
  BY <1>1, <1>2, <1>3, <1>7, <1>8, OnTeamPacket
<1>9. KeepsUp(v, w)'
  BY <1>1, <1>4, <1>6, <1>8, Keeping
<1>10. Handled(v, sent'[c]) = w /\ Queue(sent'[c])
  BY <1>3, <1>5, HandledOne, Queues
<1> QED
  BY <1>9, <1>10 DEF Told

LEMMA StartGameTold ==
  ASSUME Known, NEW c \in screens, NEW v, PageFollows(v), StartGame
  PROVE  Told(c, v)'
<1>1. UNCHANGED <<questions, teams, points>> /\ PhaseStays
  BY DEF StartGame, PhaseStays, isGameRunning, RunningState
<1>2. PICK m, locks : /\ m = FirstMedia /\ locks = (game.welcome /\ ~resumesRunningGame)
  OBVIOUS
<1>3. PICK p, q : p = BuzzerLockPacket(TRUE) /\ q = MediaStatePacket(m)
  OBVIOUS
<1>4. /\ game' = [game EXCEPT !.lock = locks \/ @, !.media = m]
      /\ \E a : Tell(a, (IF locks THEN <<p>> ELSE <<>>) \o <<q>>)
  BY <1>2, <1>3 DEF StartGame
<1>5. PICK first : first = IF locks THEN <<p>> ELSE <<>>
  OBVIOUS
<1>6. PICK x, f : x = Handled(v, first) /\ f = IF locks THEN WithLock(game, TRUE) ELSE game
  OBVIOUS
<1>7. Queue(first) /\ Makes(v, x, game, f)
  <2>1. CASE locks
    <3>1. x = onMessage(v, p) /\ f = WithLock(game, TRUE) /\ first = <<p>>
      BY <1>5, <1>6, <2>1, HandledOne
    <3> QED
      BY <1>3, <3>1, Queues, MakesOne DEF PageFollows
  <2>2. CASE ~locks
    <3>1. x = v /\ f = game /\ first = <<>>
      BY <1>5, <1>6, <2>2, HandledNone
    <3> QED
      BY <3>1, Queues DEF Makes, Stays, PageFollows, NextStatus
  <2> QED
    BY <2>1, <2>2
<1>8. WithMedia(f, m) = game'
  <2>1. game.lock \in BOOLEAN
    BY KnownTypes DEF Game
  <2>2. CASE locks
    BY <1>4, <1>6, <2>2, KnownTypes DEF WithMedia, WithLock, Game
  <2>3. CASE ~locks
    <3>1. (locks \/ game.lock) = game.lock
      BY <2>1, <2>3
    <3> QED
      BY <1>4, <1>6, <2>3, <3>1, KnownTypes DEF WithMedia, Game
  <2> QED
    BY <2>2, <2>3
<1>9. PICK w : w = onMessage(x, q)
  OBVIOUS
<1>10. Makes(x, w, f, game')
  BY <1>3, <1>7, <1>8, <1>9, MakesOne, MakesIsPage
<1>11. Makes(v, w, game, game')
  BY <1>7, <1>10, MakesThen
<1>12. KeepsUp(v, w)'
  BY <1>1, <1>11, GameKeeping
<1>13. PICK b : b = first \o <<q>>
  OBVIOUS
<1>14. sent'[c] = b
  BY <1>4, <1>5, <1>13, KnownTypes, ScreensHear
<1>15. Queue(b) /\ Handled(v, b) = w
  BY <1>6, <1>7, <1>9, <1>13, HandledThen, HandledOne, Queues
<1> QED
  BY <1>12, <1>14, <1>15 DEF Told

\* A page has the game it gets, unless it loads again or is deaf.
LEMMA OnData ==
  ASSUME NEW v, NEW ts, NEW ps, NEW g, NEW p, IsPage(v),
         p = [type |-> "DATA_FOR_SCREEN", teams |-> ts, points |-> ps, game |-> g]
  PROVE  LET w == onMessage(v, p)
         IN  IsPage(w) /\ (w.status = "reloading" \/ (w.status = "deaf" /\ v.status = "deaf")
                           \/ w = Page("shown", ts, ps, g))
  BY DEF onMessage, setGameData, Page, IsPage

LEMMA SetupGameTold ==
  ASSUME Known, NEW c \in screens, NEW v, NEW ts, NEW saved, NEW stored, NEW isNew,
         PageFollows(v), SetupGame(ts, saved, stored, isNew)
  PROVE  Told(c, v)'
<1>1. PICK p : p = DataForScreen'
  OBVIOUS
<1>2. PICK w : w = onMessage(v, p)
  OBVIOUS
<1>3. sent'[c] = <<p>>
  <2>1. \E a : Tell(a, <<p>>)
    BY <1>1 DEF SetupGame
  <2> QED
    BY <2>1, KnownTypes, ScreensHear
<1>4. IsPage(w) /\ (w.status = "reloading" \/ (w.status = "deaf" /\ v.status = "deaf")
                    \/ w = Page("shown", teams', points', game'))
  <2>1. PICK us, ps, g : us = teams' /\ ps = points' /\ g = game'
    OBVIOUS
  <2>2. p = [type |-> "DATA_FOR_SCREEN", teams |-> us, points |-> ps, game |-> g]
    BY <1>1, <2>1 DEF DataForScreen
  <2> QED
    BY <1>2, <2>1, <2>2, OnData DEF PageFollows
<1>5. KeepsUp(v, w)'
  <2>1. CASE TeamsOk(ts)
    <3>1. state' = "WAITING_FOR_START"
      BY <2>1 DEF SetupGame
    <3> QED
      BY <1>4, <3>1 DEF KeepsUp, FollowsGame, SameGame, Page, isGameRunning, RunningState
  <2>2. CASE ~TeamsOk(ts)
    <3>1. state = "WAITING_FOR_SETUP" /\ UNCHANGED <<state, teams>>
      BY <2>2 DEF SetupGame, automaton
    <3>2. teams' = {}
      BY <3>1 DEF Known, NoGameNoData
    <3> QED
      BY <1>4, <3>1, <3>2 DEF KeepsUp, FollowsGame, Page, isGameRunning, RunningState
  <2> QED
    BY <2>1, <2>2
<1>6. Handled(v, sent'[c]) = w /\ Queue(sent'[c])
  BY <1>2, <1>3, HandledOne, Queues
<1> QED
  BY <1>5, <1>6 DEF Told

LEMMA EndGameTold ==
  ASSUME Known, NEW c \in screens, NEW v, PageFollows(v), EndGame
  PROVE  Told(c, v)'
<1>1. state' = "END" /\ UNCHANGED play /\ master # None
  BY DEF EndGame
<1>2. PICK p : p = Packet("END_GAME")
  OBVIOUS
<1>3. PICK w : w = onMessage(v, p)
  OBVIOUS
<1>4. sent'[c] = <<p>>
  <2>1. Tell(<<>>, <<p>>)
    BY <1>2 DEF EndGame
  <2> QED
    BY <2>1, KnownTypes, ScreensHear
<1>5. w = IF v.status \in {"deaf", "reloading", "blank"} THEN v ELSE [v EXCEPT !.status = "ended"]
  BY <1>2, <1>3 DEF onMessage, NeedsGame, OnShownPage, Packet
<1>6. /\ IsPage(w) /\ w.teams = v.teams /\ w.points = v.points /\ w.game = v.game
      /\ w.status = IF v.status \in {"deaf", "reloading", "blank"} THEN v.status ELSE "ended"
  BY <1>5 DEF PageFollows, IsPage, Page
<1>7. KeepsUp(v, w)'
  <2>1. CASE questions = 0
    <3>1. teams = {} /\ ~isGameRunning /\ ~(state = "END" /\ questions # 0)
      BY <2>1 DEF Known, GameHasQuestions
    <3>2. v.status \in {"deaf", "blank", "reloading"} \/ v.teams = {}
      BY <3>1 DEF PageFollows, FollowsGame
    <3>3. ~isGameRunning' /\ questions' = 0
      BY <1>1, <2>1 DEF isGameRunning, RunningState, play
    <3> QED
      BY <1>6, <3>2, <3>3 DEF KeepsUp, FollowsGame
  <2>2. CASE questions # 0
    <3>1. isGameRunning \/ state = "END"
      BY <2>2, KnownTypes DEF Known, NoGameNoData, State, isGameRunning, RunningState
    <3>2. v.status \in {"deaf", "blank", "reloading"} \/ SameGame(v)
      BY <2>2, <3>1 DEF PageFollows, FollowsGame
    <3>3. v.status \notin {"deaf", "blank", "reloading"} => SameGame(w)'
      BY <1>1, <1>6, <3>2 DEF SameGame, play
    <3>4. ~isGameRunning' /\ state' = "END" /\ questions' # 0
      BY <1>1, <2>2 DEF isGameRunning, RunningState, play
    <3> QED
      BY <1>6, <3>3, <3>4 DEF KeepsUp, FollowsGame
  <2> QED
    BY <2>1, <2>2
<1>8. Handled(v, sent'[c]) = w /\ Queue(sent'[c])
  BY <1>3, <1>4, HandledOne, Queues
<1> QED
  BY <1>7, <1>8 DEF Told

\* A page that hears of a reset loads again.
LEMMA ResetTold ==
  ASSUME NEW c, NEW v, IsPage(v),
         \/ sent'[c] = <<Packet("RESET_SERVER"), BuzzerLockPacket(FALSE)>>
         \/ sent'[c] = <<BuzzerLockPacket(FALSE), Packet("RESET_SERVER")>>
  PROVE  Told(c, v)'
<1>1. PICK p, q : p = Packet("RESET_SERVER") /\ q = BuzzerLockPacket(FALSE)
  OBVIOUS
<1>2. ASSUME NEW u, IsPage(u)
      PROVE  /\ IsPage(onMessage(u, p))
             /\ onMessage(u, p).status = IF u.status = "deaf" THEN "deaf" ELSE "reloading"
  BY <1>1, <1>2 DEF onMessage, Packet, BlankPage, IsPage, Page
<1>3. ASSUME NEW u, IsPage(u)
      PROVE  IsPage(onMessage(u, q)) /\ onMessage(u, q).status = u.status
  BY <1>1, <1>3 DEF BuzzerLockPacket, onMessage, NeedsGame, OnShownPage, IsPage, Page
<1>4. PICK w : w = Handled(v, sent'[c])
  OBVIOUS
<1>5. IsPage(w) /\ w.status = IF v.status = "deaf" THEN "deaf" ELSE "reloading"
  <2>1. PICK x, y : x = onMessage(v, p) /\ y = onMessage(v, q)
    OBVIOUS
  <2>2. /\ IsPage(x) /\ x.status = IF v.status = "deaf" THEN "deaf" ELSE "reloading"
        /\ IsPage(y) /\ y.status = v.status
    BY <1>2, <1>3, <2>1
  <2>3. CASE sent'[c] = <<p, q>>
    BY <1>3, <1>4, <2>1, <2>2, <2>3, HandledTwo
  <2>4. CASE sent'[c] = <<q, p>>
    BY <1>2, <1>4, <2>1, <2>2, <2>4, HandledTwo
  <2> QED
    BY <1>1, <2>3, <2>4
<1>6. KeepsUp(v, w)'
  BY <1>5 DEF KeepsUp, FollowsGame
<1> QED
  BY <1>1, <1>4, <1>6, Queues DEF Told

LEMMA ResetServerTold ==
  ASSUME Known, NEW c \in screens, NEW v, PageFollows(v), ResetServer
  PROVE  Told(c, v)'
<1>1. PICK b : b = <<Packet("RESET_SERVER"), BuzzerLockPacket(FALSE)>>
  OBVIOUS
<1>2. \E a : Tell(a, b)
  BY <1>1 DEF ResetServer
<1>3. sent'[c] = b
  BY <1>2, KnownTypes, ScreensHear
<1> QED
  BY <1>1, <1>3, ResetTold DEF PageFollows

\* The automaton goes on as it was once there is a master again.
LEMMA RegisterMasterPhase ==
  ASSUME Known, NEW d, NEW takeOver, RegisterMaster(d, takeOver)
  PROVE  PhaseStays
<1>1. master = None /\ UNCHANGED play /\ BecomeMaster(d, state, previous)
  BY DEF RegisterMaster
<1>2. \/ state = "WAITING_FOR_MASTER" /\ state' = "WAITING_FOR_SETUP"
      \/ state = "LOST_MASTER" /\ state' = "WAITING_FOR_START"
  <2>1. \/ state = "WAITING_FOR_MASTER"
        \/ state = "LOST_MASTER" /\ previous \in {"WAITING_FOR_START", "PLAYING"}
    BY <1>1 DEF Known, SeatInv, SeatMatchesState
  <2> QED
    BY <1>1, <2>1 DEF BecomeMaster, Rejoins
<1> QED
  BY <1>1, <1>2 DEF PhaseStays, isGameRunning, RunningState, play

\* Of masters that come, and of packets that are refused or ignored, screens hear nothing.
LEMMA SilentTold ==
  ASSUME Known, NEW c \in screens, NEW v, PageFollows(v),
         \/ \E d \in Conn : Connect(d) \/ CloseOther(d)
         \/ \E d \in MasterConn, takeOver \in BOOLEAN : RegisterMaster(d, takeOver) \/ RefuseMaster(d, takeOver)
         \/ \E d \in MasterConn : RegisterAgain(d)
         \/ StartGameRefused \/ IgnorePacket \/ StateSaved
  PROVE  Told(c, v)'
<1>1. c \in ScreenConn /\ c \in Conn /\ c # master /\ c \notin MasterConn
  BY KnownTypes, ScreenIsNoMaster
<1>2. ASSUME UNCHANGED <<state, play>>, sent'[c] = <<>> PROVE Told(c, v)'
  <2>1. PhaseStays
    BY <1>2, SameState DEF play
  <2> QED
    BY <1>2, <2>1, SilentKeeping
<1>3. ASSUME TellNobody PROVE sent'[c] = <<>>
  BY <1>1, <1>3 DEF TellNobody
<1>4. ASSUME NEW d \in MasterConn, NEW ps, TellOne(d, ps) PROVE sent'[c] = <<>>
  BY <1>1, <1>4 DEF TellOne
<1>5. CASE (\E d \in Conn : Connect(d) \/ CloseOther(d)) \/ IgnorePacket \/ StateSaved
  BY <1>2, <1>3, <1>5 DEF Connect, CloseOther, IgnorePacket, StateSaved, automaton
<1>6. ASSUME NEW d \in MasterConn, NEW takeOver, RefuseMaster(d, takeOver) PROVE Told(c, v)'
  BY <1>2, <1>4, <1>6 DEF RefuseMaster, automaton
<1>7. ASSUME NEW d, RegisterAgain(d) PROVE Told(c, v)'
  <2>1. \E a : Tell(a, <<>>)
    BY <1>7 DEF RegisterAgain
  <2> QED
    BY <1>1, <1>2, <1>7, <2>1, ScreensHear DEF RegisterAgain, automaton
<1>8. ASSUME StartGameRefused PROVE Told(c, v)'
  <2>1. \E a : Tell(a, <<>>)
    BY <1>8 DEF StartGameRefused
  <2> QED
    BY <1>1, <1>2, <1>8, <2>1, ScreensHear DEF StartGameRefused, automaton
<1>9. ASSUME NEW d \in MasterConn, NEW takeOver, RegisterMaster(d, takeOver) PROVE Told(c, v)'
  <2>1. UNCHANGED play /\ \E ps : TellOne(d, ps)
    BY <1>9 DEF RegisterMaster
  <2>3. PhaseStays
    BY <1>9, RegisterMasterPhase
  <2>4. sent'[c] = <<>>
    BY <1>4, <2>1
  <2> QED
    BY <2>1, <2>3, <2>4, SilentKeeping
<1> QED
  BY <1>5, <1>6, <1>7, <1>8, <1>9

\* The master leaves, or is replaced: the game waits for one, and one that had ended is reset.
LEMMA LeftPhase ==
  ASSUME Known, master # None, state # "END", UNCHANGED questions,
         \/ state' = StateWithoutMaster
         \/ \E c : BecomeMaster(c, StateWithoutMaster, PreviousWithoutMaster)
  PROVE  PhaseStays
<1>1. state \in {"WAITING_FOR_SETUP", "WAITING_FOR_START", "PLAYING"}
  BY KnownTypes DEF Known, SeatInv, SeatMatchesState, State
<1>2. CASE state = "WAITING_FOR_SETUP"
  <2>1. StateWithoutMaster = "WAITING_FOR_MASTER"
    BY <1>2 DEF StateWithoutMaster
  <2>2. state' \in {"WAITING_FOR_MASTER", "WAITING_FOR_SETUP"}
    BY <2>1 DEF BecomeMaster, Rejoins
  <2> QED
    BY <1>2, <2>2 DEF PhaseStays, isGameRunning, RunningState
<1>3. CASE state \in {"WAITING_FOR_START", "PLAYING"}
  <2>1. StateWithoutMaster = "LOST_MASTER" /\ PreviousWithoutMaster = state
    BY <1>3 DEF StateWithoutMaster, PreviousWithoutMaster
  <2>2. state' \in {"LOST_MASTER", "WAITING_FOR_START"}
    BY <1>3, <2>1 DEF BecomeMaster, Rejoins
  <2> QED
    BY <1>3, <2>2 DEF PhaseStays, isGameRunning, RunningState
<1> QED
  BY <1>1, <1>2, <1>3

LEMMA LeavingTold ==
  ASSUME Known, NEW c \in screens, NEW v, PageFollows(v),
         CloseMaster \/ \E d \in MasterConn : TakeOver(d)
  PROVE  Told(c, v)'
<1>1. c \in ScreenConn /\ c \in Conn /\ c # master /\ c \notin MasterConn /\ IsPage(v)
  BY KnownTypes, ScreenIsNoMaster DEF PageFollows
<1>2. PICK b : b = <<BuzzerLockPacket(FALSE), Packet("RESET_SERVER")>>
  OBVIOUS
<1>3. ASSUME CloseMaster, state = "END" PROVE Told(c, v)'
  <2>1. Tell(<<>>, b)
    BY <1>2, <1>3 DEF CloseMaster
  <2>2. sent'[c] = b
    BY <1>1, <2>1, ScreensHear
  <2> QED
    BY <1>1, <1>2, <2>2, ResetTold
<1>4. ASSUME CloseMaster, state # "END" PROVE Told(c, v)'
  <2>1. master # None /\ state' = StateWithoutMaster /\ UNCHANGED play /\ TellNobody
    BY <1>4 DEF CloseMaster
  <2>2. sent'[c] = <<>>
    BY <1>1, <2>1 DEF TellNobody
  <2>3. PhaseStays
    BY <1>4, <2>1, LeftPhase DEF play
  <2> QED
    BY <2>1, <2>2, <2>3, SilentKeeping
<1>5. ASSUME NEW d \in MasterConn, TakeOver(d), state = "END" PROVE Told(c, v)'
  <2>1. sent'[c] = b
    BY <1>1, <1>2, <1>5 DEF TakeOver
  <2> QED
    BY <1>1, <1>2, <2>1, ResetTold
<1>6. ASSUME NEW d \in MasterConn, TakeOver(d), state # "END" PROVE Told(c, v)'
  <2>1. master # None /\ BecomeMaster(d, StateWithoutMaster, PreviousWithoutMaster) /\ UNCHANGED play
    BY <1>6 DEF TakeOver
  <2>2. sent'[c] = <<>>
    BY <1>1, <1>6 DEF TakeOver
  <2>3. PhaseStays
    BY <1>6, <2>1, LeftPhase DEF play
  <2> QED
    BY <2>1, <2>2, <2>3, SilentKeeping
<1> QED
  BY <1>3, <1>4, <1>5, <1>6

\* A screen that joins, or joins again, gets the game that runs; the others hear nothing.
LEMMA RegisterScreenTold ==
  ASSUME Known, NEW c \in ScreenConn, NEW d \in ScreenConn, NEW v, RegisterScreen(d),
         PageFollows(v) \/ (c = d /\ v = BlankPage)
  PROVE  Told(c, v)'
<1>1. UNCHANGED <<state, play>> /\ TellOne(d, ScreenGets) /\ PhaseStays
  BY SameState DEF RegisterScreen, automaton, play
<1>2. c \in Conn
  BY ScreenIsNoMaster
<1>3. IsPage(v)
  BY DEF PageFollows, BlankPage, IsPage, Page
<1>4. CASE c = d /\ isGameRunning
  <2>1. PICK p : p = DataForScreen
    OBVIOUS
  <2>2. sent'[c] = <<p>>
    BY <1>1, <1>2, <1>4, <2>1 DEF TellOne, ScreenGets
  <2>3. PICK w : w = onMessage(v, p)
    OBVIOUS
  <2>4. IsPage(w) /\ (w.status = "reloading" \/ (w.status = "deaf" /\ v.status = "deaf")
                      \/ w = Page("shown", teams, points, game))
    <3>1. p = [type |-> "DATA_FOR_SCREEN", teams |-> teams, points |-> points, game |-> game]
      BY <2>1 DEF DataForScreen
    <3> QED
      BY <1>3, <2>3, <3>1, OnData
  <2>5. KeepsUp(v, w)'
    BY <1>1, <1>4, <2>4 DEF KeepsUp, FollowsGame, SameGame, Page, play, isGameRunning, RunningState
  <2>6. Handled(v, sent'[c]) = w /\ Queue(sent'[c])
    BY <2>2, <2>3, HandledOne, Queues
  <2> QED
    BY <2>5, <2>6 DEF Told
<1>5. CASE ~(c = d /\ isGameRunning)
  <2>1. sent'[c] = <<>>
    BY <1>1, <1>2, <1>5 DEF TellOne, ScreenGets
  <2>2. PageFollows(v)
    <3>1. CASE PageFollows(v)
      BY <3>1
    <3>2. CASE c = d /\ v = BlankPage
      <4>1. v.status = "blank" /\ ~isGameRunning
        BY <1>5, <3>2 DEF BlankPage
      <4> QED
        BY <1>3, <4>1 DEF PageFollows, FollowsGame
    <3> QED
      BY <3>1, <3>2
  <2> QED
    BY <1>1, <2>1, <2>2, SilentKeeping
<1> QED
  BY <1>4, <1>5

\* Whatever the server does, its screens are told of it.
LEMMA StepTold ==
  ASSUME Known, NEW c \in screens, NEW v, PageFollows(v), Next
  PROVE  Told(c, v)'
<1>1. CASE Connections
  BY <1>1, KnownTypes, SilentTold, LeavingTold, RegisterScreenTold DEF Connections
<1>2. CASE Setup
  BY <1>2, SetupGameTold, UpdateTeamsTold, StartGameTold, SilentTold, EndGameTold, ResetServerTold DEF Setup
<1>3. CASE Play
  BY <1>3, TeamSetPointsTold, GradeAnswerTold, AnswerSetStateTold, SetQuestionTold, SetBuzzerLockTold,
     OnePacketTold DEF Play
<1>4. CASE Buzzers
  BY <1>4, KeypressReleaseTold, SerialReleaseTold, PressTold DEF Buzzers
<1>5. CASE IgnorePacket \/ BuzzerColorChanged \/ StateSaved
  BY <1>5, SilentTold, BuzzerColorTold
<1> QED
  BY <1>1, <1>2, <1>3, <1>4, <1>5 DEF Next

----------------------------------------------------------------------------
(* What is known of the server stays so, and who is told nothing.                                 *)

LEMMA QuestionsStep ==
  ASSUME Known, Next
  PROVE  GameHasQuestions'
<1>1. ASSUME PhaseStays, UNCHANGED teams PROVE GameHasQuestions'
  BY <1>1 DEF Known, GameHasQuestions, PhaseStays
<1>2. ASSUME UNCHANGED <<state, questions, teams>> PROVE GameHasQuestions'
  BY <1>1, <1>2, SameState
<1>3. ASSUME ResetServerData, state' \in {"WAITING_FOR_MASTER", "WAITING_FOR_SETUP"} PROVE GameHasQuestions'
  BY <1>3 DEF GameHasQuestions, ResetServerData, isGameRunning, RunningState
<1>4. CASE Connections
  <2>1. ASSUME NEW c, Connect(c) \/ CloseOther(c) \/ RegisterAgain(c) \/ RegisterScreen(c) PROVE GameHasQuestions'
    BY <1>2, <2>1 DEF Connect, CloseOther, RegisterAgain, RegisterScreen, automaton, play
  <2>2. ASSUME NEW c, NEW takeOver, RefuseMaster(c, takeOver) PROVE GameHasQuestions'
    BY <1>2, <2>2 DEF RefuseMaster, automaton, play
  <2>3. ASSUME NEW c, NEW takeOver, RegisterMaster(c, takeOver) PROVE GameHasQuestions'
    BY <1>1, <2>3, RegisterMasterPhase DEF RegisterMaster, play
  <2>4. ASSUME CloseMaster PROVE GameHasQuestions'
    <3>1. CASE state = "END"
      BY <1>3, <2>4, <3>1 DEF CloseMaster, StateWithoutMaster
    <3>2. CASE state # "END"
      BY <1>1, <2>4, <3>2, LeftPhase DEF CloseMaster, play
    <3> QED
      BY <3>1, <3>2
  <2>5. ASSUME NEW c, TakeOver(c) PROVE GameHasQuestions'
    <3>1. CASE state = "END"
      <4>1. BecomeMaster(c, "WAITING_FOR_MASTER", None) /\ ResetServerData
        BY <2>5, <3>1 DEF TakeOver, StateWithoutMaster, PreviousWithoutMaster
      <4>2. state' = "WAITING_FOR_SETUP"
        BY <4>1 DEF BecomeMaster, Rejoins
      <4> QED
        BY <1>3, <4>1, <4>2
    <3>2. CASE state # "END"
      BY <1>1, <2>5, <3>2, LeftPhase DEF TakeOver, play
    <3> QED
      BY <3>1, <3>2
  <2> QED
    BY <1>4, <2>1, <2>2, <2>3, <2>4, <2>5 DEF Connections
<1>5. CASE Setup
  <2>1. ASSUME NEW ts, NEW saved, NEW stored, NEW isNew, SetupGame(ts, saved, stored, isNew)
        PROVE  GameHasQuestions'
    <3>1. CASE TeamsOk(ts)
      BY <2>1, <3>1, DataAssumption DEF SetupGame, GameHasQuestions
    <3>2. CASE ~TeamsOk(ts)
      BY <1>2, <2>1, <3>2 DEF SetupGame, automaton
    <3> QED
      BY <3>1, <3>2
  <2>2. ASSUME NEW ts, UpdateTeams(ts) PROVE GameHasQuestions'
    <3>1. isGameRunning /\ UNCHANGED questions
      BY <2>2 DEF UpdateTeams, isGameRunning, RunningState
    <3> QED
      BY <3>1 DEF Known, GameHasQuestions
  <2>3. ASSUME StartGame PROVE GameHasQuestions'
    BY <1>1, <2>3 DEF StartGame, PhaseStays, isGameRunning, RunningState
  <2>4. ASSUME StartGameRefused PROVE GameHasQuestions'
    BY <1>2, <2>4 DEF StartGameRefused, automaton, play
  <2>5. ASSUME EndGame PROVE GameHasQuestions'
    BY <2>5 DEF EndGame, Known, GameHasQuestions, isGameRunning, RunningState, play
  <2>6. ASSUME ResetServer PROVE GameHasQuestions'
    BY <1>3, <2>6 DEF ResetServer
  <2> QED
    BY <1>5, <2>1, <2>2, <2>3, <2>4, <2>5, <2>6 DEF Setup
<1>6. CASE Keeps
  BY <1>2, <1>6 DEF Keeps, automaton
<1> QED
  BY <1>4, <1>5, <1>6, PlayKeeps, OthersKeep DEF Next

\* A screen is one the server knows until its connection closes.
LEMMA OpenScreensStep ==
  ASSUME Known, Next
  PROVE  screens' \subseteq open' /\ screens \cap open' \subseteq screens'
<1> DEFINE Stay == screens' \subseteq open' /\ screens \cap open' \subseteq screens'
<1>1. screens \subseteq open /\ master \notin screens /\ screens \cap MasterConn = {}
  BY KnownTypes, ScreenIsNoMaster DEF Known
<1>2. ASSUME UNCHANGED <<seat, screens>> PROVE Stay
  BY <1>1, <1>2 DEF seat
<1>3. CASE Connections
  <2>1. ASSUME NEW c, Connect(c) \/ CloseOther(c) PROVE Stay
    BY <1>1, <2>1 DEF Connect, CloseOther
  <2>2. ASSUME CloseMaster PROVE Stay
    BY <1>1, <2>2 DEF CloseMaster
  <2>3. ASSUME NEW c \in MasterConn, NEW takeOver, RegisterMaster(c, takeOver) \/ RefuseMaster(c, takeOver)
        PROVE  Stay
    BY <1>1, <2>3 DEF RegisterMaster, RefuseMaster
  <2>4. ASSUME NEW c, RegisterAgain(c) \/ TakeOver(c) \/ RegisterScreen(c) PROVE Stay
    BY <1>1, <2>4 DEF RegisterAgain, TakeOver, RegisterScreen, seat
  <2> QED
    BY <1>3, <2>1, <2>2, <2>3, <2>4 DEF Connections
<1>4. CASE Setup
  BY <1>2, <1>4 DEF Setup, SetupGame, UpdateTeams, StartGame, StartGameRefused, EndGame, ResetServer
<1>5. CASE Keeps
  BY <1>2, <1>5 DEF Keeps
<1> QED
  BY <1>3, <1>4, <1>5, PlayKeeps, OthersKeep DEF Next

LEMMA KnownStep ==
  ASSUME Known, Next, game'.marked \subseteq teams'
  PROVE  Known'
<1>1. SeatInv' /\ PlayInv' /\ NoGameNoData'
  BY SeatStep, PlayStep, NoGameStep DEF Known
<1> QED
  BY <1>1, QuestionsStep, OpenScreensStep DEF Known

LEMMA KnownUnchanged ==
  ASSUME Known, UNCHANGED vars
  PROVE  Known'
BY DEF Known, PlayInv, PlayTypeOK, LockAgrees, SeatInv, ServerTypeOK, SeatMatchesState, ResumesStartedGame,
   NoGameNoData, GameHasQuestions, isGameRunning, vars, automaton, seat, play

\* Nobody but the screens hears of the game, and a screen that joins only what it joins.
LEMMA OthersHearNothing ==
  ASSUME Known, Next, NEW c \in ScreenConn, c \notin screens
  PROVE  (sent'[c] = <<>> /\ c \notin screens') \/ RegisterScreen(c)
<1>1. c \in Conn /\ c # master /\ c \notin MasterConn
  BY ScreenIsNoMaster
<1>2. ASSUME (\E a, b : Tell(a, b)) \/ TellNobody, screens' \subseteq screens
      PROVE  sent'[c] = <<>> /\ c \notin screens'
  BY <1>1, <1>2, ScreensHear DEF TellNobody
<1>3. ASSUME NEW d \in Conn, NEW ps, d # c, TellOne(d, ps) PROVE sent'[c] = <<>>
  BY <1>1, <1>3 DEF TellOne
<1>4. CASE Connections
  <2>1. ASSUME NEW d, Connect(d) \/ CloseOther(d) PROVE sent'[c] = <<>> /\ c \notin screens'
    BY <1>2, <2>1 DEF Connect, CloseOther
  <2>2. ASSUME CloseMaster PROVE sent'[c] = <<>> /\ c \notin screens'
    BY <1>2, <2>2 DEF CloseMaster
  <2>3. ASSUME NEW d \in MasterConn, NEW takeOver, RegisterMaster(d, takeOver) \/ RefuseMaster(d, takeOver)
        PROVE  sent'[c] = <<>> /\ c \notin screens'
    <3>1. d \in Conn /\ d # c
      BY <1>1 DEF Conn
    <3>2. UNCHANGED screens /\ \E ps : TellOne(d, ps)
      BY <2>3 DEF RegisterMaster, RefuseMaster
    <3> QED
      BY <1>3, <3>1, <3>2
  <2>4. ASSUME NEW d, RegisterAgain(d) PROVE sent'[c] = <<>> /\ c \notin screens'
    BY <1>2, <2>4 DEF RegisterAgain
  <2>5. ASSUME NEW d \in MasterConn, TakeOver(d) PROVE sent'[c] = <<>> /\ c \notin screens'
    <3>1. d # c
      BY <1>1
    <3> QED
      BY <1>1, <2>5, <3>1 DEF TakeOver
  <2>6. ASSUME NEW d \in ScreenConn, d # c, RegisterScreen(d) PROVE sent'[c] = <<>> /\ c \notin screens'
    <3>1. d \in Conn
      BY DEF Conn
    <3> QED
      BY <1>3, <2>6, <3>1 DEF RegisterScreen
  <2> QED
    BY <1>4, <2>1, <2>2, <2>3, <2>4, <2>5, <2>6 DEF Connections
<1>5. CASE Setup
  BY <1>2, <1>5 DEF Setup, SetupGame, UpdateTeams, TellAll, StartGame, StartGameRefused, EndGame, ResetServer
<1>6. CASE Play
  <2>1. UNCHANGED screens
    BY <1>6, PlayKeeps DEF Keeps
  <2>2. ASSUME NEW s, NEW a, AnswerSetState(s, a) PROVE \E b, d : Tell(b, d)
    BY <2>2 DEF AnswerSetState
  <2>3. ASSUME NEW t, NEW r, NEW a, NEW reveal, GradeAnswer(t, r, a, reveal) PROVE \E b, d : Tell(b, d)
    BY <2>3 DEF GradeAnswer, TellAll
  <2>4. ASSUME NEW n, SetQuestion(n) PROVE \E b, d : Tell(b, d)
    BY <2>4 DEF SetQuestion
  <2>5. \E b, d : Tell(b, d)
    BY <1>6, <2>2, <2>3, <2>4 DEF Play, TeamSetPoints, MarkTeam, UnmarkAllTeams, SetBuzzerLock, SetMediaVolume,
       UpdateMediaState, TellAll
  <2> QED
    BY <1>2, <2>1, <2>5
<1>7. CASE Buzzers \/ IgnorePacket \/ BuzzerColorChanged \/ StateSaved
  <2>1. UNCHANGED screens
    BY <1>7, OthersKeep DEF Keeps
  <2>2. ASSUME NEW t, LockOnTeam(t) PROVE \E a, b : Tell(a, b)
    BY <2>2 DEF LockOnTeam
  <2>3. KeypressRelease \/ SerialRelease \/ BuzzerColorChanged => \E a, b : Tell(a, b)
    BY DEF KeypressRelease, SerialRelease, BuzzerColorChanged, TellAll
  <2>4. ASSUME NEW t, KeypressTeam(t) PROVE \E a, b : Tell(a, b)
    BY <2>2, <2>4 DEF KeypressTeam
  <2>5. ASSUME NEW t, SerialPress(t) PROVE (\E a, b : Tell(a, b)) \/ TellNobody
    BY <2>2, <2>5 DEF SerialPress
  <2>6. ASSUME NEW p, UdpBuzzerPress(p) PROVE \E a, b : Tell(a, b)
    BY <2>2, <2>6 DEF UdpBuzzerPress
  <2>7. IgnorePacket \/ StateSaved => TellNobody
    BY DEF IgnorePacket, StateSaved
  <2>8. (\E a, b : Tell(a, b)) \/ TellNobody
    BY <1>7, <2>3, <2>4, <2>5, <2>6, <2>7 DEF Buzzers
  <2> QED
    BY <1>2, <2>1, <2>8
<1> QED
  BY <1>4, <1>5, <1>6, <1>7 DEF Next

----------------------------------------------------------------------------
(* Every screen follows the game.                                                                 *)

PagesWaiting ==
  \A c \in ScreenConn : Queue(inbox[c]) /\ (c \notin screens => inbox[c] = <<>> /\ view[c] = BlankPage)

ScreensInv ==
  /\ Known
  /\ DOMAIN inbox = ScreenConn /\ DOMAIN view = ScreenConn
  /\ PagesWaiting
  /\ \A c \in screens : PageFollows(Upcoming(c))

LEMMA ScreensInvInit == ScreensInit => ScreensInv
<1> SUFFICES ASSUME ScreensInit PROVE ScreensInv
  OBVIOUS
<1>1. Init /\ screens = {} /\ state = "WAITING_FOR_MASTER" /\ teams = {} /\ game = InitialGame(FALSE)
  BY DEF ScreensInit, Init
<1>2. PlayInv /\ SeatInv
  BY <1>1, PlayInvInit, SeatInit
<1>3. NoGameNoData
  BY DEF ScreensInit, Init, NoGameNoData
<1>4. Known
  BY <1>1, <1>2, <1>3 DEF Known, GameHasQuestions, isGameRunning, RunningState, InitialGame
<1>5. PagesWaiting
  BY Queues DEF ScreensInit, PagesWaiting
<1> QED
  BY <1>1, <1>4, <1>5 DEF ScreensInit, ScreensInv

\* What the server tells a screen comes after what is on its way.
LEMMA UpcomingStep ==
  ASSUME ScreensInv, Next, Delivered, NEW c \in screens', NEW v, v = Upcoming(c)
  PROVE  Queue(inbox'[c]) /\ KeepsUp(v, Upcoming(c))'
<1>1. Known /\ Known'
  BY KnownStep DEF ScreensInv, Delivered
<1>2. c \in ScreenConn /\ c \in open' /\ screens \cap open' \subseteq screens'
  BY <1>1, KnownTypes, OpenScreensStep DEF Known, SeatInv, ServerTypeOK
<1>3. inbox'[c] = inbox[c] \o sent'[c] /\ view'[c] = view[c]
  BY <1>2 DEF Delivered
<1>4. Told(c, v)'
  <2>1. CASE c \in screens
    <3>1. PageFollows(v)
      BY <2>1 DEF ScreensInv
    <3> QED
      BY <1>1, <2>1, <3>1, StepTold
  <2>2. CASE c \notin screens
    <3>1. RegisterScreen(c)
      BY <1>1, <1>2, <2>2, OthersHearNothing
    <3>2. v = BlankPage
      BY <1>2, <2>2, HandledNone DEF Upcoming, ScreensInv, PagesWaiting
    <3> QED
      BY <1>1, <1>2, <3>1, <3>2, RegisterScreenTold
  <2> QED
    BY <2>1, <2>2
<1>5. PICK q, r, u : q = inbox[c] /\ r = sent'[c] /\ u = view[c]
  OBVIOUS
<1>6. Queue(q) /\ Queue(r) /\ KeepsUp(v, Handled(v, r))' /\ v = Handled(u, q)
  BY <1>2, <1>4, <1>5 DEF Told, ScreensInv, PagesWaiting, Upcoming
<1>7. Queue(q \o r) /\ Handled(u, q \o r) = Handled(v, r)
  BY <1>6, HandledThen
<1> QED
  BY <1>3, <1>5, <1>6, <1>7 DEF Upcoming

LEMMA DeliveredStep ==
  ASSUME ScreensInv, Next, Delivered
  PROVE  ScreensInv'
<1>1. Known /\ Known'
  BY KnownStep DEF ScreensInv, Delivered
<1>2. screens \subseteq ScreenConn /\ screens' \subseteq ScreenConn
  BY <1>1, KnownTypes DEF Known, SeatInv, ServerTypeOK
<1>3. /\ inbox' = [c \in ScreenConn |-> IF c \in open' THEN inbox[c] \o sent'[c] ELSE <<>>]
      /\ view' = [c \in ScreenConn |-> IF c \in open' THEN view[c] ELSE BlankPage]
  BY DEF Delivered
<1>4. screens' \subseteq open' /\ screens \cap open' \subseteq screens'
  BY <1>1, OpenScreensStep
<1>5. ASSUME NEW c \in screens'
      PROVE  Queue(inbox'[c]) /\ PageFollows(Upcoming(c))'
  <2>1. PICK v : v = Upcoming(c)
    OBVIOUS
  <2>2. Queue(inbox'[c]) /\ KeepsUp(v, Upcoming(c))'
    BY <2>1, UpcomingStep
  <2> QED
    BY <2>2 DEF KeepsUp, PageFollows
<1>6. ASSUME NEW c \in ScreenConn, c \notin screens'
      PROVE  inbox'[c] = <<>> /\ view'[c] = BlankPage
  <2>1. CASE c \notin open'
    BY <1>3, <2>1
  <2>2. CASE c \in open'
    <3>1. c \notin screens
      BY <1>4, <1>6, <2>2
    <3>2. sent'[c] = <<>>
      BY <1>1, <1>6, <3>1, OthersHearNothing DEF RegisterScreen
    <3>3. inbox[c] = <<>> /\ view[c] = BlankPage
      BY <3>1 DEF ScreensInv, PagesWaiting
    <3>4. <<>> \o <<>> = <<>>
      OBVIOUS
    <3> QED
      BY <1>3, <2>2, <3>2, <3>3, <3>4
  <2> QED
    BY <2>1, <2>2
<1>7. PagesWaiting'
  BY <1>5, <1>6, Queues DEF PagesWaiting
<1> QED
  BY <1>1, <1>3, <1>5, <1>7 DEF ScreensInv

\* A page that handles a packet will show what it would have shown.
LEMMA UpcomingStays ==
  ASSUME ScreensInv, NEW c \in ScreenConn, PageReceives(c), NEW d \in ScreenConn
  PROVE  Queue(inbox'[d]) /\ Upcoming(d)' = Upcoming(d)
<1>1. /\ inbox[c] # <<>>
      /\ view' = [view EXCEPT ![c] = onMessage(view[c], Head(inbox[c]))]
      /\ inbox' = [inbox EXCEPT ![c] = Tail(inbox[c])]
  BY DEF PageReceives
<1>2. PICK q, u : q = inbox[d] /\ u = view[d]
  OBVIOUS
<1>3. Queue(q)
  BY <1>2 DEF ScreensInv, PagesWaiting
<1>4. CASE d = c
  <2>1. PICK S : q \in Seq(S)
    BY <1>3 DEF Queue
  <2>2. q # <<>> /\ inbox'[d] = Tail(q) /\ view'[d] = onMessage(u, Head(q))
    BY <1>1, <1>2, <1>4 DEF ScreensInv
  <2>3. Tail(q) \in Seq(S) /\ Handled(u, q) = Handled(onMessage(u, Head(q)), Tail(q))
    BY <2>1, <2>2, HandledHead
  <2> QED
    BY <1>2, <2>2, <2>3 DEF Queue, Upcoming
<1>5. CASE d # c
  <2>1. inbox'[d] = q /\ view'[d] = u
    BY <1>1, <1>2, <1>5 DEF ScreensInv
  <2> QED
    BY <1>2, <1>3, <2>1 DEF Upcoming
<1> QED
  BY <1>4, <1>5

LEMMA PageReceivesStep ==
  ASSUME ScreensInv, NEW c \in ScreenConn, PageReceives(c)
  PROVE  ScreensInv'
<1>1. /\ inbox[c] # <<>> /\ UNCHANGED vars
      /\ view' = [view EXCEPT ![c] = onMessage(view[c], Head(inbox[c]))]
      /\ inbox' = [inbox EXCEPT ![c] = Tail(inbox[c])]
  BY DEF PageReceives
<1>2. Known'
  BY <1>1, KnownUnchanged DEF ScreensInv
<1>3. screens \subseteq ScreenConn /\ UNCHANGED screens /\ c \in screens
  BY <1>1, KnownTypes DEF ScreensInv, PagesWaiting, vars
<1>4. ASSUME NEW d \in ScreenConn PROVE Queue(inbox'[d]) /\ Upcoming(d)' = Upcoming(d)
  BY UpcomingStays
<1>5. ASSUME NEW d \in screens' PROVE PageFollows(Upcoming(d))'
  <2>1. PICK v : v = Upcoming(d)
    OBVIOUS
  <2>2. PageFollows(v) /\ Upcoming(d)' = v
    BY <1>3, <1>4, <2>1 DEF ScreensInv
  <2>3. PageFollows(v)'
    BY <1>1, <2>2 DEF PageFollows, FollowsGame, SameGame, isGameRunning, vars, automaton, play
  <2> QED
    BY <2>2, <2>3
<1>6. PagesWaiting'
  BY <1>1, <1>3, <1>4 DEF ScreensInv, PagesWaiting
<1> QED
  BY <1>1, <1>2, <1>5, <1>6 DEF ScreensInv

LEMMA PageActions ==
  ASSUME NEW c \in ScreenConn, PageConnects(c) \/ PageRegisters(c) \/ PageReloads(c)
  PROVE  Next /\ Delivered
  BY DEF PageConnects, PageRegisters, PageReloads, Next, Connections, Conn

LEMMA ScreensInvStep ==
  ASSUME ScreensInv, [ScreensNext]_world
  PROVE  ScreensInv'
<1>1. ASSUME NEW c \in ScreenConn, PageConnects(c) \/ PageRegisters(c) \/ PageReloads(c)
      PROVE  Next /\ Delivered
  BY <1>1, PageActions
<1>2. CASE ServerStep
  BY <1>2, DeliveredStep DEF ServerStep
<1>3. CASE UNCHANGED world
  <2>1. UNCHANGED <<vars, inbox, view>>
    BY <1>3 DEF world
  <2>2. Known'
    BY <2>1, KnownUnchanged DEF ScreensInv
  <2>3. ASSUME NEW c \in screens' PROVE PageFollows(Upcoming(c))'
    BY <2>1 DEF ScreensInv, PageFollows, FollowsGame, SameGame, isGameRunning, vars, automaton, play, Upcoming
  <2> QED
    BY <2>1, <2>2, <2>3 DEF ScreensInv, PagesWaiting, vars
<1> QED
  BY <1>1, <1>2, <1>3, DeliveredStep, PageReceivesStep DEF ScreensNext

\* However many screens there are, and whatever is on its way to them: a page shows the server's
\* game as soon as it handled what it was sent, and nothing of a game that was reset.
THEOREM ScreensUpToDate == ScreensSpec => []ScreensFollow
<1>1. ScreensInv => ScreensFollow
  BY DEF ScreensInv, PageFollows, ScreensFollow, Deaf
<1> QED
  BY ScreensInvInit, ScreensInvStep, <1>1, PTL DEF ScreensSpec

LEMMA DeafStep ==
  ASSUME ScreensInv, [ScreensNext]_world, NEW c \in ScreenConn, isGameRunning', Deaf(c)'
  PROVE  Deaf(c)
<1>1. ASSUME Next, Delivered PROVE Deaf(c)
  <2>1. ScreensInv'
    BY <1>1, DeliveredStep
  <2>2. CASE c \in screens'
    <3>1. PICK v : v = Upcoming(c)
      OBVIOUS
    <3>2. KeepsUp(v, Upcoming(c))'
      BY <1>1, <2>2, <3>1, UpcomingStep
    <3>3. ~FollowsGame(Upcoming(c))'
      BY DEF FollowsGame, Deaf, isGameRunning, RunningState
    <3> QED
      BY <3>1, <3>2, <3>3 DEF KeepsUp, Deaf
  <2>3. CASE c \notin screens'
    <3>1. inbox'[c] = <<>> /\ view'[c] = BlankPage
      BY <2>1, <2>3 DEF ScreensInv, PagesWaiting
    <3>2. Upcoming(c)' = BlankPage
      BY <3>1, HandledNone DEF Upcoming
    <3> QED
      BY <3>2 DEF Deaf, BlankPage
  <2> QED
    BY <2>2, <2>3
<1>2. CASE ServerStep
  BY <1>1, <1>2 DEF ServerStep
<1>3. ASSUME NEW d \in ScreenConn, PageConnects(d) \/ PageRegisters(d) \/ PageReloads(d) PROVE Deaf(c)
  BY <1>1, <1>3, PageActions
<1>4. ASSUME NEW d \in ScreenConn, PageReceives(d) PROVE Deaf(c)
  BY <1>4, UpcomingStays DEF Deaf
<1>5. CASE UNCHANGED world
  BY <1>5 DEF world, Deaf, Upcoming
<1> QED
  BY <1>2, <1>3, <1>4, <1>5 DEF ScreensNext

\* What a running game sends makes no page deaf, however many screens there are: only what reaches a page that
\* loaded between two games does.
THEOREM DeafOnlyBetweenGames == ScreensSpec => NoneGoesDeafInGame
<1>1. ScreensInv /\ [ScreensNext]_world
      => [\A c \in ScreenConn : isGameRunning' /\ Deaf(c)' => Deaf(c)]_world
  BY DeafStep
<1> QED
  BY ScreensInvInit, ScreensInvStep, <1>1, PTL DEF ScreensSpec, NoneGoesDeafInGame

----------------------------------------------------------------------------
(* What the question pane of the master's page shows of the answers.                              *)

\* Of the answers, the master is told only those that are revealed, and never the question.
Mild(p) ==
  /\ p.type \notin {"SET_QUESTION", "RESET_SERVER", "DATA_FOR_SCREEN", "END_GAME"}
  /\ p.type = "ANSWER_SET_STATE" => p.answerState = "ACTIVATE"
  /\ p.type = "SET_BUZZER_LOCK" => p.setLock \in BOOLEAN

AllMild(q) == \E S : q \in Seq(S) /\ \A p \in S : Mild(p)

\* What the page asks for.
Asked(p) ==
  /\ p.type \in {"TEAM_SET_POINTS", "MARK_TEAM", "ANSWER_SET_STATE", "SET_QUESTION", "SET_BUZZER_LOCK",
                "UPDATE_TEAMS", "GRADE_ANSWER"}
  /\ p.type = "SET_BUZZER_LOCK" => p.setLock = FALSE

AllAsked(q) == \E S : q \in Seq(S) /\ \A p \in S : Asked(p)

Seated == master \in MasterConn /\ master \notin screens

GameFields == {"question", "welcome", "lock", "marked", "logged", "activated", "media", "volume"}
HasGame(v) == "game" \in DOMAIN v /\ GameFields \subseteq DOMAIN v.game
HasAnswers(p) == {"logged", "activated", "sheet"} \subseteq DOMAIN p

\* the sheet is about an answer of the question
SheetFits(p, g) == p.sheet # None => p.sheet \in OptionsAt(g)

SameAnswers(p, g) ==
  p.logged = OptionsAt(g) \cap g.logged /\ p.activated = OptionsAt(g) \cap g.activated

PaneInv ==
  /\ Seated /\ AllMild(toMaster) /\ AllAsked(toServer) /\ GameFields \subseteq DOMAIN game
  /\ HasGame(copy) /\ HasAnswers(pane)
  /\ SheetFits(pane, copy.game) /\ SameAnswers(pane, copy.game)

LEMMA MildQueues ==
  /\ AllMild(<<>>)
  /\ \A p : Mild(p) => AllMild(<<p>>)
  /\ \A q, r : AllMild(q) /\ AllMild(r) => AllMild(q \o r)
<1>1. AllMild(<<>>)
  <2>1. PICK S : S = {}
    OBVIOUS
  <2>2. <<>> \in Seq(S) /\ \A x \in S : Mild(x)
    BY <2>1
  <2> QED
    BY <2>2 DEF AllMild
<1>2. ASSUME NEW p, Mild(p) PROVE AllMild(<<p>>)
  <2>1. PICK S : S = {p}
    OBVIOUS
  <2>2. <<p>> \in Seq(S) /\ \A x \in S : Mild(x)
    BY <1>2, <2>1
  <2> QED
    BY <2>2 DEF AllMild
<1>3. ASSUME NEW q, NEW r, AllMild(q), AllMild(r) PROVE AllMild(q \o r)
  <2>1. PICK S : q \in Seq(S) /\ \A p \in S : Mild(p)
    BY <1>3 DEF AllMild
  <2>2. PICK T : r \in Seq(T) /\ \A p \in T : Mild(p)
    BY <1>3 DEF AllMild
  <2>3. PICK U : U = S \cup T
    OBVIOUS
  <2>4. q \in Seq(U) /\ r \in Seq(U) /\ \A p \in U : Mild(p)
    BY <2>1, <2>2, <2>3
  <2>5. q \o r \in Seq(U)
    BY <2>4
  <2> QED
    BY <2>4, <2>5 DEF AllMild
<1> QED
  BY <1>1, <1>2, <1>3

LEMMA MildPackets ==
  /\ \A b \in BOOLEAN : Mild(BuzzerLockPacket(b))
  /\ \A m : Mild(MediaStatePacket(m))
  /\ \A t, b : Mild(MarkTeamPacket(t, b))
  /\ \A t, n : Mild(PointsPacket(t, n))
  /\ \A ts, n : Mild(TeamsPacket(ts, n))
  /\ \A t, r : Mild(GradePacket(t, r))
  /\ \A some : Mild(AnswersPacket("ACTIVATE", some))
  /\ Mild(UnmarkAllPacket)
BY DEF Mild, BuzzerLockPacket, MediaStatePacket, MarkTeamPacket, PointsPacket, TeamsPacket, GradePacket,
   AnswersPacket, UnmarkAllPacket

LEMMA MildTwo ==
  ASSUME NEW p, NEW q, Mild(p), Mild(q)
  PROVE  AllMild(<<p, q>>)
<1>1. PICK S : S = {p, q}
  OBVIOUS
<1>2. <<p, q>> \in Seq(S) /\ \A x \in S : Mild(x)
  BY <1>1
<1> QED
  BY <1>2 DEF AllMild

LEMMA MildRelease == AllMild(ReleasePackets)
  BY MildPackets, MildTwo DEF ReleasePackets

\* What the master hears.
LEMMA MasterHears ==
  ASSUME Seated, NEW a, NEW b, Tell(a, b)
  PROVE  sent'[master] = a
<1>1. master \in Conn /\ master \notin screens
  BY DEF Conn, Seated
<1> QED
  BY <1>1 DEF Tell

LEMMA PressMild ==
  ASSUME Seated, Buzzers
  PROVE  AllMild(sent'[master])
<1>1. ASSUME NEW a, AllMild(a), TellAll(a) PROVE AllMild(sent'[master])
  BY <1>1, MasterHears DEF TellAll
<1>2. ASSUME KeypressRelease PROVE AllMild(sent'[master])
  <2>1. AllMild(<<BuzzerLockPacket(FALSE), UnmarkAllPacket>>)
    BY MildPackets, MildTwo
  <2> QED
    BY <1>1, <1>2, <2>1 DEF KeypressRelease
<1>3. ASSUME SerialRelease PROVE AllMild(sent'[master])
  BY <1>1, <1>3, MildRelease DEF SerialRelease
<1>4. ASSUME NEW t, LockOnTeam(t) PROVE AllMild(sent'[master])
  <2>1. PICK p, q : p = MarkTeamPacket(t, TRUE) /\ q = BuzzerLockPacket(TRUE)
    OBVIOUS
  <2>2. PICK m : \E b : Tell(Append(<<p, q>>, MediaStatePacket(m)), b)
    BY <1>4, <2>1 DEF LockOnTeam
  <2>3. PICK r : r = MediaStatePacket(m)
    OBVIOUS
  <2>4. PICK S : S = {p, q, r}
    OBVIOUS
  <2>5. PICK a : a = Append(<<p, q>>, r)
    OBVIOUS
  <2>6. a \in Seq(S) /\ \A x \in S : Mild(x)
    <3>1. \A x \in S : Mild(x)
      BY <2>1, <2>3, <2>4, MildPackets
    <3>2. <<p, q>> \in Seq(S) /\ r \in S
      BY <2>4
    <3> QED
      BY <2>5, <3>1, <3>2
  <2>7. sent'[master] = a
    BY <2>2, <2>3, <2>5, MasterHears
  <2> QED
    BY <2>6, <2>7 DEF AllMild
<1>5. ASSUME TellNobody PROVE AllMild(sent'[master])
  BY <1>5, MildQueues DEF TellNobody, Conn, Seated
<1> QED
  BY <1>2, <1>3, <1>4, <1>5 DEF Buzzers, KeypressTeam, SerialPress, UdpBuzzerPress

\* What the server makes of a packet of the master's.
LEMMA KindLemma ==
  ASSUME NEW m, Asked(m), Handles(m)
  PROVE  \/ \E t, n : TeamSetPoints(t, n)
         \/ UnmarkAllTeams \/ IgnorePacket
         \/ \E s, a : AnswerSetState(s, a)
         \/ \E q : SetQuestion(q)
         \/ SetBuzzerLock(FALSE)
         \/ \E ts : UpdateTeams(ts)
         \/ \E t, result, a, reveal : GradeAnswer(t, result, a, reveal)
BY DEF Handles, Asked

LEMMA HandlesMild ==
  ASSUME Seated, NEW m, Asked(m), Handles(m)
  PROVE  AllMild(sent'[master])
<1>1. ASSUME NEW a, AllMild(a), NEW b, Tell(a, b) PROVE AllMild(sent'[master])
  BY <1>1, MasterHears
<1>2. ASSUME NEW t, NEW n, TeamSetPoints(t, n) PROVE AllMild(sent'[master])
  BY <1>1, <1>2, MildQueues DEF TeamSetPoints
<1>3. ASSUME UnmarkAllTeams PROVE AllMild(sent'[master])
  BY <1>1, <1>3, MildQueues, MildPackets DEF UnmarkAllTeams, TellAll
<1>4. ASSUME NEW s, NEW a, AnswerSetState(s, a) PROVE AllMild(sent'[master])
  <2>1. \E r \in {<<>>, ReleasePackets} : \E b : Tell(r, b)
    BY <1>4 DEF AnswerSetState
  <2> QED
    BY <1>1, <2>1, MildQueues, MildRelease
<1>5. ASSUME NEW q, SetQuestion(q) PROVE AllMild(sent'[master])
  <2>1. PICK p, r : p = BuzzerLockPacket(FALSE) /\ r = MediaStatePacket(InitialMedia[q])
    OBVIOUS
  <2>2. \E b : Tell(<<p>>, b) \/ Tell(<<p, r>>, b)
    BY <1>5, <2>1 DEF SetQuestion
  <2>3. AllMild(<<p>>) /\ AllMild(<<p, r>>)
    BY <2>1, MildPackets, MildQueues, MildTwo
  <2> QED
    BY <1>1, <2>2, <2>3
<1>6. ASSUME SetBuzzerLock(FALSE) PROVE AllMild(sent'[master])
  BY <1>1, <1>6, MildQueues, MildPackets, MildRelease DEF SetBuzzerLock, TellAll
<1>7. ASSUME NEW ts, UpdateTeams(ts) PROVE AllMild(sent'[master])
  <2>1. ASSUME NEW r \in {<<>>, ReleasePackets}, NEW us, NEW n
        PROVE  AllMild(r \o <<TeamsPacket(us, n)>>) /\ AllMild(<<TeamsPacket(us, n)>>)
    BY MildQueues, MildPackets, MildRelease
  <2>2. CASE TeamsOk(ts)
    <3>1. PICK r : r = IF ~(game.marked \subseteq ts) THEN ReleasePackets ELSE <<>>
      OBVIOUS
    <3>2. TellAll(r \o <<TeamsPacket(ts, PointsOf(ts))>>)
      BY <1>7, <2>2, <3>1 DEF UpdateTeams
    <3>3. AllMild(r \o <<TeamsPacket(ts, PointsOf(ts))>>)
      BY <2>1, <3>1
    <3> QED
      BY <1>1, <3>2, <3>3 DEF TellAll
  <2>3. CASE ~TeamsOk(ts)
    <3>1. Tell(<<TeamsPacket(teams, points)>>, <<>>)
      BY <1>7, <2>3 DEF UpdateTeams
    <3> QED
      BY <1>1, <2>1, <3>1
  <2> QED
    BY <2>2, <2>3
<1>8. ASSUME NEW t, NEW result, NEW a, NEW reveal, GradeAnswer(t, result, a, reveal) PROVE AllMild(sent'[master])
  <2>1. PICK n, some, r : /\ r \in {<<>>, ReleasePackets}
                          /\ TellAll(<<PointsPacket(t, n), AnswersPacket("ACTIVATE", some)>> \o r
                                     \o <<GradePacket(t, result)>>)
    BY <1>8 DEF GradeAnswer
  <2>2. PICK x, y : x = <<PointsPacket(t, n), AnswersPacket("ACTIVATE", some)>> /\ y = <<GradePacket(t, result)>>
    OBVIOUS
  <2>3. AllMild(x) /\ AllMild(r) /\ AllMild(y)
    BY <2>1, <2>2, MildQueues, MildPackets, MildTwo, MildRelease
  <2>4. AllMild(x \o r)
    BY <2>3, MildQueues
  <2>5. AllMild((x \o r) \o y)
    BY <2>3, <2>4, MildQueues
  <2>6. TellAll((x \o r) \o y)
    BY <2>1, <2>2
  <2> QED
    BY <1>1, <2>5, <2>6 DEF TellAll
<1>9. ASSUME IgnorePacket PROVE AllMild(sent'[master])
  BY <1>9, MildQueues DEF IgnorePacket, TellNobody, Conn, Seated
<1>10. \/ \E t, n : TeamSetPoints(t, n)
       \/ UnmarkAllTeams \/ IgnorePacket
       \/ \E s, a : AnswerSetState(s, a)
       \/ \E q : SetQuestion(q)
       \/ SetBuzzerLock(FALSE)
       \/ \E ts : UpdateTeams(ts)
       \/ \E t, result, a, reveal : GradeAnswer(t, result, a, reveal)
  BY KindLemma
<1> QED
  BY <1>2, <1>3, <1>4, <1>5, <1>6, <1>7, <1>8, <1>9, <1>10

LEMMA MildHead ==
  ASSUME NEW q, AllMild(q), q # <<>>
  PROVE  Mild(Head(q)) /\ AllMild(Tail(q))
<1>1. PICK S : q \in Seq(S) /\ \A p \in S : Mild(p)
  BY DEF AllMild
<1>2. Head(q) \in S /\ Tail(q) \in Seq(S)
  BY <1>1
<1> QED
  BY <1>1, <1>2 DEF AllMild

LEMMA AskedQueues ==
  /\ AllAsked(<<>>)
  /\ \A p : Asked(p) => AllAsked(<<p>>)
  /\ \A q, r : AllAsked(q) /\ AllAsked(r) => AllAsked(q \o r)
  /\ \A q : AllAsked(q) /\ q # <<>> => Asked(Head(q)) /\ AllAsked(Tail(q))
<1>1. AllAsked(<<>>)
  <2>1. PICK S : S = {}
    OBVIOUS
  <2>2. <<>> \in Seq(S) /\ \A x \in S : Asked(x)
    BY <2>1
  <2> QED
    BY <2>2 DEF AllAsked
<1>2. ASSUME NEW p, Asked(p) PROVE AllAsked(<<p>>)
  <2>1. PICK S : S = {p}
    OBVIOUS
  <2>2. <<p>> \in Seq(S) /\ \A x \in S : Asked(x)
    BY <1>2, <2>1
  <2> QED
    BY <2>2 DEF AllAsked
<1>3. ASSUME NEW q, NEW r, AllAsked(q), AllAsked(r) PROVE AllAsked(q \o r)
  <2>1. PICK S : q \in Seq(S) /\ \A p \in S : Asked(p)
    BY <1>3 DEF AllAsked
  <2>2. PICK T : r \in Seq(T) /\ \A p \in T : Asked(p)
    BY <1>3 DEF AllAsked
  <2>3. PICK U : U = S \cup T
    OBVIOUS
  <2>4. q \in Seq(U) /\ r \in Seq(U) /\ \A p \in U : Asked(p)
    BY <2>1, <2>2, <2>3
  <2>5. q \o r \in Seq(U)
    BY <2>4
  <2> QED
    BY <2>4, <2>5 DEF AllAsked
<1>4. ASSUME NEW q, AllAsked(q), q # <<>> PROVE Asked(Head(q)) /\ AllAsked(Tail(q))
  <2>1. PICK S : q \in Seq(S) /\ \A p \in S : Asked(p)
    BY <1>4 DEF AllAsked
  <2>2. Head(q) \in S /\ Tail(q) \in Seq(S)
    BY <1>4, <2>1
  <2> QED
    BY <2>1, <2>2 DEF AllAsked
<1> QED
  BY <1>1, <1>2, <1>3, <1>4

\* The requests of the page.
LEMMA AskedPackets ==
  /\ Asked(BuzzerLockPacket(FALSE))
  /\ \A t, n : Asked(PointsPacket(t, n))
  /\ \A ts, n : Asked(TeamsPacket(ts, n))
  /\ \A s, some : Asked(AnswersPacket(s, some))
  /\ \A q : Asked(SetQuestionPacket(q))
  /\ \A t, r, a : Asked(GradeRequest(t, r, a))
  /\ Asked(UnmarkAllPacket)
BY DEF Asked, BuzzerLockPacket, PointsPacket, TeamsPacket, AnswersPacket, SetQuestionPacket, GradeRequest,
   UnmarkAllPacket

LEMMA AskedTwo ==
  ASSUME NEW p, NEW q, Asked(p), Asked(q)
  PROVE  AllAsked(<<p, q>>)
<1>1. PICK S : S = {p, q}
  OBVIOUS
<1>2. <<p, q>> \in Seq(S) /\ \A x \in S : Asked(x)
  BY <1>1
<1> QED
  BY <1>2 DEF AllAsked

\* What is on its way to the server.
LEMMA SendAsked ==
  ASSUME PaneInv, NEW q, send(q), AllAsked(q)
  PROVE  AllAsked(toServer')
BY AskedQueues DEF PaneInv, send

LEMMA SendOne ==
  ASSUME PaneInv, NEW p, send(<<p>>), Asked(p)
  PROVE  AllAsked(toServer')
<1>1. AllAsked(<<p>>)
  BY AskedQueues
<1> QED
  BY <1>1, SendAsked

\* A step that leaves the answers alone that the page and its pane keep.
AnswersStay ==
  /\ HasGame(copy') /\ HasAnswers(pane')
  /\ copy'.game.question = copy.game.question
  /\ copy'.game.logged = copy.game.logged /\ copy'.game.activated = copy.game.activated
  /\ UNCHANGED <<pane.logged, pane.activated>> /\ pane'.sheet \in {None, pane.sheet}

LEMMA AnswersStayPane ==
  ASSUME PaneInv, AnswersStay
  PROVE  /\ HasGame(copy') /\ HasAnswers(pane')
         /\ SheetFits(pane', copy'.game) /\ SameAnswers(pane', copy'.game)
BY DEF PaneInv, AnswersStay, SheetFits, SameAnswers, OptionsAt

\* The page alone does something.
LEMMA DeskStep ==
  ASSUME PaneInv, UNCHANGED <<world, toMaster>>, AllAsked(toServer'),
         HasGame(copy'), HasAnswers(pane'), SheetFits(pane', copy'.game), SameAnswers(pane', copy'.game)
  PROVE  PaneInv'
BY DEF PaneInv, Seated, world, vars, seat, play

\* What the user does that leaves the answers alone.
LEMMA UserStaysPane ==
  ASSUME PaneInv,
         \/ \E t, n : addPoints(t, n)
         \/ \E a \in Answer : onClickAnswer(a)
         \/ \E r, a : gradeAnswer(r, a)
         \/ LeavesAnswer \/ PutsOffGrading \/ releaseWithoutGrade \/ reopenGradeDialog \/ release
         \/ \E confirmed \in BOOLEAN : ConfirmsWithoutGrade(confirmed) \/ ConfirmsRelease(confirmed)
         \/ \E ts : updateTeams(ts)
  PROVE  PaneInv'
<1>1. HasGame(copy) /\ HasAnswers(pane) /\ SheetFits(pane, copy.game) /\ SameAnswers(pane, copy.game)
  BY DEF PaneInv
<1>2. ASSUME UNCHANGED <<world, toMaster>>, AllAsked(toServer'), AnswersStay PROVE PaneInv'
  BY <1>2, AnswersStayPane, DeskStep
<1>3. UNCHANGED toServer => AllAsked(toServer')
  BY DEF PaneInv
<1>4. ASSUME NEW t, NEW n, addPoints(t, n) PROVE PaneInv'
  <2>1. UNCHANGED <<world, toMaster, pane>> /\ \E ps : copy' = [copy EXCEPT !.points = ps]
    BY <1>4 DEF addPoints, Uses
  <2>2. AnswersStay
    BY <1>1, <2>1 DEF AnswersStay, HasGame, HasAnswers
  <2>3. AllAsked(toServer')
    BY <1>4, AskedPackets, SendOne DEF addPoints
  <2> QED
    BY <1>2, <2>1, <2>2, <2>3
<1>5. ASSUME NEW a \in Answer, onClickAnswer(a) PROVE PaneInv'
  <2>1. /\ UNCHANGED <<world, toMaster, copy, toServer>> /\ a \in OptionsAt(copy.game)
        /\ \E picked : pane' = [pane EXCEPT !.sheet = a, !.picked = picked]
    BY <1>5 DEF onClickAnswer, Uses
  <2>2. HasAnswers(pane') /\ SheetFits(pane', copy.game) /\ SameAnswers(pane', copy.game)
    BY <1>1, <2>1 DEF HasAnswers, SheetFits, SameAnswers
  <2> QED
    BY <1>1, <1>3, <2>1, <2>2, DeskStep
<1>6. ASSUME NEW r, NEW a, gradeAnswer(r, a) PROVE PaneInv'
  <2>1. UNCHANGED <<world, toMaster, copy>> /\ pane' = [closeGradeDialog(pane) EXCEPT !.putOff = TRUE]
    BY <1>6 DEF gradeAnswer, Uses
  <2>2. AnswersStay
    BY <1>1, <2>1 DEF AnswersStay, HasAnswers, closeGradeDialog
  <2>3. AllAsked(toServer')
    BY <1>6, AskedPackets, SendOne DEF gradeAnswer
  <2> QED
    BY <1>2, <2>1, <2>2, <2>3
<1>7. ASSUME LeavesAnswer \/ PutsOffGrading \/ releaseWithoutGrade PROVE PaneInv'
  <2>1. UNCHANGED <<world, toMaster, copy, toServer>>
    BY <1>7 DEF LeavesAnswer, PutsOffGrading, releaseWithoutGrade, Uses
  <2>2. AnswersStay
    BY <1>1, <1>7, <2>1 DEF AnswersStay, HasAnswers, LeavesAnswer, PutsOffGrading, releaseWithoutGrade,
       closeGradeDialog
  <2> QED
    BY <1>2, <1>3, <2>1, <2>2
<1>8. ASSUME reopenGradeDialog PROVE PaneInv'
  <2>1. UNCHANGED <<world, toMaster, copy, toServer>> /\ \E t : pane' = openGradeDialog(pane, copy, t)
    BY <1>8 DEF reopenGradeDialog, Uses
  <2>2. AnswersStay
    BY <1>1, <2>1 DEF AnswersStay, HasAnswers, openGradeDialog
  <2> QED
    BY <1>2, <1>3, <2>1, <2>2
<1>9. ASSUME release \/ \E confirmed \in BOOLEAN : ConfirmsRelease(confirmed) PROVE PaneInv'
  <2>1. UNCHANGED <<world, toMaster, copy>> /\ (releaseBuzzerLock \/ UNCHANGED toServer)
    BY <1>9 DEF release, ConfirmsRelease, Uses
  <2>2. AnswersStay
    BY <1>1, <1>9, <2>1 DEF AnswersStay, HasAnswers, release, ConfirmsRelease
  <2>3. AllAsked(toServer')
    BY <1>3, <2>1, AskedPackets, SendOne DEF releaseBuzzerLock
  <2> QED
    BY <1>2, <2>1, <2>2, <2>3
<1>10. ASSUME NEW confirmed \in BOOLEAN, ConfirmsWithoutGrade(confirmed) PROVE PaneInv'
  <2>1. UNCHANGED <<world, toMaster, copy>> /\ (releaseBuzzerLock \/ UNCHANGED toServer)
    BY <1>10 DEF ConfirmsWithoutGrade, Uses
  <2>2. AnswersStay
    BY <1>1, <1>10, <2>1 DEF AnswersStay, HasAnswers, ConfirmsWithoutGrade, closeGradeDialog
  <2>3. AllAsked(toServer')
    BY <1>3, <2>1, AskedPackets, SendOne DEF releaseBuzzerLock
  <2> QED
    BY <1>2, <2>1, <2>2, <2>3
<1>11. ASSUME NEW ts, updateTeams(ts) PROVE PaneInv'
  <2>1. UNCHANGED <<world, toMaster, copy, pane>>
    BY <1>11 DEF updateTeams, Uses
  <2>2. AnswersStay
    BY <1>1, <2>1 DEF AnswersStay
  <2>3. AllAsked(toServer')
    BY <1>11, AskedPackets, SendOne DEF updateTeams
  <2> QED
    BY <1>2, <2>1, <2>2, <2>3
<1> QED
  BY <1>4, <1>5, <1>6, <1>7, <1>8, <1>9, <1>10, <1>11

\* Another question starts with none of its answers.
LEMMA AnotherQuestionPane ==
  ASSUME PaneInv, NEW q, Uses("page"), copy' = [copy EXCEPT !.game = AtQuestion(@, q)],
         pane' = ResetPane(pane, copy'.game), AllAsked(toServer')
  PROVE  PaneInv'
<1>1. UNCHANGED <<world, toMaster>> /\ pane.sheet = None
  BY DEF Uses, OnTop
<1>2. HasGame(copy') /\ copy'.game.logged = {} /\ copy'.game.activated = {}
  BY DEF PaneInv, HasGame, GameFields, AtQuestion
<1>3. HasAnswers(pane') /\ pane'.logged = {} /\ pane'.activated = {} /\ pane'.sheet = None
  BY <1>1 DEF PaneInv, HasAnswers, ResetPane
<1> QED
  BY <1>1, <1>2, <1>3, DeskStep DEF SheetFits, SameAnswers

LEMMA UserGoesPane ==
  ASSUME PaneInv, getNextQuestion \/ getPreviousQuestion \/ beginGame
  PROVE  PaneInv'
<1>1. ASSUME NEW q, Uses("page"), GoesTo(q) PROVE PaneInv'
  <2>1. AllAsked(<<UnmarkAllPacket, SetQuestionPacket(q)>>)
    BY AskedPackets, AskedTwo
  <2>2. AllAsked(toServer')
    BY <1>1, <2>1, SendAsked DEF GoesTo
  <2> QED
    BY <1>1, <2>2, AnotherQuestionPane DEF GoesTo
<1>2. ASSUME beginGame PROVE PaneInv'
  <2>1. AllAsked(toServer')
    BY <1>2, AskedPackets, SendOne DEF beginGame
  <2> QED
    BY <1>2, <2>1, AnotherQuestionPane DEF beginGame
<1> QED
  BY <1>1, <1>2 DEF getNextQuestion, getPreviousQuestion

\* The sheet logs an answer of the question in or out, or reveals it.
LEMMA SheetPane ==
  ASSUME PaneInv, LogsAnswer \/ ActivatesAnswer
  PROVE  PaneInv'
<1>1. PICK a : a = pane.sheet
  OBVIOUS
<1>2. UNCHANGED <<world, toMaster>> /\ a # None
  BY <1>1 DEF LogsAnswer, ActivatesAnswer, Uses, OnTop
<1>3. a \in OptionsAt(copy.game)
  BY <1>1, <1>2 DEF PaneInv, SheetFits
<1>4. ASSUME LogsAnswer PROVE PaneInv'
  <2>1. PICK s : s = IF pane.picked THEN "LOG_OUT" ELSE "LOG_IN"
    OBVIOUS
  <2>2. /\ copy' = [copy EXCEPT !.game = ApplyAnswers(copy.game, s, {a})]
        /\ pane' = [pane EXCEPT !.sheet = None, !.picked = FALSE,
                                !.logged = IF pane.picked THEN @ \ {a} ELSE @ \cup {a}]
        /\ send(<<AnswersPacket(s, {a})>>)
    BY <1>1, <1>4, <2>1 DEF LogsAnswer, sendAnswerSetStatePacket
  <2>3. AllAsked(toServer')
    BY <2>2, AskedPackets, SendOne
  <2>4. /\ HasGame(copy') /\ OptionsAt(copy'.game) = OptionsAt(copy.game)
        /\ copy'.game.logged = IF pane.picked THEN copy.game.logged \ {a} ELSE copy.game.logged \cup {a}
        /\ copy'.game.activated = copy.game.activated
    BY <2>1, <2>2 DEF PaneInv, HasGame, GameFields, ApplyAnswers, OptionsAt
  <2>5. /\ HasAnswers(pane') /\ pane'.sheet = None /\ pane'.activated = pane.activated
        /\ pane'.logged = IF pane.picked THEN pane.logged \ {a} ELSE pane.logged \cup {a}
    BY <2>2 DEF PaneInv, HasAnswers
  <2>6. SameAnswers(pane', copy'.game) /\ SheetFits(pane', copy'.game)
    BY <1>3, <2>4, <2>5 DEF PaneInv, SameAnswers, SheetFits
  <2> QED
    BY <1>2, <2>3, <2>4, <2>5, <2>6, DeskStep
<1>5. ASSUME ActivatesAnswer PROVE PaneInv'
  <2>1. PICK after, frees, answer :
          /\ after = Activated(pane, {a}) /\ answer = <<AnswersPacket("ACTIVATE", {a})>>
          /\ pane' = [after EXCEPT !.sheet = None, !.picked = FALSE]
          /\ copy' = [copy EXCEPT !.game = [ApplyAnswers(copy.game, "ACTIVATE", {a}) EXCEPT !.lock = @ /\ ~frees]]
          /\ send(IF frees THEN <<UnmarkAllPacket, BuzzerLockPacket(FALSE)>> \o answer ELSE answer)
    BY <1>1, <1>5 DEF ActivatesAnswer
  <2>2. AllAsked(toServer')
    <3>1. AllAsked(answer) /\ AllAsked(<<UnmarkAllPacket, BuzzerLockPacket(FALSE)>>)
      BY <2>1, AskedPackets, AskedQueues, AskedTwo
    <3>2. AllAsked(<<UnmarkAllPacket, BuzzerLockPacket(FALSE)>> \o answer)
      BY <3>1, AskedQueues
    <3> QED
      BY <2>1, <3>1, <3>2, SendAsked
  <2>3. /\ HasGame(copy') /\ OptionsAt(copy'.game) = OptionsAt(copy.game)
        /\ copy'.game.logged = copy.game.logged \ {a} /\ copy'.game.activated = copy.game.activated \cup {a}
    BY <2>1 DEF PaneInv, HasGame, GameFields, ApplyAnswers, OptionsAt
  <2>4. /\ HasAnswers(pane') /\ pane'.sheet = None
        /\ pane'.logged = pane.logged \ {a} /\ pane'.activated = pane.activated \cup {a}
    BY <2>1 DEF PaneInv, HasAnswers, Activated
  <2>5. SameAnswers(pane', copy'.game) /\ SheetFits(pane', copy'.game)
    BY <1>3, <2>3, <2>4 DEF PaneInv, SameAnswers, SheetFits
  <2> QED
    BY <1>2, <2>2, <2>3, <2>4, <2>5, DeskStep
<1> QED
  BY <1>4, <1>5

\* The master's page reveals answers as it is told, and hears of no other change to them.
LEMMA CopyAfter ==
  ASSUME NEW v, NEW p, NEW w, HasGame(v), Mild(p), w = OnShownPage(v, p)
  PROVE  /\ HasGame(w) /\ w.game.question = v.game.question
         /\ IF p.type = "ANSWER_SET_STATE"
            THEN w.game.logged = v.game.logged \ p.answers /\ w.game.activated = v.game.activated \cup p.answers
            ELSE w.game.logged = v.game.logged /\ w.game.activated = v.game.activated
<1>1. CASE p.type = "TEAM_SET_POINTS"
  BY <1>1 DEF OnShownPage, handleTeamSetPoints, HasGame, GameFields
<1>2. CASE p.type = "UPDATE_TEAMS"
  BY <1>2 DEF OnShownPage, handleUpdateTeams, HasGame, GameFields
<1>3. CASE p.type = "MARK_TEAM"
  BY <1>3 DEF OnShownPage, applyMarkTeam, HasGame, GameFields
<1>4. CASE p.type = "ANSWER_SET_STATE"
  BY <1>4 DEF OnShownPage, ApplyAnswers, HasGame, GameFields, Mild
<1>5. CASE p.type = "SET_BUZZER_LOCK"
  BY <1>5 DEF OnShownPage, HasGame, GameFields
<1>6. CASE p.type = "UPDATE_MEDIA_STATE"
  BY <1>6 DEF OnShownPage, HasGame, GameFields
<1>7. CASE p.type = "SET_MEDIA_VOLUME"
  BY <1>7 DEF OnShownPage, HasGame, GameFields
<1>8. CASE p.type = "END_GAME"
  BY <1>8 DEF OnShownPage, HasGame, GameFields
<1>9. CASE p.type \notin {"TEAM_SET_POINTS", "UPDATE_TEAMS", "MARK_TEAM", "ANSWER_SET_STATE", "SET_BUZZER_LOCK",
                          "UPDATE_MEDIA_STATE", "SET_MEDIA_VOLUME", "END_GAME"}
  BY <1>9 DEF OnShownPage, Mild
<1> QED
  BY <1>1, <1>2, <1>3, <1>4, <1>5, <1>6, <1>7, <1>8, <1>9

LEMMA ReceivePane ==
  ASSUME PaneInv, PageReceivesPacket
  PROVE  PaneInv'
<1>1. PICK p, v : p = Head(toMaster) /\ v = copy'
  OBVIOUS
<1>2. /\ toMaster # <<>> /\ v = OnShownPage(copy, p) /\ pane' = PaneAfter(pane, v, p)
      /\ toMaster' = Tail(toMaster) /\ UNCHANGED <<world, toServer>>
  BY <1>1 DEF PageReceivesPacket
<1>3. Mild(p) /\ AllMild(toMaster')
  BY <1>1, <1>2, MildHead DEF PaneInv
<1>4. /\ HasGame(v) /\ v.game.question = copy.game.question
      /\ IF p.type = "ANSWER_SET_STATE"
         THEN v.game.logged = copy.game.logged \ p.answers /\ v.game.activated = copy.game.activated \cup p.answers
         ELSE v.game.logged = copy.game.logged /\ v.game.activated = copy.game.activated
  BY <1>2, <1>3, CopyAfter DEF PaneInv
<1>5. OptionsAt(v.game) = OptionsAt(copy.game)
  BY <1>4 DEF OptionsAt
<1>6. HasAnswers(pane') /\ SheetFits(pane', v.game) /\ SameAnswers(pane', v.game)
  <2>1. CASE p.type = "ANSWER_SET_STATE"
    <3>1. PICK some : some = p.answers \cap OptionsAt(v.game)
      OBVIOUS
    <3>2. pane' = Activated(pane, some)
      BY <1>2, <2>1, <3>1 DEF PaneAfter, handleAnswerSetState
    <3>3. /\ HasAnswers(pane') /\ pane'.sheet = pane.sheet
          /\ pane'.logged = pane.logged \ some /\ pane'.activated = pane.activated \cup some
      BY <3>2 DEF Activated, PaneInv, HasAnswers
    <3> QED
      BY <1>4, <1>5, <2>1, <3>1, <3>3 DEF PaneInv, SheetFits, SameAnswers
  <2>2. CASE p.type # "ANSWER_SET_STATE"
    <3>1. pane' = pane \/ pane' = handleMarkTeam(pane, v, p)
      BY <1>2, <2>2 DEF PaneAfter
    <3>2. /\ HasAnswers(pane') /\ pane'.sheet = pane.sheet
          /\ pane'.logged = pane.logged /\ pane'.activated = pane.activated
      BY <3>1 DEF handleMarkTeam, closeGradeDialog, openGradeDialog, PaneInv, HasAnswers
    <3> QED
      BY <1>4, <1>5, <2>2, <3>2 DEF PaneInv, SheetFits, SameAnswers
  <2> QED
    BY <2>1, <2>2
<1> QED
  BY <1>1, <1>2, <1>3, <1>4, <1>6 DEF PaneInv, Seated, world, vars, seat, play

\* The server's steps leave the page alone.
LEMMA ServerPane ==
  ASSUME PaneInv, UNCHANGED <<copy, pane, master, screens>>, Answers, AllMild(sent'[master]), AllAsked(toServer'),
         GameFields \subseteq DOMAIN game'
  PROVE  PaneInv'
<1>1. AllMild(toMaster')
  BY MildQueues DEF PaneInv, Answers
<1> QED
  BY <1>1 DEF PaneInv, Seated, HasGame, HasAnswers, SheetFits, SameAnswers, OptionsAt

LEMMA HandlesPane ==
  ASSUME PaneInv, ServerHandles
  PROVE  PaneInv'
<1>1. PICK m : m = Head(toServer)
  OBVIOUS
<1>2. /\ toServer # <<>> /\ Handles(m) /\ Answers /\ toServer' = Tail(toServer) /\ UNCHANGED <<copy, pane>>
  BY <1>1 DEF ServerHandles
<1>3. Asked(m) /\ AllAsked(toServer')
  BY <1>1, <1>2, AskedQueues DEF PaneInv
<1>4. AllMild(sent'[master])
  BY <1>2, <1>3, HandlesMild DEF PaneInv
<1>5. UNCHANGED <<master, screens>> /\ DOMAIN game' = DOMAIN game
  <2>1. ASSUME NEW t, NEW result, NEW a, NEW reveal, GradeAnswer(t, result, a, reveal)
        PROVE  UNCHANGED <<master, screens>> /\ DOMAIN game' = DOMAIN game
    BY <2>1 DEF GradeAnswer, Released, ApplyAnswers, seat
  <2>2. ASSUME NEW s, NEW a, AnswerSetState(s, a)
        PROVE  UNCHANGED <<master, screens>> /\ DOMAIN game' = DOMAIN game
    BY <2>2 DEF AnswerSetState, Released, ApplyAnswers, seat
  <2>3. ASSUME NEW q, SetQuestion(q)
        PROVE  UNCHANGED <<master, screens>> /\ DOMAIN game' = DOMAIN game
    BY <2>3 DEF SetQuestion, seat
  <2>4. ASSUME NEW b, SetBuzzerLock(b)
        PROVE  UNCHANGED <<master, screens>> /\ DOMAIN game' = DOMAIN game
    BY <2>4 DEF SetBuzzerLock, Released, seat
  <2>5. ASSUME NEW ts, UpdateTeams(ts)
        PROVE  UNCHANGED <<master, screens>> /\ DOMAIN game' = DOMAIN game
    BY <2>5 DEF UpdateTeams, Released, seat
  <2>6. ASSUME (\E t, n : TeamSetPoints(t, n)) \/ UnmarkAllTeams \/ IgnorePacket
        PROVE  UNCHANGED <<master, screens>> /\ DOMAIN game' = DOMAIN game
    BY <2>6 DEF TeamSetPoints, UnmarkAllTeams, IgnorePacket, seat, play
  <2> QED
    BY <1>2, <1>3, <2>1, <2>2, <2>3, <2>4, <2>5, <2>6, KindLemma
<1> QED
  BY <1>2, <1>3, <1>4, <1>5, ServerPane DEF PaneInv

LEMMA PressedPane ==
  ASSUME PaneInv, Pressed
  PROVE  PaneInv'
<1>1. Buzzers /\ Answers /\ UNCHANGED <<copy, pane, toServer>>
  BY DEF Pressed
<1>2. AllMild(sent'[master])
  BY <1>1, PressMild DEF PaneInv
<1>3. UNCHANGED <<master, screens>>
  BY <1>1, OthersKeep DEF Keeps, seat
<1>4. DOMAIN game' = DOMAIN game
  BY <1>1 DEF Buzzers, KeypressRelease, SerialRelease, KeypressTeam, SerialPress, UdpBuzzerPress, LockOnTeam, Released
<1> QED
  BY <1>1, <1>2, <1>3, <1>4, ServerPane DEF PaneInv

\* A page that is loaded shows what the server has.
LEMMA LoadedPane ==
  ASSUME GameFields \subseteq DOMAIN game, NEW v, NEW p, v = Served, p = ngOnInit(v)
  PROVE  HasGame(v) /\ HasAnswers(p) /\ SheetFits(p, v.game) /\ SameAnswers(p, v.game)
<1>1. v.game = game /\ HasGame(v)
  BY DEF Served, setGameData, HasGame
<1>2. PICK shown : HasAnswers(shown) /\ shown.sheet = None /\ p = restoreQuestionProgress(shown, v.game)
  <2>1. PICK new, shown : /\ HasAnswers(new) /\ new.sheet = None
                          /\ shown = IF OneBuzzed(v.game) THEN openGradeDialog(new, v, TheMarked(v.game)) ELSE new
                          /\ p = restoreQuestionProgress(shown, v.game)
    BY DEF ngOnInit, HasAnswers
  <2>2. HasAnswers(shown) /\ shown.sheet = None
    BY <2>1 DEF openGradeDialog, HasAnswers
  <2> QED
    BY <2>1, <2>2
<1>3. HasAnswers(p) /\ p.sheet = None /\ SameAnswers(p, v.game)
  BY <1>2 DEF restoreQuestionProgress, HasAnswers, SameAnswers
<1> QED
  BY <1>1, <1>3 DEF SheetFits

LEMMA PaneInvStep ==
  ASSUME PaneInv, [PlayNext]_table
  PROVE  PaneInv'
<1>1. CASE UserDoes
  BY <1>1, UserStaysPane, UserGoesPane, SheetPane DEF UserDoes, UserSetsNoPoints
<1>2. CASE PageIsLoaded
  <2>1. PICK v, p : v = Served /\ p = ngOnInit(v) /\ copy' = v /\ pane' = p
    BY <1>2 DEF PageIsLoaded
  <2>2. HasGame(v) /\ HasAnswers(p) /\ SheetFits(p, v.game) /\ SameAnswers(p, v.game)
    BY <2>1, LoadedPane DEF PaneInv
  <2>3. AllMild(toMaster') /\ AllAsked(toServer') /\ UNCHANGED world
    BY <1>2, MildQueues, AskedQueues DEF PageIsLoaded
  <2> QED
    BY <2>1, <2>2, <2>3 DEF PaneInv, Seated, world, vars, seat, play
<1>3. CASE UNCHANGED table
  BY <1>3 DEF table, desk, world, vars, seat, play, PaneInv, Seated, HasGame, HasAnswers, SheetFits, SameAnswers, OptionsAt
<1> QED
  BY <1>1, <1>2, <1>3, ReceivePane, HandlesPane, PressedPane DEF PlayNext

LEMMA PaneInvInit == PlayInit => PaneInv
<1> SUFFICES ASSUME PlayInit PROVE PaneInv
  OBVIOUS
<1>1. GameFields \subseteq DOMAIN game
  BY DEF PlayInit, InitialGame, GameFields
<1>2. PICK v, p : v = Served /\ p = ngOnInit(v) /\ copy = v /\ pane = p
  BY DEF PlayInit
<1>3. HasGame(v) /\ HasAnswers(p) /\ SheetFits(p, v.game) /\ SameAnswers(p, v.game)
  BY <1>1, <1>2, LoadedPane
<1>4. Seated
  BY DEF PlayInit, Seated
<1> QED
  BY <1>1, <1>2, <1>3, <1>4, MildQueues, AskedQueues DEF PlayInit, PaneInv

\* Whatever the user does while teams buzz and answers are graded, the pane shows the answers that a
\* page would show that is loaded now.
THEOREM PaneIsRestored == PlaySpec => []PaneShowsCopy
<1>1. PaneInv => PaneShowsCopy
  <2> SUFFICES ASSUME PaneInv PROVE PaneShowsCopy
    OBVIOUS
  <2>1. PICK v, p : v = copy /\ p = ngOnInit(v)
    OBVIOUS
  <2>2. PICK shown : HasAnswers(shown) /\ p = restoreQuestionProgress(shown, v.game)
    <3>1. PICK new : /\ HasAnswers(new)
                     /\ p = restoreQuestionProgress(IF OneBuzzed(v.game) THEN openGradeDialog(new, v, TheMarked(v.game)) ELSE new, v.game)
      BY <2>1 DEF ngOnInit, HasAnswers
    <3>2. \A t : HasAnswers(openGradeDialog(new, v, t))
      BY <3>1 DEF openGradeDialog, HasAnswers
    <3> QED
      BY <3>1, <3>2
  <2>3. p.logged = OptionsAt(v.game) \cap v.game.logged /\ p.activated = OptionsAt(v.game) \cap v.game.activated
    BY <2>2 DEF restoreQuestionProgress, HasAnswers
  <2> QED
    BY <2>1, <2>3 DEF PaneInv, SameAnswers, PaneShowsCopy
<1> QED
  BY PaneInvInit, PaneInvStep, <1>1, PTL DEF PlaySpec

----------------------------------------------------------------------------
(* What the master's page shows of the game.                                                     *)

\* A request of this kind is among those on their way.
Has(q, type) == \E i \in 1 .. Len(q) : q[i].type = type

\* The last question that is asked for.
Goes(p, n) == p.type = "SET_QUESTION" /\ p.set = n
LastSet(q, n) ==
  \E i \in 1 .. Len(q) : Goes(q[i], n) /\ \A j \in 1 .. Len(q) : j > i => q[j].type # "SET_QUESTION"

\* An answer that is revealed, and with no other question after that.
Reveals(p, a) == p.type = "ANSWER_SET_STATE" /\ p.answerState = "ACTIVATE" /\ a \in p.answers
Revealed(q, a) ==
  \E i \in 1 .. Len(q) : Reveals(q[i], a) /\ \A j \in 1 .. Len(q) : j > i => q[j].type # "SET_QUESTION"

\* An answer that is logged in, and not taken back after that.
Drops(p, a) == p.type = "SET_QUESTION" \/ (p.type = "ANSWER_SET_STATE" /\ p.answerState # "LOG_IN" /\ a \in p.answers)
Logs(p, a)  == p.type = "ANSWER_SET_STATE" /\ p.answerState = "LOG_IN" /\ a \in p.answers
Dropped(q, a) == \E i \in 1 .. Len(q) : Drops(q[i], a)
LoggedIn(q, a) ==
  \E i \in 1 .. Len(q) : Logs(q[i], a) /\ \A j \in 1 .. Len(q) : j > i => ~Drops(q[j], a)

\* What a page shows, but for the points, and the server's game, with the requests in q on their way.
QuestionAgrees(v, q, g) ==
  \/ v.game.question = g.question /\ v.game.welcome = g.welcome /\ ~Has(q, "SET_QUESTION")
  \/ LastSet(q, v.game.question) /\ v.game.welcome = FALSE
BuzzersAgree(v, q, g) ==
  /\ v.game.lock = g.lock \/ Has(q, "SET_BUZZER_LOCK")
  /\ g.marked \subseteq v.game.marked \/ Has(q, "MARK_TEAM") \/ Has(q, "SET_QUESTION")
AnswersAgree(v, q, g) ==
  /\ g.activated \subseteq v.game.activated \/ Has(q, "SET_QUESTION")
  /\ \A a : Revealed(q, a) => a \in v.game.activated
  /\ \A a \in v.game.logged : (a \in g.logged /\ ~Dropped(q, a)) \/ LoggedIn(q, a)

Agrees(v, q, ts, g) ==
  /\ v.teams = ts
  /\ QuestionAgrees(v, q, g) /\ BuzzersAgree(v, q, g) /\ AnswersAgree(v, q, g)

\* One answer at a time.
Single(q) == \A i \in 1 .. Len(q) : q[i].type = "ANSWER_SET_STATE" => \E a : q[i].answers = {a}

\* A page that shows a game.
OnPage(v) ==
  IsPage(v) /\ v.status = "shown" /\ GameFields \subseteq DOMAIN v.game /\ v.game.lock \in BOOLEAN

DeskInv ==
  /\ PaneInv /\ OnPage(copy) /\ Single(toServer)
  /\ questions # 0 /\ game.marked \subseteq teams /\ game.lock \in BOOLEAN
  /\ Agrees(Handled(copy, toMaster), toServer, teams, game)

\* Something of A is in q, and nothing of B after it.
LastIn(q, A, B) ==
  \E i \in 1 .. Len(q) : q[i] \in A /\ \A j \in 1 .. Len(q) : j > i => q[j] \notin B

LEMMA LastInTail ==
  ASSUME NEW S, NEW q \in Seq(S), q # <<>>, NEW A, NEW B
  PROVE  LastIn(q, A, B) <=> LastIn(Tail(q), A, B) \/ (Head(q) \in A /\ ~LastIn(Tail(q), B, {}))
<1>1. PICK r : r = Tail(q)
  OBVIOUS
<1>2. /\ Len(q) \in Nat /\ Len(q) # 0 /\ Len(r) = Len(q) - 1 /\ Head(q) = q[1]
      /\ \A n \in 1 .. Len(r) : r[n] = q[n + 1]
  BY <1>1
<1>3. ASSUME LastIn(q, A, B), ~LastIn(r, A, B) PROVE Head(q) \in A /\ ~LastIn(r, B, {})
  <2>1. PICK i \in 1 .. Len(q) : q[i] \in A /\ \A j \in 1 .. Len(q) : j > i => q[j] \notin B
    BY <1>3 DEF LastIn
  <2>2. i = 1
    <3> SUFFICES ASSUME i # 1 PROVE FALSE
      OBVIOUS
    <3>1. i - 1 \in 1 .. Len(r) /\ r[i - 1] = q[i]
      BY <1>2
    <3>2. ASSUME NEW j \in 1 .. Len(r), j > i - 1 PROVE r[j] \notin B
      <4>1. j + 1 \in 1 .. Len(q) /\ j + 1 > i /\ r[j] = q[j + 1]
        BY <1>2, <3>2
      <4> QED
        BY <2>1, <4>1
    <3> QED
      BY <1>3, <2>1, <3>1, <3>2 DEF LastIn
  <2>3. ASSUME NEW j \in 1 .. Len(r) PROVE r[j] \notin B
    <3>1. j + 1 \in 1 .. Len(q) /\ j + 1 > i /\ r[j] = q[j + 1]
      BY <1>2, <2>2
    <3> QED
      BY <2>1, <3>1
  <2> QED
    BY <1>2, <2>1, <2>2, <2>3 DEF LastIn
<1>4. ASSUME LastIn(r, A, B) PROVE LastIn(q, A, B)
  <2>1. PICK i \in 1 .. Len(r) : r[i] \in A /\ \A j \in 1 .. Len(r) : j > i => r[j] \notin B
    BY <1>4 DEF LastIn
  <2>2. i + 1 \in 1 .. Len(q) /\ q[i + 1] = r[i]
    BY <1>2
  <2>3. ASSUME NEW j \in 1 .. Len(q), j > i + 1 PROVE q[j] \notin B
    <3>1. j - 1 \in 1 .. Len(r) /\ j - 1 > i /\ r[j - 1] = q[j]
      BY <1>2, <2>3
    <3> QED
      BY <2>1, <3>1
  <2> QED
    BY <2>1, <2>2, <2>3 DEF LastIn
<1>5. ASSUME Head(q) \in A, ~LastIn(r, B, {}) PROVE LastIn(q, A, B)
  <2>1. 1 \in 1 .. Len(q) /\ q[1] \in A
    BY <1>2, <1>5
  <2>2. ASSUME NEW j \in 1 .. Len(q), j > 1 PROVE q[j] \notin B
    <3>1. j - 1 \in 1 .. Len(r) /\ r[j - 1] = q[j]
      BY <1>2, <2>2
    <3> QED
      BY <1>5, <3>1 DEF LastIn
  <2> QED
    BY <2>1, <2>2 DEF LastIn
<1> QED
  BY <1>1, <1>3, <1>4, <1>5

LEMMA LastInMore ==
  ASSUME NEW S, NEW q \in Seq(S), NEW p \in S, NEW A, NEW B
  PROVE  LastIn(Append(q, p), A, B) <=> (LastIn(q, A, B) /\ p \notin B) \/ p \in A
<1>1. PICK r : r = Append(q, p)
  OBVIOUS
<1>2. /\ Len(q) \in Nat /\ Len(r) = Len(q) + 1 /\ r[Len(r)] = p
      /\ \A n \in 1 .. Len(q) : r[n] = q[n]
  BY <1>1
<1>3. ASSUME LastIn(r, A, B), p \notin A PROVE LastIn(q, A, B) /\ p \notin B
  <2>1. PICK i \in 1 .. Len(r) : r[i] \in A /\ \A j \in 1 .. Len(r) : j > i => r[j] \notin B
    BY <1>3 DEF LastIn
  <2>2. i \in 1 .. Len(q) /\ Len(r) \in 1 .. Len(r) /\ Len(r) > i
    BY <1>2, <1>3, <2>1
  <2>3. ASSUME NEW j \in 1 .. Len(q), j > i PROVE q[j] \notin B
    <3>1. j \in 1 .. Len(r) /\ r[j] = q[j]
      BY <1>2
    <3> QED
      BY <2>1, <2>3, <3>1
  <2> QED
    BY <1>2, <2>1, <2>2, <2>3 DEF LastIn
<1>4. ASSUME LastIn(q, A, B), p \notin B PROVE LastIn(r, A, B)
  <2>1. PICK i \in 1 .. Len(q) : q[i] \in A /\ \A j \in 1 .. Len(q) : j > i => q[j] \notin B
    BY <1>4 DEF LastIn
  <2>2. i \in 1 .. Len(r) /\ r[i] \in A
    BY <1>2, <2>1
  <2>3. ASSUME NEW j \in 1 .. Len(r), j > i PROVE r[j] \notin B
    <3>1. CASE j = Len(r)
      BY <1>2, <1>4, <3>1
    <3>2. CASE j # Len(r)
      <4>1. j \in 1 .. Len(q) /\ r[j] = q[j]
        BY <1>2, <3>2
      <4> QED
        BY <2>1, <2>3, <4>1
    <3> QED
      BY <3>1, <3>2
  <2> QED
    BY <2>2, <2>3 DEF LastIn
<1>5. ASSUME p \in A PROVE LastIn(r, A, B)
  <2>1. Len(r) \in 1 .. Len(r) /\ r[Len(r)] \in A /\ \A j \in 1 .. Len(r) : ~(j > Len(r))
    BY <1>2, <1>5
  <2> QED
    BY <2>1 DEF LastIn
<1> QED
  BY <1>1, <1>3, <1>4, <1>5

\* The requests on their way as sets of requests.
LEMMA AsSets ==
  ASSUME NEW S, NEW q \in Seq(S)
  PROVE  /\ \A type : Has(q, type) <=> LastIn(q, {p \in S : p.type = type}, {})
         /\ \A n : LastSet(q, n) <=> LastIn(q, {p \in S : Goes(p, n)}, {p \in S : p.type = "SET_QUESTION"})
         /\ \A a : Revealed(q, a) <=> LastIn(q, {p \in S : Reveals(p, a)}, {p \in S : p.type = "SET_QUESTION"})
         /\ \A a : Dropped(q, a) <=> LastIn(q, {p \in S : Drops(p, a)}, {})
         /\ \A a : LoggedIn(q, a) <=> LastIn(q, {p \in S : Logs(p, a)}, {p \in S : Drops(p, a)})
<1>1. \A i \in 1 .. Len(q) : q[i] \in S
  OBVIOUS
<1>2. ASSUME NEW type PROVE Has(q, type) <=> LastIn(q, {p \in S : p.type = type}, {})
  BY <1>1 DEF Has, LastIn
<1>3. ASSUME NEW n PROVE LastSet(q, n) <=> LastIn(q, {p \in S : Goes(p, n)}, {p \in S : p.type = "SET_QUESTION"})
  BY <1>1 DEF LastSet, LastIn
<1>4. ASSUME NEW a PROVE Revealed(q, a) <=> LastIn(q, {p \in S : Reveals(p, a)}, {p \in S : p.type = "SET_QUESTION"})
  BY <1>1 DEF Revealed, LastIn
<1>5. ASSUME NEW a PROVE Dropped(q, a) <=> LastIn(q, {p \in S : Drops(p, a)}, {})
  BY <1>1 DEF Dropped, LastIn
<1>6. ASSUME NEW a PROVE LoggedIn(q, a) <=> LastIn(q, {p \in S : Logs(p, a)}, {p \in S : Drops(p, a)})
  BY <1>1 DEF LoggedIn, LastIn
<1> QED
  BY <1>2, <1>3, <1>4, <1>5, <1>6

LEMMA HasAsSet ==
  ASSUME NEW S, NEW q \in Seq(S), NEW type, NEW A, A = {p \in S : p.type = type}
  PROVE  Has(q, type) <=> LastIn(q, A, {})
<1>1. \A i \in 1 .. Len(q) : q[i] \in S
  OBVIOUS
<1> QED
  BY <1>1 DEF Has, LastIn

\* What is left once the first request is handled.
LEMMA RequestsTail ==
  ASSUME NEW q, Queue(q), q # <<>>, NEW m, m = Head(q), NEW r, r = Tail(q)
  PROVE  /\ Queue(r)
         /\ \A type : Has(q, type) <=> Has(r, type) \/ m.type = type
         /\ \A n : LastSet(q, n) <=> LastSet(r, n) \/ (Goes(m, n) /\ ~Has(r, "SET_QUESTION"))
         /\ \A a : Revealed(q, a) <=> Revealed(r, a) \/ (Reveals(m, a) /\ ~Has(r, "SET_QUESTION"))
         /\ \A a : Dropped(q, a) <=> Dropped(r, a) \/ Drops(m, a)
         /\ \A a : LoggedIn(q, a) <=> LoggedIn(r, a) \/ (Logs(m, a) /\ ~Dropped(r, a))
<1>1. PICK S : q \in Seq(S)
  BY DEF Queue
<1>2. r \in Seq(S) /\ m \in S
  BY <1>1
<1>3. \A A, B : LastIn(q, A, B) <=> LastIn(r, A, B) \/ (m \in A /\ ~LastIn(r, B, {}))
  BY <1>1, LastInTail
<1>4. ASSUME NEW A PROVE LastIn(q, A, {}) <=> LastIn(r, A, {}) \/ m \in A
  <2>1. ~LastIn(r, {}, {})
    BY DEF LastIn
  <2> QED
    BY <1>3, <2>1
<1>5. ASSUME NEW type PROVE Has(q, type) <=> Has(r, type) \/ m.type = type
  <2>1. PICK A : A = {p \in S : p.type = type}
    OBVIOUS
  <2>2. Has(q, type) <=> LastIn(q, A, {})
    BY <1>1, <2>1, HasAsSet
  <2>3. Has(r, type) <=> LastIn(r, A, {})
    BY <1>2, <2>1, HasAsSet
  <2> QED
    BY <1>2, <1>4, <2>1, <2>2, <2>3
<1>6. PICK B : B = {p \in S : p.type = "SET_QUESTION"}
  OBVIOUS
<1>7. Has(r, "SET_QUESTION") <=> LastIn(r, B, {})
  <2>1. r \in Seq(S)
    BY <1>2
  <2>2. Has(r, "SET_QUESTION") <=> LastIn(r, {p \in S : p.type = "SET_QUESTION"}, {})
    BY <2>1, AsSets
  <2> QED
    BY <1>6, <2>2
<1>8. ASSUME NEW n PROVE LastSet(q, n) <=> LastSet(r, n) \/ (Goes(m, n) /\ ~Has(r, "SET_QUESTION"))
  <2>1. PICK A : A = {p \in S : Goes(p, n)}
    OBVIOUS
  <2>2. (LastSet(q, n) <=> LastIn(q, A, B)) /\ (LastSet(r, n) <=> LastIn(r, A, B))
    BY <1>1, <1>2, <1>6, <2>1, AsSets
  <2> QED
    BY <1>2, <1>3, <1>7, <2>1, <2>2
<1>9. ASSUME NEW a PROVE Revealed(q, a) <=> Revealed(r, a) \/ (Reveals(m, a) /\ ~Has(r, "SET_QUESTION"))
  <2>1. PICK A : A = {p \in S : Reveals(p, a)}
    OBVIOUS
  <2>2. (Revealed(q, a) <=> LastIn(q, A, B)) /\ (Revealed(r, a) <=> LastIn(r, A, B))
    BY <1>1, <1>2, <1>6, <2>1, AsSets
  <2> QED
    BY <1>2, <1>3, <1>7, <2>1, <2>2
<1>10. ASSUME NEW a
       PROVE  /\ Dropped(q, a) <=> Dropped(r, a) \/ Drops(m, a)
              /\ LoggedIn(q, a) <=> LoggedIn(r, a) \/ (Logs(m, a) /\ ~Dropped(r, a))
  <2>1. PICK A, C : A = {p \in S : Logs(p, a)} /\ C = {p \in S : Drops(p, a)}
    OBVIOUS
  <2>2. /\ (Dropped(q, a) <=> LastIn(q, C, {})) /\ (Dropped(r, a) <=> LastIn(r, C, {}))
        /\ (LoggedIn(q, a) <=> LastIn(q, A, C)) /\ (LoggedIn(r, a) <=> LastIn(r, A, C))
    BY <1>1, <1>2, <2>1, AsSets
  <2> QED
    BY <1>2, <1>3, <1>4, <2>1, <2>2
<1> QED
  BY <1>2, <1>5, <1>8, <1>9, <1>10 DEF Queue

\* One more request.
LEMMA RequestsMore ==
  ASSUME NEW q, Queue(q), NEW p, NEW r, r = Append(q, p)
  PROVE  /\ Queue(r) /\ r = q \o <<p>>
         /\ \A type : Has(r, type) <=> Has(q, type) \/ p.type = type
         /\ \A n : LastSet(r, n) <=> (LastSet(q, n) /\ p.type # "SET_QUESTION") \/ Goes(p, n)
         /\ \A a : Revealed(r, a) <=> (Revealed(q, a) /\ p.type # "SET_QUESTION") \/ Reveals(p, a)
         /\ \A a : Dropped(r, a) <=> Dropped(q, a) \/ Drops(p, a)
         /\ \A a : LoggedIn(r, a) <=> (LoggedIn(q, a) /\ ~Drops(p, a)) \/ Logs(p, a)
<1>1. PICK S : q \in Seq(S) /\ p \in S
  <2>1. PICK T : q \in Seq(T)
    BY DEF Queue
  <2>2. PICK S : S = T \cup {p}
    OBVIOUS
  <2>3. q \in Seq(S) /\ p \in S
    BY <2>1, <2>2
  <2> QED
    BY <2>3
<1>2. r \in Seq(S) /\ r = q \o <<p>>
  BY <1>1
<1>3. \A A, B : LastIn(r, A, B) <=> (LastIn(q, A, B) /\ p \notin B) \/ p \in A
  BY <1>1, LastInMore
<1>4. ASSUME NEW type PROVE Has(r, type) <=> Has(q, type) \/ p.type = type
  <2>1. PICK A : A = {x \in S : x.type = type}
    OBVIOUS
  <2>2. Has(q, type) <=> LastIn(q, A, {})
    BY <1>1, <2>1, HasAsSet
  <2>3. Has(r, type) <=> LastIn(r, A, {})
    BY <1>2, <2>1, HasAsSet
  <2> QED
    BY <1>1, <1>3, <2>1, <2>2, <2>3
<1>5. PICK B : B = {x \in S : x.type = "SET_QUESTION"}
  OBVIOUS
<1>6. ASSUME NEW n PROVE LastSet(r, n) <=> (LastSet(q, n) /\ p.type # "SET_QUESTION") \/ Goes(p, n)
  <2>1. PICK A : A = {x \in S : Goes(x, n)}
    OBVIOUS
  <2>2. (LastSet(q, n) <=> LastIn(q, A, B)) /\ (LastSet(r, n) <=> LastIn(r, A, B))
    BY <1>1, <1>2, <1>5, <2>1, AsSets
  <2> QED
    BY <1>1, <1>3, <1>5, <2>1, <2>2
<1>7. ASSUME NEW a PROVE Revealed(r, a) <=> (Revealed(q, a) /\ p.type # "SET_QUESTION") \/ Reveals(p, a)
  <2>1. PICK A : A = {x \in S : Reveals(x, a)}
    OBVIOUS
  <2>2. (Revealed(q, a) <=> LastIn(q, A, B)) /\ (Revealed(r, a) <=> LastIn(r, A, B))
    BY <1>1, <1>2, <1>5, <2>1, AsSets
  <2> QED
    BY <1>1, <1>3, <1>5, <2>1, <2>2
<1>8. ASSUME NEW a
      PROVE  /\ Dropped(r, a) <=> Dropped(q, a) \/ Drops(p, a)
             /\ LoggedIn(r, a) <=> (LoggedIn(q, a) /\ ~Drops(p, a)) \/ Logs(p, a)
  <2>1. PICK A, C : A = {x \in S : Logs(x, a)} /\ C = {x \in S : Drops(x, a)}
    OBVIOUS
  <2>2. /\ (Dropped(q, a) <=> LastIn(q, C, {})) /\ (Dropped(r, a) <=> LastIn(r, C, {}))
        /\ (LoggedIn(q, a) <=> LastIn(q, A, C)) /\ (LoggedIn(r, a) <=> LastIn(r, A, C))
    BY <1>1, <1>2, <2>1, AsSets
  <2> QED
    BY <1>1, <1>3, <2>1, <2>2
<1> QED
  BY <1>2, <1>4, <1>6, <1>7, <1>8 DEF Queue

\* What a packet makes of the page that the master sees.
After(v, p, w) ==
  /\ OnPage(w) /\ w.game.question = v.game.question /\ w.game.welcome = v.game.welcome
  /\ w.teams = IF p.type = "UPDATE_TEAMS" THEN p.teams ELSE v.teams
  /\ w.points = IF p.type = "UPDATE_TEAMS" THEN p.points
                ELSE IF p.type = "TEAM_SET_POINTS" /\ p.team \in v.teams
                THEN [v.points EXCEPT ![p.team] = p.total] ELSE v.points
  /\ w.game.lock = IF p.type = "SET_BUZZER_LOCK" THEN p.setLock ELSE v.game.lock
  /\ w.game.marked = IF p.type = "MARK_TEAM" THEN applyMarkTeam(v.game, p).marked
                     ELSE IF p.type = "UPDATE_TEAMS" THEN v.game.marked \cap p.teams ELSE v.game.marked
  /\ w.game.logged = IF p.type = "ANSWER_SET_STATE" THEN v.game.logged \ p.answers ELSE v.game.logged
  /\ w.game.activated = IF p.type = "ANSWER_SET_STATE" THEN v.game.activated \cup p.answers
                        ELSE v.game.activated

LEMMA FieldsAfter ==
  ASSUME NEW v, OnPage(v), NEW p, Mild(p), NEW w, w = onMessage(v, p)
  PROVE  After(v, p, w)
<1>1. PICK ts, ps, g : v = Page("shown", ts, ps, g)
  BY DEF OnPage, IsPage
<1>2. /\ v.status = "shown" /\ v.teams = ts /\ v.points = ps /\ v.game = g /\ GameFields \subseteq DOMAIN g
      /\ g.lock \in BOOLEAN
  BY <1>1 DEF OnPage, Page
<1>3. w = OnShownPage(v, p)
  BY <1>2 DEF onMessage, Mild
<1>4. ASSUME NEW us, NEW qs, NEW h, w = Page("shown", us, qs, h), GameFields \subseteq DOMAIN h,
             h.lock \in BOOLEAN
      PROVE  OnPage(w) /\ w.teams = us /\ w.points = qs /\ w.game = h
  BY <1>4 DEF OnPage, IsPage, Page
<1>5. CASE p.type = "TEAM_SET_POINTS"
  <2>1. PICK qs : qs = IF p.team \in ts THEN [ps EXCEPT ![p.team] = p.total] ELSE ps
    OBVIOUS
  <2>2. w = Page("shown", ts, qs, g)
    BY <1>1, <1>2, <1>3, <1>5, <2>1 DEF OnShownPage, handleTeamSetPoints, Page
  <2>3. OnPage(w) /\ w.teams = ts /\ w.points = qs /\ w.game = g
    BY <1>2, <1>4, <2>2
  <2> QED
    BY <1>2, <1>5, <2>1, <2>3 DEF After
<1>6. CASE p.type = "UPDATE_TEAMS"
  <2>1. PICK h : h = [g EXCEPT !.marked = @ \cap p.teams]
    OBVIOUS
  <2>2. w = Page("shown", p.teams, p.points, h)
    BY <1>1, <1>2, <1>3, <1>6, <2>1 DEF OnShownPage, handleUpdateTeams, Page
  <2>3. /\ GameFields \subseteq DOMAIN h /\ h.lock = g.lock /\ h.marked = g.marked \cap p.teams
        /\ h.question = g.question /\ h.welcome = g.welcome /\ h.logged = g.logged /\ h.activated = g.activated
    BY <1>2, <2>1 DEF GameFields
  <2>4. OnPage(w) /\ w.teams = p.teams /\ w.points = p.points /\ w.game = h
    BY <1>2, <1>4, <2>2, <2>3
  <2> QED
    BY <1>2, <1>6, <2>3, <2>4 DEF After
<1>7. CASE p.type = "MARK_TEAM"
  <2>1. PICK h : h = applyMarkTeam(g, p)
    OBVIOUS
  <2>2. w = Page("shown", ts, ps, h)
    BY <1>1, <1>2, <1>3, <1>7, <2>1 DEF OnShownPage, Page
  <2>3. /\ GameFields \subseteq DOMAIN h /\ h.lock = g.lock /\ h.question = g.question /\ h.welcome = g.welcome
        /\ h.logged = g.logged /\ h.activated = g.activated
    BY <1>2, <2>1 DEF GameFields, applyMarkTeam
  <2>4. OnPage(w) /\ w.teams = ts /\ w.points = ps /\ w.game = h
    BY <1>2, <1>4, <2>2, <2>3
  <2> QED
    BY <1>2, <1>7, <2>1, <2>3, <2>4 DEF After
<1>8. CASE p.type = "ANSWER_SET_STATE"
  <2>1. PICK h : h = ApplyAnswers(g, "ACTIVATE", p.answers)
    OBVIOUS
  <2>2. w = Page("shown", ts, ps, h)
    BY <1>1, <1>2, <1>3, <1>8, <2>1 DEF OnShownPage, Page, Mild
  <2> QED
    <3>1. /\ GameFields \subseteq DOMAIN h /\ h.logged = g.logged \ p.answers /\ h.activated = g.activated \cup p.answers
          /\ h.question = g.question /\ h.welcome = g.welcome /\ h.lock = g.lock /\ h.marked = g.marked
      BY <1>2, <2>1 DEF GameFields, ApplyAnswers
    <3> QED
      BY <1>2, <1>4, <1>8, <2>2, <3>1 DEF After
<1>9. CASE p.type = "SET_BUZZER_LOCK"
  <2>1. PICK h : h = [g EXCEPT !.lock = p.setLock]
    OBVIOUS
  <2>2. w = Page("shown", ts, ps, h)
    BY <1>1, <1>2, <1>3, <1>9, <2>1 DEF OnShownPage, Page
  <2>3. p.setLock \in BOOLEAN
    BY <1>9 DEF Mild
  <2> QED
    BY <1>2, <1>4, <1>9, <2>1, <2>2, <2>3 DEF GameFields, After
<1>10. CASE p.type \in {"UPDATE_MEDIA_STATE", "SET_MEDIA_VOLUME"}
  <2>1. PICK h : h \in {[g EXCEPT !.media = p.media], [g EXCEPT !.volume = p.volume]} /\ w = Page("shown", ts, ps, h)
    BY <1>1, <1>2, <1>3, <1>10 DEF OnShownPage, Page
  <2> QED
    BY <1>2, <1>4, <1>10, <2>1 DEF GameFields, After
<1>11. CASE p.type \notin {"TEAM_SET_POINTS", "UPDATE_TEAMS", "MARK_TEAM", "ANSWER_SET_STATE", "SET_BUZZER_LOCK",
                           "UPDATE_MEDIA_STATE", "SET_MEDIA_VOLUME"}
  <2>1. w = v
    BY <1>3, <1>11 DEF OnShownPage, Mild
  <2> QED
    BY <1>11, <2>1 DEF After
<1> QED
  BY <1>5, <1>6, <1>7, <1>8, <1>9, <1>10, <1>11

\* A page v that began as z, next to one that is w and may differ in what the user did: they have the
\* fields of the game in F in common, and of the answers v logs in those of A only beyond w.
Near(v, w, z, F, A) ==
  /\ OnPage(v) /\ OnPage(w) /\ v.teams = w.teams
  /\ "lock" \in F => v.game.lock = w.game.lock
  /\ "marked" \in F => v.game.marked = w.game.marked
  /\ "activated" \in F => w.game.activated \subseteq v.game.activated
  /\ v.game.logged \subseteq w.game.logged \cup A
  /\ v.game.question = z.game.question /\ v.game.welcome = z.game.welcome
  /\ v.game.logged \subseteq z.game.logged /\ z.game.activated \subseteq v.game.activated

LEMMA NearAfter ==
  ASSUME NEW v, NEW w, NEW z, NEW F, NEW A, Near(v, w, z, F, A), NEW p, Mild(p)
  PROVE  Near(onMessage(v, p), onMessage(w, p), z, F, A)
<1>1. PICK x, y : x = onMessage(v, p) /\ y = onMessage(w, p)
  OBVIOUS
<1>2. OnPage(v) /\ OnPage(w)
  BY DEF Near
<1>3. After(v, p, x) /\ After(w, p, y)
  BY <1>1, <1>2, FieldsAfter
<1>4. x.teams = y.teams
  <2>1. v.teams = w.teams
    BY DEF Near
  <2> QED
    BY <1>3, <2>1 DEF After
<1>5. "lock" \in F => x.game.lock = y.game.lock
  <2>1. "lock" \in F => v.game.lock = w.game.lock
    BY DEF Near
  <2> QED
    BY <1>3, <2>1 DEF After
<1>6. "marked" \in F => x.game.marked = y.game.marked
  <2>1. "marked" \in F => v.game.marked = w.game.marked
    BY DEF Near
  <2>2. "marked" \in F => applyMarkTeam(v.game, p).marked = applyMarkTeam(w.game, p).marked
    BY <1>2, <2>1 DEF applyMarkTeam, OnPage, GameFields
  <2> QED
    BY <1>3, <2>1, <2>2 DEF After
<1>7. /\ "activated" \in F => y.game.activated \subseteq x.game.activated
      /\ z.game.activated \subseteq x.game.activated
  <2>1. /\ "activated" \in F => w.game.activated \subseteq v.game.activated
        /\ z.game.activated \subseteq v.game.activated
    BY DEF Near
  <2>2. /\ x.game.activated = IF p.type = "ANSWER_SET_STATE" THEN v.game.activated \cup p.answers
                              ELSE v.game.activated
        /\ y.game.activated = IF p.type = "ANSWER_SET_STATE" THEN w.game.activated \cup p.answers
                              ELSE w.game.activated
    BY <1>3 DEF After
  <2> QED
    BY <2>1, <2>2
<1>8. x.game.logged \subseteq y.game.logged \cup A /\ x.game.logged \subseteq z.game.logged
  <2>1. v.game.logged \subseteq w.game.logged \cup A /\ v.game.logged \subseteq z.game.logged
    BY DEF Near
  <2>2. /\ x.game.logged = IF p.type = "ANSWER_SET_STATE" THEN v.game.logged \ p.answers ELSE v.game.logged
        /\ y.game.logged = IF p.type = "ANSWER_SET_STATE" THEN w.game.logged \ p.answers ELSE w.game.logged
    BY <1>3 DEF After
  <2> QED
    BY <2>1, <2>2
<1>9. x.game.question = z.game.question /\ x.game.welcome = z.game.welcome
  <2>1. v.game.question = z.game.question /\ v.game.welcome = z.game.welcome
    BY DEF Near
  <2> QED
    BY <1>3, <2>1 DEF After
<1> QED
  BY <1>1, <1>3, <1>4, <1>5, <1>6, <1>7, <1>8, <1>9 DEF Near, After

\* They stay that near while both handle the same packets.
LEMMA NearHandled ==
  ASSUME NEW v, NEW w, NEW F, NEW A, Near(v, w, v, F, A), NEW q, AllMild(q)
  PROVE  Near(Handled(v, q), Handled(w, q), v, F, A)
<1>1. PICK S : q \in Seq(S) /\ \A p \in S : Mild(p)
  BY DEF AllMild
<1>2. PICK f : IsRun(f, v, q) /\ Handled(v, q) = f[Len(q)]
  BY <1>1, HandledIsRun
<1>3. PICK g : IsRun(g, w, q) /\ Handled(w, q) = g[Len(q)]
  BY <1>1, HandledIsRun
<1>4. Len(q) \in Nat
  BY <1>1
<1>5. f[0] = v /\ g[0] = w /\ \A n \in 1 .. Len(q) : f[n] = onMessage(f[n - 1], q[n]) /\ g[n] = onMessage(g[n - 1], q[n])
  <2>1. \A n \in 0 .. Len(q) : /\ f[n] = IF n = 0 THEN v ELSE onMessage(f[n - 1], q[n])
                               /\ g[n] = IF n = 0 THEN w ELSE onMessage(g[n - 1], q[n])
    BY <1>2, <1>3 DEF IsRun
  <2>2. 0 \in 0 .. Len(q) /\ \A n \in 1 .. Len(q) : n \in 0 .. Len(q) /\ n # 0
    BY <1>4
  <2> QED
    BY <2>1, <2>2
<1> DEFINE Apart == {n \in 0 .. Len(q) : ~Near(f[n], g[n], v, F, A)}
<1>6. SUFFICES Apart = {}
  BY <1>2, <1>3, <1>4
<1>7. SUFFICES ASSUME Apart # {}
               PROVE  FALSE
  OBVIOUS
<1>8. PICK k \in Apart : \A j \in Apart : k <= j
  <2>1. Apart \subseteq Nat
    BY <1>4
  <2> HIDE DEF Apart
  <2> QED
    BY <1>7, <2>1, LeastOf
<1>9. k \in 1 .. Len(q) /\ k - 1 \in 0 .. Len(q) /\ ~(k <= k - 1)
  <2>1. k # 0
    BY <1>5, <1>8
  <2>2. k \in 0 .. Len(q)
    BY <1>8
  <2> QED
    BY <1>4, <2>1, <2>2
<1>10. Near(f[k - 1], g[k - 1], v, F, A)
  BY <1>8, <1>9
<1>11. Mild(q[k])
  BY <1>1, <1>9
<1>12. Near(onMessage(f[k - 1], q[k]), onMessage(g[k - 1], q[k]), v, F, A)
  BY <1>10, <1>11, NearAfter
<1>13. Near(f[k], g[k], v, F, A)
  BY <1>5, <1>9, <1>12
<1> QED
  BY <1>8, <1>13

LEMMA OnPageHandled ==
  ASSUME NEW v, OnPage(v), NEW q, AllMild(q)
  PROVE  OnPage(Handled(v, q))
<1>1. PICK F, A : F = {} /\ A = {}
  OBVIOUS
<1>2. Near(v, v, v, F, A)
  BY <1>1 DEF Near
<1>3. Near(Handled(v, q), Handled(v, q), v, F, A)
  BY <1>2, NearHandled
<1> QED
  BY <1>3 DEF Near

----------------------------------------------------------------------------
(* What a page shows and the server's game stay as near as the requests on their way explain.    *)

LEMMA AgreesBy ==
  ASSUME NEW v, NEW q, NEW ts, NEW g, Agrees(v, q, ts, g), NEW w, NEW h,
         w.teams = v.teams,
         w.game.question = v.game.question, w.game.welcome = v.game.welcome,
         h.question = g.question, h.welcome = g.welcome,
         w.game.lock = h.lock \/ (w.game.lock = v.game.lock /\ h.lock = g.lock),
         g.marked \subseteq v.game.marked => h.marked \subseteq w.game.marked,
         g.activated \subseteq v.game.activated => h.activated \subseteq w.game.activated,
         v.game.activated \subseteq w.game.activated,
         \A a \in w.game.logged : a \in v.game.logged /\ (a \in g.logged => a \in h.logged)
  PROVE  Agrees(w, q, ts, h)
<1>1. w.teams = ts
  BY DEF Agrees
<1>2. QuestionAgrees(w, q, h)
  BY DEF Agrees, QuestionAgrees
<1>3. BuzzersAgree(w, q, h)
  BY DEF Agrees, BuzzersAgree
<1>4. AnswersAgree(w, q, h)
  BY DEF Agrees, AnswersAgree
<1> QED
  BY <1>1, <1>2, <1>3, <1>4 DEF Agrees

\* The page hears of what the server changes.
LEMMA Hears ==
  ASSUME NEW v, OnPage(v), NEW q, NEW ts, NEW g, GameFields \subseteq DOMAIN g, Agrees(v, q, ts, g)
  PROVE  /\ \A b \in BOOLEAN : Agrees(onMessage(v, BuzzerLockPacket(b)), q, ts, WithLock(g, b))
         /\ Agrees(onMessage(v, UnmarkAllPacket), q, ts, WithoutMarks(g))
         /\ \A t : Agrees(onMessage(v, MarkTeamPacket(t, TRUE)), q, ts, WithMark(g, t, TRUE))
         /\ \A m : Agrees(onMessage(v, MediaStatePacket(m)), q, ts, WithMedia(g, m))
         /\ \A some : Agrees(onMessage(v, AnswersPacket("ACTIVATE", some)), q, ts,
                             ApplyAnswers(g, "ACTIVATE", some))
         /\ \A t, r : Agrees(onMessage(v, GradePacket(t, r)), q, ts, g)
<1>1. ASSUME NEW b \in BOOLEAN PROVE Agrees(onMessage(v, BuzzerLockPacket(b)), q, ts, WithLock(g, b))
  <2>1. PICK p, w, h : p = BuzzerLockPacket(b) /\ w = onMessage(v, p) /\ h = WithLock(g, b)
    OBVIOUS
  <2>2. p.type = "SET_BUZZER_LOCK" /\ p.setLock = b
    BY <2>1 DEF BuzzerLockPacket
  <2>3. After(v, p, w)
    BY <2>1, MildPackets, FieldsAfter
  <2>4. /\ h.lock = b /\ h.marked = g.marked /\ h.logged = g.logged /\ h.activated = g.activated
        /\ h.question = g.question /\ h.welcome = g.welcome
    BY <2>1 DEF WithLock, GameFields
  <2>5. /\ w.teams = v.teams /\ w.game.lock = b /\ w.game.marked = v.game.marked
        /\ w.game.question = v.game.question /\ w.game.welcome = v.game.welcome
        /\ w.game.logged = v.game.logged /\ w.game.activated = v.game.activated
    BY <2>2, <2>3 DEF After
  <2>6. Agrees(w, q, ts, h)
    BY <2>4, <2>5, AgreesBy
  <2> QED
    BY <2>1, <2>6
<1>2. Agrees(onMessage(v, UnmarkAllPacket), q, ts, WithoutMarks(g))
  <2>1. PICK p, w, h : p = UnmarkAllPacket /\ w = onMessage(v, p) /\ h = WithoutMarks(g)
    OBVIOUS
  <2>2. p.type = "MARK_TEAM" /\ p.unmarkAll = TRUE
    BY <2>1 DEF UnmarkAllPacket
  <2>3. After(v, p, w)
    BY <2>1, MildPackets, FieldsAfter
  <2>4. /\ h.lock = g.lock /\ h.marked = {} /\ h.logged = g.logged /\ h.activated = g.activated
        /\ h.question = g.question /\ h.welcome = g.welcome
    BY <2>1 DEF WithoutMarks, GameFields
  <2>5. /\ w.teams = v.teams /\ w.game.lock = v.game.lock
        /\ w.game.question = v.game.question /\ w.game.welcome = v.game.welcome
        /\ w.game.logged = v.game.logged /\ w.game.activated = v.game.activated
    BY <2>2, <2>3 DEF After
  <2>6. Agrees(w, q, ts, h)
    BY <2>4, <2>5, AgreesBy
  <2> QED
    BY <2>1, <2>6
<1>3. ASSUME NEW t PROVE Agrees(onMessage(v, MarkTeamPacket(t, TRUE)), q, ts, WithMark(g, t, TRUE))
  <2>1. PICK p, w, h : p = MarkTeamPacket(t, TRUE) /\ w = onMessage(v, p) /\ h = WithMark(g, t, TRUE)
    OBVIOUS
  <2>2. p.type = "MARK_TEAM" /\ p.unmarkAll = FALSE /\ p.team = t /\ p.mark = TRUE
    BY <2>1 DEF MarkTeamPacket
  <2>3. After(v, p, w)
    BY <2>1, MildPackets, FieldsAfter
  <2>4. /\ h.lock = g.lock /\ h.marked = g.marked \cup {t} /\ h.logged = g.logged /\ h.activated = g.activated
        /\ h.question = g.question /\ h.welcome = g.welcome
    BY <2>1 DEF WithMark, GameFields
  <2>5. /\ w.teams = v.teams /\ w.game.lock = v.game.lock
        /\ w.game.question = v.game.question /\ w.game.welcome = v.game.welcome
        /\ w.game.logged = v.game.logged /\ w.game.activated = v.game.activated
        /\ w.game.marked = applyMarkTeam(v.game, p).marked
    BY <2>2, <2>3 DEF After
  <2>6. applyMarkTeam(v.game, p).marked = v.game.marked \cup {t}
    BY <2>2 DEF applyMarkTeam, OnPage, GameFields
  <2>7. g.marked \subseteq v.game.marked => h.marked \subseteq w.game.marked
    BY <2>4, <2>5, <2>6
  <2>8. Agrees(w, q, ts, h)
    BY <2>4, <2>5, <2>7, AgreesBy
  <2> QED
    BY <2>1, <2>8
<1>4. ASSUME NEW m PROVE Agrees(onMessage(v, MediaStatePacket(m)), q, ts, WithMedia(g, m))
  <2>1. PICK p, w, h : p = MediaStatePacket(m) /\ w = onMessage(v, p) /\ h = WithMedia(g, m)
    OBVIOUS
  <2>2. p.type = "UPDATE_MEDIA_STATE"
    BY <2>1 DEF MediaStatePacket
  <2>3. After(v, p, w)
    BY <2>1, MildPackets, FieldsAfter
  <2>4. /\ h.lock = g.lock /\ h.marked = g.marked /\ h.logged = g.logged /\ h.activated = g.activated
        /\ h.question = g.question /\ h.welcome = g.welcome
    BY <2>1 DEF WithMedia, GameFields
  <2>5. /\ w.teams = v.teams /\ w.game.lock = v.game.lock /\ w.game.marked = v.game.marked
        /\ w.game.question = v.game.question /\ w.game.welcome = v.game.welcome
        /\ w.game.logged = v.game.logged /\ w.game.activated = v.game.activated
    BY <2>2, <2>3 DEF After
  <2>6. Agrees(w, q, ts, h)
    BY <2>4, <2>5, AgreesBy
  <2> QED
    BY <2>1, <2>6
<1>5. ASSUME NEW some
      PROVE  Agrees(onMessage(v, AnswersPacket("ACTIVATE", some)), q, ts, ApplyAnswers(g, "ACTIVATE", some))
  <2>1. PICK p, w, h : /\ p = AnswersPacket("ACTIVATE", some) /\ w = onMessage(v, p)
                       /\ h = ApplyAnswers(g, "ACTIVATE", some)
    OBVIOUS
  <2>2. p.type = "ANSWER_SET_STATE" /\ p.answers = some
    BY <2>1 DEF AnswersPacket
  <2>3. After(v, p, w)
    BY <2>1, MildPackets, FieldsAfter
  <2>4. /\ h.lock = g.lock /\ h.marked = g.marked /\ h.logged = g.logged \ some
        /\ h.activated = g.activated \cup some /\ h.question = g.question /\ h.welcome = g.welcome
    BY <2>1 DEF ApplyAnswers, GameFields
  <2>5. /\ w.teams = v.teams /\ w.game.lock = v.game.lock /\ w.game.marked = v.game.marked
        /\ w.game.question = v.game.question /\ w.game.welcome = v.game.welcome
        /\ w.game.logged = v.game.logged \ some /\ w.game.activated = v.game.activated \cup some
    BY <2>2, <2>3 DEF After
  <2>6. /\ g.activated \subseteq v.game.activated => h.activated \subseteq w.game.activated
        /\ v.game.activated \subseteq w.game.activated
        /\ \A a \in w.game.logged : a \in v.game.logged /\ (a \in g.logged => a \in h.logged)
    BY <2>4, <2>5
  <2>7. Agrees(w, q, ts, h)
    BY <2>4, <2>5, <2>6, AgreesBy
  <2> QED
    BY <2>1, <2>7
<1>6. ASSUME NEW t, NEW r PROVE Agrees(onMessage(v, GradePacket(t, r)), q, ts, g)
  <2>1. PICK p, w : p = GradePacket(t, r) /\ w = onMessage(v, p)
    OBVIOUS
  <2>2. p.type = "GRADE_ANSWER"
    BY <2>1 DEF GradePacket
  <2>3. After(v, p, w)
    BY <2>1, MildPackets, FieldsAfter
  <2>4. /\ w.teams = v.teams /\ w.game.lock = v.game.lock /\ w.game.marked = v.game.marked
        /\ w.game.question = v.game.question /\ w.game.welcome = v.game.welcome
        /\ w.game.logged = v.game.logged /\ w.game.activated = v.game.activated
    BY <2>2, <2>3 DEF After
  <2>5. Agrees(w, q, ts, g)
    BY <2>4, AgreesBy
  <2> QED
    BY <2>1, <2>5
<1> QED
  BY <1>1, <1>2, <1>3, <1>4, <1>5, <1>6

\* The page hears of points, and of teams.
LEMMA HearsScore ==
  ASSUME NEW v, OnPage(v), NEW q, NEW ts, NEW g, Agrees(v, q, ts, g)
  PROVE  /\ \A t, n : Agrees(onMessage(v, PointsPacket(t, n)), q, ts, g)
         /\ \A us, qs : g.marked \subseteq us => Agrees(onMessage(v, TeamsPacket(us, qs)), q, us, g)
<1>1. ASSUME NEW t, NEW n PROVE Agrees(onMessage(v, PointsPacket(t, n)), q, ts, g)
  <2>1. PICK p, w : p = PointsPacket(t, n) /\ w = onMessage(v, p)
    OBVIOUS
  <2>2. p.type = "TEAM_SET_POINTS"
    BY <2>1 DEF PointsPacket
  <2>3. After(v, p, w)
    BY <2>1, MildPackets, FieldsAfter
  <2>4. /\ w.teams = v.teams /\ w.game.lock = v.game.lock /\ w.game.marked = v.game.marked
        /\ w.game.question = v.game.question /\ w.game.welcome = v.game.welcome
        /\ w.game.logged = v.game.logged /\ w.game.activated = v.game.activated
    BY <2>2, <2>3 DEF After
  <2>5. Agrees(w, q, ts, g)
    BY <2>4, AgreesBy
  <2> QED
    BY <2>1, <2>5
<1>2. ASSUME NEW us, NEW qs, g.marked \subseteq us PROVE Agrees(onMessage(v, TeamsPacket(us, qs)), q, us, g)
  <2>1. PICK p, w : p = TeamsPacket(us, qs) /\ w = onMessage(v, p)
    OBVIOUS
  <2>2. p.type = "UPDATE_TEAMS" /\ p.teams = us
    BY <2>1 DEF TeamsPacket
  <2>3. After(v, p, w)
    BY <2>1, MildPackets, FieldsAfter
  <2>4. /\ w.teams = us /\ w.game.lock = v.game.lock /\ w.game.marked = v.game.marked \cap us
        /\ w.game.question = v.game.question /\ w.game.welcome = v.game.welcome
        /\ w.game.logged = v.game.logged /\ w.game.activated = v.game.activated
    BY <2>2, <2>3 DEF After
  <2>5. QuestionAgrees(w, q, g) /\ AnswersAgree(w, q, g)
    BY <2>4 DEF Agrees, QuestionAgrees, AnswersAgree
  <2>6. BuzzersAgree(w, q, g)
    BY <1>2, <2>4 DEF Agrees, BuzzersAgree
  <2> QED
    BY <2>1, <2>4, <2>5, <2>6 DEF Agrees
<1> QED
  BY <1>1, <1>2

\* The server handles the first request.
LEMMA ServedFirst ==
  ASSUME NEW v, OnPage(v), NEW q, Queue(q), q # <<>>, NEW m, m = Head(q), NEW r, r = Tail(q),
         NEW ts, NEW g, GameFields \subseteq DOMAIN g, Agrees(v, q, ts, g)
  PROVE  /\ m.type \in {"GRADE_ANSWER", "UPDATE_TEAMS", "TEAM_SET_POINTS"} => Agrees(v, r, ts, g)
         /\ m.type = "MARK_TEAM" => Agrees(v, r, ts, WithoutMarks(g))
         /\ m.type = "SET_BUZZER_LOCK" =>
              \A b \in BOOLEAN : Agrees(onMessage(v, BuzzerLockPacket(b)), r, ts, WithLock(g, b))
         /\ m.type = "SET_QUESTION" => Agrees(v, r, ts, WithQuestion(g, m.set))
         /\ \A a : m.type = "ANSWER_SET_STATE" /\ m.answers = {a} =>
                    Agrees(v, r, ts, ApplyAnswers(g, m.answerState, {a}))
<1>1. /\ \A type : Has(q, type) <=> Has(r, type) \/ m.type = type
      /\ \A n : LastSet(q, n) <=> LastSet(r, n) \/ (Goes(m, n) /\ ~Has(r, "SET_QUESTION"))
      /\ \A a : Revealed(q, a) <=> Revealed(r, a) \/ (Reveals(m, a) /\ ~Has(r, "SET_QUESTION"))
      /\ \A a : Dropped(q, a) <=> Dropped(r, a) \/ Drops(m, a)
      /\ \A a : LoggedIn(q, a) <=> LoggedIn(r, a) \/ (Logs(m, a) /\ ~Dropped(r, a))
  BY RequestsTail
<1>2. v.teams = ts /\ QuestionAgrees(v, q, g) /\ BuzzersAgree(v, q, g) /\ AnswersAgree(v, q, g)
  BY DEF Agrees
<1>3. m.type # "SET_QUESTION" => QuestionAgrees(v, r, g)
  BY <1>1, <1>2 DEF QuestionAgrees, Goes
<1>4. m.type \notin {"SET_BUZZER_LOCK", "MARK_TEAM", "SET_QUESTION"} => BuzzersAgree(v, r, g)
  BY <1>1, <1>2 DEF BuzzersAgree
<1>5. m.type \notin {"SET_QUESTION", "ANSWER_SET_STATE"} => AnswersAgree(v, r, g)
  BY <1>1, <1>2 DEF AnswersAgree, Reveals, Logs, Drops
<1>6. m.type \in {"GRADE_ANSWER", "UPDATE_TEAMS", "TEAM_SET_POINTS"} => Agrees(v, r, ts, g)
  BY <1>2, <1>3, <1>4, <1>5 DEF Agrees
<1>7. ASSUME m.type = "MARK_TEAM" PROVE Agrees(v, r, ts, WithoutMarks(g))
  <2>1. PICK h : h = WithoutMarks(g)
    OBVIOUS
  <2>2. /\ h.lock = g.lock /\ h.marked = {} /\ h.logged = g.logged /\ h.activated = g.activated
        /\ h.question = g.question /\ h.welcome = g.welcome
    BY <2>1 DEF WithoutMarks, GameFields
  <2>3. QuestionAgrees(v, r, h)
    BY <1>3, <1>7, <2>2 DEF QuestionAgrees
  <2>4. BuzzersAgree(v, r, h)
    BY <1>1, <1>2, <1>7, <2>2 DEF BuzzersAgree
  <2>5. AnswersAgree(v, r, h)
    BY <1>5, <1>7, <2>2 DEF AnswersAgree
  <2> QED
    BY <1>2, <1>7, <2>1, <2>3, <2>4, <2>5 DEF Agrees
<1>8. ASSUME m.type = "SET_BUZZER_LOCK", NEW b \in BOOLEAN
       PROVE  Agrees(onMessage(v, BuzzerLockPacket(b)), r, ts, WithLock(g, b))
  <2>1. PICK p, w, h : p = BuzzerLockPacket(b) /\ w = onMessage(v, p) /\ h = WithLock(g, b)
    OBVIOUS
  <2>2. p.type = "SET_BUZZER_LOCK" /\ p.setLock = b
    BY <2>1 DEF BuzzerLockPacket
  <2>3. After(v, p, w)
    BY <2>1, MildPackets, FieldsAfter
  <2>4. /\ h.lock = b /\ h.marked = g.marked /\ h.logged = g.logged /\ h.activated = g.activated
        /\ h.question = g.question /\ h.welcome = g.welcome
    BY <2>1 DEF WithLock, GameFields
  <2>5. /\ w.teams = v.teams /\ w.game.lock = b /\ w.game.marked = v.game.marked
        /\ w.game.question = v.game.question /\ w.game.welcome = v.game.welcome
        /\ w.game.logged = v.game.logged /\ w.game.activated = v.game.activated
    BY <2>2, <2>3 DEF After
  <2>6. QuestionAgrees(w, r, h)
    BY <1>3, <1>8, <2>4, <2>5 DEF QuestionAgrees
  <2>7. BuzzersAgree(w, r, h)
    BY <1>1, <1>2, <1>8, <2>4, <2>5 DEF BuzzersAgree
  <2>8. AnswersAgree(w, r, h)
    BY <1>5, <1>8, <2>4, <2>5 DEF AnswersAgree
  <2> QED
    BY <1>2, <2>1, <2>5, <2>6, <2>7, <2>8 DEF Agrees
<1>9. ASSUME m.type = "SET_QUESTION" PROVE Agrees(v, r, ts, WithQuestion(g, m.set))
  <2>1. PICK n, h : n = m.set /\ h = WithQuestion(g, n)
    OBVIOUS
  <2>2. /\ h.lock = g.lock /\ h.marked = {} /\ h.logged = {} /\ h.activated = {}
        /\ h.question = n /\ h.welcome = FALSE
    BY <2>1 DEF WithQuestion, GameFields
  <2>3. QuestionAgrees(v, r, h)
    BY <1>1, <1>2, <1>9, <2>1, <2>2 DEF QuestionAgrees, Goes
  <2>4. BuzzersAgree(v, r, h)
    BY <1>1, <1>2, <1>9, <2>2 DEF BuzzersAgree
  <2>5. AnswersAgree(v, r, h)
    BY <1>1, <1>2, <1>9, <2>2 DEF AnswersAgree, Reveals, Logs, Drops
  <2> QED
    BY <1>2, <1>9, <2>1, <2>3, <2>4, <2>5 DEF Agrees
<1>10. ASSUME NEW a, m.type = "ANSWER_SET_STATE", m.answers = {a}
       PROVE  Agrees(v, r, ts, ApplyAnswers(g, m.answerState, {a}))
  <2>1. PICK s, h : s = m.answerState /\ h = ApplyAnswers(g, s, {a})
    OBVIOUS
  <2>2. /\ h.lock = g.lock /\ h.marked = g.marked /\ h.question = g.question /\ h.welcome = g.welcome
        /\ h.logged = IF s = "LOG_IN" THEN g.logged \cup {a} ELSE g.logged \ {a}
        /\ h.activated = IF s = "ACTIVATE" THEN g.activated \cup {a} ELSE g.activated
    BY <2>1 DEF ApplyAnswers, GameFields
  <2>3. QuestionAgrees(v, r, h)
    BY <1>3, <1>10, <2>2 DEF QuestionAgrees
  <2>4. BuzzersAgree(v, r, h)
    BY <1>4, <1>10, <2>2 DEF BuzzersAgree
  <2>5. h.activated \subseteq v.game.activated \/ Has(r, "SET_QUESTION")
    <3>1. s = "ACTIVATE" => Reveals(m, a)
      BY <1>10, <2>1 DEF Reveals
    <3> QED
      BY <1>1, <1>2, <1>10, <2>2, <3>1 DEF AnswersAgree
  <2>6. ASSUME NEW b \in v.game.logged PROVE (b \in h.logged /\ ~Dropped(r, b)) \/ LoggedIn(r, b)
    <3>1. (b \in g.logged /\ ~Dropped(q, b)) \/ LoggedIn(q, b)
      BY <1>2 DEF AnswersAgree
    <3>2. ~Drops(m, b) /\ b \in g.logged => b \in h.logged
      BY <1>10, <2>1, <2>2 DEF Drops
    <3>3. Logs(m, b) => b \in h.logged
      BY <1>10, <2>1, <2>2 DEF Logs
    <3> QED
      BY <1>1, <3>1, <3>2, <3>3
  <2>7. AnswersAgree(v, r, h)
    BY <1>1, <1>2, <2>5, <2>6 DEF AnswersAgree
  <2> QED
    BY <1>2, <1>10, <2>1, <2>3, <2>4, <2>7 DEF Agrees
<1> QED
  BY <1>3, <1>6, <1>7, <1>8, <1>9, <1>10

\* The user asks for something that she does not see at once.
LEMMA AsksMore ==
  ASSUME NEW v, NEW q, Queue(q), NEW ts, NEW g, Agrees(v, q, ts, g),
         NEW p, p.type \in {"SET_BUZZER_LOCK", "MARK_TEAM", "GRADE_ANSWER", "UPDATE_TEAMS", "TEAM_SET_POINTS"}
  PROVE  Agrees(v, Append(q, p), ts, g)
<1>1. PICK r : r = Append(q, p)
  OBVIOUS
<1>2. /\ \A type : Has(r, type) <=> Has(q, type) \/ p.type = type
      /\ \A n : LastSet(r, n) <=> (LastSet(q, n) /\ p.type # "SET_QUESTION") \/ Goes(p, n)
      /\ \A a : Revealed(r, a) <=> (Revealed(q, a) /\ p.type # "SET_QUESTION") \/ Reveals(p, a)
      /\ \A a : Dropped(r, a) <=> Dropped(q, a) \/ Drops(p, a)
      /\ \A a : LoggedIn(r, a) <=> (LoggedIn(q, a) /\ ~Drops(p, a)) \/ Logs(p, a)
  BY <1>1, RequestsMore
<1>3. v.teams = ts /\ QuestionAgrees(v, q, g) /\ BuzzersAgree(v, q, g) /\ AnswersAgree(v, q, g)
  BY DEF Agrees
<1>4. QuestionAgrees(v, r, g)
  BY <1>2, <1>3 DEF QuestionAgrees
<1>5. BuzzersAgree(v, r, g)
  BY <1>2, <1>3 DEF BuzzersAgree
<1>6. ~Reveals(p, p) => AnswersAgree(v, r, g)
  BY <1>2, <1>3 DEF AnswersAgree, Reveals, Drops
<1>7. AnswersAgree(v, r, g)
  BY <1>6 DEF Reveals
<1> QED
  BY <1>1, <1>3, <1>4, <1>5, <1>7 DEF Agrees

\* The user goes to another question.
LEMMA GoesMore ==
  ASSUME NEW v, NEW q, Queue(q), NEW ts, NEW g, Agrees(v, q, ts, g),
         NEW n, NEW w, w.teams = v.teams, w.game.lock = v.game.lock,
         w.game.question = n, w.game.welcome = FALSE, w.game.logged = {}
  PROVE  Agrees(w, Append(q, SetQuestionPacket(n)), ts, g)
<1>1. PICK p, r : p = SetQuestionPacket(n) /\ r = Append(q, p)
  OBVIOUS
<1>2. /\ \A type : Has(r, type) <=> Has(q, type) \/ p.type = type
      /\ \A k : LastSet(r, k) <=> (LastSet(q, k) /\ p.type # "SET_QUESTION") \/ Goes(p, k)
      /\ \A a : Revealed(r, a) <=> (Revealed(q, a) /\ p.type # "SET_QUESTION") \/ Reveals(p, a)
  BY <1>1, RequestsMore
<1>3. p.type = "SET_QUESTION" /\ p.set = n
  BY <1>1 DEF SetQuestionPacket
<1>4. v.teams = ts /\ QuestionAgrees(v, q, g) /\ BuzzersAgree(v, q, g) /\ AnswersAgree(v, q, g)
  BY DEF Agrees
<1>5. QuestionAgrees(w, r, g)
  BY <1>2, <1>3 DEF QuestionAgrees, Goes
<1>6. BuzzersAgree(w, r, g)
  BY <1>2, <1>3, <1>4 DEF BuzzersAgree
<1>7. AnswersAgree(w, r, g)
  BY <1>2, <1>3 DEF AnswersAgree, Reveals
<1> QED
  BY <1>1, <1>4, <1>5, <1>6, <1>7 DEF Agrees

\* The user logs an answer in or out, or reveals it.
LEMMA AnswersMore ==
  ASSUME NEW v, NEW q, Queue(q), NEW ts, NEW g, Agrees(v, q, ts, g),
         NEW s, NEW a, NEW w, w.teams = v.teams,
         w.game.question = v.game.question, w.game.welcome = v.game.welcome,
         w.game.marked = v.game.marked, w.game.lock = v.game.lock \/ Has(q, "SET_BUZZER_LOCK"),
         v.game.activated \subseteq w.game.activated, s = "ACTIVATE" => a \in w.game.activated,
         w.game.logged \subseteq v.game.logged \cup (IF s = "LOG_IN" THEN {a} ELSE {}),
         s # "LOG_IN" => a \notin w.game.logged
  PROVE  Agrees(w, Append(q, AnswersPacket(s, {a})), ts, g)
<1>1. PICK p, r : p = AnswersPacket(s, {a}) /\ r = Append(q, p)
  OBVIOUS
<1>2. /\ \A type : Has(r, type) <=> Has(q, type) \/ p.type = type
      /\ \A k : LastSet(r, k) <=> (LastSet(q, k) /\ p.type # "SET_QUESTION") \/ Goes(p, k)
      /\ \A b : Revealed(r, b) <=> (Revealed(q, b) /\ p.type # "SET_QUESTION") \/ Reveals(p, b)
      /\ \A b : Dropped(r, b) <=> Dropped(q, b) \/ Drops(p, b)
      /\ \A b : LoggedIn(r, b) <=> (LoggedIn(q, b) /\ ~Drops(p, b)) \/ Logs(p, b)
  BY <1>1, RequestsMore
<1>3. p.type = "ANSWER_SET_STATE" /\ p.answerState = s /\ p.answers = {a}
  BY <1>1 DEF AnswersPacket
<1>4. v.teams = ts /\ QuestionAgrees(v, q, g) /\ BuzzersAgree(v, q, g) /\ AnswersAgree(v, q, g)
  BY DEF Agrees
<1>5. QuestionAgrees(w, r, g)
  BY <1>2, <1>3, <1>4 DEF QuestionAgrees
<1>6. BuzzersAgree(w, r, g)
  BY <1>2, <1>3, <1>4 DEF BuzzersAgree
<1>7. g.activated \subseteq w.game.activated \/ Has(r, "SET_QUESTION")
  BY <1>2, <1>4 DEF AnswersAgree
<1>8. ASSUME NEW b, Revealed(r, b) PROVE b \in w.game.activated
  <2>1. Reveals(p, b) => b = a /\ s = "ACTIVATE"
    BY <1>3 DEF Reveals
  <2> QED
    BY <1>2, <1>4, <1>8, <2>1 DEF AnswersAgree
<1>9. ASSUME NEW b \in w.game.logged PROVE (b \in g.logged /\ ~Dropped(r, b)) \/ LoggedIn(r, b)
  <2>1. Drops(p, b) => s # "LOG_IN" /\ b = a
    BY <1>3 DEF Drops
  <2>2. ~Drops(p, b)
    BY <2>1
  <2>3. CASE b = a /\ s = "LOG_IN"
    BY <1>2, <1>3, <2>3 DEF Logs
  <2>4. CASE ~(b = a /\ s = "LOG_IN")
    <3>1. b \in v.game.logged
      BY <2>4
    <3> QED
      BY <1>2, <1>4, <2>2, <3>1 DEF AnswersAgree
  <2> QED
    BY <2>3, <2>4
<1>10. AnswersAgree(w, r, g)
  BY <1>7, <1>8, <1>9 DEF AnswersAgree
<1> QED
  BY <1>1, <1>4, <1>5, <1>6, <1>10 DEF Agrees

----------------------------------------------------------------------------
(* The steps of the master's page, and of the server.                                            *)

LEMMA AskedQueue ==
  ASSUME NEW q, AllAsked(q) \/ AllMild(q)
  PROVE  Queue(q)
BY DEF AllAsked, AllMild, Queue

LEMMA SingleMore ==
  ASSUME NEW q, Queue(q), Single(q), NEW p, p.type = "ANSWER_SET_STATE" => \E a : p.answers = {a}
  PROVE  Single(Append(q, p)) /\ Single(<<>>)
<1>1. PICK S : q \in Seq(S)
  BY DEF Queue
<1>2. PICK T, r : T = S \cup {p} /\ r = Append(q, p)
  OBVIOUS
<1>3. q \in Seq(T) /\ p \in T
  BY <1>1, <1>2
<1>4. /\ Len(q) \in Nat /\ Len(r) = Len(q) + 1 /\ r[Len(r)] = p
      /\ \A n \in 1 .. Len(q) : r[n] = q[n]
  BY <1>2, <1>3
<1>5. ASSUME NEW i \in 1 .. Len(r), r[i].type = "ANSWER_SET_STATE" PROVE \E a : r[i].answers = {a}
  <2>1. CASE i = Len(r)
    BY <1>4, <1>5, <2>1
  <2>2. CASE i # Len(r)
    <3>1. i \in 1 .. Len(q) /\ r[i] = q[i]
      BY <1>4, <2>2
    <3> QED
      BY <1>5, <3>1 DEF Single
  <2> QED
    BY <2>1, <2>2
<1>6. Single(<<>>)
  BY DEF Single
<1> QED
  BY <1>2, <1>5, <1>6 DEF Single

LEMMA SingleTail ==
  ASSUME NEW q, Queue(q), q # <<>>, Single(q)
  PROVE  Single(Tail(q)) /\ (Head(q).type = "ANSWER_SET_STATE" => \E a : Head(q).answers = {a})
<1>1. PICK S, r : q \in Seq(S) /\ r = Tail(q)
  BY DEF Queue
<1>2. /\ Len(q) \in Nat /\ Len(q) # 0 /\ Len(r) = Len(q) - 1 /\ Head(q) = q[1]
      /\ \A n \in 1 .. Len(r) : r[n] = q[n + 1]
  BY <1>1
<1>3. ASSUME NEW i \in 1 .. Len(r), r[i].type = "ANSWER_SET_STATE" PROVE \E a : r[i].answers = {a}
  <2>1. i + 1 \in 1 .. Len(q) /\ r[i] = q[i + 1]
    BY <1>2
  <2> QED
    BY <1>3, <2>1 DEF Single
<1>4. 1 \in 1 .. Len(q)
  BY <1>2
<1> QED
  BY <1>1, <1>2, <1>3, <1>4 DEF Single

LEMMA TwoAndOne ==
  ASSUME NEW p1, NEW p2, NEW p3
  PROVE  <<p1, p2>> \o <<p3>> = <<p1, p2, p3>>
<1>1. PICK T : T = {p1, p2, p3}
  OBVIOUS
<1>2. PICK a, b, c, d : a = <<p1, p2>> /\ b = <<p1, p2, p3>> /\ d = <<p3>> /\ c = a \o d
  OBVIOUS
<1>3. a \in Seq(T) /\ b \in Seq(T) /\ d \in Seq(T) /\ Len(a) = 2 /\ Len(b) = 3 /\ Len(d) = 1
  BY <1>1, <1>2
<1>4. c \in Seq(T) /\ Len(c) = 3
  <2>1. a \in Seq(T) /\ d \in Seq(T)
    BY <1>3
  <2>2. a \o d \in Seq(T)
    BY <2>1
  <2>3. Len(a \o d) = Len(a) + Len(d)
    BY <2>1, ConcatProperties, Zenon
  <2> QED
    BY <1>2, <1>3, <2>2, <2>3
<1>5. c[1] = p1 /\ c[2] = p2 /\ c[3] = p3 /\ b[1] = p1 /\ b[2] = p2 /\ b[3] = p3
  BY <1>2, <1>3
<1>6. c = b
  BY <1>3, <1>4, <1>5
<1> QED
  BY <1>2, <1>6

LEMMA SendingTwo ==
  ASSUME NEW q, Queue(q), NEW p1, NEW p2, NEW p3
  PROVE  /\ q \o <<p1, p2>> = Append(Append(q, p1), p2)
         /\ q \o (<<p1, p2>> \o <<p3>>) = Append(Append(Append(q, p1), p2), p3)
<1>1. PICK S : q \in Seq(S)
  BY DEF Queue
<1>2. PICK T : T = S \cup {p1, p2, p3}
  OBVIOUS
<1>3. q \in Seq(T) /\ p1 \in T /\ p2 \in T /\ p3 \in T
  BY <1>1, <1>2
<1>4. PICK a, b : a = <<p1, p2>> /\ b = <<p1, p2, p3>>
  OBVIOUS
<1>5. a \in Seq(T) /\ b \in Seq(T) /\ Len(a) = 2 /\ Len(b) = 3
  BY <1>3, <1>4
<1>6. q \o a = Append(Append(q, p1), p2)
  BY <1>3, <1>4, <1>5
<1>7. q \o b = Append(Append(Append(q, p1), p2), p3)
  BY <1>3, <1>4, <1>5
<1> QED
  BY <1>4, <1>6, <1>7, TwoAndOne

\* The page alone does something.
LEMMA UserDesk ==
  ASSUME DeskInv, PaneInv', UNCHANGED <<world, toMaster>>, OnPage(copy'), Single(toServer'),
         Agrees(Handled(copy', toMaster), toServer', teams, game)
  PROVE  DeskInv'
BY DEF DeskInv, world, vars, play

LEMMA UserKeepsCopy ==
  ASSUME DeskInv, PaneInv', UNCHANGED <<world, toMaster, copy>>,
         \/ UNCHANGED toServer
         \/ \E p : send(<<p>>) /\ p.type \in {"SET_BUZZER_LOCK", "GRADE_ANSWER", "UPDATE_TEAMS"}
  PROVE  DeskInv'
<1>1. PICK v, q : v = Handled(copy, toMaster) /\ q = toServer
  OBVIOUS
<1>2. Queue(q) /\ Single(q) /\ OnPage(copy) /\ Agrees(v, q, teams, game)
  BY <1>1, AskedQueue DEF DeskInv, PaneInv
<1>3. CASE UNCHANGED toServer
  BY <1>1, <1>2, <1>3, UserDesk
<1>4. ASSUME NEW p, send(<<p>>), p.type \in {"SET_BUZZER_LOCK", "GRADE_ANSWER", "UPDATE_TEAMS"} PROVE DeskInv'
  <2>1. PICK r : r = Append(q, p)
    OBVIOUS
  <2>2. toServer' = r
    BY <1>1, <1>2, <1>4, <2>1, RequestsMore DEF send
  <2>3. Agrees(v, r, teams, game) /\ Single(r)
    BY <1>2, <1>4, <2>1, AsksMore, SingleMore
  <2> QED
    BY <1>1, <1>2, <2>2, <2>3, UserDesk
<1> QED
  BY <1>3, <1>4

LEMMA AddPointsDesk ==
  ASSUME DeskInv, PaneInv', NEW t, NEW n, addPoints(t, n)
  PROVE  DeskInv'
<1>1. PICK v, q, c, d, k : v = Handled(copy, toMaster) /\ q = toServer /\ c = copy /\ d = copy' /\ k = copy.points[t] + n
  OBVIOUS
<1>2. PICK p : p = PointsPacket(t, k)
  OBVIOUS
<1>0. p.type = "TEAM_SET_POINTS"
  BY <1>2 DEF PointsPacket
<1>3. UNCHANGED <<world, toMaster>> /\ d = [c EXCEPT !.points[t] = k] /\ toServer' = q \o <<p>>
  BY <1>1, <1>2 DEF addPoints, Uses, send
<1>4. Queue(q) /\ Single(q) /\ OnPage(c) /\ Agrees(v, q, teams, game) /\ AllMild(toMaster)
  BY <1>1, AskedQueue DEF DeskInv, PaneInv
<1>5. OnPage(d) /\ d.teams = c.teams /\ d.game = c.game
  <2>1. PICK ts, ps, g : c = Page("shown", ts, ps, g)
    BY <1>4 DEF OnPage, IsPage
  <2>2. d = Page("shown", ts, [ps EXCEPT ![t] = k], g)
    BY <1>3, <2>1 DEF Page
  <2> QED
    BY <1>4, <2>1, <2>2 DEF OnPage, IsPage, Page
<1>6. PICK F, A, w : F = {"lock", "marked", "activated"} /\ A = {} /\ w = Handled(d, toMaster)
  OBVIOUS
<1>7. Near(d, c, d, F, A) /\ Near(c, d, c, F, A)
  BY <1>4, <1>5, <1>6 DEF Near
<1>8. Near(w, v, d, F, A) /\ Near(v, w, c, F, A)
  BY <1>1, <1>4, <1>6, <1>7, NearHandled
<1>9. /\ w.teams = v.teams /\ w.game.question = v.game.question /\ w.game.welcome = v.game.welcome
      /\ w.game.lock = v.game.lock /\ w.game.marked = v.game.marked
      /\ w.game.activated = v.game.activated /\ w.game.logged = v.game.logged
  BY <1>5, <1>6, <1>8 DEF Near
<1>10. Agrees(w, q, teams, game)
  BY <1>4, <1>9, AgreesBy
<1>11. toServer' = Append(q, p)
  BY <1>3, <1>4, RequestsMore
<1>12. Agrees(w, toServer', teams, game)
  BY <1>0, <1>4, <1>10, <1>11, AsksMore
<1>13. Single(toServer')
  BY <1>0, <1>4, <1>11, SingleMore
<1> QED
  BY <1>1, <1>3, <1>5, <1>6, <1>12, <1>13, UserDesk

\* The page shows another question.
LEMMA GoesDesk ==
  ASSUME DeskInv, PaneInv', NEW n, UNCHANGED <<world, toMaster>>, copy' = [copy EXCEPT !.game = AtQuestion(@, n)],
         send(<<UnmarkAllPacket, SetQuestionPacket(n)>>) \/ send(<<SetQuestionPacket(n)>>)
  PROVE  DeskInv'
<1>1. PICK v, q, c, d : v = Handled(copy, toMaster) /\ q = toServer /\ c = copy /\ d = copy'
  OBVIOUS
<1>2. Queue(q) /\ Single(q) /\ OnPage(c) /\ Agrees(v, q, teams, game) /\ AllMild(toMaster)
  BY <1>1, AskedQueue DEF DeskInv, PaneInv
<1>3. /\ OnPage(d) /\ d.teams = c.teams /\ d.points = c.points /\ d.game.lock = c.game.lock
      /\ d.game.question = n /\ d.game.welcome = FALSE /\ d.game.logged = {} /\ d.game.activated = {}
  <2>1. PICK ts, ps, g, h : c = Page("shown", ts, ps, g) /\ h = AtQuestion(g, n)
    BY <1>2 DEF OnPage, IsPage
  <2>2. d = Page("shown", ts, ps, h)
    BY <1>1, <2>1 DEF Page
  <2>3. GameFields \subseteq DOMAIN g /\ g.lock \in BOOLEAN
    BY <1>2, <2>1 DEF OnPage, Page
  <2>4. /\ GameFields \subseteq DOMAIN h /\ h.lock = g.lock /\ h.question = n /\ h.welcome = FALSE
        /\ h.logged = {} /\ h.activated = {}
    BY <2>1, <2>3 DEF AtQuestion, GameFields
  <2>5. h.lock \in BOOLEAN
    BY <2>3, <2>4
  <2> QED
    BY <2>1, <2>2, <2>4, <2>5 DEF OnPage, IsPage, Page
<1>4. PICK F, A, w : F = {"lock"} /\ A = {} /\ w = Handled(d, toMaster)
  OBVIOUS
<1>5. Near(d, c, d, F, A)
  BY <1>2, <1>3, <1>4 DEF Near
<1>6. Near(w, v, d, F, A)
  BY <1>1, <1>2, <1>4, <1>5, NearHandled
<1>7. /\ w.teams = v.teams /\ w.game.lock = v.game.lock
      /\ w.game.question = n /\ w.game.welcome = FALSE /\ w.game.logged = {}
  BY <1>3, <1>4, <1>6 DEF Near
<1>8. PICK p, u : p = SetQuestionPacket(n) /\ u = UnmarkAllPacket
  OBVIOUS
<1>9. p.type = "SET_QUESTION" /\ u.type = "MARK_TEAM"
  BY <1>8 DEF SetQuestionPacket, UnmarkAllPacket
<1>10. ASSUME NEW r, Queue(r), Single(r), Agrees(v, r, teams, game), toServer' = Append(r, p) PROVE DeskInv'
  <2>1. Agrees(w, Append(r, p), teams, game)
    BY <1>7, <1>8, <1>10, GoesMore
  <2>2. Single(Append(r, p))
    BY <1>9, <1>10, SingleMore
  <2> QED
    BY <1>1, <1>3, <1>4, <1>10, <2>1, <2>2, UserDesk
<1>11. CASE send(<<SetQuestionPacket(n)>>)
  <2>1. toServer' = Append(q, p)
    BY <1>1, <1>2, <1>8, <1>11, RequestsMore DEF send
  <2> QED
    BY <1>2, <1>10, <2>1
<1>12. CASE send(<<UnmarkAllPacket, SetQuestionPacket(n)>>)
  <2>1. PICK r : r = Append(q, u)
    OBVIOUS
  <2>2. Queue(r)
    BY <1>2, <2>1, RequestsMore
  <2>3. Single(r)
    BY <1>2, <1>9, <2>1, SingleMore
  <2>4. Agrees(v, r, teams, game)
    BY <1>2, <1>9, <2>1, AsksMore
  <2>5. toServer' = Append(r, p)
    <3>1. toServer' = q \o <<u, p>>
      BY <1>1, <1>8, <1>12 DEF send
    <3> QED
      BY <1>2, <2>1, <3>1, SendingTwo
  <2> QED
    BY <1>10, <2>2, <2>3, <2>4, <2>5
<1> QED
  BY <1>11, <1>12

\* The sheet of an answer.
LEMMA SheetDesk ==
  ASSUME DeskInv, PaneInv', LogsAnswer \/ ActivatesAnswer
  PROVE  DeskInv'
<1>1. PICK v, q, c, d : v = Handled(copy, toMaster) /\ q = toServer /\ c = copy /\ d = copy'
  OBVIOUS
<1>2. Queue(q) /\ Single(q) /\ OnPage(c) /\ Agrees(v, q, teams, game) /\ AllMild(toMaster)
  BY <1>1, AskedQueue DEF DeskInv, PaneInv
<1>3. PICK a, w : a = pane.sheet /\ w = Handled(d, toMaster)
  OBVIOUS
<1>4. UNCHANGED <<world, toMaster>>
  BY DEF LogsAnswer, ActivatesAnswer, Uses
<1>5. PICK ts, ps, g : c = Page("shown", ts, ps, g)
  BY <1>2 DEF OnPage, IsPage
<1>6. GameFields \subseteq DOMAIN g /\ g.lock \in BOOLEAN /\ c.game = g /\ c.teams = ts /\ c.points = ps
  BY <1>2, <1>5 DEF OnPage, Page
<1>7. ASSUME NEW r, Queue(r), Single(r), Agrees(v, r, teams, game),
             NEW s, toServer' = Append(r, AnswersPacket(s, {a})), OnPage(d),
             NEW F, NEW A, Near(w, v, d, F, A), "marked" \in F, "activated" \in F, A = IF s = "LOG_IN" THEN {a} ELSE {},
             "lock" \in F \/ Has(r, "SET_BUZZER_LOCK"),
             d.game.question = c.game.question, d.game.welcome = c.game.welcome,
             s = "ACTIVATE" => a \in d.game.activated, s # "LOG_IN" => a \notin d.game.logged
      PROVE  DeskInv'
  <2>1. Near(v, v, c, {}, {})
    <3>1. PICK x, y : x = {} /\ y = {}
      OBVIOUS
    <3>2. Near(c, c, c, x, y)
      BY <1>2, <3>1 DEF Near
    <3>3. Near(v, v, c, x, y)
      BY <1>1, <1>2, <3>2, NearHandled
    <3> QED
      BY <3>1, <3>3
  <2>2. /\ w.teams = v.teams /\ w.game.marked = v.game.marked
        /\ w.game.lock = v.game.lock \/ Has(r, "SET_BUZZER_LOCK")
        /\ w.game.question = v.game.question /\ w.game.welcome = v.game.welcome
        /\ v.game.activated \subseteq w.game.activated /\ d.game.activated \subseteq w.game.activated
        /\ w.game.logged \subseteq d.game.logged /\ w.game.logged \subseteq v.game.logged \cup A
    BY <1>7, <2>1 DEF Near
  <2>3. Agrees(w, Append(r, AnswersPacket(s, {a})), teams, game)
    BY <1>7, <2>2, AnswersMore
  <2>4. Single(toServer')
    <3>1. PICK p : p = AnswersPacket(s, {a})
      OBVIOUS
    <3>2. p.answers = {a}
      BY <3>1 DEF AnswersPacket
    <3> QED
      BY <1>7, <3>1, <3>2, SingleMore
  <2> QED
    BY <1>1, <1>3, <1>4, <1>7, <2>3, <2>4, UserDesk
<1>8. ASSUME NEW F, NEW A, Near(d, c, d, F, A) PROVE Near(w, v, d, F, A)
  BY <1>1, <1>2, <1>3, <1>8, NearHandled
<1>9. ASSUME LogsAnswer PROVE DeskInv'
  <2>1. PICK s, h : s = (IF pane.picked THEN "LOG_OUT" ELSE "LOG_IN") /\ h = ApplyAnswers(g, s, {a})
    OBVIOUS
  <2>2. d = [c EXCEPT !.game = h] /\ send(<<AnswersPacket(s, {a})>>)
    BY <1>1, <1>3, <1>6, <1>9, <2>1 DEF LogsAnswer, sendAnswerSetStatePacket
  <2>3. /\ GameFields \subseteq DOMAIN h /\ h.lock = g.lock /\ h.marked = g.marked /\ h.question = g.question
        /\ h.welcome = g.welcome /\ h.activated = g.activated
        /\ h.logged = IF s = "LOG_IN" THEN g.logged \cup {a} ELSE g.logged \ {a}
    BY <1>6, <2>1 DEF ApplyAnswers, GameFields
  <2>4. d = Page("shown", ts, ps, h)
    BY <1>5, <2>2 DEF Page
  <2>5. OnPage(d) /\ d.teams = ts /\ d.points = ps /\ d.game = h
    <3>1. h.lock \in BOOLEAN
      BY <1>6, <2>3
    <3> QED
      BY <2>3, <2>4, <3>1 DEF OnPage, IsPage, Page
  <2>6. PICK F, A : F = {"lock", "marked", "activated"} /\ A = IF s = "LOG_IN" THEN {a} ELSE {}
    OBVIOUS
  <2>7. Near(d, c, d, F, A)
    BY <1>2, <1>6, <2>3, <2>5, <2>6 DEF Near
  <2>8. toServer' = Append(q, AnswersPacket(s, {a}))
    BY <1>1, <1>2, <2>2, RequestsMore DEF send
  <2>9. s # "ACTIVATE" /\ (s # "LOG_IN" => a \notin d.game.logged)
    BY <2>1, <2>3, <2>5
  <2>10. "lock" \in F /\ "marked" \in F /\ "activated" \in F
    BY <2>6
  <2>11. Near(w, v, d, F, A)
    BY <1>8, <2>7
  <2> QED
    BY <1>2, <1>6, <1>7, <2>3, <2>5, <2>6, <2>8, <2>9, <2>10, <2>11
<1>10. ASSUME ActivatesAnswer PROVE DeskInv'
  <2>1. PICK frees \in BOOLEAN :
          /\ d = [c EXCEPT !.game = [ApplyAnswers(c.game, "ACTIVATE", {a}) EXCEPT !.lock = @ /\ ~frees]]
          /\ send(IF frees THEN <<UnmarkAllPacket, BuzzerLockPacket(FALSE)>> \o <<AnswersPacket("ACTIVATE", {a})>>
                           ELSE <<AnswersPacket("ACTIVATE", {a})>>)
    <3>1. PICK frees : frees = (a \in CorrectAnswer /\ Activated(pane, {a}).left # 0)
      OBVIOUS
    <3>2. frees \in BOOLEAN
      BY <3>1
    <3> QED
      BY <1>1, <1>3, <1>10, <3>1, <3>2 DEF ActivatesAnswer
  <2>2. PICK f, h : f = ApplyAnswers(g, "ACTIVATE", {a}) /\ h = [f EXCEPT !.lock = @ /\ ~frees]
    OBVIOUS
  <2>3. /\ GameFields \subseteq DOMAIN f /\ f.lock = g.lock /\ f.marked = g.marked /\ f.question = g.question
        /\ f.welcome = g.welcome /\ f.activated = g.activated \cup {a} /\ f.logged = g.logged \ {a}
    BY <1>6, <2>2 DEF ApplyAnswers, GameFields
  <2>4. /\ GameFields \subseteq DOMAIN h /\ h.lock = (g.lock /\ ~frees) /\ h.marked = g.marked
        /\ h.question = g.question /\ h.welcome = g.welcome /\ h.activated = g.activated \cup {a}
        /\ h.logged = g.logged \ {a}
    BY <2>2, <2>3 DEF GameFields
  <2>5. d = Page("shown", ts, ps, h)
    <3>1. d = [c EXCEPT !.game = h]
      <4>1. f = ApplyAnswers(c.game, "ACTIVATE", {a})
        BY <1>6, <2>2
      <4>2. h = [ApplyAnswers(c.game, "ACTIVATE", {a}) EXCEPT !.lock = @ /\ ~frees]
        BY <2>2, <4>1, Zenon
      <4> QED
        BY <2>1, <4>2, Zenon
    <3> QED
      BY <1>5, <3>1 DEF Page
  <2>6. OnPage(d) /\ d.teams = ts /\ d.points = ps /\ d.game = h
    <3>1. h.lock \in BOOLEAN
      BY <2>4
    <3> QED
      BY <2>4, <2>5, <3>1 DEF OnPage, IsPage, Page
  <2>7. PICK p : p = AnswersPacket("ACTIVATE", {a})
    OBVIOUS
  <2>8. CASE frees
    <3>1. PICK F, A : F = {"marked", "activated"} /\ A = {}
      OBVIOUS
    <3>2. Near(d, c, d, F, A)
      BY <1>2, <1>6, <2>4, <2>6, <3>1 DEF Near
    <3>3. Near(w, v, d, F, A)
      BY <1>8, <3>2
    <3>4. PICK x, y, r1, r : x = UnmarkAllPacket /\ y = BuzzerLockPacket(FALSE) /\ r1 = Append(q, x) /\ r = Append(r1, y)
      OBVIOUS
    <3>5. x.type = "MARK_TEAM" /\ y.type = "SET_BUZZER_LOCK"
      BY <3>4 DEF UnmarkAllPacket, BuzzerLockPacket
    <3>6. Queue(r1) /\ Single(r1) /\ Agrees(v, r1, teams, game)
      <4>1. Queue(r1)
        BY <1>2, <3>4, RequestsMore
      <4>2. Single(r1)
        BY <1>2, <3>4, <3>5, SingleMore
      <4>3. Agrees(v, r1, teams, game)
        BY <1>2, <3>4, <3>5, AsksMore
      <4> QED
        BY <4>1, <4>2, <4>3
    <3>7. Queue(r) /\ Single(r) /\ Agrees(v, r, teams, game) /\ Has(r, "SET_BUZZER_LOCK")
      <4>0. Queue(r1) /\ Agrees(v, r1, teams, game) /\ r = Append(r1, y)
        BY <3>4, <3>6
      <4>1. Queue(r) /\ Has(r, "SET_BUZZER_LOCK")
        <5>1. Queue(r) /\ \A type : Has(r, type) <=> Has(r1, type) \/ y.type = type
          BY <4>0, RequestsMore
        <5> QED
          BY <3>5, <5>1
      <4>2. Single(r)
        BY <3>4, <3>5, <3>6, SingleMore
      <4>3. Agrees(v, r, teams, game)
        <5>1. y.type \in {"SET_BUZZER_LOCK", "MARK_TEAM", "GRADE_ANSWER", "UPDATE_TEAMS"}
          BY <3>5
        <5>2. Agrees(v, Append(r1, y), teams, game)
          BY <4>0, <5>1, AsksMore
        <5> QED
          BY <4>0, <5>2
      <4> QED
        BY <4>1, <4>2, <4>3
    <3>8. toServer' = Append(r, p)
      <4>1. toServer' = q \o (<<x, y>> \o <<p>>)
        BY <1>1, <2>1, <2>7, <2>8, <3>4 DEF send
      <4>2. q \o (<<x, y>> \o <<p>>) = Append(Append(Append(q, x), y), p)
        BY <1>2, SendingTwo
      <4> QED
        BY <3>4, <4>1, <4>2
    <3>9. "marked" \in F /\ "activated" \in F
      BY <3>1
    <3> QED
      BY <1>6, <1>7, <2>4, <2>6, <2>7, <3>1, <3>3, <3>7, <3>8, <3>9
  <2>9. CASE ~frees
    <3>1. PICK F, A : F = {"lock", "marked", "activated"} /\ A = {}
      OBVIOUS
    <3>2. h.lock = g.lock
      <4>1. g.lock \in BOOLEAN
        BY <1>2, <1>6 DEF OnPage
      <4> QED
        BY <2>4, <2>9, <4>1
    <3>3. Near(d, c, d, F, A)
      BY <1>2, <1>6, <2>4, <2>6, <3>1, <3>2 DEF Near
    <3>4. Near(w, v, d, F, A)
      BY <1>8, <3>3
    <3>5. toServer' = Append(q, p)
      BY <1>1, <1>2, <2>1, <2>7, <2>9, RequestsMore DEF send
    <3>6. "lock" \in F /\ "marked" \in F /\ "activated" \in F
      BY <3>1
    <3> QED
      BY <1>2, <1>6, <1>7, <2>4, <2>6, <2>7, <3>1, <3>4, <3>5, <3>6
  <2> QED
    BY <2>8, <2>9
<1> QED
  BY <1>9, <1>10

\* What agrees with a game agrees with one that has the same fields.
SameFields(g, h) ==
  /\ h.question = g.question /\ h.welcome = g.welcome /\ h.lock = g.lock /\ h.marked = g.marked
  /\ h.logged = g.logged /\ h.activated = g.activated

LEMMA AgreesWithSame ==
  ASSUME NEW v, NEW q, NEW ts, NEW g, Agrees(v, q, ts, g), NEW h, SameFields(g, h)
  PROVE  Agrees(v, q, ts, h)
<1>1. QuestionAgrees(v, q, h)
  BY DEF Agrees, QuestionAgrees, SameFields
<1>2. BuzzersAgree(v, q, h)
  BY DEF Agrees, BuzzersAgree, SameFields
<1>3. AnswersAgree(v, q, h)
  BY DEF Agrees, AnswersAgree, SameFields
<1> QED
  BY <1>1, <1>2, <1>3 DEF Agrees

LEMMA GameChanges ==
  ASSUME NEW g, GameFields \subseteq DOMAIN g
  PROVE  /\ \A b : GameFields \subseteq DOMAIN WithLock(g, b)
         /\ GameFields \subseteq DOMAIN WithoutMarks(g) /\ GameFields \subseteq DOMAIN Released(g)
         /\ \A t : GameFields \subseteq DOMAIN WithMark(g, t, TRUE)
         /\ \A m : GameFields \subseteq DOMAIN WithMedia(g, m)
         /\ \A n : GameFields \subseteq DOMAIN WithQuestion(g, n)
         /\ \A s, some : GameFields \subseteq DOMAIN ApplyAnswers(g, s, some)
BY DEF WithLock, WithoutMarks, Released, WithMark, WithMedia, WithQuestion, ApplyAnswers, GameFields

LEMMA ReleasedFields ==
  ASSUME NEW g, GameFields \subseteq DOMAIN g
  PROVE  /\ SameFields(WithLock(WithoutMarks(g), FALSE), Released(g))
         /\ SameFields(WithoutMarks(WithLock(g, FALSE)), Released(g))
         /\ SameFields(WithoutMarks(WithoutMarks(g)), WithoutMarks(g))
         /\ Released(g).marked = {} /\ Released(g).lock = FALSE
<1>1. PICK h, f, k : h = Released(g) /\ f = WithoutMarks(g) /\ k = WithLock(g, FALSE)
  OBVIOUS
<1>2. /\ h.question = g.question /\ h.welcome = g.welcome /\ h.lock = FALSE /\ h.marked = {}
      /\ h.logged = g.logged /\ h.activated = g.activated
  BY <1>1 DEF Released, GameFields
<1>3. /\ f.question = g.question /\ f.welcome = g.welcome /\ f.lock = g.lock /\ f.marked = {}
      /\ f.logged = g.logged /\ f.activated = g.activated /\ GameFields \subseteq DOMAIN f
  BY <1>1 DEF WithoutMarks, GameFields
<1>4. /\ k.question = g.question /\ k.welcome = g.welcome /\ k.lock = FALSE /\ k.marked = g.marked
      /\ k.logged = g.logged /\ k.activated = g.activated /\ GameFields \subseteq DOMAIN k
  BY <1>1 DEF WithLock, GameFields
<1>5. SameFields(WithLock(f, FALSE), h)
  BY <1>2, <1>3 DEF SameFields, WithLock, GameFields
<1>6. SameFields(WithoutMarks(k), h)
  BY <1>2, <1>4 DEF SameFields, WithoutMarks, GameFields
<1>7. SameFields(WithoutMarks(f), f)
  BY <1>3 DEF SameFields, WithoutMarks, GameFields
<1> QED
  BY <1>1, <1>2, <1>5, <1>6, <1>7

LEMMA StaysOnPage ==
  ASSUME NEW v, OnPage(v), NEW p, Mild(p)
  PROVE  OnPage(onMessage(v, p))
BY FieldsAfter DEF After

\* The page hears that the buzzers are released.
LEMMA HearsRelease ==
  ASSUME NEW v, OnPage(v), NEW q, NEW ts, NEW g, GameFields \subseteq DOMAIN g, Agrees(v, q, ts, g)
  PROVE  /\ OnPage(Handled(v, ReleasePackets)) /\ Agrees(Handled(v, ReleasePackets), q, ts, Released(g))
         /\ Agrees(Handled(v, <<BuzzerLockPacket(FALSE), UnmarkAllPacket>>), q, ts, Released(g))
<1>1. PICK u, l : u = UnmarkAllPacket /\ l = BuzzerLockPacket(FALSE) /\ Mild(u) /\ Mild(l)
  BY MildPackets
<1>2. PICK x, w : x = onMessage(v, u) /\ w = onMessage(x, l)
  OBVIOUS
<1>3. PICK f : f = WithoutMarks(g) /\ GameFields \subseteq DOMAIN f
  BY GameChanges
<1>4. OnPage(x) /\ Agrees(x, q, ts, f)
  BY <1>1, <1>2, <1>3, StaysOnPage, Hears
<1>5. OnPage(w) /\ Agrees(w, q, ts, WithLock(f, FALSE))
  <2>1. OnPage(w)
    BY <1>1, <1>2, <1>4, StaysOnPage
  <2>2. Agrees(w, q, ts, WithLock(f, FALSE))
    BY <1>1, <1>2, <1>3, <1>4, Hears
  <2> QED
    BY <2>1, <2>2
<1>6. Agrees(w, q, ts, Released(g))
  BY <1>3, <1>5, ReleasedFields, AgreesWithSame
<1>7. Handled(v, ReleasePackets) = w
  <2>1. ReleasePackets = <<u, l>>
    BY <1>1 DEF ReleasePackets
  <2>2. Handled(v, <<u, l>>) = w
    BY <1>2, HandledTwo
  <2> QED
    BY <2>1, <2>2
<1>8. PICK y, z : y = onMessage(v, l) /\ z = onMessage(y, u)
  OBVIOUS
<1>9. PICK k : k = WithLock(g, FALSE) /\ GameFields \subseteq DOMAIN k
  BY GameChanges
<1>10. OnPage(y) /\ Agrees(y, q, ts, k)
  <2>1. OnPage(y)
    BY <1>1, <1>8, StaysOnPage
  <2>2. Agrees(y, q, ts, k)
    BY <1>1, <1>8, <1>9, Hears
  <2> QED
    BY <2>1, <2>2
<1>11. Agrees(z, q, ts, WithoutMarks(k))
  BY <1>1, <1>8, <1>9, <1>10, Hears
<1>12. Agrees(z, q, ts, Released(g))
  BY <1>9, <1>11, ReleasedFields, AgreesWithSame
<1>13. Handled(v, <<l, u>>) = z
  BY <1>8, HandledTwo
<1> QED
  BY <1>1, <1>5, <1>6, <1>7, <1>12, <1>13

\* The buzzers are locked for a team.
LockedOn(g, t, h) ==
  /\ h.question = g.question /\ h.welcome = g.welcome /\ h.lock = TRUE /\ h.marked = g.marked \cup {t}
  /\ h.logged = g.logged /\ h.activated = g.activated

\* The page hears that the buzzers are locked for a team.
LEMMA HearsPress ==
  ASSUME NEW v, OnPage(v), NEW q, NEW ts, NEW g, GameFields \subseteq DOMAIN g, Agrees(v, q, ts, g),
         NEW t, NEW h, LockedOn(g, t, h), NEW m
  PROVE  Agrees(Handled(v, <<MarkTeamPacket(t, TRUE), BuzzerLockPacket(TRUE), MediaStatePacket(m)>>), q, ts, h)
<1>1. PICK p1, p2, p3 : /\ p1 = MarkTeamPacket(t, TRUE) /\ p2 = BuzzerLockPacket(TRUE) /\ p3 = MediaStatePacket(m)
                        /\ Mild(p1) /\ Mild(p2)
  BY MildPackets
<1>2. PICK x, y, z : x = onMessage(v, p1) /\ y = onMessage(x, p2) /\ z = onMessage(y, p3)
  OBVIOUS
<1>3. PICK f : f = WithMark(g, t, TRUE) /\ GameFields \subseteq DOMAIN f
  BY GameChanges
<1>4. PICK k : k = WithLock(f, TRUE) /\ GameFields \subseteq DOMAIN k
  BY <1>3, GameChanges
<1>5. OnPage(x) /\ Agrees(x, q, ts, f)
  <2>1. OnPage(x)
    BY <1>1, <1>2, StaysOnPage
  <2>2. Agrees(x, q, ts, f)
    BY <1>1, <1>2, <1>3, Hears
  <2> QED
    BY <2>1, <2>2
<1>6. OnPage(y) /\ Agrees(y, q, ts, k)
  <2>1. OnPage(y)
    BY <1>1, <1>2, <1>5, StaysOnPage
  <2>2. Agrees(y, q, ts, k)
    BY <1>1, <1>2, <1>3, <1>4, <1>5, Hears
  <2> QED
    BY <2>1, <2>2
<1>7. Agrees(z, q, ts, WithMedia(k, m))
  BY <1>1, <1>2, <1>4, <1>6, Hears
<1>8. /\ f.question = g.question /\ f.welcome = g.welcome /\ f.marked = g.marked \cup {t}
      /\ f.logged = g.logged /\ f.activated = g.activated
  BY <1>3 DEF WithMark, GameFields
<1>9. /\ k.question = g.question /\ k.welcome = g.welcome /\ k.marked = g.marked \cup {t} /\ k.lock = TRUE
      /\ k.logged = g.logged /\ k.activated = g.activated
  BY <1>3, <1>4, <1>8 DEF WithLock, GameFields
<1>10. /\ h.question = g.question /\ h.welcome = g.welcome /\ h.marked = g.marked \cup {t} /\ h.lock = TRUE
       /\ h.logged = g.logged /\ h.activated = g.activated
  BY DEF LockedOn
<1>11. SameFields(WithMedia(k, m), h)
  BY <1>4, <1>9, <1>10 DEF SameFields, WithMedia, GameFields
<1>12. Agrees(z, q, ts, h)
  BY <1>7, <1>11, AgreesWithSame
<1>13. Handled(v, <<p1, p2, p3>>) = z
  BY <1>2, HandledThree
<1> QED
  BY <1>1, <1>12, <1>13

\* The server answers, and the page has not heard of it yet.
LEMMA ServerDesk ==
  ASSUME DeskInv, PaneInv', Answers, UNCHANGED <<copy, questions>>, Single(toServer'),
         game'.lock \in BOOLEAN, game'.marked \subseteq teams',
         NEW v, v = Handled(copy, toMaster), NEW a, AllMild(a), sent'[master] = a,
         Agrees(Handled(v, a), toServer', teams', game')
  PROVE  DeskInv'
<1>1. PICK c, down : c = copy /\ down = toMaster
  OBVIOUS
<1>2. toMaster' = down \o a /\ Queue(down) /\ Queue(a)
  BY <1>1, AskedQueue DEF Answers, DeskInv, PaneInv
<1>3. Handled(c, down \o a) = Handled(Handled(c, down), a)
  BY <1>2, HandledThen
<1>4. Agrees(Handled(copy', toMaster'), toServer', teams', game')
  BY <1>1, <1>2, <1>3
<1>5. OnPage(copy') /\ questions' # 0
  BY DEF DeskInv
<1> QED
  BY <1>4, <1>5 DEF DeskInv

LEMMA PressedDesk ==
  ASSUME DeskInv, PaneInv', Pressed
  PROVE  DeskInv'
<1>1. PICK v, q, g : v = Handled(copy, toMaster) /\ q = toServer /\ g = game
  OBVIOUS
<1>2. /\ Answers /\ UNCHANGED <<copy, questions, teams, toServer>> /\ Single(toServer') /\ Seated /\ Buzzers
      /\ g.marked \subseteq teams /\ g.lock \in BOOLEAN /\ GameFields \subseteq DOMAIN g
  BY <1>1, OthersKeep DEF DeskInv, PaneInv, Pressed, Keeps
<1>3. OnPage(v) /\ Agrees(v, q, teams, g)
  <2>1. OnPage(copy) /\ AllMild(toMaster) /\ Agrees(Handled(copy, toMaster), toServer, teams, game)
    BY DEF DeskInv, PaneInv
  <2>2. OnPage(Handled(copy, toMaster))
    BY <2>1, OnPageHandled
  <2> QED
    BY <1>1, <2>1, <2>2
<1>4. PICK a : a = sent'[master] /\ AllMild(a)
  BY <1>2, PressMild
<1>5. ASSUME UNCHANGED points, game'.lock \in BOOLEAN, game'.marked \subseteq teams,
             Agrees(Handled(v, a), q, teams, game')
      PROVE  DeskInv'
  BY <1>1, <1>2, <1>4, <1>5, ServerDesk
<1>6. ASSUME UNCHANGED points, game' = Released(g),
             TellAll(ReleasePackets) \/ TellAll(<<BuzzerLockPacket(FALSE), UnmarkAllPacket>>)
      PROVE  DeskInv'
  <2>1. a = ReleasePackets \/ a = <<BuzzerLockPacket(FALSE), UnmarkAllPacket>>
    BY <1>2, <1>4, <1>6, MasterHears DEF TellAll
  <2>2. Agrees(Handled(v, a), q, teams, Released(g))
    BY <1>2, <1>3, <2>1, HearsRelease
  <2>3. Released(g).lock = FALSE /\ Released(g).marked = {}
    BY <1>2, ReleasedFields
  <2> QED
    BY <1>5, <1>6, <2>2, <2>3
<1>7. ASSUME UNCHANGED points, NEW t \in teams, LockOnTeam(t) PROVE DeskInv'
  <2>1. PICK m : /\ game' = [g EXCEPT !.lock = TRUE, !.marked = @ \cup {t}, !.media = m]
                 /\ \E b : Tell(Append(<<MarkTeamPacket(t, TRUE), BuzzerLockPacket(TRUE)>>, MediaStatePacket(m)), b)
    BY <1>1, <1>7 DEF LockOnTeam
  <2>2. PICK h, b1, b2, b3 : /\ h = [g EXCEPT !.lock = TRUE, !.marked = @ \cup {t}, !.media = m]
                             /\ b1 = MarkTeamPacket(t, TRUE) /\ b2 = BuzzerLockPacket(TRUE) /\ b3 = MediaStatePacket(m)
    OBVIOUS
  <2>3. a = Append(<<b1, b2>>, b3)
    BY <1>2, <1>4, <2>1, <2>2, MasterHears
  <2>4. a = <<b1, b2, b3>>
    <3>1. <<b1, b2>> \o <<b3>> = <<b1, b2, b3>>
      BY TwoAndOne
    <3>2. Append(<<b1, b2>>, b3) = <<b1, b2>> \o <<b3>>
      BY Queues, RequestsMore
    <3> QED
      BY <2>3, <3>1, <3>2
  <2>5. LockedOn(g, t, h)
    BY <1>2, <2>2 DEF LockedOn, GameFields
  <2>6. game' = h /\ h.marked \subseteq teams /\ h.lock \in BOOLEAN
    BY <1>2, <1>7, <2>1, <2>2, <2>5 DEF LockedOn
  <2>7. Agrees(Handled(v, <<b1, b2, b3>>), q, teams, h)
    BY <1>2, <1>3, <2>2, <2>5, HearsPress
  <2>8. Agrees(Handled(v, a), q, teams, game')
    BY <2>4, <2>6, <2>7
  <2> QED
    BY <1>5, <1>7, <2>6, <2>8
<1>8. ASSUME TellNobody, UNCHANGED <<points, game>> PROVE DeskInv'
  <2>1. a = <<>>
    BY <1>2, <1>4, <1>8 DEF TellNobody, Seated, Conn
  <2>2. Handled(v, a) = v
    BY <2>1, HandledNone
  <2> QED
    BY <1>1, <1>2, <1>3, <1>5, <1>8, <2>2
<1>9. ASSUME KeypressRelease PROVE DeskInv'
  BY <1>1, <1>6, <1>9 DEF KeypressRelease
<1>10. ASSUME SerialRelease PROVE DeskInv'
  BY <1>1, <1>6, <1>10 DEF SerialRelease
<1>11. ASSUME NEW t, KeypressTeam(t) PROVE DeskInv'
  BY <1>7, <1>11 DEF KeypressTeam, TeamsWithCode
<1>12. ASSUME NEW t, SerialPress(t) PROVE DeskInv'
  BY <1>7, <1>8, <1>12 DEF SerialPress, TeamsWithCode
<1>13. ASSUME NEW pressed, UdpBuzzerPress(pressed) PROVE DeskInv'
  BY <1>7, <1>13 DEF UdpBuzzerPress
<1> QED
  BY <1>2, <1>9, <1>10, <1>11, <1>12, <1>13 DEF Buzzers

\* The page handles a packet.
LEMMA ReceiveHears ==
  ASSUME DeskInv, PageReceivesPacket
  PROVE  OnPage(copy') /\ Handled(copy', toMaster') = Handled(copy, toMaster)
<1>1. PICK c, q, p, d, r : c = copy /\ q = toMaster /\ p = Head(q) /\ d = OnShownPage(c, p) /\ r = Tail(q)
  OBVIOUS
<1>2. q # <<>> /\ copy' = d /\ toMaster' = r /\ UNCHANGED <<world, toServer>>
  BY <1>1 DEF PageReceivesPacket
<1>3. OnPage(c) /\ AllMild(q) /\ Agrees(Handled(c, q), toServer, teams, game)
  BY <1>1 DEF DeskInv, PaneInv
<1>4. Mild(p)
  BY <1>1, <1>2, <1>3, MildHead
<1>5. onMessage(c, p) = d
  BY <1>1, <1>3, <1>4 DEF onMessage, OnPage, Mild
<1>6. OnPage(d)
  BY <1>3, <1>4, <1>5, StaysOnPage
<1>7. Handled(c, q) = Handled(d, r)
  <2>1. PICK S : q \in Seq(S)
    BY <1>3 DEF AllMild
  <2>2. Handled(c, q) = Handled(onMessage(c, Head(q)), Tail(q))
    BY <1>2, <2>1, HandledHead
  <2> QED
    BY <1>1, <1>5, <2>2
<1> QED
  BY <1>1, <1>2, <1>6, <1>7

LEMMA ReceiveDesk ==
  ASSUME DeskInv, PaneInv', PageReceivesPacket
  PROVE  DeskInv'
<1>1. OnPage(copy') /\ Handled(copy', toMaster') = Handled(copy, toMaster)
  BY ReceiveHears
<1>2. UNCHANGED <<world, toServer>>
  BY DEF PageReceivesPacket
<1>3. Agrees(Handled(copy', toMaster'), toServer', teams', game')
  BY <1>1, <1>2 DEF DeskInv, world, vars, play
<1> QED
  BY <1>1, <1>2, <1>3 DEF DeskInv, world, vars, play

\* What the page shows once it heard what it will, when the server handles a request.
LEMMA DeskBefore ==
  ASSUME DeskInv, toServer # <<>>, NEW v, v = Handled(copy, toMaster), NEW q, q = toServer, NEW m, m = Head(q),
         NEW r, r = Tail(q), NEW g, g = game
  PROVE  /\ OnPage(v) /\ Queue(q) /\ Queue(r) /\ Single(r) /\ Asked(m) /\ Seated
         /\ Agrees(v, q, teams, g) /\ GameFields \subseteq DOMAIN g
         /\ g.lock \in BOOLEAN /\ g.marked \subseteq teams /\ questions # 0
         /\ m.type = "ANSWER_SET_STATE" => \E a : m.answers = {a}
<1>1. /\ OnPage(copy) /\ AllMild(toMaster) /\ Agrees(Handled(copy, toMaster), toServer, teams, game)
      /\ AllAsked(q) /\ Single(q) /\ q # <<>>
  BY DEF DeskInv, PaneInv
<1>2. OnPage(v)
  BY <1>1, OnPageHandled
<1>3. Queue(q)
  BY <1>1, AskedQueue
<1>4. Queue(r)
  BY <1>1, <1>3, RequestsTail
<1>5. Single(r) /\ (m.type = "ANSWER_SET_STATE" => \E a : m.answers = {a})
  BY <1>1, <1>3, SingleTail
<1>6. Asked(m)
  BY <1>1, AskedQueues
<1> QED
  BY <1>1, <1>2, <1>3, <1>4, <1>5, <1>6 DEF DeskInv, PaneInv

\* The page hears of a grade.
LEMMA HearsGrade ==
  ASSUME NEW v, OnPage(v), NEW q, NEW ts, NEW g, GameFields \subseteq DOMAIN g, Agrees(v, q, ts, g),
         NEW t, NEW n, NEW some, NEW result,
         NEW h, h = ApplyAnswers(g, "ACTIVATE", some),
         NEW p1, p1 = PointsPacket(t, n), NEW p2, p2 = AnswersPacket("ACTIVATE", some),
         NEW p3, p3 = GradePacket(t, result)
  PROVE  /\ Agrees(Handled(v, <<p1, p2>> \o <<>> \o <<p3>>), q, ts, h)
         /\ Agrees(Handled(v, <<p1, p2>> \o ReleasePackets \o <<p3>>), q, ts, Released(h))
<1>1. Mild(p1) /\ Mild(p2) /\ Mild(p3)
  BY MildPackets
<1>2. PICK x, y : x = onMessage(v, p1) /\ y = onMessage(x, p2)
  OBVIOUS
<1>3. OnPage(x)
  BY <1>1, <1>2, StaysOnPage
<1>4. OnPage(y)
  BY <1>1, <1>2, <1>3, StaysOnPage
<1>5. Agrees(x, q, ts, g)
  BY <1>2, HearsScore
<1>6. Agrees(y, q, ts, h)
  BY <1>2, <1>3, <1>5, Hears
<1>7. GameFields \subseteq DOMAIN h
  BY GameChanges
<1>8. Handled(v, <<p1, p2>>) = y
  BY <1>2, HandledTwo
<1>9. PICK z : z = Handled(y, ReleasePackets)
  OBVIOUS
<1>10. OnPage(z) /\ Agrees(z, q, ts, Released(h))
  BY <1>4, <1>6, <1>7, <1>9, HearsRelease
<1>11. ASSUME NEW w, OnPage(w), NEW k, GameFields \subseteq DOMAIN k, Agrees(w, q, ts, k), NEW a, Queue(a),
              Handled(v, a) = w
       PROVE  Agrees(Handled(v, a \o <<p3>>), q, ts, k)
  <2>1. Agrees(onMessage(w, p3), q, ts, k)
    BY <1>11, Hears
  <2>2. Handled(w, <<p3>>) = onMessage(w, p3)
    BY HandledOne
  <2>3. Handled(v, a \o <<p3>>) = Handled(w, <<p3>>)
    BY <1>11, Queues, HandledThen
  <2> QED
    BY <2>1, <2>2, <2>3
<1>12. PICK a : a = <<p1, p2>> /\ Queue(a)
  BY Queues
<1>13. Queue(ReleasePackets)
  BY MildRelease, AskedQueue
<1>14. Queue(a \o ReleasePackets) /\ Handled(v, a \o ReleasePackets) = z
  BY <1>8, <1>9, <1>12, <1>13, HandledThen
<1>15. Queue(a \o <<>>) /\ Handled(v, a \o <<>>) = y
  <2>1. PICK e : e = <<>> /\ Queue(e)
    BY Queues
  <2>2. Queue(a)
    BY <1>12
  <2>3. Queue(e)
    BY <2>1
  <2>4. Queue(a \o e) /\ Handled(v, a \o e) = Handled(Handled(v, a), e)
    BY <2>2, <2>3, HandledThen
  <2>5. Handled(v, a) = y
    BY <1>8, <1>12
  <2>6. Handled(y, e) = y
    BY <2>1, HandledNone
  <2> QED
    BY <2>1, <2>4, <2>5, <2>6
<1>16. GameFields \subseteq DOMAIN Released(h)
  BY <1>7, GameChanges
<1>17. Agrees(Handled(v, (a \o <<>>) \o <<p3>>), q, ts, h)
  BY <1>4, <1>6, <1>7, <1>11, <1>15
<1>18. Agrees(Handled(v, (a \o ReleasePackets) \o <<p3>>), q, ts, Released(h))
  BY <1>10, <1>11, <1>14, <1>16
<1> QED
  BY <1>12, <1>17, <1>18

\* The server handles a request, and tells the page.
LEMMA HandlesDesk ==
  ASSUME DeskInv, PaneInv', ServerHandles
  PROVE  DeskInv'
<1>1. PICK v, q, g : v = Handled(copy, toMaster) /\ q = toServer /\ g = game
  OBVIOUS
<1>2. PICK m, r, ts, ps : m = Head(q) /\ r = Tail(q) /\ ts = teams /\ ps = points
  OBVIOUS
<1>3. q # <<>> /\ Handles(m) /\ Answers /\ toServer' = r /\ UNCHANGED copy
  BY <1>1, <1>2 DEF ServerHandles
<1>4. /\ OnPage(v) /\ Queue(q) /\ Queue(r) /\ Single(r) /\ Asked(m) /\ Seated
      /\ Agrees(v, q, ts, g) /\ GameFields \subseteq DOMAIN g
      /\ g.lock \in BOOLEAN /\ g.marked \subseteq ts /\ questions # 0
      /\ m.type = "ANSWER_SET_STATE" => \E a : m.answers = {a}
  BY <1>1, <1>2, <1>3, DeskBefore
<1>5. PICK a : a = sent'[master] /\ AllMild(a)
  BY <1>3, <1>4, HandlesMild
<1>6. ASSUME UNCHANGED questions, NEW h, game' = h, h.lock \in BOOLEAN, NEW us, teams' = us, h.marked \subseteq us,
             Agrees(Handled(v, a), r, us, h)
      PROVE  DeskInv'
  BY <1>1, <1>3, <1>4, <1>5, <1>6, ServerDesk
<1>7. Released(g).lock = FALSE /\ Released(g).marked = {}
  BY <1>4, ReleasedFields
<1>8. CASE m.type = "TEAM_SET_POINTS"
  <2>1. TeamSetPoints(m.team, m.total)
    BY <1>3, <1>8 DEF Handles
  <2>2. Agrees(v, r, ts, g)
    BY <1>2, <1>3, <1>4, <1>8, ServedFirst
  <2>3. UNCHANGED <<questions, game, teams>> /\ \E b : Tell(<<>>, b)
    BY <2>1 DEF TeamSetPoints
  <2>4. a = <<>>
    BY <1>4, <1>5, <2>3, MasterHears
  <2>5. Handled(v, a) = v
    BY <2>4, HandledNone
  <2> QED
    BY <1>1, <1>2, <1>4, <1>6, <2>2, <2>3, <2>5
<1>9. CASE m.type = "MARK_TEAM"
  <2>1. UnmarkAllTeams
    BY <1>3, <1>9 DEF Handles
  <2>2. PICK f, p : f = WithoutMarks(g) /\ GameFields \subseteq DOMAIN f /\ p = UnmarkAllPacket
    BY <1>4, GameChanges
  <2>3. Agrees(v, r, ts, f)
    BY <1>2, <1>3, <1>4, <1>9, <2>2, ServedFirst
  <2>4. Agrees(onMessage(v, p), r, ts, WithoutMarks(f))
    BY <1>4, <2>2, <2>3, Hears
  <2>5. Agrees(onMessage(v, p), r, ts, f)
    BY <1>4, <2>2, <2>4, ReleasedFields, AgreesWithSame
  <2>6. game' = f /\ UNCHANGED <<questions, teams>> /\ Tell(<<p>>, <<p>>)
    BY <1>1, <2>1, <2>2 DEF UnmarkAllTeams, WithoutMarks, TellAll
  <2>7. a = <<p>>
    BY <1>4, <1>5, <2>6, MasterHears
  <2>8. Agrees(Handled(v, a), r, ts, f)
    BY <2>5, <2>7, HandledOne
  <2>9. f.lock = g.lock /\ f.marked = {}
    BY <1>4, <2>2 DEF WithoutMarks, GameFields
  <2> QED
    BY <1>2, <1>4, <1>6, <2>6, <2>8, <2>9
<1>10. CASE m.type = "ANSWER_SET_STATE"
  <2>1. PICK o, s : m.answers = {o} /\ s = m.answerState
    BY <1>4, <1>10
  <2>2. AnswerSetState(s, o)
    BY <1>3, <1>10, <2>1 DEF Handles
  <2>3. PICK h : h = ApplyAnswers(g, s, {o}) /\ GameFields \subseteq DOMAIN h
    BY <1>4, GameChanges
  <2>4. Agrees(v, r, ts, h)
    BY <1>2, <1>3, <1>4, <1>10, <2>1, <2>3, ServedFirst
  <2>5. h.lock = g.lock /\ h.marked = g.marked
    BY <1>4, <2>3 DEF ApplyAnswers, GameFields
  <2>6. /\ UNCHANGED <<questions, teams>>
        /\ \/ game' = Released(h) /\ \E b : Tell(ReleasePackets, b)
           \/ game' = h /\ \E b : Tell(<<>>, b)
    BY <1>1, <2>2, <2>3 DEF AnswerSetState
  <2>7. CASE game' = Released(h) /\ \E b : Tell(ReleasePackets, b)
    <3>1. a = ReleasePackets
      BY <1>4, <1>5, <2>7, MasterHears
    <3>2. Agrees(Handled(v, a), r, ts, Released(h))
      BY <1>4, <2>3, <2>4, <3>1, HearsRelease
    <3>3. Released(h).lock = FALSE /\ Released(h).marked = {}
      BY <2>3, ReleasedFields
    <3> QED
      BY <1>2, <1>6, <2>6, <2>7, <3>2, <3>3
  <2>8. CASE game' = h /\ \E b : Tell(<<>>, b)
    <3>1. a = <<>>
      BY <1>4, <1>5, <2>8, MasterHears
    <3>2. Handled(v, a) = v
      BY <3>1, HandledNone
    <3> QED
      BY <1>2, <1>4, <1>6, <2>4, <2>5, <2>6, <2>8, <3>2
  <2> QED
    BY <2>6, <2>7, <2>8
<1>11. CASE m.type = "SET_QUESTION"
  <2>1. PICK n, i : n = m.set /\ i = InitialMedia[n] /\ SetQuestion(n)
    BY <1>3, <1>11 DEF Handles
  <2>2. PICK k, l : k = WithQuestion(g, n) /\ l = WithLock(k, FALSE) /\ GameFields \subseteq DOMAIN k /\ GameFields \subseteq DOMAIN l
    BY <1>4, GameChanges
  <2>3. PICK p1, p2 : p1 = BuzzerLockPacket(FALSE) /\ p2 = MediaStatePacket(i) /\ Mild(p1)
    BY MildPackets
  <2>4. PICK x, y : x = onMessage(v, p1) /\ y = onMessage(x, p2)
    OBVIOUS
  <2>5. Agrees(v, r, ts, k)
    BY <1>2, <1>3, <1>4, <1>11, <2>1, <2>2, ServedFirst
  <2>6. OnPage(x)
    BY <1>4, <2>3, <2>4, StaysOnPage
  <2>7. Agrees(x, r, ts, l)
    BY <1>4, <2>2, <2>3, <2>4, <2>5, Hears
  <2>8. Agrees(y, r, ts, WithMedia(l, i))
    BY <2>2, <2>3, <2>4, <2>6, <2>7, Hears
  <2>9. /\ UNCHANGED <<questions, teams>> /\ \E b : Tell(<<p1, p2>>, b)
        /\ \E w : /\ w = [g EXCEPT !.welcome = FALSE, !.lock = FALSE, !.question = n,
                                    !.marked = {}, !.logged = {}, !.activated = {}]
                  /\ game' = [w EXCEPT !.media = i]
    BY <1>1, <1>4, <2>1, <2>3 DEF SetQuestion
  <2>10. PICK w, h : /\ w = [g EXCEPT !.welcome = FALSE, !.lock = FALSE, !.question = n,
                                      !.marked = {}, !.logged = {}, !.activated = {}]
                     /\ h = [w EXCEPT !.media = i] /\ game' = h
    BY <2>9
  <2>11. /\ w.question = n /\ w.welcome = FALSE /\ w.lock = FALSE
         /\ w.marked = {} /\ w.logged = {} /\ w.activated = {}
    BY <1>4, <2>10 DEF GameFields
  <2>12. /\ h.question = n /\ h.welcome = FALSE /\ h.lock = FALSE
         /\ h.marked = {} /\ h.logged = {} /\ h.activated = {}
    BY <2>10, <2>11
  <2>13. /\ k.question = n /\ k.welcome = FALSE /\ k.marked = {} /\ k.logged = {} /\ k.activated = {}
    BY <1>4, <2>2 DEF WithQuestion, GameFields
  <2>14. /\ l.question = n /\ l.welcome = FALSE /\ l.lock = FALSE
         /\ l.marked = {} /\ l.logged = {} /\ l.activated = {}
    BY <2>2, <2>13 DEF WithLock, GameFields
  <2>15. SameFields(WithMedia(l, i), h)
    BY <2>2, <2>12, <2>14 DEF SameFields, WithMedia, GameFields
  <2>16. Agrees(y, r, ts, h)
    BY <2>8, <2>15, AgreesWithSame
  <2>17. a = <<p1, p2>>
    BY <1>4, <1>5, <2>9, MasterHears
  <2>18. Handled(v, a) = y
    BY <2>4, <2>17, HandledTwo
  <2> QED
    BY <1>2, <1>6, <2>9, <2>10, <2>12, <2>16, <2>18
<1>12. CASE m.type = "SET_BUZZER_LOCK"
  <2>1. SetBuzzerLock(FALSE)
    BY <1>3, <1>4, <1>12 DEF Handles, Asked
  <2>2. PICK f, u, l : /\ f = WithoutMarks(g) /\ GameFields \subseteq DOMAIN f /\ u = UnmarkAllPacket
                       /\ l = BuzzerLockPacket(FALSE) /\ Mild(u)
    BY <1>4, GameChanges, MildPackets
  <2>3. PICK x, y : x = onMessage(v, u) /\ y = onMessage(x, l)
    OBVIOUS
  <2>4. OnPage(x)
    BY <1>4, <2>2, <2>3, StaysOnPage
  <2>5. Agrees(x, q, ts, f)
    BY <1>4, <2>2, <2>3, Hears
  <2>6. Agrees(y, r, ts, WithLock(f, FALSE))
    BY <1>2, <1>3, <1>4, <1>12, <2>2, <2>3, <2>4, <2>5, ServedFirst
  <2>7. Agrees(y, r, ts, Released(g))
    BY <1>4, <2>2, <2>6, ReleasedFields, AgreesWithSame
  <2>8. game' = Released(g) /\ UNCHANGED <<questions, teams>> /\ \E b : Tell(<<u, l>>, b)
    BY <1>1, <2>1, <2>2 DEF SetBuzzerLock, TellAll, ReleasePackets
  <2>9. a = <<u, l>>
    BY <1>4, <1>5, <2>8, MasterHears
  <2>10. Handled(v, a) = y
    BY <2>3, <2>9, HandledTwo
  <2> QED
    BY <1>2, <1>6, <1>7, <2>7, <2>8, <2>10
<1>13. ASSUME Agrees(v, r, ts, g), m.type = "UPDATE_TEAMS" PROVE DeskInv'
  <2>1. PICK us : us = m.teams /\ UpdateTeams(us)
    BY <1>3, <1>13 DEF Handles
  <2>2. CASE ~TeamsOk(us)
    <3>1. UNCHANGED <<questions, teams, game>> /\ \E b : Tell(<<TeamsPacket(ts, ps)>>, b)
      BY <1>2, <2>1, <2>2 DEF UpdateTeams
    <3>2. a = <<TeamsPacket(ts, ps)>>
      BY <1>4, <1>5, <3>1, MasterHears
    <3>3. Handled(v, a) = onMessage(v, TeamsPacket(ts, ps))
      BY <3>2, HandledOne
    <3>4. Agrees(onMessage(v, TeamsPacket(ts, ps)), r, ts, g)
      BY <1>4, <1>13, HearsScore
    <3> QED
      BY <1>1, <1>2, <1>4, <1>6, <3>1, <3>3, <3>4
  <2>3. CASE TeamsOk(us) /\ g.marked \subseteq us
    <3>1. PICK ns : ns = PointsOf(us)
      OBVIOUS
    <3>2. PICK p : p = TeamsPacket(us, ns)
      OBVIOUS
    <3>3. UNCHANGED <<questions, game>> /\ points' = ns /\ teams' = us /\ TellAll(<<>> \o <<p>>)
      BY <1>1, <2>1, <2>3, <3>1, <3>2 DEF UpdateTeams
    <3>4. a = <<>> \o <<p>>
      BY <1>4, <1>5, <3>3, MasterHears DEF TellAll
    <3>5. a = <<p>>
      BY <3>4
    <3>6. Handled(v, a) = onMessage(v, p)
      BY <3>5, HandledOne
    <3>7. Agrees(onMessage(v, p), r, us, g)
      BY <1>4, <1>13, <2>3, <3>2, HearsScore
    <3> QED
      BY <1>1, <1>4, <1>6, <2>3, <3>3, <3>6, <3>7
  <2>4. CASE TeamsOk(us) /\ ~(g.marked \subseteq us)
    <3>1. PICK ns : ns = PointsOf(us)
      OBVIOUS
    <3>2. PICK p, h : p = TeamsPacket(us, ns) /\ h = Released(g) /\ h.lock = FALSE /\ h.marked = {}
      BY <1>7
    <3>3. UNCHANGED questions /\ game' = h /\ points' = ns /\ teams' = us /\ TellAll(ReleasePackets \o <<p>>)
      BY <1>1, <2>1, <2>4, <3>1, <3>2 DEF UpdateTeams
    <3>4. a = ReleasePackets \o <<p>>
      BY <1>4, <1>5, <3>3, MasterHears DEF TellAll
    <3>5. PICK w : w = Handled(v, ReleasePackets) /\ OnPage(w) /\ Agrees(w, r, ts, h)
      BY <1>4, <1>13, <3>2, HearsRelease
    <3>6. Agrees(onMessage(w, p), r, us, h)
      BY <1>4, <1>13, <3>2, <3>5, HearsScore
    <3>7. Handled(v, a) = Handled(w, <<p>>)
      <4>1. Queue(ReleasePackets) /\ Queue(<<p>>)
        BY MildRelease, AskedQueue, Queues
      <4> QED
        BY <3>4, <3>5, <4>1, HandledThen
    <3>8. Handled(v, a) = onMessage(w, p)
      BY <3>7, HandledOne
    <3> QED
      BY <1>6, <3>2, <3>3, <3>6, <3>8
  <2> QED
    BY <2>2, <2>3, <2>4
<1>14. ASSUME Agrees(v, r, ts, g), m.type = "GRADE_ANSWER" PROVE DeskInv'
  <2>1. CASE m.team \notin ts
    <3>1. UNCHANGED <<questions, game, teams>> /\ TellNobody
      BY <1>2, <1>3, <1>14, <2>1 DEF Handles, IgnorePacket, play
    <3>2. a = <<>>
      BY <1>4, <1>5, <3>1 DEF TellNobody, Seated, Conn
    <3>3. Handled(v, a) = v
      BY <3>2, HandledNone
    <3> QED
      BY <1>1, <1>2, <1>4, <1>6, <1>14, <3>1, <3>3
  <2>2. CASE m.team \in ts
    <3>1. PICK t, result : t = m.team /\ result = m.result /\ t \in ts /\ GradeAnswer(t, result, m.answer, TRUE)
      <4>1. GradeAnswer(m.team, m.result, m.answer, TRUE)
        BY <1>2, <1>3, <1>14, <2>2 DEF Handles
      <4> QED
        BY <2>2, <4>1
    <3>2. PICK n, some :
            /\ points' = [ps EXCEPT ![t] = n] /\ UNCHANGED <<questions, teams>>
            /\ \/ /\ game' = Released(ApplyAnswers(g, "ACTIVATE", some))
                  /\ TellAll(<<PointsPacket(t, n), AnswersPacket("ACTIVATE", some)>> \o ReleasePackets \o <<GradePacket(t, result)>>)
               \/ /\ game' = ApplyAnswers(g, "ACTIVATE", some)
                  /\ TellAll(<<PointsPacket(t, n), AnswersPacket("ACTIVATE", some)>> \o <<>> \o <<GradePacket(t, result)>>)
      <4>1. PICK n, some :
              /\ points' = [points EXCEPT ![t] = n] /\ UNCHANGED <<questions, teams>>
              /\ IF result = "WRONG" THEN game' = Released(ApplyAnswers(game, "ACTIVATE", some))
                                     ELSE game' = ApplyAnswers(game, "ACTIVATE", some)
              /\ TellAll(<<PointsPacket(t, n), AnswersPacket("ACTIVATE", some)>>
                         \o (IF result = "WRONG" THEN ReleasePackets ELSE <<>>) \o <<GradePacket(t, result)>>)
        BY <3>1 DEF GradeAnswer
      <4>2. CASE result = "WRONG"
        BY <1>1, <1>2, <4>1, <4>2
      <4>3. CASE result # "WRONG"
        BY <1>1, <1>2, <4>1, <4>3
      <4> QED
        BY <4>2, <4>3
    <3>3. PICK ns, h : /\ ns = [ps EXCEPT ![t] = n] /\ h = ApplyAnswers(g, "ACTIVATE", some)
                       /\ GameFields \subseteq DOMAIN h
      BY <1>4, GameChanges
    <3>4. PICK p1, p2, p3 : /\ p1 = PointsPacket(t, n) /\ p2 = AnswersPacket("ACTIVATE", some)
                            /\ p3 = GradePacket(t, result)
      OBVIOUS
    <3>5. /\ OnPage(v) /\ Queue(r) /\ t \in ts
          /\ GameFields \subseteq DOMAIN g /\ Agrees(v, r, ts, g)
      BY <1>4, <1>14, <3>1
    <3>6. /\ Agrees(Handled(v, <<p1, p2>> \o <<>> \o <<p3>>), r, ts, h)
          /\ Agrees(Handled(v, <<p1, p2>> \o ReleasePackets \o <<p3>>), r, ts, Released(h))
      BY <3>3, <3>4, <3>5, HearsGrade
    <3>7. Released(h).lock = FALSE /\ Released(h).marked = {}
      BY <3>3, ReleasedFields
    <3>8. h.lock = g.lock /\ h.marked = g.marked
      BY <1>4, <3>3 DEF ApplyAnswers, GameFields
    <3>9. CASE game' = Released(h) /\ TellAll(<<p1, p2>> \o ReleasePackets \o <<p3>>)
      <4>1. a = <<p1, p2>> \o ReleasePackets \o <<p3>>
        BY <1>4, <1>5, <3>9, MasterHears DEF TellAll
      <4> QED
        BY <1>2, <1>6, <3>2, <3>3, <3>6, <3>7, <3>9, <4>1
    <3>10. CASE game' = h /\ TellAll(<<p1, p2>> \o <<>> \o <<p3>>)
      <4>1. a = <<p1, p2>> \o <<>> \o <<p3>>
        BY <1>4, <1>5, <3>10, MasterHears DEF TellAll
      <4> QED
        BY <1>2, <1>4, <1>6, <3>2, <3>3, <3>6, <3>8, <3>10, <4>1
    <3> QED
      BY <3>2, <3>3, <3>4, <3>9, <3>10
  <2> QED
    BY <2>1, <2>2
<1>15. m.type \in {"GRADE_ANSWER", "UPDATE_TEAMS"} => Agrees(v, r, ts, g)
  BY <1>2, <1>3, <1>4, ServedFirst
<1> QED
  BY <1>4, <1>8, <1>9, <1>10, <1>11, <1>12, <1>13, <1>14, <1>15 DEF Asked

\* What the user does.
LEMMA UserDoesDesk ==
  ASSUME DeskInv, PaneInv', UserDoes
  PROVE  DeskInv'
<1>1. ASSUME Uses("page") \/ Uses("sheet") \/ Uses("dialog") \/ Uses("confirm") \/ Uses("asks"), UNCHANGED copy,
             \/ UNCHANGED toServer
             \/ \E p : send(<<p>>) /\ p.type \in {"SET_BUZZER_LOCK", "GRADE_ANSWER", "UPDATE_TEAMS"}
      PROVE  DeskInv'
  BY <1>1, UserKeepsCopy DEF Uses
<1>2. \A b : BuzzerLockPacket(b).type \in {"SET_BUZZER_LOCK", "GRADE_ANSWER", "UPDATE_TEAMS"}
  BY DEF BuzzerLockPacket
<1>3. \A ts, ps : TeamsPacket(ts, ps).type \in {"SET_BUZZER_LOCK", "GRADE_ANSWER", "UPDATE_TEAMS"}
  BY DEF TeamsPacket
<1>4. \A t, result, a : GradeRequest(t, result, a).type \in {"SET_BUZZER_LOCK", "GRADE_ANSWER", "UPDATE_TEAMS"}
  BY DEF GradeRequest
<1>5. ASSUME NEW a, onClickAnswer(a) PROVE DeskInv'
  BY <1>1, <1>5 DEF onClickAnswer
<1>6. ASSUME LeavesAnswer PROVE DeskInv'
  BY <1>1, <1>6 DEF LeavesAnswer
<1>7. ASSUME NEW result, NEW a, gradeAnswer(result, a) PROVE DeskInv'
  BY <1>1, <1>4, <1>7 DEF gradeAnswer
<1>8. ASSUME PutsOffGrading PROVE DeskInv'
  BY <1>1, <1>8 DEF PutsOffGrading
<1>9. ASSUME releaseWithoutGrade PROVE DeskInv'
  BY <1>1, <1>9 DEF releaseWithoutGrade
<1>10. ASSUME reopenGradeDialog PROVE DeskInv'
  BY <1>1, <1>10 DEF reopenGradeDialog
<1>11. ASSUME release PROVE DeskInv'
  BY <1>1, <1>2, <1>11 DEF release, releaseBuzzerLock
<1>12. ASSUME NEW confirmed, ConfirmsWithoutGrade(confirmed) PROVE DeskInv'
  BY <1>1, <1>2, <1>12 DEF ConfirmsWithoutGrade, releaseBuzzerLock
<1>13. ASSUME NEW confirmed, ConfirmsRelease(confirmed) PROVE DeskInv'
  BY <1>1, <1>2, <1>13 DEF ConfirmsRelease, releaseBuzzerLock
<1>14. ASSUME NEW ts, updateTeams(ts) PROVE DeskInv'
  BY <1>1, <1>3, <1>14 DEF updateTeams
<1>15. ASSUME NEW n, Uses("page"), GoesTo(n) PROVE DeskInv'
  BY <1>15, GoesDesk DEF Uses, GoesTo
<1>16. ASSUME beginGame PROVE DeskInv'
  BY <1>16, GoesDesk DEF Uses, beginGame
<1>17. ASSUME getNextQuestion PROVE DeskInv'
  BY <1>15, <1>17 DEF getNextQuestion
<1>18. ASSUME getPreviousQuestion PROVE DeskInv'
  BY <1>15, <1>18 DEF getPreviousQuestion
<1> QED
  BY <1>5, <1>6, <1>7, <1>8, <1>9, <1>10, <1>11, <1>12, <1>13, <1>14, <1>16, <1>17, <1>18, AddPointsDesk, SheetDesk
     DEF UserDoes, UserSetsNoPoints

\* A page that was just loaded shows the server's game.
LEMMA LoadedDesk ==
  ASSUME PaneInv, questions # 0, game.marked \subseteq teams, game.lock \in BOOLEAN,
         copy = Served, toServer = <<>>, toMaster = <<>>
  PROVE  DeskInv
<1>1. PICK v : v = copy
  OBVIOUS
<1>2. /\ v = [status |-> "shown", teams |-> teams, points |-> points, game |-> game]
      /\ GameFields \subseteq DOMAIN game
  BY <1>1 DEF Served, setGameData, PaneInv
<1>3. OnPage(v)
  <2>1. v.status = "shown" /\ v.game = game
    BY <1>2
  <2>2. IsPage(v)
    BY <1>2 DEF IsPage, Page
  <2> QED
    BY <1>2, <2>1, <2>2 DEF OnPage
<1>4. Handled(copy, toMaster) = v
  BY <1>1, HandledNone
<1>5. v.teams = teams /\ v.points = points /\ v.game = game
  BY <1>2
<1>6. Len(<<>>) = 0
  OBVIOUS
<1>7. Agrees(v, <<>>, teams, game)
  BY <1>5, <1>6 DEF Agrees, QuestionAgrees, BuzzersAgree, AnswersAgree, Has, Revealed, Dropped
<1>8. Single(<<>>)
  BY <1>6 DEF Single
<1> QED
  BY <1>1, <1>3, <1>4, <1>7, <1>8 DEF DeskInv

LEMMA DeskInvStep ==
  ASSUME DeskInv, [PlayNext]_table
  PROVE  DeskInv'
<1>1. PaneInv /\ PaneInv'
  BY PaneInvStep DEF DeskInv
<1>2. CASE UserDoes
  BY <1>1, <1>2, UserDoesDesk
<1>3. CASE PageReceivesPacket
  BY <1>1, <1>3, ReceiveDesk
<1>4. CASE ServerHandles
  BY <1>1, <1>4, HandlesDesk
<1>5. CASE Pressed
  BY <1>1, <1>5, PressedDesk
<1>6. CASE PageIsLoaded
  <2>1. /\ questions' # 0 /\ game'.marked \subseteq teams' /\ game'.lock \in BOOLEAN
        /\ copy' = Served' /\ toServer' = <<>> /\ toMaster' = <<>>
    BY <1>6 DEF PageIsLoaded, DeskInv, world, vars, play, Served, setGameData
  <2>2. (PaneInv /\ questions # 0 /\ game.marked \subseteq teams /\ game.lock \in BOOLEAN
         /\ copy = Served /\ toServer = <<>> /\ toMaster = <<>> => DeskInv)'
    BY LoadedDesk, PTL
  <2> QED
    BY <1>1, <2>1, <2>2
<1>7. CASE UNCHANGED table
  BY <1>1, <1>7 DEF table, desk, world, vars, play, DeskInv
<1> QED
  BY <1>2, <1>3, <1>4, <1>5, <1>6, <1>7 DEF PlayNext

LEMMA DeskInvInit == PlayInit => DeskInv
<1> SUFFICES ASSUME PlayInit PROVE DeskInv
  OBVIOUS
<1>1. game.lock \in BOOLEAN /\ game.marked = {}
  BY DEF PlayInit, InitialGame
<1>2. questions # 0
  BY DataAssumption DEF PlayInit
<1> QED
  BY <1>1, <1>2, PaneInvInit, LoadedDesk DEF PlayInit

----------------------------------------------------------------------------
(* The points that a page shows, and the server's, with the requests for points on their way.    *)

SetsPoints(p, t) == p.type = "TEAM_SET_POINTS" /\ p.team = t
\* a packet that may set a team's points
Scores(p, t) == p.type = "UPDATE_TEAMS" \/ SetsPoints(p, t)

Scored(q, t) == \E i \in 1 .. Len(q) : SetsPoints(q[i], t)
LastScore(q, t, n) ==
  \E i \in 1 .. Len(q) : /\ SetsPoints(q[i], t) /\ q[i].total = n
                         /\ \A j \in 1 .. Len(q) : j > i => ~SetsPoints(q[j], t)

\* Packets that set no points.
Scoreless(q) == \E S : q \in Seq(S) /\ \A p \in S : p.type \notin {"UPDATE_TEAMS", "TEAM_SET_POINTS"}

\* A team's points agree, or the last that were asked for are those that the page shows.
ScoreAgrees(v, q, ts, ps, t) ==
  \/ ~Scored(q, t) /\ v.points[t] = ps[t]
  \/ t \in ts /\ LastScore(q, t, v.points[t])

ScoreInv ==
  /\ DeskInv
  /\ Team \subseteq DOMAIN points /\ Team \subseteq DOMAIN Handled(copy, toMaster).points
  /\ \A t \in Team \ crossed : ScoreAgrees(Handled(copy, toMaster), toServer, teams, points, t)

LEMMA ScorelessQueues ==
  /\ Scoreless(<<>>)
  /\ \A p : p.type \notin {"UPDATE_TEAMS", "TEAM_SET_POINTS"} => Scoreless(<<p>>)
  /\ \A q, r : Scoreless(q) /\ Scoreless(r) => Scoreless(q \o r)
<1>1. Scoreless(<<>>)
  <2>1. PICK S : S = {}
    OBVIOUS
  <2>2. <<>> \in Seq(S) /\ \A x \in S : x.type \notin {"UPDATE_TEAMS", "TEAM_SET_POINTS"}
    BY <2>1
  <2> QED
    BY <2>2 DEF Scoreless
<1>2. ASSUME NEW p, p.type \notin {"UPDATE_TEAMS", "TEAM_SET_POINTS"} PROVE Scoreless(<<p>>)
  <2>1. PICK S : S = {p}
    OBVIOUS
  <2>2. <<p>> \in Seq(S) /\ \A x \in S : x.type \notin {"UPDATE_TEAMS", "TEAM_SET_POINTS"}
    BY <1>2, <2>1
  <2> QED
    BY <2>2 DEF Scoreless
<1>3. ASSUME NEW q, NEW r, Scoreless(q), Scoreless(r) PROVE Scoreless(q \o r)
  <2>1. PICK S : q \in Seq(S) /\ \A p \in S : p.type \notin {"UPDATE_TEAMS", "TEAM_SET_POINTS"}
    BY <1>3 DEF Scoreless
  <2>2. PICK T : r \in Seq(T) /\ \A p \in T : p.type \notin {"UPDATE_TEAMS", "TEAM_SET_POINTS"}
    BY <1>3 DEF Scoreless
  <2>3. PICK U : U = S \cup T
    OBVIOUS
  <2>4. q \in Seq(U) /\ r \in Seq(U) /\ \A p \in U : p.type \notin {"UPDATE_TEAMS", "TEAM_SET_POINTS"}
    BY <2>1, <2>2, <2>3
  <2>5. q \o r \in Seq(U)
    BY <2>4
  <2> QED
    BY <2>4, <2>5 DEF Scoreless
<1> QED
  BY <1>1, <1>2, <1>3

LEMMA ScorelessTwo ==
  ASSUME NEW p, NEW q, p.type \notin {"UPDATE_TEAMS", "TEAM_SET_POINTS"}, q.type \notin {"UPDATE_TEAMS", "TEAM_SET_POINTS"}
  PROVE  Scoreless(<<p, q>>)
<1>1. PICK S : S = {p, q}
  OBVIOUS
<1>2. <<p, q>> \in Seq(S) /\ \A x \in S : x.type \notin {"UPDATE_TEAMS", "TEAM_SET_POINTS"}
  BY <1>1
<1> QED
  BY <1>2 DEF Scoreless

LEMMA ScorelessPackets ==
  /\ \A b : BuzzerLockPacket(b).type \notin {"UPDATE_TEAMS", "TEAM_SET_POINTS"}
  /\ \A m : MediaStatePacket(m).type \notin {"UPDATE_TEAMS", "TEAM_SET_POINTS"}
  /\ \A t, b : MarkTeamPacket(t, b).type \notin {"UPDATE_TEAMS", "TEAM_SET_POINTS"}
  /\ \A t, r : GradePacket(t, r).type \notin {"UPDATE_TEAMS", "TEAM_SET_POINTS"}
  /\ \A t, r, a : GradeRequest(t, r, a).type \notin {"UPDATE_TEAMS", "TEAM_SET_POINTS"}
  /\ \A s, some : AnswersPacket(s, some).type \notin {"UPDATE_TEAMS", "TEAM_SET_POINTS"}
  /\ \A n : SetQuestionPacket(n).type \notin {"UPDATE_TEAMS", "TEAM_SET_POINTS"}
  /\ UnmarkAllPacket.type \notin {"UPDATE_TEAMS", "TEAM_SET_POINTS"}
  /\ Scoreless(ReleasePackets)
<1>1. /\ UnmarkAllPacket.type \notin {"UPDATE_TEAMS", "TEAM_SET_POINTS"}
      /\ \A b : BuzzerLockPacket(b).type \notin {"UPDATE_TEAMS", "TEAM_SET_POINTS"}
  BY DEF UnmarkAllPacket, BuzzerLockPacket
<1>2. Scoreless(ReleasePackets)
  BY <1>1, ScorelessTwo DEF ReleasePackets
<1> QED
  BY <1>1, <1>2 DEF MediaStatePacket, MarkTeamPacket, GradePacket, GradeRequest, AnswersPacket, SetQuestionPacket

\* The teams whose points are in some packets, or are not.
LEMMA ScoresAre ==
  ASSUME NEW q, Queue(q), NEW t \in Team
  PROVE  /\ t \in PointsIn(q) <=> Scored(q, t)
         /\ t \in ScoresIn(q) => \E i \in 1 .. Len(q) : Scores(q[i], t)
         /\ (\E i \in 1 .. Len(q) : Scores(q[i], t)) => t \in ScoresIn(q)
<1>1. PICK S : q \in Seq(S)
  BY DEF Queue
<1>2. PICK D : D = 1 .. Len(q) /\ D = DOMAIN q
  BY <1>1
<1>3. t \in PointsIn(q) <=> Scored(q, t)
  BY <1>2 DEF PointsIn, Scored, SetsPoints
<1>4. t \in ScoresIn(q) <=> (\E i \in D : q[i].type = "UPDATE_TEAMS") \/ t \in PointsIn(q)
  BY <1>2 DEF ScoresIn, PointsIn
<1> QED
  BY <1>2, <1>3, <1>4 DEF Scored, Scores

LEMMA NoScores ==
  ASSUME NEW q, Scoreless(q)
  PROVE  Queue(q) /\ \A t : ~(\E i \in 1 .. Len(q) : Scores(q[i], t))
<1>1. PICK S : q \in Seq(S) /\ \A p \in S : p.type \notin {"UPDATE_TEAMS", "TEAM_SET_POINTS"}
  BY DEF Scoreless
<1>2. \A i \in 1 .. Len(q) : q[i] \in S
  BY <1>1
<1> QED
  BY <1>1, <1>2 DEF Queue, Scores, SetsPoints

LEMMA ScoresTail ==
  ASSUME NEW q, Queue(q), q # <<>>, NEW m, m = Head(q), NEW r, r = Tail(q), NEW t
  PROVE  /\ Scored(q, t) <=> Scored(r, t) \/ SetsPoints(m, t)
         /\ \A n : LastScore(q, t, n) <=> LastScore(r, t, n) \/ (SetsPoints(m, t) /\ m.total = n /\ ~Scored(r, t))
<1>1. PICK S : q \in Seq(S)
  BY DEF Queue
<1>2. r \in Seq(S) /\ m \in S
  BY <1>1
<1>3. /\ \A i \in 1 .. Len(q) : q[i] \in S
      /\ \A i \in 1 .. Len(r) : r[i] \in S
  BY <1>1, <1>2
<1>4. PICK B : B = {p \in S : SetsPoints(p, t)}
  OBVIOUS
<1>5. (Scored(q, t) <=> LastIn(q, B, {})) /\ (Scored(r, t) <=> LastIn(r, B, {}))
  BY <1>3, <1>4 DEF Scored, LastIn
<1>6. ~LastIn(r, {}, {})
  BY DEF LastIn
<1>7. \A A, C : LastIn(q, A, C) <=> LastIn(r, A, C) \/ (m \in A /\ ~LastIn(r, C, {}))
  BY <1>1, LastInTail
<1>8. Scored(q, t) <=> Scored(r, t) \/ SetsPoints(m, t)
  BY <1>2, <1>4, <1>5, <1>6, <1>7
<1>9. ASSUME NEW n PROVE LastScore(q, t, n) <=> LastScore(r, t, n) \/ (SetsPoints(m, t) /\ m.total = n /\ ~Scored(r, t))
  <2>1. PICK A : A = {p \in S : SetsPoints(p, t) /\ p.total = n}
    OBVIOUS
  <2>2. (LastScore(q, t, n) <=> LastIn(q, A, B)) /\ (LastScore(r, t, n) <=> LastIn(r, A, B))
    BY <1>3, <1>4, <2>1 DEF LastScore, LastIn
  <2> QED
    BY <1>2, <1>5, <1>7, <2>1, <2>2
<1> QED
  BY <1>8, <1>9

LEMMA ScoresMore ==
  ASSUME NEW q, Queue(q), NEW p, NEW r, r = Append(q, p), NEW t
  PROVE  /\ Scored(r, t) <=> Scored(q, t) \/ SetsPoints(p, t)
         /\ \A n : LastScore(r, t, n) <=> (LastScore(q, t, n) /\ ~SetsPoints(p, t)) \/ (SetsPoints(p, t) /\ p.total = n)
<1>1. PICK S : q \in Seq(S) /\ p \in S
  <2>1. PICK T : q \in Seq(T)
    BY DEF Queue
  <2>2. PICK S : S = T \cup {p}
    OBVIOUS
  <2>3. q \in Seq(S) /\ p \in S
    BY <2>1, <2>2
  <2> QED
    BY <2>3
<1>2. r \in Seq(S)
  BY <1>1
<1>3. /\ \A i \in 1 .. Len(q) : q[i] \in S
      /\ \A i \in 1 .. Len(r) : r[i] \in S
  BY <1>1, <1>2
<1>4. PICK B : B = {x \in S : SetsPoints(x, t)}
  OBVIOUS
<1>5. (Scored(q, t) <=> LastIn(q, B, {})) /\ (Scored(r, t) <=> LastIn(r, B, {}))
  BY <1>3, <1>4 DEF Scored, LastIn
<1>6. \A A, C : LastIn(r, A, C) <=> (LastIn(q, A, C) /\ p \notin C) \/ p \in A
  BY <1>1, LastInMore
<1>7. Scored(r, t) <=> Scored(q, t) \/ SetsPoints(p, t)
  BY <1>1, <1>4, <1>5, <1>6
<1>8. ASSUME NEW n
      PROVE  LastScore(r, t, n) <=> (LastScore(q, t, n) /\ ~SetsPoints(p, t)) \/ (SetsPoints(p, t) /\ p.total = n)
  <2>1. PICK A : A = {x \in S : SetsPoints(x, t) /\ x.total = n}
    OBVIOUS
  <2>2. (LastScore(q, t, n) <=> LastIn(q, A, B)) /\ (LastScore(r, t, n) <=> LastIn(r, A, B))
    BY <1>3, <1>4, <2>1 DEF LastScore, LastIn
  <2> QED
    BY <1>1, <1>4, <1>6, <2>1, <2>2
<1> QED
  BY <1>7, <1>8

\* Requests for something else change nothing of the points that are asked for.
LEMMA ScoresBeside ==
  ASSUME NEW q, Queue(q), NEW x, Queue(x), ~Has(x, "TEAM_SET_POINTS"), NEW r, r = q \o x, NEW t
  PROVE  /\ Scored(r, t) <=> Scored(q, t)
         /\ \A n : LastScore(q, t, n) => LastScore(r, t, n)
<1>1. PICK S : q \in Seq(S)
  BY DEF Queue
<1>2. PICK T : x \in Seq(T)
  BY DEF Queue
<1>3. PICK U : U = S \cup T
  OBVIOUS
<1>4. q \in Seq(U) /\ x \in Seq(U)
  BY <1>1, <1>2, <1>3
<1>5. /\ Len(r) = Len(q) + Len(x) /\ Len(q) \in Nat /\ Len(x) \in Nat
      /\ \A i \in 1 .. Len(q) + Len(x) : r[i] = IF i <= Len(q) THEN q[i] ELSE x[i - Len(q)]
  BY <1>4, ConcatProperties
<1>6. \A i \in 1 .. Len(q) : i \in 1 .. Len(r) /\ r[i] = q[i]
  BY <1>5
<1>7. \A i \in 1 .. Len(r) : \/ i \in 1 .. Len(q) /\ r[i] = q[i]
                             \/ i - Len(q) \in 1 .. Len(x) /\ r[i] = x[i - Len(q)]
  BY <1>5
<1>8. \A i \in 1 .. Len(x) : ~SetsPoints(x[i], t)
  BY DEF Has, SetsPoints
<1>9. \A i \in 1 .. Len(r) : SetsPoints(r[i], t) => i \in 1 .. Len(q) /\ r[i] = q[i]
  BY <1>7, <1>8
<1>10. Scored(r, t) <=> Scored(q, t)
  BY <1>6, <1>9 DEF Scored
<1>11. ASSUME NEW n, LastScore(q, t, n) PROVE LastScore(r, t, n)
  <2>1. PICK i \in 1 .. Len(q) : /\ SetsPoints(q[i], t) /\ q[i].total = n
                                 /\ \A j \in 1 .. Len(q) : j > i => ~SetsPoints(q[j], t)
    BY <1>11 DEF LastScore
  <2>2. i \in 1 .. Len(r) /\ SetsPoints(r[i], t) /\ r[i].total = n
    BY <1>6, <2>1
  <2>3. ASSUME NEW j \in 1 .. Len(r), j > i PROVE ~SetsPoints(r[j], t)
    <3>1. SUFFICES ASSUME SetsPoints(r[j], t) PROVE FALSE
      OBVIOUS
    <3>2. j \in 1 .. Len(q) /\ r[j] = q[j]
      BY <1>9, <3>1
    <3> QED
      BY <2>1, <2>3, <3>1, <3>2
  <2> QED
    BY <2>2, <2>3 DEF LastScore
<1> QED
  BY <1>10, <1>11

\* Two pages have the same teams and, if so said, the same points of one team.
Alike(v, w, t, same) ==
  /\ OnPage(v) /\ OnPage(w) /\ v.teams = w.teams
  /\ t \in DOMAIN v.points <=> t \in DOMAIN w.points
  /\ same /\ t \in DOMAIN v.points => v.points[t] = w.points[t]

LEMMA AlikeAfter ==
  ASSUME NEW v, NEW w, NEW t, NEW same, Alike(v, w, t, same), NEW p, Mild(p)
  PROVE  /\ Alike(onMessage(v, p), onMessage(w, p), t, same)
         /\ ~Scores(p, t) => Alike(onMessage(v, p), v, t, TRUE)
<1>1. PICK x, y : x = onMessage(v, p) /\ y = onMessage(w, p)
  OBVIOUS
<1>2. OnPage(v) /\ OnPage(w)
  BY DEF Alike
<1>3. After(v, p, x) /\ After(w, p, y)
  BY <1>1, <1>2, FieldsAfter
<1>4. OnPage(x) /\ OnPage(y)
  BY <1>3 DEF After
<1>5. CASE p.type = "UPDATE_TEAMS"
  <2>1. x.teams = p.teams /\ y.teams = p.teams /\ x.points = p.points /\ y.points = p.points
    BY <1>3, <1>5 DEF After
  <2>2. Alike(x, y, t, same)
    BY <1>4, <2>1 DEF Alike
  <2> QED
    BY <1>1, <1>5, <2>2 DEF Scores
<1>6. CASE p.type = "TEAM_SET_POINTS"
  <2>1. PICK u, n, ts, ps, qs : u = p.team /\ n = p.total /\ ts = v.teams /\ ps = v.points /\ qs = w.points
    OBVIOUS
  <2>2. /\ x.teams = ts /\ y.teams = ts
        /\ x.points = IF u \in ts THEN [ps EXCEPT ![u] = n] ELSE ps
        /\ y.points = IF u \in ts THEN [qs EXCEPT ![u] = n] ELSE qs
    BY <1>3, <1>6, <2>1 DEF After, Alike
  <2>3. (t \in DOMAIN ps <=> t \in DOMAIN qs) /\ (same /\ t \in DOMAIN ps => ps[t] = qs[t])
    BY <2>1 DEF Alike
  <2>4. Alike(x, y, t, same)
    BY <1>4, <2>2, <2>3 DEF Alike
  <2>5. ~Scores(p, t) => u # t
    BY <1>6, <2>1 DEF Scores, SetsPoints
  <2>6. ~Scores(p, t) => Alike(x, v, t, TRUE)
    BY <1>2, <1>4, <2>1, <2>2, <2>5 DEF Alike
  <2> QED
    BY <1>1, <2>4, <2>6
<1>7. CASE p.type \notin {"UPDATE_TEAMS", "TEAM_SET_POINTS"}
  <2>1. x.teams = v.teams /\ x.points = v.points /\ y.teams = w.teams /\ y.points = w.points
    BY <1>3, <1>7 DEF After
  <2>2. Alike(x, y, t, same) /\ Alike(x, v, t, TRUE)
    BY <1>2, <1>4, <2>1 DEF Alike
  <2> QED
    BY <1>1, <2>2
<1> QED
  BY <1>5, <1>6, <1>7

\* They stay alike, and keep the points that are not in what they handle.
LEMMA AlikeHandled ==
  ASSUME NEW v, NEW w, NEW t, NEW same, Alike(v, w, t, same), NEW q, AllMild(q)
  PROVE  /\ Alike(Handled(v, q), Handled(w, q), t, same)
         /\ ~(\E i \in 1 .. Len(q) : Scores(q[i], t)) => Alike(Handled(v, q), v, t, TRUE)
<1>1. PICK S : q \in Seq(S) /\ \A p \in S : Mild(p)
  BY DEF AllMild
<1>2. PICK f : IsRun(f, v, q) /\ Handled(v, q) = f[Len(q)]
  BY <1>1, HandledIsRun
<1>3. PICK g : IsRun(g, w, q) /\ Handled(w, q) = g[Len(q)]
  BY <1>1, HandledIsRun
<1>4. Len(q) \in Nat
  BY <1>1
<1>5. f[0] = v /\ g[0] = w /\ \A n \in 1 .. Len(q) : f[n] = onMessage(f[n - 1], q[n]) /\ g[n] = onMessage(g[n - 1], q[n])
  <2>1. \A n \in 0 .. Len(q) : /\ f[n] = IF n = 0 THEN v ELSE onMessage(f[n - 1], q[n])
                               /\ g[n] = IF n = 0 THEN w ELSE onMessage(g[n - 1], q[n])
    BY <1>2, <1>3 DEF IsRun
  <2>2. 0 \in 0 .. Len(q) /\ \A n \in 1 .. Len(q) : n \in 0 .. Len(q) /\ n # 0
    BY <1>4
  <2> QED
    BY <2>1, <2>2
<1>6. PICK quiet \in BOOLEAN : quiet <=> ~(\E i \in 1 .. Len(q) : Scores(q[i], t))
  OBVIOUS
<1> DEFINE Stay(n) == Alike(f[n], g[n], t, same) /\ (quiet => Alike(f[n], v, t, TRUE))
<1> DEFINE Apart == {n \in 0 .. Len(q) : ~Stay(n)}
<1>7. SUFFICES Apart = {}
  <2>1. Len(q) \in 0 .. Len(q)
    BY <1>4
  <2>2. Stay(Len(q))
    BY <1>7, <2>1
  <2> QED
    BY <1>2, <1>3, <1>6, <2>2
<1>8. SUFFICES ASSUME Apart # {}
               PROVE  FALSE
  OBVIOUS
<1>9. PICK k \in Apart : \A j \in Apart : k <= j
  <2> HIDE DEF Stay
  <2>1. Apart \subseteq Nat
    BY <1>4
  <2> HIDE DEF Apart
  <2> QED
    BY <1>8, <2>1, LeastOf
<1>10. Stay(0)
  BY <1>5 DEF Alike
<1>11. k \in 1 .. Len(q) /\ k - 1 \in 0 .. Len(q) /\ ~(k <= k - 1)
  <2>1. k # 0
    BY <1>9, <1>10
  <2>2. k \in 0 .. Len(q)
    BY <1>9
  <2> QED
    BY <1>4, <2>1, <2>2
<1>12. Stay(k - 1)
  BY <1>9, <1>11
<1>13. Mild(q[k])
  BY <1>1, <1>11
<1>14. PICK x, y : x = f[k - 1] /\ y = g[k - 1] /\ f[k] = onMessage(x, q[k]) /\ g[k] = onMessage(y, q[k])
  BY <1>5, <1>11
<1>15. Alike(x, y, t, same) /\ (quiet => Alike(x, v, t, TRUE))
  BY <1>12, <1>14
<1>16. Alike(f[k], g[k], t, same) /\ (~Scores(q[k], t) => Alike(f[k], x, t, TRUE))
  BY <1>13, <1>14, <1>15, AlikeAfter
<1>17. quiet => Alike(f[k], v, t, TRUE)
  <2>1. quiet => ~Scores(q[k], t)
    BY <1>6, <1>11
  <2> QED
    BY <1>15, <1>16, <2>1 DEF Alike
<1> QED
  BY <1>9, <1>16, <1>17

\* What holds of every team after a step.
LEMMA ScoreBy ==
  ASSUME DeskInv', NEW w, w = Handled(copy', toMaster'), NEW q, q = toServer', NEW ts, ts = teams',
         NEW ps, ps = points', NEW cs, cs = crossed',
         \A t \in Team : t \in DOMAIN ps /\ t \in DOMAIN w.points /\ (t \notin cs => ScoreAgrees(w, q, ts, ps, t))
  PROVE  ScoreInv'
BY DEF ScoreInv

\* The user does something else than to set points.
LEMMA UserScore ==
  ASSUME ScoreInv, DeskInv', UNCHANGED <<world, toMaster, crossed>>,
         UNCHANGED copy \/ \E g : copy' = [copy EXCEPT !.game = g],
         UNCHANGED toServer \/ \E x : Queue(x) /\ ~Has(x, "TEAM_SET_POINTS") /\ send(x)
  PROVE  ScoreInv'
<1>1. PICK v, w, q, r, c, d : /\ v = Handled(copy, toMaster) /\ w = Handled(copy', toMaster)
                              /\ q = toServer /\ r = toServer' /\ c = copy /\ d = copy'
  OBVIOUS
<1>2. Queue(q) /\ AllMild(toMaster) /\ OnPage(c)
  BY <1>1, AskedQueue DEF ScoreInv, DeskInv, PaneInv
<1>3. OnPage(d)
  BY <1>1 DEF DeskInv
<1>4. d.teams = c.teams /\ d.points = c.points
  BY <1>1, <1>2 DEF OnPage, IsPage, Page
<1>5. ASSUME NEW t PROVE Alike(w, v, t, TRUE)
  <2>1. Alike(d, c, t, TRUE)
    BY <1>2, <1>3, <1>4 DEF Alike
  <2> QED
    BY <1>1, <1>2, <2>1, AlikeHandled
<1>6. ASSUME NEW t PROVE (Scored(r, t) <=> Scored(q, t)) /\ \A n : LastScore(q, t, n) => LastScore(r, t, n)
  <2>1. CASE r = q
    BY <2>1
  <2>2. CASE r # q
    <3>1. PICK x : Queue(x) /\ ~Has(x, "TEAM_SET_POINTS") /\ r = q \o x
      BY <1>1, <2>2 DEF send
    <3> QED
      BY <1>2, <3>1, ScoresBeside
  <2> QED
    BY <2>1, <2>2
<1>7. PICK ts, ps, cs : ts = teams /\ ps = points /\ cs = crossed
  OBVIOUS
<1>8. ASSUME NEW t \in Team
      PROVE  t \in DOMAIN ps /\ t \in DOMAIN w.points /\ (t \notin cs => ScoreAgrees(w, r, ts, ps, t))
  <2>1. /\ t \in DOMAIN ps /\ t \in DOMAIN v.points
        /\ t \notin cs => ScoreAgrees(v, q, ts, ps, t)
    BY <1>1, <1>7 DEF ScoreInv
  <2>2. t \in DOMAIN w.points /\ w.points[t] = v.points[t]
    BY <1>5, <2>1 DEF Alike
  <2> QED
    BY <1>6, <2>1, <2>2 DEF ScoreAgrees
<1>9. w = Handled(copy', toMaster') /\ r = toServer' /\ ts = teams' /\ ps = points' /\ cs = crossed'
  BY <1>1, <1>7 DEF world, vars, play
<1> QED
  BY <1>8, <1>9, ScoreBy

LEMMA OtherSends ==
  /\ \A p : p.type # "TEAM_SET_POINTS" => Queue(<<p>>) /\ ~Has(<<p>>, "TEAM_SET_POINTS")
  /\ \A x : Scoreless(x) => Queue(x) /\ ~Has(x, "TEAM_SET_POINTS")
<1>1. ASSUME NEW p, p.type # "TEAM_SET_POINTS" PROVE Queue(<<p>>) /\ ~Has(<<p>>, "TEAM_SET_POINTS")
  <2>1. PICK x : x = <<p>>
    OBVIOUS
  <2>2. Len(x) = 1 /\ x[1] = p
    BY <2>1
  <2>3. ~Has(x, "TEAM_SET_POINTS")
    BY <1>1, <2>2 DEF Has
  <2> QED
    BY <2>1, <2>3, Queues
<1>2. ASSUME NEW x, Scoreless(x) PROVE Queue(x) /\ ~Has(x, "TEAM_SET_POINTS")
  <2>1. PICK S : x \in Seq(S) /\ \A p \in S : p.type \notin {"UPDATE_TEAMS", "TEAM_SET_POINTS"}
    BY <1>2 DEF Scoreless
  <2>2. \A i \in 1 .. Len(x) : x[i] \in S
    BY <2>1
  <2> QED
    BY <2>1, <2>2 DEF Queue, Has
<1> QED
  BY <1>1, <1>2

LEMMA UserSetsNoPointsScore ==
  ASSUME ScoreInv, DeskInv', UserSetsNoPoints, UNCHANGED crossed
  PROVE  ScoreInv'
<1>1. ASSUME Uses("page") \/ Uses("sheet") \/ Uses("dialog") \/ Uses("confirm") \/ Uses("asks"), UNCHANGED copy,
             UNCHANGED toServer \/ \E p : send(<<p>>) /\ p.type # "TEAM_SET_POINTS"
      PROVE  ScoreInv'
  BY <1>1, OtherSends, UserScore DEF Uses
<1>2. ASSUME UNCHANGED <<world, toMaster>>, NEW g, copy' = [copy EXCEPT !.game = g], NEW x, Scoreless(x), send(x)
      PROVE  ScoreInv'
  BY <1>2, OtherSends, UserScore
<1>3. /\ \A b : BuzzerLockPacket(b).type # "TEAM_SET_POINTS"
      /\ \A ts, ps : TeamsPacket(ts, ps).type # "TEAM_SET_POINTS"
      /\ \A t, result, a : GradeRequest(t, result, a).type # "TEAM_SET_POINTS"
  BY DEF BuzzerLockPacket, TeamsPacket, GradeRequest
<1>4. ASSUME NEW a, onClickAnswer(a) PROVE ScoreInv'
  BY <1>1, <1>4 DEF onClickAnswer
<1>5. ASSUME LeavesAnswer PROVE ScoreInv'
  BY <1>1, <1>5 DEF LeavesAnswer
<1>6. ASSUME NEW result, NEW a, gradeAnswer(result, a) PROVE ScoreInv'
  BY <1>1, <1>3, <1>6 DEF gradeAnswer
<1>7. ASSUME PutsOffGrading PROVE ScoreInv'
  BY <1>1, <1>7 DEF PutsOffGrading
<1>8. ASSUME releaseWithoutGrade PROVE ScoreInv'
  BY <1>1, <1>8 DEF releaseWithoutGrade
<1>9. ASSUME reopenGradeDialog PROVE ScoreInv'
  BY <1>1, <1>9 DEF reopenGradeDialog
<1>10. ASSUME release PROVE ScoreInv'
  BY <1>1, <1>3, <1>10 DEF release, releaseBuzzerLock
<1>11. ASSUME NEW confirmed, ConfirmsWithoutGrade(confirmed) PROVE ScoreInv'
  BY <1>1, <1>3, <1>11 DEF ConfirmsWithoutGrade, releaseBuzzerLock
<1>12. ASSUME NEW confirmed, ConfirmsRelease(confirmed) PROVE ScoreInv'
  BY <1>1, <1>3, <1>12 DEF ConfirmsRelease, releaseBuzzerLock
<1>13. ASSUME NEW ts, updateTeams(ts) PROVE ScoreInv'
  BY <1>1, <1>3, <1>13 DEF updateTeams
<1>14. ASSUME NEW n, UNCHANGED <<world, toMaster>>, copy' = [copy EXCEPT !.game = AtQuestion(@, n)],
              send(<<UnmarkAllPacket, SetQuestionPacket(n)>>) \/ send(<<SetQuestionPacket(n)>>)
       PROVE  ScoreInv'
  <2>1. PICK x : /\ x = <<UnmarkAllPacket, SetQuestionPacket(n)>> \/ x = <<SetQuestionPacket(n)>>
                 /\ send(x)
    BY <1>14
  <2>2. Scoreless(x)
    BY <2>1, ScorelessPackets, ScorelessTwo, ScorelessQueues
  <2>3. PICK g : copy' = [copy EXCEPT !.game = g]
    BY <1>14
  <2> QED
    BY <1>2, <1>14, <2>1, <2>2, <2>3
<1>15. ASSUME NEW n, Uses("page"), GoesTo(n) PROVE ScoreInv'
  BY <1>14, <1>15 DEF Uses, GoesTo
<1>16. ASSUME beginGame PROVE ScoreInv'
  BY <1>14, <1>16 DEF Uses, beginGame
<1>17. ASSUME getNextQuestion PROVE ScoreInv'
  BY <1>15, <1>17 DEF getNextQuestion
<1>18. ASSUME getPreviousQuestion PROVE ScoreInv'
  BY <1>15, <1>18 DEF getPreviousQuestion
<1>19. ASSUME LogsAnswer PROVE ScoreInv'
  <2>1. PICK g, s, a : UNCHANGED <<world, toMaster>> /\ copy' = [copy EXCEPT !.game = g] /\ send(<<AnswersPacket(s, {a})>>)
    BY <1>19 DEF LogsAnswer, Uses, sendAnswerSetStatePacket
  <2>2. Scoreless(<<AnswersPacket(s, {a})>>)
    BY ScorelessPackets, ScorelessQueues
  <2> QED
    BY <1>2, <2>1, <2>2
<1>20. ASSUME ActivatesAnswer PROVE ScoreInv'
  <2>1. PICK g, a, frees, x, y :
          /\ UNCHANGED <<world, toMaster>> /\ copy' = [copy EXCEPT !.game = g]
          /\ x = <<AnswersPacket("ACTIVATE", {a})>> /\ y = <<UnmarkAllPacket, BuzzerLockPacket(FALSE)>>
          /\ send(IF frees THEN y \o x ELSE x)
    BY <1>20 DEF ActivatesAnswer, Uses
  <2>2. Scoreless(x) /\ Scoreless(y)
    BY <2>1, ScorelessPackets, ScorelessTwo, ScorelessQueues
  <2>3. Scoreless(y \o x)
    BY <2>2, ScorelessQueues
  <2>4. CASE frees = TRUE
    BY <1>2, <2>1, <2>3, <2>4
  <2>5. CASE frees # TRUE
    <3>1. send(x) \/ send(y \o x)
      BY <2>1
    <3> QED
      BY <1>2, <2>1, <2>2, <2>3, <3>1
  <2> QED
    BY <2>4, <2>5
<1> QED
  BY <1>4, <1>5, <1>6, <1>7, <1>8, <1>9, <1>10, <1>11, <1>12, <1>13, <1>16, <1>17, <1>18, <1>19, <1>20
     DEF UserSetsNoPoints

\* Some of the packets may set a team's points.
AnyScores(q, t) == \E i \in 1 .. Len(q) : Scores(q[i], t)

LEMMA AnyScoresConcat ==
  ASSUME NEW q, Queue(q), NEW x, Queue(x), NEW r, r = q \o x, NEW t
  PROVE  Queue(r) /\ (AnyScores(r, t) <=> AnyScores(q, t) \/ AnyScores(x, t))
<1>1. PICK S : q \in Seq(S)
  BY DEF Queue
<1>2. PICK T : x \in Seq(T)
  BY DEF Queue
<1>3. PICK U : U = S \cup T
  OBVIOUS
<1>4. q \in Seq(U) /\ x \in Seq(U)
  BY <1>1, <1>2, <1>3
<1>5. /\ Len(r) = Len(q) + Len(x) /\ Len(q) \in Nat /\ Len(x) \in Nat
      /\ \A i \in 1 .. Len(q) + Len(x) : r[i] = IF i <= Len(q) THEN q[i] ELSE x[i - Len(q)]
  BY <1>4, ConcatProperties
<1>6. \A i \in 1 .. Len(q) : i \in 1 .. Len(r) /\ r[i] = q[i]
  BY <1>5
<1>7. \A i \in 1 .. Len(x) : i + Len(q) \in 1 .. Len(r) /\ r[i + Len(q)] = x[i]
  BY <1>5
<1>8. \A i \in 1 .. Len(r) : \/ i \in 1 .. Len(q) /\ r[i] = q[i]
                             \/ i - Len(q) \in 1 .. Len(x) /\ r[i] = x[i - Len(q)]
  BY <1>5
<1>9. AnyScores(q, t) => AnyScores(r, t)
  BY <1>6 DEF AnyScores
<1>10. AnyScores(x, t) => AnyScores(r, t)
  BY <1>7 DEF AnyScores
<1>11. AnyScores(r, t) => AnyScores(q, t) \/ AnyScores(x, t)
  BY <1>8 DEF AnyScores
<1>12. Queue(r)
  BY HandledThen
<1> QED
  BY <1>9, <1>10, <1>11, <1>12

LEMMA AnyScoresOf ==
  ASSUME NEW t
  PROVE  /\ \A p : AnyScores(<<p>>, t) <=> Scores(p, t)
         /\ \A p, x : AnyScores(<<p, x>>, t) <=> Scores(p, t) \/ Scores(x, t)
<1>1. ASSUME NEW p PROVE AnyScores(<<p>>, t) <=> Scores(p, t)
  <2>1. PICK q : q = <<p>>
    OBVIOUS
  <2>2. Len(q) = 1 /\ q[1] = p
    BY <2>1
  <2>3. AnyScores(q, t) <=> Scores(p, t)
    BY <2>2 DEF AnyScores
  <2> QED
    BY <2>1, <2>3
<1>2. ASSUME NEW p, NEW x PROVE AnyScores(<<p, x>>, t) <=> Scores(p, t) \/ Scores(x, t)
  <2>1. PICK q : q = <<p, x>>
    OBVIOUS
  <2>2. Len(q) = 2 /\ q[1] = p /\ q[2] = x
    BY <2>1
  <2>3. AnyScores(q, t) <=> Scores(p, t) \/ Scores(x, t)
    BY <2>2 DEF AnyScores
  <2> QED
    BY <2>1, <2>3
<1> QED
  BY <1>1, <1>2

LEMMA PressScoreless ==
  ASSUME Seated, Buzzers
  PROVE  Scoreless(sent'[master])
<1>1. ASSUME NEW a, Scoreless(a), TellAll(a) PROVE Scoreless(sent'[master])
  BY <1>1, MasterHears DEF TellAll
<1>2. ASSUME KeypressRelease PROVE Scoreless(sent'[master])
  <2>1. Scoreless(<<BuzzerLockPacket(FALSE), UnmarkAllPacket>>)
    BY ScorelessPackets, ScorelessTwo
  <2> QED
    BY <1>1, <1>2, <2>1 DEF KeypressRelease
<1>3. ASSUME SerialRelease PROVE Scoreless(sent'[master])
  BY <1>1, <1>3, ScorelessPackets DEF SerialRelease
<1>4. ASSUME NEW t, LockOnTeam(t) PROVE Scoreless(sent'[master])
  <2>1. PICK p, q : p = MarkTeamPacket(t, TRUE) /\ q = BuzzerLockPacket(TRUE)
    OBVIOUS
  <2>2. PICK m : \E b : Tell(Append(<<p, q>>, MediaStatePacket(m)), b)
    BY <1>4, <2>1 DEF LockOnTeam
  <2>3. PICK x, y : x = MediaStatePacket(m) /\ y = <<p, q>>
    OBVIOUS
  <2>4. Scoreless(y) /\ Scoreless(<<x>>)
    BY <2>1, <2>3, ScorelessPackets, ScorelessTwo, ScorelessQueues
  <2>5. Queue(y)
    BY <2>4, NoScores
  <2>6. Append(y, x) = y \o <<x>>
    BY <2>5, RequestsMore
  <2>7. Scoreless(Append(y, x))
    BY <2>4, <2>6, ScorelessQueues
  <2>8. sent'[master] = Append(y, x)
    BY <2>2, <2>3, MasterHears
  <2> QED
    BY <2>7, <2>8
<1>5. ASSUME TellNobody PROVE Scoreless(sent'[master])
  BY <1>5, ScorelessQueues DEF TellNobody, Conn, Seated
<1> QED
  BY <1>2, <1>3, <1>4, <1>5 DEF Buzzers, KeypressTeam, SerialPress, UdpBuzzerPress

LEMMA HandlesScoreless ==
  ASSUME Seated, NEW m, Asked(m), Handles(m), m.type \notin {"TEAM_SET_POINTS", "UPDATE_TEAMS", "GRADE_ANSWER"}
  PROVE  Scoreless(sent'[master]) /\ UNCHANGED <<teams, points>>
<1>1. ASSUME NEW a, Scoreless(a), NEW b, Tell(a, b) PROVE Scoreless(sent'[master])
  BY <1>1, MasterHears
<1>2. CASE m.type = "MARK_TEAM"
  <2>1. UnmarkAllTeams
    BY <1>2 DEF Handles
  <2>2. Scoreless(<<UnmarkAllPacket>>)
    BY ScorelessPackets, ScorelessQueues
  <2> QED
    BY <1>1, <2>1, <2>2 DEF UnmarkAllTeams, TellAll
<1>3. CASE m.type = "ANSWER_SET_STATE"
  <2>1. PICK s, a : AnswerSetState(s, a)
    BY <1>3 DEF Handles
  <2>2. UNCHANGED <<teams, points>> /\ \E x \in {<<>>, ReleasePackets} : \E b : Tell(x, b)
    BY <2>1 DEF AnswerSetState
  <2> QED
    BY <1>1, <2>2, ScorelessQueues, ScorelessPackets
<1>4. CASE m.type = "SET_QUESTION"
  <2>1. PICK n : SetQuestion(n)
    BY <1>4 DEF Handles
  <2>2. PICK p, x : p = BuzzerLockPacket(FALSE) /\ x = MediaStatePacket(InitialMedia[n])
    OBVIOUS
  <2>3. UNCHANGED <<teams, points>> /\ \E b : Tell(<<p>>, b) \/ Tell(<<p, x>>, b)
    BY <2>1, <2>2 DEF SetQuestion
  <2>4. Scoreless(<<p>>) /\ Scoreless(<<p, x>>)
    BY <2>2, ScorelessPackets, ScorelessQueues, ScorelessTwo
  <2> QED
    BY <1>1, <2>3, <2>4
<1>5. CASE m.type = "SET_BUZZER_LOCK"
  <2>1. SetBuzzerLock(FALSE)
    BY <1>5 DEF Handles, Asked
  <2>2. UNCHANGED <<teams, points>> /\ TellAll(ReleasePackets)
    BY <2>1 DEF SetBuzzerLock
  <2> QED
    BY <1>1, <2>2, ScorelessPackets DEF TellAll
<1> QED
  BY <1>2, <1>3, <1>4, <1>5 DEF Asked

\* What the server makes of a team's points with a request m, and the page, y then, of what it is told, a.
TellsScore(v, y, a, m, t) ==
  /\ t \in DOMAIN y.points /\ t \in DOMAIN points'
  /\ t \in ScoresIn(a) => y.points[t] = points'[t]
  /\ t \notin ScoresIn(a) =>
       /\ y.points[t] = v.points[t] /\ UNCHANGED teams
       /\ points'[t] = IF SetsPoints(m, t) /\ t \in teams THEN m.total ELSE points[t]

LEMMA HandlesScore ==
  ASSUME Seated, NEW m, Asked(m), Handles(m), NEW v, OnPage(v), v.teams = teams,
         Team \subseteq DOMAIN v.points, Team \subseteq DOMAIN points,
         NEW a, a = sent'[master], AllMild(a), NEW y, y = Handled(v, a), NEW t \in Team
  PROVE  TellsScore(v, y, a, m, t)
<1>1. Queue(a) /\ Alike(v, v, t, TRUE)
  BY AskedQueue DEF Alike
<1>2. t \in ScoresIn(a) <=> AnyScores(a, t)
  BY <1>1, ScoresAre DEF AnyScores
<1>3. PICK ts, ps, qs : ts = teams /\ ps = points /\ qs = v.points
  OBVIOUS
<1>4. t \in DOMAIN ps /\ t \in DOMAIN qs
  BY <1>3
<1>5. ASSUME Scoreless(a), UNCHANGED teams, t \in DOMAIN points',
             points'[t] = IF SetsPoints(m, t) /\ t \in teams THEN m.total ELSE points[t]
      PROVE  TellsScore(v, y, a, m, t)
  <2>1. ~AnyScores(a, t)
    BY <1>5, NoScores DEF AnyScores
  <2>2. Alike(y, v, t, TRUE)
    BY <1>1, <2>1, AlikeHandled DEF AnyScores
  <2>3. t \in DOMAIN y.points /\ y.points[t] = v.points[t]
    BY <2>2 DEF Alike
  <2> QED
    BY <1>2, <1>5, <2>1, <2>3 DEF TellsScore
<1>6. CASE m.type \notin {"TEAM_SET_POINTS", "UPDATE_TEAMS", "GRADE_ANSWER"}
  <2>1. Scoreless(a) /\ UNCHANGED <<teams, points>>
    BY <1>6, HandlesScoreless
  <2>2. ~SetsPoints(m, t)
    BY <1>6 DEF SetsPoints
  <2> QED
    BY <1>3, <1>4, <1>5, <2>1, <2>2
<1>7. CASE m.type = "TEAM_SET_POINTS"
  <2>1. PICK u, n : u = m.team /\ n = m.total /\ TeamSetPoints(u, n)
    BY <1>7 DEF Handles
  <2>2. UNCHANGED teams /\ points' = (IF u \in ts THEN [ps EXCEPT ![u] = n] ELSE ps) /\ \E b : Tell(<<>>, b)
    BY <1>3, <2>1 DEF TeamSetPoints
  <2>3. Scoreless(a)
    BY <2>2, MasterHears, ScorelessQueues
  <2>4. SetsPoints(m, t) <=> u = t
    BY <1>7, <2>1 DEF SetsPoints
  <2>5. t \in DOMAIN points' /\ points'[t] = IF u = t /\ t \in ts THEN n ELSE ps[t]
    BY <1>4, <2>2
  <2> QED
    BY <1>3, <1>5, <2>1, <2>2, <2>3, <2>4, <2>5
<1>8. CASE m.type = "GRADE_ANSWER"
  <2>0. ~SetsPoints(m, t)
    BY <1>8 DEF SetsPoints
  <2>1. CASE m.team \notin ts
    <3>1. UNCHANGED <<teams, points>> /\ TellNobody
      BY <1>3, <1>8, <2>1 DEF Handles, IgnorePacket, play
    <3>2. Scoreless(a)
      BY <3>1, ScorelessQueues DEF TellNobody, Seated, Conn
    <3> QED
      BY <1>3, <1>4, <1>5, <2>0, <3>1, <3>2
  <2>2. CASE m.team \in ts
    <3>1. PICK u, result : u \in ts /\ GradeAnswer(u, result, m.answer, TRUE)
      BY <1>3, <1>8, <2>2 DEF Handles
    <3>2. PICK n, some, x :
            /\ points' = [ps EXCEPT ![u] = n] /\ UNCHANGED teams /\ x \in {<<>>, ReleasePackets}
            /\ TellAll(<<PointsPacket(u, n), AnswersPacket("ACTIVATE", some)>> \o x \o <<GradePacket(u, result)>>)
      BY <1>3, <3>1 DEF GradeAnswer
    <3>3. PICK p1, p2, p3, b, c : /\ p1 = PointsPacket(u, n) /\ p2 = AnswersPacket("ACTIVATE", some)
                                  /\ p3 = GradePacket(u, result) /\ b = <<p1, p2>> /\ c = <<p3>>
      OBVIOUS
    <3>4. a = (b \o x) \o c
      BY <3>2, <3>3, MasterHears DEF TellAll
    <3>5. /\ Mild(p1) /\ Mild(p2) /\ Mild(p3) /\ p1.type = "TEAM_SET_POINTS" /\ p1.team = u /\ p1.total = n
          /\ p2.type \notin {"UPDATE_TEAMS", "TEAM_SET_POINTS"} /\ p3.type \notin {"UPDATE_TEAMS", "TEAM_SET_POINTS"}
      BY <3>3, MildPackets, ScorelessPackets DEF PointsPacket
    <3>6. Scoreless(x) /\ AllMild(x) /\ Queue(x) /\ Queue(b) /\ Queue(c)
      BY <3>2, <3>3, ScorelessQueues, ScorelessPackets, MildQueues, MildRelease, NoScores, Queues
    <3>7. ~Scores(p2, t) /\ ~Scores(p3, t) /\ (Scores(p1, t) <=> u = t) /\ ~AnyScores(x, t)
      BY <3>5, <3>6, NoScores DEF Scores, SetsPoints, AnyScores
    <3>8. AnyScores(a, t) <=> u = t
      <4>1. AnyScores(b, t) <=> u = t
        BY <3>3, <3>7, AnyScoresOf
      <4>2. ~AnyScores(c, t)
        BY <3>3, <3>7, AnyScoresOf
      <4>3. PICK d : d = b \o x
        OBVIOUS
      <4>4. Queue(d) /\ (AnyScores(d, t) <=> u = t)
        BY <3>6, <3>7, <4>1, <4>3, AnyScoresConcat
      <4>5. a = d \o c
        BY <3>4, <4>3
      <4> QED
        BY <3>6, <4>2, <4>4, <4>5, AnyScoresConcat
    <3>9. PICK w1, w2, w3 : w1 = onMessage(v, p1) /\ w2 = onMessage(w1, p2) /\ w3 = Handled(w2, x)
      OBVIOUS
    <3>10. y = onMessage(w3, p3)
      <4>1. Handled(v, b) = w2
        BY <3>3, <3>9, HandledTwo
      <4>2. Queue(b \o x) /\ Handled(v, b \o x) = w3
        BY <3>6, <3>9, <4>1, HandledThen
      <4>3. Handled(v, (b \o x) \o c) = Handled(w3, c)
        BY <3>6, <4>2, HandledThen
      <4> QED
        BY <3>3, <3>4, <4>3, HandledOne
    <3>11. OnPage(w1) /\ w1.teams = ts /\ w1.points = [qs EXCEPT ![u] = n]
      <4>1. After(v, p1, w1)
        BY <3>5, <3>9, FieldsAfter
      <4> QED
        BY <1>3, <3>1, <3>5, <4>1 DEF After
    <3>12. Alike(w1, w1, t, TRUE)
      BY <3>11 DEF Alike
    <3>13. Alike(w2, w1, t, TRUE)
      BY <3>5, <3>7, <3>9, <3>12, AlikeAfter
    <3>14. Alike(w2, w2, t, TRUE)
      BY <3>13 DEF Alike
    <3>15. Alike(w3, w2, t, TRUE)
      BY <3>6, <3>7, <3>9, <3>14, AlikeHandled DEF AnyScores
    <3>16. Alike(w3, w3, t, TRUE)
      BY <3>15 DEF Alike
    <3>17. Alike(y, w3, t, TRUE)
      BY <3>5, <3>7, <3>10, <3>16, AlikeAfter
    <3>18. t \in DOMAIN w1.points /\ w1.points[t] = IF u = t THEN n ELSE qs[t]
      BY <1>4, <3>11
    <3>19. t \in DOMAIN y.points /\ y.points[t] = IF u = t THEN n ELSE qs[t]
      BY <3>13, <3>15, <3>17, <3>18 DEF Alike
    <3>20. t \in DOMAIN points' /\ points'[t] = IF u = t THEN n ELSE ps[t]
      BY <1>4, <3>2
    <3> QED
      BY <1>2, <1>3, <2>0, <3>2, <3>8, <3>19, <3>20 DEF TellsScore
  <2> QED
    BY <2>1, <2>2
<1>9. CASE m.type = "UPDATE_TEAMS"
  <2>1. PICK us : UpdateTeams(us)
    BY <1>9 DEF Handles
  <2>2. PICK ns, x : /\ points' = ns /\ t \in DOMAIN ns /\ x \in {<<>>, ReleasePackets}
                     /\ \E zs : \E b : Tell(x \o <<TeamsPacket(zs, ns)>>, b)
    <3>1. CASE TeamsOk(us)
      <4>1. PICK x : /\ points' = PointsOf(us) /\ x \in {<<>>, ReleasePackets}
                     /\ TellAll(x \o <<TeamsPacket(us, PointsOf(us))>>)
        BY <2>1, <3>1 DEF UpdateTeams
      <4>2. t \in DOMAIN PointsOf(us)
        BY DEF PointsOf
      <4> QED
        BY <4>1, <4>2 DEF TellAll
    <3>2. CASE ~TeamsOk(us)
      <4>1. points' = ps /\ \E b : Tell(<<TeamsPacket(ts, ps)>>, b)
        BY <1>3, <2>1, <3>2 DEF UpdateTeams
      <4>2. <<>> \o <<TeamsPacket(ts, ps)>> = <<TeamsPacket(ts, ps)>>
        <5>1. PICK p : p = TeamsPacket(ts, ps)
          OBVIOUS
        <5>2. <<>> \o <<p>> = <<p>>
          OBVIOUS
        <5> QED
          BY <5>1, <5>2
      <4> QED
        BY <1>4, <4>1, <4>2
    <3> QED
      BY <3>1, <3>2
  <2>3. PICK p, c : p.type = "UPDATE_TEAMS" /\ p.points = ns /\ Mild(p) /\ c = <<p>> /\ a = x \o c
    <3>1. PICK zs, p : p = TeamsPacket(zs, ns) /\ a = x \o <<p>>
      BY <2>2, MasterHears
    <3>2. p.type = "UPDATE_TEAMS" /\ p.points = ns /\ Mild(p)
      BY <3>1, MildPackets DEF TeamsPacket
    <3> QED
      BY <3>1, <3>2
  <2>4. AllMild(x) /\ Queue(x) /\ Queue(c)
    BY <2>2, <2>3, MildQueues, MildRelease, AskedQueue, Queues
  <2>5. PICK w : w = Handled(v, x) /\ OnPage(w)
    BY <2>4, OnPageHandled
  <2>6. y = onMessage(w, p)
    BY <2>3, <2>4, <2>5, HandledThen, HandledOne
  <2>7. y.points = ns
    <3>1. After(w, p, y)
      BY <2>3, <2>5, <2>6, FieldsAfter
    <3> QED
      BY <2>3, <3>1 DEF After
  <2>8. AnyScores(a, t)
    <3>1. AnyScores(c, t)
      BY <2>3, AnyScoresOf DEF Scores
    <3> QED
      BY <2>3, <2>4, <3>1, AnyScoresConcat
  <2> QED
    BY <1>2, <2>2, <2>7, <2>8 DEF TellsScore
<1> QED
  BY <1>6, <1>7, <1>8, <1>9

LEMMA AddPointsScore ==
  ASSUME ScoreInv, DeskInv', NEW u \in Team, NEW n, addPoints(u, n)
  PROVE  ScoreInv'
<1>1. PICK v, w, q, x, c, d : /\ v = Handled(copy, toMaster) /\ w = Handled(copy', toMaster)
                              /\ q = toServer /\ x = toServer' /\ c = copy /\ d = copy'
  OBVIOUS
<1>2. PICK k, p, ps : k = c.points[u] + n /\ p = PointsPacket(u, k) /\ ps = c.points
  OBVIOUS
<1>3. /\ UNCHANGED <<world, toMaster>> /\ d = [c EXCEPT !.points[u] = k] /\ x = q \o <<p>> /\ u \in c.teams
      /\ crossed' = IF u \in ScoresIn(toMaster) THEN crossed \cup {u} ELSE crossed \ {u}
  BY <1>1, <1>2 DEF addPoints, Uses, send
<1>4. Queue(q) /\ AllMild(toMaster) /\ Queue(toMaster) /\ OnPage(c)
  BY <1>1, AskedQueue DEF ScoreInv, DeskInv, PaneInv
<1>5. OnPage(d) /\ w = Handled(copy', toMaster') /\ w.teams = teams'
  BY <1>1, <1>3 DEF DeskInv, Agrees
<1>6. d.teams = c.teams /\ d.points = [ps EXCEPT ![u] = k]
  BY <1>2, <1>3, <1>4 DEF OnPage, IsPage, Page
<1>7. x = Append(q, p)
  BY <1>3, <1>4, RequestsMore
<1>8. SetsPoints(p, u) /\ p.total = k /\ \A t : t # u => ~SetsPoints(p, t)
  BY <1>2 DEF PointsPacket, SetsPoints
<1>9. PICK ts, qs, cs, cp : ts = teams /\ qs = points /\ cs = crossed /\ cp = crossed'
  OBVIOUS
<1>10. ASSUME NEW t \in Team
       PROVE  t \in DOMAIN qs /\ t \in DOMAIN w.points /\ (t \notin cp => ScoreAgrees(w, x, ts, qs, t))
  <2>1. /\ t \in DOMAIN qs /\ t \in DOMAIN v.points
        /\ t \notin cs => ScoreAgrees(v, q, ts, qs, t)
    BY <1>1, <1>9 DEF ScoreInv
  <2>2. PICK same : same = (t # u)
    OBVIOUS
  <2>3. Alike(d, c, t, same)
    BY <1>2, <1>4, <1>5, <1>6, <2>2 DEF Alike
  <2>4. Alike(w, v, t, same)
    BY <1>1, <1>4, <2>3, AlikeHandled
  <2>5. t \in DOMAIN w.points
    BY <2>1, <2>4 DEF Alike
  <2>6. CASE t # u
    <3>1. w.points[t] = v.points[t]
      BY <2>2, <2>4, <2>5, <2>6 DEF Alike
    <3>2. t \notin cp => t \notin cs
      BY <1>3, <1>9, <2>6
    <3>3. (Scored(x, t) <=> Scored(q, t)) /\ \A j : LastScore(x, t, j) <=> LastScore(q, t, j)
      BY <1>4, <1>7, <1>8, <2>6, ScoresMore
    <3> QED
      BY <2>1, <2>5, <3>1, <3>2, <3>3 DEF ScoreAgrees
  <2>7. CASE t = u
    <3>1. SUFFICES ASSUME t \notin cp PROVE ScoreAgrees(w, x, ts, qs, t)
      BY <2>1, <2>5
    <3>2. t \notin ScoresIn(toMaster)
      BY <1>3, <1>9, <2>7, <3>1
    <3>3. ~(\E i \in 1 .. Len(toMaster) : Scores(toMaster[i], t))
      BY <1>4, <3>2, ScoresAre
    <3>4. Alike(d, d, t, TRUE)
      BY <1>5 DEF Alike
    <3>5. Alike(w, d, t, TRUE)
      BY <1>1, <1>4, <3>3, <3>4, AlikeHandled
    <3>6. w.teams = c.teams /\ t \in DOMAIN d.points /\ w.points[t] = d.points[t]
      BY <1>6, <2>5, <3>5 DEF Alike
    <3>7. w.points[t] = k
      BY <1>6, <2>7, <3>6
    <3>8. t \in ts
      BY <1>3, <1>5, <1>9, <2>7, <3>6 DEF world, vars, play
    <3>9. LastScore(x, t, k)
      BY <1>4, <1>7, <1>8, <2>7, ScoresMore
    <3> QED
      BY <3>7, <3>8, <3>9 DEF ScoreAgrees
  <2> QED
    BY <2>6, <2>7
<1>11. x = toServer' /\ ts = teams' /\ qs = points' /\ cp = crossed'
  BY <1>1, <1>3, <1>9 DEF world, vars, play
<1> QED
  BY <1>5, <1>10, <1>11, ScoreBy

\* The server answers, and the page hears it after what is on its way.
LEMMA AnswersHear ==
  ASSUME DeskInv, Answers, UNCHANGED copy, NEW a, a = sent'[master], AllMild(a)
  PROVE  Handled(copy', toMaster') = Handled(Handled(copy, toMaster), a)
<1>1. PICK c, down : c = copy /\ down = toMaster
  OBVIOUS
<1>2. toMaster' = down \o a /\ Queue(down) /\ Queue(a)
  BY <1>1, AskedQueue DEF Answers, DeskInv, PaneInv
<1>3. Handled(c, down \o a) = Handled(Handled(c, down), a)
  BY <1>2, HandledThen
<1> QED
  BY <1>1, <1>2, <1>3

LEMMA HandlesScoreStep ==
  ASSUME ScoreInv, DeskInv', ServerHandles
  PROVE  ScoreInv'
<1>1. PICK v, q, m, x : v = Handled(copy, toMaster) /\ q = toServer /\ m = Head(q) /\ x = Tail(q)
  OBVIOUS
<1>2. PICK ts, ps, cs : ts = teams /\ ps = points /\ cs = crossed
  OBVIOUS
<1>3. q # <<>> /\ Handles(m) /\ Answers /\ toServer' = x /\ UNCHANGED copy
  BY <1>1 DEF ServerHandles
<1>4. OnPage(v) /\ Queue(q) /\ Queue(x) /\ Asked(m) /\ Seated /\ v.teams = ts
  <2>1. DeskInv
    BY DEF ScoreInv
  <2>2. PICK g : g = game
    OBVIOUS
  <2>3. OnPage(v) /\ Queue(q) /\ Queue(x) /\ Asked(m) /\ Seated /\ Agrees(v, q, teams, g)
    BY <1>1, <1>3, <2>1, <2>2, DeskBefore
  <2> QED
    BY <1>2, <2>3 DEF Agrees
<1>5. PICK a, s : a = sent'[master] /\ AllMild(a) /\ s = ScoresIn(a)
  BY <1>3, <1>4, HandlesMild
<1>6. PICK y : y = Handled(v, a)
  OBVIOUS
<1>7. y = Handled(copy', toMaster')
  BY <1>1, <1>3, <1>5, <1>6, AnswersHear DEF ScoreInv
<1>8. crossed' = (cs \ s) \cup (s \cap PointsIn(x))
  BY <1>2, <1>3, <1>5 DEF ServerHandles
<1>9. PICK tp, pp, cp : tp = teams' /\ pp = points' /\ cp = crossed'
  OBVIOUS
<1>10. ASSUME NEW t \in Team
       PROVE  t \in DOMAIN pp /\ t \in DOMAIN y.points /\ (t \notin cp => ScoreAgrees(y, x, tp, pp, t))
  <2>1. TellsScore(v, y, a, m, t)
    BY <1>1, <1>2, <1>3, <1>4, <1>5, <1>6, HandlesScore DEF ScoreInv
  <2>2. /\ t \in DOMAIN y.points /\ t \in DOMAIN pp
        /\ t \in s => y.points[t] = pp[t]
        /\ t \notin s =>
             /\ y.points[t] = v.points[t] /\ tp = ts
             /\ pp[t] = IF SetsPoints(m, t) /\ t \in ts THEN m.total ELSE ps[t]
    BY <1>2, <1>5, <1>9, <2>1 DEF TellsScore
  <2>3. SUFFICES ASSUME t \notin cp PROVE ScoreAgrees(y, x, tp, pp, t)
    BY <2>2
  <2>4. CASE t \in s
    <3>1. t \notin PointsIn(x)
      BY <1>8, <1>9, <2>3, <2>4
    <3>2. ~Scored(x, t)
      BY <1>4, <3>1, ScoresAre
    <3> QED
      BY <2>2, <2>4, <3>2 DEF ScoreAgrees
  <2>5. CASE t \notin s
    <3>1. t \notin cs
      BY <1>8, <1>9, <2>3, <2>5
    <3>2. ScoreAgrees(v, q, ts, ps, t)
      BY <1>1, <1>2, <3>1 DEF ScoreInv
    <3>3. /\ Scored(q, t) <=> Scored(x, t) \/ SetsPoints(m, t)
          /\ \A n : LastScore(q, t, n) <=> LastScore(x, t, n) \/ (SetsPoints(m, t) /\ m.total = n /\ ~Scored(x, t))
      BY <1>1, <1>3, <1>4, ScoresTail
    <3>4. PICK k : k = v.points[t]
      OBVIOUS
    <3>5. CASE ~Scored(q, t) /\ k = ps[t]
      BY <2>2, <2>5, <3>3, <3>4, <3>5 DEF ScoreAgrees
    <3>6. CASE t \in ts /\ LastScore(q, t, k)
      <4>1. CASE LastScore(x, t, k)
        BY <2>2, <2>5, <3>4, <3>6, <4>1 DEF ScoreAgrees
      <4>2. CASE SetsPoints(m, t) /\ m.total = k /\ ~Scored(x, t)
        BY <2>2, <2>5, <3>4, <3>6, <4>2 DEF ScoreAgrees
      <4> QED
        BY <3>3, <3>6, <4>1, <4>2
    <3> QED
      BY <3>2, <3>4, <3>5, <3>6 DEF ScoreAgrees
  <2> QED
    BY <2>4, <2>5
<1> QED
  BY <1>3, <1>7, <1>9, <1>10, ScoreBy

LEMMA PressedScore ==
  ASSUME ScoreInv, DeskInv', Pressed
  PROVE  ScoreInv'
<1>1. PICK v, q : v = Handled(copy, toMaster) /\ q = toServer
  OBVIOUS
<1>2. PICK ts, ps, cs : ts = teams /\ ps = points /\ cs = crossed
  OBVIOUS
<1>3. /\ Answers /\ Buzzers /\ UNCHANGED <<copy, toServer, crossed, teams, points>> /\ Seated
      /\ OnPage(copy) /\ AllMild(toMaster)
  <2>1. UNCHANGED points
    BY DEF Pressed, Buzzers, KeypressRelease, SerialRelease, KeypressTeam, SerialPress, UdpBuzzerPress, LockOnTeam
  <2> QED
    BY <2>1, OthersKeep DEF ScoreInv, DeskInv, PaneInv, Pressed, Keeps
<1>4. OnPage(v)
  BY <1>1, <1>3, OnPageHandled
<1>5. PICK a : a = sent'[master] /\ AllMild(a) /\ Scoreless(a)
  BY <1>3, PressMild, PressScoreless
<1>6. PICK y : y = Handled(v, a) /\ y = Handled(copy', toMaster')
  BY <1>1, <1>3, <1>5, AnswersHear DEF ScoreInv
<1>7. ASSUME NEW t \in Team
      PROVE  t \in DOMAIN ps /\ t \in DOMAIN y.points /\ (t \notin cs => ScoreAgrees(y, q, ts, ps, t))
  <2>1. /\ t \in DOMAIN ps /\ t \in DOMAIN v.points
        /\ t \notin cs => ScoreAgrees(v, q, ts, ps, t)
    BY <1>1, <1>2 DEF ScoreInv
  <2>2. Alike(v, v, t, TRUE)
    BY <1>4 DEF Alike
  <2>3. ~(\E i \in 1 .. Len(a) : Scores(a[i], t))
    BY <1>5, NoScores
  <2>4. Alike(y, v, t, TRUE)
    BY <1>5, <1>6, <2>2, <2>3, AlikeHandled
  <2>5. t \in DOMAIN y.points /\ y.points[t] = v.points[t]
    BY <2>1, <2>4 DEF Alike
  <2> QED
    BY <2>1, <2>5 DEF ScoreAgrees
<1>8. q = toServer' /\ ts = teams' /\ ps = points' /\ cs = crossed'
  BY <1>1, <1>2, <1>3
<1> QED
  BY <1>6, <1>7, <1>8, ScoreBy

LEMMA LoadedScore ==
  ASSUME DeskInv, Team \subseteq DOMAIN points, copy = Served, toServer = <<>>, toMaster = <<>>
  PROVE  ScoreInv
<1>1. PICK v : v = copy /\ v = Handled(copy, toMaster)
  BY HandledNone
<1>2. v.points = points
  BY <1>1 DEF Served, setGameData
<1>3. Len(<<>>) = 0
  OBVIOUS
<1>4. ASSUME NEW t \in Team PROVE ScoreAgrees(v, toServer, teams, points, t)
  BY <1>2, <1>3 DEF ScoreAgrees, Scored
<1> QED
  BY <1>1, <1>2, <1>4 DEF ScoreInv

LEMMA ScoreInvStep ==
  ASSUME ScoreInv, [PlayNext]_table
  PROVE  ScoreInv'
<1>1. DeskInv /\ DeskInv'
  BY DeskInvStep DEF ScoreInv
<1>2. CASE UserDoes
  <2>1. ASSUME NEW t \in Team, NEW n, addPoints(t, n) PROVE ScoreInv'
    BY <1>1, <2>1, AddPointsScore
  <2> QED
    BY <1>1, <1>2, <2>1, UserSetsNoPointsScore DEF UserDoes
<1>3. CASE PageReceivesPacket
  <2>1. Handled(copy', toMaster') = Handled(copy, toMaster)
    BY <1>1, <1>3, ReceiveHears
  <2>2. UNCHANGED <<world, toServer, crossed>>
    BY <1>3 DEF PageReceivesPacket
  <2> QED
    BY <1>1, <2>1, <2>2 DEF ScoreInv, world, vars, play
<1>4. CASE ServerHandles
  BY <1>1, <1>4, HandlesScoreStep
<1>5. CASE Pressed
  BY <1>1, <1>5, PressedScore
<1>6. CASE PageIsLoaded
  <2>1. /\ Team \subseteq DOMAIN points' /\ copy' = Served' /\ toServer' = <<>> /\ toMaster' = <<>>
    BY <1>6 DEF PageIsLoaded, ScoreInv, world, vars, play, Served, setGameData
  <2>2. (DeskInv /\ Team \subseteq DOMAIN points /\ copy = Served /\ toServer = <<>> /\ toMaster = <<>> => ScoreInv)'
    BY LoadedScore, PTL
  <2> QED
    BY <1>1, <2>1, <2>2
<1>7. CASE UNCHANGED table
  BY <1>1, <1>7 DEF table, desk, world, vars, play, ScoreInv
<1> QED
  BY <1>2, <1>3, <1>4, <1>5, <1>6, <1>7 DEF PlayNext

LEMMA ScoreInvInit == PlayInit => ScoreInv
<1> SUFFICES ASSUME PlayInit PROVE ScoreInv
  OBVIOUS
<1>1. Team \subseteq DOMAIN points
  BY DEF PlayInit, NoPoints
<1> QED
  BY <1>1, DeskInvInit, LoadedScore DEF PlayInit

\* Once nothing is on its way between the master's page and the server, the page shows the server's
\* game: its teams, question and lock, the points that did not cross on their way, its marks and its
\* revealed answers (sendAnswerSetStatePacket, handlers of both sides).
THEOREM MasterIsShown == PlaySpec => []MasterShowsTheGame
<1>1. ASSUME ScoreInv PROVE MasterShowsTheGame
  <2> SUFFICES ASSUME Quiet PROVE MasterShowsTheGame
    BY DEF MasterShowsTheGame
  <2>1. PICK v : v = copy
    OBVIOUS
  <2>2. Handled(copy, toMaster) = v /\ toServer = <<>>
    BY <2>1, HandledNone DEF Quiet
  <2>3. Agrees(v, <<>>, teams, game)
    BY <1>1, <2>2 DEF ScoreInv, DeskInv
  <2>4. Len(<<>>) = 0
    OBVIOUS
  <2>5. /\ ~Has(<<>>, "MARK_TEAM") /\ ~Has(<<>>, "SET_QUESTION") /\ ~Has(<<>>, "SET_BUZZER_LOCK")
        /\ ~LastSet(<<>>, v.game.question) /\ \A a : ~LoggedIn(<<>>, a)
    BY <2>4 DEF Has, LastSet, LoggedIn
  <2>6. /\ v.teams = teams
        /\ v.game.question = game.question /\ v.game.welcome = game.welcome /\ v.game.lock = game.lock
        /\ game.marked \subseteq v.game.marked /\ game.activated \subseteq v.game.activated
        /\ v.game.logged \subseteq game.logged
    BY <2>3, <2>5 DEF Agrees, QuestionAgrees, BuzzersAgree, AnswersAgree
  <2>7. ASSUME NEW t \in Team \ crossed PROVE v.points[t] = points[t]
    <3>1. ScoreAgrees(v, <<>>, teams, points, t)
      BY <1>1, <2>2 DEF ScoreInv
    <3> QED
      BY <2>4, <3>1 DEF ScoreAgrees, LastScore
  <2> QED
    BY <2>1, <2>6, <2>7 DEF MasterShowsTheGame
<1> QED
  BY ScoreInvInit, ScoreInvStep, <1>1, PTL DEF PlaySpec

----------------------------------------------------------------------------
(* The dialog for a team that buzzed.                                                            *)

LEMMA HasConcat ==
  ASSUME NEW q, Queue(q), NEW r, Queue(r)
  PROVE  \A type : Has(q \o r, type) <=> Has(q, type) \/ Has(r, type)
<1>1. PICK S : q \in Seq(S)
  BY DEF Queue
<1>2. PICK T : r \in Seq(T)
  BY DEF Queue
<1>3. PICK U : U = S \cup T
  OBVIOUS
<1>4. q \in Seq(U) /\ r \in Seq(U)
  BY <1>1, <1>2, <1>3
<1>5. PICK s : s = q \o r
  OBVIOUS
<1>6. /\ Len(s) = Len(q) + Len(r) /\ Len(q) \in Nat /\ Len(r) \in Nat
      /\ \A i \in 1 .. Len(q) + Len(r) : s[i] = IF i <= Len(q) THEN q[i] ELSE r[i - Len(q)]
  BY <1>4, <1>5, ConcatProperties
<1>7. \A i \in 1 .. Len(q) : i \in 1 .. Len(s) /\ s[i] = q[i]
  BY <1>6
<1>8. \A i \in 1 .. Len(r) : i + Len(q) \in 1 .. Len(s) /\ s[i + Len(q)] = r[i]
  BY <1>6
<1>9. \A i \in 1 .. Len(s) : \/ i \in 1 .. Len(q) /\ s[i] = q[i]
                             \/ i - Len(q) \in 1 .. Len(r) /\ s[i] = r[i - Len(q)]
  BY <1>6
<1>10. ASSUME NEW type, Has(s, type) PROVE Has(q, type) \/ Has(r, type)
  <2>1. PICK i \in 1 .. Len(s) : s[i].type = type
    BY <1>10 DEF Has
  <2>2. CASE i \in 1 .. Len(q) /\ s[i] = q[i]
    BY <2>1, <2>2 DEF Has
  <2>3. CASE i - Len(q) \in 1 .. Len(r) /\ s[i] = r[i - Len(q)]
    BY <2>1, <2>3 DEF Has
  <2> QED
    BY <1>9, <2>2, <2>3
<1>11. ASSUME NEW type, Has(q, type) PROVE Has(s, type)
  BY <1>7, <1>11 DEF Has
<1>12. ASSUME NEW type, Has(r, type) PROVE Has(s, type)
  BY <1>8, <1>12 DEF Has
<1> QED
  BY <1>5, <1>10, <1>11, <1>12

\* The first packet of two queues, and what is left of them.
LEMMA HeadConcat ==
  ASSUME NEW q, Queue(q), q # <<>>, NEW r, Queue(r)
  PROVE  q \o r # <<>> /\ Head(q \o r) = Head(q) /\ Tail(q \o r) = Tail(q) \o r
<1>1. PICK S : q \in Seq(S)
  BY DEF Queue
<1>2. PICK T : r \in Seq(T)
  BY DEF Queue
<1>3. PICK U : U = S \cup T
  OBVIOUS
<1>4. q \in Seq(U) /\ r \in Seq(U)
  BY <1>1, <1>2, <1>3
<1>5. PICK s, t : s = q \o r /\ t = Tail(q)
  OBVIOUS
<1>6. /\ Len(s) = Len(q) + Len(r) /\ Len(q) \in Nat /\ Len(r) \in Nat /\ Len(q) # 0
      /\ \A i \in 1 .. Len(q) + Len(r) : s[i] = IF i <= Len(q) THEN q[i] ELSE r[i - Len(q)]
  BY <1>4, <1>5, ConcatProperties
<1>7. s \in Seq(U)
  BY <1>4, <1>5
<1>8. t \in Seq(U) /\ Len(t) = Len(q) - 1 /\ \A i \in 1 .. Len(t) : t[i] = q[i + 1]
  BY <1>4, <1>5, <1>6
<1>9. PICK x : x = t \o r
  OBVIOUS
<1>10. /\ x \in Seq(U) /\ Len(x) = Len(t) + Len(r)
       /\ \A i \in 1 .. Len(t) + Len(r) : x[i] = IF i <= Len(t) THEN t[i] ELSE r[i - Len(t)]
  BY <1>4, <1>8, <1>9, ConcatProperties
<1>11. PICK y : y = Tail(s)
  OBVIOUS
<1>12. s # <<>> /\ y \in Seq(U) /\ Len(y) = Len(s) - 1 /\ \A i \in 1 .. Len(y) : y[i] = s[i + 1]
  <2>1. s # <<>>
    BY <1>6, <1>7
  <2> QED
    BY <1>7, <1>11, <2>1
<1>13. Len(y) = Len(x)
  BY <1>6, <1>8, <1>10, <1>12
<1>14. ASSUME NEW i \in 1 .. Len(x) PROVE y[i] = x[i]
  <2>1. y[i] = IF i + 1 <= Len(q) THEN q[i + 1] ELSE r[i + 1 - Len(q)]
    BY <1>6, <1>12, <1>13
  <2>2. x[i] = IF i <= Len(t) THEN q[i + 1] ELSE r[i - Len(t)]
    BY <1>6, <1>8, <1>10
  <2>3. i + 1 - Len(q) = i - Len(t) /\ (i + 1 <= Len(q) <=> i <= Len(t))
    BY <1>6, <1>8
  <2> QED
    BY <2>1, <2>2, <2>3
<1>15. y = x
  BY <1>10, <1>12, <1>13, <1>14, SeqEqual
<1>16. Head(s) = Head(q)
  BY <1>4, <1>6, <1>7
<1> QED
  BY <1>5, <1>9, <1>11, <1>12, <1>15, <1>16

LEMMA QueuesConcat ==
  ASSUME NEW q, Queue(q), NEW r, Queue(r), NEW s, Queue(s)
  PROVE  (q \o r) \o s = q \o (r \o s) /\ <<>> \o q = q /\ q \o <<>> = q
<1>1. PICK S : q \in Seq(S)
  BY DEF Queue
<1>2. PICK T : r \in Seq(T)
  BY DEF Queue
<1>3. PICK V : s \in Seq(V)
  BY DEF Queue
<1>4. PICK U : U = (S \cup T) \cup V
  OBVIOUS
<1>5. q \in Seq(U) /\ r \in Seq(U) /\ s \in Seq(U)
  BY <1>1, <1>2, <1>3, <1>4
<1> QED
  BY <1>5, ConcatAssociative, ConcatEmptySeq

\* The page will hear that the team is marked, after a, and no other mark after that.
HearsMark(a, c, t) ==
  /\ AllMild(a) /\ AllMild(c) /\ toMaster = a \o c
  /\ c # <<>> /\ Head(c) = MarkTeamPacket(t, TRUE) /\ ~Has(Tail(c), "MARK_TEAM")
  /\ t \in Handled(copy, a).teams

\* The user does not want to be asked, or is asked, or will be.
Unmarks == Has(toServer, "MARK_TEAM") \/ Has(toServer, "SET_QUESTION")
IsAsked(t) == ~Has(toMaster, "MARK_TEAM") /\ (pane.dialog = t \/ pane.putOff = TRUE)
Asks(t) == Unmarks \/ (\E a, c : HearsMark(a, c, t)) \/ IsAsked(t)

HasDialog(p) == {"dialog", "confirms", "putOff"} \subseteq DOMAIN p

OneIsMarked ==
  /\ game.marked # {} => game.lock = TRUE /\ keypressLocked = TRUE
  /\ \A t, u \in game.marked : t = u

AskInv ==
  /\ DeskInv /\ HasDialog(pane) /\ OneIsMarked /\ IsFiniteSet(copy.game.marked)
  /\ \A t \in game.marked : Asks(t)

\* After a step that leaves no team marked, nobody needs to be asked.
LEMMA NobodyIsMarked ==
  ASSUME AskInv, DeskInv', UNCHANGED <<copy, pane>>, game'.marked = {}
  PROVE  AskInv'
BY DEF AskInv, OneIsMarked

\* The server's marks stay, and it tells the page nothing about them.
LEMMA MarksStay ==
  ASSUME AskInv, DeskInv', Answers, UNCHANGED <<copy, pane, keypressLocked>>,
         NEW h, game' = h, h.marked = game.marked, h.lock = game.lock,
         NEW x, sent'[master] = x, AllMild(x), ~Has(x, "MARK_TEAM"), Unmarks => Unmarks'
  PROVE  AskInv'
<1>1. HasDialog(pane') /\ OneIsMarked' /\ IsFiniteSet(copy'.game.marked)
  BY DEF AskInv, OneIsMarked
<1>2. PICK q : q = toMaster /\ AllMild(q) /\ toMaster' = q \o x
  BY DEF AskInv, DeskInv, PaneInv, Answers
<1>3. Queue(q) /\ Queue(x)
  BY <1>2, AskedQueue
<1>4. ASSUME NEW t \in game.marked PROVE Asks(t)'
  <2>1. Asks(t)
    BY DEF AskInv
  <2>2. CASE Unmarks
    BY <2>2 DEF Asks
  <2>3. ASSUME NEW a, NEW c, HearsMark(a, c, t) PROVE Asks(t)'
    <3>1. PICK d : d = c \o x
      OBVIOUS
    <3>2. Queue(a) /\ Queue(c) /\ c # <<>> /\ q = a \o c
      BY <1>2, <2>3, AskedQueue DEF HearsMark
    <3>3. (a \o c) \o x = a \o d
      BY <1>3, <3>1, <3>2, QueuesConcat
    <3>4. AllMild(d)
      BY <2>3, <3>1, MildQueues DEF HearsMark
    <3>5. d # <<>> /\ Head(d) = Head(c) /\ Tail(d) = Tail(c) \o x
      BY <1>3, <3>1, <3>2, HeadConcat
    <3>6. Queue(Tail(c))
      <4>1. AllMild(Tail(c))
        BY <2>3, MildHead DEF HearsMark
      <4> QED
        BY <4>1, AskedQueue
    <3>7. ~Has(Tail(d), "MARK_TEAM")
      <4>1. PICK r : r = Tail(c) /\ Queue(r) /\ ~Has(r, "MARK_TEAM")
        BY <2>3, <3>6 DEF HearsMark
      <4>2. ~Has(r \o x, "MARK_TEAM")
        BY <1>3, <4>1, HasConcat
      <4> QED
        BY <3>5, <4>1, <4>2
    <3>8. HearsMark(a, d, t)'
      BY <1>2, <2>3, <3>2, <3>3, <3>4, <3>5, <3>7 DEF HearsMark
    <3> QED
      BY <3>8 DEF Asks
  <2>4. CASE IsAsked(t)
    <3>1. ~Has(q \o x, "MARK_TEAM")
      BY <1>2, <1>3, <2>4, HasConcat DEF IsAsked
    <3> QED
      BY <1>2, <2>4, <3>1 DEF IsAsked, Asks
  <2> QED
    BY <2>1, <2>2, <2>3, <2>4 DEF Asks
<1> QED
  BY <1>1, <1>4 DEF AskInv

\* A buzzer is pressed.
LEMMA PressedAsks ==
  ASSUME AskInv, DeskInv', Pressed
  PROVE  AskInv'
<1>1. Buzzers /\ Answers /\ UNCHANGED <<copy, pane, toServer>> /\ HasDialog(pane') /\ IsFiniteSet(copy'.game.marked)
  BY DEF Pressed, AskInv
<1>2. /\ Seated /\ GameFields \subseteq DOMAIN game /\ AllMild(toMaster) /\ game.marked \subseteq teams
      /\ Agrees(Handled(copy, toMaster), toServer, teams, game)
  BY DEF AskInv, DeskInv, PaneInv
<1>3. PICK x : x = sent'[master] /\ AllMild(x)
  BY <1>1, <1>2, PressMild
<1>4. ASSUME game' = Released(game) PROVE AskInv'
  BY <1>1, <1>2, <1>4, ReleasedFields, NobodyIsMarked
<1>5. ASSUME TellNobody, UNCHANGED <<game, keypressLocked>> PROVE AskInv'
  <2>1. x = <<>>
    BY <1>2, <1>3, <1>5 DEF TellNobody, Seated, Conn
  <2>2. ~Has(x, "MARK_TEAM")
    BY <2>1 DEF Has
  <2>3. Unmarks => Unmarks'
    BY <1>1 DEF Unmarks
  <2> QED
    BY <1>1, <1>3, <1>5, <2>2, <2>3, MarksStay
<1>6. ASSUME NEW t \in teams, LockOnTeam(t), ~keypressLocked PROVE AskInv'
  <2>1. PICK m, q, p1, p2, p3 :
          /\ game' = [game EXCEPT !.lock = TRUE, !.marked = @ \cup {t}, !.media = m] /\ keypressLocked' = TRUE
          /\ q = toMaster /\ p1 = MarkTeamPacket(t, TRUE) /\ p2 = BuzzerLockPacket(TRUE) /\ p3 = MediaStatePacket(m)
          /\ \E b : Tell(Append(<<p1, p2>>, p3), b)
    BY <1>6 DEF LockOnTeam
  <2>2. game.marked = {}
    BY <1>6 DEF AskInv, OneIsMarked
  <2>3. game'.lock = TRUE /\ game'.marked = {t}
    BY <1>2, <2>1, <2>2 DEF GameFields
  <2>4. OneIsMarked'
    BY <2>1, <2>3 DEF OneIsMarked
  <2>5. x = <<p1, p2, p3>>
    <3>1. x = Append(<<p1, p2>>, p3)
      BY <1>2, <1>3, <2>1, MasterHears
    <3>2. <<p1, p2>> \o <<p3>> = <<p1, p2, p3>>
      BY TwoAndOne
    <3>3. Append(<<p1, p2>>, p3) = <<p1, p2>> \o <<p3>>
      BY Queues, RequestsMore
    <3> QED
      BY <3>1, <3>2, <3>3
  <2>6. x # <<>> /\ Head(x) = p1 /\ Tail(x) = <<p2, p3>>
    BY <2>5
  <2>7. ~Has(<<p2, p3>>, "MARK_TEAM")
    <3>1. PICK r : r = <<p2, p3>>
      OBVIOUS
    <3>2. Len(r) = 2 /\ r[1] = p2 /\ r[2] = p3
      BY <3>1
    <3>3. p2.type # "MARK_TEAM" /\ p3.type # "MARK_TEAM"
      BY <2>1 DEF BuzzerLockPacket, MediaStatePacket
    <3>4. \A i \in 1 .. 2 : i = 1 \/ i = 2
      OBVIOUS
    <3> QED
      BY <3>1, <3>2, <3>3, <3>4 DEF Has
  <2>8. t \in Handled(copy, q).teams
    BY <1>2, <2>1 DEF Agrees
  <2>9. HearsMark(q, x, t)'
    BY <1>1, <1>2, <1>3, <2>1, <2>6, <2>7, <2>8 DEF HearsMark, Answers
  <2>10. Asks(t)'
    BY <2>9 DEF Asks
  <2> QED
    BY <1>1, <2>3, <2>4, <2>10 DEF AskInv
<1>7. ASSUME KeypressRelease \/ SerialRelease PROVE AskInv'
  BY <1>4, <1>7 DEF KeypressRelease, SerialRelease
<1>8. ASSUME NEW t, KeypressTeam(t) PROVE AskInv'
  BY <1>6, <1>8 DEF KeypressTeam, TeamsWithCode
<1>9. ASSUME NEW t, SerialPress(t) PROVE AskInv'
  BY <1>5, <1>6, <1>9 DEF SerialPress, TeamsWithCode
<1>10. ASSUME NEW pressed, UdpBuzzerPress(pressed) PROVE AskInv'
  BY <1>6, <1>10 DEF UdpBuzzerPress
<1> QED
  BY <1>1, <1>7, <1>8, <1>9, <1>10 DEF Buzzers

\* The page handles a packet.
LEMMA ReceiveAsks ==
  ASSUME AskInv, DeskInv', PageReceivesPacket
  PROVE  AskInv'
<1>1. PICK v, q, p, w, r : v = copy /\ q = toMaster /\ p = Head(q) /\ w = OnShownPage(v, p) /\ r = Tail(q)
  OBVIOUS
<1>2. /\ q # <<>> /\ copy' = w /\ toMaster' = r /\ UNCHANGED <<world, toServer>>
      /\ pane' = PaneAfter(pane, w, p)
  BY <1>1 DEF PageReceivesPacket
<1>3. OnPage(v) /\ AllMild(q) /\ HasDialog(pane) /\ Queue(q)
  BY <1>1, AskedQueue DEF AskInv, DeskInv, PaneInv
<1>4. Mild(p)
  BY <1>1, <1>2, <1>3, MildHead
<1>5. onMessage(v, p) = w
  BY <1>1, <1>3, <1>4 DEF onMessage, OnPage, Mild
<1>6. HasDialog(pane')
  BY <1>2, <1>3 DEF PaneAfter, handleMarkTeam, handleAnswerSetState, Activated, closeGradeDialog, openGradeDialog, HasDialog
<1>7. p.type # "MARK_TEAM" => pane'.dialog = pane.dialog /\ pane'.putOff = pane.putOff
  BY <1>2, <1>3 DEF PaneAfter, handleAnswerSetState, Activated, HasDialog
<1>8. IsFiniteSet(w.game.marked)
  <2>1. PICK b : b = v.game.marked /\ IsFiniteSet(b)
    BY <1>1 DEF AskInv
  <2>2. After(v, p, w)
    BY <1>3, <1>4, <1>5, FieldsAfter
  <2>3. "marked" \in DOMAIN v.game
    BY <1>3 DEF OnPage, GameFields
  <2>4. w.game.marked \in {b, {}, b \cup {p.team}, b \ {p.team}, b \cap p.teams}
    BY <2>1, <2>2, <2>3 DEF After, applyMarkTeam
  <2>5. IsFiniteSet(b \cup {p.team}) /\ IsFiniteSet({})
    BY <2>1, FS_AddElement, FS_EmptySet
  <2>6. IsFiniteSet(b \cap p.teams) /\ IsFiniteSet(b \ {p.team})
    BY <2>1, FS_Subset
  <2> QED
    BY <2>1, <2>4, <2>5, <2>6
<1>9. UNCHANGED <<game, keypressLocked, toServer>> /\ OneIsMarked'
  BY <1>2 DEF AskInv, OneIsMarked, world, vars, play
<1>10. ASSUME NEW t \in game.marked PROVE Asks(t)'
  <2>1. Asks(t)
    BY DEF AskInv
  <2>2. CASE Unmarks
    BY <1>9, <2>2 DEF Asks, Unmarks
  <2>3. CASE IsAsked(t)
    <3>1. ~Has(r, "MARK_TEAM") /\ p.type # "MARK_TEAM"
      BY <1>1, <1>2, <1>3, <2>3, RequestsTail DEF IsAsked
    <3> QED
      BY <1>2, <1>7, <2>3, <3>1 DEF IsAsked, Asks
  <2>4. ASSUME NEW a, NEW c, HearsMark(a, c, t) PROVE Asks(t)'
    <3>1. Queue(a) /\ Queue(c) /\ c # <<>> /\ q = a \o c
      BY <1>1, <2>4, AskedQueue DEF HearsMark
    <3>2. CASE a = <<>>
      <4>1. q = c /\ p = MarkTeamPacket(t, TRUE)
        BY <1>1, <2>4, <3>1, <3>2, QueuesConcat DEF HearsMark
      <4>2. ~Has(r, "MARK_TEAM")
        BY <1>1, <2>4, <4>1 DEF HearsMark
      <4>3. p.type = "MARK_TEAM" /\ p.unmarkAll = FALSE /\ p.mark = TRUE /\ p.team = t
        BY <4>1 DEF MarkTeamPacket
      <4>4. t \in v.teams
        BY <1>1, <2>4, <3>2, HandledNone DEF HearsMark
      <4>5. w.teams = v.teams
        <5>1. After(v, p, w)
          BY <1>3, <1>4, <1>5, FieldsAfter
        <5> QED
          BY <4>3, <5>1 DEF After
      <4>6. pane'.dialog = t
        <5>1. pane' = openGradeDialog(pane, w, t)
          BY <1>2, <4>3 DEF PaneAfter, handleMarkTeam
        <5> QED
          BY <1>3, <4>4, <4>5, <5>1 DEF openGradeDialog, HasDialog
      <4> QED
        BY <1>2, <4>2, <4>6 DEF IsAsked, Asks
    <3>3. CASE a # <<>>
      <4>1. PICK d : d = Tail(a)
        OBVIOUS
      <4>2. p = Head(a) /\ r = d \o c
        BY <1>1, <3>1, <3>3, <4>1, HeadConcat
      <4>3. AllMild(d)
        BY <2>4, <3>3, <4>1, MildHead DEF HearsMark
      <4>4. Handled(v, a) = Handled(w, d)
        <5>1. PICK S : a \in Seq(S)
          BY <3>1 DEF Queue
        <5>2. Handled(v, a) = Handled(onMessage(v, Head(a)), Tail(a))
          BY <3>3, <5>1, HandledHead
        <5> QED
          BY <1>5, <4>1, <4>2, <5>2
      <4>5. HearsMark(d, c, t)'
        BY <1>1, <1>2, <2>4, <4>2, <4>3, <4>4 DEF HearsMark
      <4> QED
        BY <4>5 DEF Asks
    <3> QED
      BY <3>2, <3>3
  <2> QED
    BY <2>1, <2>2, <2>3, <2>4 DEF Asks
<1> QED
  BY <1>2, <1>6, <1>8, <1>9, <1>10 DEF AskInv

\* The server handles a request.
LEMMA HandlesAsks ==
  ASSUME AskInv, DeskInv', ServerHandles
  PROVE  AskInv'
<1>1. PICK q, m, r, g : q = toServer /\ m = Head(q) /\ r = Tail(q) /\ g = game
  OBVIOUS
<1>2. q # <<>> /\ Handles(m) /\ Answers /\ toServer' = r /\ UNCHANGED <<copy, pane>> /\ HasDialog(pane')
  BY <1>1 DEF ServerHandles, AskInv
<1>3. Seated /\ GameFields \subseteq DOMAIN g /\ Asked(m) /\ Queue(q)
  BY <1>1, <1>2, AskedQueues, AskedQueue DEF AskInv, DeskInv, PaneInv
<1>4. PICK x : x = sent'[master] /\ AllMild(x)
  BY <1>2, <1>3, HandlesMild
<1>5. ASSUME game'.marked = {} PROVE AskInv'
  BY <1>2, <1>5, NobodyIsMarked
<1>6. ASSUME NEW k, game' = Released(k), GameFields \subseteq DOMAIN k PROVE AskInv'
  BY <1>5, <1>6, ReleasedFields
<1>7. ASSUME m.type \notin {"MARK_TEAM", "SET_QUESTION"}, UNCHANGED keypressLocked, ~Has(x, "MARK_TEAM"),
             NEW h, game' = h, h.marked = g.marked, h.lock = g.lock
      PROVE  AskInv'
  <2>1. Unmarks => Unmarks'
    BY <1>1, <1>2, <1>3, <1>7, RequestsTail DEF Unmarks
  <2> QED
    BY <1>1, <1>2, <1>4, <1>7, <2>1, MarksStay
<1>8. ~Has(<<>>, "MARK_TEAM")
  <2>1. Len(<<>>) = 0
    OBVIOUS
  <2> QED
    BY <2>1 DEF Has
<1>9. ASSUME NEW p, p.type # "MARK_TEAM" PROVE ~Has(<<p>>, "MARK_TEAM")
  <2>1. PICK s : s = <<p>>
    OBVIOUS
  <2>2. Len(s) = 1 /\ s[1] = p
    BY <2>1
  <2> QED
    BY <1>9, <2>1, <2>2 DEF Has
<1>10. CASE m.type = "TEAM_SET_POINTS"
  <2>1. TeamSetPoints(m.team, m.total)
    BY <1>2, <1>10 DEF Handles
  <2>2. UNCHANGED <<game, keypressLocked>> /\ \E b : Tell(<<>>, b)
    BY <2>1 DEF TeamSetPoints
  <2>3. x = <<>>
    BY <1>3, <1>4, <2>2, MasterHears
  <2> QED
    BY <1>1, <1>7, <1>8, <1>10, <2>2, <2>3
<1>11. CASE m.type = "MARK_TEAM"
  <2>1. UnmarkAllTeams
    BY <1>2, <1>11 DEF Handles
  <2>2. game'.marked = {}
    BY <1>1, <1>3, <2>1 DEF UnmarkAllTeams, GameFields
  <2> QED
    BY <1>5, <2>2
<1>12. CASE m.type = "ANSWER_SET_STATE"
  <2>1. PICK o, s : AnswerSetState(s, o)
    BY <1>2, <1>12 DEF Handles
  <2>2. PICK h : h = ApplyAnswers(g, s, {o}) /\ GameFields \subseteq DOMAIN h
    BY <1>3, GameChanges
  <2>3. \/ game' = Released(h)
        \/ game' = h /\ UNCHANGED keypressLocked /\ \E b : Tell(<<>>, b)
    BY <1>1, <2>1, <2>2 DEF AnswerSetState
  <2>4. h.lock = g.lock /\ h.marked = g.marked
    BY <1>3, <2>2 DEF ApplyAnswers, GameFields
  <2>5. CASE game' = h /\ UNCHANGED keypressLocked /\ \E b : Tell(<<>>, b)
    <3>1. x = <<>>
      BY <1>3, <1>4, <2>5, MasterHears
    <3> QED
      BY <1>7, <1>8, <1>12, <2>4, <2>5, <3>1
  <2> QED
    BY <1>6, <2>2, <2>3, <2>5
<1>13. CASE m.type = "SET_QUESTION"
  <2>1. PICK n : SetQuestion(n)
    BY <1>2, <1>13 DEF Handles
  <2>2. PICK w : /\ w = [g EXCEPT !.welcome = FALSE, !.lock = FALSE,
                                   !.question = IF questions = 0 THEN @ ELSE n,
                                   !.marked = {}, !.logged = {}, !.activated = {}]
                 /\ game' = w \/ game' = [w EXCEPT !.media = InitialMedia[n]]
    BY <1>1, <2>1 DEF SetQuestion
  <2>3. w.marked = {} /\ "marked" \in DOMAIN w
    BY <1>3, <2>2 DEF GameFields
  <2>4. game'.marked = {}
    BY <2>2, <2>3
  <2> QED
    BY <1>5, <2>4
<1>14. CASE m.type = "SET_BUZZER_LOCK"
  <2>1. SetBuzzerLock(FALSE)
    BY <1>2, <1>3, <1>14 DEF Handles, Asked
  <2> QED
    BY <1>1, <1>3, <1>6, <2>1 DEF SetBuzzerLock
<1>15. CASE m.type = "UPDATE_TEAMS"
  <2>1. PICK us : UpdateTeams(us)
    BY <1>2, <1>15 DEF Handles
  <2>2. \/ game' = Released(g)
        \/ /\ UNCHANGED <<game, keypressLocked>>
           /\ \E p : p.type # "MARK_TEAM" /\ ((\E b : Tell(<<p>>, b)) \/ TellAll(<<>> \o <<p>>))
    <3>1. \A ts, ps : TeamsPacket(ts, ps).type # "MARK_TEAM"
      BY DEF TeamsPacket
    <3>2. CASE ~TeamsOk(us)
      BY <2>1, <3>1, <3>2 DEF UpdateTeams
    <3>3. CASE TeamsOk(us) /\ game.marked \subseteq us
      BY <2>1, <3>1, <3>3 DEF UpdateTeams
    <3>4. CASE TeamsOk(us) /\ ~(game.marked \subseteq us)
      BY <1>1, <2>1, <3>4 DEF UpdateTeams
    <3> QED
      BY <3>2, <3>3, <3>4
  <2>3. ASSUME UNCHANGED <<game, keypressLocked>>, NEW p, p.type # "MARK_TEAM",
               (\E b : Tell(<<p>>, b)) \/ TellAll(<<>> \o <<p>>)
        PROVE  AskInv'
    <3>1. <<>> \o <<p>> = <<p>>
      OBVIOUS
    <3>2. \E b : Tell(<<p>>, b)
      BY <2>3, <3>1 DEF TellAll
    <3>3. x = <<p>>
      BY <1>3, <1>4, <3>2, MasterHears
    <3> QED
      BY <1>1, <1>7, <1>9, <1>15, <2>3, <3>3
  <2> QED
    BY <1>3, <1>6, <2>2, <2>3
<1>16. CASE m.type = "GRADE_ANSWER" /\ m.team \notin teams
  <2>1. UNCHANGED <<game, keypressLocked>> /\ TellNobody
    BY <1>2, <1>16 DEF Handles, IgnorePacket, play
  <2>2. x = <<>>
    BY <1>3, <1>4, <2>1 DEF TellNobody, Seated, Conn
  <2> QED
    BY <1>1, <1>7, <1>8, <1>16, <2>1, <2>2
<1>17. CASE m.type = "GRADE_ANSWER" /\ m.team \in teams
  <2>1. PICK t, result, o : GradeAnswer(t, result, o, TRUE)
    BY <1>2, <1>17 DEF Handles
  <2>2. PICK n, some, p1, p2, p3 :
          /\ p1 = PointsPacket(t, n) /\ p2 = AnswersPacket("ACTIVATE", some) /\ p3 = GradePacket(t, result)
          /\ IF result = "WRONG" THEN game' = Released(ApplyAnswers(game, "ACTIVATE", some))
                                 ELSE game' = ApplyAnswers(game, "ACTIVATE", some) /\ UNCHANGED keypressLocked
          /\ TellAll(<<p1, p2>> \o (IF result = "WRONG" THEN ReleasePackets ELSE <<>>) \o <<p3>>)
    BY <2>1 DEF GradeAnswer
  <2>3. PICK h : h = ApplyAnswers(g, "ACTIVATE", some) /\ GameFields \subseteq DOMAIN h
    BY <1>3, GameChanges
  <2>4. h.lock = g.lock /\ h.marked = g.marked
    BY <1>3, <2>3 DEF ApplyAnswers, GameFields
  <2>5. CASE result = "WRONG"
    BY <1>1, <1>6, <2>2, <2>3, <2>5
  <2>6. CASE result # "WRONG"
    <3>1. game' = h /\ UNCHANGED keypressLocked /\ TellAll((<<p1, p2>> \o <<>>) \o <<p3>>)
      BY <1>1, <2>2, <2>3, <2>6
    <3>2. x = (<<p1, p2>> \o <<>>) \o <<p3>>
      BY <1>3, <1>4, <3>1, MasterHears DEF TellAll
    <3>3. <<p1, p2>> = <<p1>> \o <<p2>>
      <4>1. PICK y1, y2, y : y1 = <<p1>> /\ y2 = <<p2>> /\ y = <<p1, p2>>
        OBVIOUS
      <4>2. PICK U : U = {p1, p2}
        OBVIOUS
      <4>3. y1 \in Seq(U) /\ y2 \in Seq(U) /\ y \in Seq(U)
        BY <4>1, <4>2
      <4>4. Len(y1) = 1 /\ Len(y2) = 1 /\ Len(y) = 2 /\ y1[1] = p1 /\ y2[1] = p2 /\ y[1] = p1 /\ y[2] = p2
        BY <4>1
      <4>5. PICK z : z = y1 \o y2
        OBVIOUS
      <4>6. z \in Seq(U) /\ Len(z) = 1 + 1 /\ \A i \in 1 .. 1 + 1 : z[i] = IF i <= 1 THEN y1[i] ELSE y2[i - 1]
        BY <4>3, <4>4, <4>5, ConcatProperties
      <4>7. \A i \in 1 .. Len(y) : y[i] = z[i]
        <5>1. z[1] = p1 /\ z[2] = p2
          BY <4>4, <4>6
        <5>2. \A i \in 1 .. 2 : i = 1 \/ i = 2
          OBVIOUS
        <5> QED
          BY <4>4, <5>1, <5>2
      <4>8. y = z
        BY <4>3, <4>4, <4>6, <4>7, SeqEqual
      <4> QED
        BY <4>1, <4>5, <4>8
    <3>4. Queue(<<p1>>) /\ Queue(<<p2>>) /\ Queue(<<p1, p2>>) /\ Queue(<<p3>>)
      BY Queues
    <3>5. <<p1, p2>> \o <<>> = <<p1, p2>>
      BY <3>4, QueuesConcat
    <3>6. p1.type # "MARK_TEAM" /\ p2.type # "MARK_TEAM" /\ p3.type # "MARK_TEAM"
      BY <2>2 DEF PointsPacket, AnswersPacket, GradePacket
    <3>7. ~Has(<<p1>>, "MARK_TEAM") /\ ~Has(<<p2>>, "MARK_TEAM") /\ ~Has(<<p3>>, "MARK_TEAM")
      BY <1>9, <3>6
    <3>8. ~Has(<<p1>> \o <<p2>>, "MARK_TEAM")
      BY <3>4, <3>7, HasConcat
    <3>9. PICK y : y = <<p1, p2>> /\ Queue(y) /\ ~Has(y, "MARK_TEAM")
      BY <3>3, <3>4, <3>8
    <3>10. ~Has(y \o <<p3>>, "MARK_TEAM")
      BY <3>4, <3>7, <3>9, HasConcat
    <3>11. ~Has(x, "MARK_TEAM")
      BY <3>2, <3>5, <3>9, <3>10
    <3> QED
      BY <1>7, <1>17, <2>4, <3>1, <3>11
  <2> QED
    BY <2>5, <2>6
<1> QED
  BY <1>3, <1>10, <1>11, <1>12, <1>13, <1>14, <1>15, <1>16, <1>17 DEF Asked

\* A page that hears of no mark does not mark more teams.
LEMMA MarksOnlyGo ==
  ASSUME NEW v, OnPage(v), NEW q, AllMild(q), ~Has(q, "MARK_TEAM")
  PROVE  Handled(v, q).game.marked \subseteq v.game.marked
<1>1. PICK S : q \in Seq(S) /\ \A p \in S : Mild(p)
  BY DEF AllMild
<1>2. PICK f : IsRun(f, v, q) /\ Handled(v, q) = f[Len(q)]
  BY <1>1, HandledIsRun
<1>3. PICK l : l = Len(q) /\ l \in Nat /\ \A n \in 1 .. l : Mild(q[n]) /\ q[n].type # "MARK_TEAM"
  BY <1>1 DEF Has
<1>4. f[0] = v /\ \A n \in 1 .. l : f[n] = onMessage(f[n - 1], q[n])
  <2>1. \A n \in 0 .. l : f[n] = IF n = 0 THEN v ELSE onMessage(f[n - 1], q[n])
    BY <1>2, <1>3 DEF IsRun
  <2>2. 0 \in 0 .. l /\ \A n \in 1 .. l : n \in 0 .. l /\ n # 0
    BY <1>3
  <2> QED
    BY <2>1, <2>2
<1> DEFINE More == {n \in 0 .. l : ~(OnPage(f[n]) /\ f[n].game.marked \subseteq v.game.marked)}
<1>5. SUFFICES More = {}
  <2>1. l \in 0 .. l
    BY <1>3
  <2> QED
    BY <1>2, <1>3, <1>5, <2>1
<1>6. SUFFICES ASSUME More # {}
               PROVE  FALSE
  OBVIOUS
<1>7. PICK k \in More : \A j \in More : k <= j
  <2>1. More \subseteq Nat
    BY <1>3
  <2> HIDE DEF More
  <2> QED
    BY <1>6, <2>1, LeastOf
<1>8. k \in 0 .. l /\ ~(OnPage(f[k]) /\ f[k].game.marked \subseteq v.game.marked)
  OBVIOUS
<1>9. k # 0
  BY <1>4, <1>8
<1>10. PICK j : j = k - 1 /\ j \in 0 .. l /\ j < k /\ k \in 1 .. l
  BY <1>3, <1>8, <1>9
<1>11. j \notin More
  BY <1>3, <1>7, <1>10
<1>12. OnPage(f[j]) /\ f[j].game.marked \subseteq v.game.marked
  BY <1>10, <1>11
<1>13. PICK x, y, p : x = f[j] /\ y = f[k] /\ p = q[k] /\ y = onMessage(x, p) /\ Mild(p) /\ p.type # "MARK_TEAM"
  BY <1>3, <1>4, <1>10
<1>14. After(x, p, y)
  BY <1>12, <1>13, FieldsAfter
<1>15. OnPage(y) /\ y.game.marked \subseteq x.game.marked
  BY <1>13, <1>14 DEF After
<1> QED
  BY <1>8, <1>12, <1>13, <1>15

\* The user does something: what the dialog does then, if a team waits for it.
LEMMA UserAsks ==
  ASSUME AskInv, DeskInv', UNCHANGED <<world, toMaster>>, HasDialog(pane'), IsFiniteSet(copy'.game.marked),
         Unmarks => Unmarks',
         Unmarks' \/ \A t : \A a, c : HearsMark(a, c, t) => HearsMark(a, c, t)',
         Unmarks' \/ \A t \in game.marked : IsAsked(t) => IsAsked(t)'
  PROVE  AskInv'
<1>1. UNCHANGED <<game, keypressLocked>> /\ OneIsMarked'
  BY DEF AskInv, OneIsMarked, world, vars, play
<1>2. ASSUME NEW t \in game.marked PROVE Asks(t)'
  <2>1. Asks(t)
    BY DEF AskInv
  <2>2. CASE Unmarks'
    BY <2>2 DEF Asks
  <2>3. CASE ~Unmarks'
    <3>1. ASSUME NEW a, NEW c, HearsMark(a, c, t) PROVE Asks(t)'
      BY <2>3, <3>1 DEF Asks
    <3>2. ASSUME IsAsked(t) PROVE Asks(t)'
      BY <2>3, <3>2 DEF Asks
    <3>3. ASSUME Unmarks PROVE Asks(t)'
      BY <2>3, <3>3
    <3> QED
      BY <2>1, <3>1, <3>2, <3>3 DEF Asks
  <2> QED
    BY <2>2, <2>3
<1> QED
  BY <1>1, <1>2 DEF AskInv

\* What is sent keeps what was asked for before.
LEMMA SendAsks ==
  ASSUME AskInv, NEW x, Queue(x), send(x)
  PROVE  /\ Unmarks => Unmarks'
         /\ Has(x, "MARK_TEAM") \/ Has(x, "SET_QUESTION") => Unmarks'
<1>1. PICK q : q = toServer /\ Queue(q) /\ toServer' = q \o x
  BY AskedQueue DEF AskInv, DeskInv, PaneInv, send
<1> QED
  BY <1>1, HasConcat DEF Unmarks

\* What the user changes of the game does not change the teams the page will show.
LEMMA TeamsStayShown ==
  ASSUME AskInv, DeskInv', UNCHANGED toMaster,
         NEW g, copy' = [copy EXCEPT !.game = g] \/ copy' = [copy EXCEPT !.points = g]
  PROVE  \A t : \A a, c : HearsMark(a, c, t) => HearsMark(a, c, t)'
<1>1. PICK v, w : v = copy' /\ w = copy
  OBVIOUS
<1>2. OnPage(v) /\ OnPage(w)
  BY <1>1 DEF AskInv, DeskInv
<1>3. v.teams = w.teams
  BY <1>1, <1>2 DEF OnPage, IsPage, Page
<1>4. PICK F, A : F = {} /\ A = v.game.logged
  OBVIOUS
<1>5. Near(v, w, v, F, A)
  BY <1>2, <1>3, <1>4 DEF Near
<1>6. ASSUME NEW a, AllMild(a) PROVE Handled(v, a).teams = Handled(w, a).teams
  <2>1. Near(Handled(v, a), Handled(w, a), v, F, A)
    BY <1>5, <1>6, NearHandled
  <2> QED
    BY <2>1 DEF Near
<1>7. ASSUME NEW t, NEW a, NEW c, HearsMark(a, c, t) PROVE HearsMark(a, c, t)'
  BY <1>1, <1>6, <1>7 DEF HearsMark
<1> QED
  BY <1>7

LEMMA UserDoesAsks ==
  ASSUME AskInv, DeskInv', UserDoes
  PROVE  AskInv'
<1>1. /\ HasDialog(pane) /\ IsFiniteSet(copy.game.marked) /\ OnPage(copy) /\ AllMild(toMaster)
      /\ GameFields \subseteq DOMAIN copy.game /\ "game" \in DOMAIN copy
  BY DEF AskInv, DeskInv, PaneInv, OnPage, HasGame
\* the copy, or the dialog, does not change
<1>2. UNCHANGED <<copy, toMaster>> => \A t : \A a, c : HearsMark(a, c, t) => HearsMark(a, c, t)'
  BY DEF HearsMark
<1>3. UNCHANGED toServer => (Unmarks => Unmarks')
  BY DEF Unmarks
<1>4. ASSUME UNCHANGED toMaster, HasDialog(pane'),
             (pane'.dialog = pane.dialog /\ pane'.putOff = pane.putOff) \/ pane'.putOff = TRUE
      PROVE  \A t \in game.marked : IsAsked(t) => IsAsked(t)'
  BY <1>4 DEF IsAsked
<1>5. ASSUME UNCHANGED <<world, toMaster, copy>>, HasDialog(pane'), Unmarks => Unmarks',
             (pane'.dialog = pane.dialog /\ pane'.putOff = pane.putOff) \/ pane'.putOff = TRUE
      PROVE  AskInv'
  BY <1>1, <1>2, <1>4, <1>5, UserAsks
<1>6. \A b : Queue(<<BuzzerLockPacket(b)>>)
  BY Queues
<1>7. releaseBuzzerLock \/ UNCHANGED toServer => (Unmarks => Unmarks')
  BY <1>3, <1>6, SendAsks DEF releaseBuzzerLock
<1>8. ASSUME UNCHANGED <<world, toMaster>>, HasDialog(pane'), IsFiniteSet(copy'.game.marked), Unmarks'
      PROVE  AskInv'
  BY <1>8, UserAsks
<1>9. ASSUME NEW t, NEW n, addPoints(t, n) PROVE AskInv'
  <2>1. PICK p : send(<<p>>) /\ Queue(<<p>>)
    BY <1>9, Queues DEF addPoints
  <2>2. PICK k : UNCHANGED <<world, toMaster, pane>> /\ copy' = [copy EXCEPT !.points = [@ EXCEPT ![t] = k]]
    BY <1>9 DEF addPoints, Uses
  <2>3. Unmarks => Unmarks'
    BY <2>1, SendAsks
  <2>4. copy'.game = copy.game
    BY <1>1, <2>2
  <2>5. \A u : \A a, c : HearsMark(a, c, u) => HearsMark(a, c, u)'
    <3>1. PICK ns : copy' = [copy EXCEPT !.points = ns]
      BY <2>2
    <3> QED
      BY <2>2, <3>1, TeamsStayShown
  <2>6. \A u \in game.marked : IsAsked(u) => IsAsked(u)'
    BY <1>1, <1>4, <2>2
  <2> QED
    BY <1>1, <2>2, <2>3, <2>4, <2>5, <2>6, UserAsks
<1>10. ASSUME NEW n, UNCHANGED <<world, toMaster>>, copy' = [copy EXCEPT !.game = AtQuestion(copy.game, n)], HasDialog(pane'),
              send(<<UnmarkAllPacket, SetQuestionPacket(n)>>) \/ send(<<SetQuestionPacket(n)>>)
       PROVE  AskInv'
  <2>1. copy'.game.marked = {}
    BY <1>1, <1>10 DEF AtQuestion, GameFields
  <2>2. IsFiniteSet(copy'.game.marked)
    BY <2>1, FS_EmptySet
  <2>3. PICK p, u : p = SetQuestionPacket(n) /\ u = UnmarkAllPacket /\ p.type = "SET_QUESTION"
    <3>1. SetQuestionPacket(n).type = "SET_QUESTION"
      BY DEF SetQuestionPacket
    <3> QED
      BY <3>1
  <2>4. PICK x : (x = <<u, p>> \/ x = <<p>>) /\ send(x)
    BY <1>10, <2>3
  <2>5. Queue(x)
    BY <2>4, Queues
  <2>6. Has(x, "SET_QUESTION")
    <3>1. x[Len(x)] = p /\ Len(x) \in 1 .. Len(x)
      BY <2>4
    <3> QED
      BY <2>3, <3>1 DEF Has
  <2>7. Unmarks'
    BY <2>4, <2>5, <2>6, SendAsks
  <2> QED
    BY <1>8, <1>10, <2>2, <2>7
<1>11. ASSUME NEW n, Uses("page"), GoesTo(n) PROVE AskInv'
  <2>1. HasDialog(pane')
    BY <1>1, <1>11 DEF GoesTo, ResetPane, HasDialog
  <2> QED
    BY <1>10, <1>11, <2>1 DEF GoesTo, Uses
<1>12. ASSUME beginGame PROVE AskInv'
  <2>1. HasDialog(pane')
    BY <1>1, <1>12 DEF beginGame, ResetPane, HasDialog
  <2> QED
    BY <1>10, <1>12, <2>1 DEF beginGame, Uses
<1>13. ASSUME NEW a, onClickAnswer(a) PROVE AskInv'
  <2>1. UNCHANGED <<world, toMaster, copy, toServer>> /\ pane' = [pane EXCEPT !.sheet = a, !.picked = a \in pane.logged]
    BY <1>13 DEF onClickAnswer, Uses
  <2>2. HasDialog(pane') /\ pane'.dialog = pane.dialog /\ pane'.putOff = pane.putOff
    BY <1>1, <2>1 DEF HasDialog
  <2> QED
    BY <1>3, <1>5, <2>1, <2>2
<1>14. ASSUME LeavesAnswer PROVE AskInv'
  <2>1. UNCHANGED <<world, toMaster, copy, toServer>> /\ pane' = [pane EXCEPT !.sheet = None, !.picked = FALSE]
    BY <1>14 DEF LeavesAnswer, Uses
  <2>2. HasDialog(pane') /\ pane'.dialog = pane.dialog /\ pane'.putOff = pane.putOff
    BY <1>1, <2>1 DEF HasDialog
  <2> QED
    BY <1>3, <1>5, <2>1, <2>2
\* what the user does to an answer changes the game that the page shows
<1>15. ASSUME UNCHANGED <<world, toMaster>>, NEW g, copy' = [copy EXCEPT !.game = g], g.marked = copy.game.marked,
              HasDialog(pane'), pane'.dialog = pane.dialog /\ pane'.putOff = pane.putOff, Unmarks => Unmarks'
       PROVE  AskInv'
  <2>1. copy'.game = g
    BY <1>1, <1>15
  <2>2. IsFiniteSet(copy'.game.marked)
    BY <1>1, <1>15, <2>1
  <2>3. \A t : \A a, c : HearsMark(a, c, t) => HearsMark(a, c, t)'
    BY <1>15, TeamsStayShown
  <2>4. \A t \in game.marked : IsAsked(t) => IsAsked(t)'
    BY <1>4, <1>15
  <2> QED
    BY <1>15, <2>2, <2>3, <2>4, UserAsks
<1>16. ASSUME LogsAnswer PROVE AskInv'
  <2>1. PICK a, s, g : /\ UNCHANGED <<world, toMaster>>
                       /\ g = ApplyAnswers(copy.game, s, {a}) /\ copy' = [copy EXCEPT !.game = g]
                       /\ pane' = [pane EXCEPT !.sheet = None, !.picked = FALSE,
                                               !.logged = IF pane.picked THEN @ \ {a} ELSE @ \cup {a}]
                       /\ send(<<AnswersPacket(s, {a})>>)
    BY <1>16 DEF LogsAnswer, Uses, sendAnswerSetStatePacket
  <2>2. HasDialog(pane') /\ pane'.dialog = pane.dialog /\ pane'.putOff = pane.putOff
    BY <1>1, <2>1 DEF HasDialog
  <2>3. g.marked = copy.game.marked
    BY <1>1, <2>1 DEF ApplyAnswers, GameFields
  <2>4. Unmarks => Unmarks'
    BY <2>1, Queues, SendAsks
  <2> QED
    BY <1>15, <2>1, <2>2, <2>3, <2>4
<1>17. ASSUME ActivatesAnswer PROVE AskInv'
  <2>1. PICK a, frees, after, h, x :
          /\ UNCHANGED <<world, toMaster>>
          /\ h = ApplyAnswers(copy.game, "ACTIVATE", {a})
          /\ copy' = [copy EXCEPT !.game = [h EXCEPT !.lock = @ /\ ~frees]]
          /\ after = Activated(pane, {a}) /\ pane' = [after EXCEPT !.sheet = None, !.picked = FALSE]
          /\ x = <<AnswersPacket("ACTIVATE", {a})>>
          /\ send(IF frees THEN <<UnmarkAllPacket, BuzzerLockPacket(FALSE)>> \o x ELSE x)
    BY <1>17 DEF ActivatesAnswer, Uses
  <2>2. HasDialog(after) /\ after.dialog = pane.dialog /\ after.putOff = pane.putOff
    BY <1>1, <2>1 DEF Activated, HasDialog
  <2>3. HasDialog(pane') /\ pane'.dialog = pane.dialog /\ pane'.putOff = pane.putOff
    BY <2>1, <2>2 DEF HasDialog
  <2>4. PICK g : g = [h EXCEPT !.lock = @ /\ ~frees]
    OBVIOUS
  <2>5. g.marked = copy.game.marked
    <3>1. h.marked = copy.game.marked /\ "marked" \in DOMAIN h
      BY <1>1, <2>1 DEF ApplyAnswers, GameFields
    <3> QED
      BY <2>4, <3>1
  <2>6. PICK y : y = (IF frees THEN <<UnmarkAllPacket, BuzzerLockPacket(FALSE)>> \o x ELSE x) /\ send(y)
    BY <2>1
  <2>7. Queue(y)
    <3>1. Queue(x) /\ Queue(<<UnmarkAllPacket, BuzzerLockPacket(FALSE)>>)
      BY <2>1, Queues
    <3> QED
      BY <2>6, <3>1, HandledThen
  <2>8. Unmarks => Unmarks'
    BY <2>6, <2>7, SendAsks
  <2> QED
    BY <1>15, <2>1, <2>3, <2>4, <2>5, <2>8
<1>18. ASSUME NEW result, NEW a, gradeAnswer(result, a) PROVE AskInv'
  <2>1. PICK p : send(<<p>>) /\ UNCHANGED <<world, toMaster, copy>> /\ pane' = [closeGradeDialog(pane) EXCEPT !.putOff = TRUE]
    BY <1>18 DEF gradeAnswer, Uses
  <2>2. HasDialog(pane') /\ pane'.putOff = TRUE
    BY <1>1, <2>1 DEF closeGradeDialog, HasDialog
  <2>3. Unmarks => Unmarks'
    BY <2>1, Queues, SendAsks
  <2> QED
    BY <1>5, <2>1, <2>2, <2>3
<1>19. ASSUME PutsOffGrading PROVE AskInv'
  <2>1. UNCHANGED <<world, toMaster, copy, toServer>> /\ pane' = [closeGradeDialog(pane) EXCEPT !.putOff = TRUE]
    BY <1>19 DEF PutsOffGrading, Uses
  <2>2. HasDialog(pane') /\ pane'.putOff = TRUE
    BY <1>1, <2>1 DEF closeGradeDialog, HasDialog
  <2> QED
    BY <1>3, <1>5, <2>1, <2>2
<1>20. ASSUME releaseWithoutGrade PROVE AskInv'
  <2>1. UNCHANGED <<world, toMaster, copy, toServer>> /\ pane' = [pane EXCEPT !.confirms = TRUE]
    BY <1>20 DEF releaseWithoutGrade, Uses
  <2>2. HasDialog(pane') /\ pane'.dialog = pane.dialog /\ pane'.putOff = pane.putOff
    BY <1>1, <2>1 DEF HasDialog
  <2> QED
    BY <1>3, <1>5, <2>1, <2>2
<1>21. ASSUME NEW confirmed, ConfirmsWithoutGrade(confirmed) PROVE AskInv'
  <2>1. /\ UNCHANGED <<world, toMaster, copy>> /\ (releaseBuzzerLock \/ UNCHANGED toServer)
        /\ \/ pane' = [closeGradeDialog(pane) EXCEPT !.putOff = TRUE]
           \/ pane' = [pane EXCEPT !.confirms = FALSE]
    BY <1>21 DEF ConfirmsWithoutGrade, Uses
  <2>2. HasDialog(pane') /\ ((pane'.dialog = pane.dialog /\ pane'.putOff = pane.putOff) \/ pane'.putOff = TRUE)
    BY <1>1, <2>1 DEF closeGradeDialog, HasDialog
  <2> QED
    BY <1>5, <1>7, <2>1, <2>2
<1>22. ASSUME NEW confirmed, ConfirmsRelease(confirmed) PROVE AskInv'
  <2>1. /\ UNCHANGED <<world, toMaster, copy>> /\ (releaseBuzzerLock \/ UNCHANGED toServer)
        /\ pane' = [pane EXCEPT !.asks = None]
    BY <1>22 DEF ConfirmsRelease, Uses
  <2>2. HasDialog(pane') /\ pane'.dialog = pane.dialog /\ pane'.putOff = pane.putOff
    BY <1>1, <2>1 DEF HasDialog
  <2> QED
    BY <1>5, <1>7, <2>1, <2>2
<1>23. ASSUME release PROVE AskInv'
  <2>1. PICK marked : /\ UNCHANGED <<world, toMaster, copy>> /\ (releaseBuzzerLock \/ UNCHANGED toServer)
                      /\ (pane' = [pane EXCEPT !.asks = marked] \/ UNCHANGED pane)
    BY <1>23 DEF release, Uses
  <2>2. HasDialog(pane') /\ pane'.dialog = pane.dialog /\ pane'.putOff = pane.putOff
    BY <1>1, <2>1 DEF HasDialog
  <2> QED
    BY <1>5, <1>7, <2>1, <2>2
<1>24. ASSUME NEW ts, updateTeams(ts) PROVE AskInv'
  <2>1. PICK p : send(<<p>>) /\ UNCHANGED <<world, toMaster, copy, pane>>
    BY <1>24 DEF updateTeams, Uses
  <2>2. Unmarks => Unmarks'
    BY <2>1, Queues, SendAsks
  <2> QED
    BY <1>1, <1>5, <2>1, <2>2
\* the button opens the dialog for the team that is marked
<1>25. ASSUME reopenGradeDialog PROVE AskInv'
  <2>1. PICK u : /\ UNCHANGED <<world, toMaster, copy, toServer>> /\ OneBuzzed(copy.game) /\ u = TheMarked(copy.game)
                 /\ pane' = openGradeDialog(pane, copy, u)
    BY <1>25 DEF reopenGradeDialog, Uses
  <2>2. HasDialog(pane')
    BY <1>1, <2>1 DEF openGradeDialog, HasDialog
  <2>3. Unmarks => Unmarks'
    BY <1>3, <2>1
  <2>4. ASSUME ~Unmarks', NEW t \in game.marked, IsAsked(t) PROVE IsAsked(t)'
    <3>1. ~Unmarks
      BY <2>3, <2>4
    <3>2. PICK v : v = Handled(copy, toMaster) /\ BuzzersAgree(v, toServer, game)
      BY DEF AskInv, DeskInv, Agrees
    <3>3. t \in v.game.marked
      BY <2>4, <3>1, <3>2 DEF BuzzersAgree, Unmarks
    <3>4. ~Has(toMaster, "MARK_TEAM")
      BY <2>4 DEF IsAsked
    <3>5. t \in copy.game.marked
      BY <1>1, <3>2, <3>3, <3>4, MarksOnlyGo
    <3>6. PICK w : copy.game.marked = {w}
      BY <1>1, <2>1, FS_Singleton DEF OneBuzzed
    <3>7. u = t
      BY <2>1, <3>5, <3>6 DEF TheMarked
    <3>8. pane'.dialog = t \/ UNCHANGED pane
      BY <1>1, <2>1, <3>7 DEF openGradeDialog, HasDialog
    <3> QED
      BY <2>1, <2>4, <3>4, <3>8 DEF IsAsked
  <2>5. Unmarks' \/ \A t \in game.marked : IsAsked(t) => IsAsked(t)'
    BY <2>4
  <2> QED
    BY <1>1, <1>2, <2>1, <2>2, <2>3, <2>5, UserAsks
<1>26. ASSUME getNextQuestion PROVE AskInv'
  BY <1>11, <1>26 DEF getNextQuestion
<1>27. ASSUME getPreviousQuestion PROVE AskInv'
  BY <1>11, <1>27 DEF getPreviousQuestion
<1> QED
  BY <1>9, <1>12, <1>13, <1>14, <1>16, <1>17, <1>18, <1>19, <1>20, <1>21, <1>22, <1>23, <1>24, <1>25, <1>26, <1>27
     DEF UserDoes, UserSetsNoPoints

\* A page that is loaded asks for the team that is marked.
LEMMA LoadedAsks ==
  DeskInv /\ OneIsMarked /\ copy = Served /\ pane = ngOnInit(copy) /\ toMaster = <<>> => AskInv
<1> SUFFICES ASSUME DeskInv, OneIsMarked, copy = Served, pane = ngOnInit(copy), toMaster = <<>>
             PROVE  AskInv
  OBVIOUS
<1>1. PICK v : v = copy
  OBVIOUS
<1>2. v.game = game /\ v.teams = teams /\ game.marked \subseteq teams /\ pane = ngOnInit(v)
  BY <1>1 DEF Served, setGameData, DeskInv
<1>3. PICK new, shown :
        /\ HasDialog(new)
        /\ shown = IF OneBuzzed(v.game) THEN openGradeDialog(new, v, TheMarked(v.game)) ELSE new
        /\ pane = restoreQuestionProgress(shown, v.game)
  BY <1>2 DEF ngOnInit, HasDialog
<1>4. HasDialog(shown) /\ HasDialog(pane) /\ pane.dialog = shown.dialog
  <2>1. HasDialog(shown)
    BY <1>3 DEF openGradeDialog, HasDialog
  <2> QED
    BY <1>3, <2>1 DEF restoreQuestionProgress, HasDialog
<1>5. IsFiniteSet(game.marked)
  <2>1. CASE game.marked = {}
    BY <2>1, FS_EmptySet
  <2>2. ASSUME NEW t \in game.marked PROVE game.marked = {t}
    BY <2>2 DEF OneIsMarked
  <2>3. \A t : IsFiniteSet({t})
    BY FS_Singleton
  <2> QED
    BY <2>1, <2>2, <2>3
<1>6. ~Has(<<>>, "MARK_TEAM")
  <2>1. Len(<<>>) = 0
    OBVIOUS
  <2> QED
    BY <2>1 DEF Has
<1>7. ASSUME NEW t \in game.marked PROVE Asks(t)
  <2>1. game.marked = {t} /\ game.lock = TRUE
    BY <1>7 DEF OneIsMarked
  <2>2. Cardinality(game.marked) = 1
    BY <2>1, FS_Singleton
  <2>3. OneBuzzed(v.game) /\ TheMarked(v.game) = t /\ t \in v.teams
    BY <1>2, <1>7, <2>1, <2>2 DEF OneBuzzed, TheMarked
  <2>4. shown = openGradeDialog(new, v, t)
    BY <1>3, <2>3
  <2>5. pane.dialog = t
    BY <1>3, <1>4, <2>3, <2>4 DEF openGradeDialog, HasDialog
  <2> QED
    BY <1>6, <2>5 DEF Asks, IsAsked
<1> QED
  BY <1>1, <1>2, <1>4, <1>5, <1>7 DEF AskInv

LEMMA AskInvStep ==
  ASSUME AskInv, [PlayNext]_table
  PROVE  AskInv'
<1>1. DeskInv /\ DeskInv'
  BY DeskInvStep DEF AskInv
<1>2. CASE UserDoes
  BY <1>1, <1>2, UserDoesAsks
<1>3. CASE PageReceivesPacket
  BY <1>1, <1>3, ReceiveAsks
<1>4. CASE ServerHandles
  BY <1>1, <1>4, HandlesAsks
<1>5. CASE Pressed
  BY <1>1, <1>5, PressedAsks
<1>6. CASE PageIsLoaded
  <2>1. copy' = Served' /\ toMaster' = <<>> /\ OneIsMarked'
    BY <1>6 DEF AskInv, PageIsLoaded, OneIsMarked, world, vars, play, Served, setGameData
  <2>2. pane' = ngOnInit(copy')
    BY <1>6 DEF PageIsLoaded
  <2>3. (DeskInv /\ OneIsMarked /\ copy = Served /\ pane = ngOnInit(copy) /\ toMaster = <<>> => AskInv)'
    BY LoadedAsks, PTL
  <2> QED
    BY <1>1, <2>1, <2>2, <2>3
<1>7. CASE UNCHANGED table
  BY <1>1, <1>7 DEF table, desk, world, vars, play, AskInv, OneIsMarked, Asks, Unmarks, IsAsked, HearsMark
<1> QED
  BY <1>2, <1>3, <1>4, <1>5, <1>6, <1>7 DEF PlayNext

LEMMA AskInvInit == PlayInit => AskInv
<1> SUFFICES ASSUME PlayInit PROVE AskInv
  OBVIOUS
<1>1. game.marked = {}
  BY DEF PlayInit, InitialGame
<1>2. OneIsMarked
  BY <1>1 DEF OneIsMarked
<1> QED
  BY <1>2, DeskInvInit, LoadedAsks DEF PlayInit

\* A team that buzzed is asked for its answer once nothing is on its way, after a dialog for another
\* team, another question, a change of teams or a reload, unless the user graded it or put that off
\* (handleMarkTeamPacket, ngOnInit, reopenGradeDialog).
THEOREM TeamIsAsked == PlaySpec => []BuzzedTeamIsAsked
<1>1. ASSUME AskInv PROVE BuzzedTeamIsAsked
  <2> SUFFICES ASSUME Quiet, OneBuzzed(game) PROVE pane.dialog \in game.marked \/ pane.putOff
    BY DEF BuzzedTeamIsAsked
  <2>1. game.marked # {}
    BY FS_EmptySet DEF OneBuzzed
  <2>2. PICK t : t \in game.marked /\ Asks(t)
    BY <1>1, <2>1 DEF AskInv
  <2>3. Len(<<>>) = 0
    OBVIOUS
  <2>4. ~Unmarks
    BY <2>3 DEF Quiet, Unmarks, Has
  <2>5. ASSUME NEW a, NEW c, HearsMark(a, c, t) PROVE FALSE
    <3>1. Queue(a) /\ Queue(c) /\ c # <<>> /\ a \o c = <<>>
      BY <2>5, AskedQueue DEF HearsMark, Quiet
    <3>2. <<>> \o c = c
      BY <3>1, QueuesConcat
    <3> QED
      BY <3>1, <3>2, HeadConcat
  <2>6. pane.dialog = t \/ pane.putOff = TRUE
    BY <2>2, <2>4, <2>5 DEF Asks, IsAsked
  <2> QED
    BY <2>2, <2>6
<1> QED
  BY AskInvInit, AskInvStep, <1>1, PTL DEF PlaySpec

=============================================================================
