-------------------------- MODULE MediaShowProofs --------------------------
(***************************************************************************)
(* What the pages agree on once all packets have arrived, proved for any   *)
(* number of screens, questions and packets on their way.                  *)
(***************************************************************************)
EXTENDS MediaShow, SequenceTheorems, TLAPS

Copy == [shows : BOOLEAN, question : Question, media : Media]

MediaPackets == [type : {"UPDATE_MEDIA_STATE"}, media : Media, resent : BOOLEAN]
QuestionPackets == [type : {"SET_QUESTION"}, question : Question]
GamePackets == [type : {"GAME"}, question : Question, media : Media]
Orders == [type : {"START_GAME", "SET_BUZZER_LOCK"}]

\* what screens send, what they are sent, and the same for the master
Endings == {p \in MediaPackets : p.media.state = "FINISHED" /\ p.media.fullscreen = FALSE}
ToScreens == MediaPackets \cup QuestionPackets \cup GamePackets
FromMaster == MediaPackets \cup QuestionPackets \cup Orders
ToMaster == MediaPackets \cup GamePackets

----------------------------------------------------------------------------
(* Queues of packets. *)

\* the queue t is the queue s with one more packet at its end, or without its first
Longer(s, t, e) == Len(t) = Len(s) + 1 /\ t[Len(t)] = e /\ \A i \in 1 .. Len(s) : t[i] = s[i]
Shorter(s, t) == Len(s) = Len(t) + 1 /\ \A i \in 1 .. Len(t) : t[i] = s[i + 1]

Turns(e) == e.type \in {"SET_QUESTION", "GAME"}
NoTurn(s) == \A i \in 1 .. Len(s) : ~Turns(s[i])
TurnAt(s, i, q) == Turns(s[i]) /\ s[i].question = q /\ \A j \in 1 .. Len(s) : j > i => ~Turns(s[j])
LastTurn(s, q) == \E i \in 1 .. Len(s) : TurnAt(s, i, q)

\* the last packet shows the media m
Shows(e, m) == e.type \in {"UPDATE_MEDIA_STATE", "GAME"} /\ e.media = m
EndsWith(s, m) == s # <<>> => Shows(s[Len(s)], m)

\* a page's game comes first, as nothing else is sent to a page that just joined
OnlyFirst(s) == \A i \in 2 .. Len(s) : s[i].type # "GAME"
Starts(s) == s # <<>> /\ s[1].type = "GAME"

LEMMA AppendIs ==
  ASSUME NEW S, NEW s \in Seq(S), NEW e \in S
  PROVE  /\ Append(s, e) \in Seq(S) /\ Longer(s, Append(s, e), e)
         /\ s \o <<e>> \in Seq(S) /\ Longer(s, s \o <<e>>, e)
<1>1. Append(s, e) \in Seq(S) /\ Longer(s, Append(s, e), e)
  BY AppendProperties DEF Longer
<1>2. <<e>> \in Seq(S) /\ Len(<<e>>) = 1 /\ <<e>>[1] = e
  OBVIOUS
<1>3. /\ s \o <<e>> \in Seq(S) /\ Len(s \o <<e>>) = Len(s) + 1
      /\ \A i \in 1 .. Len(s) + 1 : (s \o <<e>>)[i] = IF i <= Len(s) THEN s[i] ELSE <<e>>[i - Len(s)]
  BY <1>2, ConcatProperties
<1>4. Len(s) \in Nat
  OBVIOUS
<1>5. (s \o <<e>>)[Len(s) + 1] = e
  BY <1>2, <1>3, <1>4
<1> QED
  BY <1>1, <1>3, <1>4, <1>5 DEF Longer

LEMMA TailIs ==
  ASSUME NEW S, NEW s \in Seq(S), s # <<>>
  PROVE  Tail(s) \in Seq(S) /\ Shorter(s, Tail(s)) /\ Head(s) = s[1] /\ Head(s) \in S
BY HeadTailProperties DEF Shorter

LEMMA EmptyIs ==
  ASSUME NEW S, NEW s \in Seq(S)
  PROVE  Len(s) \in Nat /\ (s = <<>> <=> Len(s) = 0) /\ \A i \in 1 .. Len(s) : s[i] \in S
BY EmptySeq, LenProperties

LEMMA AppendNotEmpty ==
  ASSUME NEW S, NEW s \in Seq(S), NEW e \in S
  PROVE  Append(s, e) \in Seq(S) /\ Append(s, e) # <<>>
<1> PICK t \in Seq(S) : t = Append(s, e) /\ Len(t) = Len(s) + 1
  BY AppendProperties
<1> QED
  BY EmptyIs

LEMMA LongerTurns ==
  ASSUME NEW S, NEW s \in Seq(S), NEW t \in Seq(S), NEW e, Longer(s, t, e), NEW q
  PROVE  /\ Turns(e) /\ e.question = q => LastTurn(t, q)
         /\ ~Turns(e) /\ LastTurn(s, q) => LastTurn(t, q)
         /\ ~Turns(e) /\ NoTurn(s) => NoTurn(t)
<1> PICK n \in Nat : n = Len(s)
  BY EmptyIs
<1>1. Len(t) = n + 1 /\ t[n + 1] = e /\ \A i \in 1 .. n : t[i] = s[i]
  BY DEF Longer
<1>2. \A i \in 1 .. n + 1 : i \in 1 .. n \/ i = n + 1
  OBVIOUS
<1>3. ASSUME Turns(e), e.question = q PROVE LastTurn(t, q)
  <2>1. TurnAt(t, n + 1, q)
    BY <1>1, <1>3 DEF TurnAt
  <2> QED
    BY <1>1, <2>1 DEF LastTurn
<1>4. ASSUME ~Turns(e), LastTurn(s, q) PROVE LastTurn(t, q)
  <2>1. PICK i \in 1 .. n : TurnAt(s, i, q)
    BY <1>4 DEF LastTurn
  <2>2. ASSUME NEW j \in 1 .. n + 1, j > i PROVE ~Turns(t[j])
    BY <1>1, <1>2, <1>4, <2>1, <2>2 DEF TurnAt
  <2>3. TurnAt(t, i, q)
    BY <1>1, <2>1, <2>2 DEF TurnAt
  <2> QED
    BY <1>1, <2>3 DEF LastTurn
<1>5. ASSUME ~Turns(e), NoTurn(s) PROVE NoTurn(t)
  BY <1>1, <1>2, <1>5 DEF NoTurn
<1> QED
  BY <1>3, <1>4, <1>5

LEMMA ShorterTurns ==
  ASSUME NEW S, NEW s \in Seq(S), NEW t \in Seq(S), Shorter(s, t), NEW q
  PROVE  /\ Turns(s[1]) /\ LastTurn(s, q) => LastTurn(t, q) \/ (NoTurn(t) /\ s[1].question = q)
         /\ ~Turns(s[1]) /\ LastTurn(s, q) => LastTurn(t, q)
         /\ NoTurn(s) => NoTurn(t) /\ ~Turns(s[1])
<1> PICK n \in Nat : n = Len(t)
  BY EmptyIs
<1>1. Len(s) = n + 1 /\ \A i \in 1 .. n : t[i] = s[i + 1] /\ i + 1 \in 1 .. n + 1
  BY DEF Shorter
<1>2. ASSUME NEW i \in 1 .. n + 1, TurnAt(s, i, q), i # 1 PROVE LastTurn(t, q)
  <2>1. i - 1 \in 1 .. n /\ t[i - 1] = s[i]
    <3>1. i - 1 \in 1 .. n /\ (i - 1) + 1 = i
      BY <1>2
    <3> QED
      BY <1>1, <3>1
  <2>2. ASSUME NEW j \in 1 .. n, j > i - 1 PROVE ~Turns(t[j])
    <3>1. j + 1 \in 1 .. n + 1 /\ j + 1 > i /\ t[j] = s[j + 1]
      BY <1>1, <2>2
    <3> QED
      BY <1>1, <1>2, <3>1 DEF TurnAt
  <2>3. TurnAt(t, i - 1, q)
    BY <1>2, <2>1, <2>2 DEF TurnAt
  <2> QED
    BY <2>1, <2>3 DEF LastTurn
<1>3. ASSUME TurnAt(s, 1, q) PROVE NoTurn(t) /\ s[1].question = q
  <2>1. ASSUME NEW j \in 1 .. n PROVE ~Turns(t[j])
    BY <1>1, <1>3 DEF TurnAt
  <2> QED
    BY <1>3, <2>1 DEF NoTurn, TurnAt
<1>4. ASSUME NoTurn(s) PROVE NoTurn(t) /\ ~Turns(s[1])
  BY <1>1, <1>4 DEF NoTurn
<1>5. ASSUME ~Turns(s[1]), LastTurn(s, q) PROVE LastTurn(t, q)
  BY <1>1, <1>2, <1>5 DEF LastTurn, TurnAt
<1>6. ASSUME LastTurn(s, q) PROVE LastTurn(t, q) \/ (NoTurn(t) /\ s[1].question = q)
  BY <1>1, <1>2, <1>3, <1>6 DEF LastTurn
<1> QED
  BY <1>4, <1>5, <1>6

LEMMA LongerShows ==
  ASSUME NEW S, NEW s \in Seq(S), NEW t \in Seq(S), NEW e, Longer(s, t, e), NEW m
  PROVE  /\ Shows(e, m) => EndsWith(t, m)
         /\ t # <<>> /\ (Starts(s) => Starts(t))
         /\ e.type # "GAME" /\ OnlyFirst(s) => OnlyFirst(t)
         /\ e.type # "GAME" /\ Starts(t) => Starts(s)
<1> PICK n \in Nat : n = Len(s)
  BY EmptyIs
<1>1. Len(t) = n + 1 /\ t[n + 1] = e /\ \A i \in 1 .. n : t[i] = s[i]
  BY DEF Longer
<1>2. t # <<>> /\ (s = <<>> <=> n = 0)
  BY <1>1, EmptyIs
<1>3. Shows(e, m) => EndsWith(t, m)
  BY <1>1 DEF EndsWith
<1>4. Starts(s) => Starts(t)
  BY <1>1, <1>2 DEF Starts
<1>5. ASSUME e.type # "GAME", OnlyFirst(s) PROVE OnlyFirst(t)
  <2>1. \A i \in 2 .. n + 1 : i \in 2 .. n \/ i = n + 1
    OBVIOUS
  <2> QED
    BY <1>1, <1>5, <2>1 DEF OnlyFirst
<1>6. ASSUME e.type # "GAME", Starts(t) PROVE Starts(s)
  <2>1. n # 0
    BY <1>1, <1>6 DEF Starts
  <2> QED
    BY <1>1, <1>2, <1>6, <2>1 DEF Starts
<1> QED
  BY <1>2, <1>3, <1>4, <1>5, <1>6

LEMMA ShorterShows ==
  ASSUME NEW S, NEW s \in Seq(S), NEW t \in Seq(S), Shorter(s, t), NEW m
  PROVE  /\ EndsWith(s, m) => EndsWith(t, m)
         /\ EndsWith(s, m) /\ t = <<>> => Shows(s[1], m)
         /\ OnlyFirst(s) => OnlyFirst(t) /\ ~Starts(t)
<1> PICK n \in Nat : n = Len(t)
  BY EmptyIs
<1>1. Len(s) = n + 1 /\ \A i \in 1 .. n : t[i] = s[i + 1] /\ i + 1 \in 1 .. n + 1
  BY DEF Shorter
<1>2. s # <<>> /\ (t = <<>> <=> n = 0)
  BY <1>1, EmptyIs
<1>3. ASSUME EndsWith(s, m) PROVE (t # <<>> => Shows(t[n], m)) /\ (t = <<>> => Shows(s[1], m))
  BY <1>1, <1>2, <1>3 DEF EndsWith
<1>4. ASSUME OnlyFirst(s) PROVE OnlyFirst(t) /\ ~Starts(t)
  <2>1. ASSUME NEW i \in 1 .. n PROVE t[i].type # "GAME"
    <3>1. i + 1 \in 2 .. Len(s)
      BY <1>1
    <3> QED
      BY <1>1, <1>4, <3>1 DEF OnlyFirst
  <2> QED
    BY <1>2, <2>1 DEF OnlyFirst, Starts
<1> QED
  BY <1>3, <1>4 DEF EndsWith

\* the same of a queue whose first packet is taken
LEMMA TailShows ==
  ASSUME NEW S, NEW s \in Seq(S), s # <<>>, NEW t, t = Tail(s), NEW e, e = Head(s), NEW m,
         EndsWith(s, m), OnlyFirst(s)
  PROVE  EndsWith(t, m) /\ OnlyFirst(t) /\ ~Starts(t) /\ (t = <<>> => Shows(e, m))
<1>1. t \in Seq(S) /\ Shorter(s, t) /\ e = s[1]
  BY TailIs
<1>2. EndsWith(t, m) /\ (t = <<>> => Shows(s[1], m))
  BY <1>1, ShorterShows
<1>3. OnlyFirst(t) /\ ~Starts(t)
  BY <1>1, ShorterShows
<1> QED
  BY <1>1, <1>2, <1>3

----------------------------------------------------------------------------
(* The players. *)

\* what a player does is what the component does for its question
Sound(x, q) ==
  /\ Kind[q] = "none" => x = NewPlayer
  /\ x.playing => x.ready
  /\ x.ready => isPlayable(q)

\* the player of question q does what the media's state m says
Plainly(m) == m.state \in {"PLAYING", "RESET"}
Follows(x, q, m) ==
  Kind[q] # "none" =>
    /\ x.slide = m.slide /\ (x.fullscreen <=> m.fullscreen)
    /\ (x.hidden <=> m.state \in {"HIDDEN", "NO_MEDIA"})
    /\ (x.visible <=> Plainly(m) \/ (m.state = "FINISHED" /\ Kind[q] = "slideshow"))
    /\ x.playing => Plainly(m)

LEMMA NewIs == NewPlayer \in Player /\ ~NewPlayer.ready /\ ~NewPlayer.playing /\ ~NewPlayer.fullscreen /\ \A q \in Question : Sound(NewPlayer, q)
BY MediaAssumption DEF NewPlayer, Player, Sound

\* what the handlers of the states make of a player
Paused(x, y) == /\ y \in Player /\ ~y.playing /\ ~y.visible /\ y.ready = x.ready
                /\ y.hidden = x.hidden /\ y.slide = x.slide /\ y.fullscreen = x.fullscreen
Started(x, y) == /\ y \in Player /\ y.playing = x.ready /\ y.visible /\ y.ready = x.ready
                 /\ y.hidden = x.hidden /\ y.slide = x.slide /\ y.fullscreen = x.fullscreen

LEMMA PlayersDo ==
  ASSUME NEW x \in Player
  PROVE  /\ Paused(x, pausePlayback(x)) /\ Paused(x, rewind(pausePlayback(x)))
         /\ Started(x, startPlayback(x)) /\ Started(x, restartPlayback(x))
<1>1. Paused(x, pausePlayback(x))
  BY DEF Paused, pausePlayback, Player
<1>2. Paused(x, rewind(pausePlayback(x)))
  <2> PICK y : y = pausePlayback(x)
    OBVIOUS
  <2>1. Paused(x, rewind(y))
    BY <1>1 DEF Paused, rewind, Player
  <2> QED
    BY <2>1
<1>3. playMedia(x) \in Player /\ Started(x, startPlayback(x))
  <2> PICK y : y = playMedia(x)
    OBVIOUS
  <2>1. /\ y \in Player /\ y.playing = x.ready /\ y.ready = x.ready
        /\ y.hidden = x.hidden /\ y.slide = x.slide /\ y.fullscreen = x.fullscreen
    BY DEF playMedia, Player
  <2> QED
    BY <2>1 DEF Started, startPlayback, Player
<1>4. Started(x, restartPlayback(x))
  <2> PICK y : y = rewind(x)
    OBVIOUS
  <2>1. /\ y \in Player /\ y.ready = x.ready
        /\ y.hidden = x.hidden /\ y.slide = x.slide /\ y.fullscreen = x.fullscreen
    BY DEF rewind, Player
  <2>2. restartPlayback(x) = [y EXCEPT !.playing = x.ready, !.visible = TRUE]
    BY DEF restartPlayback
  <2> QED
    BY <2>1, <2>2 DEF Started, Player
<1> QED
  BY <1>1, <1>2, <1>3, <1>4

LEMMA MemberIs == ASSUME NEW v, NEW S PROVE  (v \in S /\ (v \in S) = TRUE) \/ (~(v \in S) /\ (v \in S) = FALSE)
OBVIOUS

\* A player that got a state follows it, whatever it did before.
LEMMA AppliedFollows ==
  ASSUME NEW x \in Player, NEW q \in Question, NEW m \in Media, Sound(x, q), Kind[q] # "none"
  PROVE  Applied(x, q, m) \in Player /\ Sound(Applied(x, q, m), q) /\ Follows(Applied(x, q, m), q, m)
<1>1. m.state \in MediaState /\ m.slide \in 0 .. LastSlide /\ m.fullscreen \in BOOLEAN
  BY DEF Media
<1> PICK full \in BOOLEAN, slide \in 0 .. LastSlide : full = m.fullscreen /\ slide = m.slide
  BY <1>1
<1> PICK y : y = [x EXCEPT !.fullscreen = m.fullscreen, !.slide = m.slide, !.hidden = m.state \in {"HIDDEN", "NO_MEDIA"}]
  OBVIOUS
<1>2. /\ y \in Player /\ y.ready = x.ready /\ y.playing = x.playing /\ y.slide = m.slide
      /\ y.fullscreen = m.fullscreen /\ (y.hidden <=> m.state \in {"HIDDEN", "NO_MEDIA"})
  <2>1. CASE m.state \in {"HIDDEN", "NO_MEDIA"}
    <3>0. (m.state \in {"HIDDEN", "NO_MEDIA"}) = TRUE
      BY <2>1, MemberIs
    <3>1. y = [x EXCEPT !.fullscreen = full, !.slide = slide, !.hidden = TRUE]
      BY <3>0, Zenon
    <3>2. /\ y \in Player /\ y.ready = x.ready /\ y.playing = x.playing /\ y.slide = slide
          /\ y.fullscreen = full /\ y.hidden = TRUE
      BY <3>1 DEF Player
    <3> QED
      BY <2>1, <3>2
  <2>2. CASE ~(m.state \in {"HIDDEN", "NO_MEDIA"})
    <3>0. (m.state \in {"HIDDEN", "NO_MEDIA"}) = FALSE
      BY <2>2, MemberIs
    <3>1. y = [x EXCEPT !.fullscreen = full, !.slide = slide, !.hidden = FALSE]
      BY <3>0, Zenon
    <3>2. /\ y \in Player /\ y.ready = x.ready /\ y.playing = x.playing /\ y.slide = slide
          /\ y.fullscreen = full /\ y.hidden = FALSE
      BY <3>1 DEF Player
    <3> QED
      BY <2>2, <3>2
  <2> QED
    BY <2>1, <2>2
<1> PICK z : z = Applied(x, q, m)
  OBVIOUS
<1> SUFFICES z \in Player /\ Sound(z, q) /\ Follows(z, q, m)
  OBVIOUS
<1>3. CASE m.state \in {"NO_MEDIA", "PAUSED", "HIDDEN"} \/ (m.state = "FINISHED" /\ Kind[q] # "slideshow")
  <2>1. z = pausePlayback(y) \/ z = rewind(pausePlayback(y))
    BY <1>3 DEF Applied
  <2>2. Paused(y, z)
    BY <1>2, <2>1, PlayersDo
  <2>3. ~Plainly(m) /\ ~(m.state = "FINISHED" /\ Kind[q] = "slideshow")
    BY <1>3 DEF Plainly
  <2> QED
    BY <1>2, <2>2, <2>3 DEF Paused, Follows, Sound
<1>4. CASE m.state \in {"PLAYING", "RESET"}
  <2>1. z = startPlayback(y) \/ z = restartPlayback(y)
    BY <1>4 DEF Applied
  <2>2. Started(y, z)
    BY <1>2, <2>1, PlayersDo
  <2> QED
    BY <1>2, <1>4, <2>2 DEF Started, Follows, Sound, Plainly
<1>5. CASE m.state = "FINISHED" /\ Kind[q] = "slideshow"
  <2>1. z = [y EXCEPT !.visible = TRUE]
    BY <1>5 DEF Applied
  <2>2. /\ z \in Player /\ z.visible /\ z.ready = x.ready /\ z.playing = x.playing /\ z.slide = m.slide
        /\ z.fullscreen = m.fullscreen /\ (z.hidden <=> m.state \in {"HIDDEN", "NO_MEDIA"})
    BY <1>2, <2>1 DEF Player
  <2>3. ~x.ready /\ ~x.playing
    BY <1>5 DEF Sound, isPlayable
  <2> QED
    BY <1>5, <2>2, <2>3 DEF Follows, Sound, Plainly
<1> QED
  BY <1>1, <1>3, <1>4, <1>5 DEF MediaState

LEMMA MountedFollows ==
  ASSUME NEW q \in Question, NEW m \in Media
  PROVE  Mounted(q, m) \in Player /\ Sound(Mounted(q, m), q) /\ Follows(Mounted(q, m), q, m)
<1>1. CASE Kind[q] = "none"
  BY <1>1, NewIs DEF Mounted, Follows
<1>2. CASE Kind[q] # "none"
  BY <1>2, NewIs, AppliedFollows DEF Mounted
<1> QED
  BY <1>1, <1>2

LEMMA TurnedIsSound ==
  ASSUME NEW x \in Player, NEW from \in Question, NEW q \in Question, NEW m \in Media
  PROVE  AtQuestion(x, from, q, m) \in Player /\ Sound(AtQuestion(x, from, q, m), q)
<1>1. CASE Kind[q] = "none" \/ Kind[from] = "none"
  BY <1>1, MountedFollows DEF AtQuestion
<1>2. CASE ~(Kind[q] = "none" \/ Kind[from] = "none")
  <2>1. AtQuestion(x, from, q, m) = [x EXCEPT !.ready = FALSE, !.playing = FALSE, !.at = "start"]
    BY <1>2 DEF AtQuestion
  <2> QED
    BY <1>2, <2>1 DEF Player, Sound
<1> QED
  BY <1>1, <1>2

----------------------------------------------------------------------------
(* The inductive invariant: a page, what is on its way to it and from it,  *)
(* and the question q and the media m of the server.                       *)

\* once the packets arrived, a page that knows the question k has the question q
Latest(packets, k, q) == LastTurn(packets, q) \/ (NoTurn(packets) /\ k = q)

\* x, c: the player and the copy of a screen that is connected
ScreenOK(q, m, x, c, up, down) ==
  /\ x \in Player /\ c \in Copy /\ up \in Seq(Endings) /\ down \in Seq(ToScreens)
  /\ Sound(x, c.question)
  /\ EndsWith(down, m) /\ OnlyFirst(down) /\ (c.shows <=> ~Starts(down))
  /\ Latest(down, c.question, q)
  /\ down = <<>> /\ up = <<>> => c.media = m /\ Follows(x, c.question, m)

\* c, d: the copy and the desk of a master that is
Silent(up) == \A i \in 1 .. Len(up) : up[i].type = "SET_BUZZER_LOCK"
MasterOK(q, m, c, d, up, down) ==
  /\ c \in Copy /\ d \in [pane : Media, remote : Media] /\ up \in Seq(FromMaster) /\ down \in Seq(ToMaster)
  /\ EndsWith(down, m) /\ OnlyFirst(down)
  /\ Starts(down) => ~c.shows /\ up = <<>> /\ down[1].question = q
  /\ ~Starts(down) => Latest(up, q, c.question)
  /\ down = <<>> /\ Silent(up) => c.media = m /\ d.pane = m /\ d.remote.slide = m.slide

\* one that is not
Away(c, up, down) == c = Blank /\ up = <<>> /\ down = <<>>

\* what a press of a team stops
Stopped(sv) ==
  sv.locked /\ sv.alone => ~sv.media.fullscreen /\ (isPlayable(sv.question) => ~Plainly(sv.media))

ScreenInv(s) ==
  IF s \in server.connected
  THEN ScreenOK(server.question, server.media, player[s], copy[s], toServer[s], toPage[s])
  ELSE Away(copy[s], toServer[s], toPage[s]) /\ player[s] = NewPlayer

MasterInv ==
  IF Master \in server.connected
  THEN MasterOK(server.question, server.media, copy[Master], desk, toServer[Master], toPage[Master])
  ELSE Away(copy[Master], toServer[Master], toPage[Master])

ShowInv ==
  /\ MediaTypeOK /\ DOMAIN toServer = Page /\ DOMAIN toPage = Page
  /\ (\A s \in Screen : ScreenInv(s)) /\ MasterInv /\ Stopped(server)

----------------------------------------------------------------------------
(* The packets. *)

LEMMA PacketsAre ==
  ASSUME NEW m \in Media, NEW r \in BOOLEAN, NEW q \in Question
  PROVE  /\ MediaPacket(m, r) \in ToScreens /\ MediaPacket(m, r) \in ToMaster /\ MediaPacket(m, r) \in FromMaster
         /\ ~Turns(MediaPacket(m, r)) /\ Shows(MediaPacket(m, r), m) /\ MediaPacket(m, r).type = "UPDATE_MEDIA_STATE"
         /\ QuestionPacket(q) \in ToScreens /\ QuestionPacket(q) \in FromMaster
         /\ Turns(QuestionPacket(q)) /\ QuestionPacket(q).question = q /\ QuestionPacket(q).type = "SET_QUESTION"
         /\ m.state = "FINISHED" /\ m.fullscreen = FALSE => MediaPacket(m, r) \in Endings
<1>1. MediaPacket(m, r) \in MediaPackets /\ MediaPacket(m, r).media = m /\ MediaPacket(m, r).type = "UPDATE_MEDIA_STATE"
  BY DEF MediaPacket, MediaPackets
<1>2. QuestionPacket(q) \in QuestionPackets /\ QuestionPacket(q).question = q /\ QuestionPacket(q).type = "SET_QUESTION"
  BY DEF QuestionPacket, QuestionPackets
<1> QED
  BY <1>1, <1>2 DEF ToScreens, ToMaster, FromMaster, Turns, Shows, Endings

\* what a screen's packet is
LEMMA ScreenPacketIs ==
  ASSUME NEW e \in ToScreens
  PROVE  /\ e.type \in {"UPDATE_MEDIA_STATE", "SET_QUESTION", "GAME"}
         /\ e.type # "SET_QUESTION" => e.media \in Media
         /\ Turns(e) => e.question \in Question
         /\ Turns(e) <=> e.type # "UPDATE_MEDIA_STATE"
BY DEF ToScreens, MediaPackets, QuestionPackets, GamePackets, Turns

----------------------------------------------------------------------------
(* A screen. *)

LEMMA ScreenTold ==
  ASSUME NEW q \in Question, NEW m, NEW m2 \in Media, NEW r \in BOOLEAN, NEW x, NEW c, NEW up, NEW down,
         NEW up2 \in Seq(Endings), ScreenOK(q, m, x, c, up, down)
  PROVE  ScreenOK(q, m2, x, c, up2, down \o <<MediaPacket(m2, r)>>)
<1> PICK e \in ToScreens : e = MediaPacket(m2, r) /\ ~Turns(e) /\ Shows(e, m2) /\ e.type = "UPDATE_MEDIA_STATE"
  BY PacketsAre
<1> PICK t : t = down \o <<e>>
  OBVIOUS
<1>1. down \in Seq(ToScreens) /\ x \in Player /\ c \in Copy /\ Sound(x, c.question)
  BY DEF ScreenOK
<1>2. OnlyFirst(down) /\ (c.shows <=> ~Starts(down)) /\ Latest(down, c.question, q)
  BY DEF ScreenOK
<1>3. t \in Seq(ToScreens) /\ Longer(down, t, e)
  BY <1>1, AppendIs
<1>4. Latest(t, c.question, q)
  BY <1>1, <1>2, <1>3, LongerTurns DEF Latest
<1>5. EndsWith(t, m2) /\ t # <<>> /\ OnlyFirst(t) /\ (Starts(t) <=> Starts(down))
  BY <1>1, <1>2, <1>3, LongerShows
<1>6. ScreenOK(q, m2, x, c, up2, t)
  BY <1>1, <1>2, <1>3, <1>4, <1>5 DEF ScreenOK
<1> QED
  BY <1>6

LEMMA ScreenTurned ==
  ASSUME NEW q, NEW q2 \in Question, NEW m, NEW m2 \in Media, NEW r \in BOOLEAN, NEW x, NEW c, NEW up, NEW down,
         NEW up2 \in Seq(Endings), ScreenOK(q, m, x, c, up, down)
  PROVE  ScreenOK(q2, m2, x, c, up2, (down \o <<QuestionPacket(q2)>>) \o <<MediaPacket(m2, r)>>)
<1> PICK f \in ToScreens : f = QuestionPacket(q2) /\ Turns(f) /\ f.question = q2 /\ f.type = "SET_QUESTION"
  BY PacketsAre
<1> PICK e \in ToScreens : e = MediaPacket(m2, r) /\ ~Turns(e) /\ Shows(e, m2) /\ e.type = "UPDATE_MEDIA_STATE"
  BY PacketsAre
<1> PICK t : t = down \o <<f>>
  OBVIOUS
<1> PICK u : u = t \o <<e>>
  OBVIOUS
<1>1. down \in Seq(ToScreens) /\ x \in Player /\ c \in Copy /\ Sound(x, c.question)
  BY DEF ScreenOK
<1>2. OnlyFirst(down) /\ (c.shows <=> ~Starts(down))
  BY DEF ScreenOK
<1>3. t \in Seq(ToScreens) /\ Longer(down, t, f)
  BY <1>1, AppendIs
<1>4. u \in Seq(ToScreens) /\ Longer(t, u, e)
  BY <1>3, AppendIs
<1>5. LastTurn(t, q2)
  BY <1>1, <1>3, LongerTurns
<1>6. LastTurn(u, q2)
  BY <1>3, <1>4, <1>5, LongerTurns
<1>7. OnlyFirst(t) /\ (Starts(t) <=> Starts(down))
  BY <1>1, <1>2, <1>3, LongerShows
<1>8. EndsWith(u, m2) /\ u # <<>> /\ OnlyFirst(u) /\ (Starts(u) <=> Starts(t))
  BY <1>3, <1>4, <1>7, LongerShows
<1>9. ScreenOK(q2, m2, x, c, up2, u)
  BY <1>1, <1>2, <1>4, <1>6, <1>7, <1>8 DEF ScreenOK, Latest
<1> QED
  BY <1>9

\* what a page and its player are after the packet e
HandledBy(e, c, x2, c2) ==
  /\ x2 \in Player /\ c2 \in Copy /\ Sound(x2, c2.question)
  /\ c2.shows <=> c.shows \/ e.type = "GAME"
  /\ c2.question = IF Turns(e) THEN e.question ELSE c.question
  /\ e.type # "SET_QUESTION" => c2.media = e.media /\ Follows(x2, c2.question, e.media)

LEMMA ScreenHandled ==
  ASSUME NEW q, NEW m, NEW x, NEW c, NEW up, NEW down, NEW x2, NEW c2,
         ScreenOK(q, m, x, c, up, down), down # <<>>, HandledBy(Head(down), c, x2, c2)
  PROVE  ScreenOK(q, m, x2, c2, up, Tail(down))
<1> PICK t : t = Tail(down)
  OBVIOUS
<1> PICK e : e = Head(down)
  OBVIOUS
<1>1. down \in Seq(ToScreens) /\ up \in Seq(Endings)
  BY DEF ScreenOK
<1>2. EndsWith(down, m) /\ OnlyFirst(down) /\ (c.shows <=> ~Starts(down)) /\ Latest(down, c.question, q)
  BY DEF ScreenOK
<1>3. t \in Seq(ToScreens) /\ Shorter(down, t) /\ e = down[1] /\ e \in ToScreens
  BY <1>1, TailIs
<1>4. EndsWith(t, m) /\ OnlyFirst(t) /\ ~Starts(t) /\ (t = <<>> => Shows(e, m))
  BY <1>1, <1>2, TailShows
<1>5. HandledBy(e, c, x2, c2)
  OBVIOUS
<1>6. Latest(t, c2.question, q)
  <2>1. CASE Turns(e)
    <3>1. c2.question = e.question
      BY <1>5, <2>1 DEF HandledBy
    <3>2. LastTurn(down, q)
      BY <1>1, <1>2, <1>3, <2>1, ShorterTurns DEF Latest
    <3>3. LastTurn(t, q) \/ (NoTurn(t) /\ e.question = q)
      BY <1>1, <1>3, <2>1, <3>2, ShorterTurns
    <3> QED
      BY <3>1, <3>3 DEF Latest
  <2>2. CASE ~Turns(e)
    <3>1. c2.question = c.question
      BY <1>5, <2>2 DEF HandledBy
    <3>2. LastTurn(down, q) => LastTurn(t, q)
      BY <1>1, <1>3, <2>2, ShorterTurns
    <3>3. NoTurn(down) => NoTurn(t)
      BY <1>1, <1>3, ShorterTurns
    <3> QED
      BY <1>2, <3>1, <3>2, <3>3 DEF Latest
  <2> QED
    BY <2>1, <2>2
<1>7. c2.shows
  BY <1>2, <1>3, <1>5 DEF Starts, HandledBy
<1>8. t = <<>> => c2.media = m /\ Follows(x2, c2.question, m)
  BY <1>4, <1>5 DEF Shows, HandledBy
<1>9. ScreenOK(q, m, x2, c2, up, t)
  BY <1>1, <1>3, <1>4, <1>5, <1>6, <1>7, <1>8 DEF ScreenOK, HandledBy
<1> QED
  BY <1>9

----------------------------------------------------------------------------
(* The master. *)

LEMMA MasterTold ==
  ASSUME NEW q, NEW m, NEW q2 \in Question, NEW m2 \in Media, NEW r \in BOOLEAN, NEW c, NEW d, NEW up, NEW down,
         NEW up2 \in Seq(FromMaster), MasterOK(q, m, c, d, up, down),
         Starts(down) => up2 = <<>> /\ q2 = q,
         ~Starts(down) => Latest(up2, q2, c.question)
  PROVE  MasterOK(q2, m2, c, d, up2, down \o <<MediaPacket(m2, r)>>)
<1> PICK e \in ToMaster : e = MediaPacket(m2, r) /\ ~Turns(e) /\ Shows(e, m2) /\ e.type = "UPDATE_MEDIA_STATE"
  BY PacketsAre
<1> PICK t : t = down \o <<e>>
  OBVIOUS
<1>1. down \in Seq(ToMaster) /\ c \in Copy /\ d \in [pane : Media, remote : Media]
  BY DEF MasterOK
<1>2. OnlyFirst(down) /\ (Starts(down) => ~c.shows /\ down[1].question = q)
  BY DEF MasterOK
<1>3. t \in Seq(ToMaster) /\ Longer(down, t, e)
  BY <1>1, AppendIs
<1>4. EndsWith(t, m2) /\ t # <<>> /\ OnlyFirst(t) /\ (Starts(t) <=> Starts(down))
  BY <1>1, <1>2, <1>3, LongerShows
<1>5. Starts(down) => t[1] = down[1]
  <2>1. ASSUME Starts(down) PROVE 1 \in 1 .. Len(down)
    BY <1>1, <2>1, EmptyIs DEF Starts
  <2> QED
    BY <1>3, <2>1 DEF Longer
<1>6. MasterOK(q2, m2, c, d, up2, t)
  BY <1>1, <1>2, <1>3, <1>4, <1>5 DEF MasterOK
<1> QED
  BY <1>6

\* the server takes a packet of the master's that does not turn to a question
LEMMA MasterTaken ==
  ASSUME NEW q, NEW k, NEW up \in Seq(FromMaster), up # <<>>, Latest(up, q, k), Head(up).type # "SET_QUESTION"
  PROVE  Tail(up) \in Seq(FromMaster) /\ Latest(Tail(up), q, k)
<1>1. Tail(up) \in Seq(FromMaster) /\ Shorter(up, Tail(up)) /\ Head(up) = up[1] /\ up[1] \in FromMaster
  BY TailIs
<1>2. ~Turns(up[1])
  BY <1>1 DEF FromMaster, MediaPackets, QuestionPackets, Orders, Turns
<1> QED
  BY <1>1, <1>2, ShorterTurns DEF Latest

\* or one that does
LEMMA MasterTurnTaken ==
  ASSUME NEW q, NEW k, NEW up \in Seq(FromMaster), up # <<>>, Latest(up, q, k), Head(up).type = "SET_QUESTION"
  PROVE  Tail(up) \in Seq(FromMaster) /\ Latest(Tail(up), Head(up).question, k)
<1>1. Tail(up) \in Seq(FromMaster) /\ Shorter(up, Tail(up)) /\ Head(up) = up[1]
  BY TailIs
<1>2. Turns(up[1])
  BY <1>1 DEF Turns
<1>3. LastTurn(up, k)
  BY <1>1, <1>2, ShorterTurns DEF Latest
<1> QED
  BY <1>1, <1>2, <1>3, ShorterTurns DEF Latest

LEMMA MasterHandled ==
  ASSUME NEW q \in Question, NEW m, NEW c, NEW d, NEW up, NEW down, NEW c2, NEW d2, NEW up2,
         MasterOK(q, m, c, d, up, down), down # <<>>,
         c2 \in Copy, d2 \in [pane : Media, remote : Media],
         Head(down).type = "GAME" =>
           c2.question = Head(down).question /\ up2 = Append(up, [type |-> "START_GAME"]),
         Head(down).type # "GAME" =>
           /\ c2.question = c.question /\ c2.media = Head(down).media /\ up2 = up
           /\ d2.pane = Head(down).media /\ d2.remote.slide = Head(down).media.slide
  PROVE  MasterOK(q, m, c2, d2, up2, Tail(down))
<1> PICK t : t = Tail(down)
  OBVIOUS
<1> PICK e : e = Head(down)
  OBVIOUS
<1> PICK go : go = [type |-> "START_GAME"]
  OBVIOUS
<1>1. down \in Seq(ToMaster) /\ up \in Seq(FromMaster)
  BY DEF MasterOK
<1>2. /\ EndsWith(down, m) /\ OnlyFirst(down)
      /\ Starts(down) => up = <<>> /\ down[1].question = q
      /\ ~Starts(down) => Latest(up, q, c.question)
  BY DEF MasterOK
<1>3. t \in Seq(ToMaster) /\ Shorter(down, t) /\ e = down[1]
  BY <1>1, TailIs
<1>4. EndsWith(t, m) /\ OnlyFirst(t) /\ ~Starts(t) /\ (t = <<>> => Shows(e, m))
  BY <1>1, <1>2, TailShows
<1>5. CASE e.type = "GAME"
  <2>1. Starts(down)
    BY <1>3, <1>5 DEF Starts
  <2>2. up = <<>> /\ c2.question = q /\ up2 = Append(up, go)
    BY <1>2, <1>3, <1>5, <2>1
  <2>3. go \in FromMaster /\ ~Turns(go) /\ go.type = "START_GAME"
    BY DEF FromMaster, Orders, Turns
  <2>4. up2 \in Seq(FromMaster) /\ Longer(up, up2, go)
    BY <1>1, <2>2, <2>3, AppendIs
  <2>5. NoTurn(up)
    BY <2>2, EmptyIs DEF NoTurn
  <2>6. NoTurn(up2)
    BY <1>1, <2>3, <2>4, <2>5, LongerTurns
  <2>7. ~Silent(up2)
    <3>1. Len(up2) \in 1 .. Len(up2)
      BY <1>1, <2>4, EmptyIs DEF Longer
    <3> QED
      BY <2>3, <2>4, <3>1 DEF Longer, Silent
  <2>8. MasterOK(q, m, c2, d2, up2, t)
    BY <1>3, <1>4, <2>2, <2>4, <2>6, <2>7 DEF MasterOK, Latest
  <2> QED
    BY <2>8
<1>6. CASE e.type # "GAME"
  <2>1. ~Starts(down)
    BY <1>3, <1>6 DEF Starts
  <2>2. /\ c2.question = c.question /\ c2.media = e.media /\ up2 = up
        /\ d2.pane = e.media /\ d2.remote.slide = e.media.slide
    BY <1>6
  <2>3. Latest(up2, q, c2.question)
    BY <1>2, <2>1, <2>2
  <2>4. t = <<>> => c2.media = m /\ d2.pane = m /\ d2.remote.slide = m.slide
    BY <1>4, <2>2 DEF Shows
  <2>5. MasterOK(q, m, c2, d2, up2, t)
    BY <1>1, <1>3, <1>4, <2>2, <2>3, <2>4 DEF MasterOK
  <2> QED
    BY <2>5
<1> QED
  BY <1>5, <1>6

\* the master sends what it did
LEMMA MasterSent ==
  ASSUME NEW q \in Question, NEW m, NEW c, NEW d, NEW up, NEW down, NEW c2, NEW d2, NEW e \in FromMaster,
         MasterOK(q, m, c, d, up, down), c.shows,
         c2 \in Copy, d2 \in [pane : Media, remote : Media],
         Turns(e) => c2.question = e.question,
         ~Turns(e) => c2.question = c.question,
         e.type = "SET_BUZZER_LOCK" => c2 = c /\ d2 = d
  PROVE  MasterOK(q, m, c2, d2, Append(up, e), down)
<1> PICK up2 : up2 = Append(up, e)
  OBVIOUS
<1>1. down \in Seq(ToMaster) /\ up \in Seq(FromMaster)
  BY DEF MasterOK
<1>2. /\ EndsWith(down, m) /\ OnlyFirst(down) /\ ~Starts(down) /\ Latest(up, q, c.question)
      /\ down = <<>> /\ Silent(up) => c.media = m /\ d.pane = m /\ d.remote.slide = m.slide
  BY DEF MasterOK
<1>3. up2 \in Seq(FromMaster) /\ Longer(up, up2, e) /\ Len(up) \in Nat
  BY <1>1, AppendIs, EmptyIs
<1>4. Latest(up2, q, c2.question)
  BY <1>1, <1>2, <1>3, LongerTurns DEF Latest
<1>5. ASSUME Silent(up2) PROVE e.type = "SET_BUZZER_LOCK" /\ Silent(up)
  <2>1. Len(up2) = Len(up) + 1 /\ up2[Len(up2)] = e /\ \A i \in 1 .. Len(up) : up2[i] = up[i] /\ i \in 1 .. Len(up2)
    BY <1>3 DEF Longer
  <2> QED
    BY <1>3, <1>5, <2>1 DEF Silent
<1>6. MasterOK(q, m, c2, d2, up2, down)
  BY <1>1, <1>2, <1>3, <1>4, <1>5 DEF MasterOK
<1> QED
  BY <1>6

\* the server takes SET_BUZZER_LOCK, which nobody is told of here
LEMMA MasterUnlocks ==
  ASSUME NEW q \in Question, NEW m, NEW c, NEW d, NEW up, NEW down,
         MasterOK(q, m, c, d, up, down), up # <<>>, Head(up).type = "SET_BUZZER_LOCK"
  PROVE  MasterOK(q, m, c, d, Tail(up), down)
<1> PICK up2 : up2 = Tail(up)
  OBVIOUS
<1>1. up \in Seq(FromMaster)
  BY DEF MasterOK
<1>2. up2 \in Seq(FromMaster) /\ Shorter(up, up2) /\ Head(up) = up[1] /\ Len(up2) \in Nat
  BY <1>1, TailIs, EmptyIs
<1>3. ~Starts(down)
  BY DEF MasterOK
<1>4. Latest(up2, q, c.question)
  BY <1>1, <1>3, MasterTaken DEF MasterOK
<1>5. ASSUME Silent(up2) PROVE Silent(up)
  <2>1. ASSUME NEW i \in 1 .. Len(up) PROVE up[i].type = "SET_BUZZER_LOCK"
    <3>1. CASE i = 1
      BY <1>2, <3>1
    <3>2. CASE i # 1
      <4>1. i - 1 \in 1 .. Len(up2) /\ up2[i - 1] = up[i]
        BY <1>2, <3>2 DEF Shorter
      <4> QED
        BY <1>5, <4>1 DEF Silent
    <3> QED
      BY <3>1, <3>2
  <2> QED
    BY <2>1 DEF Silent
<1>6. MasterOK(q, m, c, d, up2, down)
  BY <1>2, <1>3, <1>4, <1>5 DEF MasterOK
<1> QED
  BY <1>6

----------------------------------------------------------------------------
(* The changes of a page are changes of its media. *)

Partial(changes) == \A n \in Media : With(changes, n) \in Media

LEMMA StateChanges == ASSUME NEW st \in MediaState PROVE Partial([state |-> st])
BY DEF Partial, With, Media

LEMMA SlideChanges ==
  ASSUME NEW st \in MediaState, NEW n \in 0 .. LastSlide PROVE Partial([state |-> st, slide |-> n])
BY DEF Partial, With, Media

LEMMA FullscreenChanges == ASSUME NEW b \in BOOLEAN PROVE Partial([fullscreen |-> b])
BY DEF Partial, With, Media

LEMMA ShownChanges == ASSUME NEW v \in Visibility PROVE Partial([question |-> v]) /\ Partial([answers |-> v])
BY DEF Partial, With, Media

\* what finishMedia changes, with nothing else or with the screen's fullscreen
LEMMA FinishChanges ==
  ASSUME NEW v \in Visibility, NEW w \in Visibility
  PROVE  LET changes == [state |-> "FINISHED", question |-> v, answers |-> w]
         IN  /\ Partial(With(<<>>, changes)) /\ Partial(With([fullscreen |-> FALSE], changes))
             /\ \A n \in Media : /\ With(With([fullscreen |-> FALSE], changes), n).state = "FINISHED"
                                 /\ With(With([fullscreen |-> FALSE], changes), n).fullscreen = FALSE
<1> PICK changes : changes = [state |-> "FINISHED", question |-> v, answers |-> w]
  OBVIOUS
<1>1. With(<<>>, changes) = changes
  BY DEF With
<1>2. Partial(changes)
  BY DEF Partial, With, Media, MediaState
<1> PICK all : all = With([fullscreen |-> FALSE], changes)
  OBVIOUS
<1>3. /\ DOMAIN all = {"fullscreen", "state", "question", "answers"}
      /\ all["fullscreen"] = FALSE /\ all["state"] = "FINISHED" /\ all["question"] = v /\ all["answers"] = w
  BY DEF With
<1>4. Partial(all) /\ \A n \in Media : With(all, n).state = "FINISHED" /\ With(all, n).fullscreen = FALSE
  BY <1>3 DEF Partial, With, Media, MediaState
<1> QED
  BY <1>1, <1>2, <1>4

\* the page p has the media m now, and has sent them
Changes(p, m) == copy' = [copy EXCEPT ![p].media = m] /\ Sends(p, MediaPacket(m, FALSE))

LEMMA ChangedIs ==
  ASSUME MediaTypeOK, NEW p \in Page, NEW changes, changeMediaState(p, changes)
  PROVE  \E n \in Media : Changes(p, With(changes, n))
<1> PICK current : current = copy[p].media
  OBVIOUS
<1>1. current \in Media /\ [current EXCEPT !.state = "PLAYING"] \in Media
  BY DEF MediaTypeOK, Media, MediaState
<1>2. \/ Changes(p, With(changes, [current EXCEPT !.state = "PLAYING"]))
      \/ Changes(p, With(changes, current))
  BY DEF changeMediaState, Changes
<1> QED
  BY <1>1, <1>2

MasterChanges == /\ \E m \in Media : Changes(Master, m)
                 /\ copy[Master].shows /\ UNCHANGED <<server, desk, player, toPage>>

LEMMA ButtonsChange ==
  ASSUME MediaTypeOK,
         \/ play \/ pause \/ replay \/ replaySlides \/ nextSlide \/ previousSlide
         \/ toggleFullscreen \/ toggleQuestion \/ toggleAnswers \/ toggleMedia
  PROVE  MasterChanges
<1>1. ASSUME NEW changes, Partial(changes), changeMediaState(Master, changes) PROVE \E m \in Media : Changes(Master, m)
  <2>1. Master \in Page
    BY DEF Page
  <2>2. PICK n \in Media : Changes(Master, With(changes, n))
    BY <1>1, <2>1, ChangedIs
  <2> QED
    BY <1>1, <2>2 DEF Partial
<1>2. ASSUME NEW kinds, MasterUses(kinds) PROVE copy[Master].shows /\ UNCHANGED <<server, desk, player, toPage>>
  BY <1>2 DEF MasterUses
<1>3. LastSlide \in Nat /\ \A st \in {"PLAYING", "PAUSED", "HIDDEN", "RESET"} : st \in MediaState
  BY MediaAssumption DEF MediaState
<1>4. desk.remote.slide \in 0 .. LastSlide /\ desk.remote.fullscreen \in BOOLEAN
  BY DEF MediaTypeOK, Media
<1>5. CASE play \/ pause \/ replay
  BY <1>1, <1>2, <1>3, <1>5, StateChanges DEF play, pause, replay, MasterChanges
<1>6. CASE replaySlides \/ previousSlide
  <2>1. 0 \in 0 .. LastSlide /\ (desk.remote.slide > 0 => desk.remote.slide - 1 \in 0 .. LastSlide)
    BY <1>3, <1>4
  <2> QED
    BY <1>1, <1>2, <1>3, <1>6, <2>1, SlideChanges DEF replaySlides, previousSlide, MasterChanges
<1>7. CASE nextSlide
  <2>1. MasterUses({"slideshow"})
    BY <1>7 DEF nextSlide
  <2>2. CASE changeMediaState(Master, [state |-> "PLAYING"])
    BY <1>1, <1>2, <1>3, <2>1, <2>2, StateChanges DEF MasterChanges
  <2>3. CASE /\ desk.remote.slide < LastSlide
             /\ changeMediaState(Master, [state |-> "PLAYING", slide |-> desk.remote.slide + 1])
    <3>1. desk.remote.slide + 1 \in 0 .. LastSlide
      BY <1>3, <1>4, <2>3
    <3> QED
      BY <1>1, <1>2, <1>3, <2>1, <2>3, <3>1, SlideChanges DEF MasterChanges
  <2>4. CASE finishMedia(Master, <<>>)
    <3>1. PICK v \in Visibility, w \in Visibility :
            changeMediaState(Master, With(<<>>, [state |-> "FINISHED", question |-> v, answers |-> w]))
      BY <2>4 DEF finishMedia, MediaTypeOK, Media, Visibility, Page
    <3> QED
      BY <1>1, <1>2, <2>1, <3>1, FinishChanges DEF MasterChanges
  <2> QED
    BY <1>7, <2>2, <2>3, <2>4 DEF nextSlide
<1>8. CASE toggleFullscreen
  BY <1>1, <1>2, <1>4, <1>8, FullscreenChanges DEF toggleFullscreen, MasterChanges
<1>9. CASE toggleQuestion \/ toggleAnswers
  <2>1. "SHOWN" \in Visibility /\ "HIDDEN" \in Visibility
    BY DEF Visibility
  <2> QED
    BY <1>1, <1>2, <1>9, <2>1, ShownChanges DEF toggleQuestion, toggleAnswers, MasterChanges
<1>10. CASE toggleMedia
  <2>1. PICK st \in MediaState : changeMediaState(Master, [state |-> st])
    BY <1>3, <1>10 DEF toggleMedia
  <2> QED
    BY <1>1, <1>2, <1>10, <2>1, StateChanges DEF toggleMedia, MasterChanges
<1> QED
  BY <1>5, <1>6, <1>7, <1>8, <1>9, <1>10

----------------------------------------------------------------------------
(* What the master does. *)

ServerRecord == [question : Question, media : Media, locked : BOOLEAN, alone : BOOLEAN,
                 resumes : BOOLEAN, connected : SUBSET Page]

LEMMA PageIs == Master \in Page /\ \A p \in Page : (p = Master /\ p \notin Screen) \/ (p # Master /\ p \in Screen)
BY MediaAssumption DEF Page

LEMMA TypesAre ==
  MediaTypeOK <=> /\ server \in ServerRecord /\ copy \in [Page -> Copy]
                  /\ desk \in [pane : Media, remote : Media] /\ player \in [Screen -> Player]
BY DEF MediaTypeOK, ServerRecord, Copy

\* a screen for which nothing changed
LEMMA ScreenStays ==
  ASSUME NEW s \in Screen, ScreenInv(s),
         server'.question = server.question, server'.media = server.media, server'.connected = server.connected,
         copy'[s] = copy[s], player'[s] = player[s], toServer'[s] = toServer[s], toPage'[s] = toPage[s]
  PROVE  ScreenInv(s)'
BY DEF ScreenInv

LEMMA MasterStays ==
  ASSUME MasterInv,
         server'.question = server.question, server'.media = server.media, server'.connected = server.connected,
         copy'[Master] = copy[Master], desk' = desk, toServer'[Master] = toServer[Master], toPage'[Master] = toPage[Master]
  PROVE  MasterInv'
BY DEF MasterInv

LEMMA MasterSends ==
  ASSUME ShowInv, copy[Master].shows, NEW c2 \in Copy, NEW d2 \in [pane : Media, remote : Media], NEW e \in FromMaster,
         Turns(e) => c2.question = e.question,
         ~Turns(e) => c2.question = copy[Master].question,
         e.type = "SET_BUZZER_LOCK" => c2 = copy[Master] /\ d2 = desk,
         copy' = [copy EXCEPT ![Master] = c2], desk' = d2, Sends(Master, e),
         UNCHANGED <<server, player, toPage>>
  PROVE  ShowInv'
<1>1. /\ server \in ServerRecord /\ copy \in [Page -> Copy] /\ player \in [Screen -> Player]
      /\ DOMAIN toServer = Page /\ DOMAIN toPage = Page
  BY TypesAre DEF ShowInv
<1>2. Master \in server.connected
  BY DEF ShowInv, MasterInv, Away, Blank
<1>3. MasterOK(server.question, server.media, copy[Master], desk, toServer[Master], toPage[Master])
  BY <1>2 DEF ShowInv, MasterInv
<1>4. /\ copy' \in [Page -> Copy] /\ copy'[Master] = c2 /\ \A p \in Page : p # Master => copy'[p] = copy[p]
  BY <1>1, PageIs
<1>5. /\ DOMAIN toServer' = Page /\ toServer'[Master] = Append(toServer[Master], e)
      /\ \A p \in Page : p # Master => toServer'[p] = toServer[p]
  BY <1>1, PageIs DEF Sends
<1>6. server.question \in Question
  BY <1>1 DEF ServerRecord
<1>7. MasterOK(server.question, server.media, c2, d2, Append(toServer[Master], e), toPage[Master])
  BY <1>3, <1>6, MasterSent
<1>8. MasterInv'
  BY <1>2, <1>4, <1>5, <1>7 DEF MasterInv
<1>9. ASSUME NEW s \in Screen PROVE ScreenInv(s)'
  <2>1. s \in Page /\ s # Master
    BY PageIs DEF Page
  <2> QED
    BY <1>4, <1>5, <2>1, ScreenStays DEF ShowInv
<1>10. MediaTypeOK'
  BY <1>1, <1>4 DEF MediaTypeOK, ServerRecord, Copy
<1> QED
  BY <1>1, <1>5, <1>8, <1>9, <1>10 DEF ShowInv

LEMMA MasterGoes == ShowInv /\ MasterActs => ShowInv'
<1> SUFFICES ASSUME ShowInv, MasterActs PROVE ShowInv'
  OBVIOUS
<1>1. /\ MediaTypeOK /\ copy \in [Page -> Copy] /\ desk \in [pane : Media, remote : Media]
      /\ copy[Master] \in Copy
  BY TypesAre, PageIs DEF ShowInv
<1>2. CASE \/ play \/ pause \/ replay \/ replaySlides \/ nextSlide \/ previousSlide
           \/ toggleFullscreen \/ toggleQuestion \/ toggleAnswers \/ toggleMedia
  <2>1. PICK m \in Media : Changes(Master, m) /\ copy[Master].shows /\ UNCHANGED <<server, desk, player, toPage>>
    BY <1>1, <1>2, ButtonsChange DEF MasterChanges
  <2> PICK c2 : c2 = [copy[Master] EXCEPT !.media = m]
    OBVIOUS
  <2> PICK e \in FromMaster : e = MediaPacket(m, FALSE) /\ ~Turns(e) /\ e.type = "UPDATE_MEDIA_STATE"
    <3>1. \E q : q \in Question
      BY MediaAssumption
    <3> QED
      BY <3>1, PacketsAre
  <2>2. c2 \in Copy /\ c2.question = copy[Master].question
    BY <1>1 DEF Copy
  <2>3. copy' = [copy EXCEPT ![Master] = c2] /\ Sends(Master, e)
    BY <1>1, <2>1, PageIs DEF Changes
  <2> QED
    BY <1>1, <2>1, <2>2, <2>3, MasterSends
<1>3. ASSUME NEW q \in Question, goToQuestion(q) PROVE ShowInv'
  <2> PICK c2 : c2 = [copy[Master] EXCEPT !.question = q]
    OBVIOUS
  <2> PICK d2 : d2 = [desk EXCEPT !.pane = Config[q]]
    OBVIOUS
  <2>0. NoMedia \in Media
    BY MediaAssumption DEF NoMedia, Media, MediaState, Visibility
  <2> PICK e \in FromMaster : e = QuestionPacket(q) /\ Turns(e) /\ e.question = q /\ e.type = "SET_QUESTION"
    BY <2>0, PacketsAre
  <2>1. c2 \in Copy /\ c2.question = q /\ d2 \in [pane : Media, remote : Media]
    BY <1>1, MediaAssumption DEF Copy
  <2>2. /\ copy[Master].shows /\ copy' = [copy EXCEPT ![Master] = c2] /\ desk' = d2 /\ Sends(Master, e)
        /\ UNCHANGED <<server, player, toPage>>
    BY <1>1, <1>3, PageIs DEF goToQuestion
  <2> QED
    BY <2>1, <2>2, MasterSends
<1>4. CASE release
  <2> PICK e : e = [type |-> "SET_BUZZER_LOCK"]
    OBVIOUS
  <2>1. e \in FromMaster /\ ~Turns(e)
    BY DEF FromMaster, Orders, Turns
  <2>2. /\ copy[Master].shows /\ copy' = copy /\ desk' = desk /\ Sends(Master, e) /\ UNCHANGED <<server, player, toPage>>
    BY <1>4 DEF release
  <2>3. copy' = [copy EXCEPT ![Master] = copy[Master]]
    BY <1>1, <2>2
  <2> QED
    BY <1>1, <2>1, <2>2, <2>3, MasterSends
<1> QED
  BY <1>2, <1>3, <1>4 DEF MasterActs

LEMMA MasterReads == ShowInv /\ MasterReceives => ShowInv'
<1> SUFFICES ASSUME ShowInv, MasterReceives PROVE ShowInv'
  OBVIOUS
<1>1. /\ server \in ServerRecord /\ copy \in [Page -> Copy] /\ player \in [Screen -> Player]
      /\ desk \in [pane : Media, remote : Media] /\ DOMAIN toServer = Page /\ DOMAIN toPage = Page
  BY TypesAre DEF ShowInv
<1> PICK e : e = Head(toPage[Master])
  OBVIOUS
<1>2. /\ toPage[Master] # <<>> /\ MasterHandles(e) /\ toPage' = [toPage EXCEPT ![Master] = Tail(@)]
      /\ server' = server /\ player' = player
  BY DEF MasterReceives
<1>3. Master \in server.connected
  BY <1>2 DEF ShowInv, MasterInv, Away
<1>4. MasterOK(server.question, server.media, copy[Master], desk, toServer[Master], toPage[Master])
  BY <1>3 DEF ShowInv, MasterInv
<1>5. e \in ToMaster
  BY <1>2, <1>4, TailIs DEF MasterOK
<1>6. /\ e.media \in Media /\ e.type \in {"UPDATE_MEDIA_STATE", "GAME"}
      /\ e.type = "GAME" => e.question \in Question
  BY <1>5 DEF ToMaster, MediaPackets, GamePackets
<1>7. \E c2 \in Copy, d2 \in [pane : Media, remote : Media] :
        /\ copy' = [copy EXCEPT ![Master] = c2] /\ desk' = d2
        /\ e.type = "GAME" => c2.question = e.question /\ Sends(Master, [type |-> "START_GAME"])
        /\ e.type # "GAME" =>
             /\ c2.question = copy[Master].question /\ c2.media = e.media /\ toServer' = toServer
             /\ d2.pane = e.media /\ d2.remote.slide = e.media.slide
  <2>1. copy[Master] \in Copy
    BY <1>1, PageIs
  <2>2. CASE e.type = "GAME"
    <3> PICK c2 : c2 = [copy[Master] EXCEPT !.question = e.question, !.media = e.media]
      OBVIOUS
    <3>1. c2 \in Copy /\ c2.question = e.question
      BY <1>6, <2>1, <2>2 DEF Copy
    <3>2. copy' = [copy EXCEPT ![Master] = c2] /\ desk' = desk /\ Sends(Master, [type |-> "START_GAME"])
      BY <1>1, <1>2, <2>2, PageIs DEF MasterHandles
    <3> QED
      BY <1>1, <2>2, <3>1, <3>2
  <2>3. CASE e.type # "GAME"
    <3> PICK c2 : c2 = [copy[Master] EXCEPT !.media = e.media, !.shows = TRUE]
      OBVIOUS
    <3> PICK remote : remote = [e.media EXCEPT !.state = IF @ = "RESET" THEN "PLAYING" ELSE @]
      OBVIOUS
    <3> PICK d2 : d2 = [pane |-> e.media, remote |-> remote]
      OBVIOUS
    <3>1. c2 \in Copy /\ c2.question = copy[Master].question /\ c2.media = e.media
      BY <1>6, <2>1 DEF Copy
    <3>2. remote \in Media /\ remote.slide = e.media.slide
      BY <1>6 DEF Media, MediaState
    <3>3. copy' = [copy EXCEPT ![Master] = c2] /\ desk' = d2 /\ toServer' = toServer
      BY <1>1, <1>2, <2>3, PageIs DEF MasterHandles
    <3>4. d2 \in [pane : Media, remote : Media] /\ d2.pane = e.media /\ d2.remote.slide = e.media.slide
      BY <1>6, <3>2
    <3> QED
      BY <2>3, <3>1, <3>3, <3>4
  <2> QED
    BY <2>2, <2>3
<1>8. PICK c2 \in Copy, d2 \in [pane : Media, remote : Media] :
        /\ copy' = [copy EXCEPT ![Master] = c2] /\ desk' = d2
        /\ e.type = "GAME" => c2.question = e.question /\ Sends(Master, [type |-> "START_GAME"])
        /\ e.type # "GAME" =>
             /\ c2.question = copy[Master].question /\ c2.media = e.media /\ toServer' = toServer
             /\ d2.pane = e.media /\ d2.remote.slide = e.media.slide
  BY <1>7
<1>9. /\ copy' \in [Page -> Copy] /\ copy'[Master] = c2 /\ \A p \in Page : p # Master => copy'[p] = copy[p]
      /\ DOMAIN toPage' = Page /\ toPage'[Master] = Tail(toPage[Master])
      /\ \A p \in Page : p # Master => toPage'[p] = toPage[p]
  BY <1>1, <1>2, <1>8, PageIs
<1>10. /\ DOMAIN toServer' = Page /\ \A p \in Page : p # Master => toServer'[p] = toServer[p]
       /\ e.type = "GAME" => toServer'[Master] = Append(toServer[Master], [type |-> "START_GAME"])
       /\ e.type # "GAME" => toServer'[Master] = toServer[Master]
  BY <1>1, <1>8, PageIs DEF Sends
<1>11. server.question \in Question
  BY <1>1 DEF ServerRecord
<1>12. MasterOK(server.question, server.media, c2, d2, toServer'[Master], Tail(toPage[Master]))
  BY <1>2, <1>4, <1>8, <1>10, <1>11, MasterHandled
<1>13. MasterInv'
  BY <1>2, <1>3, <1>8, <1>9, <1>12 DEF MasterInv
<1>14. ASSUME NEW s \in Screen PROVE ScreenInv(s)'
  <2>1. s \in Page /\ s # Master
    BY PageIs DEF Page
  <2> QED
    BY <1>2, <1>9, <1>10, <2>1, ScreenStays DEF ShowInv
<1>15. MediaTypeOK'
  BY <1>1, <1>2, <1>8, <1>9 DEF MediaTypeOK, ServerRecord, Copy
<1> QED
  BY <1>2, <1>9, <1>10, <1>13, <1>14, <1>15 DEF ShowInv

----------------------------------------------------------------------------
(* What the screens do. *)

\* a screen that shows the game is connected
LEMMA ShowingIs ==
  ASSUME ShowInv, NEW s \in Screen, copy[s].shows \/ toPage[s] # <<>> \/ toServer[s] # <<>>
  PROVE  /\ s \in server.connected
         /\ ScreenOK(server.question, server.media, player[s], copy[s], toServer[s], toPage[s])
<1>1. s \in server.connected
  BY DEF ShowInv, ScreenInv, Away, Blank
<1> QED
  BY <1>1 DEF ShowInv, ScreenInv

\* the queues are the same but for the page p, which has v
OnlyAt(new, old, p, v) == DOMAIN new = DOMAIN old /\ new[p] = v /\ \A r \in DOMAIN old : r # p => new[r] = old[r]

\* of one screen, nothing but its own state and packets changes
LEMMA ScreenChanges ==
  ASSUME ShowInv, NEW s \in Screen, s \in server.connected, NEW x \in Player, NEW c \in Copy, NEW up, NEW down,
         ScreenOK(server.question, server.media, x, c, up, down),
         copy' = [copy EXCEPT ![s] = c], player' = [player EXCEPT ![s] = x],
         OnlyAt(toServer', toServer, s, up), OnlyAt(toPage', toPage, s, down),
         UNCHANGED <<server, desk>>
  PROVE  ShowInv'
<1>1. /\ server \in ServerRecord /\ copy \in [Page -> Copy] /\ player \in [Screen -> Player]
      /\ desk \in [pane : Media, remote : Media] /\ DOMAIN toServer = Page /\ DOMAIN toPage = Page
  BY TypesAre DEF ShowInv
<1>2. s \in Page /\ s # Master
  BY PageIs DEF Page
<1>3. /\ copy' \in [Page -> Copy] /\ player' \in [Screen -> Player] /\ DOMAIN toServer' = Page /\ DOMAIN toPage' = Page
      /\ copy'[s] = c /\ player'[s] = x /\ toServer'[s] = up /\ toPage'[s] = down
  BY <1>1, <1>2 DEF OnlyAt
<1>4. /\ \A p \in Page : p # s => copy'[p] = copy[p] /\ toServer'[p] = toServer[p] /\ toPage'[p] = toPage[p]
      /\ \A p \in Screen : p # s => player'[p] = player[p]
  BY <1>1 DEF OnlyAt
<1>5. ScreenInv(s)'
  BY <1>3 DEF ScreenInv
<1>6. ASSUME NEW p \in Screen, p # s PROVE ScreenInv(p)'
  BY <1>4, <1>6, ScreenStays DEF ShowInv, Page
<1>7. MasterInv'
  BY <1>2, <1>4, PageIs, MasterStays DEF ShowInv
<1>8. MediaTypeOK'
  BY <1>1, <1>3 DEF MediaTypeOK, ServerRecord, Copy
<1> QED
  BY <1>3, <1>5, <1>6, <1>7, <1>8 DEF ShowInv

\* nothing but its player
LEMMA PlayerChanges ==
  ASSUME ShowInv, NEW s \in Screen, copy[s].shows, NEW x \in Player,
         x.visible = player[s].visible, x.hidden = player[s].hidden, x.slide = player[s].slide,
         x.fullscreen = player[s].fullscreen, Sound(x, copy[s].question),
         x.playing => player[s].playing \/ (player[s].visible /\ isPlayable(copy[s].question)),
         player' = [player EXCEPT ![s] = x], UNCHANGED <<server, copy, desk, toServer, toPage>>
  PROVE  ShowInv'
<1>1. /\ copy \in [Page -> Copy] /\ player \in [Screen -> Player]
      /\ DOMAIN toServer = Page /\ DOMAIN toPage = Page
  BY TypesAre DEF ShowInv
<1>2. /\ s \in server.connected
      /\ ScreenOK(server.question, server.media, player[s], copy[s], toServer[s], toPage[s])
  BY ShowingIs
<1>3. ASSUME NEW m, Follows(player[s], copy[s].question, m) PROVE Follows(x, copy[s].question, m)
  BY <1>3 DEF Follows, isPlayable
<1>4. ScreenOK(server.question, server.media, x, copy[s], toServer[s], toPage[s])
  BY <1>2, <1>3 DEF ScreenOK
<1>5. s \in Page
  BY DEF Page
<1>6. /\ copy' = [copy EXCEPT ![s] = copy[s]]
      /\ OnlyAt(toServer', toServer, s, toServer[s]) /\ OnlyAt(toPage', toPage, s, toPage[s])
  BY <1>1, <1>5 DEF OnlyAt
<1> QED
  BY <1>1, <1>2, <1>4, <1>5, <1>6, ScreenChanges

LEMMA PlayerLoads == ASSUME ShowInv, NEW s \in Screen, Loaded(s) PROVE ShowInv'
<1> PICK x : x = [player[s] EXCEPT !.ready = TRUE, !.playing = player[s].visible]
  OBVIOUS
<1>1. player \in [Screen -> Player] /\ player[s] \in Player
  BY TypesAre DEF ShowInv
<1>2. copy[s].shows /\ isPlayable(copy[s].question)
  BY DEF Loaded, Plays
<1>3. /\ x \in Player /\ x.visible = player[s].visible /\ x.hidden = player[s].hidden /\ x.slide = player[s].slide
      /\ x.fullscreen = player[s].fullscreen /\ x.playing = player[s].visible /\ x.ready
  BY <1>1 DEF Player
<1>4. Sound(x, copy[s].question)
  BY <1>2, <1>3 DEF Sound, isPlayable
<1>5. player' = [player EXCEPT ![s] = x] /\ UNCHANGED <<server, copy, desk, toServer, toPage>>
  BY <1>1 DEF Loaded
<1> QED
  BY <1>2, <1>3, <1>4, <1>5, PlayerChanges

LEMMA PlayerGoesOn == ASSUME ShowInv, NEW s \in Screen, GoesOn(s) PROVE ShowInv'
<1> PICK x : x = [player[s] EXCEPT !.at = "on"]
  OBVIOUS
<1>1. player \in [Screen -> Player] /\ player[s] \in Player
  BY TypesAre DEF ShowInv
<1>2. copy[s].shows /\ isPlayable(copy[s].question) /\ player[s].playing
  BY DEF GoesOn, Plays
<1>3. Sound(player[s], copy[s].question)
  BY <1>2, ShowingIs DEF ScreenOK
<1>4. /\ x \in Player /\ x.visible = player[s].visible /\ x.hidden = player[s].hidden /\ x.slide = player[s].slide
      /\ x.fullscreen = player[s].fullscreen /\ x.playing = player[s].playing /\ x.ready = player[s].ready
  BY <1>1 DEF Player
<1>5. Sound(x, copy[s].question)
  BY <1>2, <1>3, <1>4 DEF Sound, isPlayable
<1>6. player' = [player EXCEPT ![s] = x] /\ UNCHANGED <<server, copy, desk, toServer, toPage>>
  BY <1>1 DEF GoesOn
<1> QED
  BY <1>2, <1>4, <1>5, <1>6, PlayerChanges

LEMMA PlayerEnds == ASSUME ShowInv, NEW s \in Screen, Ended(s) PROVE ShowInv'
<1> PICK x : x = [player[s] EXCEPT !.playing = FALSE, !.at = "end"]
  OBVIOUS
<1>1. /\ MediaTypeOK /\ player \in [Screen -> Player] /\ player[s] \in Player /\ copy \in [Page -> Copy]
      /\ s \in Page /\ copy[s] \in Copy /\ copy[s].media \in Media /\ DOMAIN toServer = Page /\ DOMAIN toPage = Page
  <2>1. s \in Page
    BY DEF Page
  <2> QED
    BY <2>1, TypesAre DEF ShowInv, Copy
<1>2. copy[s].shows /\ isPlayable(copy[s].question)
  BY DEF Ended, Plays
<1>3. /\ s \in server.connected
      /\ ScreenOK(server.question, server.media, player[s], copy[s], toServer[s], toPage[s])
  BY <1>2, ShowingIs
<1>4. PICK v \in Visibility, w \in Visibility :
        changeMediaState(s, With([fullscreen |-> FALSE], [state |-> "FINISHED", question |-> v, answers |-> w]))
  BY <1>1 DEF Ended, finishMedia, Media, Visibility
<1>5. PICK m \in Media : Changes(s, m) /\ m.state = "FINISHED" /\ m.fullscreen = FALSE
  <2> PICK changes : changes = With([fullscreen |-> FALSE], [state |-> "FINISHED", question |-> v, answers |-> w])
    OBVIOUS
  <2>1. Partial(changes) /\ \A n \in Media : With(changes, n).state = "FINISHED" /\ With(changes, n).fullscreen = FALSE
    BY FinishChanges
  <2>2. PICK n \in Media : Changes(s, With(changes, n))
    BY <1>1, <1>4, ChangedIs
  <2> QED
    BY <2>1, <2>2 DEF Partial
<1> PICK c : c = [copy[s] EXCEPT !.media = m]
  OBVIOUS
<1> PICK e \in Endings : e = MediaPacket(m, FALSE)
  BY <1>1, <1>5, PacketsAre, MediaAssumption
<1> PICK up : up = Append(toServer[s], e)
  OBVIOUS
<1>6. /\ x \in Player /\ x.ready = player[s].ready /\ ~x.playing
      /\ c \in Copy /\ c.shows = copy[s].shows /\ c.question = copy[s].question
  BY <1>1 DEF Player, Copy
<1>7. up \in Seq(Endings) /\ up # <<>>
  <2>1. PICK u \in Seq(Endings) : u = toServer[s]
    BY <1>3 DEF ScreenOK
  <2>2. Append(u, e) \in Seq(Endings) /\ Append(u, e) # <<>>
    BY AppendNotEmpty
  <2> QED
    BY <2>1, <2>2
<1>8. Sound(x, c.question)
  BY <1>2, <1>3, <1>6 DEF Sound, ScreenOK, isPlayable
<1>9. ScreenOK(server.question, server.media, x, c, up, toPage[s])
  BY <1>3, <1>6, <1>7, <1>8 DEF ScreenOK
<1>10. /\ copy' = [copy EXCEPT ![s] = c] /\ player' = [player EXCEPT ![s] = x]
       /\ toServer' = [toServer EXCEPT ![s] = up] /\ toPage' = toPage /\ UNCHANGED <<server, desk>>
  BY <1>1, <1>5 DEF Ended, Changes, Sends
<1>11. OnlyAt(toServer', toServer, s, up) /\ OnlyAt(toPage', toPage, s, toPage[s])
  BY <1>1, <1>10 DEF OnlyAt
<1> QED
  BY <1>3, <1>6, <1>9, <1>10, <1>11, ScreenChanges

LEMMA ScreenReads == ASSUME ShowInv, NEW s \in Screen, ScreenReceives(s) PROVE ShowInv'
<1>1. /\ player \in [Screen -> Player] /\ player[s] \in Player /\ copy \in [Page -> Copy] /\ s \in Page
      /\ copy[s] \in Copy /\ copy[s].question \in Question /\ copy[s].media \in Media
      /\ DOMAIN toServer = Page /\ DOMAIN toPage = Page
  <2>1. s \in Page
    BY DEF Page
  <2> QED
    BY <2>1, TypesAre DEF ShowInv, Copy
<1> PICK e : e = Head(toPage[s])
  OBVIOUS
<1>2. /\ toPage[s] # <<>> /\ ScreenHandles(s, e) /\ toPage' = [toPage EXCEPT ![s] = Tail(toPage[s])]
      /\ UNCHANGED <<server, desk, toServer>>
  BY <1>1 DEF ScreenReceives
<1>3. /\ s \in server.connected
      /\ ScreenOK(server.question, server.media, player[s], copy[s], toServer[s], toPage[s])
  BY <1>2, ShowingIs
<1>4. e \in ToScreens
  BY <1>2, <1>3, TailIs DEF ScreenOK
<1>5. /\ e.type \in {"UPDATE_MEDIA_STATE", "SET_QUESTION", "GAME"}
      /\ e.type # "SET_QUESTION" => e.media \in Media
      /\ Turns(e) => e.question \in Question
      /\ Turns(e) <=> e.type # "UPDATE_MEDIA_STATE"
  BY <1>4, ScreenPacketIs
<1>6. Sound(player[s], copy[s].question)
  BY <1>3 DEF ScreenOK
<1>7. \E x \in Player, c \in Copy :
        HandledBy(e, copy[s], x, c) /\ copy' = [copy EXCEPT ![s] = c] /\ player' = [player EXCEPT ![s] = x]
  <2>1. CASE e.type = "GAME"
    <3> PICK x : x = Mounted(e.question, e.media)
      OBVIOUS
    <3> PICK c : c = [shows |-> TRUE, question |-> e.question, media |-> e.media]
      OBVIOUS
    <3>1. x \in Player /\ Sound(x, e.question) /\ Follows(x, e.question, e.media)
      BY <1>5, <2>1, MountedFollows
    <3>2. c \in Copy /\ c.shows /\ c.question = e.question /\ c.media = e.media
      BY <1>5, <2>1 DEF Copy
    <3>3. copy' = [copy EXCEPT ![s] = c] /\ player' = [player EXCEPT ![s] = x]
      BY <1>2, <2>1 DEF ScreenHandles
    <3>4. HandledBy(e, copy[s], x, c)
      BY <1>5, <2>1, <3>1, <3>2 DEF HandledBy
    <3> QED
      BY <3>1, <3>2, <3>3, <3>4
  <2>2. CASE e.type = "SET_QUESTION"
    <3> PICK x : x = AtQuestion(player[s], copy[s].question, e.question, copy[s].media)
      OBVIOUS
    <3> PICK c : c = [copy[s] EXCEPT !.question = e.question]
      OBVIOUS
    <3>1. x \in Player /\ Sound(x, e.question)
      BY <1>1, <1>5, <2>2, TurnedIsSound
    <3>2. c \in Copy /\ c.shows = copy[s].shows /\ c.question = e.question
      BY <1>1, <1>5, <2>2 DEF Copy
    <3>3. copy' = [copy EXCEPT ![s] = c] /\ player' = [player EXCEPT ![s] = x]
      BY <1>1, <1>2, <2>2 DEF ScreenHandles
    <3>4. HandledBy(e, copy[s], x, c)
      BY <1>5, <2>2, <3>1, <3>2 DEF HandledBy
    <3> QED
      BY <3>1, <3>2, <3>3, <3>4
  <2>3. CASE e.type = "UPDATE_MEDIA_STATE"
    <3> PICK x : x = IF Kind[copy[s].question] = "none" THEN player[s] ELSE Applied(player[s], copy[s].question, e.media)
      OBVIOUS
    <3> PICK c : c = [copy[s] EXCEPT !.media = e.media]
      OBVIOUS
    <3>1. x \in Player /\ Sound(x, copy[s].question) /\ Follows(x, copy[s].question, e.media)
      <4>1. CASE Kind[copy[s].question] = "none"
        BY <1>1, <1>6, <4>1 DEF Follows
      <4>2. CASE Kind[copy[s].question] # "none"
        BY <1>1, <1>5, <1>6, <2>3, <4>2, AppliedFollows
      <4> QED
        BY <4>1, <4>2
    <3>2. c \in Copy /\ c.shows = copy[s].shows /\ c.question = copy[s].question /\ c.media = e.media
      BY <1>1, <1>5, <2>3 DEF Copy
    <3>3. copy' = [copy EXCEPT ![s] = c] /\ player' = [player EXCEPT ![s] = x]
      BY <1>1, <1>2, <2>3 DEF ScreenHandles
    <3>4. HandledBy(e, copy[s], x, c)
      BY <1>5, <2>3, <3>1, <3>2 DEF HandledBy
    <3> QED
      BY <3>1, <3>2, <3>3, <3>4
  <2> QED
    BY <1>5, <2>1, <2>2, <2>3
<1>8. PICK x \in Player, c \in Copy :
        HandledBy(e, copy[s], x, c) /\ copy' = [copy EXCEPT ![s] = c] /\ player' = [player EXCEPT ![s] = x]
  BY <1>7
<1>9. ScreenOK(server.question, server.media, x, c, toServer[s], Tail(toPage[s]))
  BY <1>2, <1>3, <1>8, ScreenHandled
<1>10. OnlyAt(toServer', toServer, s, toServer[s]) /\ OnlyAt(toPage', toPage, s, Tail(toPage[s]))
  BY <1>1, <1>2 DEF OnlyAt
<1> QED
  BY <1>2, <1>3, <1>8, <1>9, <1>10, ScreenChanges

----------------------------------------------------------------------------
(* What the server does. *)

\* the server becomes sv and tells the pages so, of a new question as well
Tells(sv, r) ==
  \/ sv.question = server.question /\ onUpdateMediaState(sv, <<>>, r)
  \/ onUpdateMediaState(sv, <<QuestionPacket(sv.question)>>, r)

\* A screen, which keeps what it sent or from which the server took a packet.
LEMMA ScreenIsTold ==
  ASSUME ShowInv, NEW s \in Screen, NEW sv \in ServerRecord, NEW r \in BOOLEAN, Tells(sv, r),
         sv.connected = server.connected,
         toServer'[s] = toServer[s] \/ (toServer[s] # <<>> /\ toServer'[s] = Tail(toServer[s])),
         UNCHANGED <<copy, player>>
  PROVE  ScreenInv(s)'
<1>1. s \in Page /\ s # Master /\ server' = sv /\ sv.question \in Question /\ sv.media \in Media
      /\ server.question \in Question
  BY PageIs, TypesAre DEF Page, Tells, onUpdateMediaState, ShowInv, ServerRecord
<1>2. CASE s \in server.connected
  <2>1. ScreenOK(server.question, server.media, player[s], copy[s], toServer[s], toPage[s])
    BY <1>2 DEF ShowInv, ScreenInv
  <2>2. toServer'[s] \in Seq(Endings)
    BY <2>1, TailIs DEF ScreenOK
  <2>3. toPage[s] \in Seq(ToScreens)
    BY <2>1 DEF ScreenOK
  <2>4. CASE sv.question = server.question /\ onUpdateMediaState(sv, <<>>, r)
    <3>1. toPage'[s] = (toPage[s] \o <<>>) \o <<MediaPacket(sv.media, r)>>
      BY <1>1, <1>2, <2>4 DEF onUpdateMediaState
    <3>2. toPage[s] \o <<>> = toPage[s]
      BY <2>3, ConcatEmptySeq
    <3>3. ScreenOK(sv.question, sv.media, player[s], copy[s], toServer'[s], toPage'[s])
      BY <1>1, <2>1, <2>2, <2>4, <3>1, <3>2, ScreenTold
    <3> QED
      BY <1>1, <1>2, <3>3 DEF ScreenInv
  <2>5. CASE onUpdateMediaState(sv, <<QuestionPacket(sv.question)>>, r)
    <3>1. toPage'[s] = (toPage[s] \o <<QuestionPacket(sv.question)>>) \o <<MediaPacket(sv.media, r)>>
      BY <1>1, <1>2, <2>5 DEF onUpdateMediaState
    <3>2. ScreenOK(sv.question, sv.media, player[s], copy[s], toServer'[s], toPage'[s])
      BY <1>1, <2>1, <2>2, <3>1, ScreenTurned
    <3> QED
      BY <1>1, <1>2, <3>2 DEF ScreenInv
  <2> QED
    BY <2>4, <2>5 DEF Tells
<1>3. CASE s \notin server.connected
  <2>1. Away(copy[s], toServer[s], toPage[s]) /\ player[s] = NewPlayer
    BY <1>3 DEF ShowInv, ScreenInv
  <2>2. toPage'[s] = toPage[s]
    BY <1>1, <1>3 DEF Tells, onUpdateMediaState
  <2> QED
    BY <1>1, <1>3, <2>1, <2>2 DEF ScreenInv, Away
<1> QED
  BY <1>2, <1>3

\* The master, which is told of the media.
LEMMA MasterIsTold ==
  ASSUME ShowInv, NEW sv \in ServerRecord, NEW r \in BOOLEAN, Tells(sv, r), sv.connected = server.connected,
         Master \in server.connected =>
           /\ toServer'[Master] \in Seq(FromMaster)
           /\ Starts(toPage[Master]) => toServer'[Master] = <<>> /\ sv.question = server.question
           /\ ~Starts(toPage[Master]) => Latest(toServer'[Master], sv.question, copy[Master].question),
         Master \notin server.connected => toServer'[Master] = toServer[Master],
         UNCHANGED <<copy, desk>>
  PROVE  MasterInv'
<1>1. Master \in Page /\ server' = sv /\ sv.question \in Question /\ sv.media \in Media
  BY PageIs DEF Tells, onUpdateMediaState, ServerRecord
<1>2. CASE Master \in server.connected
  <2>1. MasterOK(server.question, server.media, copy[Master], desk, toServer[Master], toPage[Master])
    BY <1>2 DEF ShowInv, MasterInv
  <2>2. toPage[Master] \in Seq(ToMaster)
    BY <2>1 DEF MasterOK
  <2>3. toPage'[Master] = (toPage[Master] \o <<>>) \o <<MediaPacket(sv.media, r)>>
    BY <1>1, <1>2 DEF Tells, onUpdateMediaState
  <2>4. toPage[Master] \o <<>> = toPage[Master]
    BY <2>2, ConcatEmptySeq
  <2>5. MasterOK(sv.question, sv.media, copy[Master], desk, toServer'[Master], toPage'[Master])
    BY <1>1, <1>2, <2>1, <2>3, <2>4, MasterTold
  <2> QED
    BY <1>1, <1>2, <2>5 DEF MasterInv
<1>3. CASE Master \notin server.connected
  <2>1. Away(copy[Master], toServer[Master], toPage[Master])
    BY <1>3 DEF ShowInv, MasterInv
  <2>2. toPage'[Master] = toPage[Master]
    BY <1>1, <1>3 DEF Tells, onUpdateMediaState
  <2> QED
    BY <1>1, <1>3, <2>1, <2>2 DEF MasterInv, Away
<1> QED
  BY <1>2, <1>3

LEMMA AllAreTold ==
  ASSUME ShowInv, NEW sv \in ServerRecord, NEW r \in BOOLEAN, Tells(sv, r), sv.connected = server.connected,
         MasterInv', Stopped(sv), DOMAIN toServer' = Page,
         \A s \in Screen : toServer'[s] = toServer[s] \/ (toServer[s] # <<>> /\ toServer'[s] = Tail(toServer[s])),
         UNCHANGED <<copy, desk, player>>
  PROVE  ShowInv'
<1>1. server' = sv /\ DOMAIN toPage' = Page
  BY DEF Tells, onUpdateMediaState
<1>2. ASSUME NEW s \in Screen PROVE ScreenInv(s)'
  BY ScreenIsTold
<1>3. MediaTypeOK'
  BY <1>1 DEF ShowInv, MediaTypeOK, ServerRecord
<1> QED
  BY <1>1, <1>2, <1>3 DEF ShowInv

\* the master keeps what it sent
LEMMA MasterWaits ==
  ASSUME ShowInv, Master \in server.connected
  PROVE  /\ toServer[Master] \in Seq(FromMaster)
         /\ Starts(toPage[Master]) => toServer[Master] = <<>>
         /\ ~Starts(toPage[Master]) => Latest(toServer[Master], server.question, copy[Master].question)
BY DEF ShowInv, MasterInv, MasterOK

LEMMA ServerReadsScreen == ASSUME ShowInv, NEW s \in Screen, ServerReceives(s) PROVE ShowInv'
<1>1. /\ server \in ServerRecord /\ s \in Page /\ s # Master /\ Master \in Page /\ DOMAIN toServer = Page
  BY PageIs, TypesAre DEF Page, ShowInv
<1> PICK e : e = Head(toServer[s])
  OBVIOUS
<1>2. toServer[s] # <<>> /\ Handles(s, e) /\ toServer' = [toServer EXCEPT ![s] = Tail(@)] /\ UNCHANGED <<copy, desk, player>>
  BY DEF ServerReceives
<1>3. ScreenOK(server.question, server.media, player[s], copy[s], toServer[s], toPage[s])
  BY <1>2, ShowingIs
<1>4. e \in Endings
  BY <1>2, <1>3, TailIs DEF ScreenOK
<1>5. e.type = "UPDATE_MEDIA_STATE" /\ e.media \in Media /\ e.media.state = "FINISHED" /\ e.media.fullscreen = FALSE
  BY <1>4 DEF Endings, MediaPackets
<1> PICK sv : sv = [server EXCEPT !.media = e.media, !.alone = @ /\ s # Master]
  OBVIOUS
<1>6. sv = [server EXCEPT !.media = e.media]
  <2>1. server.alone \in BOOLEAN
    BY <1>1 DEF ServerRecord
  <2>2. CASE server.alone = TRUE
    <3>1. (server.alone /\ s # Master) = TRUE
      BY <1>1, <2>2
    <3>2. sv = [server EXCEPT !.media = e.media, !.alone = TRUE]
      BY <3>1
    <3> QED
      BY <1>1, <2>2, <3>2 DEF ServerRecord
  <2>3. CASE server.alone = FALSE
    <3>1. (server.alone /\ s # Master) = FALSE
      BY <1>1, <2>3
    <3>2. sv = [server EXCEPT !.media = e.media, !.alone = FALSE]
      BY <3>1
    <3> QED
      BY <1>1, <2>3, <3>2 DEF ServerRecord
  <2> QED
    BY <2>1, <2>2, <2>3
<1>7. /\ sv \in ServerRecord /\ sv.question = server.question /\ sv.connected = server.connected
      /\ sv.media = e.media
  BY <1>1, <1>5, <1>6 DEF ServerRecord
<1>8. Tells(sv, FALSE)
  BY <1>2, <1>5, <1>7 DEF Handles, Tells
<1>9. /\ DOMAIN toServer' = Page /\ toServer'[s] = Tail(toServer[s])
      /\ \A p \in Page : p # s => toServer'[p] = toServer[p]
  BY <1>1, <1>2
<1>10. Stopped(sv)
  BY <1>5, <1>7 DEF Stopped, Plainly
<1>11. MasterInv'
  BY <1>1, <1>2, <1>7, <1>8, <1>9, MasterWaits, MasterIsTold
<1> QED
  BY <1>2, <1>7, <1>8, <1>9, <1>10, <1>11, AllAreTold DEF Page

LEMMA TeamPresses == ASSUME ShowInv, Pressed PROVE ShowInv'
<1>1. server \in ServerRecord /\ DOMAIN toServer = Page
  BY TypesAre DEF ShowInv
<1> PICK sv : sv = [server EXCEPT !.locked = TRUE, !.alone = TRUE, !.media.fullscreen = FALSE,
                      !.media.state = IF isPlayable(server.question) /\ @ \in {"PLAYING", "RESET"} THEN "PAUSED" ELSE @]
  OBVIOUS
<1>2. onUpdateMediaState(sv, <<>>, FALSE) /\ UNCHANGED <<copy, desk, player, toServer>>
  BY DEF Pressed, lockOnTeam
<1> PICK old \in Media : old = server.media
  BY <1>1 DEF ServerRecord
<1> PICK st \in MediaState : st = IF isPlayable(server.question) /\ old.state \in {"PLAYING", "RESET"} THEN "PAUSED" ELSE old.state
  BY DEF Media, MediaState
<1> PICK m : m = [old EXCEPT !.fullscreen = FALSE, !.state = st]
  OBVIOUS
<1>3. m \in Media /\ m.fullscreen = FALSE /\ m.state = st
  BY DEF Media
<1>4. sv = [server EXCEPT !.locked = TRUE, !.alone = TRUE, !.media = m]
  BY <1>1 DEF ServerRecord, Media
<1>5. /\ sv \in ServerRecord /\ sv.question = server.question /\ sv.connected = server.connected /\ sv.media = m
  BY <1>1, <1>3, <1>4 DEF ServerRecord
<1>6. Tells(sv, FALSE)
  BY <1>2, <1>5 DEF Tells
<1>7. Stopped(sv)
  BY <1>3, <1>5 DEF Stopped, Plainly
<1>8. MasterInv'
  BY <1>2, <1>5, <1>6, MasterWaits, MasterIsTold
<1> QED
  BY <1>1, <1>2, <1>5, <1>6, <1>7, <1>8, AllAreTold

LEMMA ServerReadsMaster == ASSUME ShowInv, ServerReceives(Master) PROVE ShowInv'
<1>1. /\ server \in ServerRecord /\ Master \in Page /\ DOMAIN toServer = Page
      /\ server.question \in Question /\ server.media \in Media
  BY PageIs, TypesAre DEF ShowInv, ServerRecord
<1> PICK e : e = Head(toServer[Master])
  OBVIOUS
<1> PICK up : up = toServer[Master]
  OBVIOUS
<1>2. up # <<>> /\ Handles(Master, e) /\ toServer' = [toServer EXCEPT ![Master] = Tail(@)] /\ UNCHANGED <<copy, desk, player>>
  BY DEF ServerReceives
<1>3. Master \in server.connected
  BY <1>2 DEF ShowInv, MasterInv, Away
<1>4. MasterOK(server.question, server.media, copy[Master], desk, up, toPage[Master])
  BY <1>3 DEF ShowInv, MasterInv
<1>5. up \in Seq(FromMaster) /\ ~Starts(toPage[Master]) /\ Latest(up, server.question, copy[Master].question)
  BY <1>2, <1>4 DEF MasterOK
<1>6. e \in FromMaster
  BY <1>2, <1>5, TailIs
<1>7. /\ e.type \in {"UPDATE_MEDIA_STATE", "SET_QUESTION", "START_GAME", "SET_BUZZER_LOCK"}
      /\ e.type = "UPDATE_MEDIA_STATE" => e.media \in Media
      /\ e.type = "SET_QUESTION" => e.question \in Question
  BY <1>6 DEF FromMaster, MediaPackets, QuestionPackets, Orders
<1>8. /\ DOMAIN toServer' = Page /\ toServer'[Master] = Tail(up)
      /\ \A s \in Screen : toServer'[s] = toServer[s]
  BY <1>1, <1>2, PageIs DEF Page
<1>9. e.type # "SET_QUESTION" =>
        Tail(up) \in Seq(FromMaster) /\ Latest(Tail(up), server.question, copy[Master].question)
  BY <1>2, <1>5, MasterTaken
<1>10. CASE e.type = "UPDATE_MEDIA_STATE"
  <2> PICK sv : sv = [server EXCEPT !.media = e.media, !.alone = @ /\ Master # Master]
    OBVIOUS
  <2>1. (server.alone /\ Master # Master) = FALSE
    OBVIOUS
  <2>2. sv = [server EXCEPT !.media = e.media, !.alone = FALSE]
    BY <2>1
  <2>3. /\ sv \in ServerRecord /\ sv.question = server.question /\ sv.connected = server.connected /\ ~sv.alone
    BY <1>1, <1>7, <1>10, <2>2 DEF ServerRecord
  <2>4. Tells(sv, FALSE)
    BY <1>2, <1>10, <2>3 DEF Handles, Tells
  <2>5. MasterInv'
    BY <1>2, <1>3, <1>5, <1>8, <1>9, <1>10, <2>3, <2>4, MasterIsTold
  <2> QED
    BY <1>2, <1>8, <2>3, <2>4, <2>5, AllAreTold DEF Stopped
<1>11. CASE e.type = "SET_QUESTION"
  <2> PICK q \in Question : q = e.question
    BY <1>7, <1>11
  <2> PICK sv : sv = [server EXCEPT !.question = q, !.locked = FALSE, !.media = Config[q]]
    OBVIOUS
  <2>1. /\ sv \in ServerRecord /\ sv.question = q /\ sv.connected = server.connected /\ ~sv.locked
    BY <1>1, MediaAssumption DEF ServerRecord
  <2>2. Tells(sv, FALSE)
    BY <1>2, <1>11, <2>1 DEF Handles, onSetQuestion, Tells
  <2>3. Tail(up) \in Seq(FromMaster) /\ Latest(Tail(up), q, copy[Master].question)
    BY <1>2, <1>5, <1>11, MasterTurnTaken
  <2>4. MasterInv'
    BY <1>2, <1>3, <1>5, <1>8, <2>1, <2>2, <2>3, MasterIsTold
  <2> QED
    BY <1>2, <1>8, <2>1, <2>2, <2>4, AllAreTold DEF Stopped
<1>12. CASE e.type = "START_GAME"
  <2> PICK sv : sv = [server EXCEPT !.resumes = FALSE]
    OBVIOUS
  <2>1. /\ sv \in ServerRecord /\ sv.question = server.question /\ sv.connected = server.connected
        /\ sv.locked = server.locked /\ sv.alone = server.alone /\ sv.media = server.media
    BY <1>1 DEF ServerRecord
  <2>2. Tells(sv, TRUE)
    BY <1>2, <1>12, <2>1 DEF Handles, onStartGame, Tells
  <2>3. MasterInv'
    BY <1>2, <1>3, <1>5, <1>8, <1>9, <1>12, <2>1, <2>2, MasterIsTold
  <2>4. Stopped(sv)
    BY <2>1 DEF ShowInv, Stopped
  <2> QED
    BY <1>2, <1>8, <2>1, <2>2, <2>3, <2>4, AllAreTold
<1>13. CASE e.type = "SET_BUZZER_LOCK"
  <2>1. server' = [server EXCEPT !.locked = FALSE] /\ toPage' = toPage
    BY <1>2, <1>13 DEF Handles
  <2>2. /\ server' \in ServerRecord /\ server'.question = server.question /\ server'.media = server.media
        /\ server'.connected = server.connected /\ ~server'.locked
    BY <1>1, <2>1 DEF ServerRecord
  <2>3. MasterOK(server.question, server.media, copy[Master], desk, Tail(up), toPage[Master])
    BY <1>1, <1>2, <1>4, <1>13, MasterUnlocks
  <2>4. MasterInv'
    BY <1>2, <1>3, <1>8, <2>1, <2>2, <2>3 DEF MasterInv
  <2>5. ASSUME NEW s \in Screen PROVE ScreenInv(s)'
    BY <1>2, <1>8, <2>1, <2>2, ScreenStays DEF ShowInv
  <2>6. MediaTypeOK'
    BY <1>2, <2>2 DEF ShowInv, MediaTypeOK, ServerRecord
  <2> QED
    BY <1>8, <2>1, <2>2, <2>4, <2>5, <2>6 DEF ShowInv, Stopped
<1> QED
  BY <1>7, <1>10, <1>11, <1>12, <1>13

----------------------------------------------------------------------------
(* Pages come and go. *)

LEMMA PageLeaves == ASSUME ShowInv, NEW p \in Page, Leaves(p) PROVE ShowInv'
<1>1. /\ server \in ServerRecord /\ copy \in [Page -> Copy] /\ player \in [Screen -> Player]
      /\ desk \in [pane : Media, remote : Media] /\ DOMAIN toServer = Page /\ DOMAIN toPage = Page
  BY TypesAre DEF ShowInv
<1>2. NoMedia \in Media /\ Blank \in Copy
  BY MediaAssumption DEF NoMedia, Media, MediaState, Visibility, Blank, Copy
<1>3. /\ server' \in ServerRecord /\ server'.question = server.question /\ server'.media = server.media
      /\ server'.connected = server.connected \ {p} /\ server'.locked = server.locked /\ server'.alone = server.alone
  <2> PICK gone : gone = (server.resumes \/ (p = Master /\ copy[p].shows))
    OBVIOUS
  <2>1. gone \in BOOLEAN
    <3>1. CASE server.resumes \/ (p = Master /\ copy[p].shows)
      <4>1. (server.resumes \/ (p = Master /\ copy[p].shows)) = TRUE
        BY <3>1
      <4> QED
        BY <4>1
    <3>2. CASE ~(server.resumes \/ (p = Master /\ copy[p].shows))
      <4>1. (server.resumes \/ (p = Master /\ copy[p].shows)) = FALSE
        BY <3>2
      <4> QED
        BY <4>1
    <3> QED
      BY <3>1, <3>2
  <2>2. server' = [server EXCEPT !.connected = server.connected \ {p}, !.resumes = gone]
    BY DEF Leaves
  <2> QED
    BY <1>1, <2>1, <2>2 DEF ServerRecord
<1>4. /\ copy' \in [Page -> Copy] /\ copy'[p] = Blank /\ \A r \in Page : r # p => copy'[r] = copy[r]
      /\ DOMAIN toServer' = Page /\ toServer'[p] = <<>> /\ \A r \in Page : r # p => toServer'[r] = toServer[r]
      /\ DOMAIN toPage' = Page /\ toPage'[p] = <<>> /\ \A r \in Page : r # p => toPage'[r] = toPage[r]
  BY <1>1, <1>2 DEF Leaves
<1>5. player' \in [Screen -> Player] /\ \A s \in Screen : player'[s] = IF s = p THEN NewPlayer ELSE player[s]
  BY <1>1, NewIs DEF Leaves
<1>6. desk' \in [pane : Media, remote : Media] /\ (p # Master => desk' = desk)
  BY <1>1, <1>2 DEF Leaves
<1>7. ASSUME NEW s \in Screen PROVE ScreenInv(s)'
  <2>1. s \in Page
    BY DEF Page
  <2>2. CASE s = p
    BY <1>3, <1>4, <1>5, <2>2 DEF ScreenInv, Away
  <2>3. CASE s # p
    <3>1. s \in server'.connected <=> s \in server.connected
      BY <1>3, <2>3
    <3>2. ScreenInv(s)
      BY DEF ShowInv
    <3> QED
      BY <1>3, <1>4, <1>5, <2>1, <2>3, <3>1, <3>2 DEF ScreenInv
  <2> QED
    BY <2>2, <2>3
<1>8. MasterInv'
  <2>1. CASE p = Master
    BY <1>3, <1>4, <2>1 DEF MasterInv, Away
  <2>2. CASE p # Master
    <3>1. Master \in server'.connected <=> Master \in server.connected
      BY <1>3, <2>2
    <3>2. MasterInv
      BY DEF ShowInv
    <3> QED
      BY <1>3, <1>4, <1>6, <2>2, <3>1, <3>2, PageIs DEF MasterInv
  <2> QED
    BY <2>1, <2>2
<1>9. MediaTypeOK'
  BY <1>3, <1>4, <1>5, <1>6 DEF MediaTypeOK, ServerRecord, Copy
<1> QED
  BY <1>3, <1>4, <1>7, <1>8, <1>9 DEF ShowInv, Stopped

\* the game that a page is told first
LEMMA GameFirst ==
  LET e == GamePacket   t == <<GamePacket>>
  IN  server.question \in Question /\ server.media \in Media =>
               /\ e \in GamePackets /\ t \in Seq(ToScreens) /\ t \in Seq(ToMaster) /\ t # <<>> /\ t[1] = e
               /\ EndsWith(t, server.media) /\ OnlyFirst(t) /\ Starts(t) /\ LastTurn(t, server.question)
               /\ t[1].question = server.question
<1> SUFFICES ASSUME server.question \in Question, server.media \in Media
             PROVE  LET e == GamePacket   t == <<GamePacket>>
                    IN  /\ e \in GamePackets /\ t \in Seq(ToScreens) /\ t \in Seq(ToMaster) /\ t # <<>> /\ t[1] = e
                        /\ EndsWith(t, server.media) /\ OnlyFirst(t) /\ Starts(t) /\ LastTurn(t, server.question)
                        /\ t[1].question = server.question
  OBVIOUS
<1> PICK e : e = GamePacket
  OBVIOUS
<1> PICK t : t = <<e>>
  OBVIOUS
<1>1. e \in GamePackets /\ e.type = "GAME" /\ e.question = server.question /\ e.media = server.media
  BY DEF GamePacket, GamePackets
<1>2. /\ t \in Seq(ToScreens) /\ t \in Seq(ToMaster) /\ t # <<>> /\ Len(t) = 1 /\ t[1] = e
  BY <1>1 DEF ToScreens, ToMaster
<1>3. EndsWith(t, server.media) /\ OnlyFirst(t) /\ Starts(t)
  BY <1>1, <1>2 DEF EndsWith, Shows, OnlyFirst, Starts
<1>4. TurnAt(t, 1, server.question)
  BY <1>1, <1>2 DEF TurnAt, Turns
<1>5. LastTurn(t, server.question)
  BY <1>2, <1>4 DEF LastTurn
<1> QED
  BY <1>1, <1>2, <1>3, <1>5

LEMMA PageJoins == ASSUME ShowInv, NEW p \in Page, Joins(p) PROVE ShowInv'
<1>1. /\ server \in ServerRecord /\ server.question \in Question /\ server.media \in Media
      /\ copy \in [Page -> Copy] /\ player \in [Screen -> Player]
      /\ desk \in [pane : Media, remote : Media] /\ DOMAIN toServer = Page /\ DOMAIN toPage = Page
  BY TypesAre DEF ShowInv, ServerRecord
<1>2. /\ server' \in ServerRecord /\ server'.question = server.question /\ server'.media = server.media
      /\ server'.connected = server.connected \cup {p} /\ server'.locked = server.locked /\ server'.alone = server.alone
  BY <1>1 DEF Joins, ServerRecord
<1> PICK t : t = <<GamePacket>>
  OBVIOUS
<1>3. /\ t \in Seq(ToScreens) /\ t \in Seq(ToMaster) /\ t # <<>> /\ EndsWith(t, server.media) /\ OnlyFirst(t)
      /\ Starts(t) /\ LastTurn(t, server.question) /\ t[1].question = server.question
  BY <1>1, GameFirst
<1>4. /\ DOMAIN toPage' = Page /\ toPage'[p] = t /\ \A r \in Page : r # p => toPage'[r] = toPage[r]
      /\ UNCHANGED <<copy, desk, player, toServer>> /\ p \notin server.connected
  BY <1>1 DEF Joins
<1>5. <<>> \in Seq(Endings) /\ <<>> \in Seq(FromMaster) /\ Blank \in Copy /\ ~Blank.shows
  <2>1. NoMedia \in Media
    BY MediaAssumption DEF NoMedia, Media, MediaState, Visibility
  <2> QED
    BY <2>1, MediaAssumption DEF Blank, Copy
<1>6. ASSUME NEW s \in Screen PROVE ScreenInv(s)'
  <2>1. s \in Page /\ ScreenInv(s)
    BY DEF Page, ShowInv
  <2>2. CASE s = p
    <3>1. copy[s] = Blank /\ toServer[s] = <<>> /\ player[s] = NewPlayer
      BY <1>4, <2>1, <2>2 DEF ScreenInv, Away
    <3>2. Blank.question \in Question
      BY <1>5 DEF Copy
    <3>3. NewPlayer \in Player /\ Sound(NewPlayer, Blank.question)
      BY <3>2, NewIs
    <3>4. ScreenOK(server.question, server.media, NewPlayer, Blank, <<>>, t)
      BY <1>3, <1>5, <3>3 DEF ScreenOK, Latest
    <3> QED
      BY <1>2, <1>4, <2>2, <3>1, <3>4 DEF ScreenInv
  <2>3. CASE s # p
    <3>1. s \in server'.connected <=> s \in server.connected
      BY <1>2, <2>3
    <3> QED
      BY <1>2, <1>4, <2>1, <2>3, <3>1 DEF ScreenInv
  <2> QED
    BY <2>2, <2>3
<1>7. MasterInv'
  <2>1. MasterInv
    BY DEF ShowInv
  <2>2. CASE p = Master
    <3>1. copy[Master] = Blank /\ toServer[Master] = <<>>
      BY <1>4, <2>1, <2>2 DEF MasterInv, Away
    <3>2. MasterOK(server.question, server.media, Blank, desk, <<>>, t)
      BY <1>1, <1>3, <1>5 DEF MasterOK
    <3> QED
      BY <1>2, <1>4, <2>2, <3>1, <3>2 DEF MasterInv
  <2>3. CASE p # Master
    <3>1. Master \in server'.connected <=> Master \in server.connected
      BY <1>2, <2>3
    <3> QED
      BY <1>2, <1>4, <2>1, <2>3, <3>1, PageIs DEF MasterInv
  <2> QED
    BY <2>2, <2>3
<1>8. MediaTypeOK'
  BY <1>1, <1>2, <1>4 DEF MediaTypeOK, ServerRecord, Copy
<1> QED
  BY <1>1, <1>2, <1>4, <1>6, <1>7, <1>8 DEF ShowInv, Stopped

----------------------------------------------------------------------------
(* The theorems. *)

LEMMA ShowStarts == MediaInit => ShowInv
<1> SUFFICES ASSUME MediaInit PROVE ShowInv
  OBVIOUS
<1>1. NoMedia \in Media /\ Blank \in Copy /\ Blank.shows = FALSE
  <2>1. NoMedia \in Media
    BY MediaAssumption DEF NoMedia, Media, MediaState, Visibility
  <2> QED
    BY <2>1, MediaAssumption DEF Blank, Copy
<1>2. PICK q \in Question : server = [question |-> q, media |-> Config[q], locked |-> FALSE, alone |-> FALSE,
                                      resumes |-> FALSE, connected |-> {Master}]
  BY DEF MediaInit
<1>3. /\ server \in ServerRecord /\ server.question = q /\ server.media \in Media /\ server.connected = {Master}
      /\ ~server.locked
  BY <1>2, MediaAssumption, PageIs DEF ServerRecord
<1> PICK c : c = [shows |-> TRUE, question |-> server.question, media |-> server.media]
  OBVIOUS
<1>4. c \in Copy /\ c.question = q /\ c.media = server.media
  BY <1>3 DEF Copy
<1>5. copy \in [Page -> Copy] /\ copy[Master] = c /\ \A s \in Screen : copy[s] = Blank
  BY <1>1, <1>4, PageIs DEF MediaInit, Page
<1>6. /\ player \in [Screen -> Player] /\ \A s \in Screen : player[s] = NewPlayer
      /\ desk \in [pane : Media, remote : Media] /\ desk.pane = server.media /\ desk.remote = server.media
      /\ DOMAIN toServer = Page /\ DOMAIN toPage = Page
      /\ \A p \in Page : toServer[p] = <<>> /\ toPage[p] = <<>>
  BY <1>3, NewIs DEF MediaInit
<1>7. ASSUME NEW s \in Screen PROVE ScreenInv(s)
  <2>1. s \in Page /\ s # Master
    BY PageIs DEF Page
  <2> QED
    BY <1>3, <1>5, <1>6, <2>1 DEF ScreenInv, Away
<1>8. MasterInv
  <2>1. /\ <<>> \in Seq(FromMaster) /\ <<>> \in Seq(ToMaster) /\ NoTurn(<<>>) /\ ~Starts(<<>>)
        /\ EndsWith(<<>>, server.media) /\ OnlyFirst(<<>>)
    BY DEF NoTurn, Starts, EndsWith, OnlyFirst
  <2>2. MasterOK(server.question, server.media, c, desk, <<>>, <<>>)
    BY <1>3, <1>4, <1>6, <2>1 DEF MasterOK, Latest
  <2> QED
    BY <1>3, <1>5, <1>6, <2>2, PageIs DEF MasterInv
<1>9. MediaTypeOK
  BY <1>3, <1>5, <1>6 DEF MediaTypeOK, ServerRecord, Copy
<1> QED
  BY <1>3, <1>6, <1>7, <1>8, <1>9 DEF ShowInv, Stopped

LEMMA ShowStep == ShowInv /\ [MediaNext]_show => ShowInv'
<1> SUFFICES ASSUME ShowInv, [MediaNext]_show PROVE ShowInv'
  OBVIOUS
<1>1. CASE UNCHANGED show
  BY <1>1 DEF show, ShowInv, ScreenInv, MasterInv, MediaTypeOK, Stopped
<1>2. ASSUME NEW p \in Page, ServerReceives(p) PROVE ShowInv'
  <2>1. CASE p = Master
    BY <1>2, <2>1, ServerReadsMaster
  <2>2. CASE p \in Screen
    BY <1>2, <2>2, ServerReadsScreen
  <2> QED
    BY <2>1, <2>2, PageIs
<1> QED
  BY <1>1, <1>2, MasterGoes, MasterReads, TeamPresses, ScreenReads, PlayerLoads, PlayerGoesOn, PlayerEnds,
     PageLeaves, PageJoins DEF MediaNext

LEMMA ShowCorrect == MediaSpec => []ShowInv
BY ShowStarts, ShowStep, PTL DEF MediaSpec

\* once all packets arrived, a screen that shows the game shows the server's, and its player follows
LEMMA QuietIs ==
  ASSUME ShowInv, Quiet, NEW s \in Screen, copy[s].shows
  PROVE  /\ copy[s].media = server.media /\ copy[s].question = server.question
         /\ Sound(player[s], server.question) /\ Follows(player[s], server.question, server.media)
         /\ copy[Master].media = server.media /\ copy[Master].question = server.question
         /\ desk.pane = server.media /\ desk.remote.slide = server.media.slide
<1>1. /\ toPage[s] = <<>> /\ toServer[s] = <<>> /\ toPage[Master] = <<>> /\ toServer[Master] = <<>> /\ copy[Master].shows
  BY PageIs DEF Quiet, Page
<1>2. ~LastTurn(<<>>, server.question) /\ ~LastTurn(<<>>, copy[Master].question) /\ ~Starts(<<>>) /\ Silent(<<>>)
  BY DEF LastTurn, Starts, Silent
<1>3. ScreenOK(server.question, server.media, player[s], copy[s], <<>>, <<>>)
  BY <1>1, ShowingIs
<1>4. Master \in server.connected
  BY <1>1 DEF ShowInv, MasterInv, Away, Blank
<1>5. MasterOK(server.question, server.media, copy[Master], desk, <<>>, <<>>)
  BY <1>1, <1>4 DEF ShowInv, MasterInv
<1> QED
  BY <1>2, <1>3, <1>5 DEF ScreenOK, MasterOK, Latest

\* Once all is delivered, the server, the master and every screen agree on what is shown, and the master's pane says of
\* the picture what the screens do with it: for any number of screens, whoever came, left and sent what before.
THEOREM ScreensAreSeen == MediaSpec => []MasterSeesScreens
<1>1. ShowInv => MasterSeesScreens
  <2> SUFFICES ASSUME ShowInv, Quiet, NEW s \in Screen, copy[s].shows
               PROVE  /\ copy[s].media = server.media /\ copy[Master].media = server.media /\ desk.pane = server.media
                      /\ copy[s].question = copy[Master].question
                      /\ Kind[copy[s].question] \in {"image", "slideshow", "video"} =>
                           (ShowsPicture(s) <=> isMediaShown(copy[Master].question, desk.pane))
                      /\ Kind[copy[s].question] # "none" => player[s].slide = desk.remote.slide
    BY DEF MasterSeesScreens
  <2> PICK q \in Question : q = server.question
    BY TypesAre DEF ShowInv, ServerRecord
  <2> PICK m \in Media : m = server.media
    BY TypesAre DEF ShowInv, ServerRecord
  <2>1. /\ copy[s].media = m /\ copy[s].question = q /\ Sound(player[s], q) /\ Follows(player[s], q, m)
        /\ copy[Master].media = m /\ copy[Master].question = q
        /\ desk.pane = m /\ desk.remote.slide = m.slide
    BY QuietIs
  <2>2. m.state \in MediaState
    BY DEF Media
  <2>3. ASSUME Kind[q] \in {"image", "slideshow", "video"} PROVE ShowsPicture(s) <=> isMediaShown(q, m)
    <3>1. /\ player[s].hidden <=> m.state \in {"HIDDEN", "NO_MEDIA"}
          /\ player[s].visible <=> Plainly(m) \/ (m.state = "FINISHED" /\ Kind[q] = "slideshow")
      BY <2>1, <2>3 DEF Follows
    <3>2. ShowsPicture(s) <=> IF Kind[q] = "video" THEN ~player[s].hidden ELSE player[s].visible
      BY <2>1 DEF ShowsPicture
    <3>3. isMediaShown(q, m) <=> \/ m.state \in {"PLAYING", "RESET"}
                                 \/ m.state = "PAUSED" /\ Kind[q] = "video"
                                 \/ m.state = "FINISHED" /\ Kind[q] \in {"slideshow", "video"}
      BY <2>2 DEF isMediaShown, MediaState
    <3> QED
      BY <2>2, <2>3, <3>1, <3>2, <3>3 DEF Plainly, MediaState
  <2>4. Kind[q] # "none" => player[s].slide = m.slide
    BY <2>1 DEF Follows
  <2> QED
    BY <2>1, <2>3, <2>4
<1> QED
  BY <1>1, ShowCorrect, PTL

\* When a team buzzed and the master has done nothing since, no screen plays or fills itself with the media, on any number
\* of screens: whatever was replayed, loaded, ended, joined or resent around the press.
THEOREM PressStopsMedia == MediaSpec => []BuzzStopsMedia
<1>1. ShowInv => BuzzStopsMedia
  <2> SUFFICES ASSUME ShowInv, Quiet, server.locked, server.alone, NEW s \in Screen, copy[s].shows
               PROVE  ~player[s].playing /\ ~player[s].fullscreen
    BY DEF BuzzStopsMedia
  <2>1. Sound(player[s], server.question) /\ Follows(player[s], server.question, server.media)
    BY QuietIs
  <2>2. ~server.media.fullscreen /\ (isPlayable(server.question) => ~Plainly(server.media))
    BY DEF ShowInv, Stopped
  <2>3. CASE Kind[server.question] = "none"
    BY <2>1, <2>3, NewIs DEF Sound
  <2>4. CASE Kind[server.question] # "none"
    BY <2>1, <2>2, <2>4 DEF Sound, Follows
  <2> QED
    BY <2>3, <2>4
<1> QED
  BY <1>1, ShowCorrect, PTL
=============================================================================
