-------------------------- MODULE UdpBuzzersProofs --------------------------
(***************************************************************************)
(* Safety of UdpBuzzers for any buzzers, windows, delays and clocks: a     *)
(* press is taken once, the earliest press comes first, and the master's   *)
(* list of buzzers is the service's.                                       *)
(***************************************************************************)
EXTENDS WirelessBuzzers, FiniteSetTheorems, TLAPS

LEMMA NumberDef == \A n : n \in Number <=> n \in Nat /\ 1 <= n /\ n <= MaxPress
  BY UdpAssumption, SMT DEF UdpAssumption, Number

----------------------------------------------------------------------------
(* What is on its way, kept and collected. *)

IsPacket(p) ==
  \/ p.t = "HB" /\ p.id \in Buzzer
  \/ p.t = "PRESS" /\ p.id \in Buzzer /\ p.n \in Number /\ p.age \in 0 .. MaxDelay

IsButton(x) ==
  /\ x \in [n : 0 .. MaxPress, age : 0 .. ResendFor, sending : BOOLEAN]
  /\ x.sending => x.n # 0

CollectedPress == [id : Buzzer, age : Int, n : Number, trueAge : Nat]

Types ==
  /\ taken \in [Buzzer -> [Number -> Nat]]
  /\ lastPressNumber \in [Buzzer -> 0 .. MaxPress]
  /\ DOMAIN button = Buzzer /\ \A b \in Buzzer : IsButton(button[b])
  /\ \A p \in toServer : IsPacket(p)
  /\ presses \in Seq(CollectedPress)
  /\ clock \in [Buzzer -> ClockErrors]

LEMMA TypesInit == Init => Types
<1> SUFFICES ASSUME Init PROVE Types
  OBVIOUS
<1> USE UdpAssumption, NumberDef
<1>1. taken \in [Buzzer -> [Number -> Nat]] /\ lastPressNumber \in [Buzzer -> 0 .. MaxPress]
  BY SMT DEF Init, UdpAssumption
<1>2. IsButton(NoPress)
  BY SMT DEF IsButton, NoPress, UdpAssumption
<1>3. DOMAIN button = Buzzer /\ \A b \in Buzzer : IsButton(button[b])
  BY <1>2 DEF Init
<1>4. presses \in Seq(CollectedPress)
  BY DEF Init
<1> QED
  BY <1>1, <1>3, <1>4 DEF Init, Types

\* A button that sends no more, or for longer.
LEMMA Buttons ==
  ASSUME NEW x, IsButton(x)
  PROVE  /\ \A s \in BOOLEAN : (s => x.n # 0) => IsButton([x EXCEPT !.sending = s]) /\ [x EXCEPT !.sending = s].n = x.n
         /\ x.age < ResendFor => IsButton([x EXCEPT !.age = @ + 1]) /\ [x EXCEPT !.age = @ + 1].n = x.n
<1>1. x = [n |-> x.n, age |-> x.age, sending |-> x.sending] /\ x.n \in 0 .. MaxPress /\ x.age \in 0 .. ResendFor
      /\ x.sending \in BOOLEAN
  BY DEF IsButton
<1>2. ASSUME NEW s \in BOOLEAN, s => x.n # 0
      PROVE  IsButton([x EXCEPT !.sending = s]) /\ [x EXCEPT !.sending = s].n = x.n
  <2>1. [x EXCEPT !.sending = s] = [n |-> x.n, age |-> x.age, sending |-> s]
    BY <1>1
  <2> QED
    BY <1>1, <1>2, <2>1 DEF IsButton
<1>3. ASSUME x.age < ResendFor
      PROVE  IsButton([x EXCEPT !.age = @ + 1]) /\ [x EXCEPT !.age = @ + 1].n = x.n
  <2>1. [x EXCEPT !.age = @ + 1] = [n |-> x.n, age |-> x.age + 1, sending |-> x.sending]
    BY <1>1
  <2>2. x.age + 1 \in 0 .. ResendFor
    BY <1>1, <1>3, UdpAssumption, SMT DEF UdpAssumption
  <2> QED
    BY <1>1, <2>1, <2>2 DEF IsButton
<1> QED
  BY <1>2, <1>3

\* What a press claims is a number, of a buzzer whose clock is any.
LEMMA ClaimType ==
  ASSUME Types, NEW b \in Buzzer, NEW age \in 0 .. MaxDelay
  PROVE  /\ ClaimedAge(b, age) \in Int
         /\ Trusted(b) => ClaimedAge(b, age) = age
         /\ CantGain(b) => ClaimedAge(b, age) <= age
<1>1. clock[b] \in Int \/ clock[b] = NoClock
  BY UdpAssumption DEF Types, UdpAssumption
<1>2. CASE clock[b] = NoClock
  BY <1>2, UdpAssumption, SMT DEF ClaimedAge, Trusted, UdpAssumption, None
<1>3. CASE clock[b] # NoClock /\ clock[b] \in Int
  BY <1>3, UdpAssumption, SMT DEF ClaimedAge, Trusted, CantGain, UdpAssumption
<1> QED
  BY <1>1, <1>2, <1>3

\* Each press that is collected is the new one, or was there.
LEMMA CollectedPresses ==
  ASSUME Types, NEW p, p.id \in Buzzer, p.n \in Number, p.age \in 0 .. MaxDelay
  PROVE  LET new == [id |-> p.id, age |-> ClaimedAge(p.id, p.age), n |-> p.n, trueAge |-> p.age]
         IN  /\ Collected(p) \in Seq(CollectedPress)
             /\ \A i \in DOMAIN Collected(p) : Collected(p)[i] = new \/ \E j \in DOMAIN presses : Collected(p)[i] = presses[j]
<1> DEFINE new == [id |-> p.id, age |-> ClaimedAge(p.id, p.age), n |-> p.n, trueAge |-> p.age]
<1>1. new \in CollectedPress
  BY ClaimType, UdpAssumption, SMT DEF CollectedPress, UdpAssumption
<1>2. presses \in Seq(CollectedPress)
  BY DEF Types
<1>3. CASE \E i \in DOMAIN presses : presses[i].id = p.id
  <2> DEFINE replaced == [i \in DOMAIN presses |-> IF presses[i].id = p.id /\ new.age > presses[i].age THEN new ELSE presses[i]]
  <2>1. Collected(p) = replaced
    BY <1>3 DEF Collected
  <2>2. \A i \in DOMAIN presses : replaced[i] = new \/ replaced[i] = presses[i]
    OBVIOUS
  <2>3. DOMAIN presses = 1 .. Len(presses) /\ Len(presses) \in Nat /\ \A i \in DOMAIN presses : presses[i] \in CollectedPress
    BY <1>2
  <2>4. replaced \in [1 .. Len(presses) -> CollectedPress]
    BY <1>1, <2>2, <2>3
  <2>5. replaced \in Seq(CollectedPress)
    BY <2>3, <2>4, SMT
  <2> QED
    BY <2>1, <2>2, <2>5
<1>4. CASE ~\E i \in DOMAIN presses : presses[i].id = p.id
  <2>1. Collected(p) = Append(presses, new)
    BY <1>4 DEF Collected
  <2>2. Append(presses, new) \in Seq(CollectedPress)
    BY <1>1, <1>2
  <2>3. \A i \in DOMAIN Append(presses, new) : Append(presses, new)[i] = new \/ (i \in DOMAIN presses /\ Append(presses, new)[i] = presses[i])
    BY <1>2
  <2> QED
    BY <2>1, <2>2, <2>3
<1> QED
  BY <1>3, <1>4

LEMMA TypesStep == Types /\ [Next]_vars => Types'
<1> SUFFICES ASSUME Types, [Next]_vars PROVE Types'
  OBVIOUS
<1> USE UdpAssumption, NumberDef
<1>0. /\ taken \in [Buzzer -> [Number -> Nat]] /\ lastPressNumber \in [Buzzer -> 0 .. MaxPress]
      /\ DOMAIN button = Buzzer /\ \A b \in Buzzer : IsButton(button[b])
      /\ \A p \in toServer : IsPacket(p)
      /\ presses \in Seq(CollectedPress) /\ clock \in [Buzzer -> ClockErrors]
  BY DEF Types
<1>1. ASSUME NEW p \in toServer, Receive(p) PROVE Types'
  <2>1. toServer' = toServer \ {p} /\ button' = button /\ clock' = clock
    BY <1>1 DEF Receive, people
  <2>2. CASE UNCHANGED <<lastPressNumber, presses, taken>>
    BY <1>0, <2>1, <2>2 DEF Types
  <2>3. CASE OnPress(p) /\ ~isRepeated(p) /\ ~UNCHANGED <<lastPressNumber, presses, taken>>
    <3>1. p.id \in Buzzer /\ p.n \in Number /\ p.age \in 0 .. MaxDelay
      BY <1>0, <2>3 DEF OnPress, IsPacket
    <3>2. lastPressNumber' = [lastPressNumber EXCEPT ![p.id] = p.n] /\ taken' = [taken EXCEPT ![p.id][p.n] = @ + 1]
      BY <2>3 DEF OnPress
    <3>3. presses' \in Seq(CollectedPress)
      BY <1>0, <2>3, <3>1, CollectedPresses DEF OnPress, window
    <3>4. lastPressNumber' \in [Buzzer -> 0 .. MaxPress]
      BY <1>0, <3>1, <3>2, SMT
    <3>5. taken' \in [Buzzer -> [Number -> Nat]]
      <4>1. taken[p.id][p.n] + 1 \in Nat /\ taken[p.id] \in [Number -> Nat]
        BY <1>0, <3>1, SMT
      <4>2. [taken[p.id] EXCEPT ![p.n] = @ + 1] \in [Number -> Nat]
        BY <3>1, <4>1
      <4> QED
        BY <1>0, <3>1, <3>2, <4>2
    <3> QED
      BY <1>0, <2>1, <3>3, <3>4, <3>5 DEF Types
  <2> QED
    BY <1>1, <2>2, <2>3 DEF Receive, OnHeartbeat, OnPress, window
<1>2. CASE WindowEnds
  <2>1. presses' \in Seq(CollectedPress)
    BY <1>2 DEF WindowEnds
  <2> QED
    BY <1>0, <1>2, <2>1 DEF WindowEnds, service, people, Types
<1>3. CASE CheckTimeouts
  BY <1>0, <1>3 DEF CheckTimeouts, network, window, people, Types
<1>4. CASE Tick
  <2>1. UNCHANGED <<taken, lastPressNumber, clock>>
    BY <1>4 DEF Tick
  <2>2. DOMAIN button' = Buzzer /\ \A b \in Buzzer : IsButton(button'[b])
    <3>1. SUFFICES ASSUME NEW b \in Buzzer PROVE IsButton(button'[b])
      BY <1>4 DEF Tick
    <3>2. button'[b] = IF button[b].sending /\ button[b].age < ResendFor
                       THEN [button[b] EXCEPT !.age = @ + 1] ELSE [button[b] EXCEPT !.sending = FALSE]
      BY <1>4 DEF Tick
    <3>3. IsButton([button[b] EXCEPT !.sending = FALSE])
      BY <1>0, Buttons
    <3>4. button[b].age < ResendFor => IsButton([button[b] EXCEPT !.age = @ + 1])
      BY <1>0, Buttons
    <3> QED
      BY <3>2, <3>3, <3>4
  <2>3. ASSUME NEW p \in toServer' PROVE IsPacket(p)
    <3>1. CASE p \in toServer
      BY <1>0, <3>1
    <3>2. CASE p \notin toServer
      <4>1. PICK q \in toServer : q.t = "PRESS" /\ q.age < MaxDelay /\ p = PressPacket(q.id, q.n, q.age + 1)
        BY <1>4, <3>2 DEF Tick
      <4>2. q.id \in Buzzer /\ q.n \in Number /\ q.age \in 0 .. MaxDelay
        BY <1>0, <4>1 DEF IsPacket
      <4>3. q.age + 1 \in 0 .. MaxDelay
        BY <4>1, <4>2, SMT DEF UdpAssumption
      <4> QED
        BY <4>1, <4>2, <4>3 DEF PressPacket, IsPacket
    <3> QED
      BY <3>1, <3>2
  <2>4. presses' \in Seq(CollectedPress)
    <3> DEFINE older(x) == [x EXCEPT !.age = IF @ = None THEN None ELSE @ + 1, !.trueAge = @ + 1]
    <3>1. DOMAIN presses = 1 .. Len(presses) /\ Len(presses) \in Nat /\ \A i \in DOMAIN presses : presses[i] \in CollectedPress
      BY <1>0
    <3>2. ASSUME NEW x \in CollectedPress PROVE older(x) \in CollectedPress
      <4> DEFINE aged == [x EXCEPT !.age = IF @ = None THEN None ELSE @ + 1]
      <4>1. aged \in CollectedPress /\ aged.trueAge = x.trueAge
        BY SMT DEF CollectedPress, None
      <4>2. older(x) = [aged EXCEPT !.trueAge = @ + 1]
        BY <4>1
      <4> HIDE DEF aged
      <4>3. [aged EXCEPT !.trueAge = @ + 1] \in CollectedPress
        BY <4>1, SMT DEF CollectedPress
      <4> QED
        BY <4>2, <4>3
    <3>3. presses' = [i \in DOMAIN presses |-> older(presses[i])]
      BY <1>4 DEF Tick
    <3> HIDE DEF older
    <3>4. presses' \in [1 .. Len(presses) -> CollectedPress]
      BY <3>1, <3>2, <3>3
    <3> QED
      BY <3>1, <3>4, SMT
  <2> QED
    BY <1>0, <2>1, <2>2, <2>3, <2>4 DEF Types
<1>5. CASE Lose
  BY <1>0, <1>5 DEF Lose, service, window, people, Types
<1>6. ASSUME NEW l \in BOOLEAN, SetLock(l) PROVE Types'
  BY <1>0, <1>6 DEF SetLock, service, window, people, Types
<1>7. ASSUME NEW b \in Buzzer, PressButton(b) PROVE Types'
  <2>0. button[b].n \in Nat /\ button[b].n < Presses[b] /\ Presses[b] \in 0 .. MaxPress
    BY <1>0, <1>7, SMT DEF PressButton, IsButton, UdpAssumption
  <2>1. button[b].n + 1 \in Number /\ 0 \in 0 .. ResendFor /\ 0 \in 0 .. MaxDelay
    BY <2>0, SMT DEF UdpAssumption
  <2>2. button' = [button EXCEPT ![b] = [n |-> button[b].n + 1, age |-> 0, sending |-> TRUE]]
    BY <1>7 DEF PressButton
  <2>3. IsButton(button'[b])
    BY <1>0, <2>1, <2>2, SMT DEF IsButton
  <2>4. DOMAIN button' = Buzzer /\ \A c \in Buzzer : IsButton(button'[c])
    BY <1>0, <2>2, <2>3
  <2>5. \A p \in toServer' : IsPacket(p)
    BY <1>0, <1>7, <2>1 DEF PressButton, PressPacket, IsPacket
  <2> QED
    BY <1>0, <1>7, <2>4, <2>5 DEF PressButton, service, window, Types
<1>8. ASSUME NEW b \in Buzzer, Resend(b) PROVE Types'
  <2>1. button[b].n \in Number /\ button[b].age \in 0 .. MaxDelay
    BY <1>0, <1>8, SMT DEF Resend, IsButton, UdpAssumption
  <2>2. \A p \in toServer' : IsPacket(p)
    BY <1>0, <1>8, <2>1 DEF Resend, PressPacket, IsPacket
  <2> QED
    BY <1>0, <1>8, <2>2 DEF Resend, service, window, people, Types
<1>9. ASSUME NEW b \in Buzzer, Heartbeat(b) PROVE Types'
  <2>1. \A p \in toServer' : IsPacket(p)
    BY <1>0, <1>9 DEF Heartbeat, HeartbeatPacket, IsPacket
  <2> QED
    BY <1>0, <1>9, <2>1 DEF Heartbeat, service, window, people, Types
<1>10. ASSUME NEW b \in Buzzer, BuzzerReceives(b) PROVE Types'
  <2>1. button' = button \/ button' = [button EXCEPT ![b] = [@ EXCEPT !.sending = FALSE]]
    BY <1>10 DEF BuzzerReceives
  <2>2. IsButton([button[b] EXCEPT !.sending = FALSE])
    BY <1>0, Buttons
  <2>3. DOMAIN button' = Buzzer /\ \A c \in Buzzer : IsButton(button'[c])
    BY <1>0, <2>1, <2>2
  <2> QED
    BY <1>0, <1>10, <2>3 DEF BuzzerReceives, service, window, Types
<1>11. CASE UNCHANGED vars
  BY <1>0, <1>11 DEF vars, service, window, network, people, Types
<1> QED
  BY <1>1, <1>2, <1>3, <1>4, <1>5, <1>6, <1>7, <1>8, <1>9, <1>10, <1>11 DEF Next

----------------------------------------------------------------------------
(* A press is taken once. *)

\* what a buzzer sends is never older than what was taken of it last, nor newer than what it pressed last
InOrder ==
  /\ \A p \in toServer : p.t = "PRESS" => lastPressNumber[p.id] <= p.n /\ p.n <= button[p.id].n
  /\ \A b \in Buzzer : lastPressNumber[b] <= button[b].n

\* nothing newer than the last number was taken
NoneAhead == \A b \in Buzzer, n \in Number : n > lastPressNumber[b] => taken[b][n] = 0

NumberInv == InOrder /\ NoneAhead /\ TakenOnce

LEMMA NumberInit == Init => NumberInv
  BY UdpAssumption, SMT DEF UdpAssumption, Init, NumberInv, InOrder, NoneAhead, TakenOnce, NoPress

\* Packets that are lost, handled or grow older, and buttons that stop sending, break nothing.
LEMMA NothingNew ==
  ASSUME Types, NumberInv, UNCHANGED <<taken, lastPressNumber>>,
         \A p \in toServer' : p.t = "PRESS" => \E q \in toServer : q.t = "PRESS" /\ q.id = p.id /\ q.n = p.n,
         \A b \in Buzzer : button'[b].n = button[b].n
  PROVE  NumberInv'
<1>1. \A p \in toServer : p.t = "PRESS" => p.id \in Buzzer
  BY DEF Types, IsPacket
<1>2. ASSUME NEW p \in toServer', p.t = "PRESS" PROVE lastPressNumber'[p.id] <= p.n /\ p.n <= button'[p.id].n
  <2>1. PICK q \in toServer : q.t = "PRESS" /\ q.id = p.id /\ q.n = p.n
    BY <1>2
  <2> QED
    BY <1>1, <2>1 DEF NumberInv, InOrder
<1>3. \A b \in Buzzer : lastPressNumber'[b] <= button'[b].n
  BY DEF NumberInv, InOrder
<1> QED
  BY <1>2, <1>3 DEF NumberInv, InOrder, NoneAhead, TakenOnce

\* A press that is new is one that was not taken, if those of a buzzer stay in order.
LEMMA PressArrives ==
  ASSUME Types, NumberInv, NEW p \in toServer, p.t = "PRESS", ~isRepeated(p),
         \A q \in toServer : q.t = "PRESS" /\ q.id = p.id => p.n <= q.n,
         toServer' = toServer \ {p}, button' = button,
         lastPressNumber' = [lastPressNumber EXCEPT ![p.id] = p.n],
         taken' = [taken EXCEPT ![p.id][p.n] = @ + 1]
  PROVE  NumberInv'
<1> USE UdpAssumption, NumberDef
<1>1. p.id \in Buzzer /\ p.n \in Number /\ p.n > lastPressNumber[p.id] /\ p.n <= button[p.id].n
  <2>1. p.id \in Buzzer /\ p.n \in Number
    BY DEF Types, IsPacket
  <2>2. p.n # lastPressNumber[p.id] /\ lastPressNumber[p.id] <= p.n /\ p.n <= button[p.id].n
    BY DEF NumberInv, InOrder, isRepeated
  <2> QED
    BY <2>1, <2>2, SMT DEF Types, UdpAssumption
<1>2. \A b \in Buzzer : lastPressNumber'[b] = IF b = p.id THEN p.n ELSE lastPressNumber[b]
  BY <1>1 DEF Types
<1>3. \A b \in Buzzer, n \in Number : taken'[b][n] = IF b = p.id /\ n = p.n THEN taken[b][n] + 1 ELSE taken[b][n]
  BY <1>1 DEF Types
<1>4. InOrder'
  <2>1. \A q \in toServer' : q.t = "PRESS" => q.id \in Buzzer /\ q \in toServer
    BY DEF Types, IsPacket
  <2>2. \A q \in toServer' : q.t = "PRESS" => lastPressNumber'[q.id] <= q.n /\ q.n <= button'[q.id].n
    BY <1>2, <2>1 DEF NumberInv, InOrder
  <2>3. \A b \in Buzzer : lastPressNumber'[b] <= button'[b].n
    BY <1>1, <1>2 DEF NumberInv, InOrder
  <2> QED
    BY <2>2, <2>3 DEF InOrder
<1>5. \A b \in Buzzer : lastPressNumber[b] \in Nat /\ lastPressNumber'[b] \in Nat /\ lastPressNumber[b] <= lastPressNumber'[b]
  BY <1>1, <1>2, SMT DEF Types, UdpAssumption
<1>6. taken[p.id][p.n] = 0
  BY <1>1 DEF NumberInv, NoneAhead
<1>7. NoneAhead'
  <2>1. ASSUME NEW b \in Buzzer, NEW n \in Number, n > lastPressNumber'[b] PROVE taken'[b][n] = 0
    <3>1. n > lastPressNumber[b]
      BY <1>5, <2>1, SMT
    <3>2. ~(b = p.id /\ n = p.n)
      BY <1>2, <1>5, <2>1, SMT
    <3> QED
      BY <1>3, <3>1, <3>2 DEF NumberInv, NoneAhead
  <2> QED
    BY <2>1 DEF NoneAhead
<1>8. TakenOnce'
  BY <1>3, <1>6, SMT DEF NumberInv, TakenOnce
<1> QED
  BY <1>4, <1>7, <1>8 DEF NumberInv

\* What a button sends has its own number.
LEMMA PressSent ==
  ASSUME Types, NumberInv, NEW b \in Buzzer, NEW a, UNCHANGED <<taken, lastPressNumber>>,
         toServer' = toServer \cup {PressPacket(b, button'[b].n, a)},
         \A c \in Buzzer : button'[c].n \in Nat /\ button[c].n <= button'[c].n
  PROVE  NumberInv'
<1> USE UdpAssumption, NumberDef
<1>1. \A c \in Buzzer : lastPressNumber[c] \in Nat /\ button[c].n \in Nat
  BY SMT DEF Types, IsButton, UdpAssumption
<1>2. \A c \in Buzzer : lastPressNumber'[c] <= button'[c].n
  BY <1>1, SMT DEF NumberInv, InOrder
<1>3. \A p \in toServer : p.t = "PRESS" => p.id \in Buzzer /\ p.n \in Nat
  BY DEF Types, IsPacket
<1>4. \A p \in toServer : p.t = "PRESS" => lastPressNumber'[p.id] <= p.n /\ p.n <= button'[p.id].n
  BY <1>1, <1>3, SMT DEF NumberInv, InOrder
<1>5. \A p \in toServer' : p.t = "PRESS" => lastPressNumber'[p.id] <= p.n /\ p.n <= button'[p.id].n
  BY <1>2, <1>4 DEF PressPacket
<1> QED
  BY <1>2, <1>5 DEF NumberInv, InOrder, NoneAhead, TakenOnce

LEMMA NumberStep == ASSUME ~Overtaking PROVE Types /\ NumberInv /\ [Next]_vars => NumberInv'
<1> SUFFICES ASSUME Types, NumberInv, [Next]_vars PROVE NumberInv'
  OBVIOUS
<1> USE UdpAssumption, NumberDef
<1>1. ASSUME NEW p \in toServer, Receive(p) PROVE NumberInv'
  <2>1. toServer' = toServer \ {p} /\ button' = button
    BY <1>1 DEF Receive, people
  <2>2. CASE UNCHANGED <<lastPressNumber, taken>>
    BY <2>1, <2>2, NothingNew
  <2>3. CASE OnPress(p) /\ ~isRepeated(p) /\ lastPressNumber' = [lastPressNumber EXCEPT ![p.id] = p.n]
                        /\ taken' = [taken EXCEPT ![p.id][p.n] = @ + 1]
    <3>1. p.t = "PRESS"
      BY <2>3 DEF OnPress
    <3>2. \A q \in toServer : q.t = "PRESS" /\ q.id = p.id => p.n <= q.n
      BY <1>1, <3>1 DEF Receive
    <3> QED
      BY <2>1, <2>3, <3>1, <3>2, PressArrives
  <2> QED
    BY <1>1, <2>2, <2>3 DEF Receive, OnHeartbeat, OnPress
<1>2. CASE WindowEnds
  BY <1>2, NothingNew DEF WindowEnds, service, people
<1>3. CASE CheckTimeouts
  BY <1>3, NothingNew DEF CheckTimeouts, network, people
<1>4. CASE Tick
  <2>1. \A b \in Buzzer : button'[b].n = button[b].n
    <3>1. SUFFICES ASSUME NEW b \in Buzzer PROVE button'[b].n = button[b].n
      OBVIOUS
    <3>2. button'[b] = IF button[b].sending /\ button[b].age < ResendFor
                       THEN [button[b] EXCEPT !.age = @ + 1] ELSE [button[b] EXCEPT !.sending = FALSE]
      BY <1>4 DEF Tick
    <3> QED
      BY <3>2, Buttons DEF Types
  <2>2. ASSUME NEW p \in toServer', p.t = "PRESS"
        PROVE  \E q \in toServer : q.t = "PRESS" /\ q.id = p.id /\ q.n = p.n
    <3>1. p \in toServer \/ \E q \in toServer : q.t = "PRESS" /\ p = PressPacket(q.id, q.n, q.age + 1)
      BY <1>4 DEF Tick
    <3> QED
      BY <2>2, <3>1 DEF PressPacket
  <2>3. UNCHANGED <<taken, lastPressNumber>>
    BY <1>4 DEF Tick
  <2> QED
    BY <2>1, <2>2, <2>3, NothingNew
<1>5. CASE Lose
  BY <1>5, NothingNew DEF Lose, service, people
<1>6. ASSUME NEW l \in BOOLEAN, SetLock(l) PROVE NumberInv'
  BY <1>6, NothingNew DEF SetLock, service, people
<1>7. ASSUME NEW b \in Buzzer, PressButton(b) PROVE NumberInv'
  <2>1. button' = [button EXCEPT ![b] = [n |-> button[b].n + 1, age |-> 0, sending |-> TRUE]]
    BY <1>7 DEF PressButton
  <2>2. \A c \in Buzzer : button'[c].n = IF c = b THEN button[b].n + 1 ELSE button[c].n
    BY <2>1 DEF Types
  <2>3. \A c \in Buzzer : button'[c].n \in Nat /\ button[c].n <= button'[c].n
    <3>1. \A c \in Buzzer : button[c].n \in Nat
      BY UdpAssumption DEF Types, IsButton, UdpAssumption
    <3> QED
      BY <2>2, <3>1
  <2>4. toServer' = toServer \cup {PressPacket(b, button'[b].n, 0)} /\ UNCHANGED <<taken, lastPressNumber>>
    BY <1>7, <2>2 DEF PressButton, service
  <2> QED
    BY <2>3, <2>4, PressSent
<1>8. ASSUME NEW b \in Buzzer, Resend(b) PROVE NumberInv'
  <2>1. toServer' = toServer \cup {PressPacket(b, button'[b].n, button[b].age)}
        /\ UNCHANGED <<taken, lastPressNumber, button>>
    BY <1>8 DEF Resend, service, people
  <2>2. \A c \in Buzzer : button'[c].n \in Nat /\ button[c].n <= button'[c].n
    <3>1. \A c \in Buzzer : button[c].n \in Nat
      BY UdpAssumption DEF Types, IsButton, UdpAssumption
    <3> QED
      BY <2>1, <3>1
  <2> QED
    BY <2>1, <2>2, PressSent
<1>9. ASSUME NEW b \in Buzzer, Heartbeat(b) PROVE NumberInv'
  <2>1. \A p \in toServer' : p.t = "PRESS" => p \in toServer
    BY <1>9 DEF Heartbeat, HeartbeatPacket
  <2> QED
    BY <1>9, <2>1, NothingNew DEF Heartbeat, service, people
<1>10. ASSUME NEW b \in Buzzer, BuzzerReceives(b) PROVE NumberInv'
  <2>1. button' = button \/ button' = [button EXCEPT ![b] = [@ EXCEPT !.sending = FALSE]]
    BY <1>10 DEF BuzzerReceives
  <2>2. [button[b] EXCEPT !.sending = FALSE].n = button[b].n
    BY Buttons DEF Types
  <2>3. \A c \in Buzzer : button'[c].n = button[c].n
    BY <2>1, <2>2 DEF Types
  <2> QED
    BY <1>10, <2>3, NothingNew DEF BuzzerReceives, service
<1>11. CASE UNCHANGED vars
  BY <1>11, NothingNew DEF vars, service, network, people
<1> QED
  BY <1>1, <1>2, <1>3, <1>4, <1>5, <1>6, <1>7, <1>8, <1>9, <1>10, <1>11 DEF Next

\* TakenOnce, for any number of presses and copies: the server compares a press with the last number
\* only (udp-buzzer.service.ts onMessage), which is enough while the copies of a buzzer's presses stay
\* in order.
THEOREM PressTakenOnce == ASSUME ~Overtaking PROVE Spec => []TakenOnce
<1>1. Init => Types /\ NumberInv
  BY TypesInit, NumberInit
<1>2. Types /\ NumberInv /\ [Next]_vars => Types' /\ NumberInv'
  BY TypesStep, NumberStep
<1>3. NumberInv => TakenOnce
  BY DEF NumberInv
<1> QED
  BY <1>1, <1>2, <1>3, PTL DEF Spec

----------------------------------------------------------------------------
(* The earliest press comes first. *)

\* Resolved takes each press once: no two have the same rank, so every rank is that of a press.
LEMMA RankIsBijection ==
  ASSUME NEW ps, NEW k \in Nat, DOMAIN ps = 1 .. k, \A i \in 1 .. k : ps[i].age \in Int
  PROVE  /\ \A i \in 1 .. k : Rank(ps, i) \in 1 .. k
         /\ \A i, j \in 1 .. k : Rank(ps, i) < Rank(ps, j) => ps[i].age >= ps[j].age
         /\ \A r \in 1 .. k : \E i \in 1 .. k : Rank(ps, i) = r
<1> DEFINE Before(i) == {j \in 1 .. k : ps[j].age > ps[i].age \/ (ps[j].age = ps[i].age /\ j < i)}
           rank == [i \in 1 .. k |-> Rank(ps, i)]
<1>0. IsFiniteSet(1 .. k) /\ Cardinality(1 .. k) = k
  BY FS_Interval
<1>1. \A i \in 1 .. k : Rank(ps, i) = 1 + Cardinality(Before(i))
  BY DEF Rank
<1>2. \A i \in 1 .. k : IsFiniteSet(Before(i)) /\ Cardinality(Before(i)) \in Nat
  BY <1>0, FS_Subset, FS_CardinalityType
<1>3. ASSUME NEW i \in 1 .. k PROVE Cardinality(Before(i)) <= k - 1
  <2>1. i \notin Before(i)
    OBVIOUS
  <2>2. Before(i) \in SUBSET ((1 .. k) \ {i})
    BY <2>1
  <2>3. IsFiniteSet((1 .. k) \ {i}) /\ Cardinality((1 .. k) \ {i}) = k - 1
    BY <1>0, FS_RemoveElement
  <2> QED
    BY <2>2, <2>3, FS_Subset
<1>4. ASSUME NEW i \in 1 .. k, NEW j \in 1 .. k, j \in Before(i)
      PROVE  Cardinality(Before(j)) < Cardinality(Before(i))
  <2>1. Before(j) \cup {j} \in SUBSET Before(i)
    BY <1>4
  <2>2. j \notin Before(j)
    OBVIOUS
  <2>3. Cardinality(Before(j) \cup {j}) = Cardinality(Before(j)) + 1
    BY <1>2, <2>2, FS_AddElement
  <2>4. Cardinality(Before(j) \cup {j}) <= Cardinality(Before(i))
    BY <1>2, <2>1, FS_Subset
  <2>5. Cardinality(Before(i)) \in Nat /\ Cardinality(Before(j)) \in Nat
    BY <1>2
  <2> HIDE DEF Before
  <2> QED
    BY <2>3, <2>4, <2>5
<1>5. \A i, j \in 1 .. k : i = j \/ i \in Before(j) \/ j \in Before(i)
  OBVIOUS
<1> HIDE DEF Before
<1>6. \A i \in 1 .. k : Rank(ps, i) \in 1 .. k
  <2> SUFFICES ASSUME NEW i \in 1 .. k PROVE Rank(ps, i) \in 1 .. k
    OBVIOUS
  <2>1. Cardinality(Before(i)) \in Nat /\ Cardinality(Before(i)) <= k - 1 /\ Rank(ps, i) = 1 + Cardinality(Before(i))
    BY <1>1, <1>2, <1>3
  <2> QED
    BY <2>1
<1>7. \A i, j \in 1 .. k : Rank(ps, i) < Rank(ps, j) => ps[i].age >= ps[j].age
  <2> SUFFICES ASSUME NEW i \in 1 .. k, NEW j \in 1 .. k, Rank(ps, i) < Rank(ps, j) PROVE ps[i].age >= ps[j].age
    OBVIOUS
  <2>1. Cardinality(Before(i)) < Cardinality(Before(j))
    BY <1>1, <1>2
  <2>2. i # j /\ j \notin Before(i)
    BY <1>2, <1>4, <2>1
  <2>3. i \in Before(j)
    BY <1>5, <2>2
  <2> QED
    BY <2>3 DEF Before
<1>8. \A i, j \in 1 .. k : Rank(ps, i) = Rank(ps, j) => i = j
  BY <1>1, <1>2, <1>4, <1>5
<1>9. rank \in Injection(1 .. k, 1 .. k)
  BY <1>6, <1>8 DEF Injection, IsInjective
<1>10. rank \in Surjection(1 .. k, 1 .. k)
  BY <1>0, <1>9, FS_Injection
<1>11. \A r \in 1 .. k : \E i \in 1 .. k : Rank(ps, i) = r
  BY <1>10 DEF Surjection
<1> QED
  BY <1>6, <1>7, <1>11

LEMMA ResolvedInOrder ==
  ASSUME NEW ps, NEW k \in Nat, DOMAIN ps = 1 .. k, \A i \in 1 .. k : ps[i].age \in Int
  PROVE  /\ DOMAIN Resolved(ps) = 1 .. k
         /\ \A r \in 1 .. k : \E i \in 1 .. k : Resolved(ps)[r] = ps[i]
         /\ \A q, r \in 1 .. k : q < r => Resolved(ps)[q].age >= Resolved(ps)[r].age
<1> DEFINE At(r) == CHOOSE i \in 1 .. k : Rank(ps, i) = r
<1>1. \A r \in 1 .. k : At(r) \in 1 .. k /\ Rank(ps, At(r)) = r
  BY RankIsBijection
<1>2. DOMAIN Resolved(ps) = 1 .. k /\ \A r \in 1 .. k : Resolved(ps)[r] = ps[At(r)]
  BY DEF Resolved
<1> HIDE DEF At
<1>3. \A q, r \in 1 .. k : q < r => ps[At(q)].age >= ps[At(r)].age
  BY <1>1, RankIsBijection
<1> QED
  BY <1>1, <1>2, <1>3

\* what a press that is collected claims
Claims(x) == /\ Trusted(x.id) => x.age = x.trueAge
             /\ CantGain(x.id) => x.age <= x.trueAge
FairInv == \A i \in DOMAIN presses : Claims(presses[i])

LEMMA FairStep == Types /\ FairInv /\ [Next]_vars => FairInv'
<1> SUFFICES ASSUME Types, FairInv, [Next]_vars PROVE FairInv'
  OBVIOUS
<1>0. UNCHANGED clock
  BY DEF Next, Receive, WindowEnds, CheckTimeouts, Tick, Lose, SetLock, PressButton, Resend, Heartbeat, BuzzerReceives,
         vars, people
<1>1. CASE UNCHANGED presses
  BY <1>0, <1>1 DEF FairInv, Claims, Trusted, CantGain
<1>2. ASSUME NEW p \in toServer, Receive(p), ~UNCHANGED presses PROVE FairInv'
  <2>1. p.t = "PRESS" /\ presses' = Collected(p)
    BY <1>2 DEF Receive, OnHeartbeat, OnPress, window
  <2>2. p.id \in Buzzer /\ p.n \in Number /\ p.age \in 0 .. MaxDelay
    BY <2>1 DEF Types, IsPacket
  <2> DEFINE new == [id |-> p.id, age |-> ClaimedAge(p.id, p.age), n |-> p.n, trueAge |-> p.age]
  <2>3. Claims(new)
    BY <2>2, ClaimType DEF Claims
  <2>4. \A i \in DOMAIN presses' : presses'[i] = new \/ \E j \in DOMAIN presses : presses'[i] = presses[j]
    BY <2>1, <2>2, CollectedPresses
  <2> HIDE DEF new
  <2>5. \A i \in DOMAIN presses' : Claims(presses'[i])
    BY <2>3, <2>4 DEF FairInv
  <2> QED
    BY <1>0, <2>5 DEF FairInv, Claims, Trusted, CantGain
<1>3. CASE WindowEnds
  <2>1. presses' = <<>>
    BY <1>3 DEF WindowEnds
  <2> QED
    BY <2>1 DEF FairInv
<1>4. CASE Tick
  <2> DEFINE older(x) == [x EXCEPT !.age = IF @ = None THEN None ELSE @ + 1, !.trueAge = @ + 1]
  <2>1. presses' = [i \in DOMAIN presses |-> older(presses[i])]
    BY <1>4 DEF Tick
  <2>2. ASSUME NEW x \in CollectedPress, Claims(x) PROVE Claims(older(x))
    <3>1. older(x).id = x.id /\ older(x).trueAge = x.trueAge + 1 /\ older(x).age = IF x.age = None THEN None ELSE x.age + 1
      BY DEF CollectedPress
    <3>2. x.age \in Int /\ x.trueAge \in Nat
      BY DEF CollectedPress
    <3> HIDE DEF older
    <3>3. Trusted(x.id) => older(x).age = older(x).trueAge
      BY <2>2, <3>1, <3>2, SMT DEF Claims, None
    <3>4. CantGain(x.id) => older(x).age <= older(x).trueAge
      BY <2>2, <3>1, <3>2, SMT DEF Claims, None
    <3> QED
      BY <3>1, <3>3, <3>4 DEF Claims
  <2> HIDE DEF older
  <2>3. \A i \in DOMAIN presses : presses[i] \in CollectedPress
    BY DEF Types
  <2>4. \A i \in DOMAIN presses' : Claims(presses'[i])
    BY <2>1, <2>2, <2>3 DEF FairInv
  <2> QED
    BY <1>0, <2>4 DEF FairInv, Claims, Trusted, CantGain
<1>5. CASE UNCHANGED vars
  BY <1>1, <1>5 DEF vars, window
<1>6. CASE CheckTimeouts \/ Lose \/ \E l \in BOOLEAN : SetLock(l)
  BY <1>1, <1>6 DEF CheckTimeouts, Lose, SetLock, window
<1>7. CASE \E b \in Buzzer : PressButton(b) \/ Resend(b) \/ Heartbeat(b) \/ BuzzerReceives(b)
  BY <1>1, <1>7 DEF PressButton, Resend, Heartbeat, BuzzerReceives, window
<1> QED
  BY <1>1, <1>2, <1>3, <1>4, <1>5, <1>6, <1>7 DEF Next

LEMMA FairWhenResolved == Types /\ FairInv => FairOrder
<1> SUFFICES ASSUME Types, FairInv PROVE FairOrder
  OBVIOUS
<1>1. PICK k \in Nat : DOMAIN presses = 1 .. k /\ \A i \in 1 .. k : presses[i] \in CollectedPress
  BY DEF Types
<1>2. \A i \in 1 .. k : presses[i].age \in Int /\ presses[i].trueAge \in Nat /\ Claims(presses[i])
  BY <1>1 DEF CollectedPress, FairInv
<1> DEFINE ranked == Resolved(presses)
<1>3. /\ DOMAIN ranked = 1 .. k
      /\ \A r \in 1 .. k : \E i \in 1 .. k : ranked[r] = presses[i]
      /\ \A q, r \in 1 .. k : q < r => ranked[q].age >= ranked[r].age
  BY <1>1, <1>2, ResolvedInOrder
<1> HIDE DEF ranked
<1>4. \A r \in 1 .. k : ranked[r].age \in Int /\ ranked[r].trueAge \in Nat /\ Claims(ranked[r])
  BY <1>2, <1>3
<1>5. ASSUME NEW i \in 1 .. k, NEW j \in 1 .. k, i < j, Trusted(ranked[j].id), CantGain(ranked[i].id)
      PROVE  ranked[i].trueAge >= ranked[j].trueAge
  <2>1. ranked[i].age >= ranked[j].age
    BY <1>3, <1>5
  <2>2. ranked[i].age <= ranked[i].trueAge /\ ranked[j].age = ranked[j].trueAge
    BY <1>4, <1>5 DEF Claims
  <2> QED
    BY <1>4, <2>1, <2>2, SMT
<1> QED
  BY <1>3, <1>5 DEF FairOrder, ranked

\* FairOrder, for any number of buzzers, however long the window and a packet take, and whatever their
\* clocks say (udp-buzzer.service.ts onPress, resolvePresses).
THEOREM EarliestComesFirst == Spec => []FairOrder
<1>1. Init => Types /\ FairInv
  <2>1. Init => FairInv
    BY DEF Init, FairInv
  <2> QED
    BY <2>1, TypesInit
<1>2. Types /\ FairInv /\ [Next]_vars => Types' /\ FairInv'
  BY TypesStep, FairStep
<1>3. Types /\ FairInv => FairOrder
  BY FairWhenResolved
<1> QED
  BY <1>1, <1>2, <1>3, PTL DEF Spec

----------------------------------------------------------------------------
(* The master's list. *)

IsKnown(s) == s = [known |-> s.known, online |-> s.online, batteryLow |-> s.batteryLow, info |-> s.info, told |-> s.told]

\* The master was told what is known.
Current(s) == IsKnown(s) /\ s.told = getBuzzers(s)

LEMMA Notified == ASSUME NEW s, IsKnown(s) PROVE Current(notifyBuzzersChanged(s))
  BY DEF IsKnown, Current, notifyBuzzersChanged, getBuzzers

\* Each handler leaves what is known alone, or tells the master of its change.
LEMMA SignOfLifeTold == ASSUME NEW s, NEW b, Current(s) PROVE Current(onSignOfLife(s, b))
<1>1. IsKnown([s EXCEPT !.known = Append(@, b), !.online = @ \cup {b}])
  <2>1. PICK k, t : k = Append(s.known, b) /\ t = [s EXCEPT !.known = k]
    OBVIOUS
  <2>2. IsKnown(t)
    BY <2>1 DEF Current, IsKnown
  <2>3. IsKnown([t EXCEPT !.online = @ \cup {b}])
    BY <2>2 DEF IsKnown
  <2> QED
    BY <2>1, <2>3
<1>2. IsKnown([s EXCEPT !.online = @ \cup {b}])
  BY DEF Current, IsKnown
<1> QED
  BY <1>1, <1>2, Notified DEF onSignOfLife

LEMMA BatteryTold == ASSUME NEW s, NEW b, NEW v, Current(s) PROVE Current(onBattery(s, b, v))
<1>1. \A low : IsKnown([s EXCEPT !.batteryLow = low])
  BY DEF Current, IsKnown
<1>2. PICK low : low = IF IsLow(s, b, v) THEN s.batteryLow \cup {b} ELSE s.batteryLow \ {b}
  OBVIOUS
<1> QED
  BY <1>1, <1>2, Notified DEF onBattery

LEMMA InfoTold ==
  ASSUME NEW s, NEW b, NEW x, Current(s)
  PROVE  Current(onBatteryPercent(s, b, x)) /\ Current(onFirmwareVersion(s, b, x)) /\ Current(onColor(s, b, x))
<1>1. \A i : IsKnown([s EXCEPT !.info = i])
  BY DEF Current, IsKnown
<1>2. IsKnown([s EXCEPT !.info[b].percent = x]) /\ IsKnown([s EXCEPT !.info[b].firmware = x])
      /\ IsKnown([s EXCEPT !.info[b].color = x])
  <2>1. PICK i, j, k : /\ i = [s.info EXCEPT ![b].percent = x] /\ j = [s.info EXCEPT ![b].firmware = x]
                       /\ k = [s.info EXCEPT ![b].color = x]
    OBVIOUS
  <2>2. [s EXCEPT !.info[b].percent = x] = [s EXCEPT !.info = i]
    BY <2>1
  <2>3. [s EXCEPT !.info[b].firmware = x] = [s EXCEPT !.info = j]
    BY <2>1
  <2>4. [s EXCEPT !.info[b].color = x] = [s EXCEPT !.info = k]
    BY <2>1
  <2> QED
    BY <1>1, <2>2, <2>3, <2>4
<1> QED
  BY <1>2, Notified DEF onBatteryPercent, onFirmwareVersion, onColor

LEMMA TimeoutsTold == ASSUME NEW s, Current(s) PROVE Current(markTimedOutBuzzersOffline(s))
<1>1. \A gone : IsKnown([s EXCEPT !.online = @ \ gone])
  BY DEF Current, IsKnown
<1> QED
  BY <1>1, Notified DEF markTimedOutBuzzersOffline

LEMMA KnownIs == IsKnown(Known) /\ (MasterListIsCurrent <=> Current(Known))
  BY DEF Known, IsKnown, Current, MasterListIsCurrent

LEMMA Learned == ASSUME NEW s, Current(s), Learn(s) PROVE MasterListIsCurrent'
  BY DEF Learn, Current, MasterListIsCurrent, getBuzzers, Known

LEMMA MasterListStep == MasterListIsCurrent /\ [Next]_vars => MasterListIsCurrent'
<1> SUFFICES ASSUME MasterListIsCurrent, [Next]_vars PROVE MasterListIsCurrent'
  OBVIOUS
<1>1. CASE UNCHANGED <<known, online, batteryLow, info, masterList>>
  BY <1>1 DEF MasterListIsCurrent, getBuzzers, Known
<1>2. ASSUME NEW p \in toServer, Receive(p) PROVE MasterListIsCurrent'
  <2>1. Current(Known)
    BY KnownIs
  <2>2. CASE OnHeartbeat(p)
    <3>1. Current(Heard(p))
      BY <2>1, SignOfLifeTold, BatteryTold, InfoTold DEF Heard
    <3> QED
      BY <2>2, <3>1, Learned DEF OnHeartbeat
  <2>3. CASE OnPress(p)
    <3>1. Current(onSignOfLife(Known, p.id))
      BY <2>1, SignOfLifeTold
    <3> QED
      BY <2>3, <3>1, Learned DEF OnPress
  <2> QED
    BY <1>2, <2>2, <2>3 DEF Receive
<1>3. CASE CheckTimeouts
  <2>1. Current(markTimedOutBuzzersOffline(Known))
    BY KnownIs, TimeoutsTold
  <2> QED
    BY <1>3, <2>1, Learned DEF CheckTimeouts
<1>4. CASE WindowEnds \/ Tick \/ Lose
  BY <1>1, <1>4 DEF WindowEnds, Tick, Lose, service
<1>5. ASSUME NEW l \in BOOLEAN, SetLock(l) PROVE MasterListIsCurrent'
  BY <1>1, <1>5 DEF SetLock, service
<1>6. ASSUME NEW b \in Buzzer, PressButton(b) \/ Resend(b) \/ Heartbeat(b) \/ BuzzerReceives(b) PROVE MasterListIsCurrent'
  BY <1>1, <1>6 DEF PressButton, Resend, Heartbeat, BuzzerReceives, service
<1>7. CASE UNCHANGED vars
  BY <1>1, <1>7 DEF vars, service
<1> QED
  BY <1>2, <1>3, <1>4, <1>5, <1>6, <1>7 DEF Next

\* Whatever packets come late, twice or never, the list the master has is the service's
\* (notifyBuzzersChanged): each of the six handlers leaves what is known as it is, or tells the master.
THEOREM MasterListCorrect == Spec => []MasterListIsCurrent
<1>1. Init => MasterListIsCurrent
  BY DEF Init, MasterListIsCurrent, getBuzzers, Known
<1> QED
  BY <1>1, MasterListStep, PTL DEF Spec

----------------------------------------------------------------------------
(* Buzzers that are plugged into the box: Provisioning, with the constants and variables of its own.       *)

\* A color that is for buzzer b, if it is one.
IsFor(choice, b) == choice.color # NoValue => choice.for = b

\* What the service and the page know at a path where b is plugged in, if something is.
EntryOf(entry, b) ==
  entry # NoValue => "mac" \in DOMAIN entry /\ (b # NoValue => entry.mac \in {NoValue, b})
SessionWith(session, b) ==
  /\ {"gives", "told", "open", "wasReset"} \subseteq DOMAIN session
  /\ b # NoValue => /\ session.gives # NoValue => IsFor(session.gives, b)
                    /\ session.told # NoValue => session.told.mac = b
TalkWith(talk, b) == talk # NoValue => SessionWith(talk, b)
ChoiceOf(choice, entry, b) ==
  choice # NoValue => entry # NoValue /\ (b # NoValue => IsFor(choice, b))
RequestFor(request, entry, b) ==
  entry # NoValue /\ b # NoValue => IsFor(request.choice, b)

\* What is known, chosen and asked for is of the buzzer that is plugged in: the page forgets a choice before
\* another buzzer is known at its path, and no look ends while a request is on its way.
KnownInv ==
  /\ DOMAIN port = Path /\ DOMAIN usb = Path /\ DOMAIN talks = Path /\ DOMAIN chosenColors = Path
  /\ \A p \in Path : /\ EntryOf(usb[p], port[p]) /\ TalkWith(talks[p], port[p])
                     /\ ChoiceOf(chosenColors[p], usb[p], port[p])
  /\ asked = <<>> \/ \E p \in Path : \E c : asked = <<[path |-> p, choice |-> c]>>
  /\ \A p \in Path : \A r : asked = <<r>> /\ r.path = p => RequestFor(r, usb[p], port[p])

\* The settings that a buzzer has not answered are for it.
AllFor(q, b) == \E S : q \in Seq(S) /\ \A c \in S : IsFor(c, b)
LinesInv ==
  /\ DOMAIN lines = Path
  /\ \A p \in Path : AllFor(lines[p], port[p]) /\ (port[p] = NoValue => lines[p] = <<>>)

LEMMA NothingFor == \A b : AllFor(<<>>, b)
<1>1. <<>> \in Seq({})
  OBVIOUS
<1>2. PICK q : q = <<>>
  OBVIOUS
<1>3. q \in Seq({})
  BY <1>1, <1>2
<1>4. \A b : AllFor(q, b)
  BY <1>3 DEF AllFor
<1> QED
  BY <1>2, <1>4

LEMMA ForTail ==
  ASSUME NEW q, NEW b, AllFor(q, b), q # <<>>
  PROVE  AllFor(Tail(q), b) /\ IsFor(Head(q), b)
<1>1. PICK S : q \in Seq(S) /\ \A c \in S : IsFor(c, b)
  BY DEF AllFor
<1>2. Tail(q) \in Seq(S) /\ Head(q) \in S
  BY <1>1
<1> QED
  BY <1>1, <1>2 DEF AllFor

LEMMA ForMore ==
  ASSUME NEW q, NEW b, AllFor(q, b), NEW c, IsFor(c, b)
  PROVE  AllFor(Append(q, c), b)
<1>1. PICK S : q \in Seq(S) /\ \A d \in S : IsFor(d, b)
  BY DEF AllFor
<1>2. q \in Seq(S \cup {c})
  BY <1>1
<1>3. Append(q, c) \in Seq(S \cup {c})
  BY <1>2
<1> QED
  BY <1>1, <1>3 DEF AllFor

\* What a session is told, and what ends it, is about the buzzer it talks with.
LEMMA SessionsKnow ==
  ASSUME KnownInv, NEW p \in Path, NEW b, b = port[p], UNCHANGED <<port, asked>>,
         NEW entry, usb[p] # NoValue => EntryOf(entry, b),
         Plugged!update(p, entry) \/ UNCHANGED <<usb, chosenColors>>,
         NEW talk, TalkWith(talk, b), talks' = [talks EXCEPT ![p] = talk]
  PROVE  KnownInv'
<1>1. DOMAIN talks' = Path /\ \A q \in Path : TalkWith(talks'[q], port[q])
  BY DEF KnownInv
<1>2. /\ DOMAIN usb' = Path /\ DOMAIN chosenColors' = Path
      /\ \A q \in Path : /\ EntryOf(usb'[q], port[q]) /\ ChoiceOf(chosenColors'[q], usb'[q], port[q])
                         /\ usb[q] = NoValue => usb'[q] = NoValue
  <2>1. CASE UNCHANGED <<usb, chosenColors>>
    BY <2>1 DEF KnownInv
  <2>2. CASE Plugged!update(p, entry)
    <3>1. PICK after : /\ after = IF usb[p] = NoValue THEN usb ELSE [usb EXCEPT ![p] = entry]
                       /\ usb' = after
                       /\ chosenColors' = [q \in Path |-> IF after[q] = NoValue THEN NoValue ELSE chosenColors[q]]
      BY <2>2 DEF Plugged!update, Plugged!notifyChanged
    <3>2. DOMAIN after = Path /\ \A q \in Path : EntryOf(after[q], port[q]) /\ (usb[q] = NoValue => after[q] = NoValue)
      BY <3>1 DEF KnownInv
    <3>3. \A q \in Path : ChoiceOf(chosenColors[q], usb[q], port[q])
      BY DEF KnownInv
    <3>4. \A q \in Path : ChoiceOf(chosenColors'[q], after[q], port[q])
      BY <3>1, <3>2, <3>3 DEF ChoiceOf
    <3> QED
      BY <3>1, <3>2, <3>4
  <2> QED
    BY <2>1, <2>2
<1>3. \A q \in Path : \A r : asked = <<r>> /\ r.path = q => RequestFor(r, usb'[q], port[q])
  BY <1>2 DEF KnownInv, RequestFor
<1> QED
  BY <1>1, <1>2, <1>3 DEF KnownInv

LEMMA Described ==
  ASSUME NEW session, NEW b, SessionWith(session, b), NEW state, NEW isAdopted
  PROVE  /\ EntryOf(Plugged!describe(session, state, isAdopted), b)
         /\ \A color : EntryOf([Plugged!describe(session, state, isAdopted) EXCEPT !.color = color], b)
<1>1. CASE session.told = NoValue
  BY <1>1 DEF Plugged!describe, Plugged!NewBuzzer, EntryOf
<1>2. CASE session.told # NoValue
  BY <1>2 DEF Plugged!describe, EntryOf, SessionWith
<1> QED
  BY <1>1, <1>2

\* A session ends.
LEMMA FinishKnows ==
  ASSUME KnownInv, NEW p \in Path, UNCHANGED <<port, asked>>,
         NEW session, SessionWith(session, port[p]), NEW error, Plugged!finish(p, session, error)
  PROVE  KnownInv'
<1>1. PICK b : b = port[p]
  OBVIOUS
<1>2. talks' = [talks EXCEPT ![p] = NoValue] /\ TalkWith(NoValue, b)
  BY DEF Plugged!finish, TalkWith
<1>3. EntryOf(usb[p], b)
  BY <1>1 DEF KnownInv
<1>4. \A s : usb[p] # NoValue => EntryOf([usb[p] EXCEPT !.state = s], b)
  BY <1>3 DEF EntryOf
<1>5. ASSUME NEW entry, EntryOf(entry, b) \/ (usb[p] # NoValue => EntryOf(entry, b)),
             Plugged!update(p, entry) \/ UNCHANGED <<usb, chosenColors>>
      PROVE  KnownInv'
  BY <1>1, <1>2, <1>5, SessionsKnow
<1>6. ASSUME Plugged!answered(p, session, error) PROVE KnownInv'
  <2>1. PICK told : Plugged!update(p, IF error # NoValue THEN [usb[p] EXCEPT !.state = "no-answer"]
                                      ELSE Plugged!describe(session, "detected", told))
    BY <1>6 DEF Plugged!answered
  <2>2. EntryOf(Plugged!describe(session, "detected", told), b)
    BY <1>1, Described
  <2> QED
    BY <1>4, <1>5, <2>1, <2>2
<1>7. CASE session.gives = NoValue
  <2>1. Plugged!answered(p, session, error) \/ UNCHANGED <<usb, chosenColors>>
    BY <1>7 DEF Plugged!finish, Plugged!identified
  <2> QED
    BY <1>3, <1>5, <1>6, <2>1
<1>8. CASE session.gives # NoValue
  <2>1. PICK color, isAdopted :
          Plugged!update(p, IF error # NoValue THEN Plugged!describe(session, "failed", isAdopted)
                            ELSE [Plugged!describe(session, "adopted", TRUE) EXCEPT !.color = color])
    BY <1>8 DEF Plugged!finish, Plugged!adopted
  <2>2. /\ EntryOf(Plugged!describe(session, "failed", isAdopted), b)
        /\ EntryOf([Plugged!describe(session, "adopted", TRUE) EXCEPT !.color = color], b)
    BY <1>1, Described
  <2> QED
    BY <1>5, <2>1, <2>2
<1> QED
  BY <1>7, <1>8

\* A step in which the buzzer at p answers, or does not, and its session ends or hears nothing of it.
LEMMA AnsweredKnows ==
  ASSUME KnownInv, NEW p \in Path, UNCHANGED <<port, asked>>, NEW error, Plugged!Answered(p, error)
  PROVE  KnownInv'
<1>1. CASE Plugged!Listens(p)
  <2>1. SessionWith(talks[p], port[p])
    BY <1>1 DEF Plugged!Listens, Plugged!Talks, KnownInv, TalkWith
  <2> QED
    BY <1>1, <2>1, FinishKnows DEF Plugged!Answered
<1>2. CASE ~Plugged!Listens(p)
  BY <1>2 DEF Plugged!Answered, KnownInv
<1> QED
  BY <1>1, <1>2

LEMMA TalksKnow ==
  ASSUME KnownInv, NEW p \in Path, NEW talk, TalkWith(talk, port[p]), talks' = [talks EXCEPT ![p] = talk],
         UNCHANGED <<port, usb, chosenColors, asked>>
  PROVE  KnownInv'
BY DEF KnownInv

LEMMA LooksKnow ==
  ASSUME KnownInv, Plugged!lookForBuzzers
  PROVE  KnownInv'
<1>1. PICK after, found :
        /\ after = [p \in Path |-> IF p \notin listed THEN NoValue ELSE IF usb[p] = NoValue THEN Plugged!NewBuzzer ELSE usb[p]]
        /\ usb' = after /\ chosenColors' = [p \in Path |-> IF after[p] = NoValue THEN NoValue ELSE chosenColors[p]]
        /\ talks' = [p \in Path |-> IF p \in found THEN Plugged!Session(NoValue) ELSE talks[p]]
        /\ UNCHANGED <<port, asked>> /\ asked = <<>>
  BY DEF Plugged!lookForBuzzers, Plugged!notifyChanged
<1>2. \A b : EntryOf(NoValue, b) /\ EntryOf(Plugged!NewBuzzer, b) /\ TalkWith(Plugged!Session(NoValue), b)
  BY DEF EntryOf, TalkWith, SessionWith, Plugged!NewBuzzer, Plugged!Session
<1>3. ASSUME NEW p \in Path
      PROVE  EntryOf(usb'[p], port[p]) /\ TalkWith(talks'[p], port[p]) /\ ChoiceOf(chosenColors'[p], usb'[p], port[p])
  <2>1. EntryOf(usb[p], port[p]) /\ TalkWith(talks[p], port[p]) /\ ChoiceOf(chosenColors[p], usb[p], port[p])
    BY DEF KnownInv
  <2>2. EntryOf(usb'[p], port[p]) /\ TalkWith(talks'[p], port[p])
    BY <1>1, <1>2, <2>1
  <2>3. ChoiceOf(chosenColors'[p], usb'[p], port[p])
    BY <1>1, <2>1 DEF ChoiceOf
  <2> QED
    BY <2>2, <2>3
<1>4. DOMAIN usb' = Path /\ DOMAIN talks' = Path /\ DOMAIN chosenColors' = Path /\ DOMAIN port = Path
  BY <1>1 DEF KnownInv
<1>5. \A r : <<>> # <<r>>
  OBVIOUS
<1> QED
  BY <1>1, <1>3, <1>4, <1>5 DEF KnownInv

LEMMA ChoosesKnow ==
  ASSUME KnownInv, NoValue \notin Keeping, NEW p \in Path, NEW color, Plugged!chooseColor(p, color)
  PROVE  KnownInv'
<1>1. PICK c : /\ c = [color |-> color, for |-> usb[p].mac] /\ chosenColors' = [chosenColors EXCEPT ![p] = c]
               /\ usb[p] # NoValue /\ usb[p].mac \in Keeping /\ UNCHANGED <<port, usb, talks, asked>>
  BY DEF Plugged!chooseColor, Plugged!canChooseColor
<1>2. EntryOf(usb[p], port[p])
  BY DEF KnownInv
<1>3. ChoiceOf(c, usb[p], port[p])
  BY <1>1, <1>2 DEF ChoiceOf, EntryOf, IsFor
<1> QED
  BY <1>1, <1>3 DEF KnownInv

LEMMA AsksToAdoptKnows ==
  ASSUME KnownInv, NEW p \in Path, Plugged!asksToAdopt(p)
  PROVE  KnownInv'
<1>1. PICK c, r : /\ r = [path |-> p, choice |-> c] /\ asked' = <<r>> /\ chosenColors' = [chosenColors EXCEPT ![p] = NoValue]
                  /\ (c = Plugged!NoColor \/ (c = chosenColors[p] /\ c # NoValue))
  BY DEF Plugged!asksToAdopt
<1>2. UNCHANGED <<port, usb, talks>>
  BY DEF Plugged!asksToAdopt
<1>3. ChoiceOf(chosenColors[p], usb[p], port[p])
  BY DEF KnownInv
<1>4. RequestFor(r, usb[p], port[p])
  BY <1>1, <1>3 DEF RequestFor, ChoiceOf, IsFor, Plugged!NoColor
<1>5. \A s : asked' = <<s>> => s = r
  BY <1>1
<1>6. DOMAIN chosenColors' = Path /\ \A q \in Path : ChoiceOf(chosenColors'[q], usb[q], port[q])
  BY <1>1 DEF KnownInv, ChoiceOf
<1>7. \A q \in Path : \A s : asked' = <<s>> /\ s.path = q => RequestFor(s, usb'[q], port'[q])
  <2>1. r.path = p
    BY <1>1
  <2> QED
    BY <1>2, <1>4, <1>5, <2>1
<1>8. \E q \in Path : \E d : asked' = <<[path |-> q, choice |-> d]>>
  BY <1>1
<1>9. /\ DOMAIN port' = Path /\ DOMAIN usb' = Path /\ DOMAIN talks' = Path
      /\ \A q \in Path : EntryOf(usb'[q], port'[q]) /\ TalkWith(talks'[q], port'[q])
  BY <1>2 DEF KnownInv
<1> QED
  BY <1>2, <1>6, <1>7, <1>8, <1>9 DEF KnownInv

LEMMA AdoptsKnow ==
  ASSUME KnownInv, Plugged!adopt
  PROVE  KnownInv'
<1>1. PICK p \in Path : \E c : asked = <<[path |-> p, choice |-> c]>>
  BY DEF KnownInv, Plugged!adopt
<1>2. PICK r, c : r = [path |-> p, choice |-> c] /\ asked = <<r>>
  BY <1>1
<1>3. Head(asked) = r /\ r.path = p /\ asked' = <<>> /\ UNCHANGED port
  BY <1>2 DEF Plugged!adopt
<1>4. RequestFor(r, usb[p], port[p])
  BY <1>2, <1>3 DEF KnownInv
<1>5. \A s : <<>> # <<s>>
  OBVIOUS
<1>6. CASE UNCHANGED <<usb, chosenColors, talks>>
  BY <1>3, <1>5, <1>6 DEF KnownInv
<1>7. CASE ~UNCHANGED <<usb, chosenColors, talks>>
  <2>1. PICK state : /\ usb[p] # NoValue /\ Plugged!update(p, [usb[p] EXCEPT !.state = state])
                     /\ UNCHANGED talks \/ talks' = [talks EXCEPT ![p] = Plugged!Session(r.choice)]
    BY <1>3, <1>7 DEF Plugged!adopt
  <2>2. EntryOf(usb[p], port[p]) /\ TalkWith(talks[p], port[p]) /\ DOMAIN talks = Path
    BY DEF KnownInv
  <2>3. EntryOf([usb[p] EXCEPT !.state = state], port[p])
    BY <2>1, <2>2 DEF EntryOf
  <2>4. TalkWith(Plugged!Session(r.choice), port[p])
    BY <1>4, <2>1 DEF RequestFor, TalkWith, SessionWith, Plugged!Session
  <2>5. DOMAIN talks' = Path /\ \A q \in Path : TalkWith(talks'[q], port[q])
    BY <2>1, <2>4 DEF KnownInv
  <2>6. PICK after : /\ after = [usb EXCEPT ![p] = [usb[p] EXCEPT !.state = state]] /\ usb' = after
                     /\ chosenColors' = [q \in Path |-> IF after[q] = NoValue THEN NoValue ELSE chosenColors[q]]
    BY <2>1 DEF Plugged!update, Plugged!notifyChanged
  <2>7. DOMAIN after = Path /\ \A q \in Path : EntryOf(after[q], port[q]) /\ (usb[q] = NoValue => after[q] = NoValue)
    BY <2>1, <2>3, <2>6 DEF KnownInv
  <2>8. DOMAIN chosenColors' = Path /\ \A q \in Path : ChoiceOf(chosenColors'[q], after[q], port[q])
    BY <2>6, <2>7 DEF KnownInv, ChoiceOf
  <2> QED
    BY <1>3, <1>5, <2>5, <2>6, <2>7, <2>8 DEF KnownInv
<1> QED
  BY <1>6, <1>7

LEMMA PlugsInKnows ==
  ASSUME KnownInv, Swift = FALSE, NEW p \in Path, NEW b, Plugged!PlugsIn(p, b)
  PROVE  KnownInv'
<1>1. /\ usb[p] = NoValue /\ talks[p] = NoValue /\ port' = [port EXCEPT ![p] = b]
      /\ UNCHANGED <<usb, talks, chosenColors, asked>>
  BY DEF Plugged!PlugsIn, Plugged!Talks
<1>2. chosenColors[p] = NoValue
  BY <1>1 DEF KnownInv, ChoiceOf
<1>3. EntryOf(NoValue, b) /\ TalkWith(NoValue, b) /\ ChoiceOf(NoValue, NoValue, b) /\ \A r : RequestFor(r, NoValue, b)
  BY DEF EntryOf, TalkWith, ChoiceOf, RequestFor
<1>4. DOMAIN port' = Path /\ port'[p] = b /\ \A q \in Path : q # p => port'[q] = port[q]
  BY <1>1 DEF KnownInv
<1> QED
  BY <1>1, <1>2, <1>3, <1>4 DEF KnownInv

LEMMA UnplugsKnows ==
  ASSUME KnownInv, NEW p \in Path, Plugged!Unplugs(p)
  PROVE  KnownInv'
<1>1. port' = [port EXCEPT ![p] = NoValue] /\ UNCHANGED <<usb, talks, chosenColors, asked>>
  BY DEF Plugged!Unplugs
<1>2. DOMAIN port' = Path /\ port'[p] = NoValue /\ \A q \in Path : q # p => port'[q] = port[q]
  BY <1>1 DEF KnownInv
<1>3. EntryOf(usb[p], port[p]) /\ TalkWith(talks[p], port[p]) /\ ChoiceOf(chosenColors[p], usb[p], port[p])
  BY DEF KnownInv
<1>4. EntryOf(usb[p], NoValue) /\ ChoiceOf(chosenColors[p], usb[p], NoValue)
  BY <1>3 DEF EntryOf, ChoiceOf
<1>5. TalkWith(talks[p], NoValue)
  BY <1>3 DEF TalkWith, SessionWith
<1>6. \A r : RequestFor(r, usb[p], NoValue)
  BY DEF RequestFor
<1> QED
  BY <1>1, <1>2, <1>4, <1>5, <1>6 DEF KnownInv

\* A buzzer answers who it is.
LEMMA ReadyKnows ==
  ASSUME KnownInv, NEW p \in Path, Plugged!Ready(p)
  PROVE  /\ KnownInv'
         /\ UNCHANGED lines \/ \E c : IsFor(c, port[p]) /\ lines' = [lines EXCEPT ![p] = Append(@, c)]
         /\ port[p] # NoValue /\ UNCHANGED port
<1>1. PICK b, told, session : /\ b = port[p] /\ told = [mac |-> b, has |-> buzzer[b].has, color |-> buzzer[b].color]
                              /\ session = [talks[p] EXCEPT !.told = told]
  OBVIOUS
<1>2. /\ b # NoValue /\ talks[p] # NoValue /\ UNCHANGED <<port, asked>>
      /\ IF session.gives = NoValue THEN Plugged!finish(p, session, NoValue) /\ UNCHANGED lines
         ELSE /\ talks' = [talks EXCEPT ![p] = session]
              /\ \E c : (c = session.gives \/ c = Plugged!NoColor) /\ lines' = [lines EXCEPT ![p] = Append(@, c)]
              /\ UNCHANGED <<usb, chosenColors>>
  BY <1>1 DEF Plugged!Ready, Plugged!Listens, Plugged!Talks
<1>3. SessionWith(session, b) /\ session.gives = talks[p].gives
  <2>1. SessionWith(talks[p], b) /\ told.mac = b
    BY <1>1, <1>2 DEF KnownInv, TalkWith
  <2> QED
    BY <1>1, <2>1 DEF SessionWith
<1>4. CASE session.gives = NoValue
  BY <1>1, <1>2, <1>3, <1>4, FinishKnows
<1>5. CASE session.gives # NoValue
  <2>1. IsFor(session.gives, b) /\ IsFor(Plugged!NoColor, b)
    BY <1>2, <1>3, <1>5 DEF SessionWith, IsFor, Plugged!NoColor
  <2>2. KnownInv'
    BY <1>1, <1>2, <1>3, <1>5, TalksKnow DEF TalkWith
  <2> QED
    BY <1>1, <1>2, <1>5, <2>1, <2>2
<1> QED
  BY <1>4, <1>5

\* What is known stays right, and so do the lines.
LEMMA PluggedStep ==
  ASSUME KnownInv, LinesInv, NoValue \notin Keeping, Swift = FALSE,
         [Plugged!ProvisioningNext]_(Plugged!provisioning)
  PROVE  KnownInv' /\ LinesInv'
<1>1. UNCHANGED <<port, lines>> => LinesInv'
  BY DEF LinesInv
<1>2. UNCHANGED <<port, usb, talks, chosenColors, asked>> => KnownInv'
  BY DEF KnownInv
<1>3. CASE Plugged!Lists \/ UNCHANGED Plugged!provisioning
  BY <1>1, <1>2, <1>3 DEF Plugged!Lists, Plugged!provisioning
<1>4. CASE Plugged!lookForBuzzers
  <2>1. UNCHANGED <<port, lines>>
    BY <1>4 DEF Plugged!lookForBuzzers
  <2> QED
    BY <1>1, <1>4, <2>1, LooksKnow
<1>5. CASE Plugged!adopt
  <2>1. UNCHANGED <<port, lines>>
    BY <1>5 DEF Plugged!adopt
  <2> QED
    BY <1>1, <1>5, <2>1, AdoptsKnow
<1>6. ASSUME NEW p \in Path, Plugged!Opens(p) PROVE KnownInv' /\ LinesInv'
  <2>1. SessionWith(talks[p], port[p]) /\ UNCHANGED <<port, lines, asked>>
    BY <1>6 DEF KnownInv, TalkWith, Plugged!Opens, Plugged!Talks
  <2>2. CASE Plugged!finish(p, talks[p], "open-failed")
    BY <1>1, <2>1, <2>2, FinishKnows
  <2>3. CASE talks' = [talks EXCEPT ![p].open = TRUE] /\ UNCHANGED <<usb, chosenColors>>
    <3>1. PICK talk : talk = [talks[p] EXCEPT !.open = TRUE] /\ talks' = [talks EXCEPT ![p] = talk]
      BY <2>3
    <3>2. TalkWith(talk, port[p])
      BY <2>1, <3>1 DEF TalkWith, SessionWith
    <3> QED
      BY <1>1, <2>1, <2>3, <3>1, <3>2, TalksKnow
  <2> QED
    BY <1>6, <2>2, <2>3 DEF Plugged!Opens
<1>7. ASSUME NEW p \in Path, Plugged!Ready(p) PROVE KnownInv' /\ LinesInv'
  <2>1. /\ KnownInv' /\ port[p] # NoValue /\ UNCHANGED port
        /\ UNCHANGED lines \/ \E c : IsFor(c, port[p]) /\ lines' = [lines EXCEPT ![p] = Append(@, c)]
    BY <1>7, ReadyKnows
  <2>2. ASSUME NEW c, IsFor(c, port[p]), lines' = [lines EXCEPT ![p] = Append(@, c)] PROVE LinesInv'
    <3>1. AllFor(Append(lines[p], c), port[p])
      BY <2>2, ForMore DEF LinesInv
    <3> QED
      BY <2>1, <2>2, <3>1 DEF LinesInv
  <2> QED
    BY <1>1, <2>1, <2>2
<1>8. ASSUME NEW p \in Path, Plugged!TakesWifi(p) \/ Plugged!RefusesWifi(p) PROVE KnownInv' /\ LinesInv'
  <2>1. /\ lines[p] # <<>> /\ lines' = [lines EXCEPT ![p] = Tail(@)] /\ UNCHANGED <<port, asked>>
        /\ Plugged!Answered(p, NoValue) \/ Plugged!Answered(p, "rejected")
    BY <1>8 DEF Plugged!TakesWifi, Plugged!RefusesWifi
  <2>2. KnownInv'
    BY <2>1, AnsweredKnows
  <2>3. AllFor(Tail(lines[p]), port[p])
    BY <2>1, ForTail DEF LinesInv
  <2>4. LinesInv'
    BY <2>1, <2>3 DEF LinesInv
  <2> QED
    BY <2>2, <2>4
<1>9. ASSUME NEW p \in Path, Plugged!TimesOut(p) \/ Plugged!PortCloses(p) PROVE KnownInv' /\ LinesInv'
  <2>1. /\ SessionWith(talks[p], port[p]) /\ UNCHANGED <<port, lines, asked>>
        /\ \E error : Plugged!finish(p, talks[p], error)
    BY <1>9 DEF Plugged!TimesOut, Plugged!PortCloses, Plugged!Listens, Plugged!Talks, KnownInv, TalkWith
  <2> QED
    BY <1>1, <2>1, FinishKnows
<1>10. ASSUME NEW p \in Path, Plugged!reset(p) PROVE KnownInv' /\ LinesInv'
  <2>1. /\ SessionWith(talks[p], port[p]) /\ UNCHANGED <<port, usb, chosenColors, asked>>
        /\ talks' = [talks EXCEPT ![p].wasReset = TRUE] /\ lines' = [lines EXCEPT ![p] = <<>>]
    BY <1>10 DEF Plugged!reset, Plugged!Listens, Plugged!Talks, KnownInv, TalkWith
  <2>2. PICK talk : talk = [talks[p] EXCEPT !.wasReset = TRUE] /\ talks' = [talks EXCEPT ![p] = talk]
    BY <2>1
  <2>3. TalkWith(talk, port[p])
    BY <2>1, <2>2 DEF TalkWith, SessionWith
  <2>4. LinesInv'
    BY <2>1, NothingFor DEF LinesInv
  <2> QED
    BY <2>1, <2>2, <2>3, <2>4, TalksKnow
<1>11. ASSUME NEW p \in Path, Plugged!asksToAdopt(p) PROVE KnownInv' /\ LinesInv'
  <2>1. UNCHANGED <<port, lines>>
    BY <1>11 DEF Plugged!asksToAdopt
  <2> QED
    BY <1>1, <1>11, <2>1, AsksToAdoptKnows
<1>12. ASSUME NEW p \in Path, Plugged!Unplugs(p) PROVE KnownInv' /\ LinesInv'
  <2>1. port' = [port EXCEPT ![p] = NoValue] /\ lines' = [lines EXCEPT ![p] = <<>>] /\ DOMAIN port = Path
    BY <1>12 DEF Plugged!Unplugs, KnownInv
  <2>2. LinesInv'
    BY <2>1, NothingFor DEF LinesInv
  <2> QED
    BY <1>12, <2>2, UnplugsKnows
<1>13. ASSUME NEW p \in Path, Plugged!FallsAsleep(p) PROVE KnownInv' /\ LinesInv'
  BY <1>1, <1>2, <1>13 DEF Plugged!FallsAsleep
<1>14. ASSUME NEW p \in Path, NEW c, Plugged!chooseColor(p, c) PROVE KnownInv' /\ LinesInv'
  <2>1. UNCHANGED <<port, lines>>
    BY <1>14 DEF Plugged!chooseColor
  <2> QED
    BY <1>1, <1>14, <2>1, ChoosesKnow
<1>15. ASSUME NEW p \in Path, NEW b, Plugged!PlugsIn(p, b) PROVE KnownInv' /\ LinesInv'
  <2>1. port[p] = NoValue /\ port' = [port EXCEPT ![p] = b] /\ UNCHANGED lines /\ DOMAIN port = Path
    BY <1>15 DEF Plugged!PlugsIn, KnownInv
  <2>2. lines[p] = <<>>
    BY <2>1 DEF LinesInv
  <2>3. LinesInv'
    BY <2>1, <2>2, NothingFor DEF LinesInv
  <2> QED
    BY <1>15, <2>3, PlugsInKnows
<1> QED
  BY <1>3, <1>4, <1>5, <1>6, <1>7, <1>8, <1>9, <1>10, <1>11, <1>12, <1>13, <1>14, <1>15 DEF Plugged!ProvisioningNext

\* A color that the master chose is given to the buzzer it was chosen for, if none is replaced between two looks
\* for ports: whatever is plugged in and out, answers twice, too late or never (notifyUsbBuzzersChanged,
\* buzzer-provisioning.service.ts adopt).
THEOREM ColorsFindBuzzers ==
  NoValue \notin Keeping /\ Swift = FALSE => (Plugged!ProvisioningSpec => []ColorForItsBuzzer)
<1> SUFFICES ASSUME NoValue \notin Keeping, Swift = FALSE
             PROVE  Plugged!ProvisioningSpec => []ColorForItsBuzzer
  OBVIOUS
<1>1. Plugged!ProvisioningInit => KnownInv /\ LinesInv
  <2> SUFFICES ASSUME Plugged!ProvisioningInit PROVE KnownInv /\ LinesInv
    OBVIOUS
  <2>1. \A b : EntryOf(NoValue, b) /\ TalkWith(NoValue, b) /\ ChoiceOf(NoValue, NoValue, b)
    BY DEF EntryOf, TalkWith, ChoiceOf
  <2>2. \A r : <<>> # <<r>>
    OBVIOUS
  <2>3. KnownInv
    BY <2>1, <2>2 DEF KnownInv, Plugged!ProvisioningInit
  <2>4. LinesInv
    BY NothingFor DEF LinesInv, Plugged!ProvisioningInit
  <2> QED
    BY <2>3, <2>4
<1>2. KnownInv /\ LinesInv /\ [Plugged!ProvisioningNext]_(Plugged!provisioning) => KnownInv' /\ LinesInv'
  BY PluggedStep
<1>3. LinesInv => ColorForItsBuzzer
  <2> SUFFICES ASSUME LinesInv, NEW p \in Path, lines[p] # <<>>, Head(lines[p]).color # NoValue
               PROVE  Head(lines[p]).for = port[p]
    BY DEF ColorForItsBuzzer, Plugged!ColorForItsBuzzer
  <2>1. IsFor(Head(lines[p]), port[p])
    BY ForTail DEF LinesInv
  <2> QED
    BY <2>1 DEF IsFor
<1> QED
  BY <1>1, <1>2, <1>3, PTL DEF Plugged!ProvisioningSpec

=============================================================================
