--------------------------- MODULE MCMasterPages ---------------------------
EXTENDS MasterPages

CONSTANTS p1, p2, a1, a2, b1, b2, t1, t2, loud

Devices == a1 :> "phone" @@ a2 :> "phone" @@ b1 :> "tablet"
TwoEach == p1 :> {a1, a2} @@ p2 :> {b1}
ASSUME TabsAssumption == OneTabEach

Silent == [q \in Question |-> NoMedia]
NoAnswers == [q \in Question |-> {}]
NoMediaOnly == {NoMedia}

\* of a packet, what a page goes by
Seen(m) == IF m.type = "RESPONSE_PACKET" THEN <<m.type, m.responseTo, m.wasSuccessful>> ELSE <<m.type>>

\* what the steps of a page and of the server go by, apart from the game, which nothing here reads
V == <<state, IF state = "LOST_MASTER" THEN previous ELSE None, resumesRunningGame, seat, page, waiting,
       toServer, [c \in MasterConn |-> [i \in DOMAIN toPage[c] |-> Seen(toPage[c][i])]],
       broken, dropped, trouble>>
=============================================================================
