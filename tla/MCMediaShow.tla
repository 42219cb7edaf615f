---------------------------- MODULE MCMediaShow ----------------------------
(***************************************************************************)
(* Three instances: a video on two screens, two videos one after another,  *)
(* and an image or a slideshow with what can be toggled.                   *)
(***************************************************************************)
EXTENDS MediaShow, TLC

CONSTANTS s1, s2, m1

VARIABLE instance

Kinds == 0 :> "video" @@ 1 :> "video" @@ 2 :> "image" @@ 3 :> "slideshow"
Playing == [NoMedia EXCEPT !.state = "PLAYING"]
Configs == [q \in DOMAIN Kinds |-> IF q = 1 THEN [Playing EXCEPT !.answers = "SHOWN"] ELSE Playing]

Shown == CASE instance = "screens" -> {1} [] instance = "questions" -> {0, 1} [] instance = "pictures" -> {2, 3}

\* what the master never sends in an instance
Sent(never(_)) == \E i \in DOMAIN toServer'[Master] : never(toServer'[Master][i])
Turns(packet) == packet.type = "SET_QUESTION" /\ (instance # "questions" \/ packet.question \notin Shown)
Toggles(packet) ==
  /\ packet.type = "UPDATE_MEDIA_STATE"
  /\ \/ packet.media.answers = "HIDDEN"
     \/ server.question # 2 /\ packet.media.question = "HIDDEN"
     \/ instance # "pictures" /\ packet.media.fullscreen
     \/ instance = "screens" /\ packet.media.state \in {"HIDDEN", "PAUSED", "RESET"}

MCInit ==
  /\ MediaInit
  /\ instance \in {"screens", "questions", "pictures"}
  /\ server.question \in Shown
MCNext ==
  /\ MediaNext
  /\ ~Sent(Turns) /\ ~Sent(Toggles)
  /\ instance # "screens" => s2 \notin server'.connected
  /\ instance = "screens" => server.connected \subseteq server'.connected
  /\ UNCHANGED instance
MCSpec == MCInit /\ [][MCNext]_<<show, instance>> /\ Fairness
=============================================================================
