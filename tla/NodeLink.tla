------------------------------ MODULE NodeLink ------------------------------
(***************************************************************************)
(* What the transport pool promises about one url or local node: every     *)
(* dial by the registry makes one link.  A link is dialed, it may come up, *)
(* it ends, and after every end there is exactly one wait before the next  *)
(* dial.  A link is never given up, and none appears by itself.            *)
(***************************************************************************)
EXTENDS Naturals

CONSTANT MaxDials   \* the dials by the registry

VARIABLES
  links,   \* how many links are at each stage
  dials    \* the dials made

Stages == {"dialing", "up", "closing", "waiting"}

Init == links = [g \in Stages |-> 0] /\ dials = 0

Move(from, to) ==
  /\ links[from] > 0
  /\ links' = [links EXCEPT ![from] = @ - 1, ![to] = @ + 1]
  /\ UNCHANGED dials

(* registry.connect *)
Dial ==
  /\ dials < MaxDials
  /\ dials' = dials + 1
  /\ links' = [links EXCEPT !["dialing"] = @ + 1]

(* a reconnect timer *)
Redial == Move("waiting", "dialing")

(* the gateway accepts the handshake *)
Establish == Move("dialing", "up")

(* this side ends it: a handshake timeout, a protocol error *)
HangUp == \E from \in {"dialing", "up"} : Move(from, "closing")

(* the close event *)
Lose == \E from \in {"dialing", "up", "closing"} : Move(from, "waiting")

Next == Dial \/ Redial \/ Establish \/ HangUp \/ Lose

Spec == Init /\ [][Next]_<<links, dials>>
=============================================================================
