------------------------------ MODULE MCBridge ------------------------------
(* Instances of Bridge for TLC, and short replies for splitMessage. *)
EXTENDS Bridge, SplitMessage

(* Messages are alike, and no liveness is checked. *)
MessageSymmetry == Permutations(Message)

(* All replies of up to seven characters, and the limits they are cut at. *)
Replies == UNION {[1..n -> Char] : n \in 0..7}
Limits  == {3, 4}

RepliesSplitWell == \A reply \in Replies, maxLength \in Limits : SplitsWell(reply, maxLength)
RepliesFit       == \A reply \in Replies, maxLength \in Limits : SplitsFit(reply, maxLength)

(* Whatever is replied, the pieces that are sent hold it, in its order.    *)
SplitSound == \A m \in Message : pc[m] = "replying" => RepliesSplitWell

(* Whatever is replied, no piece exceeds the limit of the platform: what   *)
(* splitMessage is said to be for (utils.ts).                              *)
PiecesFit == \A m \in Message : pc[m] = "replying" => RepliesFit
=============================================================================
