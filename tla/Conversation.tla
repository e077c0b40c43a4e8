---------------------------- MODULE Conversation ----------------------------
(***************************************************************************)
(* What a chat bridge promises of its conversations: each remembers the    *)
(* last turns that were answered in it, whole and in the order of the      *)
(* answers, until its user asks to forget them or it has been idle for too *)
(* long.  A turn is remembered at once or not at all.                      *)
(***************************************************************************)
EXTENDS Naturals, Sequences

CONSTANTS
  Key, Message,   \* conversations of a user, and the messages of the users
  MaxTurns,       \* turns that are remembered
  Expire          \* how long a conversation may be idle

VARIABLES
  turns,     \* per conversation: the messages that were answered, oldest first
  idle,      \* per conversation: the time since it was last active
  answered,  \* messages that were answered
  obeyed     \* commands to forget that were obeyed

Init ==
  /\ turns = [k \in Key |-> <<>>]
  /\ idle = [k \in Key |-> 0]
  /\ answered = {} /\ obeyed = {}

Remembered(k) == IF idle[k] > Expire THEN <<>> ELSE turns[k]

LastTurns(s) == IF Len(s) > MaxTurns THEN SubSeq(s, Len(s) - MaxTurns + 1, Len(s)) ELSE s

Answer(m, k) ==
  /\ m \notin answered \union obeyed
  /\ answered' = answered \union {m}
  /\ UNCHANGED obeyed
  /\ turns' = [turns EXCEPT ![k] = LastTurns(Append(Remembered(k), m))]
  /\ idle' = [idle EXCEPT ![k] = 0]

(* The command to begin anew. *)
Forget(m, k) ==
  /\ m \notin answered \union obeyed
  /\ obeyed' = obeyed \union {m}
  /\ UNCHANGED answered
  /\ turns' = [turns EXCEPT ![k] = <<>>]
  /\ idle' = [idle EXCEPT ![k] = 0]

(* Conversations that have been idle for too long lapse, some at a time.   *)
Lapse(K) ==
  /\ \A k \in K : idle[k] > Expire
  /\ turns' = [k \in Key |-> IF k \in K THEN <<>> ELSE turns[k]]
  /\ idle' = [k \in Key |-> IF k \in K THEN 0 ELSE idle[k]]
  /\ UNCHANGED <<answered, obeyed>>

Pass ==
  /\ \A k \in Key : idle'[k] \in {idle[k], idle[k] + 1}
  /\ DOMAIN idle' = Key
  /\ UNCHANGED <<turns, answered, obeyed>>

Next ==
  \/ Pass
  \/ \E K \in SUBSET Key : Lapse(K)
  \/ \E k \in Key, m \in Message : Answer(m, k) \/ Forget(m, k)

Spec == Init /\ [][Next]_<<turns, idle, answered, obeyed>>
=============================================================================
