-------------------------- MODULE MCContextBroker --------------------------
(* Instances of ContextBroker for TLC. *)
EXTENDS ContextBroker, TLC

Q(n, t, s, l) == [node |-> n, type |-> t, session |-> s, agent |-> <<>>, limit |-> l]
History(s, l) == Q(<<"a">>, "session_history", s, l)

(* Queries of "context history" and "context sessions", and a user profile. *)
(* A session whose name has a colon and a limit of 0 shares the key of     *)
(* another session; the other keys are their queries' own.                 *)
MCQuery ==
  {History(<<"main">>, <<"10">>), History(<<"main", "10">>, Zero),
   Q(<<"ab">>, "session_list", <<>>, <<>>), Q(<<"a">>, "user_profile", <<>>, <<>>)}

(* And further queries of the commands that share a key: a limit of 0 and  *)
(* one that is no number, which is absent when it gets to the daemon.      *)
MCSharedQuery == MCQuery \cup {History(<<"main">>, Zero), History(<<"main">>, <<>>)}

MCPrefixOf ==
  [part \in {"a", "ab", "main"} |-> IF part = "a" THEN {"a", "ab"} ELSE {part}]

ClientSymmetry == Permutations(Client)
=============================================================================
