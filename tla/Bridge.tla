------------------------------- MODULE Bridge -------------------------------
(***************************************************************************)
(* The chat bridges: the session store they share the code of, and the     *)
(* handlers of their webhooks.  Every message has a handler of its own,    *)
(* which is suspended while the token of Feishu is fetched and while the   *)
(* daemon is asked, so that the messages of one conversation, commands     *)
(* among them, overtake each other there.  An action is what a handler     *)
(* does between two such waits.                                            *)
(*                                                                         *)
(* The two bridges are processes of their own.  They are modelled together *)
(* as conversations with and without a token.                              *)
(***************************************************************************)
EXTENDS Integers, Sequences

CONSTANTS
  DingTalk, Feishu,   \* the conversations of the two bridges
  Message,            \* webhook calls that pass the policies of the channel
  MaxTurns,           \* maxHistoryTurns
  Expire,             \* expireDays, in units of the clock
  Life, Margin        \* the life of a token, and the 60 s that are taken from it

ASSUME BridgeAssumption ==
  /\ DingTalk \intersect Feishu = {}
  /\ MaxTurns \in Nat \ {0} /\ Expire \in Nat
  /\ Life \in Nat /\ Margin \in Nat

Key == DingTalk \union Feishu

VARIABLES
  sessions,   \* SessionStore.sessions: of each key in it the history and idle time
  pc,         \* per message: "none", "fetching", "asking", "replying", "done"
  text,       \* per message: what it says
  key,        \* per message: its conversation
  outcome,    \* per message: "none", "answered", "forgot"
  cached,     \* cachedToken: the time it is still used for, its age, and the delay it came with
  held,       \* per message: the age of the token it holds
  delay       \* per message: the wait for the token, and how long it is held

sessionVars == <<sessions, outcome>>
tokenVars == <<cached, held, delay>>
bridgeVars == <<sessionVars, tokenVars, pc, text, key>>

Entry == [role : {"user", "assistant"}, message : Message]

(* What an answered message adds to a history.                             *)
Turn(m) == <<[role |-> "user", message |-> m], [role |-> "assistant", message |-> m]>>

(* What a message says: a command, an unknown one included, or other words. *)
Words == {"words", "/new", "/clear", "/help"}

NoToken == [left |-> 0, age |-> 0, delay |-> 0]

(* Times beyond these make no difference.                                  *)
Long == Margin + 1

Within(t, most) == IF t < most THEN t ELSE most

TypeOK ==
  /\ DOMAIN sessions \subseteq Key
  /\ \A k \in DOMAIN sessions :
       /\ sessions[k] \in [history : Seq(Entry), idle : 0..(Expire + 1)]
       /\ Len(sessions[k].history) <= 2 * MaxTurns
  /\ pc \in [Message -> {"none", "fetching", "asking", "replying", "done"}]
  /\ text \in [Message -> {"none"} \union Words]
  /\ key \in [Message -> Key]
  /\ outcome \in [Message -> {"none", "answered", "forgot"}]
  /\ cached \in [left : Nat, age : 0..Life, delay : 0..Long]
  /\ held \in [Message -> 0..Life] /\ delay \in [Message -> 0..Long]

Init ==
  /\ sessions = <<>>
  /\ pc = [m \in Message |-> "none"]
  /\ text = [m \in Message |-> "none"]
  /\ key = [m \in Message |-> CHOOSE k \in Key : TRUE]
  /\ outcome = [m \in Message |-> "none"]
  /\ cached = NoToken
  /\ held = [m \in Message |-> 0]
  /\ delay = [m \in Message |-> 0]

-----------------------------------------------------------------------------
(* SessionStore, as functions of the store.                                *)
NewSession == [history |-> <<>>, idle |-> 0]

Without(store, k) == [j \in DOMAIN store \ {k} |-> store[j]]

With(store, k, session) == [j \in DOMAIN store \union {k} |-> IF j = k THEN session ELSE store[j]]

(* get deletes a session that has expired.                                 *)
AfterGet(store, k) ==
  IF k \in DOMAIN store /\ store[k].idle > Expire THEN Without(store, k) ELSE store

getOrCreate(store, k) ==
  IF k \in DOMAIN AfterGet(store, k) THEN store ELSE With(store, k, NewSession)

addHistory(store, k, entries) ==
  LET history == getOrCreate(store, k)[k].history \o entries
      surplus == Len(history) - 2 * MaxTurns
  IN  With(store, k, [history |-> IF surplus > 0 THEN SubSeq(history, surplus + 1, Len(history))
                                  ELSE history,
                      idle |-> 0])

clearHistory(store, k) ==
  IF k \in DOMAIN AfterGet(store, k) THEN With(store, k, NewSession) ELSE AfterGet(store, k)

-----------------------------------------------------------------------------
(* What a handler does once it needs no token or has one: a command is     *)
(* obeyed and answered, other words are asked with the session's history.  *)
Proceed(m, k, words) ==
  CASE words = "words" ->
         /\ sessions' = getOrCreate(sessions, k)
         /\ pc' = [pc EXCEPT ![m] = "asking"]
         /\ UNCHANGED outcome
    [] words = "/new" ->
         /\ sessions' = Without(sessions, k)
         /\ pc' = [pc EXCEPT ![m] = "replying"]
         /\ outcome' = [outcome EXCEPT ![m] = "forgot"]
    [] words = "/clear" ->
         /\ sessions' = clearHistory(sessions, k)
         /\ pc' = [pc EXCEPT ![m] = "replying"]
         /\ outcome' = [outcome EXCEPT ![m] = "forgot"]
    [] OTHER ->
         /\ pc' = [pc EXCEPT ![m] = "replying"]
         /\ UNCHANGED sessionVars

(* processDingTalkMessage and processFeishuMessage, up to the first wait.  *)
(* getTenantAccessToken returns the cached token while it is used.         *)
Receive(m, k, words) ==
  /\ pc[m] = "none"
  /\ text' = [text EXCEPT ![m] = words]
  /\ key' = [key EXCEPT ![m] = k]
  /\ IF k \in Feishu /\ cached.left = 0
     THEN /\ pc' = [pc EXCEPT ![m] = "fetching"]
          /\ UNCHANGED <<sessionVars, tokenVars>>
     ELSE /\ Proceed(m, k, words)
          /\ IF k \in Feishu
             THEN /\ delay' = [delay EXCEPT ![m] = cached.delay]
                  /\ held' = [held EXCEPT ![m] = cached.age]
             ELSE UNCHANGED <<delay, held>>
          /\ UNCHANGED cached

(* Mutant of TokenArrives: no time is taken from the life of the token. *)
TokenInFull(m) ==
  /\ pc[m] = "fetching"
  /\ \E age \in 0..delay[m] :
       /\ cached' = [left |-> Life, age |-> Within(age, Life), delay |-> age]
       /\ delay' = [delay EXCEPT ![m] = age]
       /\ held' = [held EXCEPT ![m] = Within(age, Life)]
  /\ Proceed(m, key[m], text[m])
  /\ UNCHANGED <<text, key>>

(* The token was issued some time before it arrives.                       *)
TokenArrives(m) ==
  /\ pc[m] = "fetching"
  /\ \E age \in 0..delay[m] :
       /\ cached' = [left |-> IF Life > Margin THEN Life - Margin ELSE 0,
                     age |-> Within(age, Life), delay |-> age]
       /\ delay' = [delay EXCEPT ![m] = age]
       /\ held' = [held EXCEPT ![m] = Within(age, Life)]
  /\ Proceed(m, key[m], text[m])
  /\ UNCHANGED <<text, key>>

(* Without a token the message is dropped, and nobody told.                *)
TokenFails(m) ==
  /\ pc[m] = "fetching"
  /\ pc' = [pc EXCEPT ![m] = "done"]
  /\ UNCHANGED <<sessionVars, tokenVars, text, key>>

(* Mutant of Answered: the answer is kept in the session that was there    *)
(* when the message was asked, and lost if that has been deleted.          *)
AnsweredInOld(m) ==
  /\ pc[m] = "asking"
  /\ pc' = [pc EXCEPT ![m] = "replying"]
  /\ outcome' = [outcome EXCEPT ![m] = "answered"]
  /\ sessions' = IF key[m] \in DOMAIN sessions
                 THEN addHistory(sessions, key[m], Turn(m))
                 ELSE sessions
  /\ UNCHANGED <<tokenVars, text, key>>

(* The daemon has answered: the history gets both entries, in the session  *)
(* that is there by now, and the reply is sent.                            *)
Answered(m) ==
  /\ pc[m] = "asking"
  /\ pc' = [pc EXCEPT ![m] = "replying"]
  /\ outcome' = [outcome EXCEPT ![m] = "answered"]
  /\ sessions' = addHistory(sessions, key[m], Turn(m))
  /\ UNCHANGED <<tokenVars, text, key>>

(* The daemon cannot be reached or refuses: the error is the reply.        *)
AskFails(m) ==
  /\ pc[m] = "asking"
  /\ pc' = [pc EXCEPT ![m] = "replying"]
  /\ UNCHANGED <<sessionVars, tokenVars, text, key>>

(* The reply has been sent, in pieces at DingTalk, or one of them failed,  *)
(* which ends it and is told to nobody.                                    *)
Replied(m) ==
  /\ pc[m] = "replying"
  /\ pc' = [pc EXCEPT ![m] = "done"]
  /\ UNCHANGED <<sessionVars, tokenVars, text, key>>

(* cleanup of the store of one bridge, which nothing calls yet.            *)
Cleanup(bridge) ==
  /\ sessions' = [k \in {j \in DOMAIN sessions : j \in bridge => sessions[j].idle <= Expire} |->
                    sessions[k]]
  /\ UNCHANGED <<outcome, tokenVars, pc, text, key>>

(* Date.now of the bridge and of Feishu.                                   *)
Tick ==
  /\ sessions' = [k \in DOMAIN sessions |->
                    [sessions[k] EXCEPT !.idle = Within(@ + 1, Expire + 1)]]
  /\ cached' = IF cached.left <= 1 THEN NoToken
               ELSE [cached EXCEPT !.left = @ - 1, !.age = Within(@ + 1, Life)]
  /\ delay' = [m \in Message |->
                 IF pc[m] \in {"fetching", "asking"} /\ key[m] \in Feishu
                 THEN Within(delay[m] + 1, Long) ELSE delay[m]]
  /\ held' = [m \in Message |->
                IF pc[m] = "asking" /\ key[m] \in Feishu THEN Within(held[m] + 1, Life) ELSE held[m]]
  /\ UNCHANGED <<outcome, pc, text, key>>

Next ==
  \/ Tick \/ Cleanup(DingTalk) \/ Cleanup(Feishu)
  \/ \E m \in Message :
       \/ TokenArrives(m) \/ TokenFails(m) \/ Answered(m) \/ AskFails(m) \/ Replied(m)
       \/ \E k \in Key, words \in Words : Receive(m, k, words)

Spec == Init /\ [][Next]_bridgeVars

-----------------------------------------------------------------------------
(* The bridge implements Conversation: however handlers and commands       *)
(* overlap, a history holds the last turns that were answered, each whole, *)
(* and nothing but a command or the expiry takes any away.                 *)
TurnsOf(h) ==
  [i \in 1..((Len(h) + 1) \div 2) |->
     IF 2 * i <= Len(h) /\ <<h[2 * i - 1], h[2 * i]>> = Turn(h[2 * i].message)
     THEN h[2 * i].message ELSE "torn"]

Turns(k) == IF k \in DOMAIN sessions THEN TurnsOf(sessions[k].history) ELSE <<>>

Idle(k) == IF k \in DOMAIN sessions THEN sessions[k].idle ELSE 0

remembered == [k \in Key |-> Turns(k)]
idleTimes  == [k \in Key |-> Idle(k)]
answered   == {m \in Message : outcome[m] = "answered"}
obeyed     == {m \in Message : outcome[m] = "forgot"}

Kept == INSTANCE Conversation WITH turns <- remembered, idle <- idleTimes

ConversationSpec == Kept!Spec

(* A reply to Feishu carries a token that is still valid, if the fetch of  *)
(* the token and the time the handler has held it, the wait for the daemon *)
(* included, stay within the margin that is taken from its life.           *)
TokenValid ==
  \A m \in Message :
    pc[m] = "replying" /\ key[m] \in Feishu /\ delay[m] <= Margin /\ Margin < Life =>
      held[m] < Life

(* What makes both inductive: the age of a token and the time it has left  *)
(* never exceed its life by more than its delay; no handler has had its    *)
(* effect before it answers or obeys; and histories are whole turns.       *)
Represents(h, ts) ==
  /\ Len(h) = 2 * Len(ts)
  /\ \A i \in 1..Len(ts) : h[2 * i - 1] = Turn(ts[i])[1] /\ h[2 * i] = Turn(ts[i])[2]

TokenInv ==
  Margin < Life =>
    /\ cached.left > 0 => cached.age + cached.left + Margin <= Life + cached.delay
    /\ \A m \in Message :
         pc[m] \in {"asking", "replying"} /\ key[m] \in Feishu /\ delay[m] <= Margin =>
           held[m] + Margin < Life + delay[m]

HandlerInv ==
  \A m \in Message :
    /\ pc[m] \in {"none", "fetching", "asking"} => outcome[m] = "none"
    /\ pc[m] = "fetching" => text[m] \in Words

HistoryInv ==
  \A k \in DOMAIN sessions : Represents(sessions[k].history, TurnsOf(sessions[k].history))

BridgeInv == TypeOK /\ TokenInv /\ HandlerInv /\ HistoryInv
=============================================================================
