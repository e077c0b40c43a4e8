---------------------------- MODULE Bridge_proofs ----------------------------
(***************************************************************************)
(* Theorems about the chat bridges, for every set of conversations and     *)
(* messages, every length of the history and every life of a token, and    *)
(* about splitMessage, for every reply and every length of its pieces.     *)
(***************************************************************************)
EXTENDS MCBridge, SequenceTheorems, WellFoundedInduction, TLAPS

LEMMA TurnType ==
  ASSUME NEW m \in Message
  PROVE  Turn(m) \in Seq(Entry) /\ Len(Turn(m)) = 2
BY DEF Turn, Entry

LEMMA NewSessionType == NewSession \in [history : Seq(Entry), idle : 0..(Expire + 1)]
<1>1. <<>> \in Seq(Entry) /\ 0 \in 0..(Expire + 1)
  BY BridgeAssumption
<1>2. QED
  BY <1>1 DEF NewSession

-----------------------------------------------------------------------------
(* Histories that are whole turns.                                         *)

(* The turns of a history that represents some are these.                  *)
LEMMA TurnsOfHistory ==
  ASSUME NEW ts \in Seq(Message), NEW h \in Seq(Entry), Represents(h, ts)
  PROVE  TurnsOf(h) = ts
<1>1. Len(ts) \in Nat /\ Len(h) = 2 * Len(ts)
  BY DEF Represents
<1>2. (Len(h) + 1) \div 2 = Len(ts)
  BY <1>1
<1>3. ASSUME NEW i \in 1..Len(ts) PROVE TurnsOf(h)[i] = ts[i]
  <2>1. 2 * i <= Len(h) /\ i \in 1..((Len(h) + 1) \div 2)
    BY <1>1, <1>2, <1>3
  <2>2. h[2 * i - 1] = Turn(ts[i])[1] /\ h[2 * i] = Turn(ts[i])[2]
    BY <1>3 DEF Represents
  <2>3. h[2 * i].message = ts[i] /\ <<h[2 * i - 1], h[2 * i]>> = Turn(ts[i])
    BY <2>2 DEF Turn
  <2>4. QED
    BY <2>1, <2>3 DEF TurnsOf
<1>4. TurnsOf(h) = [i \in 1..Len(ts) |-> TurnsOf(h)[i]]
  BY <1>2 DEF TurnsOf
<1>5. ts = [i \in 1..Len(ts) |-> ts[i]]
  OBVIOUS
<1>6. QED
  BY <1>3, <1>4, <1>5

LEMMA AddTurn ==
  ASSUME NEW ts \in Seq(Message), NEW h \in Seq(Entry), Represents(h, ts), NEW m \in Message
  PROVE  /\ h \o Turn(m) \in Seq(Entry)
         /\ Len(h \o Turn(m)) = Len(h) + 2
         /\ Represents(h \o Turn(m), Append(ts, m))
<1> DEFINE g == h \o Turn(m)
           us == Append(ts, m)
<1>1. /\ Len(h) = 2 * Len(ts) /\ Len(ts) \in Nat /\ us \in Seq(Message)
      /\ Len(us) = Len(ts) + 1
      /\ \A i \in 1..Len(ts) : us[i] = ts[i]
      /\ us[Len(ts) + 1] = m
  BY DEF Represents
<1>2. /\ g \in Seq(Entry) /\ Len(g) = Len(h) + 2
      /\ \A i \in 1..Len(h) : g[i] = h[i]
      /\ g[Len(h) + 1] = Turn(m)[1] /\ g[Len(h) + 2] = Turn(m)[2]
  <2>1. Turn(m) \in Seq(Entry) /\ Len(Turn(m)) = 2
    BY TurnType
  <2>2. /\ g \in Seq(Entry) /\ Len(g) = Len(h) + Len(Turn(m))
        /\ \A i \in 1..(Len(h) + Len(Turn(m))) :
             g[i] = IF i <= Len(h) THEN h[i] ELSE Turn(m)[i - Len(h)]
    BY <2>1, ConcatProperties
  <2>3. Len(h) \in Nat
    OBVIOUS
  <2> HIDE DEF g
  <2>4. ASSUME NEW j \in 1..2 PROVE g[Len(h) + j] = Turn(m)[j]
    <3>1. /\ Len(h) + j \in 1..(Len(h) + Len(Turn(m)))
          /\ ~ (Len(h) + j <= Len(h)) /\ Len(h) + j - Len(h) = j
      BY <2>1, <2>3
    <3>2. QED
      BY <2>2, <3>1
  <2>5. QED
    BY <2>1, <2>2, <2>3, <2>4
<1> HIDE DEF g, us
<1>3. ASSUME NEW i \in 1..Len(us)
      PROVE  g[2 * i - 1] = Turn(us[i])[1] /\ g[2 * i] = Turn(us[i])[2]
  <2>1. CASE i = Len(ts) + 1
    <3>1. 2 * i - 1 = Len(h) + 1 /\ 2 * i = Len(h) + 2
      BY <1>1, <2>1
    <3>2. QED
      BY <1>1, <1>2, <2>1, <3>1
  <2>2. CASE i \in 1..Len(ts)
    <3>1. 2 * i - 1 \in 1..Len(h) /\ 2 * i \in 1..Len(h)
      BY <1>1, <2>2
    <3>2. h[2 * i - 1] = Turn(ts[i])[1] /\ h[2 * i] = Turn(ts[i])[2]
      BY <2>2 DEF Represents
    <3>3. QED
      BY <1>1, <1>2, <2>2, <3>1, <3>2
  <2>3. QED
    BY <1>1, <2>1, <2>2
<1>4. QED
  BY <1>1, <1>2, <1>3 DEF g, us, Represents

(* Cutting a history to the last n turns.                                  *)
LEMMA CutTurns ==
  ASSUME NEW ts \in Seq(Message), NEW h \in Seq(Entry), Represents(h, ts),
         NEW n \in Nat, n < Len(ts)
  PROVE  LET g  == SubSeq(h, Len(h) - 2 * n + 1, Len(h))
             us == SubSeq(ts, Len(ts) - n + 1, Len(ts))
         IN  g \in Seq(Entry) /\ Len(g) = 2 * n /\ us \in Seq(Message) /\ Represents(g, us)
<1> DEFINE g == SubSeq(h, Len(h) - 2 * n + 1, Len(h))
           us == SubSeq(ts, Len(ts) - n + 1, Len(ts))
<1>1. Len(h) = 2 * Len(ts) /\ Len(ts) \in Nat /\ Len(h) \in Nat
  BY DEF Represents
<1>2. /\ us \in Seq(Message) /\ Len(us) = n
      /\ \A i \in 1..n : us[i] = ts[Len(ts) - n + i]
  <2>1. \A i \in (Len(ts) - n + 1)..Len(ts) : ts[i] \in Message
    BY <1>1
  <2>2. /\ us \in Seq(Message)
        /\ Len(us) = IF Len(ts) - n + 1 <= Len(ts) THEN Len(ts) - (Len(ts) - n + 1) + 1 ELSE 0
        /\ \A i \in 1..(Len(ts) - (Len(ts) - n + 1) + 1) : us[i] = ts[Len(ts) - n + 1 + i - 1]
    BY <1>1, <2>1, SubSeqProperties
  <2>3. QED
    BY <1>1, <2>2
<1>3. /\ g \in Seq(Entry) /\ Len(g) = 2 * n
      /\ \A i \in 1..(2 * n) : g[i] = h[Len(h) - 2 * n + i]
  <2>1. \A i \in (Len(h) - 2 * n + 1)..Len(h) : h[i] \in Entry
    BY <1>1
  <2>2. /\ g \in Seq(Entry)
        /\ Len(g) = IF Len(h) - 2 * n + 1 <= Len(h) THEN Len(h) - (Len(h) - 2 * n + 1) + 1 ELSE 0
        /\ \A i \in 1..(Len(h) - (Len(h) - 2 * n + 1) + 1) : g[i] = h[Len(h) - 2 * n + 1 + i - 1]
    BY <1>1, <2>1, SubSeqProperties
  <2>3. QED
    BY <1>1, <2>2
<1> HIDE DEF g, us
<1>4. ASSUME NEW i \in 1..Len(us)
      PROVE  g[2 * i - 1] = Turn(us[i])[1] /\ g[2 * i] = Turn(us[i])[2]
  <2> DEFINE j == Len(ts) - n + i
  <2>1. /\ j \in 1..Len(ts) /\ us[i] = ts[j]
        /\ 2 * i - 1 \in 1..(2 * n) /\ 2 * i \in 1..(2 * n)
        /\ Len(h) - 2 * n + (2 * i - 1) = 2 * j - 1 /\ Len(h) - 2 * n + 2 * i = 2 * j
    BY <1>1, <1>2, <1>4
  <2>2. g[2 * i - 1] = h[2 * j - 1] /\ g[2 * i] = h[2 * j]
    BY <1>3, <2>1
  <2>3. h[2 * j - 1] = Turn(ts[j])[1] /\ h[2 * j] = Turn(ts[j])[2]
    BY <2>1 DEF Represents
  <2>4. QED
    BY <2>1, <2>2, <2>3
<1>5. QED
  BY <1>2, <1>3, <1>4 DEF g, us, Represents

LEMMA WholeTurns ==
  ASSUME NEW h \in Seq(Entry), Represents(h, TurnsOf(h))
  PROVE  TurnsOf(h) \in Seq(Message)
<1> DEFINE n == (Len(h) + 1) \div 2
           ts == TurnsOf(h)
<1>1. n \in Nat /\ ts = [i \in 1..n |-> ts[i]] /\ Len(ts) = n
  BY DEF TurnsOf
<1>2. ASSUME NEW i \in 1..n PROVE ts[i] \in Message
  <2>1. h[2 * i] = Turn(ts[i])[2] /\ 2 * i \in 1..Len(h)
    <3>1. Represents(h, ts) /\ i \in 1..Len(ts)
      BY <1>1
    <3> HIDE DEF n, ts
    <3>2. Len(h) = 2 * Len(ts) /\ Len(ts) \in Nat /\ h[2 * i] = Turn(ts[i])[2]
      BY <1>1, <3>1 DEF Represents
    <3>3. QED
      BY <3>1, <3>2
  <2>2. h[2 * i] \in Entry /\ h[2 * i].message = ts[i]
    BY <2>1 DEF Turn
  <2>3. QED
    BY <2>2 DEF Entry
<1> HIDE DEF n, ts
<1>3. ts \in [1..n -> Message]
  BY <1>1, <1>2
<1>4. QED
  BY <1>1, <1>3 DEF ts

-----------------------------------------------------------------------------
(* The session store.                                                      *)
SessionOK(s) ==
  /\ s \in [history : Seq(Entry), idle : 0..(Expire + 1)]
  /\ Len(s.history) <= 2 * MaxTurns
  /\ Represents(s.history, TurnsOf(s.history))

StoreOK(store) == DOMAIN store \subseteq Key /\ \A k \in DOMAIN store : SessionOK(store[k])

LEMMA NewSessionOK == SessionOK(NewSession) /\ TurnsOf(NewSession.history) = <<>>
<1>1. <<>> \in Seq(Entry) /\ <<>> \in Seq(Message) /\ Len(<<>>) = 0
  OBVIOUS
<1>2. Represents(<<>>, <<>>)
  BY <1>1 DEF Represents
<1>3. TurnsOf(<<>>) = <<>>
  BY <1>1, <1>2, TurnsOfHistory
<1>4. NewSession.history = <<>> /\ 0 <= 2 * MaxTurns
  BY BridgeAssumption DEF NewSession
<1>5. QED
  BY <1>1, <1>2, <1>3, <1>4, NewSessionType DEF SessionOK

LEMMA WithOK ==
  ASSUME NEW store, StoreOK(store), NEW k \in Key, NEW s, SessionOK(s)
  PROVE  /\ StoreOK(With(store, k, s))
         /\ DOMAIN With(store, k, s) = DOMAIN store \union {k}
         /\ With(store, k, s)[k] = s
         /\ \A j \in DOMAIN store \ {k} : With(store, k, s)[j] = store[j]
BY DEF StoreOK, With

LEMMA WithoutOK ==
  ASSUME NEW store, StoreOK(store), NEW k \in Key
  PROVE  /\ StoreOK(Without(store, k))
         /\ DOMAIN Without(store, k) = DOMAIN store \ {k}
         /\ \A j \in DOMAIN store \ {k} : Without(store, k)[j] = store[j]
BY DEF StoreOK, Without

(* The history that addHistory finds, as turns.                            *)
Found(store, k) ==
  IF k \in DOMAIN store /\ ~ (store[k].idle > Expire) THEN TurnsOf(store[k].history) ELSE <<>>

LEMMA GetOrCreate ==
  ASSUME NEW store, StoreOK(store), NEW k \in Key
  PROVE  /\ StoreOK(getOrCreate(store, k))
         /\ k \in DOMAIN getOrCreate(store, k)
         /\ TurnsOf(getOrCreate(store, k)[k].history) = Found(store, k)
         /\ IF k \in DOMAIN store /\ ~ (store[k].idle > Expire)
            THEN getOrCreate(store, k) = store
            ELSE getOrCreate(store, k) = With(store, k, NewSession)
<1>1. CASE k \in DOMAIN store /\ ~ (store[k].idle > Expire)
  <2>1. getOrCreate(store, k) = store
    BY <1>1 DEF getOrCreate, AfterGet
  <2>2. QED
    BY <1>1, <2>1 DEF Found
<1>2. CASE ~ (k \in DOMAIN store /\ ~ (store[k].idle > Expire))
  <2>1. k \notin DOMAIN AfterGet(store, k)
    BY <1>2, WithoutOK DEF AfterGet
  <2>2. getOrCreate(store, k) = With(store, k, NewSession)
    BY <2>1 DEF getOrCreate
  <2>3. Found(store, k) = <<>>
    BY <1>2 DEF Found
  <2>4. /\ StoreOK(With(store, k, NewSession))
        /\ k \in DOMAIN With(store, k, NewSession)
        /\ With(store, k, NewSession)[k] = NewSession
    <3>1. SessionOK(NewSession)
      BY NewSessionOK
    <3>2. /\ StoreOK(With(store, k, NewSession))
          /\ DOMAIN With(store, k, NewSession) = DOMAIN store \union {k}
          /\ With(store, k, NewSession)[k] = NewSession
      BY <3>1, WithOK
    <3>3. QED
      BY <3>2
  <2>5. QED
    BY <1>2, <2>2, <2>3, <2>4, NewSessionOK
<1>3. QED
  BY <1>1, <1>2

(* addHistory keeps the last turns, and all of each.                       *)
LEMMA AddHistory ==
  ASSUME NEW store, StoreOK(store), NEW k \in Key, NEW m \in Message
  PROVE  \E s : /\ SessionOK(s)
               /\ s.idle = 0
               /\ TurnsOf(s.history) = Kept!LastTurns(Append(Found(store, k), m))
               /\ addHistory(store, k, Turn(m)) = With(store, k, s)
<1> DEFINE h  == getOrCreate(store, k)[k].history
           ts == Found(store, k)
           g  == h \o Turn(m)
           us == Append(ts, m)
           surplus == Len(g) - 2 * MaxTurns
           kept == IF surplus > 0 THEN SubSeq(g, surplus + 1, Len(g)) ELSE g
<1>1. SessionOK(getOrCreate(store, k)[k]) /\ TurnsOf(h) = ts
  BY GetOrCreate DEF StoreOK
<1>2. h \in Seq(Entry) /\ Len(h) <= 2 * MaxTurns /\ Represents(h, ts)
  BY <1>1 DEF SessionOK
<1>3. ts \in Seq(Message)
  BY <1>1, <1>2, WholeTurns
<1>4. g \in Seq(Entry) /\ Len(g) = Len(h) + 2 /\ Represents(g, us)
  BY <1>2, <1>3, AddTurn
<1>5. us \in Seq(Message) /\ Len(g) = 2 * Len(us)
  BY <1>3, <1>4 DEF Represents
<1> HIDE DEF h, ts, g, us
<1>6. /\ kept \in Seq(Entry) /\ Len(kept) <= 2 * MaxTurns
      /\ Kept!LastTurns(us) \in Seq(Message)
      /\ Represents(kept, Kept!LastTurns(us))
  <2>1. CASE Len(us) > MaxTurns
    <3>1. surplus > 0 /\ surplus + 1 = Len(g) - 2 * MaxTurns + 1
      BY <1>5, <2>1, BridgeAssumption
    <3>2. /\ kept = SubSeq(g, Len(g) - 2 * MaxTurns + 1, Len(g))
          /\ Kept!LastTurns(us) = SubSeq(us, Len(us) - MaxTurns + 1, Len(us))
      BY <2>1, <3>1 DEF Kept!LastTurns
    <3>3. MaxTurns \in Nat /\ MaxTurns < Len(us)
      BY <1>5, <2>1, BridgeAssumption
    <3> HIDE DEF surplus, kept
    <3>4. /\ kept \in Seq(Entry) /\ Len(kept) = 2 * MaxTurns
          /\ Kept!LastTurns(us) \in Seq(Message)
          /\ Represents(kept, Kept!LastTurns(us))
      BY <1>4, <1>5, <3>2, <3>3, CutTurns
    <3>5. QED
      BY <3>3, <3>4
  <2>2. CASE ~ (Len(us) > MaxTurns)
    <3>1. ~ (surplus > 0) /\ Len(g) <= 2 * MaxTurns
      BY <1>5, <2>2, BridgeAssumption
    <3>2. QED
      BY <1>4, <1>5, <2>2, <3>1 DEF Kept!LastTurns
  <2>3. QED
    BY <2>1, <2>2
<1> DEFINE s == [history |-> kept, idle |-> 0]
<1>7. addHistory(store, k, Turn(m)) = With(store, k, s)
  BY DEF addHistory, g, h
<1> HIDE DEF kept
<1>8. TurnsOf(kept) = Kept!LastTurns(us)
  BY <1>6, TurnsOfHistory
<1>9. SessionOK(s) /\ s.idle = 0 /\ s.history = kept
  <2>1. 0 \in 0..(Expire + 1)
    BY BridgeAssumption
  <2>2. QED
    BY <1>6, <1>8, <2>1 DEF SessionOK
<1>10. QED
  BY <1>7, <1>8, <1>9 DEF us, ts

-----------------------------------------------------------------------------
(* What the handlers do to the store, and to the conversations it stands   *)
(* for.                                                                    *)
kept == <<remembered, idleTimes, answered, obeyed>>

LEMMA StoreOfInv == TypeOK /\ HistoryInv => StoreOK(sessions)
BY DEF TypeOK, HistoryInv, StoreOK, SessionOK

LEMMA OneChanges ==
  ASSUME NEW k \in Key,
         \A j \in Key \ {k} : Turns(j)' = Turns(j) /\ Idle(j)' = Idle(j)
  PROVE  /\ remembered' = [remembered EXCEPT ![k] = Turns(k)']
         /\ idleTimes' = [idleTimes EXCEPT ![k] = Idle(k)']
BY DEF remembered, idleTimes

LEMMA WithMaps ==
  ASSUME StoreOK(sessions), NEW k \in Key, NEW s, SessionOK(s), sessions' = With(sessions, k, s)
  PROVE  /\ StoreOK(sessions)'
         /\ remembered' = [remembered EXCEPT ![k] = TurnsOf(s.history)]
         /\ idleTimes' = [idleTimes EXCEPT ![k] = s.idle]
<1>1. /\ DOMAIN sessions' = DOMAIN sessions \union {k}
      /\ sessions'[k] = s
      /\ \A j \in DOMAIN sessions \ {k} : sessions'[j] = sessions[j]
  BY DEF With
<1>2. StoreOK(sessions)'
  BY <1>1 DEF StoreOK
<1>3. Turns(k)' = TurnsOf(s.history) /\ Idle(k)' = s.idle
  BY <1>1 DEF Turns, Idle
<1>4. \A j \in Key \ {k} : Turns(j)' = Turns(j) /\ Idle(j)' = Idle(j)
  BY <1>1 DEF Turns, Idle
<1>5. QED
  BY <1>2, <1>3, <1>4, OneChanges

LEMMA WithoutMaps ==
  ASSUME StoreOK(sessions), NEW k \in Key, sessions' = Without(sessions, k)
  PROVE  /\ StoreOK(sessions)'
         /\ remembered' = [remembered EXCEPT ![k] = <<>>]
         /\ idleTimes' = [idleTimes EXCEPT ![k] = 0]
<1>1. /\ DOMAIN sessions' = DOMAIN sessions \ {k}
      /\ \A j \in DOMAIN sessions \ {k} : sessions'[j] = sessions[j]
  BY WithoutOK
<1>2. StoreOK(sessions)'
  BY <1>1 DEF StoreOK
<1>3. Turns(k)' = <<>> /\ Idle(k)' = 0
  BY <1>1 DEF Turns, Idle
<1>4. \A j \in Key \ {k} : Turns(j)' = Turns(j) /\ Idle(j)' = Idle(j)
  BY <1>1 DEF Turns, Idle
<1>5. QED
  BY <1>2, <1>3, <1>4, OneChanges

(* A conversation that is not in the store is an empty one.                *)
LEMMA AbsentMaps ==
  ASSUME NEW k \in Key, k \notin DOMAIN sessions
  PROVE  /\ remembered = [remembered EXCEPT ![k] = <<>>]
         /\ idleTimes = [idleTimes EXCEPT ![k] = 0]
<1>1. remembered[k] = <<>> /\ idleTimes[k] = 0
  BY DEF remembered, idleTimes, Turns, Idle
<1>2. QED
  BY <1>1 DEF remembered, idleTimes

LEMMA NewSessionMaps ==
  ASSUME StoreOK(sessions), NEW k \in Key, sessions' = With(sessions, k, NewSession)
  PROVE  /\ StoreOK(sessions)'
         /\ remembered' = [remembered EXCEPT ![k] = <<>>]
         /\ idleTimes' = [idleTimes EXCEPT ![k] = 0]
<1>1. SessionOK(NewSession) /\ TurnsOf(NewSession.history) = <<>> /\ NewSession.idle = 0
  BY NewSessionOK DEF NewSession
<1>2. /\ StoreOK(sessions)'
      /\ remembered' = [remembered EXCEPT ![k] = TurnsOf(NewSession.history)]
      /\ idleTimes' = [idleTimes EXCEPT ![k] = NewSession.idle]
  BY <1>1, WithMaps
<1>3. QED
  BY <1>1, <1>2

(* A question finds a session, or a new one where the old one has expired. *)
LEMMA AskMaps ==
  ASSUME StoreOK(sessions), NEW k \in Key, sessions' = getOrCreate(sessions, k), outcome' = outcome
  PROVE  StoreOK(sessions)' /\ (Kept!Lapse({k}) \/ UNCHANGED kept)
<1>1. UNCHANGED <<answered, obeyed>>
  BY DEF answered, obeyed
<1>2. CASE k \in DOMAIN sessions /\ ~ (sessions[k].idle > Expire)
  <2>1. sessions' = sessions
    BY <1>2, GetOrCreate
  <2>2. QED
    BY <1>1, <2>1 DEF kept, remembered, idleTimes, Turns, Idle
<1>3. CASE ~ (k \in DOMAIN sessions /\ ~ (sessions[k].idle > Expire))
  <2>1. sessions' = With(sessions, k, NewSession)
    BY <1>3, GetOrCreate
  <2>2. /\ StoreOK(sessions)'
        /\ remembered' = [remembered EXCEPT ![k] = <<>>]
        /\ idleTimes' = [idleTimes EXCEPT ![k] = 0]
    BY <2>1, NewSessionMaps
  <2>3. CASE k \in DOMAIN sessions
    <3>1. idleTimes[k] > Expire
      BY <1>3, <2>3 DEF idleTimes, Idle
    <3>2. remembered' = [j \in Key |-> IF j \in {k} THEN <<>> ELSE remembered[j]]
      BY <2>2 DEF remembered
    <3>3. idleTimes' = [j \in Key |-> IF j \in {k} THEN 0 ELSE idleTimes[j]]
      BY <2>2 DEF idleTimes
    <3>4. QED
      BY <1>1, <2>2, <3>1, <3>2, <3>3 DEF Kept!Lapse
  <2>4. CASE k \notin DOMAIN sessions
    BY <1>1, <2>2, <2>4, AbsentMaps DEF kept
  <2>5. QED
    BY <2>3, <2>4
<1>4. QED
  BY <1>2, <1>3

(* Both commands to forget do, and say so to the user.                     *)
LEMMA ForgetMaps ==
  ASSUME StoreOK(sessions), NEW k \in Key,
         sessions' = Without(sessions, k) \/ sessions' = clearHistory(sessions, k)
  PROVE  /\ StoreOK(sessions)'
         /\ remembered' = [remembered EXCEPT ![k] = <<>>]
         /\ idleTimes' = [idleTimes EXCEPT ![k] = 0]
<1>1. CASE sessions' = Without(sessions, k)
  BY <1>1, WithoutMaps
<1>2. CASE sessions' = With(sessions, k, NewSession)
  BY <1>2, NewSessionMaps
<1>3. CASE k \notin DOMAIN sessions /\ sessions' = sessions
  <2>1. remembered' = remembered /\ idleTimes' = idleTimes
    BY <1>3 DEF remembered, idleTimes, Turns, Idle
  <2>2. QED
    BY <1>3, <2>1, AbsentMaps
<1>4. QED
  BY <1>1, <1>2, <1>3 DEF clearHistory, AfterGet

-----------------------------------------------------------------------------
(* The handlers: what they are about, and what they make of conversations. *)
Outcomes == {"none", "answered", "forgot"}

HandlersOK ==
  /\ pc \in [Message -> {"none", "fetching", "asking", "replying", "done"}]
  /\ text \in [Message -> {"none"} \union Words]
  /\ key \in [Message -> Key]
  /\ outcome \in [Message -> Outcomes]
  /\ HandlerInv

TokensOK ==
  /\ cached \in [left : Nat, age : 0..Life, delay : 0..Long]
  /\ held \in [Message -> 0..Life] /\ delay \in [Message -> 0..Long]

LEMMA Parts == BridgeInv <=> StoreOK(sessions) /\ HandlersOK /\ TokensOK /\ TokenInv
BY DEF BridgeInv, TypeOK, HistoryInv, StoreOK, SessionOK, HandlersOK, TokensOK, Outcomes

LEMMA PartsNext ==
  BridgeInv' <=> (StoreOK(sessions) /\ HandlersOK /\ TokensOK /\ TokenInv)'
BY Parts, PTL

LEMMA ProceedStep ==
  ASSUME StoreOK(sessions), HandlersOK, NEW m \in Message, NEW k \in Key, NEW words \in Words,
         outcome[m] = "none", Proceed(m, k, words)
  PROVE  /\ StoreOK(sessions)'
         /\ Kept!Next \/ UNCHANGED kept
         /\ \E p \in {"asking", "replying"} :
              pc' = [pc EXCEPT ![m] = p] /\ (p = "asking" => outcome' = outcome)
         /\ outcome' \in [Message -> Outcomes]
         /\ \A j \in Message \ {m} : outcome'[j] = outcome[j]
<1>1. CASE words = "words"
  <2>1. /\ sessions' = getOrCreate(sessions, k) /\ outcome' = outcome
        /\ pc' = [pc EXCEPT ![m] = "asking"]
    BY <1>1 DEF Proceed
  <2>2. StoreOK(sessions)' /\ (Kept!Lapse({k}) \/ UNCHANGED kept)
    BY <2>1, AskMaps
  <2>3. QED
    BY <2>1, <2>2 DEF HandlersOK, Kept!Next
<1>2. CASE words \in {"/new", "/clear"}
  <2>1. /\ sessions' = Without(sessions, k) \/ sessions' = clearHistory(sessions, k)
        /\ outcome' = [outcome EXCEPT ![m] = "forgot"]
        /\ pc' = [pc EXCEPT ![m] = "replying"]
    BY <1>2 DEF Proceed
  <2>2. /\ StoreOK(sessions)'
        /\ remembered' = [remembered EXCEPT ![k] = <<>>]
        /\ idleTimes' = [idleTimes EXCEPT ![k] = 0]
    BY <2>1, ForgetMaps
  <2>3. /\ m \notin answered \union obeyed
        /\ answered' = answered /\ obeyed' = obeyed \union {m}
    BY <2>1 DEF HandlersOK, answered, obeyed
  <2>4. Kept!Forget(m, k)
    BY <2>2, <2>3 DEF Kept!Forget
  <2>5. QED
    BY <2>1, <2>2, <2>4 DEF HandlersOK, Outcomes, Kept!Next
<1>3. CASE words \notin {"words", "/new", "/clear"}
  <2>1. /\ sessions' = sessions /\ outcome' = outcome
        /\ pc' = [pc EXCEPT ![m] = "replying"]
    BY <1>3 DEF Proceed, sessionVars
  <2>2. StoreOK(sessions)' /\ UNCHANGED kept
    BY <2>1 DEF StoreOK, kept, remembered, idleTimes, answered, obeyed, Turns, Idle
  <2>3. QED
    BY <2>1, <2>2 DEF HandlersOK
<1>4. QED
  BY <1>1, <1>2, <1>3

(* Where the store is left alone, so is what it stands for.                *)
LEMMA SameStore ==
  ASSUME StoreOK(sessions), UNCHANGED sessionVars
  PROVE  StoreOK(sessions)' /\ UNCHANGED kept
BY DEF sessionVars, StoreOK, kept, remembered, idleTimes, answered, obeyed, Turns, Idle

LEMMA AnsweredStep ==
  ASSUME StoreOK(sessions), HandlersOK, NEW m \in Message, Answered(m)
  PROVE  StoreOK(sessions)' /\ Kept!Next /\ HandlersOK'
<1> DEFINE k == key[m]
<1>1. /\ pc[m] = "asking" /\ pc' = [pc EXCEPT ![m] = "replying"]
      /\ outcome' = [outcome EXCEPT ![m] = "answered"]
      /\ sessions' = addHistory(sessions, k, Turn(m))
      /\ text' = text /\ key' = key
  BY DEF Answered
<1>2. k \in Key /\ outcome[m] = "none"
  BY <1>1 DEF HandlersOK, HandlerInv
<1> HIDE DEF k
<1>3. PICK s : /\ SessionOK(s) /\ s.idle = 0
               /\ TurnsOf(s.history) = Kept!LastTurns(Append(Found(sessions, k), m))
               /\ addHistory(sessions, k, Turn(m)) = With(sessions, k, s)
  BY <1>2, AddHistory
<1>4. /\ StoreOK(sessions)'
      /\ remembered' = [remembered EXCEPT ![k] = TurnsOf(s.history)]
      /\ idleTimes' = [idleTimes EXCEPT ![k] = s.idle]
  BY <1>1, <1>2, <1>3, WithMaps
<1>5. Found(sessions, k) = Kept!Remembered(k)
  <2>1. remembered[k] = Turns(k) /\ idleTimes[k] = Idle(k)
    BY <1>2 DEF remembered, idleTimes
  <2>2. CASE k \in DOMAIN sessions
    BY <2>1, <2>2 DEF Found, Kept!Remembered, Turns, Idle
  <2>3. CASE k \notin DOMAIN sessions
    <3>1. ~ (0 > Expire)
      BY BridgeAssumption
    <3>2. QED
      BY <2>1, <2>3, <3>1 DEF Found, Kept!Remembered, Turns, Idle
  <2>4. QED
    BY <2>2, <2>3
<1>6. /\ m \notin answered \union obeyed
      /\ answered' = answered \union {m} /\ obeyed' = obeyed
  BY <1>1, <1>2 DEF HandlersOK, answered, obeyed
<1>7. Kept!Answer(m, k)
  BY <1>3, <1>4, <1>5, <1>6 DEF Kept!Answer
<1>8. HandlersOK'
  BY <1>1 DEF HandlersOK, HandlerInv, Outcomes
<1>9. QED
  BY <1>2, <1>4, <1>7, <1>8 DEF Kept!Next

-----------------------------------------------------------------------------
(* Tokens.                                                                 *)
Holds(m) == pc[m] \in {"asking", "replying"} /\ key[m] \in Feishu

LEMMA SameTokens ==
  ASSUME TokensOK, TokenInv, UNCHANGED tokenVars,
         \A m \in Message : Holds(m)' => Holds(m)
  PROVE  TokensOK' /\ TokenInv'
BY DEF TokensOK, TokenInv, tokenVars, Holds

(* A token of some age and delay is handed to the handler of m.            *)
LEMMA HandedToken ==
  ASSUME HandlersOK, TokensOK, TokenInv, NEW m \in Message,
         NEW age \in 0..Life, NEW d \in 0..Long,
         Margin < Life /\ d <= Margin => age + Margin < Life + d,
         held' = [held EXCEPT ![m] = age], delay' = [delay EXCEPT ![m] = d],
         \A j \in Message \ {m} : pc'[j] = pc[j] /\ key'[j] = key[j]
  PROVE  /\ held' \in [Message -> 0..Life] /\ delay' \in [Message -> 0..Long]
         /\ Margin < Life =>
              \A j \in Message :
                pc'[j] \in {"asking", "replying"} /\ key'[j] \in Feishu /\ delay'[j] <= Margin =>
                  held'[j] + Margin < Life + delay'[j]
<1>1. held' \in [Message -> 0..Life] /\ delay' \in [Message -> 0..Long]
  BY DEF TokensOK
<1>2. held'[m] = age /\ delay'[m] = d
  BY DEF TokensOK
<1>3. \A j \in Message \ {m} : held'[j] = held[j] /\ delay'[j] = delay[j]
  BY DEF TokensOK
<1>4. QED
  BY <1>1, <1>2, <1>3 DEF TokenInv

LEMMA ReceiveTokens ==
  ASSUME HandlersOK, TokensOK, TokenInv,
         NEW m \in Message, NEW k \in Key, NEW words \in Words, Receive(m, k, words),
         \A j \in Message \ {m} : pc'[j] = pc[j] /\ key'[j] = key[j]
  PROVE  TokensOK' /\ TokenInv'
<1>1. key'[m] = k
  BY DEF Receive, HandlersOK
<1>2. CASE k \in Feishu /\ cached.left = 0
  <2>1. pc'[m] = "fetching" /\ UNCHANGED tokenVars
    BY <1>2 DEF Receive, HandlersOK
  <2>2. QED
    BY <2>1, SameTokens DEF Holds
<1>3. CASE k \in Feishu /\ cached.left # 0
  <2>1. /\ cached' = cached
        /\ held' = [held EXCEPT ![m] = cached.age]
        /\ delay' = [delay EXCEPT ![m] = cached.delay]
    BY <1>3 DEF Receive
  <2>2. cached.left \in Nat /\ cached.age \in 0..Life /\ cached.delay \in 0..Long
    BY DEF TokensOK
  <2>3. Margin < Life => cached.age + Margin < Life + cached.delay
    BY <1>3, <2>2, BridgeAssumption DEF TokenInv, Long
  <2>4. QED
    BY <2>1, <2>2, <2>3, HandedToken DEF TokensOK, TokenInv
<1>4. CASE k \notin Feishu
  <2>1. UNCHANGED tokenVars
    BY <1>4 DEF Receive, tokenVars
  <2>2. QED
    BY <1>1, <1>4, <2>1, SameTokens DEF Holds
<1>5. QED
  BY <1>2, <1>3, <1>4

LEMMA ArrivalTokens ==
  ASSUME HandlersOK, TokensOK, TokenInv, NEW m \in Message, TokenArrives(m),
         \A j \in Message \ {m} : pc'[j] = pc[j]
  PROVE  TokensOK' /\ TokenInv'
<1>1. PICK age \in 0..delay[m] :
        /\ cached' = [left |-> IF Life > Margin THEN Life - Margin ELSE 0,
                      age |-> Within(age, Life), delay |-> age]
        /\ delay' = [delay EXCEPT ![m] = age]
        /\ held' = [held EXCEPT ![m] = Within(age, Life)]
  BY DEF TokenArrives
<1>2. age \in 0..Long /\ age \in Nat
  BY <1>1, BridgeAssumption DEF TokensOK, Long
<1>3. Within(age, Life) \in 0..Life /\ Within(age, Life) <= age
  BY <1>2, BridgeAssumption DEF Within
<1>4. cached' \in [left : Nat, age : 0..Life, delay : 0..Long]
  BY <1>1, <1>2, <1>3, BridgeAssumption
<1>5. Margin < Life => Within(age, Life) + Margin < Life + age
  BY <1>2, <1>3, BridgeAssumption
<1>6. Margin < Life => cached'.age + cached'.left + Margin <= Life + cached'.delay
  BY <1>1, <1>2, <1>3, BridgeAssumption
<1>7. key' = key
  BY DEF TokenArrives
<1>8. QED
  BY <1>1, <1>2, <1>3, <1>4, <1>5, <1>6, <1>7, HandedToken DEF TokensOK, TokenInv

LEMMA TickTokens ==
  ASSUME HandlersOK, TokensOK, TokenInv, Tick
  PROVE  TokensOK' /\ TokenInv'
<1>1. /\ cached.left \in Nat /\ cached.age \in 0..Life /\ cached.delay \in 0..Long
      /\ 0 \in 0..Life /\ 0 \in 0..Long
  BY BridgeAssumption DEF TokensOK, Long
<1>2. Within(cached.age + 1, Life) \in 0..Life /\ Within(cached.age + 1, Life) <= cached.age + 1
  BY <1>1, BridgeAssumption DEF Within
<1>3. cached' \in [left : Nat, age : 0..Life, delay : 0..Long]
  <2>1. CASE cached.left <= 1
    BY <1>1, <2>1 DEF Tick, NoToken
  <2>2. CASE ~ (cached.left <= 1)
    <3>1. cached.left - 1 \in Nat
      BY <1>1, <2>2
    <3>2. cached' = [cached EXCEPT !.left = cached.left - 1, !.age = Within(cached.age + 1, Life)]
      BY <2>2 DEF Tick
    <3>3. QED
      BY <1>2, <3>1, <3>2 DEF TokensOK
  <2>3. QED
    BY <2>1, <2>2
<1>4. Margin < Life /\ cached'.left > 0 => cached'.age + cached'.left + Margin <= Life + cached'.delay
  <2>1. CASE cached.left <= 1
    BY <2>1 DEF Tick, NoToken
  <2>2. CASE ~ (cached.left <= 1)
    <3>1. /\ cached'.left = cached.left - 1 /\ cached'.delay = cached.delay
          /\ cached'.age = Within(cached.age + 1, Life)
      BY <2>2 DEF Tick, TokensOK
    <3>2. QED
      BY <1>1, <1>2, <2>2, <3>1, BridgeAssumption DEF TokenInv, Long
  <2>3. QED
    BY <2>1, <2>2
<1>5. ASSUME NEW m \in Message
      PROVE  /\ held'[m] \in 0..Life /\ delay'[m] \in 0..Long
             /\ Margin < Life /\ Holds(m) /\ delay'[m] <= Margin =>
                  held'[m] + Margin < Life + delay'[m]
  <2>1. held[m] \in 0..Life /\ delay[m] \in 0..Long
    BY DEF TokensOK
  <2>2. Within(delay[m] + 1, Long) \in 0..Long /\ Within(held[m] + 1, Life) \in 0..Life
    BY <2>1, BridgeAssumption DEF Within, Long
  <2>3. held'[m] \in 0..Life /\ delay'[m] \in 0..Long
    BY <2>1, <2>2 DEF Tick
  <2>4. ASSUME Margin < Life, Holds(m), delay'[m] <= Margin
        PROVE  held'[m] + Margin < Life + delay'[m]
    <3>1. CASE pc[m] = "asking"
      <4>1. delay'[m] = Within(delay[m] + 1, Long) /\ held'[m] = Within(held[m] + 1, Life)
        BY <2>4, <3>1 DEF Tick, Holds
      <4>2. delay'[m] = delay[m] + 1 /\ held'[m] <= held[m] + 1
        BY <2>1, <2>4, <4>1, BridgeAssumption DEF Within, Long
      <4>3. held[m] + Margin < Life + delay[m]
        BY <2>1, <2>4, <4>2, BridgeAssumption DEF TokenInv, Holds, Long
      <4>4. QED
        BY <2>1, <2>3, <4>2, <4>3, BridgeAssumption DEF Long
    <3>2. CASE pc[m] # "asking"
      <4>1. delay'[m] = delay[m] /\ held'[m] = held[m]
        BY <2>4, <3>2 DEF Tick, Holds
      <4>2. QED
        BY <2>4, <4>1 DEF TokenInv, Holds
    <3>3. QED
      BY <3>1, <3>2
  <2>5. QED
    BY <2>3, <2>4
<1>6. held' \in [Message -> 0..Life] /\ delay' \in [Message -> 0..Long]
  BY <1>5 DEF Tick
<1>7. pc' = pc /\ key' = key
  BY DEF Tick
<1>8. QED
  BY <1>3, <1>4, <1>5, <1>6, <1>7 DEF TokensOK, TokenInv, Holds

-----------------------------------------------------------------------------
LEMMA TickStep ==
  ASSUME StoreOK(sessions), HandlersOK, Tick
  PROVE  StoreOK(sessions)' /\ Kept!Pass /\ HandlersOK'
<1>1. /\ DOMAIN sessions' = DOMAIN sessions
      /\ \A k \in DOMAIN sessions :
           sessions'[k] = [sessions[k] EXCEPT !.idle = Within(sessions[k].idle + 1, Expire + 1)]
  BY DEF Tick
<1>2. ASSUME NEW k \in DOMAIN sessions
      PROVE  /\ SessionOK(sessions'[k]) /\ sessions'[k].history = sessions[k].history
             /\ sessions'[k].idle \in {sessions[k].idle, sessions[k].idle + 1}
  <2>1. sessions[k] \in [history : Seq(Entry), idle : 0..(Expire + 1)] /\ SessionOK(sessions[k])
    BY DEF StoreOK, SessionOK
  <2>2. /\ Within(sessions[k].idle + 1, Expire + 1) \in 0..(Expire + 1)
        /\ Within(sessions[k].idle + 1, Expire + 1) \in {sessions[k].idle, sessions[k].idle + 1}
    BY <2>1, BridgeAssumption DEF Within
  <2>3. /\ sessions'[k] \in [history : Seq(Entry), idle : 0..(Expire + 1)]
        /\ sessions'[k].history = sessions[k].history
        /\ sessions'[k].idle = Within(sessions[k].idle + 1, Expire + 1)
    BY <1>1, <2>1, <2>2
  <2>4. QED
    BY <2>1, <2>2, <2>3 DEF SessionOK
<1>3. StoreOK(sessions)'
  BY <1>1, <1>2 DEF StoreOK
<1>4. remembered' = remembered
  BY <1>1, <1>2 DEF remembered, Turns
<1>5. \A k \in Key : idleTimes'[k] \in {idleTimes[k], idleTimes[k] + 1}
  BY <1>1, <1>2 DEF idleTimes, Idle
<1>6. UNCHANGED <<outcome, pc, text, key>>
  BY DEF Tick
<1>7. answered' = answered /\ obeyed' = obeyed
  BY <1>6 DEF answered, obeyed
<1>8. Kept!Pass
  BY <1>4, <1>5, <1>7 DEF Kept!Pass, idleTimes
<1>9. HandlersOK'
  BY <1>6 DEF HandlersOK, HandlerInv
<1>10. QED
  BY <1>3, <1>8, <1>9

LEMMA ReceiveStep ==
  ASSUME BridgeInv, NEW m \in Message, NEW k \in Key, NEW words \in Words, Receive(m, k, words)
  PROVE  BridgeInv' /\ (Kept!Next \/ UNCHANGED kept)
<1>1. StoreOK(sessions) /\ HandlersOK /\ TokensOK /\ TokenInv
  BY Parts
<1>2. /\ pc[m] = "none" /\ outcome[m] = "none"
      /\ text' = [text EXCEPT ![m] = words] /\ key' = [key EXCEPT ![m] = k]
  BY <1>1 DEF Receive, HandlersOK, HandlerInv
<1>3. CASE k \in Feishu /\ cached.left = 0
  <2>1. pc' = [pc EXCEPT ![m] = "fetching"] /\ UNCHANGED sessionVars
    BY <1>3 DEF Receive
  <2>2. StoreOK(sessions)' /\ UNCHANGED kept
    BY <1>1, <2>1, SameStore
  <2>3. HandlersOK'
    BY <1>1, <1>2, <2>1 DEF HandlersOK, HandlerInv, sessionVars
  <2>4. \A j \in Message \ {m} : pc'[j] = pc[j] /\ key'[j] = key[j]
    BY <1>1, <1>2, <2>1 DEF HandlersOK
  <2>5. TokensOK' /\ TokenInv'
    BY <1>1, <2>4, ReceiveTokens
  <2>6. QED
    BY <2>2, <2>3, <2>5, PartsNext
<1>4. CASE ~ (k \in Feishu /\ cached.left = 0)
  <2>1. Proceed(m, k, words)
    BY <1>4 DEF Receive
  <2>2. /\ StoreOK(sessions)' /\ (Kept!Next \/ UNCHANGED kept)
        /\ \E p \in {"asking", "replying"} :
             pc' = [pc EXCEPT ![m] = p] /\ (p = "asking" => outcome' = outcome)
        /\ outcome' \in [Message -> Outcomes]
        /\ \A j \in Message \ {m} : outcome'[j] = outcome[j]
    BY <1>1, <1>2, <2>1, ProceedStep
  <2>3. HandlersOK'
    BY <1>1, <1>2, <2>2 DEF HandlersOK, HandlerInv
  <2>4. \A j \in Message \ {m} : pc'[j] = pc[j] /\ key'[j] = key[j]
    BY <1>1, <1>2, <2>2 DEF HandlersOK
  <2>5. TokensOK' /\ TokenInv'
    BY <1>1, <2>4, ReceiveTokens
  <2>6. QED
    BY <2>2, <2>3, <2>5, PartsNext
<1>5. QED
  BY <1>3, <1>4

LEMMA ArrivalStep ==
  ASSUME BridgeInv, NEW m \in Message, TokenArrives(m)
  PROVE  BridgeInv' /\ (Kept!Next \/ UNCHANGED kept)
<1>1. StoreOK(sessions) /\ HandlersOK /\ TokensOK /\ TokenInv
  BY Parts
<1>2. /\ pc[m] = "fetching" /\ outcome[m] = "none" /\ text[m] \in Words /\ key[m] \in Key
      /\ text' = text /\ key' = key /\ Proceed(m, key[m], text[m])
  BY <1>1 DEF TokenArrives, HandlersOK, HandlerInv
<1>3. /\ StoreOK(sessions)' /\ (Kept!Next \/ UNCHANGED kept)
      /\ \E p \in {"asking", "replying"} :
           pc' = [pc EXCEPT ![m] = p] /\ (p = "asking" => outcome' = outcome)
      /\ outcome' \in [Message -> Outcomes]
      /\ \A j \in Message \ {m} : outcome'[j] = outcome[j]
  BY <1>1, <1>2, ProceedStep
<1>4. HandlersOK'
  BY <1>1, <1>2, <1>3 DEF HandlersOK, HandlerInv
<1>5. \A j \in Message \ {m} : pc'[j] = pc[j]
  BY <1>1, <1>3 DEF HandlersOK
<1>6. TokensOK' /\ TokenInv'
  BY <1>1, <1>5, ArrivalTokens
<1>7. QED
  BY <1>3, <1>4, <1>6, PartsNext

(* cleanup makes every session lapse that has expired.                     *)
LEMMA CleanupStep ==
  ASSUME BridgeInv, NEW bridge \in {DingTalk, Feishu}, Cleanup(bridge)
  PROVE  BridgeInv' /\ Kept!Next
<1> DEFINE K == {k \in DOMAIN sessions : k \in bridge /\ ~ (sessions[k].idle <= Expire)}
<1>1. StoreOK(sessions) /\ HandlersOK /\ TokensOK /\ TokenInv
  BY Parts
<1>2. /\ DOMAIN sessions' = DOMAIN sessions \ K
      /\ \A k \in DOMAIN sessions \ K : sessions'[k] = sessions[k]
      /\ UNCHANGED outcome /\ UNCHANGED tokenVars /\ UNCHANGED <<pc, text, key>>
  BY DEF Cleanup
<1>3. StoreOK(sessions)'
  BY <1>1, <1>2 DEF StoreOK
<1>4. K \in SUBSET Key /\ \A k \in K : idleTimes[k] > Expire
  <2>1. DOMAIN sessions \subseteq Key
    BY <1>1 DEF StoreOK
  <2>2. \A k \in K : sessions[k].idle \in 0..(Expire + 1)
    BY DEF BridgeInv, TypeOK
  <2>3. \A k \in K : idleTimes[k] = sessions[k].idle
    BY <2>1 DEF idleTimes, Idle
  <2>4. QED
    BY <2>1, <2>2, <2>3, BridgeAssumption
<1>5. /\ remembered' = [k \in Key |-> IF k \in K THEN <<>> ELSE remembered[k]]
      /\ idleTimes' = [k \in Key |-> IF k \in K THEN 0 ELSE idleTimes[k]]
  BY <1>2 DEF remembered, idleTimes, Turns, Idle
<1>6. answered' = answered /\ obeyed' = obeyed
  BY <1>2 DEF answered, obeyed
<1>7. Kept!Next
  <2>1. Kept!Lapse(K)
    BY <1>4, <1>5, <1>6 DEF Kept!Lapse
  <2>2. QED
    BY <1>4, <2>1 DEF Kept!Next
<1>8. HandlersOK'
  BY <1>1, <1>2 DEF HandlersOK, HandlerInv
<1>9. TokensOK' /\ TokenInv'
  BY <1>1, <1>2, SameTokens DEF Holds
<1>10. QED
  BY <1>3, <1>7, <1>8, <1>9, PartsNext

(* The steps that leave the store and the tokens alone.                    *)
LEMMA QuietStep ==
  ASSUME BridgeInv, NEW m \in Message, TokenFails(m) \/ AskFails(m) \/ Replied(m)
  PROVE  BridgeInv' /\ UNCHANGED kept
<1>1. StoreOK(sessions) /\ HandlersOK /\ TokensOK /\ TokenInv
  BY Parts
<1>2. PICK p \in {"replying", "done"} :
        /\ pc' = [pc EXCEPT ![m] = p] /\ (p = "replying" => pc[m] = "asking")
        /\ UNCHANGED sessionVars /\ UNCHANGED tokenVars /\ UNCHANGED <<text, key>>
  BY DEF TokenFails, AskFails, Replied
<1>3. StoreOK(sessions)' /\ UNCHANGED kept
  BY <1>1, <1>2, SameStore
<1>4. HandlersOK'
  BY <1>1, <1>2 DEF HandlersOK, HandlerInv, sessionVars
<1>5. \A j \in Message : Holds(j)' => Holds(j)
  BY <1>1, <1>2 DEF Holds, HandlersOK
<1>6. TokensOK' /\ TokenInv'
  BY <1>1, <1>2, <1>5, SameTokens
<1>7. QED
  BY <1>3, <1>4, <1>6, PartsNext

LEMMA Preserved ==
  ASSUME BridgeInv, [Next]_bridgeVars
  PROVE  BridgeInv' /\ (Kept!Next \/ UNCHANGED kept)
<1>1. StoreOK(sessions) /\ HandlersOK /\ TokensOK /\ TokenInv
  BY Parts
<1>2. CASE Tick
  <2>1. StoreOK(sessions)' /\ Kept!Pass /\ HandlersOK'
    BY <1>1, <1>2, TickStep
  <2>2. TokensOK' /\ TokenInv'
    BY <1>1, <1>2, TickTokens
  <2>3. QED
    BY <2>1, <2>2, PartsNext DEF Kept!Next
<1>3. ASSUME NEW m \in Message, NEW k \in Key, NEW words \in Words, Receive(m, k, words)
      PROVE  BridgeInv' /\ (Kept!Next \/ UNCHANGED kept)
  BY <1>3, ReceiveStep
<1>4. ASSUME NEW m \in Message, TokenArrives(m)
      PROVE  BridgeInv' /\ (Kept!Next \/ UNCHANGED kept)
  BY <1>4, ArrivalStep
<1>5. ASSUME NEW m \in Message, Answered(m)
      PROVE  BridgeInv' /\ (Kept!Next \/ UNCHANGED kept)
  <2>1. StoreOK(sessions)' /\ Kept!Next /\ HandlersOK'
    BY <1>1, <1>5, AnsweredStep
  <2>2. UNCHANGED tokenVars /\ \A j \in Message : Holds(j)' => Holds(j)
    BY <1>1, <1>5 DEF Answered, Holds, HandlersOK
  <2>3. TokensOK' /\ TokenInv'
    BY <1>1, <2>2, SameTokens
  <2>4. QED
    BY <2>1, <2>3, PartsNext
<1>6. ASSUME NEW m \in Message, TokenFails(m) \/ AskFails(m) \/ Replied(m)
      PROVE  BridgeInv' /\ (Kept!Next \/ UNCHANGED kept)
  BY <1>6, QuietStep
<1>7. CASE UNCHANGED bridgeVars
  <2>1. UNCHANGED sessionVars /\ UNCHANGED tokenVars /\ UNCHANGED <<pc, text, key>>
    BY <1>7 DEF bridgeVars
  <2>2. StoreOK(sessions)' /\ UNCHANGED kept
    BY <1>1, <2>1, SameStore
  <2>3. HandlersOK'
    BY <1>1, <2>1 DEF HandlersOK, HandlerInv, sessionVars
  <2>4. TokensOK' /\ TokenInv'
    BY <1>1, <2>1, SameTokens DEF Holds
  <2>5. QED
    BY <2>2, <2>3, <2>4, PartsNext
<1>8. CASE Cleanup(DingTalk) \/ Cleanup(Feishu)
  BY <1>8, CleanupStep
<1>9. QED
  BY <1>2, <1>3, <1>4, <1>5, <1>6, <1>7, <1>8 DEF Next

LEMMA InitInv == ASSUME Init, Key # {} PROVE BridgeInv /\ Kept!Init
<1>1. DOMAIN sessions = {}
  BY DEF Init
<1>2. StoreOK(sessions) /\ remembered = [k \in Key |-> <<>>] /\ idleTimes = [k \in Key |-> 0]
  BY <1>1 DEF StoreOK, remembered, idleTimes, Turns, Idle
<1>3. HandlersOK /\ answered = {} /\ obeyed = {}
  <2>1. (CHOOSE k \in Key : TRUE) \in Key
    OBVIOUS
  <2>2. QED
    BY <2>1 DEF Init, HandlersOK, HandlerInv, Outcomes, answered, obeyed
<1>4. TokensOK /\ TokenInv
  BY BridgeAssumption DEF Init, TokensOK, TokenInv, NoToken, Long
<1>5. QED
  BY <1>2, <1>3, <1>4, Parts DEF Kept!Init

LEMMA Invariance == ASSUME Key # {} PROVE Spec => []BridgeInv
<1>1. Init => BridgeInv
  BY InitInv
<1>2. BridgeInv /\ [Next]_bridgeVars => BridgeInv'
  BY Preserved
<1>3. QED
  BY <1>1, <1>2, PTL DEF Spec

(* The store, the handlers and the tokens keep their types; no history is  *)
(* longer than maxHistoryTurns turns.                                      *)
THEOREM TypeCorrect == ASSUME Key # {} PROVE Spec => []TypeOK
<1>1. BridgeInv => TypeOK
  BY DEF BridgeInv
<1>2. QED
  BY <1>1, Invariance, PTL

(* A reply to Feishu carries a valid token, if its fetch and the wait for  *)
(* the daemon stay within the margin (getTenantAccessToken).               *)
THEOREM TokensAreValid == ASSUME Key # {} PROVE Spec => []TokenValid
<1>1. ASSUME BridgeInv PROVE TokenValid
  <2> SUFFICES ASSUME NEW m \in Message, pc[m] = "replying", key[m] \in Feishu,
                      delay[m] <= Margin, Margin < Life
               PROVE  held[m] < Life
    BY DEF TokenValid
  <2>1. held[m] \in 0..Life /\ delay[m] \in 0..Long
    BY <1>1 DEF BridgeInv, TypeOK
  <2>2. held[m] + Margin < Life + delay[m]
    BY <1>1 DEF BridgeInv, TokenInv
  <2>3. QED
    BY <2>1, <2>2, BridgeAssumption DEF Long
<1>2. QED
  BY <1>1, Invariance, PTL

(* However handlers and commands overtake each other, the session store    *)
(* keeps the conversations it promises: whole turns in the order of the    *)
(* answers, the last maxHistoryTurns of them, until a command or expiry.   *)
THEOREM ImplementsConversation == ASSUME Key # {} PROVE Spec => ConversationSpec
<1>1. Init => Kept!Init
  BY InitInv
<1>2. BridgeInv /\ [Next]_bridgeVars => [Kept!Next]_kept
  BY Preserved
<1>3. QED
  BY <1>1, <1>2, Invariance, PTL DEF Spec, ConversationSpec, Kept!Spec, kept

-----------------------------------------------------------------------------
(***************************************************************************)
(* Induction and recursion over the natural numbers.                       *)
(***************************************************************************)

(* A set with 0 and with the successor of each number in it has them all.  *)
LEMMA NatInduct ==
  ASSUME NEW S, 0 \in S, \A n \in Nat : n \in S => n + 1 \in S
  PROVE  Nat \subseteq S
<1> DEFINE T == Nat \ S
<1>1. SUFFICES ASSUME T # {} PROVE FALSE
  OBVIOUS
<1>2. PICK x \in T : \A y \in T : ~ (<<y, x>> \in OpToRel(<, Nat))
  BY <1>1, NatLessThanWellFounded, WFMin
<1>3. x \in Nat /\ x # 0 /\ x - 1 \in Nat
  OBVIOUS
<1>4. x - 1 \in T
  BY <1>3
<1>5. <<x - 1, x>> \in OpToRel(<, Nat)
  BY <1>3 DEF OpToRel
<1>6. QED
  BY <1>2, <1>4, <1>5

(* The first n values of what is computed by step from first.              *)
Starts(g, S, first, step, n) ==
  /\ g \in [0..n -> S]
  /\ g[0] = first
  /\ \A i \in 0..n : i + 1 \in 0..n => g[i + 1] = step[i][g[i]]

LEMMA StartsExist ==
  ASSUME NEW S, NEW first \in S, NEW step \in [Nat -> [S -> S]], NEW n \in Nat
  PROVE  \E g : Starts(g, S, first, step, n)
<1> DEFINE M == {m \in Nat : \E g : Starts(g, S, first, step, m)}
<1>1. 0 \in M
  <2>1. Starts([i \in 0..0 |-> first], S, first, step, 0)
    BY DEF Starts
  <2>2. QED
    BY <2>1
<1>2. ASSUME NEW m \in Nat, m \in M PROVE m + 1 \in M
  <2>1. PICK g : Starts(g, S, first, step, m)
    BY <1>2
  <2>2. /\ g \in [0..m -> S] /\ g[0] = first
        /\ \A i \in 0..m : i + 1 \in 0..m => g[i + 1] = step[i][g[i]]
    BY <2>1 DEF Starts
  <2> DEFINE h == [i \in 0..(m + 1) |-> IF i <= m THEN g[i] ELSE step[m][g[m]]]
  <2>3. g[m] \in S /\ step[m] \in [S -> S]
    BY <2>2
  <2>4. step[m][g[m]] \in S
    BY <2>3
  <2>5. h \in [0..(m + 1) -> S] /\ h[0] = first
    BY <2>2, <2>4
  <2>6. ASSUME NEW i \in 0..(m + 1), i + 1 \in 0..(m + 1) PROVE h[i + 1] = step[i][h[i]]
    <3>1. i \in 0..m
      BY <2>6
    <3>2. h[i] = g[i]
      BY <3>1
    <3>3. CASE i + 1 <= m
      <4>1. i + 1 \in 0..m
        BY <3>1, <3>3
      <4>2. h[i + 1] = g[i + 1]
        BY <2>6, <3>3
      <4>3. QED
        BY <2>2, <3>1, <3>2, <4>1, <4>2
    <3>4. CASE ~ (i + 1 <= m)
      <4>1. i = m
        BY <3>1, <3>4
      <4>2. h[i + 1] = step[m][g[m]]
        BY <2>6, <3>4
      <4>3. QED
        BY <3>2, <4>1, <4>2
    <3>5. QED
      BY <3>3, <3>4
  <2> HIDE DEF h
  <2>7. Starts(h, S, first, step, m + 1)
    BY <2>5, <2>6 DEF Starts
  <2>8. QED
    BY <2>7
<1>3. n \in M
  <2> HIDE DEF M
  <2>1. QED
    BY <1>1, <1>2, NatInduct
<1>4. QED
  BY <1>3

LEMMA StartsAgree ==
  ASSUME NEW S, NEW first, NEW step, NEW g, NEW h, NEW n \in Nat, NEW m \in Nat,
         Starts(g, S, first, step, n), Starts(h, S, first, step, m),
         NEW k \in Nat, k <= n, k <= m
  PROVE  g[k] = h[k]
<1> DEFINE M == {i \in Nat : i <= n /\ i <= m => g[i] = h[i]}
<1>1. 0 \in M
  BY DEF Starts
<1>2. ASSUME NEW i \in Nat, i \in M PROVE i + 1 \in M
  <2>1. SUFFICES ASSUME i + 1 <= n, i + 1 <= m PROVE g[i + 1] = h[i + 1]
    OBVIOUS
  <2>2. /\ i \in 0..n /\ i + 1 \in 0..n /\ i <= n
        /\ i \in 0..m /\ i + 1 \in 0..m /\ i <= m
    BY <2>1
  <2>3. g[i] = h[i]
    BY <1>2, <2>2
  <2>4. g[i + 1] = step[i][g[i]] /\ h[i + 1] = step[i][h[i]]
    BY <2>2 DEF Starts
  <2>5. QED
    BY <2>3, <2>4
<1>3. k \in M
  <2> HIDE DEF M
  <2>1. QED
    BY <1>1, <1>2, NatInduct
<1>4. QED
  BY <1>3

Iterates(g, S, first, step) ==
  /\ g \in [Nat -> S]
  /\ g[0] = first
  /\ \A i \in Nat : g[i + 1] = step[i][g[i]]

(* A function on the numbers is defined by its first value and by each     *)
(* from the last.                                                          *)
LEMMA IterationExists ==
  ASSUME NEW S, NEW first \in S, NEW step \in [Nat -> [S -> S]]
  PROVE  \E g : Iterates(g, S, first, step)
<1> DEFINE Start(n) == CHOOSE g : Starts(g, S, first, step, n)
           g == [n \in Nat |-> Start(n)[n]]
<1>1. \A n \in Nat : Starts(Start(n), S, first, step, n)
  BY StartsExist
<1> HIDE DEF Start
<1>2. g \in [Nat -> S] /\ g[0] = first
  BY <1>1 DEF Starts
<1>3. ASSUME NEW i \in Nat PROVE g[i + 1] = step[i][g[i]]
  <2>1. i + 1 \in Nat /\ i <= i + 1 /\ i \in 0..(i + 1) /\ i + 1 \in 0..(i + 1) /\ i <= i
    OBVIOUS
  <2>2. Start(i + 1)[i + 1] = step[i][Start(i + 1)[i]]
    BY <1>1, <2>1 DEF Starts
  <2>3. Start(i + 1)[i] = Start(i)[i]
    <3>1. Starts(Start(i + 1), S, first, step, i + 1) /\ Starts(Start(i), S, first, step, i)
      BY <1>1, <2>1
    <3> DEFINE n == i + 1
               f == Start(n)
               e == Start(i)
    <3>2. /\ n \in Nat /\ i \in Nat /\ i <= n /\ i <= i
          /\ Starts(f, S, first, step, n) /\ Starts(e, S, first, step, i)
      BY <2>1, <3>1
    <3> HIDE DEF n, f, e
    <3>3. f[i] = e[i]
      BY ONLY <3>2, StartsAgree
    <3>4. QED
      BY <3>3 DEF n, f, e
  <2>4. QED
    BY <2>1, <2>2, <2>3
<1>4. QED
  <2> HIDE DEF g
  <2>1. QED
    BY <1>2, <1>3 DEF Iterates

-----------------------------------------------------------------------------
(***************************************************************************)
(* The printed characters of a reply.                                      *)
(***************************************************************************)
Ink(ch) == IF Printed(ch) THEN <<ch>> ELSE <<>>

IsPrinted(s, p) ==
  /\ p \in [0..Len(s) -> Seq(Char)]
  /\ p[0] = <<>>
  /\ \A n \in 1..Len(s) : p[n] = p[n - 1] \o Ink(s[n])

LEMMA InkType ==
  ASSUME NEW ch \in Char
  PROVE  Ink(ch) \in Seq(Char)
BY DEF Ink

(* PrintedOf is the last row of such a table.                              *)
LEMMA PrintedRows ==
  ASSUME NEW s, s \in Seq(Char)
  PROVE  \E p : IsPrinted(s, p) /\ PrintedOf(s) = p[Len(s)]
<1> DEFINE L == Len(s)
           S == Seq(Char)
           first == <<>>
           step == [i \in Nat |-> [v \in S |-> IF i + 1 <= L THEN v \o Ink(s[i + 1]) ELSE v]]
           Row(g, n) == IF n = 0 THEN <<>>
                        ELSE g[n - 1] \o IF Printed(s[n]) THEN <<s[n]>> ELSE <<>>
           printed[n \in 0..L] == IF n = 0 THEN <<>>
                                  ELSE printed[n - 1] \o IF Printed(s[n]) THEN <<s[n]>> ELSE <<>>
<1>1. L \in Nat /\ first \in S /\ \A i \in 1..L : s[i] \in Char
  OBVIOUS
<1>2. step \in [Nat -> [S -> S]]
  <2>1. ASSUME NEW i \in Nat, NEW v \in S
        PROVE  (IF i + 1 <= L THEN v \o Ink(s[i + 1]) ELSE v) \in S
    <3>1. CASE i + 1 <= L
      <4>1. i + 1 \in 1..L
        BY <1>1, <3>1
      <4>2. Ink(s[i + 1]) \in Seq(Char)
        BY <1>1, <4>1, InkType
      <4>3. v \o Ink(s[i + 1]) \in Seq(Char)
        BY <4>2, ConcatProperties
      <4>4. QED
        BY <3>1, <4>3
    <3>2. CASE ~ (i + 1 <= L)
      BY <3>2
    <3>3. QED
      BY <3>1, <3>2
  <2> HIDE DEF S
  <2>2. QED
    BY <2>1
<1>3. PICK g : Iterates(g, S, first, step)
  <2> HIDE DEF S, first, step, printed
  <2>1. QED
    BY ONLY <1>1, <1>2, IterationExists
<1>4. /\ g \in [Nat -> S] /\ g[0] = <<>>
      /\ \A i \in Nat : g[i + 1] = step[i][g[i]]
  BY <1>3 DEF Iterates
<1>5. ASSUME NEW n \in 1..L PROVE g[n] = g[n - 1] \o Ink(s[n])
  <2>1. n - 1 \in Nat /\ (n - 1) + 1 = n /\ n <= L
    BY <1>1
  <2>2. g[n] = step[n - 1][g[n - 1]] /\ g[n - 1] \in S
    BY ONLY <1>4, <2>1
  <2> HIDE DEF S
  <2>3. QED
    BY <2>1, <2>2
<1> DEFINE p == [n \in 0..L |-> g[n]]
<1>6. IsPrinted(s, p)
  <2>1. p \in [0..L -> Seq(Char)] /\ p[0] = <<>>
    BY <1>1, <1>4
  <2>2. ASSUME NEW n \in 1..L PROVE p[n] = p[n - 1] \o Ink(s[n])
    <3>1. n \in 0..L /\ n - 1 \in 0..L
      BY <1>1
    <3>2. p[n] = g[n] /\ p[n - 1] = g[n - 1]
      BY <3>1
    <3>3. QED
      BY <1>5, <3>2
  <2> HIDE DEF p
  <2>3. QED
    BY <2>1, <2>2 DEF IsPrinted
<1>7. \E f : f = [n \in 0..L |-> Row(f, n)]
  <2>1. \A n \in 0..L : p[n] = Row(p, n)
    <3> TAKE n \in 0..L
    <3> HIDE DEF p
    <3>1. n = 0 \/ n \in 1..L
      BY <1>1
    <3>2. QED
      BY <1>6, <3>1 DEF IsPrinted, Ink
  <2> HIDE DEF Row
  <2>2. p = [n \in 0..L |-> Row(p, n)]
    BY <2>1
  <2> HIDE DEF p
  <2>3. QED
    BY <2>2
<1>8. printed = [n \in 0..L |-> Row(printed, n)]
  BY <1>7
<1>9. PrintedOf(s) = printed[L]
  BY DEF PrintedOf
<1> HIDE DEF printed, p
<1>10. \A n \in 0..L : printed[n] = Row(printed, n)
  <2> HIDE DEF Row
  <2>1. QED
    BY ONLY <1>8
<1> DEFINE M == {n \in Nat : n <= L => printed[n] = p[n]}
<1>11. 0 \in M
  <2>1. 0 \in 0..L
    BY <1>1
  <2>2. QED
    BY <1>6, <1>10, <2>1 DEF IsPrinted
<1>12. ASSUME NEW n \in Nat, n \in M PROVE n + 1 \in M
  <2>1. SUFFICES ASSUME n + 1 <= L PROVE printed[n + 1] = p[n + 1]
    OBVIOUS
  <2>2. n + 1 \in 0..L /\ n + 1 \in 1..L /\ n + 1 # 0 /\ (n + 1) - 1 = n /\ printed[n] = p[n]
    BY <1>1, <1>12, <2>1
  <2>3. printed[n + 1] = printed[n] \o Ink(s[n + 1])
    BY <1>10, <2>2 DEF Ink
  <2>4. p[n + 1] = p[(n + 1) - 1] \o Ink(s[n + 1])
    BY <1>6, <2>2 DEF IsPrinted
  <2>5. QED
    BY <2>2, <2>3, <2>4
<1>13. printed[L] = p[L]
  <2>1. Nat \subseteq M
    <3> HIDE DEF M
    <3>1. QED
      BY <1>11, <1>12, NatInduct
  <2>2. QED
    BY <1>1, <2>1
<1>14. QED
  BY <1>6, <1>9, <1>13

LEMMA PrintedType ==
  ASSUME NEW s \in Seq(Char)
  PROVE  PrintedOf(s) \in Seq(Char)
<1>1. PICK p : IsPrinted(s, p) /\ PrintedOf(s) = p[Len(s)]
  BY PrintedRows
<1>2. Len(s) \in 0..Len(s)
  OBVIOUS
<1>3. QED
  BY <1>1, <1>2 DEF IsPrinted

(* Of two replies that begin alike, so do the tables.                      *)
LEMMA PrintedAgree ==
  ASSUME NEW s \in Seq(Char), NEW t \in Seq(Char), NEW p, NEW q,
         IsPrinted(s, p), IsPrinted(t, q),
         NEW k \in Nat, k <= Len(s), k <= Len(t), \A i \in 1..k : s[i] = t[i]
  PROVE  p[k] = q[k]
<1> DEFINE M == {n \in Nat : n <= k => p[n] = q[n]}
<1>1. Len(s) \in Nat /\ Len(t) \in Nat
  OBVIOUS
<1>2. 0 \in M
  BY DEF IsPrinted
<1>3. ASSUME NEW n \in Nat, n \in M PROVE n + 1 \in M
  <2>1. SUFFICES ASSUME n + 1 <= k PROVE p[n + 1] = q[n + 1]
    OBVIOUS
  <2>2. /\ n + 1 \in 1..Len(s) /\ n + 1 \in 1..Len(t) /\ n + 1 \in 1..k
        /\ (n + 1) - 1 = n /\ p[n] = q[n]
    BY <1>1, <1>3, <2>1
  <2>3. /\ p[n + 1] = p[(n + 1) - 1] \o Ink(s[n + 1])
        /\ q[n + 1] = q[(n + 1) - 1] \o Ink(t[n + 1])
    BY <2>2 DEF IsPrinted
  <2>4. QED
    BY <2>2, <2>3
<1>4. k \in M
  <2> HIDE DEF M
  <2>1. QED
    BY <1>2, <1>3, NatInduct
<1>5. QED
  BY <1>4

LEMMA PrintedEmpty == PrintedOf(<<>>) = <<>>
<1>1. <<>> \in Seq(Char) /\ Len(<<>>) = 0
  OBVIOUS
<1>2. PICK p : IsPrinted(<<>>, p) /\ PrintedOf(<<>>) = p[Len(<<>>)]
  BY <1>1, PrintedRows
<1>3. QED
  BY <1>1, <1>2 DEF IsPrinted

LEMMA PrintedAppend ==
  ASSUME NEW s \in Seq(Char), NEW ch \in Char
  PROVE  PrintedOf(s \o <<ch>>) = PrintedOf(s) \o Ink(ch)
<1> DEFINE t == s \o <<ch>>
           L == Len(s)
<1>1. /\ t \in Seq(Char) /\ L \in Nat /\ Len(t) = L + 1 /\ t[L + 1] = ch
      /\ \A i \in 1..L : t[i] = s[i]
  OBVIOUS
<1>2. PICK p : IsPrinted(s, p) /\ PrintedOf(s) = p[L]
  BY PrintedRows
<1>3. PICK q : IsPrinted(t, q) /\ PrintedOf(t) = q[L + 1]
  BY <1>1, PrintedRows
<1> HIDE DEF t, L
<1>4. p[L] = q[L]
  <2>1. L <= L /\ L <= Len(t) /\ \A i \in 1..L : s[i] = t[i]
    BY <1>1
  <2>2. QED
    BY <1>1, <1>2, <1>3, <2>1, PrintedAgree DEF L
<1>5. q[L + 1] = q[L] \o Ink(ch)
  <2>1. L + 1 \in 1..Len(t) /\ (L + 1) - 1 = L
    BY <1>1
  <2>2. q[L + 1] = q[(L + 1) - 1] \o Ink(t[L + 1])
    BY <1>3, <2>1 DEF IsPrinted
  <2>3. QED
    BY <1>1, <2>1, <2>2
<1>6. PrintedOf(t) = PrintedOf(s) \o Ink(ch)
  BY <1>2, <1>3, <1>4, <1>5
<1>7. QED
  BY <1>6 DEF t

LEMMA PrintedConcat ==
  ASSUME NEW s \in Seq(Char), NEW t \in Seq(Char)
  PROVE  PrintedOf(s \o t) = PrintedOf(s) \o PrintedOf(t)
<1> DEFINE Good(u) == PrintedOf(s \o u) = PrintedOf(s) \o PrintedOf(u)
           M == {n \in Nat : \A u \in Seq(Char) : Len(u) = n => Good(u)}
<1>1. 0 \in M
  <2>1. ASSUME NEW u \in Seq(Char), Len(u) = 0 PROVE Good(u)
    <3>1. u = <<>>
      BY <2>1
    <3>2. s \o <<>> = s /\ PrintedOf(s) \o <<>> = PrintedOf(s)
      BY PrintedType, ConcatEmptySeq
    <3>3. QED
      BY <3>1, <3>2, PrintedEmpty
  <2>2. QED
    BY <2>1
<1>2. ASSUME NEW n \in Nat, n \in M PROVE n + 1 \in M
  <2>1. SUFFICES ASSUME NEW u \in Seq(Char), Len(u) = n + 1 PROVE Good(u)
    OBVIOUS
  <2>2. PICK v \in Seq(Char), ch \in Char : u = Append(v, ch)
    <3>1. u # <<>>
      BY <2>1
    <3>2. QED
      BY <3>1, SequenceEmptyOrAppend
  <2>3. u = v \o <<ch>> /\ Len(v) = n /\ <<ch>> \in Seq(Char)
    BY <2>1, <2>2, AppendProperties, AppendIsConcat
  <2>4. s \o u = (s \o v) \o <<ch>> /\ s \o v \in Seq(Char)
    BY <2>3, ConcatAssociative, ConcatProperties
  <2>5. PrintedOf(s \o u) = PrintedOf(s \o v) \o Ink(ch)
    BY <2>4, PrintedAppend
  <2>6. PrintedOf(s \o v) = PrintedOf(s) \o PrintedOf(v)
    BY <1>2, <2>3
  <2>7. PrintedOf(u) = PrintedOf(v) \o Ink(ch)
    BY <2>3, PrintedAppend
  <2>8. (PrintedOf(s) \o PrintedOf(v)) \o Ink(ch) = PrintedOf(s) \o (PrintedOf(v) \o Ink(ch))
    <3>1. PrintedOf(s) \in Seq(Char) /\ PrintedOf(v) \in Seq(Char) /\ Ink(ch) \in Seq(Char)
      BY PrintedType, InkType
    <3> DEFINE a == PrintedOf(s)
               b == PrintedOf(v)
               c == Ink(ch)
    <3>2. a \in Seq(Char) /\ b \in Seq(Char) /\ c \in Seq(Char)
      BY <3>1
    <3> HIDE DEF a, b, c
    <3>3. (a \o b) \o c = a \o (b \o c)
      <4> DEFINE S == Char
      <4>1. a \in Seq(S) /\ b \in Seq(S) /\ c \in Seq(S)
        BY <3>2
      <4> HIDE DEF S
      <4>2. QED
        BY ONLY <4>1, ConcatAssociative, SMTT(60)
    <3>4. QED
      BY <3>3 DEF a, b, c
  <2>9. QED
    BY <2>5, <2>6, <2>7, <2>8
<1>3. Len(t) \in M
  <2>1. Len(t) \in Nat
    OBVIOUS
  <2> HIDE DEF M
  <2>2. QED
    BY <1>1, <1>2, <2>1, NatInduct
<1>4. QED
  BY <1>3

LEMMA PrintedBlank ==
  ASSUME NEW s \in Seq(Char), \A i \in 1..Len(s) : Blank(s[i])
  PROVE  PrintedOf(s) = <<>>
<1>1. PICK p : IsPrinted(s, p) /\ PrintedOf(s) = p[Len(s)]
  BY PrintedRows
<1> DEFINE M == {n \in Nat : n <= Len(s) => p[n] = <<>>}
<1>2. 0 \in M
  BY <1>1 DEF IsPrinted
<1>3. ASSUME NEW n \in Nat, n \in M PROVE n + 1 \in M
  <2>1. SUFFICES ASSUME n + 1 <= Len(s) PROVE p[n + 1] = <<>>
    OBVIOUS
  <2>2. n + 1 \in 1..Len(s) /\ (n + 1) - 1 = n /\ p[n] = <<>>
    BY <1>3, <2>1
  <2>3. p[n + 1] = p[(n + 1) - 1] \o Ink(s[n + 1])
    BY <1>1, <2>2 DEF IsPrinted
  <2>4. Ink(s[n + 1]) = <<>>
    BY <2>2 DEF Ink, Printed
  <2>5. <<>> \o <<>> = <<>>
    OBVIOUS
  <2>6. QED
    BY <2>2, <2>3, <2>4, <2>5
<1>4. Len(s) \in M
  <2>1. Len(s) \in Nat
    OBVIOUS
  <2> HIDE DEF M
  <2>2. QED
    BY <1>2, <1>3, <2>1, NatInduct
<1>5. QED
  BY <1>1, <1>4

-----------------------------------------------------------------------------
(***************************************************************************)
(* What is cut off, and what is trimmed.                                   *)
(***************************************************************************)

(* The greatest and the least of some numbers within bounds.               *)
LEMMA Greatest ==
  ASSUME NEW a \in Int, NEW b \in Int, NEW I, I \subseteq a..b, I # {}
  PROVE  Max(I) \in I /\ \A y \in I : y <= Max(I)
<1> DEFINE T == {n \in Nat : b - n \in I}
<1>1. T # {}
  <2>1. PICK y \in I : TRUE
    OBVIOUS
  <2>2. b - y \in Nat /\ b - (b - y) = y
    BY <2>1
  <2>3. b - y \in T
    BY <2>1, <2>2
  <2>4. QED
    BY <2>3
<1>2. PICK n \in T : \A m \in T : ~ (<<m, n>> \in OpToRel(<, Nat))
  BY <1>1, NatLessThanWellFounded, WFMin
<1>3. ASSUME NEW y \in I PROVE y <= b - n
  <2>1. b - y \in Nat /\ b - (b - y) = y /\ y \in Int
    OBVIOUS
  <2>2. b - y \in T
    BY <2>1
  <2>3. ~ (b - y < n)
    <3>1. SUFFICES ASSUME b - y < n PROVE FALSE
      OBVIOUS
    <3>2. n \in Nat
      OBVIOUS
    <3>3. <<b - y, n>> \in OpToRel(<, Nat)
      BY <2>1, <3>1, <3>2 DEF OpToRel
    <3>4. QED
      BY <1>2, <2>2, <3>3
  <2>4. n \in Nat
    OBVIOUS
  <2>5. QED
    BY <2>1, <2>3, <2>4
<1>4. b - n \in I
  BY <1>2
<1>5. \E x \in I : \A y \in I : x >= y
  BY <1>3, <1>4
<1>6. Max(I) \in I /\ \A y \in I : Max(I) >= y
  BY <1>5 DEF Max
<1>7. QED
  BY <1>6

LEMMA Least ==
  ASSUME NEW n \in Nat, NEW I, I \subseteq 1..n, I # {}
  PROVE  Min(I) \in I /\ \A y \in I : Min(I) <= y
<1>1. PICK x \in I : \A y \in I : ~ (<<y, x>> \in OpToRel(<, Nat))
  <2>1. I \subseteq Nat
    OBVIOUS
  <2>2. QED
    BY <2>1, NatLessThanWellFounded, WFMin
<1>2. ASSUME NEW y \in I PROVE x <= y
  <2>1. SUFFICES ASSUME y < x PROVE FALSE
    OBVIOUS
  <2>2. <<y, x>> \in OpToRel(<, Nat)
    BY <2>1 DEF OpToRel
  <2>3. QED
    BY <1>1, <2>2
<1>3. \E z \in I : \A y \in I : z <= y
  BY <1>2
<1>4. QED
  BY <1>3 DEF Min

(* A stretch of a reply, possibly empty.                                   *)
LEMMA Stretch ==
  ASSUME NEW s \in Seq(Char), NEW m \in 1..(Len(s) + 1), NEW n \in (m - 1)..Len(s)
  PROVE  /\ SubSeq(s, m, n) \in Seq(Char)
         /\ Len(SubSeq(s, m, n)) = n - m + 1
         /\ \A i \in 1..(n - m + 1) : SubSeq(s, m, n)[i] = s[m + i - 1]
<1>1. Len(s) \in Nat /\ m \in Int /\ n \in Int
  OBVIOUS
<1>2. \A i \in m..n : s[i] \in Char
  BY <1>1
<1>3. /\ SubSeq(s, m, n) \in Seq(Char)
      /\ Len(SubSeq(s, m, n)) = IF m <= n THEN n - m + 1 ELSE 0
      /\ \A i \in 1..(n - m + 1) : SubSeq(s, m, n)[i] = s[m + i - 1]
  BY <1>1, <1>2, SubSeqProperties
<1>4. n - m + 1 = IF m <= n THEN n - m + 1 ELSE 0
  BY <1>1
<1>5. QED
  BY <1>3, <1>4

(* What is printed of a reply is what is printed of its two parts.         *)
LEMMA PrintedParts ==
  ASSUME NEW s \in Seq(Char), NEW k \in 0..Len(s)
  PROVE  PrintedOf(s) = PrintedOf(SubSeq(s, 1, k)) \o PrintedOf(SubSeq(s, k + 1, Len(s)))
<1>1. Len(s) \in Nat
  OBVIOUS
<1>2. SubSeq(s, 1, k) \in Seq(Char) /\ SubSeq(s, k + 1, Len(s)) \in Seq(Char)
  <2>1. /\ 1 \in 1..(Len(s) + 1) /\ k \in (1 - 1)..Len(s)
        /\ k + 1 \in 1..(Len(s) + 1) /\ Len(s) \in ((k + 1) - 1)..Len(s)
    BY <1>1
  <2>2. QED
    BY <2>1, Stretch
<1>3. SubSeq(s, 1, k) \o SubSeq(s, k + 1, Len(s)) = s
  <2>1. 1 \in 1..(Len(s) + 1) /\ k \in (1 - 1)..Len(s) /\ Len(s) \in k..Len(s)
    BY <1>1
  <2>2. SubSeq(s, 1, k) \o SubSeq(s, k + 1, Len(s)) = SubSeq(s, 1, Len(s))
    BY <2>1, ConcatAdjacentSubSeq
  <2>3. QED
    BY <2>2, SubSeqFull
<1>4. PrintedOf(SubSeq(s, 1, k) \o SubSeq(s, k + 1, Len(s)))
        = PrintedOf(SubSeq(s, 1, k)) \o PrintedOf(SubSeq(s, k + 1, Len(s)))
  BY <1>2, PrintedConcat
<1>5. QED
  BY <1>3, <1>4

(* trim takes the blanks off both ends, and nothing else.                  *)
LEMMA Trimmed ==
  ASSUME NEW s \in Seq(Char)
  PROVE  /\ trim(s) \in Seq(Char)
         /\ Len(trim(s)) <= Len(s)
         /\ PrintedOf(trim(s)) = PrintedOf(s)
         /\ trim(s) # <<>> => Printed(trim(s)[1])
         /\ \A i \in 1..Len(s) : Printed(s[i]) => trim(s) # <<>>
         /\ \A k \in 1..Len(s) :
              Printed(s[k]) /\ (\A i \in (k + 1)..Len(s) : Blank(s[i])) =>
                Len(trim(s)) <= k /\ trim(s)[Len(trim(s))] = s[k]
<1> DEFINE I == {i \in DOMAIN s : Printed(s[i])}
           L == Len(s)
<1>1. L \in Nat /\ DOMAIN s = 1..L /\ \A i \in 1..L : s[i] \in Char
  OBVIOUS
<1>2. trim(s) = IF I = {} THEN <<>> ELSE SubSeq(s, Min(I), Max(I))
  BY DEF trim
<1>3. CASE I = {}
  <2>1. trim(s) = <<>> /\ Len(<<>>) = 0 /\ <<>> \in Seq(Char)
    BY <1>2, <1>3
  <2>2. \A i \in 1..L : Blank(s[i])
    BY <1>1, <1>3 DEF Printed
  <2>3. PrintedOf(s) = <<>>
    BY <2>2, PrintedBlank
  <2>4. \A i \in 1..L : ~ Printed(s[i])
    BY <1>1, <1>3
  <2>5. QED
    BY <1>1, <2>1, <2>3, <2>4, PrintedEmpty
<1>4. CASE I # {}
  <2> DEFINE m == Min(I)
             n == Max(I)
  <2>1. /\ m \in 1..L /\ n \in 1..L /\ m <= n
        /\ Printed(s[m]) /\ Printed(s[n])
        /\ \A i \in 1..L : Printed(s[i]) => m <= i /\ i <= n
    <3>1. I \subseteq 1..L
      BY <1>1
    <3>2. m \in I /\ \A y \in I : m <= y
      BY <1>1, <1>4, <3>1, Least
    <3>3. n \in I /\ \A y \in I : y <= n
      <4>1. 1 \in Int /\ L \in Int
        BY <1>1
      <4>2. QED
        BY <1>4, <3>1, <4>1, Greatest
    <3> HIDE DEF m, n
    <3>4. QED
      BY <1>1, <3>2, <3>3
  <2>2. trim(s) = SubSeq(s, m, n)
    BY <1>2, <1>4
  <2> HIDE DEF m, n, I
  <2>3. /\ trim(s) \in Seq(Char) /\ Len(trim(s)) = n - m + 1
        /\ \A i \in 1..(n - m + 1) : trim(s)[i] = s[m + i - 1]
    <3>1. m \in 1..(Len(s) + 1) /\ n \in (m - 1)..Len(s)
      BY <1>1, <2>1
    <3>2. QED
      BY <2>2, <3>1, Stretch
  <2>4. Len(trim(s)) <= L /\ trim(s) # <<>>
    <3>1. Len(trim(s)) # 0
      BY <2>1, <2>3
    <3>2. QED
      BY <1>1, <2>1, <2>3, <3>1
  <2>5. trim(s)[1] = s[m] /\ trim(s)[n - m + 1] = s[n]
    <3>1. 1 \in 1..(n - m + 1) /\ n - m + 1 \in 1..(n - m + 1) /\ m + 1 - 1 = m
          /\ m + (n - m + 1) - 1 = n
      BY <2>1
    <3>2. QED
      BY <2>3, <3>1
  <2>6. ASSUME NEW k \in 1..L, Printed(s[k]), \A i \in (k + 1)..L : Blank(s[i])
        PROVE  k = n
    <3>1. k <= n
      BY <2>1, <2>6
    <3>2. ~ (n > k)
      <4>1. SUFFICES ASSUME n > k PROVE FALSE
        OBVIOUS
      <4>2. n \in (k + 1)..L
        BY <1>1, <2>1, <4>1
      <4>3. QED
        BY <2>1, <2>6, <4>2 DEF Printed
    <3>3. QED
      BY <2>1, <3>1, <3>2
  <2>7. PrintedOf(s) = PrintedOf(trim(s))
    <3> DEFINE a == SubSeq(s, 1, m - 1)
               r == SubSeq(s, m, L)
               b == SubSeq(r, n - m + 2, Len(r))
    <3>1. a \in Seq(Char) /\ Len(a) = m - 1 /\ \A i \in 1..(m - 1) : a[i] = s[i]
      <4>1. 1 \in 1..(Len(s) + 1) /\ m - 1 \in (1 - 1)..Len(s) /\ (m - 1) - 1 + 1 = m - 1
        BY <1>1, <2>1
      <4>2. /\ a \in Seq(Char) /\ Len(a) = m - 1
            /\ \A i \in 1..(m - 1) : a[i] = s[1 + i - 1]
        BY <4>1, Stretch
      <4>3. \A i \in 1..(m - 1) : 1 + i - 1 = i
        OBVIOUS
      <4>4. QED
        BY <4>2, <4>3
    <3>2. r \in Seq(Char) /\ Len(r) = L - m + 1 /\ \A i \in 1..(L - m + 1) : r[i] = s[m + i - 1]
      <4>1. m \in 1..(Len(s) + 1) /\ L \in (m - 1)..Len(s)
        BY <1>1, <2>1
      <4>2. QED
        BY <4>1, Stretch
    <3> DEFINE c == n - m + 1
    <3>3. c \in 1..Len(r) /\ c \in 0..Len(r) /\ c + 1 = n - m + 2
      BY <1>1, <2>1, <3>2
    <3>4. b \in Seq(Char) /\ Len(b) = L - n /\ \A i \in 1..(L - n) : b[i] = r[c + i]
      <4>1. c + 1 \in 1..(Len(r) + 1) /\ Len(r) \in ((c + 1) - 1)..Len(r)
        BY <1>1, <2>1, <3>2, <3>3
      <4>2. /\ b \in Seq(Char) /\ Len(b) = Len(r) - (c + 1) + 1
            /\ \A i \in 1..(Len(r) - (c + 1) + 1) : b[i] = r[(c + 1) + i - 1]
        BY <3>2, <3>3, <4>1, Stretch
      <4>3. Len(r) - (c + 1) + 1 = L - n /\ \A i \in 1..(L - n) : (c + 1) + i - 1 = c + i
        BY <1>1, <2>1, <3>2
      <4>4. QED
        BY <4>2, <4>3
    <3>5. SubSeq(r, 1, c) = trim(s)
      <4>1. 1 \in 1..Len(s) /\ m \in 1..Len(s) /\ L \in 1..Len(s) /\ L \in Nat
            /\ 1 \in 1..(L - m + 1) /\ c \in 1..(L - m + 1)
        BY <1>1, <2>1, <3>2, <3>3
      <4>2. SubSeq(SubSeq(s, m, L), 1, c) = SubSeq(s, m + 1 - 1, m + c - 1)
        BY <4>1, SubSeqOfSubSeq
      <4>3. m + 1 - 1 = m /\ m + c - 1 = n
        BY <2>1
      <4>4. QED
        BY <2>2, <4>2, <4>3
    <3>6. PrintedOf(a) = <<>>
      <4>1. \A i \in 1..(m - 1) : Blank(s[i])
        <5> TAKE i \in 1..(m - 1)
        <5>1. i \in 1..L /\ ~ (m <= i)
          BY <1>1, <2>1
        <5>2. QED
          BY <2>1, <5>1 DEF Printed
      <4>2. \A i \in 1..Len(a) : Blank(a[i])
        BY <3>1, <4>1
      <4> HIDE DEF a
      <4>3. QED
        BY <3>1, <4>2, PrintedBlank
    <3>7. PrintedOf(b) = <<>>
      <4>1. \A i \in 1..(L - n) : Blank(b[i])
        <5> TAKE i \in 1..(L - n)
        <5>1. c + i \in 1..(L - m + 1) /\ n + i \in 1..L /\ ~ (n + i <= n) /\ m + (c + i) - 1 = n + i
          BY <1>1, <2>1
        <5>2. b[i] = s[n + i]
          <6>1. b[i] = r[c + i]
            BY <3>4
          <6>2. r[c + i] = s[m + (c + i) - 1]
            BY <3>2, <5>1
          <6>3. QED
            BY <5>1, <6>1, <6>2
        <5>3. QED
          BY <2>1, <5>1, <5>2 DEF Printed
      <4> HIDE DEF b
      <4>2. QED
        BY <3>4, <4>1, PrintedBlank
    <3>8. PrintedOf(s) = PrintedOf(a) \o PrintedOf(r)
      <4>1. m - 1 \in 0..Len(s) /\ (m - 1) + 1 = m
        BY <1>1, <2>1
      <4>2. QED
        BY <4>1, PrintedParts
    <3>9. PrintedOf(r) = PrintedOf(trim(s)) \o PrintedOf(b)
      <4>1. PrintedOf(r) = PrintedOf(SubSeq(r, 1, c)) \o PrintedOf(SubSeq(r, c + 1, Len(r)))
        <5> HIDE DEF r, c
        <5>1. QED
          BY <3>2, <3>3, PrintedParts
      <4>2. QED
        BY <3>3, <3>5, <4>1
    <3>10. PrintedOf(trim(s)) \in Seq(Char)
      BY <2>3, PrintedType
    <3> HIDE DEF a, r, b
    <3>11. QED
      BY <3>6, <3>7, <3>8, <3>9, <3>10, ConcatEmptySeq
  <2>8. QED
    BY <1>1, <2>1, <2>3, <2>4, <2>5, <2>6, <2>7
<1>5. QED
  BY <1>3, <1>4

-----------------------------------------------------------------------------
(***************************************************************************)
(* Where the code cuts.                                                    *)
(***************************************************************************)
LEMMA LastIndex ==
  ASSUME NEW s \in Seq(Char), NEW part \in Seq(Char), NEW from \in Nat
  PROVE  LET x == lastIndexOf(s, part, from)
         IN  /\ x \in Int /\ -1 <= x /\ x <= from
             /\ 0 <= x => /\ x <= Len(s) - Len(part)
                          /\ SubSeq(s, x + 1, x + Len(part)) = part
             /\ \A i \in 0..(Len(s) - Len(part)) :
                  i <= from /\ SubSeq(s, i + 1, i + Len(part)) = part => i <= x
<1> DEFINE I == {-1} \union {i \in 0..(Len(s) - Len(part)) :
                              i <= from /\ SubSeq(s, i + 1, i + Len(part)) = part}
           x == lastIndexOf(s, part, from)
           a == -1
           b == from
<1>1. a \in Int /\ b \in Int /\ I \subseteq a..b /\ I # {}
  OBVIOUS
<1>2. x = Max(I)
  BY DEF lastIndexOf
<1> HIDE DEF I, x, a, b
<1>3. x \in I /\ \A y \in I : y <= x
  BY <1>1, <1>2, Greatest
<1>4. -1 <= x /\ x \in Int /\ x <= from
  BY <1>1, <1>3 DEF I, a, b
<1>5. 0 <= x => x \in 0..(Len(s) - Len(part)) /\ SubSeq(s, x + 1, x + Len(part)) = part
  BY <1>3 DEF I
<1>6. ASSUME NEW i \in 0..(Len(s) - Len(part)),
             i <= from, SubSeq(s, i + 1, i + Len(part)) = part
      PROVE  i <= x
  BY <1>3, <1>6 DEF I
<1>7. QED
  BY <1>4, <1>5, <1>6 DEF x

(* The last end of a sentence begins with its mark, goes on with blanks,   *)
(* and stands in the reply.                                                *)
LEMMA SentenceEnd ==
  ASSUME NEW s \in Seq(Char), LastSentenceEnd(s) # <<>>
  PROVE  /\ LastSentenceEnd(s) \in Seq(Char)
         /\ Len(LastSentenceEnd(s)) >= 1
         /\ LastSentenceEnd(s)[1] = "."
         /\ \A i \in 2..Len(LastSentenceEnd(s)) : Blank(LastSentenceEnd(s)[i])
         /\ \E i \in 0..(Len(s) - Len(LastSentenceEnd(s))) :
              SubSeq(s, i + 1, i + Len(LastSentenceEnd(s))) = LastSentenceEnd(s)
<1> DEFINE e == LastSentenceEnd(s)
           L == Len(s)
           ends == {i \in DOMAIN s : s[i] = "."}
           m == Max(ends)
           blanks == {j \in m..L : \A i \in (m + 1)..j : Blank(s[i])}
           n == Max(blanks)
<1>1. L \in Nat /\ DOMAIN s = 1..L
  OBVIOUS
<1>2. ends # {} /\ e = SubSeq(s, m, n)
  BY DEF LastSentenceEnd
<1>3. m \in ends
  <2>1. 1 \in Int /\ L \in Int /\ ends \subseteq 1..L
    BY <1>1
  <2> HIDE DEF ends, L
  <2>2. QED
    BY <1>2, <2>1, Greatest
<1>4. m \in 1..L /\ s[m] = "."
  BY <1>1, <1>3
<1> HIDE DEF m
<1>5. n \in blanks
  <2>1. m \in Int /\ L \in Int /\ blanks \subseteq m..L
    BY <1>1, <1>4
  <2>2. m \in blanks
    BY <1>1, <1>4
  <2> HIDE DEF blanks, L
  <2>3. QED
    BY <2>1, <2>2, Greatest
<1>6. n \in m..L /\ \A i \in (m + 1)..n : Blank(s[i])
  BY <1>5
<1> HIDE DEF n, blanks
<1>7. e \in Seq(Char) /\ Len(e) = n - m + 1 /\ \A i \in 1..(n - m + 1) : e[i] = s[m + i - 1]
  <2>1. m \in 1..(Len(s) + 1) /\ n \in (m - 1)..Len(s)
    BY <1>1, <1>4, <1>6
  <2> HIDE DEF e
  <2>2. QED
    BY <1>2, <2>1, Stretch
<1> HIDE DEF e, L
<1>8. Len(e) >= 1 /\ e[1] = "."
  <2>1. 1 \in 1..(n - m + 1) /\ m + 1 - 1 = m /\ n - m + 1 >= 1
    BY <1>1, <1>4, <1>6
  <2>2. QED
    BY <1>4, <1>7, <2>1
<1>9. ASSUME NEW i \in 2..Len(e) PROVE Blank(e[i])
  <2>1. i \in 1..(n - m + 1) /\ m + i - 1 \in (m + 1)..n
    BY <1>1, <1>4, <1>6, <1>7
  <2>2. QED
    BY <1>6, <1>7, <2>1
<1>10. \E i \in 0..(L - Len(e)) : SubSeq(s, i + 1, i + Len(e)) = e
  <2>1. m - 1 \in 0..(L - Len(e)) /\ (m - 1) + 1 = m /\ (m - 1) + Len(e) = n
    BY <1>1, <1>4, <1>6, <1>7
  <2>2. SubSeq(s, (m - 1) + 1, (m - 1) + Len(e)) = e
    BY <1>2, <2>1
  <2>3. QED
    BY <2>1, <2>2
<1>11. QED
  BY <1>7, <1>8, <1>9, <1>10 DEF e, L

(* A cut falls within the reply, and at maxLength or before it, or in the  *)
(* blanks behind the mark of a sentence that stands so.                    *)
CutsWell(s, maxLength, cut) ==
  /\ cut \in 1..Len(s)
  /\ \/ cut <= maxLength
     \/ \E k \in 1..cut : /\ k <= maxLength + 1
                          /\ s[k] = "."
                          /\ \A i \in (k + 1)..cut : Blank(s[i])

LEMMA CutAfterSentence ==
  ASSUME NEW s \in Seq(Char), NEW maxLength \in Nat \ {0}, Len(s) > maxLength,
         NEW e, e = LastSentenceEnd(slice(s, 0, maxLength)), e # <<>>
  PROVE  CutsWell(s, maxLength, lastIndexOf(s, e, maxLength) + Len(e))
<1> DEFINE t == slice(s, 0, maxLength)
           x == lastIndexOf(s, e, maxLength)
<1>1. Len(s) \in Nat /\ maxLength \in Nat /\ t = SubSeq(s, 1, maxLength)
  BY DEF slice
<1>2. t \in Seq(Char) /\ Len(t) = maxLength /\ \A i \in 1..maxLength : t[i] = s[i]
  <2>1. 1 \in 1..(Len(s) + 1) /\ maxLength \in (1 - 1)..Len(s) /\ maxLength - 1 + 1 = maxLength
    BY <1>1
  <2>2. \A i \in 1..maxLength : 1 + i - 1 = i
    OBVIOUS
  <2> HIDE DEF t
  <2>3. /\ t \in Seq(Char) /\ Len(t) = maxLength - 1 + 1
        /\ \A i \in 1..(maxLength - 1 + 1) : t[i] = s[1 + i - 1]
    BY <1>1, <2>1, Stretch
  <2>4. QED
    BY <2>1, <2>2, <2>3
<1> HIDE DEF t
<1>3. /\ e \in Seq(Char) /\ Len(e) >= 1 /\ e[1] = "."
      /\ \A i \in 2..Len(e) : Blank(e[i])
      /\ \E i \in 0..(Len(t) - Len(e)) : SubSeq(t, i + 1, i + Len(e)) = e
  <2>1. e = LastSentenceEnd(t)
    BY DEF t
  <2>2. QED
    BY <1>2, <2>1, SentenceEnd
<1>4. Len(e) \in Nat
  BY <1>3
<1>5. PICK i \in 0..(maxLength - Len(e)) : SubSeq(t, i + 1, i + Len(e)) = e
  BY <1>2, <1>3
<1>6. SubSeq(s, i + 1, i + Len(e)) = e
  <2>1. 1 \in 1..Len(s) /\ maxLength \in 1..Len(s)
        /\ i + 1 \in 1..(maxLength - 1 + 1) /\ i + Len(e) \in 1..(maxLength - 1 + 1)
    BY <1>1, <1>3, <1>4, <1>5
  <2>2. SubSeq(SubSeq(s, 1, maxLength), i + 1, i + Len(e))
          = SubSeq(s, 1 + (i + 1) - 1, 1 + (i + Len(e)) - 1)
    BY <1>1, <2>1, SubSeqOfSubSeq
  <2>3. 1 + (i + 1) - 1 = i + 1 /\ 1 + (i + Len(e)) - 1 = i + Len(e)
    BY <1>4
  <2>4. QED
    BY <1>1, <1>5, <2>2, <2>3
<1>7. /\ x \in Int /\ x <= maxLength
      /\ 0 <= x => x <= Len(s) - Len(e) /\ SubSeq(s, x + 1, x + Len(e)) = e
      /\ \A j \in 0..(Len(s) - Len(e)) :
           j <= maxLength /\ SubSeq(s, j + 1, j + Len(e)) = e => j <= x
  BY <1>1, <1>3, LastIndex
<1> HIDE DEF x
<1>8. 0 <= x
  <2>1. i \in 0..(Len(s) - Len(e)) /\ i <= maxLength /\ i >= 0
    BY <1>1, <1>4, <1>5
  <2>2. i <= x
    BY <1>6, <1>7, <2>1
  <2>3. QED
    BY <1>7, <2>1, <2>2
<1>9. \A j \in 1..Len(e) : s[x + j] = e[j]
  <2>1. x + 1 \in 1..(Len(s) + 1) /\ x + Len(e) \in ((x + 1) - 1)..Len(s)
        /\ (x + Len(e)) - (x + 1) + 1 = Len(e)
    BY <1>1, <1>4, <1>7, <1>8
  <2>2. \A j \in 1..((x + Len(e)) - (x + 1) + 1) :
          SubSeq(s, x + 1, x + Len(e))[j] = s[(x + 1) + j - 1]
    BY <2>1, Stretch
  <2>3. \A j \in 1..Len(e) : (x + 1) + j - 1 = x + j
    BY <1>7
  <2>4. QED
    BY <1>7, <1>8, <2>1, <2>2, <2>3
<1> DEFINE k == x + 1
           cut == x + Len(e)
<1>10. cut \in 1..Len(s) /\ k \in 1..cut /\ k <= maxLength + 1
  BY <1>1, <1>3, <1>4, <1>7, <1>8
<1>11. s[k] = "."
  <2>1. 1 \in 1..Len(e)
    BY <1>3, <1>4
  <2>2. QED
    BY <1>3, <1>9, <2>1
<1>12. ASSUME NEW j \in (k + 1)..cut PROVE Blank(s[j])
  <2>1. j - x \in 2..Len(e) /\ j - x \in 1..Len(e) /\ x + (j - x) = j
    BY <1>4, <1>7
  <2>2. s[j] = e[j - x]
    BY <1>9, <2>1
  <2>3. QED
    BY <1>3, <2>1, <2>2
<1>13. CutsWell(s, maxLength, cut)
  <2> HIDE DEF k, cut
  <2>1. QED
    BY <1>10, <1>11, <1>12 DEF CutsWell
<1>14. QED
  BY <1>13 DEF x

LEMMA SplitCuts ==
  ASSUME NEW s \in Seq(Char), NEW maxLength \in Nat \ {0}, Len(s) > maxLength
  PROVE  CutsWell(s, maxLength, SplitAt(s, maxLength))
<1> DEFINE FoundAt(part) == lastIndexOf(s, part, maxLength)
           paragraph == FoundAt(<<"\n", "\n">>)
           line == IF TooEarly(paragraph, maxLength) THEN FoundAt(<<"\n">>) ELSE paragraph
           end == LastSentenceEnd(slice(s, 0, maxLength))
           sentence == IF TooEarly(line, maxLength) /\ end # <<>>
                       THEN lastIndexOf(s, end, maxLength) + Len(end) ELSE line
           word == IF TooEarly(sentence, maxLength) THEN FoundAt(<<" ">>) ELSE sentence
           cut == IF TooEarly(word, maxLength) THEN maxLength ELSE word
<1>1. SplitAt(s, maxLength) = cut
  BY DEF SplitAt
<1>2. Len(s) \in Nat /\ maxLength \in Nat /\ maxLength >= 1 /\ maxLength <= Len(s)
  OBVIOUS
<1>3. ASSUME NEW x \in Int, x <= maxLength, ~ TooEarly(x, maxLength)
      PROVE  CutsWell(s, maxLength, x)
  <2>1. x >= 1
    BY <1>2, <1>3 DEF TooEarly
  <2>2. QED
    BY <1>2, <1>3, <2>1 DEF CutsWell
<1>4. CutsWell(s, maxLength, maxLength)
  BY <1>2 DEF CutsWell
<1>5. ASSUME NEW part \in Seq(Char) PROVE FoundAt(part) \in Int /\ FoundAt(part) <= maxLength
  BY <1>2, LastIndex
<1>6. <<"\n", "\n">> \in Seq(Char) /\ <<"\n">> \in Seq(Char) /\ <<" ">> \in Seq(Char)
  <2>1. "\n" \in Char /\ " " \in Char
    BY ZenonT(10) DEF Char
  <2>2. \A a, b \in Char : <<a, b>> \in Seq(Char) /\ <<a>> \in Seq(Char)
    OBVIOUS
  <2>3. QED
    BY ONLY <2>1, <2>2, Zenon
<1> HIDE DEF FoundAt
<1>7. line \in Int /\ line <= maxLength
  BY <1>5, <1>6
<1>8. end # <<>> => CutsWell(s, maxLength, lastIndexOf(s, end, maxLength) + Len(end))
  BY CutAfterSentence
<1> HIDE DEF end, line
<1>9. sentence = line \/ CutsWell(s, maxLength, sentence)
  BY <1>8
<1> HIDE DEF sentence
<1>10. word = sentence \/ (word \in Int /\ word <= maxLength)
  BY <1>5, <1>6
<1> HIDE DEF word
<1>11. CutsWell(s, maxLength, cut)
  <2>1. CASE TooEarly(word, maxLength)
    BY <1>4, <2>1
  <2>2. CASE ~ TooEarly(word, maxLength)
    BY <1>3, <1>7, <1>9, <1>10, <2>2
  <2>3. QED
    BY <2>1, <2>2
<1>12. QED
  BY <1>1, <1>11

-----------------------------------------------------------------------------
(***************************************************************************)
(* The pieces, one behind the other.                                       *)
(***************************************************************************)
IsFlat(cs, p) ==
  /\ p \in [0..Len(cs) -> Seq(Char)]
  /\ p[0] = <<>>
  /\ \A n \in 1..Len(cs) : p[n] = p[n - 1] \o cs[n]

(* FlattenSeq is the last row of such a table.                             *)
LEMMA FlatRows ==
  ASSUME NEW cs, cs \in Seq(Seq(Char))
  PROVE  \E p : IsFlat(cs, p) /\ FlattenSeq(cs) = p[Len(cs)]
<1> DEFINE L == Len(cs)
           S == Seq(Char)
           first == <<>>
           step == [i \in Nat |-> [v \in S |-> IF i + 1 <= L THEN v \o cs[i + 1] ELSE v]]
           Row(g, n) == IF n = 1 THEN cs[n] ELSE g[n - 1] \o cs[n]
           flatten[n \in 1..L] == IF n = 1 THEN cs[n] ELSE flatten[n - 1] \o cs[n]
<1>1. L \in Nat /\ first \in S /\ \A i \in 1..L : cs[i] \in S
  OBVIOUS
<1>2. step \in [Nat -> [S -> S]]
  <2>1. ASSUME NEW i \in Nat, NEW v \in S
        PROVE  (IF i + 1 <= L THEN v \o cs[i + 1] ELSE v) \in S
    <3>1. CASE i + 1 <= L
      <4>1. i + 1 \in 1..L
        BY <1>1, <3>1
      <4>2. cs[i + 1] \in Seq(Char)
        BY <1>1, <4>1
      <4>3. v \o cs[i + 1] \in Seq(Char)
        BY <4>2, ConcatProperties
      <4>4. QED
        BY <3>1, <4>3
    <3>2. CASE ~ (i + 1 <= L)
      BY <3>2
    <3>3. QED
      BY <3>1, <3>2
  <2> HIDE DEF S
  <2>2. QED
    BY <2>1
<1>3. PICK g : Iterates(g, S, first, step)
  <2> HIDE DEF S, first, step, flatten
  <2>1. QED
    BY ONLY <1>1, <1>2, IterationExists
<1>4. /\ g \in [Nat -> S] /\ g[0] = <<>>
      /\ \A i \in Nat : g[i + 1] = step[i][g[i]]
  BY <1>3 DEF Iterates
<1>5. ASSUME NEW n \in 1..L PROVE g[n] = g[n - 1] \o cs[n]
  <2>1. n - 1 \in Nat /\ (n - 1) + 1 = n /\ n <= L
    BY <1>1
  <2>2. g[n] = step[n - 1][g[n - 1]] /\ g[n - 1] \in S
    BY ONLY <1>4, <2>1
  <2> HIDE DEF S
  <2>3. QED
    BY <2>1, <2>2
<1> DEFINE p == [n \in 0..L |-> g[n]]
<1>6. IsFlat(cs, p)
  <2>1. p \in [0..L -> Seq(Char)] /\ p[0] = <<>>
    BY <1>1, <1>4
  <2>2. ASSUME NEW n \in 1..L PROVE p[n] = p[n - 1] \o cs[n]
    <3>1. n \in 0..L /\ n - 1 \in 0..L
      BY <1>1
    <3>2. p[n] = g[n] /\ p[n - 1] = g[n - 1]
      BY <3>1
    <3>3. QED
      BY <1>5, <3>2
  <2> HIDE DEF p
  <2>3. QED
    BY <2>1, <2>2 DEF IsFlat
<1> HIDE DEF p
<1>7. CASE L = 0
  <2>1. cs = <<>> /\ FlattenSeq(cs) = cs
    BY <1>7 DEF FlattenSeq
  <2>2. QED
    BY <1>6, <1>7, <2>1 DEF IsFlat
<1>8. CASE L # 0
  <2>1. \A n \in 1..L : p[n] = Row(p, n)
    <3> TAKE n \in 1..L
    <3>1. p[n] = p[n - 1] \o cs[n] /\ cs[n] \in Seq(Char)
      BY <1>1, <1>6 DEF IsFlat
    <3>2. CASE n = 1
      <4>1. n - 1 = 0 /\ p[0] = <<>>
        BY <1>6, <3>2 DEF IsFlat
      <4>2. <<>> \o cs[n] = cs[n]
        BY <3>1, ConcatEmptySeq
      <4>3. QED
        BY <3>1, <3>2, <4>1, <4>2
    <3>3. QED
      BY <3>1, <3>2
  <2> DEFINE f == [n \in 1..L |-> p[n]]
  <2>2. \E h : h = [n \in 1..L |-> Row(h, n)]
    <3>1. \A n \in 1..L : Row(f, n) = Row(p, n)
      <4> TAKE n \in 1..L
      <4>1. CASE n = 1
        BY ONLY <4>1
      <4>2. CASE n # 1
        <5>1. n - 1 \in 1..L
          BY <1>1, <4>2
        <5>2. f[n - 1] = p[n - 1]
          BY <5>1
        <5> HIDE DEF f
        <5>3. Row(f, n) = f[n - 1] \o cs[n] /\ Row(p, n) = p[n - 1] \o cs[n]
          BY ONLY <4>2
        <5> HIDE DEF Row
        <5>4. QED
          BY ONLY <5>2, <5>3
      <4>3. QED
        BY <4>1, <4>2
    <3> HIDE DEF Row
    <3>2. f = [n \in 1..L |-> Row(f, n)]
      BY <2>1, <3>1
    <3> HIDE DEF f
    <3>3. QED
      BY <3>2
  <2>3. flatten = [n \in 1..L |-> Row(flatten, n)]
    BY <2>2
  <2>4. FlattenSeq(cs) = flatten[L]
    BY <1>8 DEF FlattenSeq
  <2> HIDE DEF flatten, f
  <2>5. \A n \in 1..L : flatten[n] = Row(flatten, n)
    <3> HIDE DEF Row
    <3>1. QED
      BY ONLY <2>3
  <2> DEFINE M == {n \in Nat : n + 1 <= L => flatten[n + 1] = p[n + 1]}
  <2>6. 0 \in M
    <3>1. 1 \in 1..L /\ 0 + 1 = 1
      BY <1>1, <1>8
    <3>2. QED
      BY <2>1, <2>5, <3>1
  <2>7. ASSUME NEW n \in Nat, n \in M PROVE n + 1 \in M
    <3>1. SUFFICES ASSUME (n + 1) + 1 <= L PROVE flatten[(n + 1) + 1] = p[(n + 1) + 1]
      OBVIOUS
    <3> DEFINE m == (n + 1) + 1
    <3>2. m \in 1..L /\ m # 1 /\ m - 1 = n + 1 /\ n + 1 <= L /\ n \in Nat
      BY <1>1, <3>1
    <3>3. flatten[n + 1] = p[n + 1]
      BY <2>7, <3>2
    <3> HIDE DEF m
    <3>4. flatten[m] = flatten[m - 1] \o cs[m] /\ p[m] = p[m - 1] \o cs[m]
      BY <2>1, <2>5, <3>2
    <3>5. flatten[m] = p[m]
      BY <3>2, <3>3, <3>4
    <3>6. QED
      BY <3>5 DEF m
  <2>8. L - 1 \in M
    <3>1. L - 1 \in Nat
      BY <1>1, <1>8
    <3> HIDE DEF M
    <3>2. QED
      BY <2>6, <2>7, <3>1, NatInduct
  <2>9. flatten[L] = p[L]
    <3>1. (L - 1) + 1 = L
      BY <1>1
    <3>2. QED
      BY <1>1, <2>8, <3>1
  <2>10. QED
    BY <1>6, <2>4, <2>9
<1>9. QED
  BY <1>7, <1>8

(* A piece in front of others.                                             *)
LEMMA FlatCons ==
  ASSUME NEW c \in Seq(Char), NEW cs \in Seq(Seq(Char))
  PROVE  /\ <<c>> \o cs \in Seq(Seq(Char))
         /\ Len(<<c>> \o cs) = Len(cs) + 1
         /\ (<<c>> \o cs)[1] = c
         /\ \A n \in 1..Len(cs) : (<<c>> \o cs)[n + 1] = cs[n]
         /\ FlattenSeq(cs) \in Seq(Char)
         /\ FlattenSeq(<<c>> \o cs) = c \o FlattenSeq(cs)
<1> DEFINE V == Seq(Char)
           ds == <<c>> \o cs
           L == Len(cs)
<1>1. /\ ds \in Seq(V) /\ L \in Nat /\ Len(ds) = L + 1 /\ ds[1] = c
      /\ \A n \in 1..L : ds[n + 1] = cs[n]
  <2>1. c \in V /\ cs \in Seq(V)
    OBVIOUS
  <2> HIDE DEF V
  <2>2. QED
    BY <2>1
<1>2. PICK p : IsFlat(cs, p) /\ FlattenSeq(cs) = p[L]
  BY FlatRows
<1>3. PICK q : IsFlat(ds, q) /\ FlattenSeq(ds) = q[L + 1]
  <2> HIDE DEF ds, L
  <2>1. QED
    BY <1>1, FlatRows
<1>4. /\ p \in [0..L -> Seq(Char)] /\ p[0] = <<>>
      /\ \A n \in 1..L : p[n] = p[n - 1] \o cs[n]
  BY <1>2 DEF IsFlat
<1> HIDE DEF ds
<1>5. q[0] = <<>> /\ \A n \in 1..(L + 1) : q[n] = q[n - 1] \o ds[n]
  BY <1>1, <1>3 DEF IsFlat
<1>6. \A n \in 1..L : cs[n] \in Seq(Char)
  OBVIOUS
<1> DEFINE M == {n \in Nat : n <= L => q[n + 1] = c \o p[n]}
<1>7. 0 \in M
  <2>1. 1 \in 1..(L + 1) /\ 1 - 1 = 0 /\ 0 + 1 = 1
    BY <1>1
  <2>2. q[1] = q[1 - 1] \o ds[1]
    BY <1>5, <2>1
  <2>3. <<>> \o c = c /\ c \o <<>> = c
    BY ConcatEmptySeq
  <2>4. q[0 + 1] = c \o p[0]
    BY <1>1, <1>4, <1>5, <2>1, <2>2, <2>3
  <2>5. QED
    BY <2>4
<1>8. ASSUME NEW n \in Nat, n \in M PROVE n + 1 \in M
  <2>1. SUFFICES ASSUME n + 1 <= L PROVE q[(n + 1) + 1] = c \o p[n + 1]
    OBVIOUS
  <2> DEFINE m == (n + 1) + 1
  <2>2. /\ m \in 1..(L + 1) /\ m - 1 = n + 1 /\ n <= L /\ n \in 0..L
        /\ n + 1 \in 1..L /\ (n + 1) - 1 = n /\ m = (n + 1) + 1
    BY <1>1, <2>1
  <2>3. q[n + 1] = c \o p[n]
    BY <1>8, <2>2
  <2> HIDE DEF m
  <2>4. q[m] = q[m - 1] \o ds[m]
    BY <1>5, <2>2
  <2>5. ds[m] = cs[n + 1]
    BY <1>1, <2>2
  <2>6. q[m] = (c \o p[n]) \o cs[n + 1]
    BY <2>2, <2>3, <2>4, <2>5
  <2>7. p[n + 1] = p[(n + 1) - 1] \o cs[n + 1]
    BY <1>4, <2>2
  <2>8. p[n + 1] = p[n] \o cs[n + 1]
    BY <2>2, <2>7
  <2>9. (c \o p[n]) \o cs[n + 1] = c \o (p[n] \o cs[n + 1])
    <3> DEFINE S == Char
               a == p[n]
               b == cs[n + 1]
    <3>1. c \in Seq(S) /\ a \in Seq(S) /\ b \in Seq(S)
      BY <1>4, <1>6, <2>2
    <3> HIDE DEF S, a, b
    <3>2. (c \o a) \o b = c \o (a \o b)
      BY ONLY <3>1, ConcatAssociative, SMTT(60)
    <3>3. QED
      BY <3>2 DEF a, b
  <2>10. QED
    BY <2>2, <2>6, <2>8, <2>9
<1>9. q[L + 1] = c \o p[L]
  <2>1. L \in M
    <3> HIDE DEF M
    <3>1. QED
      BY <1>1, <1>7, <1>8, NatInduct
  <2>2. QED
    BY <1>1, <2>1
<1>10. p[L] \in Seq(Char)
  <2>1. L \in 0..L
    BY <1>1
  <2>2. QED
    BY <1>4, <2>1
<1>11. QED
  BY <1>1, <1>2, <1>3, <1>9, <1>10 DEF ds

LEMMA FlatEmpty == FlattenSeq(<<>>) = <<>>
<1>1. Len(<<>>) = 0
  OBVIOUS
<1>2. QED
  BY <1>1 DEF FlattenSeq

-----------------------------------------------------------------------------
(***************************************************************************)
(* One cut, and the table of all of them.                                  *)
(***************************************************************************)
Piece(s, maxLength) == trim(slice(s, 0, SplitAt(s, maxLength)))
Remains(s, maxLength) == trim(slice(s, SplitAt(s, maxLength), Len(s)))

Short(c, maxLength) ==
  \/ Len(c) <= maxLength
  \/ Len(c) = maxLength + 1 /\ Last(c) = "."

LEMMA OneCut ==
  ASSUME NEW s \in Seq(Char), NEW maxLength \in Nat \ {0}, Len(s) > maxLength
  PROVE  /\ Piece(s, maxLength) \in Seq(Char)
         /\ Remains(s, maxLength) \in Seq(Char)
         /\ Len(Remains(s, maxLength)) < Len(s)
         /\ PrintedOf(s) = PrintedOf(Piece(s, maxLength)) \o PrintedOf(Remains(s, maxLength))
         /\ Piece(s, maxLength) = <<>> => Blank(s[1])
         /\ Remains(s, maxLength) # <<>> => Printed(Remains(s, maxLength)[1])
         /\ Short(Piece(s, maxLength), maxLength)
<1> DEFINE cut == SplitAt(s, maxLength)
           L == Len(s)
           a == SubSeq(s, 1, cut)
           b == SubSeq(s, cut + 1, L)
<1>1. CutsWell(s, maxLength, cut)
  BY SplitCuts
<1> HIDE DEF cut
<1>2. cut \in 1..L /\ L \in Nat /\ maxLength \in Nat
  BY <1>1 DEF CutsWell
<1>3. Piece(s, maxLength) = trim(a) /\ Remains(s, maxLength) = trim(b)
  <2>1. (IF cut < L THEN cut ELSE L) = cut /\ 0 + 1 = 1
    BY <1>2
  <2>2. slice(s, 0, cut) = a /\ slice(s, cut, L) = b
    BY <2>1 DEF slice
  <2>3. QED
    BY <2>2 DEF Piece, Remains, cut
<1>4. a \in Seq(Char) /\ Len(a) = cut /\ \A i \in 1..cut : a[i] = s[i]
  <2>1. 1 \in 1..(Len(s) + 1) /\ cut \in (1 - 1)..Len(s) /\ cut - 1 + 1 = cut
    BY <1>2
  <2>2. \A i \in 1..cut : 1 + i - 1 = i
    OBVIOUS
  <2>3. /\ a \in Seq(Char) /\ Len(a) = cut - 1 + 1
        /\ \A i \in 1..(cut - 1 + 1) : a[i] = s[1 + i - 1]
    BY <2>1, Stretch
  <2>4. QED
    BY <2>1, <2>2, <2>3
<1>5. b \in Seq(Char) /\ Len(b) = L - cut
  <2>1. cut + 1 \in 1..(Len(s) + 1) /\ Len(s) \in ((cut + 1) - 1)..Len(s)
        /\ L - (cut + 1) + 1 = L - cut
    BY <1>2
  <2>2. b \in Seq(Char) /\ Len(b) = Len(s) - (cut + 1) + 1
    BY <2>1, Stretch
  <2>3. QED
    BY <2>1, <2>2
<1>6. PrintedOf(s) = PrintedOf(a) \o PrintedOf(b)
  <2>1. cut \in 0..Len(s)
    BY <1>2
  <2>2. QED
    BY <2>1, PrintedParts
<1> HIDE DEF a, b
<1>7. /\ trim(a) \in Seq(Char) /\ Len(trim(a)) <= cut /\ PrintedOf(trim(a)) = PrintedOf(a)
      /\ \A i \in 1..cut : Printed(a[i]) => trim(a) # <<>>
      /\ \A k \in 1..cut :
           Printed(a[k]) /\ (\A i \in (k + 1)..cut : Blank(a[i])) =>
             Len(trim(a)) <= k /\ trim(a)[Len(trim(a))] = a[k]
  BY <1>4, Trimmed
<1>8. /\ trim(b) \in Seq(Char) /\ Len(trim(b)) <= L - cut /\ PrintedOf(trim(b)) = PrintedOf(b)
      /\ trim(b) # <<>> => Printed(trim(b)[1])
  BY <1>5, Trimmed
<1>9. Len(trim(b)) < L
  <2>1. Len(trim(b)) \in Nat
    BY <1>8
  <2>2. QED
    BY <1>2, <1>8, <2>1
<1>10. trim(a) = <<>> => Blank(s[1])
  <2>1. 1 \in 1..cut
    BY <1>2
  <2>2. QED
    BY <1>4, <1>7, <2>1 DEF Printed
<1>11. Short(trim(a), maxLength)
  <2>1. Len(trim(a)) \in Nat
    BY <1>7
  <2>2. CASE cut <= maxLength
    BY <1>2, <1>7, <2>1, <2>2 DEF Short
  <2>3. CASE \E k \in 1..cut : /\ k <= maxLength + 1
                               /\ s[k] = "."
                               /\ \A i \in (k + 1)..cut : Blank(s[i])
    <3>1. PICK k \in 1..cut : /\ k <= maxLength + 1
                              /\ s[k] = "."
                              /\ \A i \in (k + 1)..cut : Blank(s[i])
      BY <2>3
    <3>2. a[k] = "." /\ \A i \in (k + 1)..cut : Blank(a[i])
      BY <1>2, <1>4, <3>1
    <3>3. Printed(a[k])
      BY <3>2 DEF Printed, Blank
    <3>4. Len(trim(a)) <= k /\ trim(a)[Len(trim(a))] = "."
      BY <1>7, <3>2, <3>3
    <3>5. Last(trim(a)) = "."
      BY <3>4 DEF Last
    <3>6. Len(trim(a)) <= maxLength \/ Len(trim(a)) = maxLength + 1
      BY <1>2, <2>1, <3>1, <3>4
    <3>7. QED
      BY <3>5, <3>6 DEF Short
  <2>4. QED
    BY <1>1, <2>2, <2>3 DEF CutsWell
<1>12. QED
  BY <1>3, <1>6, <1>7, <1>8, <1>9, <1>10, <1>11 DEF L

(* A table of the pieces that every reply is cut into.                     *)
Chunks(f, s, maxLength) ==
  CASE s = <<>>                 -> <<>>
    [] Len(s) \in 1..maxLength -> <<s>>
    [] OTHER                    -> <<Piece(s, maxLength)>> \o f[Remains(s, maxLength)]

IsChunked(f, maxLength) == f = [s \in Seq(Char) |-> Chunks(f, s, maxLength)]

(* The three kinds of replies, one by one.                                 *)
LEMMA ChunksCases ==
  ASSUME NEW s \in Seq(Char), NEW maxLength \in Nat \ {0}, NEW f
  PROVE  /\ Len(s) \in Nat /\ Len(<<>>) = 0
         /\ s = <<>> => Chunks(f, s, maxLength) = <<>>
         /\ s # <<>> /\ Len(s) <= maxLength => Chunks(f, s, maxLength) = <<s>>
         /\ Len(s) > maxLength =>
              Chunks(f, s, maxLength) = <<Piece(s, maxLength)>> \o f[Remains(s, maxLength)]
         /\ s = <<>> \/ (s # <<>> /\ Len(s) <= maxLength) \/ Len(s) > maxLength
<1>1. Len(s) \in Nat /\ Len(<<>>) = 0 /\ maxLength \in Nat
  OBVIOUS
<1>2. s = <<>> => ~ (Len(s) > maxLength)
  BY <1>1
<1>3. Len(s) > maxLength => ~ (Len(s) <= maxLength)
  BY <1>1
<1>4. Len(s) <= maxLength \/ Len(s) > maxLength
  BY <1>1
<1>5. QED
  <2>1. s = <<>> => Chunks(f, s, maxLength) = <<>>
    BY <1>1 DEF Chunks
  <2>2. s # <<>> /\ Len(s) <= maxLength => Chunks(f, s, maxLength) = <<s>>
    <3>1. SUFFICES ASSUME s # <<>>, Len(s) <= maxLength PROVE Chunks(f, s, maxLength) = <<s>>
      OBVIOUS
    <3>2. Len(s) \in 1..maxLength
      <4>1. Len(s) # 0
        BY <3>1
      <4>2. QED
        BY <1>1, <3>1, <4>1
    <3>3. QED
      BY <3>1, <3>2 DEF Chunks
  <2>3. Len(s) > maxLength =>
          Chunks(f, s, maxLength) = <<Piece(s, maxLength)>> \o f[Remains(s, maxLength)]
    BY <1>1, <1>2, <1>3 DEF Chunks
  <2>4. s = <<>> \/ (s # <<>> /\ Len(s) <= maxLength) \/ Len(s) > maxLength
    BY <1>4
  <2>5. QED
    BY <1>1, <2>1, <2>2, <2>3, <2>4

LEMMA ChunkedExists ==
  ASSUME NEW maxLength, maxLength \in Nat \ {0}
  PROVE  \E f : IsChunked(f, maxLength)
<1> DEFINE R == Seq(Char)
           V == Seq(Seq(Char))
           S == [R -> V]
           first == [s \in R |-> <<>>]
           step == [i \in Nat |-> [f \in S |-> [s \in R |-> Chunks(f, s, maxLength)]]]
<1>1. first \in S
  OBVIOUS
<1>2. ASSUME NEW f \in S, NEW s \in R PROVE Chunks(f, s, maxLength) \in V
  <2>1. CASE s = <<>>
    <3>1. <<>> \in Seq(Seq(Char))
      OBVIOUS
    <3>2. QED
      BY <2>1, <3>1, ChunksCases
  <2>2. CASE s # <<>> /\ Len(s) <= maxLength
    <3>1. <<s>> \in Seq(Seq(Char))
      OBVIOUS
    <3>2. QED
      BY <2>2, <3>1, ChunksCases
  <2>3. CASE Len(s) > maxLength
    <3>1. Piece(s, maxLength) \in Seq(Char) /\ Remains(s, maxLength) \in R
      BY <2>3, OneCut
    <3>2. f[Remains(s, maxLength)] \in V
      BY <3>1
    <3>3. <<Piece(s, maxLength)>> \o f[Remains(s, maxLength)] \in V
      BY <3>1, <3>2, FlatCons
    <3>4. QED
      BY <2>3, <3>3, ChunksCases
  <2>4. QED
    BY <2>1, <2>2, <2>3, ChunksCases
<1>3. step \in [Nat -> [S -> S]]
  <2> HIDE DEF R, V
  <2>1. \A f \in S : [s \in R |-> Chunks(f, s, maxLength)] \in S
    BY <1>2
  <2> HIDE DEF S
  <2>2. QED
    BY <2>1
<1>4. PICK g : Iterates(g, S, first, step)
  <2> HIDE DEF S, first, step
  <2>1. QED
    BY ONLY <1>1, <1>3, IterationExists
<1>5. /\ g \in [Nat -> S] /\ g[0] = first
      /\ \A i \in Nat : g[i + 1] = step[i][g[i]]
  BY <1>4 DEF Iterates
<1>6. \A i \in Nat : \A s \in R : g[i + 1][s] = Chunks(g[i], s, maxLength)
  <2> TAKE i \in Nat
  <2>1. g[i] \in S /\ g[i + 1] = step[i][g[i]]
    BY <1>5
  <2> HIDE DEF S, R
  <2>2. g[i + 1] = [s \in R |-> Chunks(g[i], s, maxLength)]
    BY <2>1
  <2>3. QED
    BY <2>2
<1>7. \A s \in R : g[0][s] = <<>>
  BY <1>5
<1> HIDE DEF S, V, first, step
(* A row is right for every reply shorter than its number.                 *)
<1> DEFINE Alike(n, m, s) == g[n][s] = g[m][s]
           M == {n \in Nat : \A s \in R : Len(s) <= n => Alike(n + 1, n, s)}
<1>8. 0 \in M
  <2>1. ASSUME NEW s \in R, Len(s) <= 0 PROVE g[0 + 1][s] = g[0][s]
    <3>1. s = <<>>
      BY <2>1
    <3>2. g[0 + 1][s] = <<>>
      BY <1>6, <3>1, ChunksCases
    <3>3. QED
      BY <1>7, <3>2
  <2>2. QED
    BY <2>1
<1>9. ASSUME NEW n \in Nat, n \in M PROVE n + 1 \in M
  <2>1. SUFFICES ASSUME NEW s \in R, Len(s) <= n + 1
                 PROVE  g[(n + 1) + 1][s] = g[n + 1][s]
    OBVIOUS
  <2>2. /\ g[(n + 1) + 1][s] = Chunks(g[n + 1], s, maxLength)
        /\ g[n + 1][s] = Chunks(g[n], s, maxLength)
    BY <1>6
  <2>3. CASE Len(s) > maxLength
    <3>1. Remains(s, maxLength) \in R /\ Len(Remains(s, maxLength)) < Len(s)
      BY <2>3, OneCut
    <3>2. Len(Remains(s, maxLength)) <= n
      <4>1. Len(s) \in Nat /\ Len(Remains(s, maxLength)) \in Nat
        BY <3>1
      <4>2. QED
        BY <2>1, <3>1, <4>1
    <3>3. g[n + 1][Remains(s, maxLength)] = g[n][Remains(s, maxLength)]
      BY <1>9, <3>1, <3>2
    <3>4. QED
      BY <2>2, <2>3, <3>3, ChunksCases
  <2>4. QED
    BY <2>2, <2>3, ChunksCases
<1>10. M = Nat
  <2>1. M \subseteq Nat
    OBVIOUS
  <2> HIDE DEF M
  <2>2. QED
    BY <1>8, <1>9, <2>1, NatInduct
<1> DEFINE F == [s \in R |-> g[Len(s)][s]]
           N == {n \in Nat : \A s \in R : Len(s) <= n => g[n][s] = F[s]}
<1>11. 0 \in N
  <2>1. ASSUME NEW s \in R, Len(s) <= 0 PROVE Len(s) = 0
    BY <2>1
  <2>2. QED
    BY <2>1
<1>12. ASSUME NEW n \in Nat, n \in N PROVE n + 1 \in N
  <2>1. SUFFICES ASSUME NEW s \in R, Len(s) <= n + 1 PROVE g[n + 1][s] = F[s]
    OBVIOUS
  <2>2. F[s] = g[Len(s)][s] /\ Len(s) \in Nat
    OBVIOUS
  <2> HIDE DEF F
  <2>3. CASE Len(s) = n + 1
    BY <2>2, <2>3
  <2>4. CASE Len(s) # n + 1
    <3>1. Len(s) <= n
      BY <2>1, <2>2, <2>4
    <3>2. g[n][s] = F[s]
      BY <1>12, <3>1
    <3>3. g[n + 1][s] = g[n][s]
      BY <1>10, <3>1
    <3>4. QED
      BY <3>2, <3>3
  <2>5. QED
    BY <2>3, <2>4
<1>13. N = Nat
  <2>1. N \subseteq Nat
    OBVIOUS
  <2> HIDE DEF N
  <2>2. QED
    BY <1>11, <1>12, <2>1, NatInduct
<1>14. ASSUME NEW s \in R PROVE F[s] = Chunks(F, s, maxLength)
  <2>1. F[s] = g[Len(s)][s] /\ Len(s) \in Nat
    OBVIOUS
  <2> HIDE DEF F
  <2>2. CASE Len(s) = 0
    <3>1. s = <<>>
      BY <2>2
    <3>2. F[s] = <<>>
      BY <1>7, <2>1, <2>2
    <3>3. QED
      BY <3>1, <3>2, ChunksCases
  <2>3. CASE Len(s) # 0
    <3> DEFINE n == Len(s) - 1
    <3>1. n \in Nat /\ n + 1 = Len(s)
      BY <2>1, <2>3
    <3> HIDE DEF n
    <3>2. F[s] = Chunks(g[n], s, maxLength)
      <4>1. g[n + 1][s] = Chunks(g[n], s, maxLength)
        BY <1>6, <3>1
      <4>2. QED
        BY <2>1, <3>1, <4>1
    <3>3. CASE Len(s) > maxLength
      <4>1. Remains(s, maxLength) \in R /\ Len(Remains(s, maxLength)) < Len(s)
        BY <3>3, OneCut
      <4>2. Len(Remains(s, maxLength)) <= n
        <5>1. Len(Remains(s, maxLength)) \in Nat
          BY <4>1
        <5>2. QED
          BY <3>1, <4>1, <5>1
      <4>3. g[n][Remains(s, maxLength)] = F[Remains(s, maxLength)]
        BY <1>13, <3>1, <4>1, <4>2
      <4>4. QED
        BY <3>2, <3>3, <4>3, ChunksCases
    <3>4. QED
      BY <3>2, <3>3, ChunksCases
  <2>4. QED
    BY <2>2, <2>3
<1>15. IsChunked(F, maxLength)
  <2>1. F = [s \in R |-> F[s]]
    OBVIOUS
  <2> HIDE DEF F
  <2>2. F = [s \in R |-> Chunks(F, s, maxLength)]
    BY <1>14, <2>1
  <2>3. QED
    BY <2>2 DEF IsChunked
<1>16. QED
  <2> HIDE DEF F
  <2>1. QED
    BY <1>15

(* splitMessage cuts by such a table.                                      *)
LEMMA SplitByTable ==
  ASSUME NEW maxLength \in Nat \ {0}, NEW reply \in Seq(Char)
  PROVE  \E f : /\ IsChunked(f, maxLength)
                /\ splitMessage(reply, maxLength)
                     = IF Len(reply) <= maxLength THEN <<reply>> ELSE f[reply]
<1> DEFINE chunks[rest \in Seq(Char)] ==
             CASE rest = <<>>                 -> <<>>
               [] Len(rest) \in 1..maxLength -> <<rest>>
               [] OTHER ->
                    LET cut == SplitAt(rest, maxLength)
                    IN  <<trim(slice(rest, 0, cut))>> \o chunks[trim(slice(rest, cut, Len(rest)))]
<1>1. \E f : f = [s \in Seq(Char) |-> Chunks(f, s, maxLength)]
  BY ChunkedExists DEF IsChunked
<1>2. chunks = [s \in Seq(Char) |-> Chunks(chunks, s, maxLength)]
  BY <1>1 DEF Chunks, Piece, Remains
<1>3. splitMessage(reply, maxLength) = IF Len(reply) <= maxLength THEN <<reply>> ELSE chunks[reply]
  BY DEF splitMessage
<1> HIDE DEF chunks
<1>4. IsChunked(chunks, maxLength)
  BY <1>2 DEF IsChunked
<1>5. QED
  BY <1>3, <1>4

(* What is to be shown of a reply that is cut by a table.                  *)
CutRight(s, maxLength, cs) ==
  /\ cs \in Seq(Seq(Char))
  /\ PrintedOf(FlattenSeq(cs)) = PrintedOf(s)
  /\ \A i \in 1..Len(cs) :
       /\ cs[i] = <<>> => i = 1 /\ s # <<>> /\ Blank(s[1])
       /\ Short(cs[i], maxLength)

LEMMA ChunksAreRight ==
  ASSUME NEW maxLength \in Nat \ {0}, NEW f, IsChunked(f, maxLength), NEW reply \in Seq(Char)
  PROVE  CutRight(reply, maxLength, f[reply])
<1> DEFINE M == {n \in Nat : \A s \in Seq(Char) : Len(s) <= n => CutRight(s, maxLength, f[s])}
<1>1. \A s \in Seq(Char) : f[s] = Chunks(f, s, maxLength)
  BY Zenon DEF IsChunked
<1>2. ASSUME NEW s \in Seq(Char), s = <<>> PROVE CutRight(s, maxLength, f[s])
  <2>1. f[s] = <<>>
    BY <1>1, <1>2, ChunksCases
  <2>2. <<>> \in Seq(Seq(Char)) /\ Len(<<>>) = 0
    OBVIOUS
  <2>3. QED
    BY <1>2, <2>1, <2>2, FlatEmpty DEF CutRight
<1>3. 0 \in M
  <2>1. ASSUME NEW s \in Seq(Char), Len(s) <= 0 PROVE s = <<>>
    BY <2>1
  <2>2. QED
    BY <1>2, <2>1
<1>4. ASSUME NEW n \in Nat, n \in M PROVE n + 1 \in M
  <2>1. SUFFICES ASSUME NEW s \in Seq(Char), Len(s) <= n + 1
                 PROVE  CutRight(s, maxLength, f[s])
    OBVIOUS
  <2>2. CASE s # <<>> /\ Len(s) <= maxLength
    <3>1. f[s] = <<s>>
      BY <1>1, <2>2, ChunksCases
    <3>2. <<>> \in Seq(Seq(Char)) /\ Len(<<>>) = 0
      OBVIOUS
    <3>3. <<s>> \o <<>> = <<s>> /\ s \o <<>> = s
      BY ConcatEmptySeq
    <3>4. FlattenSeq(<<s>>) = s
      BY <3>2, <3>3, FlatCons, FlatEmpty
    <3>5. <<s>> \in Seq(Seq(Char)) /\ Len(<<s>>) = 1 /\ <<s>>[1] = s
      OBVIOUS
    <3>6. Short(s, maxLength)
      BY <2>2 DEF Short
    <3>7. \A i \in 1..Len(<<s>>) : <<s>>[i] = s
      BY <3>5
    <3>8. CutRight(s, maxLength, <<s>>)
      BY <2>2, <3>4, <3>5, <3>6, <3>7 DEF CutRight
    <3>9. QED
      BY <3>1, <3>8
  <2>3. CASE Len(s) > maxLength
    <3> DEFINE c == Piece(s, maxLength)
               r == Remains(s, maxLength)
               cs == f[r]
               ds == <<c>> \o cs
    <3>1. f[s] = ds
      BY <1>1, <2>3, ChunksCases
    <3>2. /\ c \in Seq(Char) /\ r \in Seq(Char) /\ Len(r) < Len(s)
          /\ PrintedOf(s) = PrintedOf(c) \o PrintedOf(r)
          /\ c = <<>> => Blank(s[1])
          /\ r # <<>> => Printed(r[1])
          /\ Short(c, maxLength)
      BY <2>3, OneCut
    <3> HIDE DEF c, r
    <3>3. Len(r) <= n
      <4>1. Len(r) \in Nat /\ Len(s) \in Nat
        BY <3>2
      <4>2. QED
        BY <2>1, <3>2, <4>1
    <3>4. CutRight(r, maxLength, cs)
      BY <1>4, <3>2, <3>3
    <3> HIDE DEF cs
    <3>5. /\ cs \in Seq(Seq(Char))
          /\ PrintedOf(FlattenSeq(cs)) = PrintedOf(r)
          /\ \A i \in 1..Len(cs) : cs[i] # <<>> /\ Short(cs[i], maxLength)
      BY <3>2, <3>4 DEF CutRight, Printed
    <3>6. /\ ds \in Seq(Seq(Char)) /\ Len(ds) = Len(cs) + 1 /\ ds[1] = c
          /\ \A i \in 1..Len(cs) : ds[i + 1] = cs[i]
          /\ FlattenSeq(cs) \in Seq(Char)
          /\ FlattenSeq(ds) = c \o FlattenSeq(cs)
      BY <3>2, <3>5, FlatCons
    <3>7. Len(cs) \in Nat
      BY <3>5
    <3> HIDE DEF ds
    <3>8. PrintedOf(FlattenSeq(ds)) = PrintedOf(s)
      <4>1. PrintedOf(c \o FlattenSeq(cs)) = PrintedOf(c) \o PrintedOf(FlattenSeq(cs))
        BY <3>2, <3>6, PrintedConcat
      <4>2. QED
        BY <3>2, <3>5, <3>6, <4>1
    <3>9. ASSUME NEW i \in 1..Len(ds)
          PROVE  /\ ds[i] = <<>> => i = 1 /\ s # <<>> /\ Blank(s[1])
                 /\ Short(ds[i], maxLength)
      <4>1. s # <<>>
        BY <2>3
      <4>2. CASE i = 1
        BY <3>2, <3>6, <4>1, <4>2
      <4>3. CASE i # 1
        <5>1. i - 1 \in 1..Len(cs) /\ (i - 1) + 1 = i
          BY <3>6, <3>7, <4>3
        <5>2. ds[(i - 1) + 1] = cs[i - 1]
          BY <3>6, <5>1
        <5>3. QED
          BY <3>5, <5>1, <5>2
      <4>4. QED
        BY <4>2, <4>3
    <3>10. QED
      BY <3>1, <3>6, <3>8, <3>9 DEF CutRight
  <2>4. QED
    BY <1>2, <2>2, <2>3, ChunksCases
<1>5. Len(reply) \in M
  <2>1. Len(reply) \in Nat
    OBVIOUS
  <2> HIDE DEF M
  <2>2. QED
    BY <1>3, <1>4, <2>1, NatInduct
<1>6. QED
  <2>1. Len(reply) <= Len(reply)
    OBVIOUS
  <2>2. QED
    BY <1>5, <2>1

(* What is shown of every reply: the theorems below are parts of it.       *)
LEMMA RepliesAreCutRight ==
  ASSUME NEW maxLength \in Nat \ {0}, NEW reply \in Seq(Char)
  PROVE  LET cs == splitMessage(reply, maxLength)
         IN  /\ cs \in Seq(Seq(Char))
             /\ PrintedOf(FlattenSeq(cs)) = PrintedOf(reply)
             /\ \A i \in 1..Len(cs) :
                  /\ cs[i] = <<>> => reply = <<>> \/ (i = 1 /\ Blank(reply[1]))
                  /\ Short(cs[i], maxLength)
<1> DEFINE cs == splitMessage(reply, maxLength)
<1>2. PICK f : /\ IsChunked(f, maxLength)
               /\ cs = IF Len(reply) <= maxLength THEN <<reply>> ELSE f[reply]
  BY SplitByTable
<1> HIDE DEF cs
<1>3. CutRight(reply, maxLength, f[reply])
  BY <1>2, ChunksAreRight
<1>4. Len(reply) \in Nat /\ maxLength \in Nat
  OBVIOUS
<1>5. /\ cs \in Seq(Seq(Char))
      /\ PrintedOf(FlattenSeq(cs)) = PrintedOf(reply)
      /\ \A i \in 1..Len(cs) :
           /\ cs[i] = <<>> => reply = <<>> \/ (i = 1 /\ Blank(reply[1]))
           /\ Short(cs[i], maxLength)
  <2>1. CASE Len(reply) <= maxLength
    <3>1. cs = <<reply>>
      BY <1>2, <2>1
    <3>2. <<>> \in Seq(Seq(Char)) /\ Len(<<>>) = 0
      OBVIOUS
    <3>3. <<reply>> \o <<>> = <<reply>> /\ reply \o <<>> = reply
      BY ConcatEmptySeq
    <3>4. FlattenSeq(<<reply>>) = reply
      BY <3>2, <3>3, FlatCons, FlatEmpty
    <3>5. <<reply>> \in Seq(Seq(Char)) /\ \A i \in 1..Len(<<reply>>) : <<reply>>[i] = reply
      OBVIOUS
    <3>6. Short(reply, maxLength)
      BY <2>1 DEF Short
    <3>7. QED
      BY <3>1, <3>4, <3>5, <3>6
  <2>2. CASE ~ (Len(reply) <= maxLength)
    BY <1>2, <1>3, <2>2 DEF CutRight
  <2>3. QED
    BY <2>1, <2>2
<1>6. QED
  BY <1>5 DEF cs

(* However long the reply and the pieces of a platform are, splitMessage   *)
(* loses no printed character and exchanges none, and cuts no empty piece  *)
(* but out of the blanks that a reply begins with.                         *)
THEOREM SplitsAreSound ==
  \A maxLength \in Nat \ {0} : \A reply \in Seq(Char) : SplitsWell(reply, maxLength)
<1>1. SUFFICES ASSUME NEW maxLength \in Nat \ {0}, NEW reply \in Seq(Char)
               PROVE  SplitsWell(reply, maxLength)
  OBVIOUS
<1> DEFINE cs == splitMessage(reply, maxLength)
<1>2. /\ cs \in Seq(Seq(Char))
      /\ PrintedOf(FlattenSeq(cs)) = PrintedOf(reply)
      /\ \A i \in 1..Len(cs) : cs[i] = <<>> => reply = <<>> \/ (i = 1 /\ Blank(reply[1]))
  BY RepliesAreCutRight
<1> HIDE DEF cs
<1>3. DOMAIN cs = 1..Len(cs)
  BY <1>2
<1>4. QED
  BY <1>2, <1>3 DEF SplitsWell, cs

(* By how much a piece may exceed the limit of the platform: one character, *)
(* the end of a sentence, since splitMessage looks the end up again by its  *)
(* text and finds it at maxLength.                                          *)
THEOREM PiecesNearlyFit ==
  \A maxLength \in Nat \ {0} : \A reply \in Seq(Char) : SplitsNearlyFit(reply, maxLength)
<1>1. SUFFICES ASSUME NEW maxLength \in Nat \ {0}, NEW reply \in Seq(Char)
               PROVE  SplitsNearlyFit(reply, maxLength)
  OBVIOUS
<1> DEFINE cs == splitMessage(reply, maxLength)
<1>2. cs \in Seq(Seq(Char)) /\ \A i \in 1..Len(cs) : Short(cs[i], maxLength)
  BY RepliesAreCutRight
<1> HIDE DEF cs
<1>3. DOMAIN cs = 1..Len(cs)
  BY <1>2
<1>4. QED
  BY <1>2, <1>3 DEF SplitsNearlyFit, Short, cs

(* The invariant of the run: whatever is replied, the pieces hold it.      *)
THEOREM RepliesAreSplitWell == Spec => []SplitSound
<1>1. SplitSound
  <2>1. ASSUME NEW n \in 0..7, NEW reply \in [1..n -> Char], NEW maxLength \in Limits
        PROVE  SplitsWell(reply, maxLength)
    <3>1. reply \in Seq(Char) /\ maxLength \in Nat \ {0}
      BY DEF Limits
    <3>2. QED
      BY <3>1, SplitsAreSound
  <2>2. RepliesSplitWell
    BY <2>1 DEF RepliesSplitWell, Replies
  <2>3. QED
    BY <2>2 DEF SplitSound
<1>2. QED
  BY <1>1, PTL
=============================================================================
