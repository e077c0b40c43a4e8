------------------------ MODULE ContextBroker_proofs ------------------------
(***************************************************************************)
(* Theorems about ContextBroker for every set of clients and queries and   *)
(* every capacity, time-to-live and call timeout.                          *)
(***************************************************************************)
EXTENDS ContextBroker, FiniteSetTheorems, SequenceTheorems, WellFoundedInduction, TLAPS

(* A cache that respects its capacity and holds under each key the data of *)
(* a call that some query with this key makes.                             *)
GoodCache(m) ==
  /\ IsOrder(m)
  /\ IsFiniteSet(Keys(m))
  /\ Cardinality(Keys(m)) <= MaxSize
  /\ \A k \in Keys(m) :
       /\ m.at[k] \in CacheEntry
       /\ \E q \in Query : KeyOf(q) = k /\ m.at[k].call = CallOf(q)

(* A call in flight: the gateway reads after the call was made.            *)
GoodFetch ==
  /\ fetch \in [Client -> [query : Query \cup {Nothing}, age : 0..CallTimeout,
                           read : (0..CallTimeout) \cup {Nothing}]]
  /\ \A c \in Client : fetch[c].read # Nothing => fetch[c].read <= fetch[c].age

BrokerInv == GoodCache(cache) /\ GoodFetch

-----------------------------------------------------------------------------
(* The order of the keys.                                                  *)

(* Deleting keys leaves an order on the others. *)
LEMMA DeletedOrder ==
  ASSUME NEW m, NEW K, IsOrder(m)
  PROVE  Keys(Deleted(m, K)) = Keys(m) \ K /\ IsOrder(Deleted(m, K))
BY DEF IsOrder, Deleted, Keys

(* Setting a key leaves an order. *)
LEMMA PutOrder ==
  ASSUME NEW m, NEW k, NEW e, IsOrder(m)
  PROVE  Keys(Put(m, k, e)) = Keys(m) \cup {k} /\ IsOrder(Put(m, k, e))
<1>1. Keys(Put(m, k, e)) = Keys(m) \cup {k}
  BY DEF Put, Keys
<1>2. CASE k \in Keys(m)
  BY <1>1, <1>2, SMTT(60) DEF IsOrder, Put
<1>3. CASE k \notin Keys(m)
  <2>1. Put(m, k, e).older = m.older \cup (Keys(m) \X {k})
    BY <1>3 DEF Put
  <2> DEFINE old == Put(m, k, e).older
  <2>2. old \subseteq (Keys(m) \cup {k}) \X (Keys(m) \cup {k})
    <3>1. m.older \subseteq Keys(m) \X Keys(m)
      BY DEF IsOrder
    <3> QED BY <2>1, <3>1
  <2>3. \A i, j : <<i, j>> \in old <=>
                    <<i, j>> \in m.older \/ (i \in Keys(m) /\ j = k)
    BY <2>1
  <2>4. \A i, j : <<i, j>> \in m.older => i \in Keys(m) /\ j \in Keys(m)
    BY DEF IsOrder
  <2> HIDE DEF old
  <2>5. \A j \in Keys(m) \cup {k} : <<j, j>> \notin old
    BY <1>3, <2>3, <2>4 DEF IsOrder
  <2>6. \A i, j \in Keys(m) \cup {k} : i # j => <<i, j>> \in old \/ <<j, i>> \in old
    <3>1. \A i, j \in Keys(m) : i # j => <<i, j>> \in m.older \/ <<j, i>> \in m.older
      BY DEF IsOrder
    <3>2. \A i \in Keys(m) : <<i, k>> \in old
      BY <2>3
    <3> QED BY <2>3, <3>1, <3>2
  <2>7. \A h, i, j \in Keys(m) \cup {k} :
          <<h, i>> \in old /\ <<i, j>> \in old => <<h, j>> \in old
    BY <1>3, <2>3, <2>4 DEF IsOrder
  <2> QED BY <1>1, <2>2, <2>5, <2>6, <2>7 DEF IsOrder, old
<1> QED BY <1>1, <1>2, <1>3

(* A finite order has a first key: the one whose set of predecessors is    *)
(* minimal.  So Oldest is a key of the cache.                              *)
LEMMA OldestIsKey ==
  ASSUME NEW m, IsOrder(m), IsFiniteSet(Keys(m)), Keys(m) # {}
  PROVE  Oldest(m) \in Keys(m)
<1> DEFINE Before(k) == {j \in Keys(m) : <<j, k>> \in m.older}
           T == {Before(k) : k \in Keys(m)}
<1>1. T \subseteq SUBSET Keys(m) /\ T # {}
  OBVIOUS
<1>2. IsWellFoundedOn(StrictSubsetOrdering(Keys(m)), SUBSET Keys(m))
  BY FS_StrictSubsetOrderingWellFounded, FS_FiniteSubsetsOfFinite
<1>3. PICK B \in T : \A C \in T : <<C, B>> \notin StrictSubsetOrdering(Keys(m))
  BY <1>1, <1>2, WFMin
<1>4. PICK k \in Keys(m) : B = Before(k)
  BY <1>3
<1>5. ASSUME NEW j \in Keys(m), <<j, k>> \in m.older PROVE FALSE
  <2>1. Before(j) \subseteq Before(k)
    BY <1>4, <1>5 DEF IsOrder
  <2>2. j \in Before(k) /\ j \notin Before(j)
    BY <1>5 DEF IsOrder
  <2>3. <<Before(j), Before(k)>> \in StrictSubsetOrdering(Keys(m))
    BY <2>1, <2>2 DEF StrictSubsetOrdering
  <2> QED BY <1>3, <1>4, <2>3
<1>6. \A j \in Keys(m) \ {k} : <<k, j>> \in m.older
  BY <1>4, <1>5 DEF IsOrder
<1> QED BY <1>4, <1>6 DEF Oldest

-----------------------------------------------------------------------------
(* The operations of the cache keep it good.                               *)
LEMMA DeletedGood ==
  ASSUME NEW m, NEW K, GoodCache(m)
  PROVE  GoodCache(Deleted(m, K))
<1>1. Keys(Deleted(m, K)) = Keys(m) \ K /\ IsOrder(Deleted(m, K))
  BY DeletedOrder DEF GoodCache
<1>2. /\ IsFiniteSet(Keys(m) \ K)
      /\ Cardinality(Keys(m) \ K) <= Cardinality(Keys(m))
  BY FS_Subset DEF GoodCache
<1>3. Cardinality(Keys(m) \ K) <= MaxSize
  BY <1>2, FS_CardinalityType, BrokerAssumption DEF GoodCache
<1>4. \A k \in Keys(m) \ K : Deleted(m, K).at[k] = m.at[k]
  BY DEF Deleted
<1> QED BY <1>1, <1>2, <1>3, <1>4 DEF GoodCache

(* Making room leaves a good cache that is not full. *)
LEMMA RoomGood ==
  ASSUME NEW m, GoodCache(m)
  PROVE  GoodCache(Room(m)) /\ Cardinality(Keys(Room(m))) < MaxSize
<1>1. Cardinality(Keys(m)) \in Nat /\ MaxSize \in Nat \ {0}
  BY FS_CardinalityType, BrokerAssumption DEF GoodCache
<1>2. CASE Cardinality(Keys(m)) < MaxSize
  BY <1>1, <1>2 DEF Room
<1>3. CASE Cardinality(Keys(m)) >= MaxSize
  <2>1. Keys(m) # {}
    BY <1>1, <1>3, FS_EmptySet
  <2>2. Oldest(m) \in Keys(m)
    BY <2>1, OldestIsKey DEF GoodCache
  <2>3. Room(m) = Deleted(m, {Oldest(m)})
    BY <1>3 DEF Room
  <2>4. Keys(Room(m)) = Keys(m) \ {Oldest(m)}
    BY <2>3, DeletedOrder DEF GoodCache
  <2>5. Cardinality(Keys(m) \ {Oldest(m)}) = Cardinality(Keys(m)) - 1
    BY <2>2, FS_RemoveElement DEF GoodCache
  <2>6. GoodCache(Room(m))
    BY <2>3, DeletedGood
  <2>7. Cardinality(Keys(m)) <= MaxSize
    BY DEF GoodCache
  <2> QED BY <1>1, <2>4, <2>5, <2>6, <2>7
<1> QED BY <1>1, <1>2, <1>3

LEMMA PutGood ==
  ASSUME NEW m, NEW q \in Query, NEW e \in CacheEntry, GoodCache(m), e.call = CallOf(q),
         Cardinality(Keys(m)) < MaxSize
  PROVE  GoodCache(Put(m, KeyOf(q), e))
<1> DEFINE k == KeyOf(q)
<1>1. Keys(Put(m, k, e)) = Keys(m) \cup {k} /\ IsOrder(Put(m, k, e))
  BY PutOrder DEF GoodCache
<1>2. /\ IsFiniteSet(Keys(m) \cup {k})
      /\ Cardinality(Keys(m) \cup {k}) =
           IF k \in Keys(m) THEN Cardinality(Keys(m)) ELSE Cardinality(Keys(m)) + 1
  BY FS_AddElement DEF GoodCache
<1>3. Cardinality(Keys(m) \cup {k}) <= MaxSize
  BY <1>2, FS_CardinalityType, BrokerAssumption DEF GoodCache
<1>4. Put(m, k, e).at = [j \in Keys(m) \cup {k} |-> IF j = k THEN e ELSE m.at[j]]
  BY DEF Put
<1>5. \A j \in Keys(m) \cup {k} :
        /\ Put(m, k, e).at[j] \in CacheEntry
        /\ \E p \in Query : KeyOf(p) = j /\ Put(m, k, e).at[j].call = CallOf(p)
  BY <1>4 DEF GoodCache
<1> HIDE DEF k
<1> QED BY <1>1, <1>2, <1>3, <1>5 DEF GoodCache, k

LEMMA SetGood ==
  ASSUME NEW m, NEW q \in Query, NEW e \in CacheEntry, GoodCache(m), e.call = CallOf(q)
  PROVE  GoodCache(Set(m, KeyOf(q), e))
BY RoomGood, PutGood DEF Set

LEMMA TouchGood ==
  ASSUME NEW m, NEW k \in Keys(m), GoodCache(m)
  PROVE  GoodCache(Touch(m, k))
<1>1. PICK q \in Query : KeyOf(q) = k /\ m.at[k].call = CallOf(q)
  BY DEF GoodCache
<1>2. m.at[k] \in CacheEntry
  BY DEF GoodCache
<1>3. GoodCache(Deleted(m, {k})) /\ Keys(Deleted(m, {k})) = Keys(m) \ {k}
  BY DeletedGood, DeletedOrder DEF GoodCache
<1>4. Cardinality(Keys(m) \ {k}) = Cardinality(Keys(m)) - 1
  BY FS_RemoveElement DEF GoodCache
<1>5. /\ Cardinality(Keys(m)) \in Nat /\ MaxSize \in Nat
      /\ Cardinality(Keys(m)) <= MaxSize
  BY FS_CardinalityType, BrokerAssumption DEF GoodCache
<1>6. Cardinality(Keys(Deleted(m, {k}))) < MaxSize
  BY <1>3, <1>4, <1>5
<1> QED BY <1>1, <1>2, <1>3, <1>6, PutGood DEF Touch

(* The ages advance together. *)
LEMMA TickGood ==
  ASSUME GoodCache(cache), BrokerTick
  PROVE  GoodCache(cache')
<1> DEFINE Aged(e) == [e EXCEPT !.age = IF @ <= Ttl THEN @ + 1 ELSE @]
<1>1. /\ cache'.older = cache.older
      /\ cache'.at = [k \in Keys(cache) |-> Aged(cache.at[k])]
  BY DEF BrokerTick, Keys
<1>2. Keys(cache') = Keys(cache)
  BY <1>1 DEF Keys
<1>3. \A e \in CacheEntry : Aged(e) \in CacheEntry /\ Aged(e).call = e.call
  BY BrokerAssumption DEF CacheEntry
<1>4. IsOrder(cache')
  BY <1>1, <1>2 DEF GoodCache, IsOrder
<1> HIDE DEF Aged
<1> QED BY <1>1, <1>2, <1>3, <1>4 DEF GoodCache

-----------------------------------------------------------------------------
(* Every step keeps the invariant.                                         *)
LEMMA InitInv == BrokerInit => BrokerInv
<1> SUFFICES ASSUME BrokerInit PROVE BrokerInv
  OBVIOUS
<1>1. Keys(cache) = {} /\ cache.older = {}
  BY DEF BrokerInit, Keys
<1>2. GoodCache(cache)
  BY <1>1, FS_EmptySet, BrokerAssumption DEF GoodCache, IsOrder
<1>3. GoodFetch
  BY BrokerAssumption DEF BrokerInit, GoodFetch, NoFetch
<1> QED BY <1>2, <1>3 DEF BrokerInv

LEMMA CallType == \A q \in Query : CallOf(q) \in Call /\ KeyOf(q) \in CacheKey
BY DEF Call, CacheKey

LEMMA ClientStep ==
  ASSUME BrokerInv, NEW c \in Client, NEW q \in Query,
         \/ QueryHit(c, q) \/ QueryFails(c, q) \/ QueryMiss(c, q) \/ QueryProfile(c, q)
         \/ GatewayReads(c) \/ Filled(c) \/ FetchFails(c)
  PROVE  BrokerInv'
<1>1. CASE QueryHit(c, q)
  <2>1. KeyOf(q) \in Keys(cache)
    BY <1>1 DEF QueryHit, Hit
  <2>2. GoodCache(cache')
    BY <1>1, <2>1, TouchGood DEF QueryHit, BrokerInv
  <2> QED BY <1>1, <2>2 DEF QueryHit, BrokerInv, GoodFetch, GoodCache
<1>2. CASE QueryMiss(c, q)
  <2>1. GoodCache(cache')
    BY <1>2, DeletedGood DEF QueryMiss, BrokerInv
  <2>2. GoodFetch'
    BY <1>2, BrokerAssumption DEF QueryMiss, BrokerInv, GoodFetch, NoFetch
  <2> QED BY <2>1, <2>2 DEF BrokerInv, GoodCache
<1>7. CASE QueryFails(c, q)
  <2>1. GoodCache(cache')
    BY <1>7, DeletedGood DEF QueryFails, BrokerInv
  <2> QED BY <1>7, <2>1 DEF QueryFails, BrokerInv, GoodFetch, GoodCache
<1>3. CASE QueryProfile(c, q)
  <2> DEFINE e == [call |-> CallOf(q), age |-> 0, delay |-> 0]
  <2>1. e \in CacheEntry /\ e.call = CallOf(q)
    BY CallType, BrokerAssumption DEF CacheEntry
  <2> HIDE DEF e
  <2>2. GoodCache(Deleted(cache, {KeyOf(q)}))
    BY DeletedGood DEF BrokerInv
  <2>3. GoodCache(cache')
    BY <1>3, <2>1, <2>2, SetGood DEF QueryProfile, e
  <2> QED BY <1>3, <2>3 DEF QueryProfile, BrokerInv, GoodFetch, GoodCache
<1>4. CASE GatewayReads(c)
  BY <1>4, BrokerAssumption DEF GatewayReads, BrokerInv, GoodFetch
<1>5. CASE Filled(c)
  <2> DEFINE p == fetch[c].query
             e == [call |-> CallOf(p), age |-> 0, delay |-> fetch[c].read]
  <2>1. p \in Query /\ fetch[c].read \in 0..CallTimeout
    BY <1>5 DEF Filled, BrokerInv, GoodFetch
  <2>2. e \in CacheEntry /\ e.call = CallOf(p)
    BY <2>1, CallType, BrokerAssumption DEF CacheEntry
  <2>3. cache' = Set(cache, KeyOf(p), e)
    BY <1>5 DEF Filled
  <2> HIDE DEF e, p
  <2>4. GoodCache(cache')
    BY <2>1, <2>2, <2>3, SetGood DEF BrokerInv
  <2>5. GoodFetch'
    BY <1>5, BrokerAssumption DEF Filled, BrokerInv, GoodFetch, NoFetch
  <2> QED BY <2>4, <2>5 DEF BrokerInv, GoodCache
<1>6. CASE FetchFails(c)
  BY <1>6, BrokerAssumption DEF FetchFails, BrokerInv, GoodFetch, NoFetch
<1> QED BY <1>1, <1>2, <1>3, <1>4, <1>5, <1>6, <1>7

LEMMA TickFetch == BrokerInv /\ BrokerTick => GoodFetch'
<1> SUFFICES ASSUME BrokerInv, BrokerTick PROVE GoodFetch'
  OBVIOUS
<1>1. CallTimeout \in Nat \ {0} /\ Nothing \notin Query
  BY BrokerAssumption
<1>2. ASSUME NEW c \in Client
      PROVE  /\ fetch'[c] \in [query : Query \cup {Nothing}, age : 0..CallTimeout,
                                read : (0..CallTimeout) \cup {Nothing}]
             /\ fetch'[c].read # Nothing => fetch'[c].read <= fetch'[c].age
  <2>1. /\ fetch[c] \in [query : Query \cup {Nothing}, age : 0..CallTimeout,
                          read : (0..CallTimeout) \cup {Nothing}]
        /\ fetch[c].read # Nothing => fetch[c].read <= fetch[c].age
        /\ fetch[c].age < CallTimeout
    BY DEF BrokerInv, GoodFetch, BrokerTick
  <2>2. CASE fetch[c].query = Nothing
    <3>1. fetch'[c] = NoFetch
      BY <2>2 DEF BrokerTick
    <3> QED BY <1>1, <3>1 DEF NoFetch
  <2>3. CASE fetch[c].query # Nothing
    <3> DEFINE r == IF fetch[c].read = Nothing THEN Nothing ELSE fetch[c].read + 1
    <3>1. fetch'[c] = [query |-> fetch[c].query, age |-> fetch[c].age + 1, read |-> r]
      BY <2>3 DEF BrokerTick
    <3>2. fetch[c].age + 1 \in 0..CallTimeout
      BY <1>1, <2>1
    <3>3. r \in (0..CallTimeout) \cup {Nothing} /\ (r # Nothing => r <= fetch[c].age + 1)
      BY <1>1, <2>1
    <3> HIDE DEF r
    <3> QED BY <2>1, <3>1, <3>2, <3>3
  <2> QED BY <2>2, <2>3
<1>3. DOMAIN fetch' = Client /\ fetch' = [c \in Client |-> fetch'[c]]
  BY DEF BrokerTick
<1> QED BY <1>2, <1>3 DEF GoodFetch

LEMMA InvStep == BrokerInv /\ [BrokerNext]_brokerVars => BrokerInv'
<1> SUFFICES ASSUME BrokerInv, [BrokerNext]_brokerVars PROVE BrokerInv'
  OBVIOUS
<1>1. CASE UNCHANGED brokerVars
  BY <1>1 DEF brokerVars, BrokerInv, GoodCache, GoodFetch
<1>2. CASE BrokerTick
  <2>1. GoodCache(cache')
    BY <1>2, TickGood DEF BrokerInv
  <2> QED BY <1>2, <2>1, TickFetch DEF BrokerInv, GoodCache
<1>3. CASE Maintain
  <2>1. GoodCache(cache')
    BY <1>3, DeletedGood DEF Maintain, BrokerInv
  <2> QED BY <1>3, <2>1 DEF Maintain, BrokerInv, GoodFetch, GoodCache
<1>4. ASSUME NEW c \in Client, GatewayReads(c) \/ Filled(c) \/ FetchFails(c)
      PROVE  BrokerInv'
  <2>1. fetch[c].query \in Query
    BY <1>4 DEF GatewayReads, Filled, FetchFails, BrokerInv, GoodFetch
  <2> QED BY <1>4, <2>1, ClientStep
<1> QED BY <1>1, <1>2, <1>3, <1>4, ClientStep DEF BrokerNext

-----------------------------------------------------------------------------
(* The cache keeps to its capacity: every fill of a full cache evicts one  *)
(* entry first, whatever the order of the fills.                           *)
THEOREM CacheIsBounded == BrokerSpec => [](BrokerTypeOK /\ SizeBounded)
<1>1. BrokerInv => BrokerTypeOK /\ SizeBounded
  <2> SUFFICES ASSUME BrokerInv PROVE BrokerTypeOK /\ SizeBounded
    OBVIOUS
  <2>1. Keys(cache) \subseteq CacheKey
    BY CallType DEF BrokerInv, GoodCache
  <2> QED BY <2>1 DEF BrokerInv, GoodCache, GoodFetch, BrokerTypeOK, SizeBounded, Keys
<1> QED BY InitInv, InvStep, <1>1, PTL DEF BrokerSpec

(* What a step answers: a fill's data or a hit's.                          *)
LEMMA AnswerStep ==
  ASSUME BrokerInv, BrokerNext
  PROVE  \/ answer' = Nothing
         \/ \E p, q \in Query, a \in 0..(Ttl + CallTimeout) :
               /\ KeyOf(p) = KeyOf(q)
               /\ answer' = [query |-> q, call |-> CallOf(p), age |-> a]
<1> DEFINE Answered == \E p, q \in Query, a \in 0..(Ttl + CallTimeout) :
                         /\ KeyOf(p) = KeyOf(q)
                         /\ answer' = [query |-> q, call |-> CallOf(p), age |-> a]
<1>1. ASSUME NEW c \in Client, NEW q \in Query, QueryHit(c, q) PROVE Answered
  <2>1. /\ KeyOf(q) \in Keys(cache)
        /\ cache.at[KeyOf(q)].age <= Ttl
    BY <1>1 DEF QueryHit, Hit
  <2>2. /\ cache.at[KeyOf(q)] \in CacheEntry
        /\ \E p \in Query : KeyOf(p) = KeyOf(q) /\ cache.at[KeyOf(q)].call = CallOf(p)
    BY <2>1 DEF BrokerInv, GoodCache
  <2>3. cache.at[KeyOf(q)].age + cache.at[KeyOf(q)].delay \in 0..(Ttl + CallTimeout)
    BY <2>1, <2>2, BrokerAssumption DEF CacheEntry
  <2> QED BY <1>1, <2>2, <2>3 DEF QueryHit
<1>2. ASSUME NEW c \in Client, NEW q \in Query, QueryProfile(c, q) PROVE Answered
  <2>1. 0 \in 0..(Ttl + CallTimeout)
    BY BrokerAssumption
  <2> QED BY <1>2, <2>1 DEF QueryProfile
<1>3. ASSUME NEW c \in Client, Filled(c) PROVE Answered
  <2>1. fetch[c].query \in Query /\ fetch[c].read \in 0..CallTimeout
    BY <1>3 DEF Filled, BrokerInv, GoodFetch
  <2>2. fetch[c].read \in 0..(Ttl + CallTimeout)
    BY <2>1, BrokerAssumption
  <2> QED BY <1>3, <2>1, <2>2 DEF Filled
<1>4. ASSUME NEW c \in Client, NEW q \in Query,
             QueryFails(c, q) \/ QueryMiss(c, q) \/ GatewayReads(c) \/ FetchFails(c)
      PROVE  answer' = Nothing
  BY <1>4 DEF QueryFails, QueryMiss, GatewayReads, FetchFails
<1>5. ASSUME NEW c \in Client, GatewayReads(c) \/ FetchFails(c) PROVE answer' = Nothing
  BY <1>5 DEF GatewayReads, FetchFails
<1>6. BrokerTick \/ Maintain => answer' = Nothing
  BY DEF BrokerTick, Maintain
<1> HIDE DEF Answered
<1>7. answer' = Nothing \/ Answered
  BY <1>1, <1>2, <1>3, <1>4, <1>5, <1>6 DEF BrokerNext
<1> QED BY <1>7 DEF Answered

(* No answer is older than the time-to-live and the timeout of one call.   *)
THEOREM AnswersAreFresh == BrokerSpec => []AnswerFresh
<1>1. BrokerInit => AnswerFresh
  BY DEF BrokerInit, AnswerFresh
<1>2. BrokerInv /\ AnswerFresh /\ [BrokerNext]_brokerVars => AnswerFresh'
  <2>1. CASE UNCHANGED brokerVars
    BY <2>1 DEF brokerVars, AnswerFresh
  <2>2. ASSUME BrokerInv, BrokerNext PROVE AnswerFresh'
    BY <2>2, AnswerStep, BrokerAssumption DEF AnswerFresh
  <2> QED BY <2>1, <2>2
<1> QED BY InitInv, InvStep, <1>1, <1>2, PTL DEF BrokerSpec

(* A query whose key is its own is answered with the data of its own call, *)
(* whatever other queries share keys.                                      *)
THEOREM AnswersAreOwn == BrokerSpec => []AnswersOwnCall
<1>1. BrokerInit => AnswersOwnCall
  BY DEF BrokerInit, AnswersOwnCall
<1>2. BrokerInv /\ AnswersOwnCall /\ [BrokerNext]_brokerVars => AnswersOwnCall'
  <2>1. CASE UNCHANGED brokerVars
    BY <2>1 DEF brokerVars, AnswersOwnCall
  <2>2. ASSUME BrokerInv, BrokerNext PROVE AnswersOwnCall'
    <3>1. CASE answer' = Nothing
      BY <3>1 DEF AnswersOwnCall
    <3>2. CASE answer' # Nothing
      <4>1. PICK p, q \in Query, a \in 0..(Ttl + CallTimeout) :
              /\ KeyOf(p) = KeyOf(q)
              /\ answer' = [query |-> q, call |-> CallOf(p), age |-> a]
        BY <2>2, <3>2, AnswerStep
      <4>2. answer'.query = q /\ answer'.call = CallOf(p)
        BY <4>1
      <4>3. Unambiguous(q) => CallOf(p) = CallOf(q)
        BY <4>1 DEF Unambiguous
      <4> QED BY <4>2, <4>3 DEF AnswersOwnCall, Unambiguous
    <3> QED BY <3>1, <3>2
  <2> QED BY <2>1, <2>2
<1> QED BY InitInv, InvStep, <1>1, <1>2, PTL DEF BrokerSpec

(* The queries the commands make of a node and a session without colons,   *)
(* with a limit that is a number other than 0.                             *)
Plain(q) ==
  LET One(text) == Len(text) = 1
  IN  /\ One(q.node) /\ q.agent = <<>>
      /\ \/ /\ q.type = "session_history"
            /\ One(q.session) /\ q.session # EmptyText
            /\ One(q.limit) /\ q.limit # Zero
         \/ q.type \in {"session_list", "user_profile"} /\ q.session = <<>> /\ q.limit = <<>>

LEMMA JoinTexts ==
  ASSUME NEW S, NEW x \in Seq(S), NEW y \in Seq(S), Len(y) = 1
  PROVE  /\ x \o y \in Seq(S) /\ Len(x \o y) = Len(x) + 1
         /\ \A i \in 1..Len(x) : (x \o y)[i] = x[i]
         /\ (x \o y)[Len(x) + 1] = y[1]
<1>0. Len(x) \in Nat
  OBVIOUS
<1>1. /\ x \o y \in Seq(S) /\ Len(x \o y) = Len(x) + Len(y)
      /\ \A i \in 1..(Len(x) + Len(y)) : (x \o y)[i] = IF i <= Len(x) THEN x[i] ELSE y[i - Len(x)]
  BY ConcatProperties, Zenon
<1>2. Len(x) + 1 \in 1..(Len(x) + Len(y)) /\ ~(Len(x) + 1 <= Len(x)) /\ Len(x) + 1 - Len(x) = 1
  BY <1>0
<1> QED BY <1>0, <1>1, <1>2

LEMMA JoinThird ==
  ASSUME NEW S, NEW x \in Seq(S), NEW y \in Seq(S), Len(x) = 2, Len(y) = 1
  PROVE  /\ x \o y \in Seq(S) /\ Len(x \o y) = 3
         /\ (x \o y)[1] = x[1] /\ (x \o y)[2] = x[2] /\ (x \o y)[3] = y[1]
<1>1. /\ x \o y \in Seq(S) /\ Len(x \o y) = Len(x) + 1
      /\ \A i \in 1..Len(x) : (x \o y)[i] = x[i]
      /\ (x \o y)[Len(x) + 1] = y[1]
  BY JoinTexts, Zenon
<1> QED BY <1>1

LEMMA JoinFourth ==
  ASSUME NEW S, NEW x \in Seq(S), NEW y \in Seq(S), Len(x) = 3, Len(y) = 1
  PROVE  /\ Len(x \o y) = 4
         /\ (x \o y)[1] = x[1] /\ (x \o y)[2] = x[2] /\ (x \o y)[3] = x[3]
         /\ (x \o y)[4] = y[1]
<1>1. /\ x \o y \in Seq(S) /\ Len(x \o y) = Len(x) + 1
      /\ \A i \in 1..Len(x) : (x \o y)[i] = x[i]
      /\ (x \o y)[Len(x) + 1] = y[1]
  BY JoinTexts, Zenon
<1> QED BY <1>1

LEMMA WiderText ==
  ASSUME NEW S, NEW T, S \subseteq T, NEW x \in Seq(S)
  PROVE  x \in Seq(T)
OBVIOUS

LEMMA SameText ==
  ASSUME NEW x \in Seq(STRING), NEW y \in Seq(STRING), Len(x) = 1, Len(y) = 1, x[1] = y[1]
  PROVE  x = y
OBVIOUS

(* The key of such a query, part by part.                                  *)
LEMMA PlainKey ==
  ASSUME NEW q \in Query, Plain(q)
  PROVE  /\ KeyOf(q)[1] = q.node[1]
         /\ KeyOf(q)[2] = q.type
         /\ IF q.type = "session_history"
            THEN /\ Len(KeyOf(q)) = 4
                 /\ KeyOf(q)[3] = q.session[1] /\ KeyOf(q)[4] = q.limit[1]
            ELSE Len(KeyOf(q)) = 2
<1> DEFINE x == q.node
           y == <<q.type>>
           s == q.session
           l == q.limit
           S == STRING \union {q.type}
<1>1. IsQuery(q)
  BY BrokerAssumption
<1>2. /\ x \in Seq(S) /\ s \in Seq(S) /\ l \in Seq(S) /\ y \in Seq(S)
      /\ Len(x) = 1 /\ Len(y) = 1 /\ y[1] = q.type
  <2>1. x \in Seq(STRING) /\ s \in Seq(STRING) /\ l \in Seq(STRING) /\ Len(x) = 1
    BY <1>1 DEF IsQuery, Plain
  <2>2. x \in Seq(S) /\ s \in Seq(S) /\ l \in Seq(S)
    BY <2>1, WiderText
  <2>3. y \in Seq(S) /\ Len(y) = 1 /\ y[1] = q.type
    BY DEF S
  <2> QED BY <2>1, <2>2, <2>3
<1>3. Unless(q.agent, EmptyText) = <<>>
  BY DEF Plain, Unless
<1>4. /\ Unless(s, EmptyText) = s /\ Unless(l, Zero) = l
  BY DEF Plain, Unless
<1>5. KeyOf(q) = (((x \o y) \o s) \o <<>>) \o l
  BY <1>3, <1>4 DEF KeyOf
<1>6. CASE q.type = "session_history"
  <2>1. Len(s) = 1 /\ Len(l) = 1
    BY <1>6 DEF Plain
  <2> DEFINE xy == x \o y
             xys == xy \o s
  <2>2. KeyOf(q) = xys \o l
    <3>1. xys \in Seq(S)
      BY <1>2
    <3>2. xys \o <<>> = xys
      BY <3>1, ConcatEmptySeq
    <3> QED BY <1>5, <3>2
  <2> HIDE DEF x, y, s, l, S
  <2>3. xy \in Seq(S) /\ Len(xy) = 2 /\ xy[1] = x[1] /\ xy[2] = y[1]
    BY <1>2, JoinTexts
  <2> HIDE DEF xy
  <2>4. /\ xys \in Seq(S) /\ Len(xys) = 3
        /\ xys[1] = xy[1] /\ xys[2] = xy[2] /\ xys[3] = s[1]
    BY <1>2, <2>1, <2>3, JoinThird
  <2> HIDE DEF xys
  <2>5. /\ Len(xys \o l) = 4 /\ (xys \o l)[1] = xys[1] /\ (xys \o l)[2] = xys[2]
        /\ (xys \o l)[3] = xys[3] /\ (xys \o l)[4] = l[1]
    BY <1>2, <2>1, <2>4, JoinFourth
  <2> QED BY <1>2, <1>6, <2>2, <2>3, <2>4, <2>5 DEF x, y, s, l
<1>7. CASE q.type # "session_history"
  <2>1. s = <<>> /\ l = <<>>
    BY <1>7 DEF Plain
  <2> DEFINE xy == x \o y
  <2> HIDE DEF x, y, s, l, S
  <2>2. xy \in Seq(S) /\ Len(xy) = 2 /\ xy[1] = x[1] /\ xy[2] = y[1]
    BY <1>2, JoinTexts
  <2> HIDE DEF xy
  <2>3. xy \o <<>> = xy
    BY <2>2, ConcatEmptySeq
  <2>4. KeyOf(q) = xy
    BY <1>5, <2>1, <2>3 DEF xy
  <2> QED BY <1>2, <1>7, <2>2, <2>4 DEF x, y
<1> QED BY <1>6, <1>7

(* Among such queries no two calls share a key.                            *)
LEMMA PlainAreUnambiguous ==
  ASSUME NEW p \in Query, NEW q \in Query, Plain(p), Plain(q), KeyOf(p) = KeyOf(q)
  PROVE  CallOf(p) = CallOf(q)
<1>1. p.type = q.type /\ p.node[1] = q.node[1]
  BY PlainKey
<1>2. IsQuery(p) /\ IsQuery(q)
  BY BrokerAssumption
<1>3. p.node = q.node
  BY <1>1, <1>2, SameText DEF Plain, IsQuery
<1>4. CASE q.type = "session_history"
  <2>1. p.session[1] = q.session[1] /\ p.limit[1] = q.limit[1]
    BY <1>1, <1>4, PlainKey
  <2>2. p.session = q.session /\ p.limit = q.limit
    BY <1>1, <1>2, <1>4, <2>1, SameText DEF Plain, IsQuery
  <2> QED BY <1>1, <1>3, <1>4, <2>2 DEF CallOf
<1>5. CASE q.type # "session_history"
  BY <1>1, <1>2, <1>3, <1>5 DEF CallOf, Plain, IsQuery
<1> QED BY <1>4, <1>5

(* As long as only such queries are made, each is answered with what it    *)
(* asks for.                                                               *)
THEOREM PlainAnswersAreOwn ==
  ASSUME \A q \in Query : Plain(q)
  PROVE  BrokerSpec => []AnswersWhatIsAsked
<1>1. BrokerInit => AnswersWhatIsAsked
  BY DEF BrokerInit, AnswersWhatIsAsked
<1>2. BrokerInv /\ AnswersWhatIsAsked /\ [BrokerNext]_brokerVars => AnswersWhatIsAsked'
  <2>1. CASE UNCHANGED brokerVars
    BY <2>1 DEF brokerVars, AnswersWhatIsAsked
  <2>2. ASSUME BrokerInv, BrokerNext PROVE AnswersWhatIsAsked'
    <3>1. \A p, q \in Query : KeyOf(p) = KeyOf(q) => CallOf(p) = CallOf(q)
      BY PlainAreUnambiguous
    <3> QED BY <2>2, <3>1, AnswerStep DEF AnswersWhatIsAsked
  <2> QED BY <2>1, <2>2
<1> QED BY InitInv, InvStep, <1>1, <1>2, PTL DEF BrokerSpec
=============================================================================
