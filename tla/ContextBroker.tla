--------------------------- MODULE ContextBroker ---------------------------
(***************************************************************************)
(* Context queries: ContextBroker.query and the ContextCache behind it.    *)
(* A query that misses awaits a gateway call before it fills the cache, so *)
(* that several fills may be on their way at once.                         *)
(*                                                                         *)
(* The cache is a JavaScript Map, whose keys have an order: "at" maps the  *)
(* cached keys to their entries, and "older" relates a key to those        *)
(* inserted after it.  Time is kept as ages in ticks.                      *)
(***************************************************************************)
EXTENDS Naturals, Sequences, FiniteSets

CONSTANTS
  Client,       \* handlers of the context.query method
  Query,        \* the queries clients make
  PrefixOf,     \* per part of an id: the parts that begin with it
  MaxSize,      \* maxCacheSize
  Ttl,          \* cacheTtlMs, in ticks
  CallTimeout,  \* the timeout of transport.call, in ticks
  Nothing       \* no query, no answer

(* A text is the sequence of its parts between colons: "main:10" has two,  *)
(* the empty text one.  <<>> is a parameter that is absent.                *)
EmptyText == <<"">>
Zero      == <<"0">>

IsQuery(q) ==
  /\ DOMAIN q = {"node", "type", "session", "agent", "limit"}
  /\ q.type \in {"session_history", "session_list", "user_profile"}
  /\ q.node \in Seq(STRING) /\ q.session \in Seq(STRING)
  /\ q.agent \in Seq(STRING) /\ q.limit \in Seq(STRING)
  /\ Len(q.node) > 0
  /\ \A i \in DOMAIN q.node : q.node[i] \in DOMAIN PrefixOf

ASSUME BrokerAssumption ==
  /\ \A q \in Query : IsQuery(q)
  /\ Nothing \notin Query
  /\ MaxSize \in Nat \ {0}
  /\ Ttl \in Nat
  /\ CallTimeout \in Nat \ {0}

(* Operators whose comment begins with "Mutant" are faults that the checks  *)
(* of the properties are tried on; no specification uses them.             *)

(* What a parameter that the code takes for absent adds to the key.        *)
Unless(value, falsy) == IF value = falsy THEN <<>> ELSE value

(* buildCacheKey joins what is present by colons, so that the parts of all *)
(* parameters stand in one row.  A limit of 0 and an empty text are left   *)
(* out as if they were absent.                                             *)
KeyOf(q) ==
  q.node \o <<q.type>> \o Unless(q.session, EmptyText) \o Unless(q.agent, EmptyText)
    \o Unless(q.limit, Zero)

(* What the gateway is asked: user profiles are answered without a call.   *)
CallOf(q) ==
  CASE q.type = "session_history" ->
         <<q.node, <<"chat.history">>, IF q.session = <<>> THEN <<"main">> ELSE q.session,
           IF q.limit = <<>> THEN <<"20">> ELSE q.limit>>
    [] q.type = "session_list" -> <<q.node, <<"sessions.list">>, q.agent>>
    [] q.type = "user_profile" -> <<<<"local">>>>

CacheKey  == {KeyOf(q) : q \in Query}
Call == {CallOf(q) : q \in Query}

(* An entry: the call its data answers, the ticks since it was cached, up  *)
(* to the first at which it has expired, and the ticks before that since   *)
(* the gateway read the data.                                              *)
CacheEntry == [call : Call, age : 0..(Ttl + 1), delay : 0..CallTimeout]

VARIABLES
  cache,   \* [at, older]
  fetch,   \* per client: the query it is awaiting, [query, age, read]
  answer   \* the answer given by the latest step, if it gave one

brokerVars == <<cache, fetch, answer>>

NoFetch == [query |-> Nothing, age |-> 0, read |-> Nothing]

Keys(m) == DOMAIN m.at

(* A strict total order on the cached keys. *)
IsOrder(m) ==
  /\ m.older \subseteq Keys(m) \X Keys(m)
  /\ \A k \in Keys(m) : <<k, k>> \notin m.older
  /\ \A j, k \in Keys(m) : j # k => <<j, k>> \in m.older \/ <<k, j>> \in m.older
  /\ \A i, j, k \in Keys(m) :
       <<i, j>> \in m.older /\ <<j, k>> \in m.older => <<i, k>> \in m.older

(* read is the ticks since the gateway read the data, Nothing before that.    *)
BrokerTypeOK ==
  /\ Keys(cache) \subseteq CacheKey
  /\ \A k \in Keys(cache) : cache.at[k] \in CacheEntry
  /\ IsOrder(cache)
  /\ fetch \in [Client -> [query : Query \cup {Nothing}, age : 0..CallTimeout,
                           read : (0..CallTimeout) \cup {Nothing}]]

BrokerInit ==
  /\ cache = [at |-> [k \in {} |-> Nothing], older |-> {}]
  /\ fetch = [c \in Client |-> NoFetch]
  /\ answer = Nothing

-----------------------------------------------------------------------------
(* Map.delete of the keys K. *)
Deleted(m, K) ==
  [at    |-> [k \in Keys(m) \ K |-> m.at[k]],
   older |-> {p \in m.older : p[1] \notin K /\ p[2] \notin K}]

(* Map.set: a key that is there keeps its place, a new one comes last.     *)
Put(m, k, e) ==
  [at    |-> [j \in Keys(m) \cup {k} |-> IF j = k THEN e ELSE m.at[j]],
   older |-> IF k \in Keys(m) THEN m.older ELSE m.older \cup (Keys(m) \X {k})]

Oldest(m) == CHOOSE k \in Keys(m) : \A j \in Keys(m) \ {k} : <<k, j>> \in m.older

(* Mutant of Room: the capacity is checked too late. *)
RoomLate(m) == IF Cardinality(Keys(m)) > MaxSize THEN Deleted(m, {Oldest(m)}) ELSE m

(* ContextCache.set: at capacity the first key goes, even when the key is  *)
(* in the cache already.                                                   *)
Room(m) == IF Cardinality(Keys(m)) >= MaxSize THEN Deleted(m, {Oldest(m)}) ELSE m

Set(m, k, e) == Put(Room(m), k, e)

(* Mutant of Hit: the time-to-live is not looked at. *)
HitStale(k) == k \in Keys(cache)

(* ContextCache.get: an expired entry is deleted, another one moved last.  *)
Hit(k) == k \in Keys(cache) /\ cache.at[k].age <= Ttl

Touch(m, k) == Put(Deleted(m, {k}), k, m.at[k])

-----------------------------------------------------------------------------
(* query, answered from the cache. *)
QueryHit(c, q) ==
  /\ fetch[c] = NoFetch /\ Hit(KeyOf(q))
  /\ cache' = Touch(cache, KeyOf(q))
  /\ LET e == cache.at[KeyOf(q)]
     IN  answer' = [query |-> q, call |-> e.call, age |-> e.age + e.delay]
  /\ UNCHANGED fetch

(* query, not answered from the cache: the node has no transport, or for a *)
(* call no open socket, and the query fails at once.                       *)
QueryFails(c, q) ==
  /\ fetch[c] = NoFetch /\ ~Hit(KeyOf(q))
  /\ cache' = Deleted(cache, {KeyOf(q)})
  /\ answer' = Nothing
  /\ UNCHANGED fetch

(* Or a gateway call is made and awaited. *)
QueryMiss(c, q) ==
  /\ fetch[c] = NoFetch /\ ~Hit(KeyOf(q))
  /\ q.type # "user_profile"
  /\ cache' = Deleted(cache, {KeyOf(q)})
  /\ answer' = Nothing
  /\ fetch' = [fetch EXCEPT ![c] = [NoFetch EXCEPT !.query = q]]

(* A user profile comes without a call. *)
QueryProfile(c, q) ==
  /\ fetch[c] = NoFetch /\ ~Hit(KeyOf(q))
  /\ q.type = "user_profile"
  /\ cache' = Set(Deleted(cache, {KeyOf(q)}), KeyOf(q),
                  [call |-> CallOf(q), age |-> 0, delay |-> 0])
  /\ answer' = [query |-> q, call |-> CallOf(q), age |-> 0]
  /\ UNCHANGED fetch

(* The gateway reads the data of the call. *)
GatewayReads(c) ==
  /\ fetch[c].query # Nothing /\ fetch[c].read = Nothing
  /\ fetch' = [fetch EXCEPT ![c].read = 0]
  /\ answer' = Nothing
  /\ UNCHANGED cache

(* Mutant of Filled: the key is kept in the broker and not in the handler, *)
(* and may be that of another query in flight.                             *)
FilledUnderShared(c) ==
  LET q == fetch[c].query
      e == [call |-> CallOf(q), age |-> 0, delay |-> fetch[c].read]
  IN  /\ q # Nothing /\ fetch[c].read # Nothing
      /\ \E d \in Client :
           /\ fetch[d].query # Nothing
           /\ cache' = Set(cache, KeyOf(fetch[d].query), e)
      /\ answer' = [query |-> q, call |-> CallOf(q), age |-> fetch[c].read]
      /\ fetch' = [fetch EXCEPT ![c] = NoFetch]

(* The response arrives, the cache is filled and the query answered.       *)
Filled(c) ==
  LET q == fetch[c].query
      e == [call |-> CallOf(q), age |-> 0, delay |-> fetch[c].read]
  IN  /\ q # Nothing /\ fetch[c].read # Nothing
      /\ cache' = Set(cache, KeyOf(q), e)
      /\ answer' = [query |-> q, call |-> CallOf(q), age |-> fetch[c].read]
      /\ fetch' = [fetch EXCEPT ![c] = NoFetch]

(* An error response, a lost connection, or the timeout of the call. *)
FetchFails(c) ==
  /\ fetch[c].query # Nothing
  /\ fetch' = [fetch EXCEPT ![c] = NoFetch]
  /\ answer' = Nothing
  /\ UNCHANGED cache

(* Time passes; no call outlives its timer. *)
BrokerTick ==
  /\ \A c \in Client : fetch[c].age < CallTimeout
  /\ cache' = [at |-> [k \in Keys(cache) |->
                       [cache.at[k] EXCEPT !.age = IF @ <= Ttl THEN @ + 1 ELSE @]],
               older |-> cache.older]
  /\ fetch' = [c \in Client |->
                 IF fetch[c].query = Nothing THEN NoFetch
                 ELSE [query |-> fetch[c].query, age |-> fetch[c].age + 1,
                       read |-> IF fetch[c].read = Nothing THEN Nothing ELSE fetch[c].read + 1]]
  /\ answer' = Nothing

(* Whether the text of a key begins with that of a node's id. *)
StartsWith(k, id) ==
  /\ Len(id) <= Len(k)
  /\ \A i \in 1..(Len(id) - 1) : k[i] = id[i]
  /\ k[Len(id)] \in PrefixOf[id[Len(id)]]

(* invalidateNode, clearCache and prune, which nothing in the daemon calls.*)
Maintain ==
  /\ \/ \E q \in Query :
          cache' = Deleted(cache, {k \in Keys(cache) : StartsWith(k, q.node)})
     \/ cache' = Deleted(cache, Keys(cache))
     \/ cache' = Deleted(cache, {k \in Keys(cache) : cache.at[k].age > Ttl})
  /\ answer' = Nothing
  /\ UNCHANGED fetch

BrokerNext ==
  \/ BrokerTick \/ Maintain
  \/ \E c \in Client :
       \/ \E q \in Query : QueryHit(c, q) \/ QueryFails(c, q) \/ QueryMiss(c, q) \/ QueryProfile(c, q)
       \/ GatewayReads(c) \/ Filled(c) \/ FetchFails(c)

BrokerSpec == BrokerInit /\ [][BrokerNext]_brokerVars

-----------------------------------------------------------------------------
(* However many fills are on their way when the cache is full, it never    *)
(* holds more than MaxSize entries.                                        *)
SizeBounded == Cardinality(Keys(cache)) <= MaxSize

(* No answer is older than the time-to-live and the timeout of one call:   *)
(* neither hits nor evictions nor fills of other clients extend the life   *)
(* of an entry.                                                            *)
AnswerFresh == answer # Nothing => answer.age <= Ttl + CallTimeout

(* No other call that clients have made is cached under the key of q.      *)
Unambiguous(q) == \A p \in Query : KeyOf(p) = KeyOf(q) => CallOf(p) = CallOf(q)

(* A query whose key is its own is answered with the data of its own       *)
(* gateway call, although the cache knows only the key, whatever queries   *)
(* are on their way, and whichever others get each other's answers.        *)
AnswersOwnCall ==
  answer # Nothing /\ Unambiguous(answer.query) => answer.call = CallOf(answer.query)

(* What the options of "context history" say, "Session key" and "Number of *)
(* messages to fetch": a query is answered with the data it asks for.      *)
AnswersWhatIsAsked == answer # Nothing => answer.call = CallOf(answer.query)
=============================================================================
