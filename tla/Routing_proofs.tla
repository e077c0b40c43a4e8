--------------------------- MODULE Routing_proofs ---------------------------
(***************************************************************************)
(* Theorems about the router, for every set of nodes, of contexts and of   *)
(* configurations.                                                         *)
(***************************************************************************)
EXTENDS Routing, FiniteSetTheorems, TLAPS

-----------------------------------------------------------------------------
(***************************************************************************)
(* Numbers and recursion.                                                  *)
(***************************************************************************)

(* Induction, over a set in place of a predicate.                          *)
LEMMA NatInduct ==
  ASSUME NEW S, 0 \in S, \A n \in Nat : n \in S => n + 1 \in S
  PROVE  Nat \subseteq S
<1> DEFINE T == Nat \ S
<1>1. SUFFICES ASSUME T # {} PROVE FALSE
  OBVIOUS
<1>2. PICK x \in T : \A y \in T : ~ (<<y, x>> \in OpToRel(<, Nat))
  BY <1>1, NatLessThanWellFounded, WFMin
<1>3. x \in Nat /\ x # 0 /\ x - 1 \in Nat
  OBVIOUS
<1>4. x - 1 \in T
  BY <1>3
<1>5. <<x - 1, x>> \in OpToRel(<, Nat)
  BY <1>3 DEF OpToRel
<1>6. QED
  BY <1>2, <1>4, <1>5

(* A function is defined by its first value and by each from the last.     *)
LEMMA RecursionExists ==
  ASSUME NEW S, NEW first \in S, NEW n \in Nat, NEW next \in [1..n -> [S -> S]]
  PROVE  \E g \in [0..n -> S] :
           g[0] = first /\ \A i \in 1..n : g[i] = next[i][g[i - 1]]
<1> DEFINE Good(g, m) == /\ g \in [0..m -> S]
                         /\ g[0] = first
                         /\ \A i \in 1..m : g[i] = next[i][g[i - 1]]
           M == {m \in Nat : m <= n => \E g : Good(g, m)}
<1>1. 0 \in M
  <2>1. Good([i \in 0..0 |-> first], 0)
    OBVIOUS
  <2>2. QED
    BY <2>1
<1>2. ASSUME NEW m \in Nat, m \in M PROVE m + 1 \in M
  <2>1. SUFFICES ASSUME m + 1 <= n PROVE \E g : Good(g, m + 1)
    OBVIOUS
  <2>2. PICK g : Good(g, m)
    BY <1>2, <2>1
  <2> DEFINE h == [i \in 0..(m + 1) |-> IF i <= m THEN g[i] ELSE next[m + 1][g[m]]]
  <2>3. m + 1 \in 1..n /\ g[m] \in S
    BY <2>1, <2>2
  <2>4. h \in [0..(m + 1) -> S]
    BY <2>2, <2>3
  <2>5. h[0] = first
    BY <2>2
  <2>6. \A i \in 1..(m + 1) : h[i] = next[i][h[i - 1]]
    <3> TAKE i \in 1..(m + 1)
    <3>1. CASE i <= m
      <4>1. i \in 1..m /\ i - 1 \in 0..(m + 1) /\ i - 1 <= m /\ i \in 0..(m + 1)
        BY <3>1
      <4>2. h[i] = g[i] /\ h[i - 1] = g[i - 1]
        BY <3>1, <4>1
      <4>3. QED
        BY <2>2, <4>1, <4>2
    <3>2. CASE i = m + 1
      <4>1. i - 1 = m /\ m \in 0..(m + 1) /\ i \in 0..(m + 1) /\ ~ (i <= m)
        BY <3>2
      <4>2. h[i] = next[m + 1][g[m]] /\ h[m] = g[m]
        BY <4>1
      <4>3. QED
        BY <3>2, <4>1, <4>2
    <3>3. QED
      BY <3>1, <3>2
  <2>7. QED
    BY <2>4, <2>5, <2>6
<1>3. n \in M
  <2> HIDE DEF M
  <2> QED
    BY <1>1, <1>2, NatInduct
<1>4. PICK g : Good(g, n)
  BY <1>3
<1>5. QED
  BY <1>4

(* Division, and what follows a number modulo another.                     *)
LEMMA DivMod ==
  ASSUME NEW a \in Nat, NEW n \in Nat \ {0}
  PROVE  a % n \in 0..(n - 1) /\ a \div n \in Nat /\ a = n * (a \div n) + (a % n)
OBVIOUS

LEMMA Larger ==
  ASSUME NEW n \in Nat, NEW p \in Nat, NEW q \in Nat, p < q
  PROVE  n * p + n <= n * q
<1>1. PICK d \in Nat : q = p + 1 + d
  <2>1. q - p - 1 \in Nat /\ q = p + 1 + (q - p - 1)
    OBVIOUS
  <2>2. QED
    BY <2>1
<1>2. n * q = n * p + n + n * d
  BY <1>1
<1>3. n * d \in Nat /\ n * p \in Nat
  BY <1>1
<1>4. QED
  BY <1>2, <1>3

LEMMA DivModUnique ==
  ASSUME NEW n \in Nat \ {0}, NEW p \in Nat, NEW q \in Nat, NEW r \in 0..(n - 1), NEW s \in 0..(n - 1),
         n * p + r = n * q + s
  PROVE  r = s
<1>0. n * p \in Nat /\ n * q \in Nat
  OBVIOUS
<1>1. CASE p < q
  <2>1. n * p + n <= n * q
    BY <1>1, Larger
  <2>2. QED
    BY <1>0, <2>1
<1>2. CASE q < p
  <2>1. n * q + n <= n * p
    BY <1>2, Larger
  <2>2. QED
    BY <1>0, <2>1
<1>3. QED
  BY <1>1, <1>2

LEMMA ModNext ==
  ASSUME NEW a \in Nat, NEW n \in Nat \ {0}
  PROVE  /\ a % n \in 0..(n - 1)
         /\ (a + 1) % n = IF a % n = n - 1 THEN 0 ELSE (a % n) + 1
<1> DEFINE q == a \div n
           r == a % n
           p == (a + 1) \div n
           s == (a + 1) % n
<1>1. r \in 0..(n - 1) /\ q \in Nat /\ a = n * q + r
  BY DivMod
<1>2. s \in 0..(n - 1) /\ p \in Nat /\ a + 1 = n * p + s
  <2>1. a + 1 \in Nat
    OBVIOUS
  <2>2. QED
    BY <2>1, DivMod
<1> HIDE DEF q, r, p, s
<1>3. CASE r = n - 1
  <2>1. n * (q + 1) = n * q + n
    BY <1>1
  <2>2. n * p + s = n * (q + 1) + 0
    BY <1>1, <1>2, <1>3, <2>1
  <2>3. 0 \in 0..(n - 1) /\ q + 1 \in Nat
    BY <1>1
  <2>4. s = 0
    BY <1>2, <2>2, <2>3, DivModUnique
  <2>5. QED
    BY <1>1, <1>3, <2>4 DEF r, s
<1>4. CASE r # n - 1
  <2>1. n * p + s = n * q + (r + 1)
    BY <1>1, <1>2
  <2>2. r + 1 \in 0..(n - 1)
    BY <1>1, <1>4
  <2>3. s = r + 1
    BY <1>1, <1>2, <2>1, <2>2, DivModUnique
  <2>4. QED
    BY <1>1, <1>4, <2>3 DEF r, s
<1>5. QED
  BY <1>3, <1>4

-----------------------------------------------------------------------------
(***************************************************************************)
(* Lists of targets.                                                       *)
(***************************************************************************)
LEMMA FilterHealthyFacts ==
  ASSUME NEW t \in Seq(Node)
  PROVE  /\ FilterHealthy(t) \in Seq(Node)
         /\ Len(FilterHealthy(t)) <= Len(t)
         /\ Range(FilterHealthy(t)) = {n \in Range(t) : Up(n)}
         /\ IsInjective(t) => IsInjective(FilterHealthy(t))
<1> DEFINE m == Len(t)
           next == [i \in 1..m |-> [s \in Seq(Node) |->
                      IF health[t[i]] # "down" THEN Append(s, t[i]) ELSE s]]
           kept[i \in 0..m] ==
             IF i = 0 THEN <<>>
             ELSE IF health[t[i]] # "down" THEN Append(kept[i - 1], t[i]) ELSE kept[i - 1]
<1>1. m \in Nat /\ DOMAIN t = 1..m /\ \A i \in 1..m : t[i] \in Node
  OBVIOUS
<1>2. next \in [1..m -> [Seq(Node) -> Seq(Node)]]
  BY <1>1
<1>3. \E g : g = [i \in 0..m |->
                   IF i = 0 THEN <<>>
                   ELSE IF health[t[i]] # "down" THEN Append(g[i - 1], t[i]) ELSE g[i - 1]]
  <2>1. <<>> \in Seq(Node)
    OBVIOUS
  <2> HIDE DEF next
  <2>2. PICK g \in [0..m -> Seq(Node)] :
          g[0] = <<>> /\ \A i \in 1..m : g[i] = next[i][g[i - 1]]
    <3>1. m \in Nat
      BY <1>1
    <3> DEFINE U == Seq(Node)
               e == <<>>
    <3>2. next \in [1..m -> [U -> U]] /\ e \in U
      BY <1>2, <2>1
    <3> HIDE DEF m, U, e
    <3>3. \E g \in [0..m -> U] : g[0] = e /\ \A i \in 1..m : g[i] = next[i][g[i - 1]]
      BY <3>1, <3>2, RecursionExists
    <3>4. QED
      BY <3>3 DEF U, e
  <2>3. ASSUME NEW i \in 0..m, i # 0
        PROVE  next[i][g[i - 1]] =
                 IF health[t[i]] # "down" THEN Append(g[i - 1], t[i]) ELSE g[i - 1]
    <3>1. i \in 1..m /\ g[i - 1] \in Seq(Node)
      BY <1>1, <2>3
    <3>2. QED
      BY <2>3, <3>1 DEF next
  <2>4. \A i \in 0..m : i # 0 => i \in 1..m
    BY <1>1
  <2>5. g = [i \in 0..m |->
               IF i = 0 THEN <<>>
               ELSE IF health[t[i]] # "down" THEN Append(g[i - 1], t[i]) ELSE g[i - 1]]
    BY <2>2, <2>3, <2>4
  <2>6. QED
    BY <2>5
<1>4. kept = [i \in 0..m |->
                IF i = 0 THEN <<>>
                ELSE IF health[t[i]] # "down" THEN Append(kept[i - 1], t[i]) ELSE kept[i - 1]]
  BY <1>3
<1> DEFINE Good(i) == /\ kept[i] \in Seq(Node)
                      /\ Len(kept[i]) <= i
                      /\ Range(kept[i]) = {t[j] : j \in {k \in 1..i : Up(t[k])}}
                      /\ IsInjective(t) => IsInjective(kept[i])
           M == {i \in Nat : i <= m => Good(i)}
<1>5. FilterHealthy(t) = kept[m]
  BY DEF FilterHealthy
<1> HIDE DEF kept, next
<1>6. 0 \in M
  <2>1. kept[0] = <<>>
    BY <1>1, <1>4
  <2>2. Range(kept[0]) = {} /\ IsInjective(kept[0])
    BY <2>1 DEF Range, IsInjective
  <2>3. {t[j] : j \in {k \in 1..0 : Up(t[k])}} = {}
    OBVIOUS
  <2>4. Good(0)
    BY <2>1, <2>2, <2>3
  <2>5. QED
    BY <2>4
<1>7. ASSUME NEW i \in Nat, i \in M PROVE i + 1 \in M
  <2>1. SUFFICES ASSUME i + 1 <= m PROVE Good(i + 1)
    OBVIOUS
  <2>2. Good(i) /\ i + 1 \in 1..m /\ i + 1 \in 0..m /\ i + 1 # 0 /\ (i + 1) - 1 = i
    BY <1>1, <1>7, <2>1
  <2>3. kept[i + 1] = IF Up(t[i + 1]) THEN Append(kept[i], t[i + 1]) ELSE kept[i]
    BY <1>4, <2>2 DEF Up
  <2>4. CASE ~ Up(t[i + 1])
    <3>1. {k \in 1..(i + 1) : Up(t[k])} = {k \in 1..i : Up(t[k])}
      BY <2>4
    <3>2. QED
      BY <2>2, <2>3, <2>4, <3>1
  <2>5. CASE Up(t[i + 1])
    <3> DEFINE s == kept[i]
               u == kept[i + 1]
    <3>1. u = Append(s, t[i + 1]) /\ s \in Seq(Node) /\ t[i + 1] \in Node
      BY <1>1, <2>2, <2>3, <2>5
    <3>2. /\ u \in Seq(Node) /\ Len(u) = Len(s) + 1 /\ DOMAIN u = 1..(Len(s) + 1)
          /\ Len(s) \in Nat /\ DOMAIN s = 1..Len(s)
          /\ \A k \in 1..Len(s) : u[k] = s[k]
          /\ u[Len(s) + 1] = t[i + 1]
      BY <3>1
    <3> HIDE DEF s, u
    <3>3. Range(u) = Range(s) \union {t[i + 1]}
      BY <3>2 DEF Range
    <3>4. {k \in 1..(i + 1) : Up(t[k])} = {k \in 1..i : Up(t[k])} \union {i + 1}
      BY <2>5
    <3>5. Range(u) = {t[j] : j \in {k \in 1..(i + 1) : Up(t[k])}}
      BY <2>2, <3>3, <3>4 DEF s
    <3>6. ASSUME IsInjective(t) PROVE IsInjective(u)
      <4>1. IsInjective(s)
        BY <2>2, <3>6 DEF s
      <4>2. \A k \in 1..Len(s) : s[k] # t[i + 1]
        <5>1. SUFFICES ASSUME NEW k \in 1..Len(s), s[k] = t[i + 1] PROVE FALSE
          OBVIOUS
        <5>2. s[k] \in Range(s)
          BY <3>2 DEF Range
        <5>3. PICK j \in 1..i : s[k] = t[j]
          BY <2>2, <5>2 DEF s
        <5>4. j \in DOMAIN t /\ i + 1 \in DOMAIN t /\ j # i + 1
          BY <1>1, <2>1
        <5>5. QED
          BY <3>6, <5>1, <5>3, <5>4 DEF IsInjective
      <4>3. QED
        BY <3>2, <4>1, <4>2 DEF IsInjective
    <3>7. QED
      BY <2>2, <3>2, <3>5, <3>6 DEF s, u
  <2>6. QED
    BY <2>4, <2>5
<1>8. m \in M
  <2> HIDE DEF M
  <2> QED
    BY <1>1, <1>6, <1>7, NatInduct
<1>9. Good(m)
  BY <1>1, <1>8
<1>10. {t[j] : j \in {k \in 1..m : Up(t[k])}} = {n \in Range(t) : Up(n)}
  BY <1>1 DEF Range
<1>11. QED
  BY <1>5, <1>9, <1>10

(* A list has a healthy member just when its healthy part is not empty.    *)
LEMMA HealthyNonempty ==
  ASSUME NEW t \in Seq(Node), FilterHealthy(t) # <<>>
  PROVE  /\ Len(FilterHealthy(t)) \in Nat \ {0}
         /\ \A k \in 1..Len(FilterHealthy(t)) :
              FilterHealthy(t)[k] \in {n \in Range(t) : Up(n)}
<1>1. FilterHealthy(t) \in Seq(Node) /\ Range(FilterHealthy(t)) = {n \in Range(t) : Up(n)}
  BY FilterHealthyFacts
<1> DEFINE h == FilterHealthy(t)
<1> HIDE DEF h
<1>2. h \in Seq(Node) /\ h # <<>>
  BY <1>1 DEF h
<1>3. Len(h) \in Nat \ {0} /\ DOMAIN h = 1..Len(h)
  BY <1>2
<1>4. \A k \in 1..Len(h) : h[k] \in Range(h)
  BY <1>3 DEF Range
<1>5. QED
  BY <1>1, <1>3, <1>4 DEF h

(* What a strategy may answer is healthy and of the list, and a strategy   *)
(* has an answer as long as there is such a node.                          *)
LEMMA SelectSound ==
  ASSUME NEW t \in Seq(Node), NEW strategy \in Strategies, index \in Nat
  PROVE  /\ Select(strategy, t) \subseteq {n \in Range(t) : Up(n)}
         /\ Select(strategy, t) = {} <=> {n \in Range(t) : Up(n)} = {}
         /\ Select(strategy, t) = {} <=> FilterHealthy(t) = <<>>
<1> DEFINE h == FilterHealthy(t)
           U == {n \in Range(t) : Up(n)}
<1>1. h \in Seq(Node) /\ Range(h) = U
  BY FilterHealthyFacts
<1>2. CASE h = <<>>
  <2>1. Range(h) = {}
    BY <1>2 DEF Range
  <2>2. Select(strategy, t) = {}
    BY <1>2 DEF Select
  <2>3. QED
    BY <1>1, <1>2, <2>1, <2>2
<1>3. CASE h # <<>>
  <2>1. Len(h) \in Nat \ {0} /\ \A k \in 1..Len(h) : h[k] \in U
    BY <1>3, HealthyNonempty
  <2>2. 1 \in 1..Len(h) /\ (index % Len(h)) + 1 \in 1..Len(h)
    <3>1. index % Len(h) \in 0..(Len(h) - 1)
      BY <2>1, ModNext
    <3>2. QED
      BY <2>1, <3>1
  <2>3. h[1] \in U /\ h[(index % Len(h)) + 1] \in U
    BY <2>1, <2>2
  <2> HIDE DEF h, U
  <2>4. Weighted(h) \subseteq U /\ Weighted(h) # {}
    <3>1. CASE {n \in Range(h) : config.weight[n] > 0} = {}
      BY <1>1, <2>3, <3>1 DEF Weighted
    <3>2. CASE {n \in Range(h) : config.weight[n] > 0} # {}
      BY <1>1, <2>3, <3>2 DEF Weighted
    <3>3. QED
      BY <3>1, <3>2
  <2>5. Select(strategy, t) \subseteq U /\ Select(strategy, t) # {}
    <3>1. CASE strategy = "round-robin"
      BY <1>3, <2>3, <3>1 DEF Select, h
    <3>2. CASE strategy = "first-available"
      BY <1>3, <2>3, <3>2 DEF Select, h
    <3>3. CASE strategy = "weighted"
      BY <1>3, <2>4, <3>3 DEF Select, h
    <3>4. CASE strategy \in {"random", "least-connections"}
      BY <1>1, <1>3, <2>3, <3>4 DEF Select, h
    <3>5. QED
      BY <3>1, <3>2, <3>3, <3>4 DEF Strategies
  <2>6. QED
    BY <1>3, <2>3, <2>5 DEF h, U
<1>4. QED
  BY <1>2, <1>3

-----------------------------------------------------------------------------
(***************************************************************************)
(* Rules and their order.                                                  *)
(***************************************************************************)
LEMMA RuleType ==
  ASSUME config \in Config, NEW i \in Rank
  PROVE  /\ Rank = 1..Len(Rules) /\ Len(Rules) \in Nat
         /\ StrategyOf(Rules[i]) \in Strategies
         /\ Rules[i].priority \in Int
         /\ Rules[i].target \in Node \union {None}
         /\ Rules[i].targets \in Seq(Node)
         /\ \A n \in 1..Len(Rules[i].targets) : Cycle % n = 0
<1>1. config.rules \in Seq(Range(config.rules))
  BY RoutingAssumption
<1>2. Rank = 1..Len(Rules) /\ Len(Rules) \in Nat
  BY <1>1 DEF Rank, Rules
<1>3. /\ Rules[i].strategy \in Strategies \union {None}
      /\ Rules[i].priority \in Int
      /\ Rules[i].target \in Node \union {None}
      /\ Rules[i].targets \in Seq(Node)
      /\ \A n \in 1..Len(Rules[i].targets) : Cycle % n = 0
  BY RoutingAssumption DEF Rules, Rank
<1>4. QED
  BY <1>2, <1>3 DEF StrategyOf, Strategies

(* A rule chooses among its candidates, as long as it has any.             *)
LEMMA SelectFromRuleSound ==
  ASSUME config \in Config, index \in Nat, NEW i \in Rank
  PROVE  /\ SelectFromRule(Rules[i]) \subseteq Candidates(Rules[i])
         /\ SelectFromRule(Rules[i]) = {} <=> Candidates(Rules[i]) = {}
<1> DEFINE r == Rules[i]
<1>1. /\ StrategyOf(r) \in Strategies
      /\ r.target \in Node \union {None}
      /\ r.targets \in Seq(Node)
  BY RuleType
<1>2. None \notin Node
  BY RoutingAssumption
<1> HIDE DEF r
<1>3. CASE r.target # None
  <2>1. SelectFromRule(r) = {r.target} \ {n \in Node : health[n] = "down"}
    BY <1>3 DEF SelectFromRule
  <2>2. Candidates(r) = {n \in {r.target} : Up(n)}
    BY <1>3 DEF Candidates
  <2>3. QED
    BY <1>1, <1>3, <2>1, <2>2 DEF r, Up
<1>4. CASE r.target = None
  <2>1. SelectFromRule(r) = Select(StrategyOf(r), r.targets)
    BY <1>4 DEF SelectFromRule
  <2>2. None \notin Range(r.targets)
    BY <1>1, <1>2 DEF Range
  <2>3. Candidates(r) = {n \in Range(r.targets) : Up(n)}
    BY <1>4, <2>2 DEF Candidates
  <2>4. QED
    BY <1>1, <2>1, <2>3, SelectSound DEF r
<1>5. QED
  BY <1>3, <1>4

(* The rules have a stable order: each goes where as many rules precede it *)
(* as places.                                                              *)
LEMMA SortedIsOrder ==
  ASSUME NEW n \in Nat, NEW rules, DOMAIN rules = 1..n, \A i \in 1..n : rules[i].priority \in Int
  PROVE  /\ Sorted(rules) \in Bijection(1..n, 1..n)
         /\ \A k, l \in 1..n : k < l => Precedes(rules, Sorted(rules)[k], Sorted(rules)[l])
<1> DEFINE D == 1..n
           Pre(i) == {j \in D : j = i \/ Precedes(rules, j, i)}
           place == [i \in D |-> Cardinality(Pre(i))]
<1>1. IsFiniteSet(D) /\ Cardinality(D) = n
  BY FS_Interval
<1>2. ASSUME NEW i \in D PROVE Cardinality(Pre(i)) \in D
  <2>1. IsFiniteSet(Pre(i)) /\ Cardinality(Pre(i)) <= n
    BY <1>1, FS_Subset
  <2>2. Pre(i) # {}
    OBVIOUS
  <2>3. Cardinality(Pre(i)) \in Nat /\ Cardinality(Pre(i)) # 0
    BY <2>1, <2>2, FS_CardinalityType, FS_EmptySet
  <2>4. QED
    BY <2>1, <2>3
<1>3. ASSUME NEW i \in D, NEW j \in D, Precedes(rules, i, j)
      PROVE  Cardinality(Pre(i)) < Cardinality(Pre(j))
  <2>1. ~ Precedes(rules, j, i) /\ i # j
    BY <1>3 DEF Precedes
  <2>2. Pre(i) \subseteq Pre(j) /\ j \notin Pre(i) /\ j \in Pre(j)
    BY <1>3, <2>1 DEF Precedes
  <2>3. IsFiniteSet(Pre(j))
    BY <1>1, FS_Subset
  <2> HIDE DEF Pre
  <2>4. Cardinality(Pre(i)) <= Cardinality(Pre(j)) /\ Cardinality(Pre(i)) # Cardinality(Pre(j))
    BY <2>2, <2>3, FS_Subset
  <2>5. QED
    BY <1>2, <2>4
<1>4. \A i, j \in D : i = j \/ Precedes(rules, i, j) \/ Precedes(rules, j, i)
  BY DEF Precedes
<1> HIDE DEF Pre
<1>5. place \in [D -> D] /\ \A i, j \in D : Precedes(rules, i, j) => place[i] < place[j]
  BY <1>2, <1>3
<1>6. \A i, j \in D : place[i] \in Int /\ (place[i] < place[j] => place[i] # place[j])
  BY <1>5
<1> HIDE DEF place, D
<1>7. place \in Injection(D, D)
  BY <1>4, <1>5, <1>6 DEF Injection, IsInjective
<1>8. \A k \in D : \E i \in D : place[i] = k
  BY <1>1, <1>7, FS_Injection DEF Surjection
<1> DEFINE order == [k \in D |-> CHOOSE i \in D : place[i] = k]
<1>9. order \in [D -> D] /\ \A k \in D : place[order[k]] = k
  BY <1>8
<1>10. \A i \in D : order[place[i]] = i
  BY <1>5, <1>7, <1>9 DEF Injection, IsInjective
<1>11. order \in Bijection(D, D)
  <2> HIDE DEF order
  <2>1. \A k, l \in D : order[k] = order[l] => k = l
    BY <1>9
  <2>2. \A i \in D : \E k \in D : order[k] = i
    BY <1>5, <1>10
  <2>3. order \in Injection(D, D)
    BY <1>9, <2>1 DEF Injection, IsInjective
  <2>4. order \in Surjection(D, D)
    BY <1>9, <2>2 DEF Surjection
  <2>5. QED
    BY <2>3, <2>4 DEF Bijection
<1>12. \A k, l \in D : k < l => Precedes(rules, order[k], order[l])
  <2>1. SUFFICES ASSUME NEW k \in D, NEW l \in D, k < l
                 PROVE  Precedes(rules, order[k], order[l])
    OBVIOUS
  <2>2. k # l /\ ~ (l < k)
    BY <2>1 DEF D
  <2>3. QED
    BY <1>4, <1>5, <1>9, <2>1, <2>2
<1>13. DOMAIN rules = D
  BY DEF D
<1>14. QED
  BY <1>11, <1>12, <1>13 DEF Sorted, D

LEMMA MinOfNaturals ==
  ASSUME NEW S \in SUBSET Nat, S # {}
  PROVE  Min(S) \in S /\ \A x \in S : Min(S) <= x
<1>1. PICK x \in S : \A y \in S : ~ (<<y, x>> \in OpToRel(<, Nat))
  BY NatLessThanWellFounded, WFMin
<1>2. \A y \in S : x <= y
  <2>1. SUFFICES ASSUME NEW y \in S PROVE ~ (y < x)
    OBVIOUS
  <2>2. y < x => <<y, x>> \in OpToRel(<, Nat)
    BY DEF OpToRel
  <2>3. QED
    BY <1>1, <2>2
<1>3. QED
  BY <1>2 DEF Min

(* The first rule in order that fires is a usable one which precedes every *)
(* other.                                                                  *)
LEMMA FirstRuleSound ==
  ASSUME config \in Config, index \in Nat, NEW context
  PROVE  \/ FirstRule(context) = 0 /\ Usable(context) = {}
         \/ /\ FirstRule(context) \in Usable(context)
            /\ \A j \in Usable(context) : j = FirstRule(context) \/ Precedes(Rules, FirstRule(context), j)
<1> DEFINE n == Len(Rules)
           order == Sorted(Rules)
           Fires(i) == MatchRule(Rules[i], context) /\ SelectFromRule(Rules[i]) # {}
           I == {k \in 1..Len(order) : Fires(order[k])}
<1>1. n \in Nat /\ Rank = 1..n
  <2>1. config.rules \in Seq(Range(config.rules))
    BY RoutingAssumption
  <2>2. QED
    BY <2>1 DEF Rank, Rules
<1>2. \A i \in 1..n : Rules[i].priority \in Int
  BY <1>1, RuleType
<1>3. \A i \in 1..n : Fires(i) <=> i \in Usable(context)
  BY <1>1, SelectFromRuleSound DEF Usable
<1>4. Usable(context) \subseteq 1..n
  BY <1>1 DEF Usable
<1> HIDE DEF n
<1>5. /\ order \in Bijection(1..n, 1..n)
      /\ \A k, l \in 1..n : k < l => Precedes(Rules, order[k], order[l])
  BY <1>1, <1>2, SortedIsOrder DEF Rank
<1>6. FirstRule(context) = IF I # {} THEN order[Min(I)] ELSE 0
  <2>1. Min(I) # 0 \/ I = {}
    <3>1. I \in SUBSET Nat /\ 0 \notin I
      OBVIOUS
    <3> HIDE DEF I
    <3>2. QED
      BY <3>1, MinOfNaturals
  <2>2. QED
    BY <2>1 DEF FirstRule, SelectInSeq
<1> HIDE DEF order, Fires
<1>7. /\ order \in [1..n -> 1..n] /\ Len(order) = n
      /\ \A i \in 1..n : \E k \in 1..n : order[k] = i
  <2>1. order \in [1..n -> 1..n] /\ \A i \in 1..n : \E k \in 1..n : order[k] = i
    BY <1>5 DEF Bijection, Surjection
  <2>2. QED
    BY <1>1, <2>1
<1>8. I = {k \in 1..n : order[k] \in Usable(context)}
  BY <1>3, <1>7
<1>9. CASE I = {}
  <2>1. Usable(context) = {}
    BY <1>4, <1>7, <1>8, <1>9
  <2>2. QED
    BY <1>6, <1>9, <2>1
<1>10. CASE I # {}
  <2> DEFINE k == Min(I)
  <2>1. k \in I /\ \A l \in I : k <= l
    <3>1. I \in SUBSET Nat
      BY <1>1, <1>8
    <3> HIDE DEF I
    <3>2. QED
      BY <1>10, <3>1, MinOfNaturals
  <2> HIDE DEF k, I
  <2>2. FirstRule(context) = order[k] /\ k \in 1..n /\ order[k] \in Usable(context)
    BY <1>6, <1>8, <1>10, <2>1 DEF k
  <2>3. ASSUME NEW j \in Usable(context)
        PROVE  j = order[k] \/ Precedes(Rules, order[k], j)
    <3>1. PICK l \in 1..n : order[l] = j
      BY <1>4, <1>7
    <3>2. k = l \/ k < l
      BY <1>1, <1>8, <2>1, <2>2, <3>1
    <3>3. QED
      BY <1>5, <2>2, <3>1, <3>2
  <2>4. QED
    BY <2>2, <2>3
<1>11. QED
  BY <1>9, <1>10

-----------------------------------------------------------------------------
(***************************************************************************)
(* Types and decisions.                                                    *)
(***************************************************************************)

(* What a step of Decide may record.                                       *)
LEMMA DecideCases ==
  ASSUME RouterTypeOK, NEW context \in Context, NEW dry \in BOOLEAN, Decide(context, dry)
  PROVE  /\ UNCHANGED <<config, health>>
         /\ \/ \E l \in {0} \union Rank, t \in Node :
                 /\ decision' = [context |-> context, by |-> l, target |-> t, dry |-> dry]
                 /\ Up(t)
                 /\ l = 0 => Usable(context) = {} /\ t \in HealthyDefault
                              /\ t \in Select(config.strategy, config.targets)
                 /\ l \in Rank =>
                      /\ l \in Usable(context) /\ t \in Candidates(Rules[l])
                      /\ t \in SelectFromRule(Rules[l])
                      /\ \A j \in Usable(context) : j = l \/ Precedes(Rules, l, j)
                 /\ Advance(l)
                 /\ IF dry THEN UNCHANGED served ELSE Serve(l, t)
            \/ /\ Usable(context) = {} /\ HealthyDefault = {}
               /\ \E t \in Node \union {None} :
                    /\ decision' = [context |-> context, by |-> None, dry |-> dry, target |-> t]
                    /\ t # None => Up(t) /\ t = config.fallback
                    /\ t = None /\ config.targets # <<>> /\ config.fallback # None =>
                         ~ Up(config.fallback)
               /\ UNCHANGED <<index, served>>
<1>0. config \in Config /\ index \in Nat
  BY RoutingAssumption DEF RouterTypeOK
<1>1. UNCHANGED <<config, health>>
  BY DEF Decide
<1>2. /\ config.targets \in Seq(Node) /\ config.strategy \in Strategies
      /\ config.fallback \in Node \union {None}
      /\ None \notin Node
  BY <1>0, RoutingAssumption
<1>3. 0 \notin Rank /\ Usable(context) \subseteq Rank
  BY <1>0, RuleType DEF Usable
<1> DEFINE i == FirstRule(context)
<1>4. \/ i = 0 /\ Usable(context) = {}
      \/ i \in Usable(context) /\ \A j \in Usable(context) : j = i \/ Precedes(Rules, i, j)
  BY <1>0, FirstRuleSound
<1>5. \/ i # 0 /\ Choose(context, i, SelectFromRule(Rules[i]), dry)
      \/ i = 0 /\ RouteDefault(context, dry)
  BY DEF Decide
<1> HIDE DEF i
<1>6. CASE i # 0
  <2>1. i \in Rank /\ i \in Usable(context) /\ Choose(context, i, SelectFromRule(Rules[i]), dry)
    BY <1>3, <1>4, <1>5, <1>6
  <2>2. SelectFromRule(Rules[i]) \subseteq Candidates(Rules[i])
    BY <1>0, <2>1, SelectFromRuleSound
  <2>3. PICK t \in SelectFromRule(Rules[i]) :
          /\ decision' = [context |-> context, by |-> i, target |-> t, dry |-> dry]
          /\ IF dry THEN UNCHANGED served ELSE Serve(i, t)
    BY <2>1 DEF Choose
  <2>4. Advance(i)
    BY <2>1 DEF Choose
  <2>5. t \in Candidates(Rules[i]) /\ t \in Node /\ Up(t)
    <3>1. Rules[i].target \in Node \union {None} /\ Range(Rules[i].targets) \subseteq Node
      BY <1>0, <2>1, RuleType DEF Range
    <3>2. QED
      BY <2>2, <3>1 DEF Candidates
  <2>6. \A j \in Usable(context) : j = i \/ Precedes(Rules, i, j)
    BY <1>4, <1>6
  <2>7. QED
    BY <1>1, <1>3, <2>1, <2>3, <2>4, <2>5, <2>6
<1>7. CASE i = 0
  <2>1. Usable(context) = {} /\ RouteDefault(context, dry)
    BY <1>3, <1>4, <1>5, <1>7
  <2> DEFINE choices == Select(config.strategy, config.targets)
  <2>2. /\ choices \subseteq HealthyDefault
        /\ choices = {} <=> HealthyDefault = {}
    BY <1>0, <1>2, SelectSound DEF HealthyDefault
  <2>3. HealthyDefault \subseteq {n \in Node : Up(n)}
    BY <1>2 DEF HealthyDefault, Range
  <2>4. CASE choices # {}
    <3>1. Choose(context, 0, choices, dry)
      BY <2>1, <2>4 DEF RouteDefault
    <3>2. PICK t \in choices :
            /\ decision' = [context |-> context, by |-> 0, target |-> t, dry |-> dry]
            /\ IF dry THEN UNCHANGED served ELSE Serve(0, t)
      BY <3>1 DEF Choose
    <3>3. Advance(0)
      BY <3>1 DEF Choose
    <3> HIDE DEF choices
    <3>4. t \in HealthyDefault /\ t \in Node /\ Up(t)
      BY <2>2, <2>3
    <3>5. QED
      BY <1>1, <1>3, <2>1, <3>2, <3>3, <3>4 DEF choices
  <2>5. CASE choices = {}
    <3> DEFINE usable == {config.fallback} \ ({None} \union {n \in Node : health[n] = "down"})
               t == IF config.targets # <<>> /\ usable # {} THEN config.fallback ELSE None
    <3>1. /\ decision' = [context |-> context, by |-> None, dry |-> dry, target |-> t]
          /\ UNCHANGED <<index, served>>
      BY <2>1, <2>5 DEF RouteDefault
    <3>2. usable # {} => config.fallback \in Node /\ Up(config.fallback)
      BY <1>2 DEF Up
    <3>3. usable = {} => config.fallback = None \/ ~ Up(config.fallback)
      BY <1>2 DEF Up
    <3> HIDE DEF usable
    <3>4. /\ t \in Node \union {None}
          /\ t # None => Up(t) /\ t = config.fallback
          /\ t = None /\ config.targets # <<>> /\ config.fallback # None => ~ Up(config.fallback)
      BY <1>2, <3>2, <3>3
    <3> HIDE DEF t
    <3>5. HealthyDefault = {}
      BY <2>2, <2>5
    <3>6. QED
      BY <1>1, <2>1, <3>1, <3>4, <3>5
  <2>6. QED
    BY <2>4, <2>5
<1>8. QED
  BY <1>6, <1>7

LEMMA ServeType ==
  ASSUME served \in [{0} \union Rank -> SUBSET Node], NEW l \in {0} \union Rank, NEW t \in Node,
         Serve(l, t)
  PROVE  served' \in [{0} \union Rank -> SUBSET Node]
BY DEF Serve

LEMMA NothingServedType ==
  ASSUME NEW c \in Config
  PROVE  NothingServed(c) \in [{0} \union DOMAIN c.rules -> SUBSET Node]
BY DEF NothingServed

LEMMA DecideKeeps ==
  ASSUME RouterTypeOK, NEW context \in Context, NEW dry \in BOOLEAN, Decide(context, dry)
  PROVE  /\ index' \in 0..(Cycle - 1)
         /\ decision' \in Decision
         /\ served' \in [{0} \union Rank -> SUBSET Node]
         /\ UNCHANGED <<config, health>>
         /\ DecisionSound'
<1>0. /\ Cycle \in Nat \ {0} /\ index \in 0..(Cycle - 1) /\ config \in Config /\ None \notin Node
      /\ served \in [{0} \union Rank -> SUBSET Node]
  BY RoutingAssumption DEF RouterTypeOK
<1>1. UNCHANGED <<config, health>>
  BY DecideCases
<1>2. Rank \subseteq Nat \ {0}
  BY <1>0, RuleType
<1>3. /\ \A i : Candidates(Rules[i])' = Candidates(Rules[i])
      /\ Usable(context)' = Usable(context)
      /\ HealthyDefault' = HealthyDefault
      /\ Rank' = Rank /\ Rules' = Rules
      /\ \A n : Up(n)' = Up(n)
  BY <1>1 DEF Candidates, Usable, HealthyDefault, Rank, Rules, Up, MatchRule
<1>4. CASE \E l \in {0} \union Rank, t \in Node :
             /\ decision' = [context |-> context, by |-> l, target |-> t, dry |-> dry]
             /\ Up(t)
             /\ l = 0 => Usable(context) = {} /\ t \in HealthyDefault
                          /\ t \in Select(config.strategy, config.targets)
             /\ l \in Rank =>
                  /\ l \in Usable(context) /\ t \in Candidates(Rules[l])
                  /\ t \in SelectFromRule(Rules[l])
                  /\ \A j \in Usable(context) : j = l \/ Precedes(Rules, l, j)
             /\ Advance(l)
             /\ IF dry THEN UNCHANGED served ELSE Serve(l, t)
  <2>1. PICK l \in {0} \union Rank, t \in Node :
             /\ decision' = [context |-> context, by |-> l, target |-> t, dry |-> dry]
             /\ Up(t)
             /\ l = 0 => Usable(context) = {} /\ t \in HealthyDefault
             /\ l \in Rank =>
                  /\ l \in Usable(context) /\ t \in Candidates(Rules[l])
                  /\ \A j \in Usable(context) : j = l \/ Precedes(Rules, l, j)
             /\ Advance(l)
             /\ IF dry THEN UNCHANGED served ELSE Serve(l, t)
    BY <1>4
  <2>2. index' \in 0..(Cycle - 1)
    <3>1. index + 1 \in Nat /\ (index + 1) % Cycle \in 0..(Cycle - 1)
      BY <1>0, ModNext
    <3>2. QED
      BY <1>0, <2>1, <3>1 DEF Advance
  <2>3. l \in Nat /\ l # None => decision' \in Decision
    BY <2>1 DEF Decision
  <2>4. l \in Nat
    BY <1>2
  <2>5. decision' \in Decision
    BY <2>1, <2>4 DEF Decision
  <2>6. served' \in [{0} \union Rank -> SUBSET Node]
    BY <1>0, <2>1, ServeType
  <2>7. \A j \in Usable(context) : l \in Rank =>
          /\ Rules[j].priority <= Rules[l].priority
          /\ Rules[j].priority = Rules[l].priority => l <= j
    <3>1. \A j \in Rank : j \in Nat /\ Rules[j].priority \in Int
      BY <1>0, <1>2, RuleType
    <3>2. Usable(context) \subseteq Rank
      BY DEF Usable
    <3>3. QED
      BY <2>1, <3>1, <3>2 DEF Precedes
  <2>8. /\ decision' # None /\ decision'.context = context
        /\ decision'.by = l /\ decision'.target = t /\ l # None
    BY <2>1, <2>4, <2>5, RoutingAssumption
  <2>9. DecisionSound'
    BY <1>1, <1>2, <1>3, <2>1, <2>7, <2>8 DEF DecisionSound
  <2>10. QED
    BY <1>1, <2>2, <2>5, <2>6, <2>9
<1>5. CASE /\ Usable(context) = {} /\ HealthyDefault = {}
           /\ \E t \in Node \union {None} :
                /\ decision' = [context |-> context, by |-> None, dry |-> dry, target |-> t]
                /\ t # None => Up(t) /\ t = config.fallback
                /\ t = None /\ config.targets # <<>> /\ config.fallback # None =>
                     ~ Up(config.fallback)
           /\ UNCHANGED <<index, served>>
  <2>1. PICK t \in Node \union {None} :
                /\ decision' = [context |-> context, by |-> None, dry |-> dry, target |-> t]
                /\ t # None => Up(t) /\ t = config.fallback
                /\ t = None /\ config.targets # <<>> /\ config.fallback # None =>
                     ~ Up(config.fallback)
    BY <1>5
  <2>2. decision' \in Decision
    BY <2>1 DEF Decision
  <2>3. /\ decision' # None /\ decision'.context = context
        /\ decision'.by = None /\ decision'.target = t /\ None \notin {0} \union Rank
    BY <1>2, <2>1, <2>2, RoutingAssumption
  <2>4. DecisionSound'
    BY <1>1, <1>3, <1>5, <2>1, <2>3 DEF DecisionSound
  <2>5. QED
    BY <1>0, <1>1, <1>5, <2>2, <2>4
<1>6. QED
  BY <1>4, <1>5, DecideCases

LEMMA InitTypeOK == RouterInit => RouterTypeOK
<1>1. SUFFICES ASSUME RouterInit PROVE RouterTypeOK
  OBVIOUS
<1>2. served \in [{0} \union Rank -> SUBSET Node]
  BY <1>1, NothingServedType DEF RouterInit, Rank, Rules
<1>3. 0 \in 0..(Cycle - 1)
  BY RoutingAssumption
<1>4. QED
  BY <1>1, <1>2, <1>3 DEF RouterInit, RouterTypeOK

LEMMA NextTypeOK ==
  ASSUME RouterTypeOK, [RouterNext]_routerVars
  PROVE  RouterTypeOK'
<1>1. ASSUME NEW context \in Context, Route(context) PROVE RouterTypeOK'
  <2>1. Decide(context, FALSE) /\ UNCHANGED tested
    BY <1>1 DEF Route
  <2>2. QED
    BY <2>1, DecideKeeps DEF RouterTypeOK, Rank, Rules
<1>2. ASSUME NEW context \in Context, TestRoute(context) PROVE RouterTypeOK'
  <2>1. Decide(context, TRUE) /\ tested' = TRUE
    BY <1>2 DEF TestRoute
  <2>2. QED
    BY <2>1, DecideKeeps DEF RouterTypeOK, Rank, Rules
<1>3. ASSUME NEW n \in Node, NEW h \in {"up", "down"}, SetNodeHealth(n, h) PROVE RouterTypeOK'
  <2>1. served' \in [{0} \union Rank -> SUBSET Node]
    BY <1>3, NothingServedType DEF SetNodeHealth, RouterTypeOK, Rank, Rules
  <2>2. QED
    BY <1>3, <2>1 DEF SetNodeHealth, RouterTypeOK, Rank, Rules
<1>4. ASSUME NEW c \in Config, UpdateConfig(c) PROVE RouterTypeOK'
  <2>1. served' \in [{0} \union DOMAIN c.rules -> SUBSET Node]
    BY <1>4, NothingServedType DEF UpdateConfig
  <2>2. QED
    BY <1>4, <2>1 DEF UpdateConfig, RouterTypeOK, Rank, Rules
<1>5. ASSUME UNCHANGED routerVars PROVE RouterTypeOK'
  BY <1>5 DEF routerVars, RouterTypeOK, Rank, Rules
<1>6. QED
  BY <1>1, <1>2, <1>3, <1>4, <1>5 DEF RouterNext

LEMMA NextDecisionSound ==
  ASSUME RouterTypeOK, DecisionSound, [RouterNext]_routerVars
  PROVE  DecisionSound'
<1>1. ASSUME NEW context \in Context, NEW dry \in BOOLEAN, Decide(context, dry)
      PROVE  DecisionSound'
  BY <1>1, DecideKeeps
<1>2. ASSUME decision' = None PROVE DecisionSound'
  BY <1>2 DEF DecisionSound
<1>3. ASSUME UNCHANGED routerVars PROVE DecisionSound'
  BY <1>3 DEF routerVars, DecisionSound, Usable, Candidates, MatchRule, HealthyDefault, Rank, Rules, Up
<1>4. QED
  BY <1>1, <1>2, <1>3 DEF RouterNext, Route, TestRoute, SetNodeHealth, UpdateConfig

(* The router's state stays of its type, and its index within the cycle.   *)
THEOREM TypeCorrect == RouterSpec => []RouterTypeOK
<1>1. RouterInit => RouterTypeOK
  BY InitTypeOK
<1>2. RouterTypeOK /\ [RouterNext]_routerVars => RouterTypeOK'
  BY NextTypeOK
<1>3. QED
  BY <1>1, <1>2, PTL DEF RouterSpec

(* Every decision of the router, dry or not, is by the first of the rules  *)
(* of highest priority among those that match and have a healthy target,   *)
(* by the default only when there is none, and refuses only when all fail. *)
THEOREM DecisionsAreSound == RouterSpec => []DecisionSound
<1>1. RouterInit => DecisionSound
  BY DEF RouterInit, DecisionSound
<1>2. RouterTypeOK /\ DecisionSound /\ [RouterNext]_routerVars => DecisionSound'
  BY NextDecisionSound
<1>3. QED
  BY <1>1, <1>2, TypeCorrect, PTL DEF RouterSpec

-----------------------------------------------------------------------------
(***************************************************************************)
(* Rotation.                                                               *)
(***************************************************************************)

(* No list of targets names a node twice: one that does serves it twice in *)
(* a round.                                                                *)
NoRepeats ==
  \A c \in Config :
    /\ IsInjective(c.targets)
    /\ \A i \in DOMAIN c.rules : IsInjective(c.rules[i].targets)

LEMMA FilterStays ==
  ASSUME UNCHANGED <<config, health>>, NEW l
  PROVE  FilterHealthy(TargetsOf(l))' = FilterHealthy(TargetsOf(l))
BY DEF FilterHealthy, TargetsOf, Rules

(* The places p-f of n on a ring, from f up to the one before p.           *)
Arc(f, p, n) == IF f <= p THEN f..(p - 1) ELSE (f..(n - 1)) \union (0..(p - 1))

(* A round of a list began at one of its healthy members and has served    *)
(* those from there to the one the index points at.                        *)
InRound(l) ==
  LET healthy == FilterHealthy(TargetsOf(l))
      n       == Len(healthy)
  IN  n \in Nat \ {0} =>
        \E f \in 0..(n - 1) : served[l] = {healthy[i + 1] : i \in Arc(f, index % n, n)}

(* The strengthening of RotatesAlone.                                      *)
Turn == Alone => \A l \in {0} \union Rank : IsRoundRobin(l) => InRound(l)

LEMMA TargetsType ==
  ASSUME NoRepeats, config \in Config, NEW l \in {0} \union Rank
  PROVE  /\ TargetsOf(l) \in Seq(Node) /\ IsInjective(TargetsOf(l))
         /\ \A n \in 1..Len(TargetsOf(l)) : Cycle % n = 0
<1>1. CASE l = 0
  BY <1>1, RoutingAssumption DEF TargetsOf, NoRepeats
<1>2. CASE l # 0
  BY <1>2, RuleType DEF TargetsOf, NoRepeats, Rank, Rules
<1>3. QED
  BY <1>1, <1>2

LEMMA NewRounds ==
  ASSUME index' \in Nat, served' = NothingServed(config)'
  PROVE  Turn'
<1>1. SUFFICES ASSUME NEW l \in {0} \union Rank' PROVE InRound(l)'
  BY DEF Turn
<1>2. served'[l] = {}
  BY DEF NothingServed, Rank, Rules
<1> DEFINE h == FilterHealthy(TargetsOf(l))
           n == Len(h)
<1>3. ASSUME n' \in Nat \ {0}
      PROVE  index' % n' \in 0..(n' - 1) /\ Arc(index' % n', index' % n', n') = {}
  <2>1. index' % n' \in 0..(n' - 1)
    BY <1>3, ModNext
  <2>2. QED
    BY <2>1 DEF Arc
<1> HIDE DEF h
<1>4. n' \in Nat \ {0} =>
        \E f \in 0..(n' - 1) : served'[l] = {h'[i + 1] : i \in Arc(f, index' % n', n')}
  BY <1>2, <1>3
<1>5. QED
  BY <1>4 DEF InRound, h

(* The index after a list has chosen, modulo the length of its healthy     *)
(* part.                                                                   *)
LEMMA IndexNext ==
  ASSUME RouterTypeOK, NEW l, IsRoundRobin(l), Advance(l), NEW n \in Nat \ {0}, Cycle % n = 0
  PROVE  index' % n = IF index % n = n - 1 THEN 0 ELSE (index % n) + 1
<1>1. /\ Cycle \in Nat \ {0} /\ index \in 0..(Cycle - 1) /\ index \in Nat
      /\ index' = (index + 1) % Cycle
  BY RoutingAssumption DEF RouterTypeOK, Advance
<1>2. (index + 1) % n = IF index % n = n - 1 THEN 0 ELSE (index % n) + 1
  BY <1>1, ModNext
<1>3. CASE index + 1 = Cycle
  <2>1. index % Cycle = index /\ index \in Nat
    BY <1>1
  <2>2. index' = 0
    BY <1>1, <1>3, <2>1, ModNext
  <2>3. 0 % n = 0
    BY DivMod
  <2>4. QED
    BY <1>2, <1>3, <2>2, <2>3
<1>4. CASE index + 1 # Cycle
  <2>1. index' = index + 1
    BY <1>1, <1>4
  <2>2. QED
    BY <1>2, <2>1
<1>5. QED
  BY <1>3, <1>4

LEMMA RoundStays ==
  ASSUME UNCHANGED <<config, health, index>>, NEW l, served'[l] = served[l], InRound(l)
  PROVE  InRound(l)'
<1> DEFINE h == FilterHealthy(TargetsOf(l))
           n == Len(h)
<1>1. h' = h
  BY FilterStays
<1> HIDE DEF h
<1>2. n \in Nat \ {0} =>
        \E f \in 0..(n - 1) : served'[l] = {h[i + 1] : i \in Arc(f, index' % n, n)}
  BY DEF InRound, h
<1>3. QED
  BY <1>1, <1>2 DEF InRound, h

LEMMA RoundStep ==
  ASSUME RouterTypeOK, NoRepeats, UNCHANGED <<config, health>>,
         NEW l \in {0} \union Rank, IsRoundRobin(l), InRound(l),
         NEW t, t \in Select("round-robin", TargetsOf(l)), Advance(l), Serve(l, t)
  PROVE  t \notin served[l] /\ InRound(l)'
<1> DEFINE h == FilterHealthy(TargetsOf(l))
           n == Len(h)
           p == index % n
           q == index' % n
<1>1. /\ config \in Config /\ index \in Nat
      /\ served \in [{0} \union Rank -> SUBSET Node]
  BY RoutingAssumption DEF RouterTypeOK
<1>2. /\ TargetsOf(l) \in Seq(Node) /\ IsInjective(TargetsOf(l))
      /\ \A k \in 1..Len(TargetsOf(l)) : Cycle % k = 0
  BY <1>1, TargetsType
<1>3. /\ h \in Seq(Node) /\ Len(h) <= Len(TargetsOf(l)) /\ IsInjective(h)
  BY <1>2, FilterHealthyFacts
<1>4. h # <<>> /\ t = h[p + 1]
  BY DEF Select
<1> HIDE DEF h
<1>5. n \in Nat \ {0} /\ DOMAIN h = 1..n /\ Cycle % n = 0
  BY <1>2, <1>3, <1>4
<1>6. p \in 0..(n - 1) /\ q \in 0..(n - 1) /\ q = IF p = n - 1 THEN 0 ELSE p + 1
  <2>1. p \in 0..(n - 1)
    BY <1>1, <1>5, ModNext
  <2>2. q = IF p = n - 1 THEN 0 ELSE p + 1
    BY <1>5, IndexNext
  <2> HIDE DEF n, p, q
  <2>3. QED
    BY <1>5, <2>1, <2>2
<1>7. PICK f \in 0..(n - 1) : served[l] = {h[i + 1] : i \in Arc(f, p, n)}
  BY <1>5 DEF InRound, h
<1>8. /\ p \notin Arc(f, p, n) /\ Arc(f, p, n) \subseteq 0..(n - 1)
      /\ Arc(q, q, n) = {}
      /\ q # f => Arc(f, q, n) = Arc(f, p, n) \union {p}
      /\ q = f => Arc(f, p, n) \union {p} = 0..(n - 1)
  <2>1. f \in 0..(n - 1) /\ n \in Nat \ {0}
    BY <1>5, <1>7
  <2> HIDE DEF n, p, q
  <2>2. QED
    BY <1>6, <2>1 DEF Arc
<1>9. h' = h
  BY FilterStays DEF h
<1>10. served'[l] = IF Range(h) \subseteq served[l] \union {t} THEN {} ELSE served[l] \union {t}
  BY <1>1 DEF Serve, h
<1>11. t \notin served[l]
  <2>1. SUFFICES ASSUME NEW i \in Arc(f, p, n), t = h[i + 1] PROVE FALSE
    BY <1>7
  <2>2. i + 1 \in DOMAIN h /\ p + 1 \in DOMAIN h /\ i # p
    BY <1>5, <1>6, <1>8
  <2>3. i + 1 = p + 1
    BY <1>3, <1>4, <2>1, <2>2 DEF IsInjective
  <2>4. QED
    BY <1>6, <1>8, <2>2, <2>3
<1>12. \E g \in 0..(n - 1) : served'[l] = {h[i + 1] : i \in Arc(g, q, n)}
  <2>1. CASE Range(h) \subseteq served[l] \union {t}
    <3>1. served'[l] = {h[i + 1] : i \in Arc(q, q, n)}
      BY <1>8, <1>10, <2>1
    <3>2. QED
      BY <1>6, <3>1
  <2>2. CASE ~ (Range(h) \subseteq served[l] \union {t})
    <3>1. served'[l] = {h[i + 1] : i \in Arc(f, p, n) \union {p}}
      BY <1>4, <1>7, <1>10, <2>2
    <3>2. q # f
      <4>1. SUFFICES ASSUME q = f PROVE Range(h) \subseteq served'[l]
        BY <1>10, <2>2
      <4>2. served'[l] = {h[i + 1] : i \in 0..(n - 1)}
        BY <1>8, <3>1, <4>1
      <4>3. \A k \in 1..n : k - 1 \in 0..(n - 1) /\ h[k] = h[(k - 1) + 1]
        BY <1>5
      <4>4. \A k \in 1..n : h[k] \in served'[l]
        BY <4>2, <4>3
      <4>5. QED
        BY <1>5, <4>4 DEF Range
    <3>3. QED
      BY <1>8, <3>1, <3>2
  <2>3. QED
    BY <2>1, <2>2
<1>13. InRound(l)'
  <2>1. n' = n
    BY <1>9
  <2>2. \E g \in 0..(n' - 1) : served'[l] = {h'[i + 1] : i \in Arc(g, index' % n', n')}
    BY <1>9, <1>12, <2>1
  <2> USE DEF h
  <2>3. (\E g \in 0..(n - 1) : served[l] = {h[i + 1] : i \in Arc(g, p, n)})'
    BY ONLY <2>2
  <2>4. QED
    BY ONLY <2>3 DEF InRound
<1>14. QED
  BY <1>11, <1>13

(* What a list that chooses has to choose from.                            *)
LEMMA ChosenIsListed ==
  ASSUME NEW l \in {0} \union Rank, 0 \notin Rank, IsRoundRobin(l), NEW t,
         l = 0 => t \in Select(config.strategy, config.targets),
         l \in Rank => t \in SelectFromRule(Rules[l])
  PROVE  t \in Select("round-robin", TargetsOf(l))
BY DEF IsRoundRobin, TargetsOf, SelectFromRule

LEMMA DecideTurns ==
  ASSUME RouterTypeOK, NoRepeats, Turn, Alone, NEW context \in Context, Decide(context, FALSE),
         UNCHANGED tested
  PROVE  InTurn /\ Turn'
<1>1. UNCHANGED <<config, health>>
  BY DecideCases
<1>2. /\ config \in Config /\ index \in Nat /\ None \notin Nat
      /\ served \in [{0} \union Rank -> SUBSET Node]
  BY RoutingAssumption DEF RouterTypeOK
<1>3. 0 \notin Rank /\ Rank \subseteq Nat
  BY <1>2, RuleType
<1>4. /\ Rank' = Rank /\ \A l : IsRoundRobin(l)' = IsRoundRobin(l)
      /\ \A l : FilterHealthy(TargetsOf(l))' = FilterHealthy(TargetsOf(l))
  BY <1>1, FilterStays DEF Rank, Rules, IsRoundRobin, StrategyOf
<1>5. \A l \in {0} \union Rank : IsRoundRobin(l) => InRound(l)
  BY DEF Turn
<1>6. CASE \E l \in {0} \union Rank, t \in Node :
             /\ decision' = [context |-> context, by |-> l, target |-> t, dry |-> FALSE]
             /\ l = 0 => t \in Select(config.strategy, config.targets)
             /\ l \in Rank => t \in SelectFromRule(Rules[l])
             /\ Advance(l) /\ Serve(l, t)
  <2>1. PICK l \in {0} \union Rank, t \in Node :
             /\ decision' = [context |-> context, by |-> l, target |-> t, dry |-> FALSE]
             /\ l = 0 => t \in Select(config.strategy, config.targets)
             /\ l \in Rank => t \in SelectFromRule(Rules[l])
             /\ Advance(l) /\ Serve(l, t)
    BY <1>6
  <2>2. /\ decision'.by = l /\ decision'.target = t /\ decision'.dry = FALSE
    BY <2>1
  <2>3. CASE IsRoundRobin(l)
    <3>1. t \in Select("round-robin", TargetsOf(l))
      BY <1>3, <2>1, <2>3, ChosenIsListed
    <3>2. t \notin served[l] /\ InRound(l)'
      BY <1>1, <1>5, <2>1, <2>3, <3>1, RoundStep
    <3>3. InTurn
      BY <2>1, <3>2 DEF InTurn
    <3>4. TargetsOf(l) # <<>>
      BY <1>2, <3>1, TargetsType, FilterHealthyFacts DEF Select
    <3>5. ASSUME NEW k \in {0} \union Rank, IsRoundRobin(k), k # l
          PROVE  InRound(k)'
      <4>1. TargetsOf(k) = <<>>
        BY <2>3, <3>4, <3>5 DEF Alone
      <4>2. Len(FilterHealthy(TargetsOf(k))) \notin Nat \ {0}
        <5>1. Len(TargetsOf(k)) = 0 /\ <<>> \in Seq(Node)
          BY <4>1
        <5>2. Len(FilterHealthy(TargetsOf(k))) <= 0
          BY <4>1, <5>1, FilterHealthyFacts
        <5>3. QED
          BY <5>2
      <4>3. QED
        BY <1>4, <4>2 DEF InRound
    <3>6. Turn'
      BY <1>4, <3>2, <3>5 DEF Turn
    <3>7. QED
      BY <3>3, <3>6
  <2>4. CASE ~ IsRoundRobin(l)
    <3>1. InTurn
      BY <2>1, <2>4 DEF InTurn
    <3>2. ASSUME NEW k \in {0} \union Rank, IsRoundRobin(k)
          PROVE  InRound(k)'
      <4>1. index' = index /\ served'[k] = served[k]
        BY <1>2, <2>1, <2>4, <3>2 DEF Advance, Serve
      <4>2. QED
        BY <1>1, <1>5, <3>2, <4>1, RoundStays
    <3>3. QED
      BY <1>4, <3>1, <3>2 DEF Turn
  <2>5. QED
    BY <2>3, <2>4
<1>7. CASE /\ \E t \in Node \union {None} :
                decision' = [context |-> context, by |-> None, dry |-> FALSE, target |-> t]
           /\ UNCHANGED <<index, served>>
  <2>1. InTurn
    BY <1>7 DEF InTurn
  <2>2. \A k \in {0} \union Rank : IsRoundRobin(k) => InRound(k)'
    BY <1>1, <1>5, <1>7, RoundStays
  <2>3. QED
    BY <1>4, <2>1, <2>2 DEF Turn
<1>8. QED
  BY <1>6, <1>7, DecideCases

LEMMA NextTurn ==
  ASSUME RouterTypeOK, RouterTypeOK', NoRepeats, Turn, RouterNext
  PROVE  (Alone => InTurn) /\ Turn'
<1>1. ASSUME NEW context \in Context, Route(context) PROVE (Alone => InTurn) /\ Turn'
  <2>1. Decide(context, FALSE) /\ UNCHANGED tested /\ UNCHANGED config
    BY <1>1, DecideCases DEF Route
  <2>2. Alone' = Alone
    BY <2>1 DEF Alone, Rank, Rules, IsRoundRobin, StrategyOf, TargetsOf
  <2>3. QED
    BY <2>1, <2>2, DecideTurns DEF Turn
<1>2. ASSUME NEW context \in Context, TestRoute(context) PROVE InTurn /\ Turn'
  <2>1. Decide(context, TRUE) /\ tested' = TRUE
    BY <1>2 DEF TestRoute
  <2>2. \E l, t : decision' = [context |-> context, by |-> l, target |-> t, dry |-> TRUE]
    BY <2>1, DecideCases
  <2>3. InTurn
    BY <2>2 DEF InTurn
  <2>4. QED
    BY <2>1, <2>3 DEF Turn, Alone
<1>3. ASSUME decision' = None, index' = index, served' = NothingServed(config)'
      PROVE  InTurn /\ Turn'
  <2>1. index' \in Nat
    BY <1>3, RoutingAssumption DEF RouterTypeOK
  <2>2. QED
    BY <1>3, <2>1, NewRounds DEF InTurn
<1>4. ASSUME NEW n \in Node, NEW h \in {"up", "down"}, SetNodeHealth(n, h) PROVE InTurn /\ Turn'
  BY <1>3, <1>4 DEF SetNodeHealth, NothingServed
<1>5. ASSUME NEW c \in Config, UpdateConfig(c) PROVE InTurn /\ Turn'
  BY <1>3, <1>5 DEF UpdateConfig, NothingServed
<1>6. QED
  BY <1>1, <1>2, <1>4, <1>5 DEF RouterNext

LEMMA TurnStays ==
  ASSUME Turn, UNCHANGED routerVars
  PROVE  Turn'
<1>1. UNCHANGED <<config, health, index, served, tested>>
  BY DEF routerVars
<1>2. /\ Alone' = Alone /\ Rank' = Rank
      /\ \A l : IsRoundRobin(l)' = IsRoundRobin(l)
  BY <1>1 DEF Alone, Rank, Rules, IsRoundRobin, StrategyOf, TargetsOf
<1>3. QED
  BY <1>1, <1>2, RoundStays DEF Turn

LEMMA InitTurn == RouterInit => Turn
<1>1. SUFFICES ASSUME RouterInit, NEW l \in {0} \union Rank PROVE InRound(l)
  BY DEF Turn
<1>2. served[l] = {} /\ index = 0
  BY <1>1 DEF RouterInit, NothingServed, Rank, Rules
<1> DEFINE h == FilterHealthy(TargetsOf(l))
           n == Len(h)
<1>3. ASSUME n \in Nat \ {0}
      PROVE  index % n \in 0..(n - 1) /\ Arc(index % n, index % n, n) = {}
  <2>1. index % n \in 0..(n - 1)
    BY <1>2, <1>3, ModNext
  <2>2. QED
    BY <2>1 DEF Arc
<1> HIDE DEF h
<1>4. n \in Nat \ {0} =>
        \E f \in 0..(n - 1) : served[l] = {h[i + 1] : i \in Arc(f, index % n, n)}
  BY <1>2, <1>3
<1>5. QED
  BY <1>4 DEF InRound, h

(* While health and configuration stay, a round-robin list that is alone   *)
(* serves each of its healthy targets once before it serves one again: if  *)
(* no list names a node twice, wherever the index shared with other lists  *)
(* was left and whichever targets are down.                                *)
THEOREM Rotates == NoRepeats => (RouterSpec => RotatesAlone)
<1>1. NoRepeats /\ RouterTypeOK /\ Turn /\ RouterTypeOK' /\ [RouterNext]_routerVars => Turn' /\ [Alone => InTurn]_routerVars
  <2>1. ASSUME NoRepeats, RouterTypeOK, Turn, RouterTypeOK', RouterNext PROVE Turn' /\ [Alone => InTurn]_routerVars
    BY <2>1, NextTurn
  <2>2. ASSUME Turn, UNCHANGED routerVars PROVE Turn' /\ [Alone => InTurn]_routerVars
    BY <2>2, TurnStays
  <2>3. QED
    BY <2>1, <2>2
<1>2. SUFFICES ASSUME NoRepeats PROVE RouterSpec => RotatesAlone
  OBVIOUS
<1>3. RouterTypeOK /\ Turn /\ RouterTypeOK' /\ [RouterNext]_routerVars => Turn' /\ [Alone => InTurn]_routerVars
  BY <1>1, <1>2
<1>4. QED
  BY <1>3, InitTurn, TypeCorrect, PTL DEF RouterSpec, RotatesAlone
=============================================================================
