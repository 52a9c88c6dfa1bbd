---------------------------- MODULE LabelsProofs ----------------------------
(* Proofs about the names in label maps, for all label maps.               *)
EXTENDS Labels, FiniteSetTheorems, TLAPS

-----------------------------------------------------------------------------
(* Induction and folds.                                                    *)

\* Induction over the natural numbers, for a set.
LEMMA NatInductive ==
    ASSUME NEW S, 0 \in S, \A n \in Nat : n \in S => n + 1 \in S
    PROVE  Nat \subseteq S
<1> SUFFICES ASSUME Nat \ S # {}
             PROVE  FALSE
  OBVIOUS
<1>1. \E x \in Nat \ S : \A y \in Nat \ S : <<y, x>> \notin OpToRel(<, Nat)
  BY NatLessThanWellFounded, WFMin
<1>2. PICK x \in Nat \ S : \A y \in Nat \ S : ~(y < x)
  BY <1>1 DEF OpToRel
<1>3. x # 0 /\ x - 1 \in Nat
  BY <1>2
<1>4. x - 1 \in S
  BY <1>2, <1>3
<1> QED BY <1>3, <1>4

LEMMA MaxIs ==
    ASSUME NEW S \in SUBSET Int, NEW m \in S, \A x \in S : m >= x
    PROVE  Max(S) = m
<1>1. Max(S) \in S /\ \A x \in S : Max(S) >= x
  BY DEF Max
<1>2. Max(S) \in Int /\ m \in Int /\ Max(S) >= m /\ m >= Max(S)
  BY <1>1
<1> QED BY <1>2

LEMMA MaxIn ==
    ASSUME NEW n \in Nat, NEW S \in SUBSET (1..n), S # {}
    PROVE  Max(S) \in S
<1> DEFINE Left == {y \in Nat : n - y \in S}
<1>1. ASSUME NEW x \in S
      PROVE  x \in Int /\ n - x \in Left
  <2>1. x \in Int /\ n - x \in Nat /\ n - (n - x) = x
    OBVIOUS
  <2> QED BY <2>1
<1>2. Left \in SUBSET Nat /\ Left # {}
  BY <1>1
<1>3. PICK y \in Left : \A z \in Left : <<z, y>> \notin OpToRel(<, Nat)
  <2> HIDE DEF Left
  <2> QED BY <1>2, NatLessThanWellFounded, WFMin
<1>4. \A z \in Left : ~(z < y)
  BY <1>2, <1>3 DEF OpToRel
<1>5. \E x \in S : \A z \in S : x >= z
  <2>1. n - y \in S /\ y \in Nat
    OBVIOUS
  <2>2. ASSUME NEW z \in S
        PROVE  n - y >= z
    <3>1. ~(n - z < y) /\ z \in Int
      BY <1>1, <1>4
    <3> QED BY <2>1, <3>1
  <2> QED BY <2>1, <2>2
<1> QED BY <1>5 DEF Max

\* What g says of the sets of indices, when it folds step from base.
Folds(g, n, base, step) ==
    \A s \in SUBSET (1..n) :
        g[s] = IF s = {} THEN base ELSE step[<<g[s \ {Max(s)}], Max(s)>>]

\* Every step function on finitely many indices has a fold.
LEMMA FoldExists ==
    ASSUME NEW n \in Nat, NEW V, NEW base \in V, NEW step \in [V \X (1..n) -> V]
    PROVE  \E g \in [SUBSET (1..n) -> V] : Folds(g, n, base, step)
<1> DEFINE Has(k) == \E g \in [SUBSET (1..k) -> V] : Folds(g, k, base, step)
           S == {k \in Nat : k <= n => Has(k)}
<1>1. 0 \in S
  <2> DEFINE g == [s \in SUBSET (1..0) |-> base]
  <2>1. SUBSET (1..0) = {{}}
    OBVIOUS
  <2>2. g \in [SUBSET (1..0) -> V] /\ Folds(g, 0, base, step)
    BY <2>1 DEF Folds
  <2> QED BY <2>2
<1>2. ASSUME NEW k \in Nat, k \in S
      PROVE  k + 1 \in S
  <2> SUFFICES ASSUME k + 1 <= n
               PROVE  Has(k + 1)
    <3> HIDE DEF Has
    <3> QED OBVIOUS
  <2>0. Has(k)
    <3> HIDE DEF Has
    <3> QED BY <1>2
  <2>1. PICK g \in [SUBSET (1..k) -> V] : Folds(g, k, base, step)
    BY <2>0
  <2> DEFINE h == [s \in SUBSET (1..(k + 1)) |->
                     IF k + 1 \in s THEN step[<<g[s \ {k + 1}], k + 1>>] ELSE g[s]]
  <2>2. ASSUME NEW s \in SUBSET (1..(k + 1)), k + 1 \in s
        PROVE  /\ s \ {k + 1} \in SUBSET (1..k)
               /\ Max(s) = k + 1
               /\ h[s] = step[<<h[s \ {Max(s)}], Max(s)>>]
               /\ h[s] \in V
    <3>1. s \ {k + 1} \in SUBSET (1..k) /\ s \ {k + 1} \in SUBSET (1..(k + 1))
      OBVIOUS
    <3>2. Max(s) = k + 1
      BY <2>2, MaxIs
    <3>3. h[s \ {k + 1}] = g[s \ {k + 1}] /\ h[s] = step[<<g[s \ {k + 1}], k + 1>>]
      BY <2>2, <3>1
    <3>4. <<g[s \ {k + 1}], k + 1>> \in V \X (1..n)
      BY <3>1
    <3> QED BY <3>1, <3>2, <3>3, <3>4
  <2>3. ASSUME NEW s \in SUBSET (1..(k + 1)), k + 1 \notin s
        PROVE  /\ h[s] = IF s = {} THEN base ELSE step[<<h[s \ {Max(s)}], Max(s)>>]
               /\ h[s] \in V
    <3>1. s \in SUBSET (1..k)
      <4>1. ASSUME NEW x \in s
            PROVE  x \in 1..k
        BY <2>3
      <4> QED BY <4>1
    <3> DEFINE r == s \ {Max(s)}
    <3>3. r \in SUBSET (1..k) /\ r \in SUBSET (1..(k + 1)) /\ k + 1 \notin r
      BY <2>3, <3>1
    <3>2. h[s] = g[s] /\ h[s \ {Max(s)}] = g[s \ {Max(s)}]
      BY <2>3, <3>1, <3>3
    <3> QED BY <2>1, <3>1, <3>2 DEF Folds
  <2>4. h \in [SUBSET (1..(k + 1)) -> V]
    BY <2>2, <2>3
  <2>5. Folds(h, k + 1, base, step)
    BY <2>2, <2>3 DEF Folds
  <2> QED BY <2>4, <2>5
<1> HIDE DEF S
<1>3. n \in S
  BY <1>1, <1>2, NatInductive
<1>4. Has(n)
  <2> HIDE DEF Has
  <2> QED BY <1>3 DEF S
<1> QED BY <1>4

\* A fold meets these sets of indices on its way.
LEMMA UpTo ==
    ASSUME NEW n \in Nat, NEW i \in 1..n
    PROVE  /\ 1..i \in SUBSET (1..n) /\ 1..(i - 1) \in SUBSET (1..n)
           /\ 1..i # {} /\ Max(1..i) = i /\ (1..i) \ {i} = 1..(i - 1)
<1> DEFINE I == 1..i
<1>1. I \in SUBSET Int /\ i \in I /\ \A x \in I : i >= x
  OBVIOUS
<1>2. Max(I) = i
  <2> HIDE DEF I
  <2> QED BY <1>1, MaxIs
<1>3. (1..i) \ {i} = 1..(i - 1)
  OBVIOUS
<1> QED BY <1>1, <1>2, <1>3

-----------------------------------------------------------------------------
(* One rule.                                                               *)

\* A rule is a sequence: its matchers are looked at one after another.
LEMMA AddRuleLoops ==
    ASSUME NEW rule, rule \in Seq(Range(rule)), NEW V, NEW hosts \in V,
           \A v \in V, m \in Range(rule) : AddHost(v, m) \in V
    PROVE  \E after : /\ after[0] = hosts
                      /\ \A i \in 1..Len(rule) : after[i] = AddHost(after[i - 1], rule[i])
                      /\ after[Len(rule)] = AddRule(hosts, rule)
<1> DEFINE n == Len(rule)
           step == [p \in V \X (1..n) |-> AddHost(p[1], rule[p[2]])]
           Eq(iter) == iter = [s \in SUBSET (1..n) |->
                IF s = {} THEN hosts ELSE AddHost(iter[s \ {Max(s)}], rule[Max(s)])]
           iter == CHOOSE f : Eq(f)
<1>1. n \in Nat /\ DOMAIN rule = 1..n /\ \A i \in 1..n : rule[i] \in Range(rule)
  BY DEF Range
<1>2. Eq(iter)
  <2>1. step \in [V \X (1..n) -> V]
    BY <1>1
  <2>2. PICK g \in [SUBSET (1..n) -> V] : Folds(g, n, hosts, step)
    BY <1>1, <2>1, FoldExists
  <2>3. ASSUME NEW s \in SUBSET (1..n), s # {}
        PROVE  g[s] = AddHost(g[s \ {Max(s)}], rule[Max(s)])
    <3>1. g[s] = step[<<g[s \ {Max(s)}], Max(s)>>]
      BY <2>2, <2>3 DEF Folds
    <3>2. Max(s) \in 1..n /\ g[s \ {Max(s)}] \in V
      BY <2>3, <1>1, MaxIn
    <3> QED BY <3>1, <3>2
  <2>4. g[{}] = hosts
    BY <2>2 DEF Folds
  <2>5. Eq(g)
    BY <2>3, <2>4
  <2> HIDE DEF Eq
  <2> QED BY <2>5
<1>3. AddRule(hosts, rule) = iter[1..n]
  BY <1>1 DEF AddRule, FoldLeft, MapThenFoldSet
<1> HIDE DEF iter
<1> DEFINE after == [i \in 0..n |-> iter[1..i]]
<1>4. after[0] = hosts
  BY <1>1, <1>2
<1>5. ASSUME NEW i \in 1..n
      PROVE  after[i] = AddHost(after[i - 1], rule[i])
  <2>1. iter[1..i] = AddHost(iter[1..(i - 1)], rule[i])
    <3>1. ASSUME NEW s \in SUBSET (1..n), s # {}
          PROVE  iter[s] = AddHost(iter[s \ {Max(s)}], rule[Max(s)])
      BY <1>2, <3>1
    <3> HIDE DEF Eq, n
    <3>2. /\ 1..i \in SUBSET (1..n) /\ 1..i # {}
          /\ Max(1..i) = i /\ (1..i) \ {i} = 1..(i - 1)
      BY <1>1, UpTo
    <3> QED BY <3>1, <3>2
  <2>2. i \in 0..n /\ i - 1 \in 0..n
    BY <1>1
  <2> QED BY <2>1, <2>2
<1>6. after[n] = iter[1..n]
  BY <1>1
<1> QED BY <1>3, <1>4, <1>5, <1>6

\* Lists without repetition.
Lists(N) == {s \in Seq(N) : IsInjective(s)}

\* What a matcher asks for, and a rule.
Named(matcher) == IF IsHost(matcher) THEN {Trimmed[matcher.args[1]]} \ {Blank} ELSE {}
NamedBy(rule) == UNION {Named(m) : m \in Range(rule)}

LEMMA AddHostAdds ==
    ASSUME NEW N, NEW hosts \in Lists(N), NEW m, Named(m) \subseteq N
    PROVE  /\ AddHost(hosts, m) \in Lists(N)
           /\ ToSet(AddHost(hosts, m)) = ToSet(hosts) \union Named(m)
<1> DEFINE name == Trimmed[m.args[1]]
<1>1. CASE IsHost(m) /\ name # Blank /\ ~Contains(hosts, name)
  <2>1. AddHost(hosts, m) = Append(hosts, name) /\ Named(m) = {name}
    BY <1>1 DEF AddHost, Named
  <2>2. \A i \in DOMAIN hosts : hosts[i] # name
    BY <1>1 DEF Contains, Lists
  <2> HIDE DEF name
  <2>3. /\ name \in N /\ hosts \in Seq(N) /\ Len(hosts) \in Nat
        /\ \A a, b \in DOMAIN hosts : hosts[a] = hosts[b] => a = b
    BY <2>1 DEF Lists, IsInjective
  <2> DEFINE s == Append(hosts, name)
             n == Len(hosts)
  <2>4. /\ s \in Seq(N) /\ DOMAIN s = 1..(n + 1) /\ DOMAIN hosts = 1..n
        /\ s[n + 1] = name /\ \A i \in 1..n : s[i] = hosts[i]
    BY <2>3
  <2> HIDE DEF s, n
  <2>5. ASSUME NEW a \in 1..(n + 1), NEW b \in 1..(n + 1), s[a] = s[b]
        PROVE  a = b
    <3>1. (a \in 1..n \/ a = n + 1) /\ (b \in 1..n \/ b = n + 1)
      BY <2>3 DEF n
    <3> QED BY <2>2, <2>3, <2>4, <2>5, <3>1
  <2>6. {s[i] : i \in 1..(n + 1)} = {hosts[i] : i \in 1..n} \union {name}
    <3>1. 1..(n + 1) = (1..n) \union {n + 1}
      BY <2>3 DEF n
    <3> QED BY <2>4, <3>1
  <2>7. s \in Lists(N)
    BY <2>4, <2>5 DEF Lists, IsInjective
  <2> QED BY <2>1, <2>4, <2>6, <2>7 DEF s, ToSet
<1>2. CASE IsHost(m) /\ name # Blank /\ Contains(hosts, name)
  <2>1. AddHost(hosts, m) = hosts /\ Named(m) = {name}
    BY <1>2 DEF AddHost, Named
  <2>2. name \in ToSet(hosts)
    BY <1>2 DEF Contains, Lists, ToSet
  <2> QED BY <2>1, <2>2
<1>3. CASE ~IsHost(m) \/ name = Blank
  <2>1. AddHost(hosts, m) = hosts /\ Named(m) = {}
    BY <1>3 DEF AddHost, Named
  <2> QED BY <2>1
<1> QED BY <1>1, <1>2, <1>3

\* A rule adds the names it asks for, each once.
LEMMA AddRuleAdds ==
    ASSUME NEW N, NEW hosts \in Lists(N), NEW rule, rule \in Seq(Range(rule)),
           NamedBy(rule) \subseteq N
    PROVE  /\ AddRule(hosts, rule) \in Lists(N)
           /\ ToSet(AddRule(hosts, rule)) = ToSet(hosts) \union NamedBy(rule)
<1> DEFINE n == Len(rule)
<1>1. n \in Nat /\ DOMAIN rule = 1..n
  OBVIOUS
<1>2. \A m \in Range(rule) : Named(m) \subseteq N
  BY DEF NamedBy
<1>3. PICK after :
         /\ after[0] = hosts
         /\ \A i \in 1..n : after[i] = AddHost(after[i - 1], rule[i])
         /\ after[n] = AddRule(hosts, rule)
  BY <1>2, AddHostAdds, AddRuleLoops
<1> DEFINE So(i) == UNION {Named(rule[j]) : j \in 1..i}
           Good(i) == after[i] \in Lists(N) /\ ToSet(after[i]) = ToSet(hosts) \union So(i)
           S == {i \in Nat : i <= n => Good(i)}
<1>4. Good(0)
  <2>1. 1..0 = {}
    OBVIOUS
  <2> QED BY <1>3, <2>1
<1>5. ASSUME NEW i \in Nat, i + 1 <= n, Good(i)
      PROVE  Good(i + 1)
  <2>1. i + 1 \in 1..n /\ (i + 1) - 1 = i
    BY <1>1, <1>5
  <2>2. after[i + 1] = AddHost(after[i], rule[i + 1]) /\ rule[i + 1] \in Range(rule)
    BY <1>1, <1>3, <2>1 DEF Range
  <2>3. So(i + 1) = So(i) \union Named(rule[i + 1])
    <3>1. 1..(i + 1) = (1..i) \union {i + 1}
      OBVIOUS
    <3> QED BY <3>1
  <2> HIDE DEF So, n
  <2> QED BY <1>2, <1>5, <2>2, <2>3, AddHostAdds
<1>6. Good(n)
  <2> HIDE DEF Good, n
  <2>1. 0 \in S /\ \A i \in Nat : i \in S => i + 1 \in S
    BY <1>1, <1>4, <1>5
  <2> HIDE DEF S
  <2>2. n \in S
    BY <1>1, <2>1, NatInductive
  <2> QED BY <1>1, <2>2 DEF S
<1>7. So(n) = NamedBy(rule)
  BY <1>1 DEF NamedBy, Range
<1> QED BY <1>3, <1>6, <1>7

-----------------------------------------------------------------------------
(* All rules of a label map, in any order.                                 *)

LEMMA OrderMeetsAll ==
    ASSUME NEW S, IsFiniteSet(S), NEW order \in SetToSeqs(S)
    PROVE  /\ Cardinality(S) \in Nat /\ DOMAIN order = 1..Cardinality(S)
           /\ \A i \in 1..Cardinality(S) : order[i] \in S
           /\ \A x \in S : \E i \in 1..Cardinality(S) : order[i] = x
<1> DEFINE n == Cardinality(S)
<1>1. n \in Nat
  BY FS_CardinalityType
<1>2. order \in [1..n -> S] /\ IsInjective(order)
  BY DEF SetToSeqs, IsInjective
<1>3. order \in Injection(1..n, S)
  BY <1>2 DEF Injection
<1>4. Cardinality(1..n) = n
  BY <1>1, FS_Interval
<1>5. order \in Surjection(1..n, S)
  BY <1>3, <1>4, FS_Injection
<1> QED BY <1>1, <1>2, <1>5 DEF Surjection

\* There is an order to walk through any of these maps.
LEMMA SomeOrder ==
    ASSUME NEW S, IsFiniteSet(S)
    PROVE  SetToSeqs(S) # {}
<1>1. PICK f : f \in Bijection(1..Cardinality(S), S)
  BY FS_CountingElements, FS_CardinalityType DEF ExistsBijection
<1>2. f \in SetToSeqs(S)
  BY <1>1 DEF Bijection, Injection, IsInjective, SetToSeqs
<1> QED BY <1>2

\* One member of ExtractHosts.
InOrder(map, order) ==
    FoldLeft(LAMBDA hosts, key : AddRule(hosts, map[key]), <<>>, order)

\* The rules are looked at one after another.
LEMMA ExtractLoops ==
    ASSUME NEW map, NEW n \in Nat, NEW order, DOMAIN order = 1..n,
           NEW V, <<>> \in V, \A v \in V, i \in 1..n : AddRule(v, map[order[i]]) \in V
    PROVE  \E after : /\ after[0] = <<>>
                      /\ \A i \in 1..n : after[i] = AddRule(after[i - 1], map[order[i]])
                      /\ after[n] = InOrder(map, order)
<1> DEFINE step == [p \in V \X (1..n) |-> AddRule(p[1], map[order[p[2]]])]
           Eq(iter) == iter = [s \in SUBSET (1..n) |->
                IF s = {} THEN <<>> ELSE AddRule(iter[s \ {Max(s)}], map[order[Max(s)]])]
           iter == CHOOSE f : Eq(f)
<1>2. Eq(iter)
  <2>1. step \in [V \X (1..n) -> V]
    OBVIOUS
  <2>2. PICK g \in [SUBSET (1..n) -> V] : Folds(g, n, <<>>, step)
    BY <2>1, FoldExists
  <2>3. ASSUME NEW s \in SUBSET (1..n), s # {}
        PROVE  g[s] = AddRule(g[s \ {Max(s)}], map[order[Max(s)]])
    <3>1. g[s] = step[<<g[s \ {Max(s)}], Max(s)>>]
      BY <2>2, <2>3 DEF Folds
    <3>2. Max(s) \in 1..n /\ g[s \ {Max(s)}] \in V
      BY <2>3, MaxIn
    <3> QED BY <3>1, <3>2
  <2>4. g[{}] = <<>>
    BY <2>2 DEF Folds
  <2>5. Eq(g)
    BY <2>3, <2>4
  <2> HIDE DEF Eq
  <2> QED BY <2>5
<1>3. InOrder(map, order) = iter[1..n]
  BY DEF InOrder, FoldLeft, MapThenFoldSet
<1> HIDE DEF iter
<1> DEFINE after == [i \in 0..n |-> iter[1..i]]
<1>4. after[0] = <<>>
  BY <1>2
<1>5. ASSUME NEW i \in 1..n
      PROVE  after[i] = AddRule(after[i - 1], map[order[i]])
  <2>1. iter[1..i] = AddRule(iter[1..(i - 1)], map[order[i]])
    <3>1. ASSUME NEW s \in SUBSET (1..n), s # {}
          PROVE  iter[s] = AddRule(iter[s \ {Max(s)}], map[order[Max(s)]])
      BY <1>2, <3>1
    <3> HIDE DEF Eq
    <3>2. /\ 1..i \in SUBSET (1..n) /\ 1..i # {}
          /\ Max(1..i) = i /\ (1..i) \ {i} = 1..(i - 1)
      BY UpTo
    <3> QED BY <3>1, <3>2
  <2>2. i \in 0..n /\ i - 1 \in 0..n
    OBVIOUS
  <2> QED BY <2>1, <2>2
<1>6. after[n] = iter[1..n]
  OBVIOUS
<1> QED BY <1>3, <1>4, <1>5, <1>6

\* In whatever order: no name twice, and the names the rules ask for.
LEMMA ExtractHostsAre ==
    ASSUME NEW map, IsLabelMap(map), NEW hosts \in ExtractHosts(map)
    PROVE  LET N == UNION {NamedBy(map[key]) : key \in RuleLabels(map)}
           IN  hosts \in Lists(N) /\ ToSet(hosts) = N
<1> DEFINE K == RuleLabels(map)
           N == UNION {NamedBy(map[key]) : key \in K}
           n == Cardinality(K)
<1>1. IsFiniteSet(K) /\ \A key \in K : map[key] \in Seq(Range(map[key]))
  <2>1. K \subseteq DOMAIN map
    BY DEF RuleLabels
  <2> QED BY <2>1, FS_Subset DEF IsLabelMap
<1>2. PICK order \in SetToSeqs(K) :
         hosts = InOrder(map, order)
  BY DEF ExtractHosts, InOrder
<1> HIDE DEF K
<1>3. /\ n \in Nat /\ DOMAIN order = 1..n
      /\ \A i \in 1..n : order[i] \in K
      /\ \A x \in K : \E i \in 1..n : order[i] = x
  BY <1>1, OrderMeetsAll
<1>4. ASSUME NEW key \in K
      PROVE  map[key] \in Seq(Range(map[key])) /\ NamedBy(map[key]) \subseteq N
  BY <1>1
<1> HIDE DEF n, N
<1>5. <<>> \in Lists(N)
  BY DEF Lists, IsInjective
<1>6. PICK after :
         /\ after[0] = <<>>
         /\ \A i \in 1..n : after[i] = AddRule(after[i - 1], map[order[i]])
         /\ after[n] = hosts
  <2>1. \A v \in Lists(N), i \in 1..n : AddRule(v, map[order[i]]) \in Lists(N)
    BY <1>3, <1>4, AddRuleAdds
  <2> DEFINE V == Lists(N)
  <2>2. <<>> \in V /\ \A v \in V, i \in 1..n : AddRule(v, map[order[i]]) \in V
    BY <1>5, <2>1
  <2> HIDE DEF V
  <2>3. n \in Nat /\ DOMAIN order = 1..n
    BY <1>3
  <2>4. \E after : /\ after[0] = <<>>
                   /\ \A i \in 1..n : after[i] = AddRule(after[i - 1], map[order[i]])
                   /\ after[n] = InOrder(map, order)
    BY <2>2, <2>3, ExtractLoops
  <2> QED BY <1>2, <2>4
<1> DEFINE So(i) == UNION {NamedBy(map[order[j]]) : j \in 1..i}
           Good(i) == after[i] \in Lists(N) /\ ToSet(after[i]) = So(i)
           S == {i \in Nat : i <= n => Good(i)}
<1>7. Good(0)
  <2>1. 1..0 = {} /\ ToSet(<<>>) = {}
    BY DEF ToSet
  <2> QED BY <1>5, <1>6, <2>1
<1>8. ASSUME NEW i \in Nat, i + 1 <= n, Good(i)
      PROVE  Good(i + 1)
  <2>1. i + 1 \in 1..n /\ (i + 1) - 1 = i
    BY <1>3, <1>8
  <2>2. after[i + 1] = AddRule(after[i], map[order[i + 1]]) /\ order[i + 1] \in K
    BY <1>3, <1>6, <2>1
  <2>3. So(i + 1) = So(i) \union NamedBy(map[order[i + 1]])
    <3>1. 1..(i + 1) = (1..i) \union {i + 1}
      OBVIOUS
    <3> QED BY <3>1
  <2>4. after[i] \in Lists(N) /\ ToSet(after[i]) = So(i)
    BY <1>8
  <2> DEFINE key == order[i + 1]
  <2>5. map[key] \in Seq(Range(map[key])) /\ NamedBy(map[key]) \subseteq N
    BY <1>4, <2>2
  <2> HIDE DEF So, key
  <2>6. /\ AddRule(after[i], map[key]) \in Lists(N)
        /\ ToSet(AddRule(after[i], map[key])) = So(i) \union NamedBy(map[key])
    BY <2>4, <2>5, AddRuleAdds
  <2> QED BY <2>2, <2>3, <2>6 DEF key
<1>9. Good(n)
  <2> HIDE DEF Good
  <2>1. 0 \in S /\ \A i \in Nat : i \in S => i + 1 \in S
    BY <1>3, <1>7, <1>8
  <2> HIDE DEF S
  <2>2. n \in S
    BY <1>3, <2>1, NatInductive
  <2> QED BY <1>3, <2>2 DEF S
<1>10. So(n) = N
  BY <1>3 DEF N
<1> QED BY <1>6, <1>9, <1>10 DEF N, K

-----------------------------------------------------------------------------
\* For every label map: there is a list of hosts, no name comes twice in it,
\* and it has the names the rules of the map ask for, whatever the order.
THEOREM HostsOfAMap ==
    ASSUME NEW map, IsLabelMap(map)
    PROVE  /\ ExtractHosts(map) # {}
           /\ \A hosts \in ExtractHosts(map) :
                 /\ IsInjective(hosts)
                 /\ ToSet(hosts) = UNION {NamedBy(map[key]) : key \in RuleLabels(map)}
<1>1. IsFiniteSet(RuleLabels(map))
  BY FS_Subset DEF IsLabelMap, RuleLabels
<1>2. ExtractHosts(map) # {}
  BY <1>1, SomeOrder DEF ExtractHosts
<1> QED BY <1>2, ExtractHostsAre DEF Lists

\* So it is with one rule by itself.
THEOREM HostsOfARule ==
    ASSUME NEW rule, rule \in Seq(Range(rule))
    PROVE  ToSet(ExtractHostsFromRule(rule)) = NamedBy(rule)
<1>1. <<>> \in Lists(NamedBy(rule)) /\ ToSet(<<>>) = {}
  BY DEF Lists, IsInjective, ToSet
<1> DEFINE N == NamedBy(rule)
<1>2. ToSet(AddRule(<<>>, rule)) = ToSet(<<>>) \union N
  BY <1>1, AddRuleAdds
<1> QED BY <1>1, <1>2 DEF ExtractHostsFromRule

\* What the specification of the reconciler assumes of its host lists, holds
\* of those the parser makes: lists of names, at least one for each label map,
\* and all those of a map with the same members.
THEOREM HostListsAsAssumed ==
    ASSUME NEW maps, \A map \in maps : IsLabelMap(map),
           NEW N, \A map \in maps : \A key \in RuleLabels(map) : NamedBy(map[key]) \subseteq N
    PROVE  /\ [map \in maps |-> ExtractHosts(map)] \in [maps -> (SUBSET Seq(N)) \ {{}}]
           /\ \A map \in maps : \A s, t \in ExtractHosts(map) :
                 {s[i] : i \in DOMAIN s} = {t[i] : i \in DOMAIN t}
<1>1. ASSUME NEW map \in maps
      PROVE  ExtractHosts(map) \in (SUBSET Seq(N)) \ {{}}
  <2>1. ASSUME NEW hosts \in ExtractHosts(map)
        PROVE  hosts \in Seq(N)
    <3> DEFINE M == UNION {NamedBy(map[key]) : key \in RuleLabels(map)}
    <3>1. M \subseteq N
      OBVIOUS
    <3>2. hosts \in Seq(M)
      BY ExtractHostsAre DEF Lists
    <3> HIDE DEF M
    <3> QED BY <3>1, <3>2
  <2> QED BY <2>1, HostsOfAMap
<1>2. ASSUME NEW map \in maps, NEW s \in ExtractHosts(map), NEW t \in ExtractHosts(map)
      PROVE  ToSet(s) = ToSet(t)
  BY HostsOfAMap
<1> QED BY <1>1, <1>2 DEF ToSet
=============================================================================
