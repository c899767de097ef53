------------------------------ MODULE Scope_proofs ------------------------------
(***************************************************************************)
(* Proofs about the scope engine: prefixes as blocks of addresses, what    *)
(* ExpandPrefix lists, what normalization changes; and with them that      *)
(* dials, answers and expansions are what the properties of Authorization  *)
(* say, for any address width, policies and submissions.                   *)
(***************************************************************************)
EXTENDS Authorization_proofs, FiniteSetTheorems

-----------------------------------------------------------------------------
(* Numbers. *)

(* Powers of two multiply: a subset of m + n elements is one of the first  *)
(* m with one of the others.                                               *)
LEMMA Powers ==
  ASSUME NEW m \in Nat, NEW n \in Nat
  PROVE  /\ 2 ^ (m + n) = (2 ^ m) * (2 ^ n)
         /\ 2 ^ m \in Nat \ {0}
<1> DEFINE A == 1..m
           B == (m + 1)..(m + n)
           AB == 1..(m + n)
<1>1. /\ IsFiniteSet(A) /\ Cardinality(A) = m
      /\ IsFiniteSet(B) /\ Cardinality(B) = n
      /\ IsFiniteSet(AB) /\ Cardinality(AB) = m + n
  <2>1. /\ IsFiniteSet(1..m) /\ Cardinality(1..m) = IF 1 > m THEN 0 ELSE m - 1 + 1
    BY FS_Interval
  <2>2. /\ IsFiniteSet((m + 1)..(m + n))
        /\ Cardinality((m + 1)..(m + n)) = IF m + 1 > m + n THEN 0 ELSE m + n - (m + 1) + 1
    BY FS_Interval
  <2>3. /\ IsFiniteSet(1..(m + n)) /\ Cardinality(1..(m + n)) = IF 1 > m + n THEN 0 ELSE m + n - 1 + 1
    BY FS_Interval
  <2>4. QED
    BY <2>1, <2>2, <2>3
<1>2. /\ IsFiniteSet(SUBSET A) /\ Cardinality(SUBSET A) = 2 ^ m
      /\ IsFiniteSet(SUBSET B) /\ Cardinality(SUBSET B) = 2 ^ n
      /\ IsFiniteSet(SUBSET AB) /\ Cardinality(SUBSET AB) = 2 ^ (m + n)
  BY <1>1, FS_SUBSET
<1>3. /\ IsFiniteSet((SUBSET A) \X (SUBSET B))
      /\ Cardinality((SUBSET A) \X (SUBSET B)) = (2 ^ m) * (2 ^ n)
  <2>1. /\ IsFiniteSet((SUBSET A) \X (SUBSET B))
        /\ Cardinality((SUBSET A) \X (SUBSET B)) = Cardinality(SUBSET A) * Cardinality(SUBSET B)
    BY <1>2, FS_Product
  <2>2. QED
    BY <1>2, <2>1
<1>4. A \cap B = {} /\ A \cup B = AB
  OBVIOUS
<1> HIDE DEF A, B, AB
<1>5. ExistsBijection((SUBSET A) \X (SUBSET B), SUBSET AB)
  <2> DEFINE f == [p \in (SUBSET A) \X (SUBSET B) |-> p[1] \cup p[2]]
  <2>1. f \in [(SUBSET A) \X (SUBSET B) -> SUBSET AB]
    BY <1>4
  <2>2. ASSUME NEW p \in (SUBSET A) \X (SUBSET B), NEW q \in (SUBSET A) \X (SUBSET B), f[p] = f[q]
        PROVE  p = q
    <3>1. p[1] = q[1] /\ p[2] = q[2]
      BY <1>4, <2>2
    <3>2. QED
      BY <3>1
  <2>3. ASSUME NEW s \in SUBSET AB
        PROVE  \E p \in (SUBSET A) \X (SUBSET B) : f[p] = s
    <3>1. <<s \cap A, s \cap B>> \in (SUBSET A) \X (SUBSET B)
      OBVIOUS
    <3>2. f[<<s \cap A, s \cap B>>] = s
      BY <1>4, <3>1
    <3>3. QED
      BY <3>1, <3>2
  <2> HIDE DEF f
  <2>4. f \in Bijection((SUBSET A) \X (SUBSET B), SUBSET AB)
    BY <2>1, <2>2, <2>3 DEF Bijection, Injection, Surjection, IsInjective
  <2>5. QED
    BY <2>4 DEF ExistsBijection
<1>6. 2 ^ (m + n) = (2 ^ m) * (2 ^ n)
  BY <1>2, <1>3, <1>5, FS_Bijection
<1>7. 2 ^ m \in Nat
  BY <1>2, FS_CardinalityType
<1>8. 2 ^ m # 0
  BY <1>2, FS_EmptySet
<1>9. QED
  BY <1>6, <1>7, <1>8

(* What it is to be the quotient. *)
LEMMA Division ==
  ASSUME NEW n \in Nat, NEW w \in Nat \ {0}, NEW q \in Nat
  PROVE  n \div w = q <=> q * w <= n /\ n < q * w + w
<1>1. /\ n \div w \in Nat
      /\ (n \div w) * w <= n /\ n < (n \div w) * w + w
  OBVIOUS
<1>2. ASSUME NEW a \in Nat, NEW b \in Nat, a < b PROVE a * w + w <= b * w
  <2>1. a + 1 <= b
    BY <1>2
  <2>2. (a + 1) * w <= b * w
    BY <2>1
  <2>3. QED
    BY <2>2
<1>3. QED
  BY <1>1, <1>2

(* The powers of two up to four. *)
LEMMA SmallPowers == 2 ^ 0 = 1 /\ 2 ^ 1 = 2
<1>1. Cardinality(SUBSET {0}) = 2 ^ Cardinality({0}) /\ Cardinality({0}) = 1
  BY FS_Singleton, FS_SUBSET
<1>2. SUBSET {0} = {{}} \cup {{0}}
  OBVIOUS
<1>3. Cardinality({{}} \cup {{0}}) = 2
  <2>1. IsFiniteSet({{}}) /\ Cardinality({{}}) = 1
    BY FS_Singleton
  <2>2. {0} \notin {{}}
    OBVIOUS
  <2>3. Cardinality({{}} \cup {{0}}) = IF {0} \in {{}} THEN Cardinality({{}}) ELSE Cardinality({{}}) + 1
    BY <2>1, FS_AddElement
  <2>4. QED
    BY <2>1, <2>2, <2>3
<1>4. 2 ^ 1 = 2
  BY <1>1, <1>2, <1>3
<1>5. QED
  BY <1>4

(* The size of an interval. *)
LEMMA IntervalSize ==
  ASSUME NEW low \in Int, NEW n \in Nat
  PROVE  IsFiniteSet(low..(low + n - 1)) /\ Cardinality(low..(low + n - 1)) = n
<1>1. PICK high \in Int : high = low + n - 1
  OBVIOUS
<1>2. IsFiniteSet(low..high) /\ Cardinality(low..high) = IF low > high THEN 0 ELSE high - low + 1
  BY FS_Interval
<1>3. QED
  BY <1>1, <1>2

-----------------------------------------------------------------------------
(* Prefixes. *)

Half == 2 ^ V4Bits

(* There are twice as many IPv6 addresses as IPv4 addresses. *)
LEMMA HalfOfAll == Half \in Nat \ {0} /\ 2 ^ (V4Bits + 1) = 2 * Half
<1>1. Half \in Nat \ {0}
  BY ScopeAssumption, Powers DEF Half
<1>2. 2 ^ (V4Bits + 1) = Half * (2 ^ 1)
  BY ScopeAssumption, Powers DEF Half
<1>3. QED
  BY <1>1, <1>2, SmallPowers

(* The width of a prefix divides the half of the addresses, except that of *)
(* the IPv6 default route, which is all of them.                           *)
LEMMA WidthDivides ==
  ASSUME NEW c, IsCIDR(c), Parses(c)
  PROVE  /\ Width(c) \in Nat \ {0}
         /\ Width(c) = 1 \/ Width(c) = 2 \/ Width(c) >= 4
         /\ \/ \E k \in Nat \ {0} : k * Width(c) = Half
            \/ c.family = "6" /\ c.bits = 0 /\ Width(c) = 2 * Half
<1> DEFINE e == BitLen(c) - c.bits
<1>1. e \in Nat /\ c.bits \in Nat /\ BitLen(c) \in Nat
  BY ScopeAssumption DEF IsCIDR, BitLen
<1>2. Width(c) = 2 ^ e
  BY DEF Width
<1> HIDE DEF e
<1>3. 2 ^ e \in Nat \ {0}
  BY <1>1, Powers
<1>4. 2 ^ e = 1 \/ 2 ^ e = 2 \/ 2 ^ e >= 4
  <2>1. CASE e = 0 \/ e = 1
    BY <2>1, SmallPowers
  <2>2. CASE e >= 2
    <3>1. PICK d \in Nat : e = 1 + (1 + d)
      <4>1. e - 2 \in Nat /\ e = 1 + (1 + (e - 2))
        BY <1>1, <2>2
      <4>2. QED
        BY <4>1
    <3>2. 2 ^ e = (2 ^ 1) * (2 ^ (1 + d))
      <4>1. 1 + d \in Nat
        OBVIOUS
      <4>2. 2 ^ (1 + (1 + d)) = (2 ^ 1) * (2 ^ (1 + d))
        BY <4>1, Powers
      <4>3. QED
        BY <3>1, <4>2
    <3>3. 2 ^ (1 + d) = (2 ^ 1) * (2 ^ d)
      BY Powers
    <3>4. 2 ^ d \in Nat \ {0}
      BY Powers
    <3>5. 2 ^ e = 4 * (2 ^ d)
      BY <3>2, <3>3, SmallPowers
    <3>6. QED
      BY <3>4, <3>5
  <2>3. QED
    BY <1>1, <2>1, <2>2
<1>5. CASE e <= V4Bits
  <2>1. PICK d \in Nat : V4Bits = d + e
    <3>1. V4Bits - e \in Nat /\ V4Bits = (V4Bits - e) + e
      BY <1>1, <1>5, ScopeAssumption
    <3>2. QED
      BY <3>1
  <2>2. Half = (2 ^ d) * (2 ^ e) /\ 2 ^ d \in Nat \ {0}
    BY <1>1, <2>1, Powers DEF Half
  <2>3. QED
    BY <1>2, <1>3, <1>4, <2>2
<1>6. CASE ~(e <= V4Bits)
  <2>1. c.family \in {"4", "6", "mapped"}
    BY DEF IsCIDR
  <2>2. c.family = "6" /\ c.bits = 0 /\ e = V4Bits + 1
    BY <1>1, <1>6, <2>1, ScopeAssumption DEF e, BitLen, Parses
  <2>3. QED
    BY <1>2, <1>3, <1>4, <2>2, HalfOfAll
<1>7. QED
  BY <1>5, <1>6

(* Whole blocks shift quotients. *)
LEMMA QuotientShifts ==
  ASSUME NEW v \in Nat, NEW k \in Nat, NEW w \in Nat \ {0}
  PROVE  (v + k * w) \div w = v \div w + k
<1> DEFINE q == v \div w
<1>1. q \in Nat /\ q * w <= v /\ v < q * w + w
  BY Division
<1> HIDE DEF q
<1>2. (q + k) * w = q * w + k * w /\ k * w \in Nat /\ q + k \in Nat
  BY <1>1
<1>3. (q + k) * w <= v + k * w /\ v + k * w < (q + k) * w + w
  BY <1>1, <1>2
<1>4. (v + k * w) \div w = q + k
  <2>1. PICK n \in Nat : n = v + k * w
    BY <1>2
  <2>2. PICK d \in Nat : d = q + k
    BY <1>2
  <2>3. d * w <= n /\ n < d * w + w
    BY <1>3, <2>1, <2>2
  <2>4. n \div w = d
    BY <2>3, Division
  <2>5. QED
    BY <2>1, <2>2, <2>4
<1>5. QED
  BY <1>4 DEF q

(* Where the block of a normalized prefix begins, and its half.            *)
First(p) == (p.value \div Width(p)) * Width(p)
Shift(p) == IF p.family = "4" THEN Half ELSE 0

(* A prefix that parses, normalized.                                       *)
LEMMA Parsed ==
  ASSUME NEW c, IsCIDR(c), Parses(c), NEW p, p = parsePrefix(c)
  PROVE  /\ p.family \in {"4", "6"} /\ p.value \in Nat /\ p.value < Half /\ p.bits \in Nat
         /\ Width(p) = Width(c)
         /\ c.family = "6" <=> p.family = "6"
         /\ c.family = "6" => p = c
         /\ c.family = "4" => p = c
         /\ c.family = "mapped" => c.value = p.value + Half
<1>1. /\ c.family \in {"4", "6", "mapped"} /\ c.value \in Nat /\ c.bits \in Nat
      /\ [family |-> c.family, value |-> c.value] \in Address
  BY DEF IsCIDR
<1>2. Half \in Nat \ {0} /\ 2 ^ (V4Bits + 1) = 2 * Half
  BY HalfOfAll
<1>3. CASE c.family # "mapped"
  <2>1. p = c
    BY <1>3 DEF parsePrefix
  <2>2. [family |-> c.family, value |-> c.value] \in Normal
    BY <1>1, <1>3 DEF Address
  <2>3. c.value < Half
    BY <1>2, <2>2 DEF Normal, Half
  <2>4. QED
    BY <1>1, <1>3, <2>1, <2>3
<1>4. CASE c.family = "mapped"
  <2>1. p = [family |-> "4", value |-> c.value - Half, bits |-> c.bits - 1]
    BY <1>4 DEF parsePrefix, Half
  <2>2. c.value \in Half..(2 * Half - 1)
    BY <1>1, <1>2, <1>4 DEF Address, Normal, Half
  <2>3. c.bits >= 1
    BY <1>4 DEF Parses
  <2>4. Width(p) = Width(c)
    <3>1. BitLen(p) = V4Bits /\ BitLen(c) = V4Bits + 1
      BY <1>4, <2>1 DEF BitLen
    <3>2. BitLen(p) - p.bits = BitLen(c) - c.bits
      BY <1>1, <2>1, <3>1, ScopeAssumption
    <3>3. QED
      BY <3>2 DEF Width
  <2>5. QED
    BY <1>1, <1>2, <1>4, <2>1, <2>2, <2>3, <2>4
<1>5. QED
  BY <1>3, <1>4

(* A prefix names one block, in the half of its family; the IPv6 default   *)
(* route names all of that half.                                           *)
LEMMA NamedIsBlock ==
  ASSUME NEW c, IsCIDR(c), Parses(c), NEW p, p = parsePrefix(c)
  PROVE  \/ /\ First(p) \in Nat /\ First(p) + Width(p) <= Half
            /\ Named(c) = (Shift(p) + First(p))..(Shift(p) + First(p) + Width(p) - 1)
         \/ /\ p.family = "6" /\ p.bits = 0 /\ First(p) = 0 /\ Width(p) = 2 * Half
            /\ Named(c) = 0..(Half - 1)
<1> DEFINE w == Width(c)
           v == p.value
           q == v \div w
           base == IF c.family = "4" THEN c.value + Half ELSE c.value
<1>1. /\ p.family \in {"4", "6"} /\ v \in Nat /\ v < Half /\ Width(p) = w
      /\ c.family = "6" <=> p.family = "6"
      /\ c.family = "6" => p = c
      /\ c.family = "4" => p = c
      /\ c.family = "mapped" => c.value = v + Half
  BY Parsed
<1>2. w \in Nat \ {0} /\ Half \in Nat \ {0} /\ 2 ^ (V4Bits + 1) = 2 * Half
  BY HalfOfAll, WidthDivides
<1>3. c.family \in {"4", "6", "mapped"} /\ base = Shift(p) + v
  BY <1>1, <1>2 DEF IsCIDR, Shift
<1>4. First(p) = q * w
  BY <1>1 DEF First
<1>5. q \in Nat /\ q * w <= v /\ v < q * w + w
  BY <1>1, <1>2, Division
<1>6. Named(c) = {n \in 0..(2 * Half - 1) : n \div w = base \div w /\ (c.family = "6" => n < Half)}
  BY <1>2 DEF Named, Half
<1> HIDE DEF w, v, q, base
<1>7. ASSUME NEW k \in Nat \ {0}, k * w = Half
      PROVE  /\ First(p) \in Nat /\ First(p) + Width(p) <= Half
             /\ Named(c) = (Shift(p) + First(p))..(Shift(p) + First(p) + Width(p) - 1)
  <2>1. q < k
    <3>1. SUFFICES ASSUME k <= q PROVE FALSE
      BY <1>5
    <3>2. k * w <= q * w
      BY <1>2, <1>5, <3>1
    <3>3. QED
      BY <1>1, <1>2, <1>5, <1>7, <3>2
  <2>2. q * w + w <= k * w
    <3>1. (q + 1) * w <= k * w
      BY <1>2, <1>5, <2>1
    <3>2. QED
      BY <1>2, <1>5, <3>1
  <2>3. First(p) \in Nat /\ First(p) + Width(p) <= Half
    BY <1>1, <1>2, <1>4, <1>5, <1>7, <2>2
  <2>4. PICK j \in Nat : Shift(p) = j * w /\ base \div w = q + j
    <3>1. CASE p.family = "4"
      <4>1. Shift(p) = k * w /\ base = v + k * w
        BY <1>1, <1>2, <1>3, <1>7, <3>1 DEF Shift
      <4>2. base \div w = q + k
        BY <1>1, <1>2, <4>1, QuotientShifts DEF q
      <4>3. QED
        BY <4>1, <4>2
    <3>2. CASE p.family # "4"
      <4>1. base = v /\ Shift(p) = 0 * w
        BY <1>1, <1>2, <1>3, <3>2 DEF Shift
      <4>2. base \div w = q + 0
        BY <1>5, <4>1 DEF q
      <4>3. QED
        BY <4>1, <4>2
    <3>3. QED
      BY <3>1, <3>2
  <2>5. ASSUME NEW n \in Nat
        PROVE  n \div w = base \div w <=> Shift(p) + First(p) <= n /\ n < Shift(p) + First(p) + w
    <3>1. (q + j) * w = Shift(p) + First(p) /\ q + j \in Nat
      BY <1>2, <1>4, <1>5, <2>4
    <3>2. QED
      BY <1>2, <2>4, <3>1, Division
  <2>6. Shift(p) \in {0, Half} /\ (c.family = "6" => Shift(p) = 0)
    BY <1>1 DEF Shift
  <2>7. QED
    BY <1>1, <1>2, <1>6, <2>3, <2>5, <2>6
<1>8. ASSUME c.family = "6", c.bits = 0, w = 2 * Half
      PROVE  /\ p.family = "6" /\ p.bits = 0 /\ First(p) = 0 /\ Width(p) = 2 * Half
             /\ Named(c) = 0..(Half - 1)
  <2>1. 0 \in Nat /\ 0 * w = 0
    BY <1>2
  <2>2. \A n \in Nat : n < 2 * Half => n \div w = 0
    BY <1>2, <1>8, <2>1, Division
  <2>3. base = v /\ q = 0
    BY <1>1, <1>2, <1>3, <1>8, <2>2 DEF Shift, q
  <2>4. base \div w = 0
    BY <2>3 DEF q
  <2>5. QED
    BY <1>1, <1>2, <1>4, <1>6, <1>8, <2>1, <2>2, <2>3, <2>4
<1>9. QED
  BY <1>7, <1>8, WidthDivides DEF w

(* A prefix covers, after normalization of both, what it names. *)
LEMMA CoversIsNamed ==
  ASSUME NEW c, IsCIDR(c), Parses(c), NEW a \in Normal
  PROVE  Covers(parsePrefix(c), a) <=> Mapped(a) \in Named(c)
<1>1. PICK p : p = parsePrefix(c)
  OBVIOUS
<1>2. /\ p.family \in {"4", "6"} /\ p.value \in Nat /\ p.value < Half
      /\ Width(p) \in Nat \ {0} /\ Half \in Nat \ {0}
  BY <1>1, Parsed, WidthDivides, HalfOfAll
<1>3. /\ a.family \in {"4", "6"} /\ a.value \in Nat /\ a.value < Half
      /\ Mapped(a) = Shift(a) + a.value
  BY <1>2 DEF Normal, Half, Mapped, Shift
<1>4. Covers(p, a) <=> a.family = p.family /\ First(p) <= a.value /\ a.value < First(p) + Width(p)
  <2>1. p.value \div Width(p) \in Nat
    BY <1>2, Division
  <2>2. a.value \div Width(p) = p.value \div Width(p)
          <=> First(p) <= a.value /\ a.value < First(p) + Width(p)
    BY <1>2, <1>3, <2>1, Division DEF First
  <2>3. QED
    BY <2>2 DEF Covers
<1>5. CASE /\ First(p) \in Nat /\ First(p) + Width(p) <= Half
           /\ Named(c) = (Shift(p) + First(p))..(Shift(p) + First(p) + Width(p) - 1)
  BY <1>1, <1>2, <1>3, <1>4, <1>5 DEF Shift
<1>6. CASE /\ p.family = "6" /\ p.bits = 0 /\ First(p) = 0 /\ Width(p) = 2 * Half
           /\ Named(c) = 0..(Half - 1)
  BY <1>1, <1>2, <1>3, <1>4, <1>6 DEF Shift
<1>7. QED
  BY <1>1, <1>5, <1>6, NamedIsBlock

(* What a policy permits. *)
LEMMA PermitsEach ==
  ASSUME NEW policy, NEW a, NEW port, Permits(policy, a, port)
  PROVE  /\ policy.active /\ port \notin policy.excluded
         /\ \E c \in policy.allowed : Covers(parsePrefix(c), a)
         /\ \A c \in policy.denied : ~Covers(parsePrefix(c), a)
BY DEF Permits

(* What the policy of a process permits is in its scope.                   *)
LEMMA PermittedInScope ==
  ASSUME NEW p \in Processes, WellFormed(Policy[p]), NEW a \in Normal, NEW port,
         Permits(Policy[p], a, port)
  PROVE  Policy[p].active /\ Mapped(a) \in InScope[p] /\ port \notin Policy[p].excluded
<1>1. \A c \in Policy[p].allowed \cup Policy[p].denied : IsCIDR(c)
  BY AuthorizationAssumption
<1>2. \A c \in Policy[p].allowed \cup Policy[p].denied : Parses(c)
  BY DEF WellFormed, New
<1>3. /\ Policy[p].active /\ port \notin Policy[p].excluded
      /\ \E c \in Policy[p].allowed : Covers(parsePrefix(c), a)
      /\ \A c \in Policy[p].denied : ~Covers(parsePrefix(c), a)
  BY PermitsEach
<1>4. \A c \in Policy[p].allowed \cup Policy[p].denied :
        Covers(parsePrefix(c), a) <=> Mapped(a) \in Named(c)
  BY <1>1, <1>2, CoversIsNamed
<1>5. PICK m : m = Mapped(a)
  OBVIOUS
<1>6. /\ m \in UNION {Named(c) : c \in Policy[p].allowed}
      /\ m \notin UNION {Named(c) : c \in Policy[p].denied}
  BY <1>3, <1>4, <1>5
<1>7. InScope[p] = (UNION {Named(c) : c \in Policy[p].allowed}) \ (UNION {Named(c) : c \in Policy[p].denied})
  BY DEF InScope
<1>8. m \in InScope[p]
  <2> DEFINE yes == UNION {Named(c) : c \in Policy[p].allowed}
             no == UNION {Named(c) : c \in Policy[p].denied}
  <2>1. InScope[p] = yes \ no
    BY <1>7
  <2>2. m \in yes /\ m \notin no
    BY <1>6
  <2> HIDE DEF yes, no
  <2>3. QED
    BY <2>1, <2>2
<1>9. QED
  BY <1>3, <1>5, <1>8

(* The first and the last address of a block set aside, what ExpandPrefix  *)
(* lists is what a prefix means by its hosts, and what it refuses is too   *)
(* much or a default route.                                                *)
LEMMA Expansion ==
  ASSUME NEW c, IsCIDR(c), NEW max \in Int
  PROVE  /\ ExpandPrefix(c, max) \in Seq(Normal)
         /\ ExpandPrefix(c, max) # <<>> =>
              {Mapped(a) : a \in ToSet(ExpandPrefix(c, max))} = HostsOf(c)
         /\ ExpandPrefix(c, max) = <<>> /\ Parses(c) /\ Cardinality(HostsOf(c)) <= max =>
              Cardinality(Named(c)) = Half
<1>1. PICK p : p = parsePrefix(c)
  OBVIOUS
<1> DEFINE w == Width(p)
           skipped == IF p.family = "4" /\ w >= 4 THEN 1 ELSE 0
           count == w - 2 * skipped
           refused == \/ ~Parses(c) \/ max < 1
                      \/ First(p) = 0 /\ p.bits = 0
                      \/ w > max + 2
                      \/ count > max
           hosts == [i \in 1..count |-> [family |-> p.family, value |-> First(p) + skipped + i - 1]]
<1>2. ExpandPrefix(c, max) = IF refused THEN <<>> ELSE hosts
  BY <1>1 DEF ExpandPrefix, First
<1>3. CASE ~Parses(c)
  BY <1>2, <1>3
<1>4. CASE Parses(c)
  <2>1. /\ p.family \in {"4", "6"} /\ p.value \in Nat /\ p.value < Half /\ p.bits \in Nat
        /\ Width(p) = Width(c) /\ Width(p) \in Nat \ {0} /\ Half \in Nat \ {0}
        /\ c.family = "6" <=> p.family = "6"
    BY <1>1, <1>4, Parsed, WidthDivides, HalfOfAll
  <2>2. w = 1 \/ w = 2 \/ w >= 4
    BY <1>4, <2>1, WidthDivides
  <2>3. count \in Nat \ {0} /\ skipped \in {0, 1}
    BY <2>1, <2>2
  <2> DEFINE low == Shift(p) + First(p)
             whole == low..(low + w - 1)
  <2>4. CASE /\ First(p) \in Nat /\ First(p) + Width(p) <= Half /\ Named(c) = whole
    <3>1. low \in Nat /\ IsFiniteSet(whole) /\ Cardinality(whole) = w
      <4>1. low \in Nat
        BY <2>1, <2>4 DEF Shift
      <4>2. w \in Nat
        BY <2>1
      <4> HIDE DEF low, w
      <4>3. QED
        BY <4>1, <4>2, IntervalSize
    <3>2. HostsOf(c) = (low + skipped)..(low + skipped + count - 1)
      <4>1. CASE c.family = "6" \/ Cardinality(whole) <= 2
        <5>1. HostsOf(c) = whole
          BY <2>4, <4>1 DEF HostsOf
        <5>2. skipped = 0
          BY <2>1, <3>1, <4>1
        <5>3. QED
          BY <2>1, <3>1, <5>1, <5>2
      <4>2. CASE ~(c.family = "6" \/ Cardinality(whole) <= 2)
        <5>1. HostsOf(c) = {n \in whole : \E lower, upper \in whole : lower < n /\ n < upper}
          BY <2>4, <4>2 DEF HostsOf
        <5>2. skipped = 1 /\ w >= 4
          BY <2>1, <2>2, <3>1, <4>2
        <5>3. ASSUME NEW n \in whole
              PROVE  (\E lower, upper \in whole : lower < n /\ n < upper)
                       <=> low < n /\ n < low + w - 1
          <6>1. low \in whole /\ low + w - 1 \in whole
            BY <2>1, <3>1
          <6>2. QED
            BY <2>1, <3>1, <6>1
        <5>4. QED
          <6>1. \A n : n \in HostsOf(c) <=> n \in Int /\ low < n /\ n < low + w - 1
            BY <2>1, <3>1, <5>1, <5>3
          <6>2. \A n : n \in (low + skipped)..(low + skipped + count - 1)
                         <=> n \in Int /\ low < n /\ n < low + w - 1
            BY <2>1, <3>1, <5>2
          <6>3. HostsOf(c) = {n \in HostsOf(c) : TRUE}
            OBVIOUS
          <6>4. QED
            BY <5>1, <6>1, <6>2
      <4>3. QED
        BY <4>1, <4>2
    <3>3. Cardinality(HostsOf(c)) = count
      <4>1. PICK x : x = low + skipped
        OBVIOUS
      <4>2. x \in Nat
        BY <2>3, <3>1, <4>1
      <4> HIDE DEF count
      <4>3. Cardinality(x..(x + count - 1)) = count
        BY <2>3, <4>2, IntervalSize
      <4>4. QED
        BY <3>2, <4>1, <4>3
    <3>4. hosts \in Seq(Normal) /\ hosts # <<>> /\ DOMAIN hosts = 1..count
      <4>1. \A i \in 1..count : [family |-> p.family, value |-> First(p) + skipped + i - 1] \in Normal
        BY <2>1, <2>3, <2>4 DEF Normal, Half
      <4>2. hosts \in [1..count -> Normal]
        BY <4>1
      <4> HIDE DEF hosts, count
      <4>3. hosts \in Seq(Normal)
        BY <2>3, <4>2
      <4>4. 1 \in DOMAIN hosts
        BY <2>3, <4>2
      <4>5. hosts # <<>>
        BY <4>4
      <4>6. DOMAIN hosts = 1..count
        BY <4>2
      <4>7. QED
        BY <4>3, <4>5, <4>6
    <3>5. {Mapped(a) : a \in ToSet(hosts)} = HostsOf(c)
      <4>1. \A i \in 1..count : Mapped(hosts[i]) = low + skipped + i - 1
        BY <2>1, <2>3, <2>4 DEF Mapped, Shift, Half
      <4>2. {Mapped(a) : a \in ToSet(hosts)} = {Mapped(hosts[i]) : i \in 1..count}
        BY <3>4 DEF ToSet
      <4> HIDE DEF hosts, count, skipped, low
      <4>3. ASSUME NEW n \in Int, low + skipped <= n, n <= low + skipped + count - 1
            PROVE  \E i \in 1..count : n = low + skipped + i - 1
        <5>1. n - low - skipped + 1 \in 1..count
          BY <2>3, <3>1, <4>3
        <5>2. n = low + skipped + (n - low - skipped + 1) - 1
          BY <2>3, <3>1, <4>3
        <5>3. QED
          BY <5>1, <5>2
      <4>4. \A i \in 1..count : low + skipped + i - 1 \in HostsOf(c)
        BY <2>3, <3>1, <3>2
      <4>5. ASSUME NEW n \in HostsOf(c) PROVE \E i \in 1..count : n = Mapped(hosts[i])
        <5>1. n \in Int /\ low + skipped <= n /\ n <= low + skipped + count - 1
          BY <3>2
        <5>2. PICK i \in 1..count : n = low + skipped + i - 1
          BY <4>3, <5>1
        <5>3. QED
          BY <4>1, <5>2
      <4>6. QED
        BY <4>1, <4>2, <4>4, <4>5
    <3>6. ASSUME refused, Cardinality(HostsOf(c)) <= max PROVE Cardinality(Named(c)) = Half
      <4>1. First(p) = 0 /\ p.bits = 0
        BY <1>4, <2>1, <2>3, <3>3, <3>6
      <4>2. w = Half
        <5>1. p.family = "4" => w = Half
          BY <2>1, <4>1, ScopeAssumption DEF Width, BitLen, Half
        <5>2. p.family = "6" => FALSE
          <6>1. p.family = "6" => w = 2 * Half
            BY <2>1, <4>1, ScopeAssumption, HalfOfAll DEF Width, BitLen, Half
          <6>2. QED
            BY <2>1, <2>4, <6>1
        <5>3. QED
          BY <2>1, <5>1, <5>2
      <4>3. QED
        BY <2>4, <3>1, <4>2
    <3> HIDE DEF hosts, refused
    <3>7. QED
      BY <1>2, <3>4, <3>5, <3>6
  <2>5. CASE /\ p.family = "6" /\ p.bits = 0 /\ First(p) = 0 /\ Width(p) = 2 * Half
             /\ Named(c) = 0..(Half - 1)
    <3>1. refused
      BY <2>5
    <3>2. Cardinality(0..(Half - 1)) = IF 0 > Half - 1 THEN 0 ELSE (Half - 1) - 0 + 1
      BY <2>1, FS_Interval
    <3>3. Cardinality(Named(c)) = Half
      BY <2>1, <2>5, <3>2
    <3>4. QED
      BY <1>2, <3>1, <3>3
  <2>6. QED
    BY <1>1, <1>4, <2>4, <2>5, NamedIsBlock
<1>5. QED
  BY <1>3, <1>4

-----------------------------------------------------------------------------
(* Jobs. *)

(* Normalization changes only how an address is written, and once.         *)
LEMMA Normalizes ==
  /\ \A a \in Address : NormalizeAddr(a) \in Normal
  /\ \A a \in Normal : NormalizeAddr(a) = a /\ a \in Address
<1>1. \A a \in Normal : NormalizeAddr(a) = a /\ a \in Address
  BY DEF Normal, Address, NormalizeAddr
<1>2. ASSUME NEW a \in Address PROVE NormalizeAddr(a) \in Normal
  <2>1. CASE a \in Normal
    BY <1>1, <2>1
  <2>2. CASE a \notin Normal
    <3>1. a.family = "mapped" /\ a.value \in Half..(2 * Half - 1)
      BY <1>2, <2>2, HalfOfAll DEF Address, Half
    <3>2. NormalizeAddr(a) = [family |-> "4", value |-> a.value - Half]
      BY <3>1 DEF NormalizeAddr, V4, Half
    <3>3. a.value - Half \in 0..(Half - 1)
      BY <3>1, HalfOfAll
    <3>4. QED
      BY <3>2, <3>3 DEF Normal, Half
  <2>3. QED
    BY <2>1, <2>2
<1>3. QED
  BY <1>1, <1>2

(* A finite set is the range of its list. *)
LEMMA Listing ==
  ASSUME NEW S, IsFiniteSet(S)
  PROVE  SetToSeq(S) \in Seq(S) /\ ToSet(SetToSeq(S)) = S
<1> DEFINE n == Cardinality(S)
           f == SetToSeq(S)
<1>1. n \in Nat /\ ExistsBijection(1..n, S)
  BY FS_CardinalityType
<1>2. \E g \in [1..n -> S] : IsInjective(g)
  BY <1>1 DEF ExistsBijection, Bijection, Injection
<1>3. f \in [1..n -> S] /\ IsInjective(f)
  BY <1>2 DEF SetToSeq
<1> HIDE DEF f
<1>4. f \in Injection(1..n, S)
  BY <1>3 DEF Injection
<1>5. Cardinality(1..n) = n
  <2>1. Cardinality(1..n) = IF 1 > n THEN 0 ELSE n - 1 + 1
    BY <1>1, FS_Interval
  <2>2. QED
    BY <1>1, <2>1
<1>6. f \in Surjection(1..n, S)
  BY <1>4, <1>5, FS_Injection
<1> HIDE DEF n
<1>7. DOMAIN f = 1..n /\ f \in Seq(S)
  BY <1>1, <1>3
<1>8. ToSet(f) = S
  BY <1>3, <1>6, <1>7 DEF ToSet, Surjection
<1>9. QED
  BY <1>7, <1>8 DEF f

(* What a list of n entries yields has at most n elements. *)
LEMMA ImageBound ==
  ASSUME NEW n \in Nat, NEW f, NEW S, f \in [1..n -> S]
  PROVE  LET T == {f[i] : i \in 1..n} IN IsFiniteSet(T) /\ Cardinality(T) <= n
<1> DEFINE T == {f[i] : i \in 1..n}
<1>1. f \in Surjection(1..n, T)
  BY DEF Surjection
<1>2. ExistsSurjection(1..n, T)
  BY <1>1 DEF ExistsSurjection
<1> HIDE DEF T
<1>3. IsFiniteSet(T) /\ Cardinality(T) <= n
  BY <1>2, FS_NatSurjection, FS_SurjCardinalityBound
<1>4. QED
  BY <1>3 DEF T

IsJob(content) == content.targets \in Seq(Address) /\ content.ports \in Seq(Int)

(* A job has no more addresses and ports than are listed. *)
LEMMA JobSize ==
  ASSUME NEW content, IsJob(content)
  PROVE  /\ IsFiniteSet(Addresses(content)) /\ Cardinality(Addresses(content)) <= Len(content.targets)
         /\ IsFiniteSet(ToSet(content.ports)) /\ Cardinality(ToSet(content.ports)) <= Len(content.ports)
         /\ Addresses(content) \subseteq Normal /\ ToSet(content.ports) \subseteq Int
<1>1. PICK s \in Seq(Address), t \in Seq(Int) : s = content.targets /\ t = content.ports
  BY DEF IsJob
<1>2. /\ Len(s) \in Nat /\ DOMAIN s = 1..Len(s) /\ \A i \in 1..Len(s) : s[i] \in Address
      /\ Len(t) \in Nat /\ DOMAIN t = 1..Len(t) /\ t \in [1..Len(t) -> Int]
  OBVIOUS
<1> DEFINE f == [i \in 1..Len(s) |-> NormalizeAddr(s[i])]
<1>3. f \in [1..Len(s) -> Normal]
  BY <1>2, Normalizes
<1>4. Addresses(content) = {f[i] : i \in 1..Len(s)}
  BY <1>1, <1>2 DEF Addresses, ToSet
<1>5. ToSet(content.ports) = {t[i] : i \in 1..Len(t)}
  BY <1>1, <1>2 DEF ToSet
<1> HIDE DEF f
<1>6. IsFiniteSet(Addresses(content)) /\ Cardinality(Addresses(content)) <= Len(s)
  BY <1>2, <1>3, <1>4, ImageBound
<1>7. IsFiniteSet(ToSet(content.ports)) /\ Cardinality(ToSet(content.ports)) <= Len(t)
  BY <1>2, <1>5, ImageBound
<1>8. Addresses(content) \subseteq Normal /\ ToSet(content.ports) \subseteq Int
  BY <1>2, <1>3, <1>4, <1>5
<1>9. QED
  BY <1>1, <1>6, <1>7, <1>8

(* A job within the budgets of a policy has no more hosts and ports.       *)
LEMMA Budgets ==
  ASSUME NEW content, IsJob(content), NEW hosts \in Int, NEW ports \in Int,
         Len(content.targets) \in 1..hosts, Len(content.ports) \in 1..ports,
         NEW E \in SUBSET Endpoints(content)
  PROVE  Cardinality({e.host : e \in E}) <= hosts /\ Cardinality({e.port : e \in E}) <= ports
<1>1. /\ {e.host : e \in E} \subseteq Addresses(content)
      /\ {e.port : e \in E} \subseteq ToSet(content.ports)
  BY DEF Endpoints
<1>2. /\ IsFiniteSet(Addresses(content)) /\ Cardinality(Addresses(content)) <= Len(content.targets)
      /\ IsFiniteSet(ToSet(content.ports)) /\ Cardinality(ToSet(content.ports)) <= Len(content.ports)
  BY JobSize
<1>3. /\ Cardinality({e.host : e \in E}) <= Cardinality(Addresses(content))
      /\ IsFiniteSet({e.host : e \in E})
  BY <1>1, <1>2, FS_Subset
<1>4. /\ Cardinality({e.port : e \in E}) <= Cardinality(ToSet(content.ports))
      /\ IsFiniteSet({e.port : e \in E})
  BY <1>1, <1>2, FS_Subset
<1>5. /\ Cardinality({e.host : e \in E}) \in Nat /\ Cardinality({e.port : e \in E}) \in Nat
      /\ Cardinality(Addresses(content)) \in Nat /\ Cardinality(ToSet(content.ports)) \in Nat
  BY <1>2, <1>3, <1>4, FS_CardinalityType
<1>6. Len(content.targets) \in Int /\ Len(content.ports) \in Int
  OBVIOUS
<1>7. QED
  BY <1>2, <1>3, <1>4, <1>5, <1>6

(* Normalizing a job leaves its endpoints. *)
LEMMA NormalizedIsJob ==
  ASSUME NEW content, IsJob(content)
  PROVE  IsJob(Normalized(content)) /\ Endpoints(Normalized(content)) = Endpoints(content)
<1> DEFINE A == Addresses(content)
           P == ToSet(content.ports)
           normal == Normalized(content)
<1>1. /\ A \subseteq Normal /\ P \subseteq Int
      /\ SetToSeq(A) \in Seq(A) /\ ToSet(SetToSeq(A)) = A
      /\ SetToSeq(P) \in Seq(P) /\ ToSet(SetToSeq(P)) = P
  BY JobSize, Listing
<1>2. normal.targets = SetToSeq(A) /\ normal.ports = SetToSeq(P)
  BY DEF Normalized
<1> HIDE DEF normal, A, P
<1>3. SetToSeq(A) \in Seq(Address) /\ SetToSeq(P) \in Seq(Int)
  <2>1. A \subseteq Address
    BY <1>1, Normalizes
  <2>2. ASSUME NEW X, NEW Y, X \subseteq Y, NEW s \in Seq(X) PROVE s \in Seq(Y)
    BY <2>2
  <2>3. QED
    BY <1>1, <2>1, <2>2
<1>4. IsJob(normal)
  BY <1>2, <1>3 DEF IsJob
<1>5. Addresses(normal) = A
  BY <1>1, <1>2, Normalizes DEF Addresses
<1>6. Endpoints(normal) = Endpoints(content)
  BY <1>1, <1>2, <1>5 DEF Endpoints, A, P
<1>7. QED
  BY <1>4, <1>6 DEF normal

(* What is asked for is a job, and the job made of it dials just that.     *)
LEMMA Submitted ==
  ASSUME NEW r \in Requests
  PROVE  /\ IsJob(Asked[r]) /\ IsJob(Payload[r]) /\ Targets[r] = Wanted[r]
         /\ Targets[r] = Endpoints(Payload[r]) /\ \A e \in Targets[r] : e.host \in Normal
<1>1. /\ Request[r].targets \in Seq(Address) /\ Request[r].ports \in Seq(Int)
      /\ Request[r].via = "cli" => IsCIDR(Request[r].prefix)
      /\ PolicyOf(r).maxHosts \in Int
  BY AuthorizationAssumption DEF PolicyOf
<1>2. IsJob(Asked[r])
  <2>1. Asked[r] = [targets |-> IF Request[r].via = "cli"
                                THEN ExpandPrefix(Request[r].prefix, PolicyOf(r).maxHosts)
                                ELSE Request[r].targets,
                    ports |-> Request[r].ports]
    BY DEF Asked
  <2>2. CASE Request[r].via = "cli"
    <3>1. ExpandPrefix(Request[r].prefix, PolicyOf(r).maxHosts) \in Seq(Normal)
      BY <1>1, <2>2, Expansion
    <3>2. ExpandPrefix(Request[r].prefix, PolicyOf(r).maxHosts) \in Seq(Address)
      BY <3>1, Normalizes
    <3>3. QED
      BY <1>1, <2>1, <2>2, <3>2 DEF IsJob
  <2>3. CASE Request[r].via # "cli"
    BY <1>1, <2>1, <2>3 DEF IsJob
  <2>4. QED
    BY <2>2, <2>3
<1>3. IsJob(Payload[r]) /\ Endpoints(Payload[r]) = Endpoints(Asked[r])
  BY <1>2, NormalizedIsJob DEF Payload
<1>4. \A e \in Endpoints(Payload[r]) : e.host \in Normal
  BY <1>3, JobSize DEF Endpoints
<1>5. QED
  BY <1>2, <1>3, <1>4 DEF Targets, Wanted

-----------------------------------------------------------------------------
(* The inductive invariants. *)

(* No row is of a later second than the latest, and a job is run by a      *)
(* process that could start.                                               *)
TableInv ==
  /\ \A r \in Requests : created[r] <= second
  /\ \A p \in Processes :
       worker[p].job # NoJob => attempts[worker[p].job] > 0 /\ WellFormed(Policy[p])

(* What a worker has before it. *)
Pending(p) == worker[p].todo \cup worker[p].flight

(* Whatever a worker has before it, in flight or behind it belongs to a    *)
(* job its own policy admits.                                              *)
AdmittedInv ==
  /\ \A p \in Processes : \A e \in Pending(p) :
       worker[p].job # NoJob /\ e \in Targets[worker[p].job] /\ Admits(Policy[p], Payload[worker[p].job])
  /\ \A d \in decisions : d.at \in AllEndpoints
  /\ \A d \in dials : /\ d.by \in Processes /\ d.job \in Requests /\ d.at \in Targets[d.job]
                      /\ Admits(Policy[d.by], Payload[d.job]) /\ WellFormed(Policy[d.by])

(* What a preview says, a submission is told, and expansion yields.        *)
Permitted == {"admitted", "enqueued", "accepted", "unaudited", "withdrawn", "abandoned",
              "waited", "failing", "failed"}
Answered == {"enqueued", "waited", "accepted", "unaudited"}
Told(r) ==
  /\ preview[r] = "allowed" => PreviewJob(r)
  /\ preview[r] = "denied" => ~PreviewJob(r)
  /\ stage[r] \in Permitted => PreviewJob(r)
  /\ stage[r] = "denied" /\ faults = 0 => ~PreviewJob(r)
  /\ stage[r] \in Answered =>
       /\ answer[r] \in Requests /\ job[answer[r]] # "none"
       /\ answer[r] # r => Request[r].via = "mcp" /\ Request[r].key = Request[answer[r]].key
  /\ Request[r].via = "cli" /\ stage[r] = "unexpanded" => Asked[r].targets = <<>>
  /\ Request[r].via = "cli" /\ stage[r] \notin {"absent", "new", "unexpanded"} =>
       Asked[r].targets # <<>>
AnsweredInv ==
  /\ faults \in Nat /\ preview \in [Requests -> {"none", "allowed", "denied"}]
  /\ \A r \in Requests : Told(r)

(* Rows stay, or one is added of the latest second. *)
LEMMA RowsStay ==
  ASSUME TypeInv, RowInv, [Next]_vars
  PROVE  \/ /\ UNCHANGED <<created, second>>
            /\ \A q \in Requests : job'[q] = "none" <=> job[q] = "none"
         \/ \E r \in Requests : /\ job[r] = "none" /\ job' = [job EXCEPT ![r] = "queued"]
                                /\ second' \in {second, second + 1} \ {0}
                                /\ created' = [created EXCEPT ![r] = second']
<1> USE DEF jobVars, submitVars
<1>t. job \in [Requests -> JobStates]
  BY DEF TypeInv, TablesTyped
<1>1. ASSUME NEW r \in Requests, Enqueue(r)
      PROVE  \/ UNCHANGED <<created, second, job>>
             \/ /\ job[r] = "none" /\ job' = [job EXCEPT ![r] = "queued"]
                /\ second' \in {second, second + 1} \ {0}
                /\ created' = [created EXCEPT ![r] = second']
  BY <1>1 DEF Enqueue, RowInv, NoRowYet
<1>2. ASSUME NEW r \in Requests, Withdraw(r) \/ Cancel(r)
      PROVE  /\ UNCHANGED <<created, second>>
             /\ \A q \in Requests : job'[q] = "none" <=> job[q] = "none"
  <2>1. /\ UNCHANGED <<created, second>>
        /\ \/ job' = job
           \/ \E j : job' = [job EXCEPT ![j] = IF @ = "queued" THEN "cancelled" ELSE @]
    BY <1>2 DEF Withdraw, Cancel, CancelRow
  <2>2. QED
    BY <1>t, <2>1
<1>3. ASSUME NEW p \in Processes, NEW j \in Requests, Claim(p, j)
      PROVE  /\ UNCHANGED <<created, second>>
             /\ \A q \in Requests : job'[q] = "none" <=> job[q] = "none"
  BY <1>t, <1>3 DEF Claim
<1>4. ASSUME NEW p \in Processes, AttemptEnds(p)
      PROVE  /\ UNCHANGED <<created, second>>
             /\ \A q \in Requests : job'[q] = "none" <=> job[q] = "none"
  <2>1. /\ UNCHANGED <<created, second>> /\ job[worker[p].job] # "none"
        /\ job' = job \/ \E outcome \in Terminal : job' = [job EXCEPT ![worker[p].job] = outcome]
    BY <1>4 DEF AttemptEnds, RowInv, Terminal
  <2>2. QED
    BY <1>t, <2>1 DEF Terminal
<1>5. ASSUME NEW r \in Requests,
             \/ TurnAway(r) \/ Preflight(r) \/ AuditCreate(r)
             \/ Wait(r) \/ PrintResult(r) \/ Preview(r)
      PROVE  UNCHANGED <<created, second, job>>
  BY <1>5 DEF TurnAway, Preflight, AuditCreate, Wait, PrintResult, Preview
<1>6. ASSUME NEW p \in Processes, NEW e, Start(p) \/ Decide(p, e) \/ Dial(p, e) \/ CtxEnds(p)
      PROVE  UNCHANGED <<created, second, job>>
  BY <1>6 DEF Start, Decide, Dial, CtxEnds
<1>7. CASE UNCHANGED vars
  BY <1>7 DEF vars
<1>8. QED
  BY <1>1, <1>2, <1>3, <1>4, <1>5, <1>6, <1>7 DEF Next, Submit, Execute

(* What ValidateJob answers. *)
LEMMA Validated ==
  ASSUME NEW p, NEW content, NEW v \in Validations(p, content)
  PROVE  /\ v.lost = 0 \/ v.lost = 1
         /\ v.allowed => Admits(Policy[p], content)
         /\ ~v.allowed /\ v.lost = 0 => ~Admits(Policy[p], content)
<1> DEFINE a == Admits(Policy[p], content)
<1>1. v = [allowed |-> a, lost |-> 0] \/ v = [allowed |-> FALSE, lost |-> 1]
  BY DEF Validations
<1> HIDE DEF a
<1>2. CASE v = [allowed |-> a, lost |-> 0]
  <2>1. v.allowed = a /\ v.lost = 0
    BY <1>2
  <2>2. QED
    BY <2>1 DEF a
<1>3. CASE v = [allowed |-> FALSE, lost |-> 1]
  BY <1>3
<1>4. QED
  BY <1>1, <1>2, <1>3

(* A worker goes on with the job it has, and what it finds to do more is   *)
(* of a job its policy admits; or it is left without a job; or it claims.  *)
LEMMA WorkerSteps ==
  ASSUME TypeInv, RowInv, [Next]_vars, NEW p \in Processes
  PROVE  \/ /\ worker'[p].job = worker[p].job
            /\ \A e \in Pending(p)' :
                 \/ e \in Pending(p)
                 \/ /\ worker[p].job \in Requests /\ e \in Targets[worker[p].job]
                    /\ Admits(Policy[p], Payload[worker[p].job])
         \/ Pending(p)' = {} /\ worker'[p].job = NoJob
         \/ /\ Pending(p)' = {} /\ worker'[p].job \in Requests
            /\ attempts'[worker'[p].job] > 0 /\ WellFormed(Policy[p])
<1> DEFINE Goal == \/ /\ worker'[p].job = worker[p].job
                      /\ \A e \in Pending(p)' :
                           \/ e \in Pending(p)
                           \/ /\ worker[p].job \in Requests /\ e \in Targets[worker[p].job]
                              /\ Admits(Policy[p], Payload[worker[p].job])
                   \/ Pending(p)' = {} /\ worker'[p].job = NoJob
                   \/ /\ Pending(p)' = {} /\ worker'[p].job \in Requests
                      /\ attempts'[worker'[p].job] > 0 /\ WellFormed(Policy[p])
<1>t. worker \in [Processes -> WorkerState] /\ attempts \in [Requests -> Nat]
  BY DEF TypeInv, TablesTyped, WorkersTyped
<1>k. ASSUME worker'[p] = worker[p] PROVE Goal
  BY <1>k DEF Pending
<1>f. ASSUME NEW t, NEW f, worker'[p].job = worker[p].job, worker'[p].todo = t, worker'[p].flight = f,
             t \cup f \subseteq worker[p].todo \cup worker[p].flight
      PROVE  Goal
  BY <1>f DEF Pending
<1> SUFFICES Goal
  OBVIOUS
<1> HIDE DEF Goal
<1>1. ASSUME NEW r \in Requests, Submit(r) \/ Preview(r) \/ Cancel(r) PROVE Goal
  <2>1. UNCHANGED worker
    BY <1>1 DEF Submit, TurnAway, Preflight, Enqueue, AuditCreate, Withdraw, Wait, PrintResult,
                Preview, Cancel
  <2>2. QED
    BY <1>k, <2>1
<1>2. ASSUME NEW q \in Processes, NEW j \in Requests, Claim(q, j) PROVE Goal
  <2>1. /\ WellFormed(Policy[q]) /\ attempts' = [attempts EXCEPT ![j] = @ + 1]
        /\ worker' = [worker EXCEPT ![q] = [Idle EXCEPT !.job = j, !.ctx = "new"]]
    BY <1>2 DEF Claim
  <2>2. CASE q # p
    BY <1>k, <1>t, <2>1, <2>2
  <2>3. CASE q = p
    <3>1. worker'[p] = [job |-> j, todo |-> {}, flight |-> {}, ctx |-> "new"]
      BY <1>t, <2>1, <2>3 DEF Idle
    <3>2. attempts'[j] > 0
      BY <1>t, <2>1
    <3>3. Pending(p)' = {} /\ worker'[p].job = j
      BY <3>1 DEF Pending
    <3>4. QED
      BY <2>1, <2>3, <3>2, <3>3 DEF Goal
  <2>4. QED
    BY <2>2, <2>3
<1>3. ASSUME NEW q \in Processes, Start(q) PROVE Goal
  <2>1. PICK v \in AtStart[q][worker[q].job] :
           worker' = [worker EXCEPT ![q].ctx = IF v.allowed THEN "live" ELSE "done",
                                    ![q].todo = IF v.allowed THEN Targets[worker[q].job] ELSE {}]
    BY <1>3 DEF Start
  <2>2. worker[q].job \in Requests
    BY <1>3, <1>t DEF Start, RowInv, WorkerState
  <2>3. v.allowed => Admits(Policy[q], Payload[worker[q].job])
    <3>1. v \in Validations(q, Payload[worker[q].job])
      BY <2>1, <2>2 DEF AtStart
    <3>2. QED
      BY <3>1, Validated
  <2>4. CASE q # p
    BY <1>k, <1>t, <2>1, <2>4
  <2>5. CASE q = p /\ v.allowed
    <3>1. worker' = [worker EXCEPT ![p] = [worker[p] EXCEPT !.ctx = "live", !.todo = Targets[worker[p].job]]]
      BY <2>1, <2>5, <1>t
    <3>2. /\ worker'[p].job = worker[p].job
          /\ Pending(p)' = Targets[worker[p].job] \cup worker[p].flight
      BY <3>1, <1>t DEF Pending, WorkerState
    <3>3. QED
      BY <2>2, <2>3, <2>5, <3>2 DEF Goal, Pending
  <2>6. CASE q = p /\ ~v.allowed
    <3>1. worker' = [worker EXCEPT ![p] = [worker[p] EXCEPT !.ctx = "done", !.todo = {}]]
      BY <2>1, <2>6, <1>t
    <3>2. /\ worker'[p].job = worker[p].job
          /\ worker'[p].todo = {} /\ worker'[p].flight = worker[p].flight
      BY <3>1, <1>t DEF WorkerState
    <3>3. QED
      BY <1>f, <3>2
  <2>7. QED
    BY <2>4, <2>5, <2>6
<1>4. ASSUME NEW q \in Processes, NEW e, Decide(q, e) PROVE Goal
  <2>1. PICK v \in Finalized(q, e) :
           worker' = [worker EXCEPT ![q].todo = @ \ {e},
                                    ![q].flight = IF v.allowed THEN @ \cup {e} ELSE @]
    BY <1>4 DEF Decide
  <2>2. CASE q # p
    BY <1>k, <1>t, <2>1, <2>2
  <2>3. CASE q = p
    <3> DEFINE f == IF v.allowed THEN worker[p].flight \cup {e} ELSE worker[p].flight
    <3>1. worker' = [worker EXCEPT ![p] = [worker[p] EXCEPT !.todo = @ \ {e}, !.flight = f]]
      BY <2>1, <2>3, <1>t
    <3>2. f \subseteq worker[p].flight \cup {e} /\ e \in worker[p].todo
      BY <1>4, <2>3 DEF Decide
    <3> HIDE DEF f
    <3>3. /\ worker'[p].job = worker[p].job
          /\ worker'[p].todo = worker[p].todo \ {e} /\ worker'[p].flight = f
      BY <3>1, <1>t DEF WorkerState
    <3>4. (worker[p].todo \ {e}) \cup f \subseteq worker[p].todo \cup worker[p].flight
      BY <3>2
    <3>5. QED
      BY <1>f, <3>3, <3>4
  <2>4. QED
    BY <2>2, <2>3
<1>5. ASSUME NEW q \in Processes, NEW e, Dial(q, e) PROVE Goal
  <2>1. PICK again \in {{}, {e}} :
           worker' = [worker EXCEPT ![q].flight = @ \ {e}, ![q].todo = @ \cup again]
    BY <1>5 DEF Dial
  <2>2. CASE q # p
    BY <1>k, <1>t, <2>1, <2>2
  <2>3. CASE q = p
    <3>1. worker' = [worker EXCEPT ![p] = [worker[p] EXCEPT !.todo = @ \cup again, !.flight = @ \ {e}]]
      BY <2>1, <2>3, <1>t
    <3>2. /\ worker'[p].job = worker[p].job
          /\ worker'[p].todo = worker[p].todo \cup again /\ worker'[p].flight = worker[p].flight \ {e}
      BY <3>1, <1>t DEF WorkerState
    <3>3. e \in worker[p].flight
      BY <1>5, <2>3 DEF Dial
    <3>4. (worker[p].todo \cup again) \cup (worker[p].flight \ {e})
            \subseteq worker[p].todo \cup worker[p].flight
      BY <3>3
    <3>5. QED
      BY <1>f, <3>2, <3>4
  <2>4. QED
    BY <2>2, <2>3
<1>6. ASSUME NEW q \in Processes, CtxEnds(q) PROVE Goal
  <2>1. worker' = [worker EXCEPT ![q].ctx = "done"]
    BY <1>6 DEF CtxEnds
  <2>2. CASE q # p
    BY <1>k, <1>t, <2>1, <2>2
  <2>3. CASE q = p
    <3>1. worker' = [worker EXCEPT ![p] = [worker[p] EXCEPT !.ctx = "done"]]
      BY <2>1, <2>3, <1>t
    <3>2. /\ worker'[p].job = worker[p].job
          /\ worker'[p].todo = worker[p].todo /\ worker'[p].flight = worker[p].flight
      BY <3>1, <1>t DEF WorkerState
    <3>3. QED
      BY <1>f, <3>2
  <2>4. QED
    BY <2>2, <2>3
<1>7. ASSUME NEW q \in Processes, AttemptEnds(q) PROVE Goal
  <2>1. worker' = [worker EXCEPT ![q] = Idle]
    BY <1>7 DEF AttemptEnds
  <2>2. CASE q # p
    BY <1>k, <1>t, <2>1, <2>2
  <2>3. CASE q = p
    <3>1. worker'[p] = [job |-> NoJob, todo |-> {}, flight |-> {}, ctx |-> "live"]
      BY <1>t, <2>1, <2>3 DEF Idle
    <3>2. QED
      BY <3>1 DEF Goal, Pending
  <2>4. QED
    BY <2>2, <2>3
<1>8. CASE UNCHANGED vars
  BY <1>8, <1>k DEF vars
<1>9. QED
  BY <1>1, <1>2, <1>3, <1>4, <1>5, <1>6, <1>7, <1>8 DEF Next, Execute

(* Every step keeps the table. *)
LEMMA NextTable == TypeInv /\ RowInv /\ TableInv /\ [Next]_vars => TableInv'
<1> SUFFICES ASSUME TypeInv, RowInv, TableInv, [Next]_vars PROVE TableInv'
  OBVIOUS
<1>t. /\ created \in [Requests -> Nat] /\ second \in Nat /\ attempts \in [Requests -> Nat]
      /\ worker \in [Processes -> WorkerState]
  BY DEF TypeInv, TablesTyped, WorkersTyped
<1>1. \A r \in Requests : created'[r] <= second'
  <2>1. CASE UNCHANGED <<created, second>>
    BY <2>1 DEF TableInv
  <2>2. CASE \E r \in Requests : /\ second' \in {second, second + 1} \ {0}
                                 /\ created' = [created EXCEPT ![r] = second']
    BY <1>t, <2>2 DEF TableInv
  <2>3. QED
    BY <2>1, <2>2, RowsStay
<1>2. \A j \in Requests : attempts'[j] >= attempts[j]
  <2>1. attempts' = attempts \/ \E j \in Requests : attempts' = [attempts EXCEPT ![j] = @ + 1]
    <3>1. ASSUME NEW r \in Requests, Submit(r) \/ Preview(r) \/ Cancel(r) PROVE UNCHANGED attempts
      BY <3>1 DEF Submit, TurnAway, Preflight, Enqueue, AuditCreate, Withdraw, Wait, PrintResult,
                  Preview, Cancel, jobVars
    <3>2. ASSUME NEW p \in Processes, NEW e,
                 Start(p) \/ Decide(p, e) \/ Dial(p, e) \/ CtxEnds(p) \/ AttemptEnds(p)
          PROVE  UNCHANGED attempts
      BY <3>2 DEF Start, Decide, Dial, CtxEnds, AttemptEnds, jobVars
    <3>3. ASSUME NEW p \in Processes, NEW j \in Requests, Claim(p, j)
          PROVE  attempts' = [attempts EXCEPT ![j] = @ + 1]
      BY <3>3 DEF Claim
    <3>4. CASE UNCHANGED vars
      BY <3>4 DEF vars, jobVars
    <3>5. QED
      BY <3>1, <3>2, <3>3, <3>4 DEF Next, Execute
  <2>2. QED
    BY <1>t, <2>1
<1>3. ASSUME NEW p \in Processes, worker'[p].job # NoJob
      PROVE  attempts'[worker'[p].job] > 0 /\ WellFormed(Policy[p])
  <2>1. CASE worker'[p].job = worker[p].job
    <3>1. worker[p].job \in Requests
      BY <1>3, <1>t, <2>1 DEF WorkerState
    <3>2. attempts[worker[p].job] > 0 /\ WellFormed(Policy[p])
      BY <1>3, <2>1 DEF TableInv
    <3>3. attempts[worker[p].job] \in Nat /\ attempts'[worker[p].job] \in Nat
      <4>1. TypeInv'
        BY NextTypeInv
      <4>2. QED
        BY <1>t, <3>1, <4>1 DEF TypeInv, TablesTyped
    <3>4. QED
      BY <1>2, <2>1, <3>1, <3>2, <3>3
  <2>2. CASE worker'[p].job # worker[p].job
    BY <1>3, <2>2, WorkerSteps
  <2>3. QED
    BY <2>1, <2>2
<1>4. QED
  BY <1>1, <1>3 DEF TableInv

(* Every step keeps that what is run is admitted. *)
LEMMA NextAdmitted == TypeInv /\ RowInv /\ TableInv /\ AdmittedInv /\ [Next]_vars => AdmittedInv'
<1> SUFFICES ASSUME TypeInv, RowInv, TableInv, AdmittedInv, [Next]_vars PROVE AdmittedInv'
  OBVIOUS
<1>t. worker \in [Processes -> WorkerState]
  BY DEF TypeInv, WorkersTyped
<1>1. ASSUME NEW p \in Processes, NEW e \in Pending(p)'
      PROVE  /\ worker'[p].job # NoJob /\ e \in Targets[worker'[p].job]
             /\ Admits(Policy[p], Payload[worker'[p].job])
  <2>1. /\ worker'[p].job = worker[p].job
        /\ \/ e \in Pending(p)
           \/ /\ worker[p].job \in Requests /\ e \in Targets[worker[p].job]
              /\ Admits(Policy[p], Payload[worker[p].job])
    BY <1>1, WorkerSteps
  <2>2. CASE e \in Pending(p)
    BY <2>1, <2>2 DEF AdmittedInv
  <2>3. CASE e \notin Pending(p)
    BY <2>1, <2>3, AuthorizationAssumption
  <2>4. QED
    BY <2>2, <2>3
<1>2. ASSUME NEW d \in decisions' PROVE d \in decisions \/ d.at \in AllEndpoints
  <2>1. ASSUME NEW p \in Processes, NEW e, Decide(p, e) PROVE d \in decisions \/ d.at \in AllEndpoints
    <3>1. PICK v \in Finalized(p, e) : decisions' = decisions \cup v.rows
      BY <2>1 DEF Decide
    <3>2. v.rows = {Row(p, e)} \/ v.rows = {}
      BY <3>1 DEF Finalized
    <3>3. Row(p, e).at = e
      BY DEF Row
    <3>4. e \in AllEndpoints
      BY <1>t, <2>1 DEF Decide, WorkerState
    <3>5. QED
      BY <1>2, <3>1, <3>2, <3>3, <3>4
  <2>2. ASSUME NEW r \in Requests, Submit(r) \/ Preview(r) \/ Cancel(r) PROVE d \in decisions
    BY <1>2, <2>2 DEF Submit, TurnAway, Preflight, Enqueue, AuditCreate, Withdraw, Wait, PrintResult,
                      Preview, Cancel
  <2>3. ASSUME NEW p \in Processes, NEW j, NEW e,
               Claim(p, j) \/ Start(p) \/ Dial(p, e) \/ CtxEnds(p) \/ AttemptEnds(p)
        PROVE  d \in decisions
    BY <1>2, <2>3 DEF Claim, Start, Dial, CtxEnds, AttemptEnds
  <2>4. CASE UNCHANGED vars
    BY <1>2, <2>4 DEF vars
  <2>5. QED
    BY <2>1, <2>2, <2>3, <2>4 DEF Next, Execute
<1>3. ASSUME NEW d \in dials'
      PROVE  \/ d \in dials
             \/ \E p \in Processes : \E e \in Pending(p) : d = [by |-> p, job |-> worker[p].job, at |-> e]
  <2>1. ASSUME NEW p \in Processes, NEW e, Dial(p, e)
        PROVE  d \in dials \/ (d = [by |-> p, job |-> worker[p].job, at |-> e] /\ e \in Pending(p))
    BY <1>3, <2>1 DEF Dial, Pending
  <2>2. ASSUME NEW r \in Requests, Submit(r) \/ Preview(r) \/ Cancel(r) PROVE d \in dials
    BY <1>3, <2>2 DEF Submit, TurnAway, Preflight, Enqueue, AuditCreate, Withdraw, Wait, PrintResult,
                      Preview, Cancel
  <2>3. ASSUME NEW p \in Processes, NEW j, NEW e,
               Claim(p, j) \/ Start(p) \/ Decide(p, e) \/ CtxEnds(p) \/ AttemptEnds(p)
        PROVE  d \in dials
    BY <1>3, <2>3 DEF Claim, Start, Decide, CtxEnds, AttemptEnds
  <2>4. CASE UNCHANGED vars
    BY <1>3, <2>4 DEF vars
  <2>5. QED
    BY <2>1, <2>2, <2>3, <2>4 DEF Next, Execute
<1>4. ASSUME NEW d \in dials'
      PROVE  /\ d.by \in Processes /\ d.job \in Requests /\ d.at \in Targets[d.job]
             /\ Admits(Policy[d.by], Payload[d.job]) /\ WellFormed(Policy[d.by])
  <2>1. CASE d \in dials
    BY <2>1 DEF AdmittedInv
  <2>2. CASE \E p \in Processes : \E e \in Pending(p) : d = [by |-> p, job |-> worker[p].job, at |-> e]
    <3>1. PICK p \in Processes : \E e \in Pending(p) : d = [by |-> p, job |-> worker[p].job, at |-> e]
      BY <2>2
    <3>2. PICK e \in Pending(p) : d = [by |-> p, job |-> worker[p].job, at |-> e]
      BY <3>1
    <3>3. d.by = p /\ d.job = worker[p].job /\ d.at = e
      BY <3>2
    <3>4. /\ worker[p].job # NoJob /\ e \in Targets[worker[p].job]
          /\ Admits(Policy[p], Payload[worker[p].job])
      BY <3>2 DEF AdmittedInv
    <3>5. worker[p].job \in Requests /\ WellFormed(Policy[p])
      BY <1>t, <3>4 DEF TableInv, WorkerState
    <3>6. QED
      BY <3>3, <3>4, <3>5
  <2>3. QED
    BY <1>3, <1>4, <2>1, <2>2
<1>5. \A d \in decisions' : d.at \in AllEndpoints
  BY <1>2 DEF AdmittedInv
<1>6. QED
  BY <1>1, <1>4, <1>5 DEF AdmittedInv

(* Every step keeps what submissions are told. *)
LEMMA NextAnswered == TypeInv /\ RowInv /\ AnsweredInv /\ [Next]_vars => AnsweredInv'
<1> SUFFICES ASSUME TypeInv, RowInv, AnsweredInv, [Next]_vars PROVE AnsweredInv'
  OBVIOUS
<1>t. /\ stage \in [Requests -> Stages] /\ answer \in [Requests -> Requests \cup {NoJob}]
      /\ job \in [Requests -> JobStates] /\ faults \in Nat
  BY DEF TypeInv, TablesTyped, AnsweredInv
<1>j. \A q \in Requests : job[q] # "none" => job'[q] # "none"
  BY <1>t, RowsStay
<1>f. ASSUME NEW n \in Nat, Spend(n) PROVE faults' \in Nat /\ faults' = faults + n
  BY <1>t, <1>f DEF Spend
<1>k. ASSUME NEW q \in Requests, faults' \in Nat, faults' >= faults,
             stage'[q] = stage[q], preview'[q] = preview[q], answer'[q] = answer[q]
      PROVE  Told(q)'
  <2>1. Told(q) /\ (faults' = 0 => faults = 0)
    BY <1>t, <1>k DEF AnsweredInv
  <2>2. stage[q] \in Answered => answer[q] \in Requests /\ job'[answer[q]] # "none"
    BY <1>j, <2>1 DEF Told
  <2>3. QED
    BY <1>k, <2>1, <2>2 DEF Told
<1>s. ASSUME NEW r \in Requests, faults' \in Nat, faults' >= faults, Told(r)',
             preview' \in [Requests -> {"none", "allowed", "denied"}],
             \A q \in Requests \ {r} :
               stage'[q] = stage[q] /\ preview'[q] = preview[q] /\ answer'[q] = answer[q]
      PROVE  AnsweredInv'
  BY <1>k, <1>s DEF AnsweredInv
<1>u. ASSUME UNCHANGED submitVars, faults' \in Nat, faults' >= faults PROVE AnsweredInv'
  BY <1>k, <1>u DEF AnsweredInv, submitVars
<1>p. preview \in [Requests -> {"none", "allowed", "denied"}]
  BY DEF AnsweredInv
<1>n. faults >= faults
  BY <1>t
<1> USE DEF Goto, jobVars, submitVars
<1>1. ASSUME NEW r \in Requests, Preview(r) PROVE AnsweredInv'
  <2>1. /\ preview' = [preview EXCEPT ![r] = IF PreviewJob(r) THEN "allowed" ELSE "denied"]
        /\ UNCHANGED <<stage, answer, job, faults>> /\ stage[r] = "new"
    BY <1>1 DEF Preview
  <2>2. preview'[r] = IF PreviewJob(r) THEN "allowed" ELSE "denied"
    BY <1>p, <2>1
  <2>3. Told(r)'
    BY <2>1, <2>2 DEF Told, Permitted, Answered
  <2>4. QED
    BY <1>t, <1>p, <1>n, <1>s, <2>1, <2>3
<1>2. ASSUME NEW r \in Requests, TurnAway(r) PROVE AnsweredInv'
  <2>1. /\ stage' = [stage EXCEPT ![r] = IF Request[r].via = "cli" THEN "unexpanded" ELSE "refused"]
        /\ UNCHANGED <<preview, answer, job, faults>>
        /\ Request[r].via = "api" \/ ~MayAsk(r)
    BY <1>2 DEF TurnAway
  <2>2. Request[r].via = "cli" => Asked[r].targets = <<>>
    BY <2>1 DEF MayAsk
  <2>3. /\ Told(r)
        /\ stage'[r] = IF Request[r].via = "cli" THEN "unexpanded" ELSE "refused"
    BY <1>t, <2>1 DEF AnsweredInv
  <2>4. Told(r)'
    BY <2>1, <2>2, <2>3 DEF Told, Permitted, Answered
  <2>5. QED
    BY <1>t, <1>p, <1>n, <1>s, <2>1, <2>4
<1>3. ASSUME NEW r \in Requests, Preflight(r) PROVE AnsweredInv'
  <2>1. PICK v \in AtSubmission[r] :
          Spend(v.lost) /\ stage' = [stage EXCEPT ![r] = IF v.allowed THEN "admitted" ELSE "denied"]
    BY <1>3 DEF Preflight
  <2>2. UNCHANGED <<preview, answer, job>> /\ MayAsk(r) /\ stage[r] = "new"
    BY <1>3 DEF Preflight
  <2>3. /\ v.lost = 0 \/ v.lost = 1
        /\ v.allowed => PreviewJob(r)
        /\ ~v.allowed /\ v.lost = 0 => ~PreviewJob(r)
    <3>1. v \in Validations(Request[r].process, Asked[r])
      BY <2>1 DEF AtSubmission
    <3>2. QED
      BY <3>1, Validated DEF PreviewJob, PolicyOf
  <2>4. faults' \in Nat /\ faults' = faults + v.lost /\ faults' >= faults
    BY <1>f, <1>t, <2>1, <2>3
  <2>5. faults' = 0 => v.lost = 0
    BY <1>t, <2>3, <2>4
  <2>6. stage'[r] = IF v.allowed THEN "admitted" ELSE "denied"
    BY <1>t, <2>1
  <2>7. Told(r) /\ (Request[r].via = "cli" => Asked[r].targets # <<>>)
    BY <2>2 DEF MayAsk, AnsweredInv
  <2>8. Told(r)'
    BY <2>2, <2>3, <2>5, <2>6, <2>7 DEF Told, Permitted, Answered
  <2>9. QED
    BY <1>t, <1>p, <1>s, <2>1, <2>2, <2>4, <2>8
<1>4. ASSUME NEW r \in Requests, Enqueue(r) PROVE AnsweredInv'
  <2>1. faults' \in Nat /\ faults' >= faults
    BY <1>4, <1>f, <1>t DEF Enqueue, NoFault, Fault
  <2>2. stage[r] = "admitted" /\ UNCHANGED preview /\ Told(r)
    BY <1>4 DEF Enqueue, AnsweredInv
  <2>3. \/ stage' = [stage EXCEPT ![r] = "refused"] /\ answer' = answer
        \/ stage' = [stage EXCEPT ![r] = "failing"] /\ answer' = answer
        \/ /\ stage' = [stage EXCEPT ![r] = "enqueued"]
           /\ answer' = [answer EXCEPT ![r] = r] /\ job' = [job EXCEPT ![r] = "queued"]
        \/ /\ stage' = [stage EXCEPT ![r] = "enqueued"]
           /\ \E j \in Earlier(r) : answer' = [answer EXCEPT ![r] = j]
    BY <1>4 DEF Enqueue
  <2>4. \A q \in Requests \ {r} : stage'[q] = stage[q] /\ answer'[q] = answer[q]
    BY <1>t, <2>3
  <2>5. \/ stage'[r] \in {"refused", "failing"}
        \/ /\ stage'[r] = "enqueued" /\ answer'[r] \in Requests /\ job'[answer'[r]] # "none"
           /\ answer'[r] # r => Request[r].via = "mcp" /\ Request[r].key = Request[answer'[r]].key
    <3>1. CASE \/ stage' = [stage EXCEPT ![r] = "refused"]
               \/ stage' = [stage EXCEPT ![r] = "failing"]
      BY <1>t, <3>1
    <3>2. CASE /\ stage' = [stage EXCEPT ![r] = "enqueued"]
               /\ answer' = [answer EXCEPT ![r] = r] /\ job' = [job EXCEPT ![r] = "queued"]
      BY <1>t, <3>2
    <3>3. CASE /\ stage' = [stage EXCEPT ![r] = "enqueued"]
               /\ \E j \in Earlier(r) : answer' = [answer EXCEPT ![r] = j]
      <4>1. PICK j \in Earlier(r) : answer' = [answer EXCEPT ![r] = j]
        BY <3>3
      <4>2. /\ j \in Requests /\ job[j] # "none"
            /\ Request[r].via = "mcp" /\ Request[j].key = Request[r].key
        BY AuthorizationAssumption DEF Earlier
      <4>3. stage'[r] = "enqueued" /\ answer'[r] = j
        BY <1>t, <3>3, <4>1
      <4>4. QED
        BY <1>j, <4>2, <4>3
    <3>4. QED
      BY <2>3, <3>1, <3>2, <3>3
  <2>6. Told(r)'
    BY <2>2, <2>5 DEF Told, Permitted, Answered
  <2>7. QED
    BY <1>p, <1>s, <2>1, <2>2, <2>4, <2>6
<1>5. ASSUME NEW r \in Requests, AuditCreate(r) \/ Withdraw(r) \/ Wait(r) \/ PrintResult(r)
      PROVE  AnsweredInv'
  <2>1. faults' \in Nat /\ faults' >= faults
    <3>1. Spend(0) \/ Spend(1) \/ faults' = faults
      BY <1>5 DEF AuditCreate, Withdraw, Wait, PrintResult, NoFault, Fault
    <3>2. QED
      BY <1>f, <1>t, <3>1
  <2>2. /\ UNCHANGED <<preview, answer>> /\ Told(r)
        /\ \/ stage[r] = "enqueued" /\ stage' = [stage EXCEPT ![r] = "accepted"]
           \/ stage[r] = "enqueued" /\ stage' = [stage EXCEPT ![r] = "waited"]
           \/ stage[r] = "enqueued" /\ stage' = [stage EXCEPT ![r] = "failing"]
           \/ stage[r] = "waited" /\ stage' = [stage EXCEPT ![r] = "accepted"]
           \/ stage[r] = "failing" /\ stage' = [stage EXCEPT ![r] = "failed"]
           \/ stage[r] = "enqueued" /\ stage' = [stage EXCEPT ![r] = "unaudited"]
           \/ stage[r] = "unaudited" /\ stage' = [stage EXCEPT ![r] = "withdrawn"]
           \/ stage[r] = "unaudited" /\ stage' = [stage EXCEPT ![r] = "abandoned"]
    BY <1>5 DEF AuditCreate, Withdraw, Wait, PrintResult, AnsweredInv
  <2>3. /\ \A q \in Requests \ {r} : stage'[q] = stage[q]
        /\ \/ stage[r] = "enqueued" /\ stage'[r] \in {"accepted", "unaudited", "waited", "failing"}
           \/ stage[r] = "waited" /\ stage'[r] = "accepted"
           \/ stage[r] = "failing" /\ stage'[r] = "failed"
           \/ stage[r] = "unaudited" /\ stage'[r] \in {"withdrawn", "abandoned"}
    BY <1>t, <2>2
  <2>4. stage[r] \in Answered => answer[r] \in Requests /\ job'[answer[r]] # "none"
    BY <1>j, <2>2 DEF Told
  <2>5. Told(r)'
    BY <2>2, <2>3, <2>4 DEF Told, Permitted, Answered
  <2>6. QED
    BY <1>p, <1>s, <2>1, <2>2, <2>3, <2>5
<1>6. ASSUME NEW r \in Requests, Cancel(r) PROVE AnsweredInv'
  <2>1. UNCHANGED <<submitVars, faults>>
    BY <1>6 DEF Cancel
  <2>2. QED
    BY <1>t, <1>n, <1>u, <2>1
<1>7. ASSUME NEW p \in Processes, NEW j, NEW e,
             Claim(p, j) \/ Start(p) \/ Decide(p, e) \/ Dial(p, e) \/ CtxEnds(p) \/ AttemptEnds(p)
      PROVE  AnsweredInv'
  <2>1. UNCHANGED submitVars
    BY <1>7 DEF Claim, Start, Decide, Dial, CtxEnds, AttemptEnds
  <2>2. faults' = faults \/ Spend(0) \/ Spend(1)
    <3>1. CASE Start(p)
      <4>1. PICK v \in AtStart[p][worker[p].job] : Spend(v.lost)
        BY <3>1 DEF Start
      <4>2. worker[p].job \in Requests
        BY <3>1 DEF Start, RowInv, TypeInv, WorkersTyped, WorkerState
      <4>3. v \in Validations(p, Payload[worker[p].job])
        BY <4>1, <4>2 DEF AtStart
      <4>4. v.lost = 0 \/ v.lost = 1
        BY <4>3, Validated
      <4>5. QED
        BY <4>1, <4>4
    <3>2. CASE Decide(p, e)
      <4>1. PICK v \in Finalized(p, e) : Spend(v.lost)
        BY <3>2 DEF Decide
      <4> DEFINE a == Row(p, e).allowed
                 rows == {Row(p, e)}
      <4>2. v = [rows |-> rows, allowed |-> a, lost |-> 0] \/ v = [rows |-> {}, allowed |-> FALSE, lost |-> 1]
        BY <4>1 DEF Finalized
      <4> HIDE DEF a, rows
      <4>3. v.lost = 0 \/ v.lost = 1
        BY <4>2
      <4>4. QED
        BY <4>1, <4>3
    <3>3. CASE Claim(p, j) \/ Dial(p, e) \/ CtxEnds(p) \/ AttemptEnds(p)
      BY <3>3 DEF Claim, Dial, CtxEnds, AttemptEnds, NoFault, Fault
    <3>4. QED
      BY <1>7, <3>1, <3>2, <3>3
  <2>3. faults' \in Nat /\ faults' >= faults
    BY <1>f, <1>t, <2>2
  <2>4. QED
    BY <1>u, <2>1, <2>3
<1>8. CASE UNCHANGED vars
  <2>1. UNCHANGED <<submitVars, faults>>
    BY <1>8 DEF vars
  <2>2. QED
    BY <1>t, <1>n, <1>u, <2>1
<1>9. QED
  BY <1>1, <1>2, <1>3, <1>4, <1>5, <1>6, <1>7, <1>8 DEF Next, Submit, Execute

-----------------------------------------------------------------------------
(* The theorems. *)

ScopeInv == TableInv /\ AdmittedInv /\ AnsweredInv

(* In every reachable state rows have a time, what is run or was           *)
(* dialled is admitted by the policy of the process, and submissions are   *)
(* told what the engine says.                                              *)
THEOREM ScopeInvariance == Spec => [](IInv /\ ScopeInv)
<1>1. Init => ScopeInv
  <2> SUFFICES ASSUME Init PROVE ScopeInv
    OBVIOUS
  <2>1. TableInv
    BY DEF Init, TableInv, Idle
  <2>2. AdmittedInv
    BY DEF Init, AdmittedInv, Pending, Idle
  <2>3. AnsweredInv
    BY DEF Init, AnsweredInv, Told, Permitted, Answered
  <2>4. QED
    BY <2>1, <2>2, <2>3 DEF ScopeInv
<1>2. IInv /\ ScopeInv /\ [Next]_vars => ScopeInv'
  BY NextTable, NextAdmitted, NextAnswered DEF IInv, ScopeInv
<1>3. QED
  BY Invariance, <1>1, <1>2, PTL DEF Spec

(* Every variable keeps its type, a row of the job table has a time,       *)
(* an accepted submission has a row, and only normalized addresses are     *)
(* decided on and dialled (CreateJobBounded, NormalizeAddr).               *)
THEOREM SubmissionsTyped == Spec => []TypeOK
<1>1. IInv /\ ScopeInv => TypeOK
  <2> SUFFICES ASSUME IInv, ScopeInv PROVE TypeOK
    OBVIOUS
  <2>1. /\ stage \in [Requests -> Stages] /\ answer \in [Requests -> Requests \cup {NoJob}]
    BY DEF IInv, TypeInv, TablesTyped
  <2>2. \A r \in Requests : stage[r] \in {"enqueued", "waited", "accepted"} => job[answer[r]] # "none"
    BY DEF ScopeInv, AnsweredInv, Told, Answered
  <2>3. /\ \A r \in Requests : created[r] <= second /\ (created[r] > 0 <=> job[r] # "none")
        /\ \A p \in Processes : worker[p].job # NoJob => attempts[worker[p].job] > 0
    BY DEF ScopeInv, TableInv, IInv, RowInv, Filed
  <2>4. \A e \in AllEndpoints : e.host \in Normal
    BY Submitted DEF AllEndpoints
  <2>5. \A d \in decisions \cup dials : d.at \in AllEndpoints
    BY DEF ScopeInv, AdmittedInv, AllEndpoints
  <2>6. QED
    BY <2>1, <2>2, <2>3, <2>4, <2>5 DEF TypeOK, Stages
<1>2. QED
  BY ScopeInvariance, <1>1, PTL

(* Whatever a process dials its own policy allows, whichever process       *)
(* admitted the job and in whatever form addresses were written: no denied *)
(* CIDR names the address, an allowing decision was recorded before, and   *)
(* the budgets hold for each job (AuthorizedDialer.Dial, Decide, finalize, *)
(* ValidateJob in the handler).                                            *)
THEOREM DialsStayAuthorized == Spec => []DialsAuthorized
<1>1. IInv /\ ScopeInv => DialsAuthorized
  <2> SUFFICES ASSUME IInv, ScopeInv, NEW d \in dials
               PROVE  /\ Policy[d.by].active
                      /\ Mapped(d.at.host) \in InScope[d.by]
                      /\ d.at.port \notin Policy[d.by].excluded
                      /\ [by |-> d.by, at |-> d.at, allowed |-> TRUE] \in decisions
                      /\ Cardinality({e.host : e \in Dialled(d.by, d.job)}) <= Policy[d.by].maxHosts
                      /\ Cardinality({e.port : e \in Dialled(d.by, d.job)}) <= Policy[d.by].maxPorts
    BY DEF DialsAuthorized
  <2>1. /\ d.by \in Processes /\ d.job \in Requests /\ d.at \in Targets[d.job]
        /\ Admits(Policy[d.by], Payload[d.job]) /\ WellFormed(Policy[d.by])
    BY DEF ScopeInv, AdmittedInv
  <2>2. /\ Permits(Policy[d.by], d.at.host, d.at.port)
        /\ [by |-> d.by, at |-> d.at, allowed |-> TRUE] \in decisions
    BY DEF IInv, DialInv, Decided
  <2>3. d.at.host \in Normal /\ IsJob(Payload[d.job]) /\ Targets[d.job] = Endpoints(Payload[d.job])
    BY <2>1, Submitted
  <2>4. Policy[d.by].active /\ Mapped(d.at.host) \in InScope[d.by] /\ d.at.port \notin Policy[d.by].excluded
    BY <2>1, <2>2, <2>3, PermittedInScope
  <2>5. Dialled(d.by, d.job) \in SUBSET Endpoints(Payload[d.job])
    BY <2>3 DEF Dialled, ScopeInv, AdmittedInv
  <2>6. /\ Len(Payload[d.job].targets) \in 1..Policy[d.by].maxHosts
        /\ Len(Payload[d.job].ports) \in 1..Policy[d.by].maxPorts
    BY <2>1 DEF Admits, WithinBudget
  <2>7. Policy[d.by].maxHosts \in Int /\ Policy[d.by].maxPorts \in Int
    BY <2>1, AuthorizationAssumption
  <2>8. /\ Cardinality({e.host : e \in Dialled(d.by, d.job)}) <= Policy[d.by].maxHosts
        /\ Cardinality({e.port : e \in Dialled(d.by, d.job)}) <= Policy[d.by].maxPorts
    BY <2>3, <2>5, <2>6, <2>7, Budgets
  <2>9. QED
    BY <2>2, <2>4, <2>8
<1>2. QED
  BY ScopeInvariance, <1>1, PTL

(* An accepted submission is answered with a job for the endpoints it      *)
(* asked for, or with the earlier job of its idempotency key; and a        *)
(* preview answers what the submission is then told, while every decision  *)
(* can be recorded (SubmitScan, api.scan, PreviewJob, PreviewScan).        *)
THEOREM AnswersStayHonest == Spec => []AnswersHonest
<1>1. IInv /\ ScopeInv => AnswersHonest
  <2> SUFFICES ASSUME IInv, ScopeInv, NEW r \in Requests
               PROVE  /\ stage[r] \in {"enqueued", "waited", "accepted"} =>
                           \/ answer[r] = r /\ Targets[r] = Wanted[r]
                           \/ /\ answer[r] # r /\ Request[r].via = "mcp"
                              /\ Request[r].key = Request[answer[r]].key
                      /\ (stage[r] = "denied" /\ faults = 0 => preview[r] # "allowed")
                      /\ (stage[r] \in Permitted => preview[r] # "denied")
    BY DEF AnswersHonest, Permitted
  <2>1. Told(r)
    BY DEF ScopeInv, AnsweredInv
  <2>2. Targets[r] = Wanted[r]
    BY Submitted
  <2>3. QED
    BY <2>1, <2>2 DEF Told, Answered
<1>2. QED
  BY ScopeInvariance, <1>1, PTL

(* `scan' on a CIDR asks for all of its hosts, without network and         *)
(* broadcast address where an IPv4 prefix has any; and no prefix is        *)
(* refused that fits the host budget, except a default route               *)
(* (ExpandPrefix).                                                         *)
THEOREM ExpansionsExact == Spec => []ExpansionExact
<1>1. IInv /\ ScopeInv => ExpansionExact
  <2> SUFFICES ASSUME ScopeInv, NEW r \in Requests, Request[r].via = "cli"
               PROVE  /\ (stage[r] = "unexpanded" => r \notin Expandable)
                      /\ (stage[r] \notin {"absent", "new", "unexpanded"} => r \in WholePrefix)
    BY DEF ExpansionExact
  <2>1. Told(r)
    BY DEF ScopeInv, AnsweredInv
  <2>2. IsCIDR(Request[r].prefix) /\ PolicyOf(r).maxHosts \in Int
    BY AuthorizationAssumption DEF PolicyOf
  <2>3. Asked[r].targets = ExpandPrefix(Request[r].prefix, PolicyOf(r).maxHosts)
    BY DEF Asked
  <2>4. /\ Asked[r].targets # <<>> =>
             {Mapped(a) : a \in ToSet(Asked[r].targets)} = HostsOf(Request[r].prefix)
        /\ /\ Asked[r].targets = <<>> /\ Parses(Request[r].prefix)
           /\ Cardinality(HostsOf(Request[r].prefix)) <= PolicyOf(r).maxHosts
           => Cardinality(Named(Request[r].prefix)) = 2 ^ V4Bits
    BY <2>2, <2>3, Expansion DEF Half
  <2>5. QED
    BY <2>1, <2>4 DEF Told, Expandable, WholePrefix
<1>2. QED
  BY ScopeInvariance, <1>1, PTL
=============================================================================
