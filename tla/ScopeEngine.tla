----------------------------- MODULE ScopeEngine -----------------------------
(***************************************************************************)
(* The decisions of internal/scope/engine.go as operators. The address     *)
(* space is scaled down: IPv4 has V4Bits bits, IPv6 one more, and the      *)
(* upper half of IPv6 holds the mapped IPv4 addresses (::ffff:a.b.c.d). A  *)
(* family "mapped" is an address or prefix spelled that way. Reasons are   *)
(* left out, so the order in which decide asks does not show.              *)
(***************************************************************************)
EXTENDS Integers, Sequences, SequencesExt

CONSTANTS V4Bits,
          Private,    \* addresses IsPrivate, IsLoopback or IsLinkLocalUnicast
          Multicast

ASSUME ScopeAssumption == V4Bits \in Nat

V4(n) == [family |-> "4", value |-> n]
BitLen(a) == IF a.family = "4" THEN V4Bits ELSE V4Bits + 1

(* What netip.ParseAddr and ParsePrefix accept.                            *)
Normal == [family : {"4", "6"}, value : 0..(2 ^ V4Bits - 1)]
Address == Normal \cup [family : {"mapped"}, value : (2 ^ V4Bits)..(2 ^ (V4Bits + 1) - 1)]
IsCIDR(p) ==
  /\ p \in [family : {"4", "6", "mapped"}, value : Nat, bits : Nat]
  /\ [family |-> p.family, value |-> p.value] \in Address /\ p.bits <= BitLen(p)
Width(p) == 2 ^ (BitLen(p) - p.bits)

(* NormalizeAddr, and parsePrefix where `Parses' says it has no error;     *)
(* masking is left to Covers.                                            *)
NormalizeAddr(a) == IF a.family = "mapped" THEN V4(a.value - 2 ^ V4Bits) ELSE a
Parses(p) == p.family = "mapped" => p.bits >= 1
parsePrefix(p) ==
  IF p.family = "mapped"
  THEN [family |-> "4", value |-> p.value - 2 ^ V4Bits, bits |-> p.bits - 1]
  ELSE p
Covers(p, a) ==
  /\ a.family = p.family
  /\ a.value \div Width(p) = p.value \div Width(p)

AllPorts == 1..65535

(* A policy a process starts with: Config.Validate, then New.              *)
Validate(policy) ==
  /\ policy.maxHosts >= 1 /\ policy.maxPorts >= 1
  /\ policy.active => policy.allowed # {}
New(policy) ==
  /\ \A p \in policy.allowed \cup policy.denied : Parses(p)
  /\ policy.ports \cup policy.excluded \subseteq AllPorts
WellFormed(policy) == Validate(policy) /\ New(policy)

Forbidden(a) ==
  a.value = 0 \/ a \in Multicast \/ a = V4(2 ^ V4Bits - 1)

(* decide, on a normalized address                                         *)
Permits(policy, a, port) ==
  /\ policy.active
  /\ ~Forbidden(a)
  /\ policy.public \/ a \in Private
  /\ \E p \in policy.allowed : Covers(parsePrefix(p), a)
  /\ \A p \in policy.denied : ~Covers(parsePrefix(p), a)
  /\ port \in AllPorts /\ port \notin policy.excluded
  /\ policy.ports = {} \/ port \in policy.ports

(* ValidateJob: budgets first, on what was asked; then every address with  *)
(* every port, up to the first denial. What it returns has no duplicates   *)
(* and is sorted; the order does not show.                                 *)
Addresses(job) == {NormalizeAddr(a) : a \in ToSet(job.targets)}
Normalized(job) == [targets |-> SetToSeq(Addresses(job)), ports |-> SetToSeq(ToSet(job.ports))]
WithinBudget(policy, job) ==
  /\ Len(job.targets) \in 1..policy.maxHosts
  /\ Len(job.ports) \in 1..policy.maxPorts
Endpoints(job) == {[host |-> a, port |-> n] : a \in Addresses(job), n \in ToSet(job.ports)}
Admits(policy, job) ==
  WithinBudget(policy, job) /\ \A e \in Endpoints(job) : Permits(policy, e.host, e.port)

(* A slip: network and broadcast address are hosts.                        *)
ExpandWhole(raw, max) ==
  LET p == parsePrefix(raw)
      first == (p.value \div Width(p)) * Width(p)
  IN  IF Width(p) > max THEN <<>> ELSE [i \in 1..Width(p) |-> [family |-> p.family, value |-> first + i - 1]]

(* ExpandPrefix; the empty sequence stands for its errors.                 *)
ExpandPrefix(raw, max) ==
  LET p == parsePrefix(raw)
      first == (p.value \div Width(p)) * Width(p)
      skipped == IF p.family = "4" /\ Width(p) >= 4 THEN 1 ELSE 0
      count == Width(p) - 2 * skipped
      refused == \/ ~Parses(raw) \/ max < 1
                 \/ first = 0 /\ p.bits = 0
                 \/ Width(p) > max + 2
                 \/ count > max
  IN  IF refused THEN <<>>
      ELSE [i \in 1..count |-> [family |-> p.family, value |-> first + skipped + i - 1]]
=============================================================================
