--------------------------- MODULE MCAuthorization ---------------------------
(* An instance of Authorization: IPv4 of three bits and IPv6 of four, three *)
(* processes with policies of their own, one of them malformed.             *)
EXTENDS Authorization, TLC

CONSTANTS serve, agent, broken, api, mcp1, mcp2, cli, cli2, cli3, cli4, cli5, api2, mcp3

CIDR(family, value, bits) == [family |-> family, value |-> value, bits |-> bits]
V6(n) == [family |-> "6", value |-> n]
AsMapped(n) == [family |-> "mapped", value |-> n + 8]

Base == [active |-> TRUE, public |-> FALSE, mcpWrite |-> TRUE,
         allowed |-> {CIDR("4", 0, 1), CIDR("4", 4, 1), CIDR("6", 2, 3)}, denied |-> {},
         ports |-> {}, excluded |-> {22}, maxHosts |-> 2, maxPorts |-> 2]

(* serve denies 4..5 by a prefix in mapped form.                           *)
MCPolicy ==
  (serve :> [Base EXCEPT !.denied = {CIDR("mapped", 12, 3)}])
  @@ (agent :> [Base EXCEPT !.maxHosts = 1, !.ports = {80, 443}])
  @@ (broken :> [Base EXCEPT !.denied = {CIDR("mapped", 8, 0)}])

From(via, process) ==
  [via |-> via, process |-> process, key |-> "", targets |-> <<>>, ports |-> <<80>>,
   prefix |-> CIDR("4", 4, 1)]
(* One host in two forms and two ports, and such a one beyond the budget;  *)
(* two submissions of one key for different hosts, and one without a key;  *)
(* prefixes of two hosts, of one, of too many, and the two narrowest of    *)
(* IPv4 at the end of its space.                                           *)
MCRequest ==
  (api :> [From("api", serve) EXCEPT !.targets = <<V4(1), AsMapped(1)>>, !.ports = <<80, 443>>])
  @@ (mcp1 :> [From("mcp", agent) EXCEPT !.key = "k", !.targets = <<AsMapped(5)>>])
  @@ (mcp2 :> [From("mcp", serve) EXCEPT !.key = "k", !.targets = <<V4(2), V6(3)>>])
  @@ (api2 :> [From("api", agent) EXCEPT !.targets = <<V4(1), AsMapped(1)>>])
  @@ (mcp3 :> [From("mcp", serve) EXCEPT !.targets = <<V4(1)>>])
  @@ (cli :> [From("cli", serve) EXCEPT !.prefix = CIDR("4", 0, 1)])
  @@ (cli2 :> [From("cli", agent) EXCEPT !.prefix = CIDR("6", 3, 4)])
  @@ (cli3 :> [From("cli", serve) EXCEPT !.prefix = CIDR("4", 0, 0)])
  @@ (cli4 :> [From("cli", agent) EXCEPT !.prefix = CIDR("4", 7, 3)])
  @@ (cli5 :> [From("cli", serve) EXCEPT !.prefix = CIDR("4", 6, 2)])
Workload(arrive, maxAttempts, maxFaults) ==
  [arrive |-> arrive, maxAttempts |-> maxAttempts, maxFaults |-> maxFaults]
MCWorkloads ==
  {Workload({mcp1, mcp2}, 1, 1), Workload({api}, 2, 1), Workload({cli, api2}, 1, 0), Workload({cli}, 2, 1),
   Workload({mcp1, cli2}, 1, 0), Workload({api2, mcp3, cli3}, 1, 0),
   Workload({cli2, api2}, 1, 1), Workload({cli4}, 1, 0), Workload({cli5}, 1, 0)}

MCPrivate == {V4(n) : n \in 1..6} \cup {V6(n) : n \in 1..5}
MCMulticast == {V6(7)}
==============================================================================
