------------------------------ MODULE MCDerive ------------------------------
(* An instance of Derive: two assets, and five workloads.                   *)
EXTENDS Derive

CONSTANTS b1, b2, b3, none

Connect(state) == [source |-> "tcp_connect", port |-> 443, facts |-> {state}]
Handshake(certificate) == [source |-> "tls", port |-> 443, facts |-> {certificate}]
Page(title) == [source |-> "http", port |-> 443, facts |-> title]

(* Two scans of one port whose certificate and page change between them,   *)
(* and a record of the port when it was closed.                            *)
MCContent == (b1 :> <<Connect("open"), Handshake("D"), Page({"A", "B"})>>)
             @@ (b2 :> <<Connect("open"), Handshake("E"), Page({"C"})>>)
             @@ (b3 :> <<Connect("closed_or_error")>>)

(* Two scans of an asset that another may have found; a scan beside an     *)
(* import, with an operator who judges, and with a failure; an import of   *)
(* two records with a failure; and an import beside a scan that names      *)
(* another vendor.                                                         *)
Workload(arrive, import, first, maxFaults, maxWords) ==
  [arrive |-> arrive, import |-> import,
   after |-> [b \in {b1, b2, b3} |-> first \ {b}],
   maxFaults |-> maxFaults, maxWords |-> maxWords]
MCWorkloads == {Workload({b1, b2, b3}, <<>>, {b3}, 0, 0),
                Workload({b1, b2}, <<b2>>, {}, 0, 1),
                Workload({b1, b2}, <<b2>>, {}, 1, 0),
                Workload({b1, b3}, <<b3, b1>>, {}, 1, 0),
                Workload({b1, b3}, <<b1>>, {}, 0, 0)}
MCBatches == {b1, b2, b3}

Says(source, fact, weight) == [source |-> source, fact |-> fact, weight |-> weight]
Rule(vendor, family, model, required, positive, negative) ==
  [active |-> TRUE, vendor |-> vendor, family |-> family, model |-> model,
   required |-> required, positive |-> positive, negative |-> negative]
(* One rule that a page can exceed the cap with; one that the certificate  *)
(* of the first batch rules out, unless both batches are known, when the   *)
(* two are ambiguous; and one of another vendor.                           *)
MCRules == <<
  Rule("V", "F", TRUE, <<Says("http", "A", 0)>>,
       <<Says("http", "A", 50), Says(none, "B", 40)>>, <<>>),
  Rule("V", "G", FALSE, <<>>,
       <<Says("tcp_connect", "open", 30), Says("http", "C", 80)>>, <<Says("tls", "D", -35)>>),
  Rule("W", "H", FALSE, <<>>, <<Says("tcp_connect", "closed_or_error", 30)>>, <<>>)>>
MCAdvisories == <<[vendor |-> "V", family |-> "F", affected |-> {}]>>

AssetSymmetry == Permutations(Assets)
=============================================================================
