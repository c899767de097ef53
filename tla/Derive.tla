------------------------------- MODULE Derive -------------------------------
(***************************************************************************)
(* What is derived from stored observations: change events, the            *)
(* classification of an asset and its findings, by concurrent batches and  *)
(* beside operators who merge assets and judge what they see.              *)
(*                                                                         *)
(* A batch is one endpoint's observations: of a scan job with one probe    *)
(* (the handler of cmd/cortasentry/main.go around Scanner.ingestBatch), or *)
(* one record of an import (PipelineSink). Which asset it resolves to is   *)
(* the subject of Identity and any choice here. Every store call is a step *)
(* of its own. Tables nothing reads back (candidates, occurrence counts)   *)
(* are left out.                                                           *)
(***************************************************************************)
EXTENDS Fingerprint, Advisories

CONSTANTS Batches, Assets, NoAsset,
          Content,     \* what a batch observed, in the order of collection
          Workloads,   \* which batches arrive, form an import, wait for others;
                       \* bounds: failing store calls, judgements of operators
          AdvisoryBundle, \* the loaded advisories, in the order of their files
          Words        \* the dispositions operators use

(* A batch is of one endpoint, which is asked for one certificate at most, *)
(* and never empty (ingestBatch returns at once); an advisory without a    *)
(* vendor is not loaded.                                                   *)
ASSUME DeriveAssumption ==
  /\ \A b \in Batches : /\ Content[b] \in Seq(ToSet(Content[b])) \ {<<>>}
                        /\ \A i, j \in DOMAIN Content[b] :
                             /\ Content[b][i].port = Content[b][j].port
                             /\ Content[b][i].source = "tls" /\ Content[b][j].source = "tls" => i = j
  /\ AdvisoryBundle \in Seq(ToSet(AdvisoryBundle))
  /\ \A i \in DOMAIN AdvisoryBundle : AdvisoryBundle[i].vendor # Unknown
  /\ NoAsset \notin Assets
  /\ \A w \in Workloads : w.import \in Seq(Batches) /\ w.maxFaults \in Nat

VARIABLES pc,
          asset, created, \* Resolution of the batch
          recent,         \* what the batch's last ListObservations returned
          todo,           \* changes decided on and not yet added
          top, previous,  \* ingestBatch's top candidate and the asset before it
          pending,        \* findings evaluated and not yet upserted
          arrived,        \* batches in the order of observed_at
          links, class, mergedInto, changes, findings, load, faults, words

batchVars == <<pc, asset, created, recent, todo, top, previous, pending>>
tables == <<links, class, mergedInto, changes, findings>>
vars == <<batchVars, tables, arrived, load, faults, words>>

(* `identified' stands for the device class, which a rule names (all the   *)
(* rules that come with the program do) and a new asset has not.           *)
Blank == [identified |-> FALSE, vendor |-> Unknown, family |-> Unknown,
          firmware |-> Unknown, ambiguous |-> FALSE]

(* Tables: an empty one, and one with a row added unless its key is there. *)
Nothing == [a \in {} |-> a]
Added(table, key, row) ==
  [k \in DOMAIN table \cup {key} |-> IF k \in DOMAIN table THEN table[k] ELSE row]

(* An observation is <<batch, position>>.                                  *)
Obs(b) == {b} \X DOMAIN Content[b]
Seen(o) == Content[o[1]][o[2]]
Imported(b) == b \in ToSet(load.import)

Init ==
  /\ pc = [b \in Batches |-> "idle"]
  /\ asset = [b \in Batches |-> NoAsset]
  /\ created = [b \in Batches |-> FALSE]
  /\ recent = [b \in Batches |-> {}]
  /\ todo = [b \in Batches |-> <<>>]
  /\ top = [b \in Batches |-> Blank]
  /\ previous = [b \in Batches |-> Blank]
  /\ pending = [b \in Batches |-> {}]
  /\ arrived = <<>>
  /\ links = {}
  /\ class = Nothing
  /\ mergedInto = Nothing
  /\ changes = Nothing
  /\ findings = Nothing
  /\ load \in Workloads
  /\ faults = 0
  /\ words = 0

-----------------------------------------------------------------------------
At(b, stage) == pc[b] = stage /\ todo[b] = <<>>
Goto(b, stage) == pc' = [pc EXCEPT ![b] = stage]
Fault == faults < load.maxFaults /\ faults' = faults + 1
NoFault == UNCHANGED faults

(* ListObservations of an asset, newest first.                             *)
Evidence(observations) ==
  SelectSeq(FlattenSeq([i \in DOMAIN arrived |->
              LET b == arrived[Len(arrived) + 1 - i]
              IN  Reverse([j \in DOMAIN Content[b] |-> <<b, j>>])]),
            LAMBDA o : o \in observations)
(* A slip: the observations of every asset.                                *)
ObservedAnywhere(a) == {l[2] : l \in links}
Observed(a) == {l[2] : l \in {m \in links : m[1] = a}}
AsEvidence(observations) ==
  LET list == Evidence(observations) IN [i \in DOMAIN list |-> Seen(list[i])]

(* Slips: the return after an error is missing; an import ignores errors.  *)
IngestErrorIgnored(b) == Goto(b, "attach")
IngestErrorDropped(b) == Goto(b, "done")

(* An error in ingestBatch: a scan goes on without the batch, an import    *)
(* stops.                                                                  *)
IngestError(b) == Goto(b, IF Imported(b) THEN "failed" ELSE "done")

(* The observations are made and stored. An import takes its records one   *)
(* after the other and stops at the first error; a workload may have jobs  *)
(* that are submitted when others have ended.                              *)
NextRecord(b) ==
  \A i \in DOMAIN load.import :
    load.import[i] = b /\ i > 1 => pc[load.import[i - 1]] = "done"
Collect(b) ==
  /\ pc[b] = "idle" /\ b \in load.arrive /\ NextRecord(b)
  /\ \A other \in load.after[b] : pc[other] \in {"done", "failed"}
  /\ arrived' = Append(arrived, b)
  /\ \/ Goto(b, "resolve") /\ NoFault
     \/ Fault /\ IngestError(b)
  /\ UNCHANGED <<tables, asset, created, recent, todo, top, previous, pending, load, words>>

(* Resolver.Resolve: a new asset, or an existing one, which may have been  *)
(* merged since it was looked up; the first observation is attached. An    *)
(* error may come before, between and after (identifiers, audit row), and  *)
(* what was written stays.                                                 *)
Resolve(b) ==
  /\ pc[b] = "resolve"
  /\ \/ \E a \in Assets :
          LET attached == links \cup {<<a, <<b, 1>>>>}
          IN  /\ asset' = [asset EXCEPT ![b] = a]
              /\ created' = [created EXCEPT ![b] = a \notin DOMAIN class]
              /\ class' = Added(class, a, Blank)
              /\ mergedInto' = Added(mergedInto, a, NoAsset)
              /\ \/ links' = attached /\ NoFault /\ Goto(b, "attach")
                 \/ links' \in {links, attached} /\ Fault /\ IngestError(b)
     \/ Fault /\ IngestError(b) /\ UNCHANGED <<asset, created, class, mergedInto, links>>
  /\ UNCHANGED <<recent, todo, top, previous, pending, changes, findings, arrived, load, words>>

(* The loop over the rest of the batch: one AttachObservation after the    *)
(* other, to the asset resolved at first.                                  *)
Unattached(b) == {o \in Obs(b) : \A l \in links : l[2] # o}
AttachRest(b) ==
  /\ pc[b] = "attach"
  /\ \/ Unattached(b) = {} /\ Goto(b, "detect") /\ NoFault /\ UNCHANGED links
     \/ \E o \in Unattached(b) :
          /\ \A p \in Unattached(b) : o[2] <= p[2]
          /\ \/ links' = links \cup {<<asset[b], o>>} /\ NoFault /\ UNCHANGED pc
             \/ Fault /\ IngestError(b) /\ UNCHANGED links
  /\ UNCHANGED <<asset, created, recent, todo, top, previous, pending,
                 class, mergedInto, changes, findings, arrived, load, words>>

(* A slip: the observations of the batch itself count as earlier ones.     *)
EarlierOrOwn(b, o) ==
  {p \in Observed(asset[b]) : Seen(p).source = Seen(o).source /\ Seen(p).port = Seen(o).port}

(* What detectEndpointChanges compares an observation of its batch with.   *)
Earlier(b, o) ==
  {p \in Observed(asset[b]) \ Obs(b) : Seen(p).source = Seen(o).source
                                       /\ Seen(p).port = Seen(o).port}
Open(o) == Seen(o).source = "tcp_connect" /\ "open" \in Seen(o).facts
NewService(b) ==
  \E o \in Obs(b) : Open(o) /\ \A p \in Earlier(b, o) : ~Open(p)
(* A handshake without a certificate has no facts.                         *)
ChangedCertificates(b) ==
  {o \in Obs(b) : /\ Seen(o).source = "tls" /\ Earlier(b, o) # {}
                  /\ LET before == Seen(Head(Evidence(Earlier(b, o)))).facts
                     IN  {} \notin {before, Seen(o).facts} /\ before # Seen(o).facts}
Change(b, type, current) == <<type, asset[b], current>>
When(condition, change) == IF condition THEN <<change>> ELSE <<>>

(* First seen, or detectEndpointChanges, which reports nothing when its    *)
(* ListObservations fails.                                                 *)
Detect(b) ==
  /\ At(b, "detect")
  /\ LET last == Seen(<<b, Len(Content[b])>>)
         certificate == Seen(CHOOSE o \in ChangedCertificates(b) : TRUE).facts
     IN  IF created[b]
         THEN /\ todo' = [todo EXCEPT ![b] = <<Change(b, "asset_first_seen", Seen(<<b, 1>>).port)>>]
              /\ NoFault /\ UNCHANGED recent
         ELSE \/ /\ recent' = [recent EXCEPT ![b] = Observed(asset[b])]
                 /\ todo' = [todo EXCEPT ![b] =
                      When(NewService(b), Change(b, "new_service", last.port))
                      \o When(ChangedCertificates(b) # {}, Change(b, "certificate_changed", certificate))]
                 /\ NoFault
              \/ Fault /\ UNCHANGED <<todo, recent>>
  /\ Goto(b, "evaluate")
  /\ UNCHANGED <<tables, asset, created, top, previous, pending, arrived, load, words>>

(* AddChange: the type, the asset it was first told of and the new state   *)
(* are the dedupe key; a known key only counts. Its error is dropped,      *)
(* except by an import that reports a finding.                             *)
Report(b) ==
  /\ todo[b] # <<>>
  /\ LET c == Head(todo[b])
         row == [asset |-> c[2], acknowledged |-> FALSE]
     IN  \/ /\ changes' = Added(changes, c, row)
            /\ todo' = [todo EXCEPT ![b] = Tail(@)] /\ UNCHANGED <<pc, pending>> /\ NoFault
         \/ /\ Fault /\ UNCHANGED changes
            /\ IF Imported(b) /\ c[1] = "new_finding"
               THEN /\ Goto(b, "failed") /\ todo' = [todo EXCEPT ![b] = <<>>]
                    /\ pending' = [pending EXCEPT ![b] = {}]
               ELSE todo' = [todo EXCEPT ![b] = Tail(@)] /\ UNCHANGED <<pc, pending>>
  /\ UNCHANGED <<asset, created, recent, top, previous, links, class, mergedInto,
                 findings, arrived, load, words>>

-----------------------------------------------------------------------------
Classified(ev) ==
  IF Candidates(ev) = {} THEN Blank
  ELSE LET rule == Rules[Top(ev)]
       IN  [identified |-> TRUE, vendor |-> rule.vendor, family |-> rule.family,
            firmware |-> Unknown, ambiguous |-> IsAmbiguous(ev)]

(* The second ListObservations, whose failure is an empty list, and the    *)
(* rules over it.                                                          *)
Evaluate(b) ==
  /\ At(b, "evaluate")
  /\ \E observations \in {Observed(asset[b]), {}} :
       /\ IF observations = Observed(asset[b]) THEN NoFault ELSE Fault
       /\ top' = [top EXCEPT ![b] = Classified(AsEvidence(observations))]
       /\ Goto(b, IF Candidates(AsEvidence(observations)) = {} THEN "titles" ELSE "read")
  /\ UNCHANGED <<tables, asset, created, recent, todo, previous, pending, arrived, load, words>>

(* GetAsset finds no merged asset; ingestBatch takes its error for a blank. *)
Shown(a) == IF mergedInto[a] = NoAsset THEN class[a] ELSE Blank

(* A slip: the asset is read after it was updated.                         *)
ReadAfterUpdate(b) ==
  /\ At(b, "read") /\ Goto(b, "write")
  /\ previous' = [previous EXCEPT ![b] = top[b]]
  /\ UNCHANGED <<tables, asset, created, recent, todo, top, pending, arrived, load, faults, words>>

ReadAsset(b) ==
  /\ At(b, "read") /\ Goto(b, "write")
  /\ \/ previous' = [previous EXCEPT ![b] = Shown(asset[b])] /\ NoFault
     \/ previous' = [previous EXCEPT ![b] = Blank] /\ Fault
  /\ UNCHANGED <<tables, asset, created, recent, todo, top, pending, arrived, load, words>>

(* UpdateClassification, whose error is dropped, and the change decided on *)
(* with the asset read before.                                             *)
UpdateClassification(b) ==
  /\ At(b, "write") /\ Goto(b, "titles")
  /\ \/ class' = [class EXCEPT ![asset[b]] = top[b]] /\ NoFault
     \/ Fault /\ UNCHANGED class
  /\ todo' = [todo EXCEPT ![b] = When(~created[b] /\ previous[b] # top[b],
                                      Change(b, "classification_changed", top[b]))]
  /\ UNCHANGED <<asset, created, recent, top, previous, pending, links, mergedInto,
                 changes, findings, arrived, load, words>>

(* detectHTTPChange: the two newest responses of the asset, whatever their *)
(* port; none when they cannot be read.                                    *)
DetectTitle(b) ==
  /\ At(b, "titles") /\ Goto(b, "findings")
  /\ LET responses == AsEvidence({o \in Observed(asset[b]) : Seen(o).source = "http"})
         differ == Len(responses) >= 2 /\ responses[1].facts # responses[2].facts
         asked == \E o \in Obs(b) : Seen(o).source = "http"
     IN  \/ /\ todo' = [todo EXCEPT ![b] =
                  When(differ /\ asked, Change(b, "http_title_changed", responses[1].facts))]
            /\ NoFault
         \/ asked /\ Fault /\ UNCHANGED todo
  /\ UNCHANGED <<tables, asset, created, recent, top, previous, pending, arrived, load, words>>

-----------------------------------------------------------------------------
(* Engine.Evaluate: what each advisory makes of an asset.                  *)
Evaluated(a) ==
  {[place |-> i, advisory |-> AdvisoryBundle[i], state |-> Finding(AdvisoryBundle[i], a)] :
     i \in DOMAIN AdvisoryBundle}

(* The handler after the scan, and PipelineSink after the ingest: GetAsset *)
(* fails for an asset that was merged, and the job with it.                *)
EvaluateAdvisories(b) ==
  /\ At(b, "findings")
  /\ \/ /\ mergedInto[asset[b]] = NoAsset /\ NoFault
        /\ Goto(b, "upsert")
        /\ pending' = [pending EXCEPT ![b] = {f \in Evaluated(class[asset[b]]) : f.state # "none"}]
     \/ mergedInto[asset[b]] # NoAsset /\ NoFault /\ Goto(b, "failed") /\ UNCHANGED pending
     \/ Fault /\ Goto(b, "failed") /\ UNCHANGED pending
  /\ UNCHANGED <<tables, asset, created, recent, todo, top, previous, arrived, load, words>>

(* A slip: a new state leaves no trace.                                    *)
ReevaluatedSilently(old, state) == [old EXCEPT !.state = state]

(* UpsertFinding on a row that exists: state and history, not the          *)
(* operator's word.                                                        *)
Reevaluated(old, state) ==
  [old EXCEPT !.state = state,
              !.history = IF old.state = state THEN @ ELSE Append(@, state)]
NewRow(state) == [state |-> state, disposition |-> "", history |-> <<state>>]

(* UpsertFinding is one transaction that reads, then writes: it takes      *)
(* effect at once, or fails, also when another commit came in between.     *)
UpsertFinding(b) ==
  /\ At(b, "upsert")
  /\ \E f \in pending[b] :
       LET key == [asset |-> asset[b], advisory |-> f.advisory]
           isNew == key \notin DOMAIN findings
       IN  /\ \A g \in pending[b] : f.place <= g.place
           /\ \/ /\ findings' = IF isNew THEN Added(findings, key, NewRow(f.state))
                              ELSE [findings EXCEPT ![key] = Reevaluated(@, f.state)]
                 /\ todo' = [todo EXCEPT ![b] =
                               When(isNew, Change(b, "new_finding", <<f.advisory, f.state>>))]
                 /\ pending' = [pending EXCEPT ![b] = @ \ {f}]
                 /\ NoFault /\ UNCHANGED pc
              \/ Fault /\ Goto(b, "failed") /\ UNCHANGED <<findings, todo, pending>>
  /\ UNCHANGED <<asset, created, recent, top, previous, links, class, mergedInto,
                 changes, arrived, load, words>>

Finish(b) ==
  /\ At(b, "upsert") /\ pending[b] = {} /\ Goto(b, "done")
  /\ UNCHANGED <<tables, asset, created, recent, todo, top, previous, pending,
                 arrived, load, faults, words>>

-----------------------------------------------------------------------------
(* A slip: the findings of the merged asset are dropped.                   *)
DropFindings(source, target) ==
  [k \in {k \in DOMAIN findings : k.asset # source} |-> findings[k]]

(* The part of MergeAssets after the identity tables: a finding of the     *)
(* source moves to the target, or is deleted with its history when the     *)
(* target has one of the same advisory.                                    *)
MoveFindings(source, target) ==
  LET moved(k) == [k EXCEPT !.asset = target]
      Back(k) == IF k \in DOMAIN findings THEN k ELSE [k EXCEPT !.asset = source]
      kept == {k \in DOMAIN findings : k.asset # source}
              \cup {moved(k) : k \in {k \in DOMAIN findings : k.asset = source}}
  IN  [k \in kept |-> findings[Back(k)]]

(* MergeAssets: identity is left to the module Identity. A change row      *)
(* moves, its dedupe key does not change.                                  *)
Merge(source, target) ==
  /\ source # target /\ {source, target} \subseteq DOMAIN class
  /\ mergedInto[source] = NoAsset /\ mergedInto[target] = NoAsset
  /\ mergedInto' = [mergedInto EXCEPT ![source] = target]
  /\ links' = {<<IF l[1] = source THEN target ELSE l[1], l[2]>> : l \in links}
  /\ changes' = [c \in DOMAIN changes |->
                   [changes[c] EXCEPT !.asset = IF @ = source THEN target ELSE @]]
  /\ findings' = MoveFindings(source, target)
  /\ UNCHANGED <<batchVars, class, arrived, load, faults, words>>

(* UpdateFindingDisposition, AcknowledgeChange                             *)
Judge == words < load.maxWords /\ words' = words + 1
SetDisposition(key, word) ==
  /\ Judge /\ findings[key].disposition # word
  /\ findings' = [findings EXCEPT ![key].disposition = word]
  /\ UNCHANGED <<batchVars, links, class, mergedInto, changes, arrived, load, faults>>
Acknowledge(c) ==
  /\ Judge
  /\ changes' = [changes EXCEPT ![c].acknowledged = ~@]
  /\ UNCHANGED <<batchVars, links, class, mergedInto, findings, arrived, load, faults>>

IngestBatch(b) ==
  \/ Collect(b) \/ Resolve(b) \/ AttachRest(b) \/ Detect(b) \/ Report(b)
  \/ Evaluate(b) \/ ReadAsset(b) \/ UpdateClassification(b) \/ DetectTitle(b)
Correlated(b) == EvaluateAdvisories(b) \/ UpsertFinding(b) \/ Finish(b)
Operator ==
  \/ \E source, target \in Assets : Merge(source, target)
  \/ \E key \in DOMAIN findings, word \in Words : SetDisposition(key, word)
  \/ \E c \in DOMAIN changes : Acknowledge(c)
Next == (\E b \in Batches : IngestBatch(b) \/ Correlated(b)) \/ Operator
Spec == Init /\ [][Next]_vars

-----------------------------------------------------------------------------
(* Every variable has its type; rows name assets that exist.               *)
Stages == {"idle", "resolve", "attach", "detect", "evaluate", "read", "write", "titles",
           "findings", "upsert", "done", "failed"}
TypeOK ==
  /\ pc \in [Batches -> Stages]
  /\ asset \in [Batches -> Assets \cup {NoAsset}]
  /\ created \in [Batches -> BOOLEAN]
  /\ \A b \in Batches : recent[b] \subseteq UNION {Obs(c) : c \in Batches}
  /\ \A b \in Batches : pc[b] \in {"attach", "detect", "evaluate", "read", "write"}
                         => asset[b] \in DOMAIN class
  /\ DOMAIN mergedInto = DOMAIN class /\ DOMAIN class \subseteq Assets
  /\ \A c \in DOMAIN changes : changes[c].asset \in DOMAIN class
  /\ \A k \in DOMAIN findings : k.asset \in DOMAIN class
  /\ \A l \in links : l[1] \in DOMAIN class

(* The assets that ended up in an asset by merges, with itself: from each  *)
(* of them merged_into leads to it.                                        *)
FollowsMerges(S) == \A x \in S \cap DOMAIN mergedInto : mergedInto[x] \in S \cup {NoAsset}
Lineage(a) == {x \in Assets : \A S \in SUBSET Assets : x \in S /\ FollowsMerges(S) => a \in S}

(* A service of an asset, seen by batches that resolved to it or to one    *)
(* that was merged into it, is reported (detectEndpointChanges) once all   *)
(* of them have looked, with two exceptions, the exact extent of what is   *)
(* missed: one of them found its asset, which is told of as a whole, or    *)
(* two were attached before either looked, and each took the other's       *)
(* observation for an earlier one.                                         *)
Serving(port) ==
  {b \in Batches : pc[b] \notin {"idle", "resolve"}
                   /\ \E o \in Obs(b) : Open(o) /\ Seen(o).port = port}
ReportedService(b, port) ==
  LET told == Change(b, "new_service", port)
  IN  told \in DOMAIN changes \/ told \in ToSet(todo[b])
Peers(port, a) == {b \in Serving(port) : asset[b] \in Lineage(a)}
MissedOnlyInRace ==
  faults = 0 => \A a \in DOMAIN class, port \in {Seen(o).port : o \in UNION {Obs(b) : b \in Batches}} :
    LET peers == Peers(port, a)
    IN  \/ peers = {} \/ \E b \in peers : pc[b] \in {"attach", "detect"}
        \/ \E b \in peers : created[b] \/ ReportedService(b, port)
        \/ \E b, c \in peers : b # c /\ recent[b] \cap Obs(c) # {} /\ recent[c] \cap Obs(b) # {}

(* No asset shows a classification nobody was told of: it was announced as *)
(* a change, or is about to be, or the batch that found the asset gave it  *)
(* (UpdateClassification, with the asset read before it by GetAsset).      *)
ShownWasAnnounced ==
  faults = 0 => \A a \in DOMAIN class : class[a] # Blank =>
    LET told == <<"classification_changed", a, class[a]>>
    IN  \/ told \in DOMAIN changes
        \/ \E b \in Batches : \/ told \in ToSet(todo[b])
                              \/ created[b] /\ asset[b] = a /\ top[b] = class[a]

(* The history of a finding ends in its state and has no two equal entries *)
(* in a row, whichever jobs evaluate it and whatever is merged             *)
(* (UpsertFinding).                                                        *)
HistoryChains ==
  \A k \in DOMAIN findings :
    LET h == findings[k].history
    IN  /\ h # <<>> /\ h[Len(h)] = findings[k].state
        /\ \A i \in 1..(Len(h) - 1) : h[i] # h[i + 1]

(* A finding says "likely" only when some batch of the asset, or of one    *)
(* merged into it, classified it as the product of the advisory            *)
(* (Correlate and Engine.Evaluate on the asset the job read).              *)
CeilingHolds ==
  \A k \in DOMAIN findings :
    findings[k].state = "potential" \/
      /\ findings[k].state = "likely"
      /\ \E b \in Batches : asset[b] \in Lineage(k.asset) /\ top[b].family = k.advisory.family

(* An import that goes on after a record has derived it entirely: its      *)
(* observations are attached; the advisories of the vendor it was          *)
(* identified with are findings, unless another batch of the asset         *)
(* identified it with another vendor; and nothing of the records after a   *)
(* failed one is touched (PipelineSink.AddObservation, Nmap, JSONL).       *)
Overruled(b) ==
  \E c \in Batches : /\ asset[c] = asset[b] /\ top[c] # Blank /\ top[c].vendor # top[b].vendor
                     /\ pc[c] \in {"titles", "findings", "upsert", "done", "failed"}
ImportedIsDerived ==
  \A i \in DOMAIN load.import :
    LET b == load.import[i]
    IN  /\ pc[b] = "done" =>
              /\ \A o \in Obs(b) : \E a \in DOMAIN class : asset[b] \in Lineage(a) /\ <<a, o>> \in links
              /\ top[b] # Blank /\ faults = 0 =>
                   \A n \in DOMAIN AdvisoryBundle : top[b].vendor = AdvisoryBundle[n].vendor =>
                     \/ \E k \in DOMAIN findings :
                          k.advisory = AdvisoryBundle[n] /\ asset[b] \in Lineage(k.asset)
                     \/ Overruled(b)
        /\ pc[b] # "idle" => \A j \in 1..(i - 1) : pc[load.import[j]] = "done"

(* One source alone never identifies an asset beyond its cap and the bonus *)
(* of a model, however many of its facts match (evaluateRule).             *)
OneSourceIsNotEnough ==
  \A b \in {b \in Batches : pc[b] = "evaluate"} : \A i \in DOMAIN Rules :
    LET ev == AsEvidence(Observed(asset[b]))
    IN  Cardinality(DOMAIN SourceTotals(Rules[i], ev)) <= 1
          => Score(Rules[i], ev, 0) <= SourceCap + 5

(* What an operator decided about a finding or a change is not undone by   *)
(* any batch or job (UpsertFinding, AddChange). And no step, a merge       *)
(* included, leaves an advisory without a finding on the asset that now    *)
(* stands for the one it was found on, though a merge that finds the       *)
(* advisory on the target deletes the other finding (MergeAssets).         *)
JudgementsKept ==
  [][/\ \A b \in Batches : IngestBatch(b) \/ Correlated(b) =>
          /\ \A k \in DOMAIN findings :
               k \in DOMAIN findings' /\ findings'[k].disposition = findings[k].disposition
          /\ \A c \in DOMAIN changes :
               c \in DOMAIN changes' /\ changes'[c].acknowledged = changes[c].acknowledged
     /\ \A k \in DOMAIN findings :
          \E kept \in DOMAIN findings' :
            /\ kept.advisory = k.advisory
            /\ kept.asset \in {k.asset, mergedInto'[k.asset]}]_vars
=============================================================================
